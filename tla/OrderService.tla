---------------------------- MODULE OrderService ----------------------------
(***************************************************************************)
(* What the bot promises to those who order a certificate: the orders as   *)
(* the HTTP handlers show them, without the task that drives an order.     *)
(* AcmeOrders implements it; CertRequest is a client of it.                *)
(*                                                                         *)
(* An order is open until it is issued or failed, and stays what it became *)
(* then.  If it came without a CSR the bot generates its key, keeps it     *)
(* from before the order is issued, writes it again when it is issued, and *)
(* clears it after some request has read it.  A bot whose encryption key   *)
(* does not last loses, at a restart, every key it has.                    *)
(***************************************************************************)
CONSTANTS Orders

VARIABLES
    outcome,    \* what has become of each order
    generates,  \* orders whose key the bot generates
    held,       \* orders whose key the bot has
    taken,      \* orders whose key some request has read
    durable     \* whether the key that the keys are encrypted with lasts

serviceVars == <<outcome, generates, held, taken, durable>>

ServiceTypeOK ==
    /\ outcome \in [Orders -> {"none", "refused", "open", "issued", "failed"}]
    /\ generates \subseteq Orders /\ held \subseteq generates /\ taken \subseteq generates
    /\ durable \in BOOLEAN

ServiceInit ==
    /\ outcome = [o \in Orders |-> "none"]
    /\ generates = {} /\ held = {} /\ taken = {} /\ durable \in BOOLEAN

\* A request for a certificate, with a CSR or without.
Accept(o, csr) ==
    /\ outcome[o] = "none"
    /\ outcome' = [outcome EXCEPT ![o] = "open"]
    /\ generates' = IF csr THEN generates ELSE generates \cup {o}
    /\ UNCHANGED <<held, taken>>

\* A request whose CSR is not base64.
Refuse(o) ==
    /\ outcome[o] = "none"
    /\ outcome' = [outcome EXCEPT ![o] = "refused"]
    /\ UNCHANGED <<generates, held, taken>>

KeepKey(o) ==
    /\ outcome[o] = "open" /\ o \in generates
    /\ held' = held \cup {o}
    /\ UNCHANGED <<outcome, generates, taken>>

Issue(o) ==
    /\ outcome[o] = "open"
    /\ outcome' = [outcome EXCEPT ![o] = "issued"]
    /\ held' = held \cup (generates \cap {o})
    /\ UNCHANGED <<generates, taken>>

Fail(o) ==
    /\ outcome[o] = "open"
    /\ outcome' = [outcome EXCEPT ![o] = "failed"]
    /\ held' = held \ {o}
    /\ UNCHANGED <<generates, taken>>

TakeKey(o) ==
    /\ o \in held
    /\ taken' = taken \cup {o}
    /\ UNCHANGED <<outcome, generates, held>>

ClearKey(o) ==
    /\ o \in taken
    /\ held' = held \ {o}
    /\ UNCHANGED <<outcome, generates, taken>>

\* A restart with another encryption key.
LoseKeys ==
    /\ ~durable
    /\ held' = {}
    /\ UNCHANGED <<outcome, generates, taken>>

ServiceNext ==
    /\ durable' = durable
    /\ \/ LoseKeys
       \/ \E o \in Orders :
             \/ \E csr \in BOOLEAN : Accept(o, csr)
             \/ Refuse(o) \/ KeepKey(o) \/ Issue(o) \/ Fail(o) \/ TakeKey(o) \/ ClearKey(o)

ServiceSpec == ServiceInit /\ [][ServiceNext]_serviceVars
=============================================================================
