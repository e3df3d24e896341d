----------------------------- MODULE AcmeOrders -----------------------------
(***************************************************************************)
(* Certificate orders (nodns-bot-rs/src/acme.rs, handlers/acme_order.rs    *)
(* and the acme_orders table of store.rs).                                 *)
(*                                                                         *)
(* The order handler saves a row and spawns a task that drives the order   *)
(* through the CA; the task's progress is written to the row.  Callers     *)
(* poll the certificate handler, which hands a generated key out and       *)
(* clears it from the row.  At start, before anything is served, the bot   *)
(* marks the orders that a crash left unfinished as failed.                *)
(*                                                                         *)
(* A step of a task is one wait for the CA or the DNS server and the store *)
(* update that follows it.  The CA is external: it is modelled from how    *)
(* acme.rs uses it.  SQLite errors, the order log and the CA account are   *)
(* left out.  A generated key is encrypted in the row: with the key of the *)
(* configuration, or else with one that each start makes anew.             *)
(***************************************************************************)
EXTENDS Integers

CONSTANTS
    Orders,       \* order ids (UUIDs)
    Domains,      \* domains that have records in the store
    Callers,      \* concurrent requests to the certificate handler
    NoOrder,      \* no order
    MaxRestarts   \* bound on restarts of the bot

ASSUME AcmeAssumption ==
    /\ NoOrder \notin Orders
    /\ MaxRestarts \in Nat

VARIABLES
    row,       \* the table acme_orders
    task,      \* where the task of each order is, "none" if it has none
    txt,       \* whose challenge is published at _acme-challenge.<domain>
    ca,        \* what the CA makes of each order's challenge
    get,       \* certificate requests: the order whose key a caller has read
    taken,     \* history: orders whose key some caller has read
    todo,      \* orders that the recovery at start has not reached yet
    restarts,
    encryption_key  \* acme.encryption_key: "set", or "unset" and made per start

vars == <<row, task, txt, ca, get, taken, todo, restarts, encryption_key>>

Terminal == {"issued", "failed"}
Statuses == {"none", "pending", "ordering", "challenge_published", "verifying",
             "finalizing"} \cup Terminal

\* csr says what the request brought: nothing, a CSR, or one that is not base64.
\* A private key is "lost" when it is in the row but cannot be decrypted.
Row == [ status : Statuses, domain : Domains \cup {NoOrder},
         csr : {"none", "good", "bad"},
         certificate_pem : {"null", "cert"}, private_key_pem : {"null", "key", "lost"},
         error : {"null", "error", "interrupted", "key preserved"} ]

NoRow == [ status |-> "none", domain |-> NoOrder, csr |-> "none",
           certificate_pem |-> "null", private_key_pem |-> "null", error |-> "null" ]

Init ==
    /\ row = [o \in Orders |-> NoRow]
    /\ task = [o \in Orders |-> "none"]
    /\ txt = [d \in Domains |-> NoOrder]
    /\ ca = [o \in Orders |-> "new"]
    /\ get = [c \in Callers |-> NoOrder]
    /\ taken = {} /\ todo = {} /\ restarts = 0
    /\ encryption_key \in {"set", "unset"}

\* The HTTP server is up once the recovery is through.
Up == todo = {}

\* UPDATE acme_orders SET status, certificate_pem, private_key_pem, error:
\* all four columns are written, NULL where the caller passes None.
update_acme_order_status(o, status, cert, key, error) ==
    row' = [row EXCEPT ![o].status = status, ![o].certificate_pem = cert,
                       ![o].private_key_pem = key, ![o].error = error]

step == <<get, taken, todo, restarts, encryption_key>>
-----------------------------------------------------------------------------
(* acme_order_handler *)

\* The row is saved before the CSR is decoded: a bad one is answered with 400
\* and its order stays behind without a task.
acme_order_handler(o, d, csr) ==
    /\ Up
    /\ row[o].status = "none"
    /\ row' = [row EXCEPT ![o].status = "pending", ![o].domain = d, ![o].csr = csr]
    /\ task' = IF csr = "bad" THEN task ELSE [task EXCEPT ![o] = "account"]
    /\ UNCHANGED <<txt, ca, step>>
-----------------------------------------------------------------------------
(* run_acme_flow, from one await to the next *)

Goto(o, from, to) == task[o] = from /\ task' = [task EXCEPT ![o] = to]

get_or_create_account(o) ==
    /\ Goto(o, "account", "order")
    /\ UNCHANGED <<row, txt, ca, step>>

new_order(o) ==
    /\ Goto(o, "order", "authorize")
    /\ update_acme_order_status(o, "ordering", "null", "null", "null")
    /\ UNCHANGED <<txt, ca, step>>

\* The CA remembers that the domain was validated: no challenge is needed.
authorization_valid(o) ==
    /\ Goto(o, "authorize", "poll")
    /\ \E p \in Orders : row[p].domain = row[o].domain /\ ca[p] = "valid"
    /\ update_acme_order_status(o, "challenge_published", "null", "null", "null")
    /\ ca' = [ca EXCEPT ![o] = "valid"]
    /\ UNCHANGED <<txt, step>>

\* update_record replaces the TXT record set of the name.
publish_challenge(o) ==
    /\ Goto(o, "authorize", "ready")
    /\ txt' = [txt EXCEPT ![row[o].domain] = o]
    /\ UNCHANGED <<row, ca, step>>

set_ready(o) ==
    /\ Goto(o, "ready", "poll")
    /\ ca' = [ca EXCEPT ![o] = "ready"]
    /\ update_acme_order_status(o, "challenge_published", "null", "null", "null")
    /\ UNCHANGED <<txt, step>>

\* The CA looks the challenge up, and finds this order's or another's.
CaChecks(o) ==
    /\ ca[o] = "ready"
    /\ ca' = [ca EXCEPT ![o] = IF txt[row[o].domain] = o THEN "valid" ELSE "invalid"]
    /\ UNCHANGED <<row, task, txt, step>>

poll_ready(o) ==
    /\ ca[o] = "valid"
    /\ Goto(o, "poll", "finalize")
    /\ update_acme_order_status(o, "verifying", "null", "null", "null")
    /\ UNCHANGED <<txt, ca, step>>

\* With a CSR nothing is stored; without one the key is persisted at once.
finalize(o) ==
    /\ Goto(o, "finalize", "download")
    /\ IF row[o].csr = "good" THEN UNCHANGED row
       ELSE update_acme_order_status(o, "finalizing", "null", "key", "null")
    /\ UNCHANGED <<txt, ca, step>>

\* Mutant: the download writes the status again, and a null over the key.
mutant_download_forgets_key(o) ==
    /\ Goto(o, "download", "cleanup")
    /\ update_acme_order_status(o, "finalizing", "null", "null", "null")
    /\ UNCHANGED <<txt, ca, step>>

poll_certificate(o) ==
    /\ Goto(o, "download", "cleanup")
    /\ UNCHANGED <<row, txt, ca, step>>

\* delete_record removes the TXT record set; a failure is only logged.
cleanup(o) ==
    /\ Goto(o, "cleanup", "issue")
    /\ txt' \in {txt, [txt EXCEPT ![row[o].domain] = NoOrder]}
    /\ UNCHANGED <<row, ca, step>>

\* Mutant: the key that was persisted early is not written again.
mutant_issue_without_key(o) ==
    /\ Goto(o, "issue", "none")
    /\ update_acme_order_status(o, "issued", "cert", "null", "null")
    /\ UNCHANGED <<txt, ca, step>>

issue(o) ==
    /\ Goto(o, "issue", "none")
    /\ update_acme_order_status(o, "issued", "cert",
                                IF row[o].csr = "good" THEN "null" ELSE "key", "null")
    /\ UNCHANGED <<txt, ca, step>>

\* Mutant: the error is logged, the row is left.
mutant_failure_only_logged(o) ==
    /\ task[o] \notin {"none", "cleanup", "issue"}
    /\ task' = [task EXCEPT ![o] = "none"]
    /\ UNCHANGED <<row, txt, ca, step>>

\* Any wait for the CA or the DNS server may end in an error, except the
\* cleanup's: request_certificate marks the order failed.
request_certificate_fails(o) ==
    /\ task[o] \notin {"none", "cleanup", "issue"}
    /\ task' = [task EXCEPT ![o] = "none"]
    /\ update_acme_order_status(o, "failed", "null", "null", "error")
    /\ UNCHANGED <<txt, ca, step>>

TaskStep(o) ==
    \/ get_or_create_account(o) \/ new_order(o) \/ authorization_valid(o)
    \/ publish_challenge(o) \/ set_ready(o) \/ poll_ready(o) \/ finalize(o)
    \/ poll_certificate(o) \/ cleanup(o) \/ issue(o) \/ request_certificate_fails(o)
-----------------------------------------------------------------------------
(* acme_cert_handler *)

\* The order's owner asks; the row is read with its key.  One that cannot be
\* decrypted is answered as none, and stays in the row.
get_acme_order(c, o) ==
    /\ Up
    /\ get[c] = NoOrder
    /\ row[o].private_key_pem = "key"
    /\ get' = [get EXCEPT ![c] = o]
    /\ taken' = taken \cup {o}
    /\ UNCHANGED <<row, task, txt, ca, todo, restarts, encryption_key>>

\* The key is cleared, whatever the row has become, and the answer is sent.
clear_acme_private_key(c) ==
    /\ get[c] # NoOrder
    /\ row' = [row EXCEPT ![get[c]].private_key_pem = "null"]
    /\ get' = [get EXCEPT ![c] = NoOrder]
    /\ UNCHANGED <<task, txt, ca, taken, todo, restarts, encryption_key>>
-----------------------------------------------------------------------------
(* Restart and recover_pending_orders *)

\* Mutant: orders are looked for in the state they are created in.
mutant_list_pending == { o \in Orders : row[o].status = "pending" }

\* Mutant: finished orders are not left out.
mutant_list_all == { o \in Orders : row[o].status \notin {"none", "failed"} }

list_non_terminal_acme_orders ==
    { o \in Orders : row[o].status \notin Terminal \cup {"none"} }

\* What a start can read of the keys that are stored: without a configured
\* encryption key it makes a new one, and decrypt_private_key gives none of them.
decrypt_private_key(pem) ==
    IF pem = "key" /\ encryption_key = "unset" THEN "lost" ELSE pem

\* The tasks and the requests are gone; the table, the zone and the CA stay.
Restart ==
    /\ restarts < MaxRestarts
    /\ restarts' = restarts + 1
    /\ task' = [o \in Orders |-> "none"]
    /\ get' = [c \in Callers |-> NoOrder]
    /\ todo' = list_non_terminal_acme_orders
    /\ row' = [o \in Orders |->
                  [row[o] EXCEPT !.private_key_pem = decrypt_private_key(@)]]
    /\ UNCHANGED <<txt, ca, taken, encryption_key>>

recover_pending_orders(o) ==
    /\ o \in todo
    /\ todo' = todo \ {o}
    /\ update_acme_order_status(o, "failed", "null", "null",
           IF row[o].private_key_pem = "key" THEN "key preserved" ELSE "interrupted")
    /\ UNCHANGED <<task, txt, ca, get, taken, restarts, encryption_key>>

Next ==
    \/ \E o \in Orders :
          \/ \E d \in Domains, csr \in {"none", "good", "bad"} : acme_order_handler(o, d, csr)
          \/ TaskStep(o) \/ CaChecks(o) \/ recover_pending_orders(o)
          \/ \E c \in Callers : get_acme_order(c, o)
    \/ \E c \in Callers : clear_acme_private_key(c)
    \/ Restart

Spec == Init /\ [][Next]_vars

\* The runtime polls every task, and a wait for the CA or the DNS server ends in
\* an answer or in an error; the recovery loop runs on.  Nothing is assumed of
\* clients, nor of the CA's check of the challenge.
Fairness == \A o \in Orders : WF_vars(TaskStep(o)) /\ WF_vars(recover_pending_orders(o))

FairSpec == Spec /\ Fairness
-----------------------------------------------------------------------------
Pcs == {"none", "account", "order", "authorize", "ready", "poll", "finalize",
        "download", "cleanup", "issue"}

\* Types of the table, of the zone and of the tasks.
TypeOK ==
    /\ row \in [Orders -> Row]
    /\ task \in [Orders -> Pcs]
    /\ txt \in [Domains -> Orders \cup {NoOrder}]
    /\ ca \in [Orders -> {"new", "ready", "valid", "invalid"}]
    /\ get \in [Callers -> Orders \cup {NoOrder}]
    /\ taken \subseteq Orders /\ todo \subseteq Orders
    /\ restarts \in 0 .. MaxRestarts /\ encryption_key \in {"set", "unset"}

Unfinished(o) == row[o].status \notin Terminal \cup {"none"}

\* No order is left behind: one that is neither issued nor failed has a task
\* that works on it, or the recovery will reach it, in every interleaving of
\* failures and of restarts, of restarts during a recovery too.  (An order whose
\* CSR was refused is the exception: it was answered with an error.)
OrderHasWorker ==
    \A o \in Orders : Unfinished(o) => task[o] # "none" \/ o \in todo \/ row[o].csr = "bad"

\* An issued order can be used: its certificate is in the row, and a generated
\* key can be read there unless some request has read it, although requests clear
\* the key while the task is still writing the row.  Only a bot without
\* acme.encryption_key loses keys nobody has read, and only by a restart.
IssuedIsUsable ==
    \A o \in Orders : row[o].status = "issued" =>
        /\ row[o].certificate_pem = "cert"
        /\ row[o].csr = "none" =>
               \/ row[o].private_key_pem = "key" \/ o \in taken
               \/ row[o].private_key_pem = "lost" /\ encryption_key = "unset" /\ restarts > 0

\* The outcome of an order is final: neither a late step of its task nor the
\* recovery of a later start turns a failed order around or fails an issued one.
OutcomeIsFinal ==
    [][\A o \in Orders : row[o].status \in Terminal => row'[o].status = row[o].status]_vars

\* Every order that got a task is issued or failed in the end.
OrderSettles ==
    \A o \in Orders : (task[o] # "none") ~> (row[o].status \in Terminal)
-----------------------------------------------------------------------------
\* What a client sees of an order.  A row whose CSR was refused has no task.
outcomeOf(o) ==
    IF row[o].status # "none" /\ row[o].csr = "bad" THEN "refused"
    ELSE IF row[o].status \in Terminal \cup {"none"} THEN row[o].status ELSE "open"

Service == INSTANCE OrderService WITH
    outcome <- [o \in Orders |-> outcomeOf(o)],
    generates <- { o \in Orders : row[o].status # "none" /\ row[o].csr = "none" },
    held <- { o \in Orders : row[o].private_key_pem = "key" },
    durable <- encryption_key = "set"

\* The orders of the bot are those of the service it promises: whatever task,
\* callers, crashes and recovery do to the rows, an outcome is final, and a
\* generated key is there from before the order is issued until it is read, or
\* until a restart of a bot that has no lasting encryption key.
ImplementsService == Service!ServiceSpec
-----------------------------------------------------------------------------
\* recover_pending_orders tells the owner "private key preserved": then the row
\* still has it, until its owner takes it.
PreservedKeyIsThere ==
    \A o \in Orders : row[o].error = "key preserved" =>
        row[o].private_key_pem = "key" \/ o \in taken
=============================================================================
