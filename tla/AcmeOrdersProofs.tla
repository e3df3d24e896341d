-------------------------- MODULE AcmeOrdersProofs --------------------------
(***************************************************************************)
(* Proofs about AcmeOrders, for every number of orders, domains, callers   *)
(* and restarts: its safety, and that it implements OrderService.          *)
(***************************************************************************)
EXTENDS AcmeOrders, TLAPS

\* Tasks and recovery share the unfinished orders out: a task works on an order
\* that is unfinished and that no recovery will touch, the recovery's list holds
\* unfinished orders only, and a request that is clearing a key has read one.
WorkInv ==
    /\ \A o \in Orders : task[o] # "none" => Unfinished(o) /\ o \notin todo
                                             /\ row[o].domain \in Domains
    /\ \A o \in todo : Unfinished(o)
    /\ \A c \in Callers : get[c] # NoOrder => get[c] \in taken

AcmeInv == TypeOK /\ WorkInv /\ OrderHasWorker /\ IssuedIsUsable

\* What clearing a key does: nothing but clear that key.
LEMMA ClearRow ==
    ASSUME row \in [Orders -> Row], NEW c \in Callers, get[c] \in Orders,
           clear_acme_private_key(c)
    PROVE  /\ row' \in [Orders -> Row]
           /\ \A p \in Orders : /\ row'[p].status = row[p].status
                                /\ row'[p].csr = row[p].csr
                                /\ row'[p].domain = row[p].domain
                                /\ row'[p].certificate_pem = row[p].certificate_pem
                                /\ p # get[c] => row'[p] = row[p]
<1> DEFINE o == get[c]
           new == [row[o] EXCEPT !.private_key_pem = "null"]
<1>1. row[o] \in Row
  OBVIOUS
<1>2. row' = [row EXCEPT ![o] = new]
  BY DEF clear_acme_private_key
<1>3. /\ new \in Row
      /\ new.status = row[o].status /\ new.csr = row[o].csr
      /\ new.domain = row[o].domain /\ new.certificate_pem = row[o].certificate_pem
  BY <1>1 DEF Row
<1> HIDE DEF new
<1> QED BY <1>2, <1>3

\* What a restart does to the rows: it may lose keys that are stored, and only
\* those of a bot without a configured encryption key.
LEMMA RestartRow ==
    ASSUME row \in [Orders -> Row], Restart
    PROVE  /\ row' \in [Orders -> Row]
           /\ \A p \in Orders : /\ row'[p].status = row[p].status
                                /\ row'[p].csr = row[p].csr
                                /\ row'[p].domain = row[p].domain
                                /\ row'[p].certificate_pem = row[p].certificate_pem
                                /\ row'[p].private_key_pem
                                     = decrypt_private_key(row[p].private_key_pem)
<1> SUFFICES ASSUME NEW p \in Orders
    PROVE  /\ row'[p] \in Row
           /\ row'[p].status = row[p].status /\ row'[p].csr = row[p].csr
           /\ row'[p].domain = row[p].domain
           /\ row'[p].certificate_pem = row[p].certificate_pem
           /\ row'[p].private_key_pem = decrypt_private_key(row[p].private_key_pem)
  BY DEF Restart
<1> DEFINE pem == decrypt_private_key(row[p].private_key_pem)
           new == [row[p] EXCEPT !.private_key_pem = pem]
<1>1. row[p] \in Row /\ row'[p] = new
  BY DEF Restart
<1>2. pem \in {"null", "key", "lost"}
  BY <1>1 DEF Row, decrypt_private_key
<1> HIDE DEF pem
<1>3. /\ new \in Row /\ new.status = row[p].status /\ new.csr = row[p].csr
      /\ new.domain = row[p].domain /\ new.certificate_pem = row[p].certificate_pem
      /\ new.private_key_pem = pem
  BY <1>1, <1>2 DEF Row
<1> QED BY <1>1, <1>3 DEF pem

\* The bot starts with an empty table and nothing to recover.
LEMMA AcmeInit == Init => AcmeInv
BY AcmeAssumption
   DEF Init, AcmeInv, TypeOK, WorkInv, OrderHasWorker, IssuedIsUsable, Unfinished, NoRow,
       Row, Statuses, Terminal, Pcs

\* A step of a task that leaves the row alone and goes on.
LEMMA GoOn ==
    ASSUME AcmeInv, NEW o \in Orders, NEW from \in Pcs, NEW to \in Pcs \ {"none"},
           from # "none", Goto(o, from, to), row' = row, UNCHANGED step,
           txt' \in [Domains -> Orders \cup {NoOrder}],
           ca' \in [Orders -> {"new", "ready", "valid", "invalid"}]
    PROVE  AcmeInv'
BY DEF AcmeInv, TypeOK, WorkInv, OrderHasWorker, IssuedIsUsable, Unfinished, Goto, step

\* A step of a task that writes an unfinished status and goes on.
LEMMA Progress ==
    ASSUME AcmeInv, NEW o \in Orders, NEW from \in Pcs, NEW to \in Pcs \ {"none"},
           from # "none", Goto(o, from, to), UNCHANGED step,
           NEW status \in Statuses \ (Terminal \cup {"none"}), NEW key \in {"null", "key"},
           update_acme_order_status(o, status, "null", key, "null"),
           txt' = txt, ca' \in [Orders -> {"new", "ready", "valid", "invalid"}]
    PROVE  AcmeInv'
<1> DEFINE new == [row[o] EXCEPT !.status = status, !.certificate_pem = "null",
                                !.private_key_pem = key, !.error = "null"]
<1>0. row \in [Orders -> Row] /\ row[o] \in Row /\ status \in Statuses
  BY DEF AcmeInv, TypeOK, Statuses
<1>a. row' = [row EXCEPT ![o] = new]
  BY <1>0 DEF update_acme_order_status
<1>b. new \in Row /\ new.status = status /\ new.csr = row[o].csr /\ new.domain = row[o].domain
  BY <1>0 DEF Row
<1> HIDE DEF new
<1>1. /\ row' \in [Orders -> Row]
      /\ \A p \in Orders : p # o => row'[p] = row[p]
      /\ row'[o].status = status /\ row'[o].csr = row[o].csr
      /\ row'[o].domain = row[o].domain
  BY <1>0, <1>a, <1>b
<1>2. TypeOK'
  BY <1>1 DEF AcmeInv, TypeOK, Goto, step
<1>3. WorkInv'
  BY <1>1 DEF AcmeInv, TypeOK, WorkInv, Unfinished, Goto, step
<1>4. OrderHasWorker'
  BY <1>1 DEF AcmeInv, TypeOK, OrderHasWorker, Unfinished, Goto, step
<1>5. IssuedIsUsable'
  BY <1>1 DEF AcmeInv, IssuedIsUsable, Terminal, step
<1> QED BY <1>2, <1>3, <1>4, <1>5 DEF AcmeInv

\* The last step of a task, or the recovery of an order: the status is terminal.
LEMMA Finishes ==
    ASSUME AcmeInv, NEW o \in Orders, NEW status \in Terminal,
           NEW cert \in {"null", "cert"}, NEW key \in {"null", "key"},
           NEW error \in {"null", "error", "interrupted", "key preserved"},
           update_acme_order_status(o, status, cert, key, error),
           status = "issued" => cert = "cert" /\ (row[o].csr = "none" => key = "key"),
           task' = [task EXCEPT ![o] = "none"], todo' = todo \ {o},
           UNCHANGED <<txt, ca, get, taken, restarts, encryption_key>>
    PROVE  AcmeInv'
<1> DEFINE new == [row[o] EXCEPT !.status = status, !.certificate_pem = cert,
                                !.private_key_pem = key, !.error = error]
<1>0. row \in [Orders -> Row] /\ row[o] \in Row /\ status \in Statuses
  BY DEF AcmeInv, TypeOK, Statuses
<1>a. row' = [row EXCEPT ![o] = new]
  BY <1>0 DEF update_acme_order_status
<1>b. new \in Row /\ new.status = status /\ new.csr = row[o].csr 
      /\ new.certificate_pem = cert /\ new.private_key_pem = key
  BY <1>0 DEF Row
<1> HIDE DEF new
<1>1. /\ row' \in [Orders -> Row]
      /\ \A p \in Orders : p # o => row'[p] = row[p]
      /\ row'[o].status = status /\ row'[o].csr = row[o].csr
      /\ row'[o].certificate_pem = cert /\ row'[o].private_key_pem = key
  BY <1>0, <1>a, <1>b
<1>2. TypeOK'
  BY <1>1 DEF AcmeInv, TypeOK, Pcs
<1>3. WorkInv'
  BY <1>1 DEF AcmeInv, TypeOK, WorkInv, Unfinished
<1>4. OrderHasWorker'
  BY <1>1 DEF AcmeInv, TypeOK, OrderHasWorker, Unfinished, Terminal
<1>5. IssuedIsUsable'
  BY <1>1 DEF AcmeInv, IssuedIsUsable, Terminal
<1> QED BY <1>2, <1>3, <1>4, <1>5 DEF AcmeInv

\* Every step keeps the invariant.
LEMMA AcmeNext == AcmeInv /\ [Next]_vars => AcmeInv'
<1> SUFFICES ASSUME AcmeInv, [Next]_vars PROVE AcmeInv'
  OBVIOUS
<1> USE AcmeAssumption
<1>1. ASSUME NEW o \in Orders, NEW d \in Domains, NEW csr \in {"none", "good", "bad"},
             acme_order_handler(o, d, csr)
      PROVE  AcmeInv'
  <2>1. /\ row' \in [Orders -> Row]
        /\ \A p \in Orders : p # o => row'[p] = row[p]
        /\ row'[o].status = "pending" /\ row'[o].csr = csr /\ row'[o].domain = d
    <3> DEFINE new == [row[o] EXCEPT !.status = "pending", !.domain = d, !.csr = csr]
    <3>1. row[o] \in Row /\ row \in [Orders -> Row]
      BY DEF AcmeInv, TypeOK
    <3>2. row' = [row EXCEPT ![o] = new]
      BY <1>1 DEF acme_order_handler
    <3>3. new \in Row /\ new.status = "pending" /\ new.csr = csr /\ new.domain = d
      BY <3>1 DEF Row, Statuses
    <3> HIDE DEF new
    <3> QED BY <3>1, <3>2, <3>3
  <2>2. TypeOK'
    BY <1>1, <2>1 DEF acme_order_handler, AcmeInv, TypeOK, Pcs, step
  <2>3. task[o] = "none" /\ todo = {}
    BY <1>1 DEF acme_order_handler, Up, AcmeInv, WorkInv, Unfinished
  <2>4. WorkInv'
    BY <1>1, <2>1, <2>3 DEF acme_order_handler, AcmeInv, TypeOK, WorkInv, Unfinished, Terminal, step
  <2>5. OrderHasWorker'
    BY <1>1, <2>1, <2>3 DEF acme_order_handler, AcmeInv, TypeOK, OrderHasWorker, Unfinished, step
  <2>6. IssuedIsUsable'
    BY <1>1, <2>1 DEF acme_order_handler, AcmeInv, IssuedIsUsable, step
  <2> QED BY <2>2, <2>4, <2>5, <2>6 DEF AcmeInv
<1>2. ASSUME NEW o \in Orders, get_or_create_account(o) PROVE AcmeInv'
  BY <1>2, GoOn DEF get_or_create_account, Pcs, AcmeInv, TypeOK
<1>3. ASSUME NEW o \in Orders, new_order(o) PROVE AcmeInv'
  BY <1>3, Progress DEF new_order, Pcs, Statuses, Terminal, AcmeInv, TypeOK
<1>4. ASSUME NEW o \in Orders, authorization_valid(o) PROVE AcmeInv'
  <2>1. ca' \in [Orders -> {"new", "ready", "valid", "invalid"}]
    BY <1>4 DEF authorization_valid, AcmeInv, TypeOK
  <2> QED BY <1>4, <2>1, Progress DEF authorization_valid, Pcs, Statuses, Terminal
<1>5. ASSUME NEW o \in Orders, publish_challenge(o) PROVE AcmeInv'
  <2>1. row[o].domain \in Domains
    BY <1>5 DEF publish_challenge, Goto, AcmeInv, WorkInv
  <2>2. txt' \in [Domains -> Orders \cup {NoOrder}]
    BY <1>5, <2>1 DEF publish_challenge, AcmeInv, TypeOK
  <2> QED BY <1>5, <2>2, GoOn DEF publish_challenge, Pcs, AcmeInv, TypeOK
<1>6. ASSUME NEW o \in Orders, set_ready(o) PROVE AcmeInv'
  <2>1. ca' \in [Orders -> {"new", "ready", "valid", "invalid"}]
    BY <1>6 DEF set_ready, AcmeInv, TypeOK
  <2> QED BY <1>6, <2>1, Progress DEF set_ready, Pcs, Statuses, Terminal
<1>7. ASSUME NEW o \in Orders, CaChecks(o) PROVE AcmeInv'
  <2>1. ca' \in [Orders -> {"new", "ready", "valid", "invalid"}]
    BY <1>7 DEF CaChecks, AcmeInv, TypeOK
  <2> QED BY <1>7, <2>1
      DEF CaChecks, step, AcmeInv, TypeOK, WorkInv, OrderHasWorker, IssuedIsUsable, Unfinished
<1>8. ASSUME NEW o \in Orders, poll_ready(o) PROVE AcmeInv'
  BY <1>8, Progress DEF poll_ready, Pcs, Statuses, Terminal, AcmeInv, TypeOK
<1>9. ASSUME NEW o \in Orders, finalize(o) PROVE AcmeInv'
  <2>1. CASE row[o].csr = "good"
    BY <1>9, <2>1, GoOn DEF finalize, Pcs, AcmeInv, TypeOK
  <2>2. CASE row[o].csr # "good"
    BY <1>9, <2>2, Progress DEF finalize, Pcs, Statuses, Terminal, AcmeInv, TypeOK
  <2> QED BY <2>1, <2>2
<1>10. ASSUME NEW o \in Orders, poll_certificate(o) PROVE AcmeInv'
  BY <1>10, GoOn DEF poll_certificate, Pcs, AcmeInv, TypeOK
<1>11. ASSUME NEW o \in Orders, cleanup(o) PROVE AcmeInv'
  <2>1. row[o].domain \in Domains
    BY <1>11 DEF cleanup, Goto, AcmeInv, WorkInv
  <2>2. txt' \in [Domains -> Orders \cup {NoOrder}]
    BY <1>11, <2>1 DEF cleanup, AcmeInv, TypeOK
  <2> QED BY <1>11, <2>2, GoOn DEF cleanup, Pcs, AcmeInv, TypeOK
<1>12. ASSUME NEW o \in Orders, issue(o) PROVE AcmeInv'
  <2>1. o \notin todo
    BY <1>12 DEF issue, Goto, AcmeInv, WorkInv
  <2>2. todo' = todo \ {o} /\ UNCHANGED <<txt, ca, get, taken, restarts, encryption_key>>
    BY <1>12, <2>1 DEF issue, step
  <2>3. CASE row[o].csr = "good"
    BY <1>12, <2>2, <2>3, Finishes DEF issue, Goto, Terminal
  <2>4. CASE row[o].csr # "good"
    BY <1>12, <2>2, <2>4, Finishes DEF issue, Goto, Terminal
  <2> QED BY <2>3, <2>4
<1>13. ASSUME NEW o \in Orders, request_certificate_fails(o) PROVE AcmeInv'
  <2>1. o \notin todo
    BY <1>13 DEF request_certificate_fails, AcmeInv, WorkInv
  <2>2. todo' = todo \ {o} /\ UNCHANGED <<txt, ca, get, taken, restarts, encryption_key>>
    BY <1>13, <2>1 DEF request_certificate_fails, step
  <2> QED BY <1>13, <2>2, Finishes DEF request_certificate_fails, Terminal
<1>14. ASSUME NEW o \in Orders, recover_pending_orders(o) PROVE AcmeInv'
  <2>1. task' = [task EXCEPT ![o] = "none"]
    BY <1>14 DEF recover_pending_orders, AcmeInv, TypeOK, WorkInv
  <2>2. CASE row[o].private_key_pem = "key"
    BY <1>14, <2>1, <2>2, Finishes DEF recover_pending_orders, Terminal
  <2>3. CASE row[o].private_key_pem # "key"
    BY <1>14, <2>1, <2>3, Finishes DEF recover_pending_orders, Terminal
  <2> QED BY <2>2, <2>3
<1>15. ASSUME NEW o \in Orders, NEW c \in Callers, get_acme_order(c, o) PROVE AcmeInv'
  BY <1>15 DEF get_acme_order, AcmeInv, TypeOK, WorkInv, OrderHasWorker, IssuedIsUsable, Unfinished
<1>16. ASSUME NEW c \in Callers, clear_acme_private_key(c) PROVE AcmeInv'
  <2>1. get[c] \in Orders /\ get[c] \in taken
    BY <1>16 DEF clear_acme_private_key, AcmeInv, TypeOK, WorkInv
  <2>2. /\ row' \in [Orders -> Row]
        /\ \A p \in Orders : /\ row'[p].status = row[p].status
                             /\ row'[p].csr = row[p].csr
                             /\ row'[p].domain = row[p].domain
                             /\ row'[p].certificate_pem = row[p].certificate_pem
                             /\ p # get[c] => row'[p] = row[p]
    <3>1. row \in [Orders -> Row]
      BY DEF AcmeInv, TypeOK
    <3> QED BY <1>16, <2>1, <3>1, ClearRow
  <2>3. TypeOK'
    BY <1>16, <2>2 DEF clear_acme_private_key, AcmeInv, TypeOK
  <2>4. WorkInv'
    BY <1>16, <2>2 DEF clear_acme_private_key, AcmeInv, TypeOK, WorkInv, Unfinished
  <2>5. OrderHasWorker'
    BY <1>16, <2>2 DEF clear_acme_private_key, AcmeInv, OrderHasWorker, Unfinished
  <2>6. IssuedIsUsable'
    BY <1>16, <2>1, <2>2 DEF clear_acme_private_key, AcmeInv, IssuedIsUsable
  <2> QED BY <2>3, <2>4, <2>5, <2>6 DEF AcmeInv
<1>17. CASE Restart
  <2>1. /\ row' \in [Orders -> Row]
        /\ \A p \in Orders : /\ row'[p].status = row[p].status
                             /\ row'[p].csr = row[p].csr
                             /\ row'[p].certificate_pem = row[p].certificate_pem
                             /\ row'[p].private_key_pem
                                  = decrypt_private_key(row[p].private_key_pem)
    BY <1>17, RestartRow DEF AcmeInv, TypeOK
  <2>2. TypeOK'
    BY <1>17, <2>1 DEF Restart, list_non_terminal_acme_orders, AcmeInv, TypeOK, Pcs
  <2>3. WorkInv' /\ OrderHasWorker'
    BY <1>17, <2>1
    DEF Restart, list_non_terminal_acme_orders, AcmeInv, TypeOK, WorkInv, OrderHasWorker,
        Unfinished
  <2>4. restarts' > 0 /\ taken' = taken /\ encryption_key' = encryption_key
    BY <1>17 DEF Restart, AcmeInv, TypeOK
  <2>5. encryption_key \in {"set", "unset"}
    BY DEF AcmeInv, TypeOK
  <2>6. IssuedIsUsable'
    BY <2>1, <2>4, <2>5 DEF AcmeInv, IssuedIsUsable, decrypt_private_key
  <2> QED BY <2>2, <2>3, <2>6 DEF AcmeInv
<1>18. CASE UNCHANGED vars
  BY <1>18 DEF vars, AcmeInv, TypeOK, WorkInv, OrderHasWorker, IssuedIsUsable, Unfinished
<1> QED
  BY <1>1, <1>2, <1>3, <1>4, <1>5, <1>6, <1>7, <1>8, <1>9, <1>10, <1>11, <1>12, <1>13,
     <1>14, <1>15, <1>16, <1>17, <1>18
  DEF Next, TaskStep

\* The invariant holds in every reachable state.
LEMMA AcmeSafe == Spec => []AcmeInv
BY AcmeInit, AcmeNext, PTL DEF Spec

\* The rows, the tasks and the requests keep their types.
THEOREM TypeCorrect == Spec => []TypeOK
<1>1. AcmeInv => TypeOK
  BY DEF AcmeInv
<1> QED BY <1>1, AcmeSafe, PTL

\* No order is left behind by a failure, a restart or a restart during recovery.
THEOREM OrdersHaveWorkers == Spec => []OrderHasWorker
<1>1. AcmeInv => OrderHasWorker
  BY DEF AcmeInv
<1> QED BY <1>1, AcmeSafe, PTL

\* An issued order has its certificate, and its key unless a caller took it, or
\* a restart of a bot without acme.encryption_key made it unreadable.
THEOREM IssuedUsable == Spec => []IssuedIsUsable
<1>1. AcmeInv => IssuedIsUsable
  BY DEF AcmeInv
<1> QED BY <1>1, AcmeSafe, PTL

\* No step changes the status of an order that is issued or failed.
THEOREM OutcomesFinal == Spec => OutcomeIsFinal
<1> DEFINE Final == \A o \in Orders : row[o].status \in Terminal => row'[o].status = row[o].status
<1>1. AcmeInv /\ [Next]_vars => [Final]_vars
  <2> SUFFICES ASSUME AcmeInv, Next PROVE Final
    OBVIOUS
  <2> USE DEF AcmeInv, TypeOK, WorkInv, Unfinished, update_acme_order_status, Goto
  <2>1. ASSUME NEW o \in Orders, NEW d \in Domains, NEW csr \in {"none", "good", "bad"},
               acme_order_handler(o, d, csr)
        PROVE  Final
    BY <2>1 DEF acme_order_handler, Terminal
  <2>2. ASSUME NEW o \in Orders, TaskStep(o) PROVE Final
    <3>1. row[o].status \notin Terminal
      BY <2>2 DEF TaskStep, get_or_create_account, new_order, authorization_valid,
         publish_challenge, set_ready, poll_ready, finalize, poll_certificate, cleanup, issue,
         request_certificate_fails
    <3>2. \A p \in Orders : p # o => row'[p] = row[p]
      BY <2>2 DEF TaskStep, get_or_create_account, new_order, authorization_valid,
         publish_challenge, set_ready, poll_ready, finalize, poll_certificate, cleanup, issue,
         request_certificate_fails
    <3> QED BY <3>1, <3>2
  <2>3. ASSUME NEW o \in Orders, CaChecks(o) \/ (\E c \in Callers : get_acme_order(c, o))
        PROVE  Final
    BY <2>3 DEF CaChecks, get_acme_order
  <2>4. ASSUME NEW o \in Orders, recover_pending_orders(o) PROVE Final
    BY <2>4 DEF recover_pending_orders
  <2>5. ASSUME NEW c \in Callers, clear_acme_private_key(c) PROVE Final
    <3>1. get[c] \in Orders
      BY <2>5 DEF clear_acme_private_key
    <3> QED BY <2>5, <3>1, ClearRow
  <2>6. CASE Restart
    BY <2>6, RestartRow
  <2> QED BY <2>1, <2>2, <2>3, <2>4, <2>5, <2>6 DEF Next
<1> QED BY <1>1, AcmeSafe, PTL DEF Spec, OutcomeIsFinal
-----------------------------------------------------------------------------
(***************************************************************************)
(* AcmeOrders implements OrderService.                                     *)
(***************************************************************************)

\* A key in a row is one that the bot generated, and is not there before the
\* task has come to "finalize"; an order that has a task brought no bad CSR; a
\* key that was read was a generated one.
Early == {"account", "order", "authorize", "ready", "poll", "finalize"}

KeyInv ==
    /\ \A o \in Orders : row[o].private_key_pem = "key" =>
         /\ row[o].csr = "none" /\ row[o].status # "none"
         /\ task[o] \notin Early
    /\ \A o \in Orders : task[o] # "none" => row[o].csr # "bad"
    /\ \A o \in taken : row[o].csr = "none" /\ row[o].status # "none"

RefInv == AcmeInv /\ KeyInv

\* What an update of a row writes.
LEMMA Updates ==
    ASSUME row \in [Orders -> Row], NEW o \in Orders, NEW status, NEW cert, NEW key, NEW error,
           update_acme_order_status(o, status, cert, key, error)
    PROVE  /\ \A p \in Orders : p # o => row'[p] = row[p]
           /\ row'[o].status = status /\ row'[o].csr = row[o].csr
           /\ row'[o].private_key_pem = key
<1> DEFINE new == [row[o] EXCEPT !.status = status, !.certificate_pem = cert,
                                !.private_key_pem = key, !.error = error]
<1>1. row[o] \in Row
  OBVIOUS
<1>2. row' = [row EXCEPT ![o] = new]
  BY <1>1 DEF update_acme_order_status
<1>3. new.status = status /\ new.csr = row[o].csr /\ new.private_key_pem = key
  BY <1>1 DEF Row
<1> HIDE DEF new
<1> QED BY <1>2, <1>3

\* Rows that a client sees unchanged are a stutter of the service.
LEMMA Stutters ==
    ASSUME \A p \in Orders : /\ outcomeOf(p)' = outcomeOf(p)
                             /\ row'[p].status = "none" <=> row[p].status = "none"
                             /\ row'[p].csr = row[p].csr
                             /\ row'[p].private_key_pem = "key" <=> row[p].private_key_pem = "key",
           taken' = taken, encryption_key' = encryption_key
    PROVE  UNCHANGED Service!serviceVars
BY DEF Service!serviceVars, outcomeOf

\* The bot starts as the service does.
LEMMA RefInit == Init => KeyInv /\ Service!ServiceInit
BY DEF Init, NoRow, KeyInv, Service!ServiceInit, outcomeOf, Terminal

\* The effects of a task's step that writes an unfinished status: the service
\* stutters where the step leaves the key out, and keeps the key where it does not.
LEMMA WorkGoesOn ==
    ASSUME RefInv, NEW o \in Orders, task[o] # "none",
           NEW status \in Statuses \ (Terminal \cup {"none"}), NEW key \in {"null", "key"},
           key = "key" => row[o].csr = "none",
           key = "null" => row[o].private_key_pem # "key",
           update_acme_order_status(o, status, "null", key, "null"), taken' = taken,
           encryption_key' = encryption_key
    PROVE  Service!KeepKey(o) \/ UNCHANGED Service!serviceVars
<1>1. /\ \A p \in Orders : p # o => row'[p] = row[p]
      /\ row'[o].status = status /\ row'[o].csr = row[o].csr
      /\ row'[o].private_key_pem = key
  BY Updates DEF RefInv, AcmeInv, TypeOK
<1>2. row[o].csr = "none" \/ row[o].csr = "good"
  BY DEF RefInv, KeyInv, AcmeInv, TypeOK, Row
<1>3. Unfinished(o) /\ row[o].private_key_pem \in {"null", "key", "lost"}
  BY DEF RefInv, AcmeInv, WorkInv, TypeOK, Row
<1>4. \A p \in Orders : outcomeOf(p)' = outcomeOf(p)
  BY <1>1, <1>2, <1>3 DEF outcomeOf, Unfinished
<1>5. CASE key = "null"
  BY <1>1, <1>3, <1>4, <1>5, Stutters DEF Unfinished
<1>6. CASE key = "key"
  BY <1>1, <1>2, <1>3, <1>4, <1>6 DEF Service!KeepKey, outcomeOf, Unfinished
<1> QED BY <1>5, <1>6

\* A task, or the recovery, that fails an order which was not refused.
LEMMA FailsOrder ==
    ASSUME RefInv, NEW o \in Orders, Unfinished(o), NEW error,
           update_acme_order_status(o, "failed", "null", "null", error), taken' = taken,
           encryption_key' = encryption_key
    PROVE  Service!Fail(o) \/ UNCHANGED Service!serviceVars
<1>1. /\ \A p \in Orders : p # o => row'[p] = row[p]
      /\ row'[o].status = "failed" /\ row'[o].csr = row[o].csr
      /\ row'[o].private_key_pem = "null"
  BY Updates DEF RefInv, AcmeInv, TypeOK
<1>2. CASE row[o].csr = "bad"
  <2>1. row[o].private_key_pem # "key" /\ row[o].private_key_pem \in {"null", "key", "lost"}
    BY <1>2 DEF RefInv, KeyInv, AcmeInv, TypeOK, Row
  <2> QED BY <1>1, <1>2, <2>1, Stutters DEF Unfinished, outcomeOf
<1>3. CASE row[o].csr # "bad"
  BY <1>1, <1>3 DEF Service!Fail, outcomeOf, Unfinished, Terminal
<1> QED BY <1>2, <1>3

\* Each step of the bot is one of the service, or none.
LEMMA RefStep ==
    ASSUME RefInv, [Next]_vars
    PROVE  [Service!ServiceNext]_Service!serviceVars
<1> DEFINE Step == Service!ServiceNext \/ UNCHANGED Service!serviceVars
<1>1. ASSUME NEW o \in Orders, NEW d \in Domains, NEW csr \in {"none", "good", "bad"},
             acme_order_handler(o, d, csr)
      PROVE  Step
  <2>1. /\ \A p \in Orders : p # o => row'[p] = row[p]
        /\ row'[o].status = "pending" /\ row'[o].csr = csr
        /\ row'[o].private_key_pem = row[o].private_key_pem
    <3> DEFINE new == [row[o] EXCEPT !.status = "pending", !.domain = d, !.csr = csr]
    <3>1. row[o] \in Row /\ row \in [Orders -> Row]
      BY DEF RefInv, AcmeInv, TypeOK
    <3>2. row' = [row EXCEPT ![o] = new]
      BY <1>1 DEF acme_order_handler
    <3>3. new.status = "pending" /\ new.csr = csr /\ new.private_key_pem = row[o].private_key_pem
      BY <3>1 DEF Row
    <3> HIDE DEF new
    <3> QED BY <3>1, <3>2, <3>3
  <2>2. /\ row[o].status = "none" /\ row[o].private_key_pem # "key" /\ taken' = taken
        /\ encryption_key' = encryption_key
    BY <1>1 DEF acme_order_handler, RefInv, KeyInv, step
  <2>3. CASE csr = "bad"
    <3>1. Service!Refuse(o)
      BY <2>1, <2>2, <2>3 DEF Service!Refuse, outcomeOf, Terminal
    <3> QED BY <2>2, <3>1 DEF Service!ServiceNext
  <2>4. CASE csr \in {"none", "good"}
    <3>1. Service!Accept(o, csr = "good")
      BY <2>1, <2>2, <2>4 DEF Service!Accept, outcomeOf, Terminal
    <3>2. (csr = "good") \in BOOLEAN
      OBVIOUS
    <3> QED BY <2>2, <3>1, <3>2 DEF Service!ServiceNext
  <2> QED BY <2>3, <2>4
<1>2. ASSUME NEW o \in Orders, TaskStep(o) PROVE Step
  <2>1. /\ task[o] # "none" /\ Unfinished(o)
        /\ taken' = taken /\ encryption_key' = encryption_key
    BY <1>2 DEF TaskStep, get_or_create_account, new_order, authorization_valid,
       publish_challenge, set_ready, poll_ready, finalize, poll_certificate, cleanup, issue,
       request_certificate_fails, Goto, step, RefInv, AcmeInv, WorkInv
  <2>2. row[o].csr \in {"none", "good"}
    BY <2>1 DEF RefInv, KeyInv, AcmeInv, TypeOK, Row
  <2>3. CASE row' = row
    BY <2>1, <2>3, Stutters DEF outcomeOf
  <2>4. CASE new_order(o) \/ authorization_valid(o) \/ set_ready(o) \/ poll_ready(o)
    <3>1. row[o].private_key_pem # "key"
      BY <2>4 DEF new_order, authorization_valid, set_ready, poll_ready, Goto, RefInv, KeyInv, Early
    <3>2. PICK status \in {"ordering", "challenge_published", "verifying"} :
            update_acme_order_status(o, status, "null", "null", "null")
      BY <2>4 DEF new_order, authorization_valid, set_ready, poll_ready
    <3>3. status \in Statuses \ (Terminal \cup {"none"})
      BY DEF Statuses, Terminal
    <3> QED BY <2>1, <3>1, <3>2, <3>3, WorkGoesOn DEF Service!ServiceNext
  <2>5. CASE finalize(o) /\ row[o].csr # "good"
    <3>1. update_acme_order_status(o, "finalizing", "null", "key", "null")
      BY <2>5 DEF finalize
    <3>2. "finalizing" \in Statuses \ (Terminal \cup {"none"})
      BY DEF Statuses, Terminal
    <3> QED BY <2>1, <2>2, <2>5, <3>1, <3>2, WorkGoesOn DEF Service!ServiceNext
  <2>6. CASE issue(o)
    <3> DEFINE key == IF row[o].csr = "good" THEN "null" ELSE "key"
    <3>1. /\ \A p \in Orders : p # o => row'[p] = row[p]
          /\ row'[o].status = "issued" /\ row'[o].csr = row[o].csr
          /\ row'[o].private_key_pem = key
      BY <2>6, Updates DEF issue, RefInv, AcmeInv, TypeOK
    <3>2. row[o].csr = "good" => row[o].private_key_pem # "key"
      BY DEF RefInv, KeyInv
    <3>3. Service!Issue(o)
      BY <2>1, <2>2, <3>1, <3>2 DEF Service!Issue, outcomeOf, Unfinished, Terminal
    <3> QED BY <2>1, <3>3 DEF Service!ServiceNext
  <2>7. CASE request_certificate_fails(o)
    BY <2>1, <2>7, FailsOrder DEF request_certificate_fails, Service!ServiceNext
  <2> QED
    BY <1>2, <2>3, <2>4, <2>5, <2>6, <2>7
    DEF TaskStep, get_or_create_account, publish_challenge, finalize, poll_certificate, cleanup
<1>3. ASSUME NEW o \in Orders, CaChecks(o) PROVE Step
  BY <1>3, Stutters DEF CaChecks, step, outcomeOf
<1>4. ASSUME NEW o \in Orders, NEW c \in Callers, get_acme_order(c, o) PROVE Step
  <2>1. Service!TakeKey(o) /\ encryption_key' = encryption_key
    BY <1>4 DEF get_acme_order, Service!TakeKey, outcomeOf
  <2> QED BY <2>1 DEF Service!ServiceNext
<1>5. ASSUME NEW o \in Orders, recover_pending_orders(o) PROVE Step
  <2>1. Unfinished(o) /\ taken' = taken /\ encryption_key' = encryption_key
    BY <1>5 DEF recover_pending_orders, RefInv, AcmeInv, WorkInv
  <2> QED BY <1>5, <2>1, FailsOrder DEF recover_pending_orders, Service!ServiceNext
<1>6. ASSUME NEW c \in Callers, clear_acme_private_key(c) PROVE Step
  <2>1. get[c] \in Orders /\ get[c] \in taken
    BY <1>6 DEF clear_acme_private_key, RefInv, AcmeInv, TypeOK, WorkInv
  <2>2. \A p \in Orders : /\ row'[p].status = row[p].status /\ row'[p].csr = row[p].csr
                          /\ p # get[c] => row'[p] = row[p]
    BY <1>6, <2>1, ClearRow DEF RefInv, AcmeInv, TypeOK
  <2>3. /\ row'[get[c]].private_key_pem = "null" /\ taken' = taken
        /\ encryption_key' = encryption_key
    <3>1. row[get[c]] \in Row /\ row \in [Orders -> Row]
      BY <2>1 DEF RefInv, AcmeInv, TypeOK
    <3> QED BY <1>6, <2>1, <3>1 DEF clear_acme_private_key, Row
  <2>4. PICK o \in Orders : o = get[c]
    BY <2>1
  <2>5. Service!ClearKey(o)
    BY <2>1, <2>2, <2>3, <2>4 DEF Service!ClearKey, outcomeOf
  <2> QED BY <2>3, <2>5 DEF Service!ServiceNext
<1>7. CASE Restart
  <2>1. /\ \A p \in Orders : /\ row'[p].status = row[p].status /\ row'[p].csr = row[p].csr
                             /\ row'[p].private_key_pem
                                  = decrypt_private_key(row[p].private_key_pem)
        /\ taken' = taken /\ encryption_key' = encryption_key
    BY <1>7, RestartRow DEF Restart, RefInv, AcmeInv, TypeOK
  <2>2. CASE encryption_key = "set"
    BY <2>1, <2>2, Stutters DEF outcomeOf, decrypt_private_key
  <2>3. CASE encryption_key # "set"
    <3>1. encryption_key = "unset"
      BY <2>3 DEF RefInv, AcmeInv, TypeOK
    <3>2. Service!LoseKeys
      BY <2>1, <3>1 DEF Service!LoseKeys, outcomeOf, decrypt_private_key
    <3> QED BY <2>1, <3>2 DEF Service!ServiceNext
  <2> QED BY <2>2, <2>3
<1>8. CASE UNCHANGED vars
  BY <1>8, Stutters DEF vars, outcomeOf
<1> QED BY <1>1, <1>2, <1>3, <1>4, <1>5, <1>6, <1>7, <1>8 DEF Next

\* A step that changes no more than the row and the task of one order.
LEMMA KeepsKeys ==
    ASSUME RefInv, NEW o \in Orders,
           \A p \in Orders : p # o => row'[p] = row[p] /\ task'[p] = task[p],
           row'[o].csr = row[o].csr, row'[o].status # "none", taken' = taken,
           row'[o].private_key_pem = "key" => row[o].csr = "none" /\ task'[o] \notin Early,
           task'[o] # "none" => row[o].csr # "bad"
    PROVE  KeyInv'
BY DEF RefInv, KeyInv, AcmeInv, TypeOK

\* Every step keeps the invariant about keys.
LEMMA RefNext == RefInv /\ [Next]_vars => RefInv'
<1> SUFFICES ASSUME RefInv, [Next]_vars PROVE KeyInv'
  BY AcmeNext DEF RefInv
<1> USE DEF RefInv
<1>1. ASSUME NEW o \in Orders, NEW d \in Domains, NEW csr \in {"none", "good", "bad"},
             acme_order_handler(o, d, csr)
      PROVE  KeyInv'
  <2>1. /\ \A p \in Orders : p # o => row'[p] = row[p]
        /\ row'[o].csr = csr /\ row'[o].private_key_pem = row[o].private_key_pem
    <3> DEFINE new == [row[o] EXCEPT !.status = "pending", !.domain = d, !.csr = csr]
    <3>1. row[o] \in Row /\ row \in [Orders -> Row]
      BY DEF AcmeInv, TypeOK
    <3>2. row' = [row EXCEPT ![o] = new]
      BY <1>1 DEF acme_order_handler
    <3>3. new.csr = csr /\ new.private_key_pem = row[o].private_key_pem
      BY <3>1 DEF Row
    <3> HIDE DEF new
    <3> QED BY <3>1, <3>2, <3>3
  <2>2. /\ row[o].private_key_pem # "key" /\ taken' = taken
        /\ o \notin taken /\ task[o] = "none" /\ taken \subseteq Orders
    BY <1>1 DEF acme_order_handler, AcmeInv, TypeOK, WorkInv, Unfinished, KeyInv, step
  <2>3. csr = "bad" => task' = task
    BY <1>1 DEF acme_order_handler
  <2>4. \A p \in Orders : p # o => task'[p] = task[p]
    BY <1>1 DEF acme_order_handler, AcmeInv, TypeOK
  <2> QED BY <2>1, <2>2, <2>3, <2>4 DEF KeyInv
<1>2. ASSUME NEW o \in Orders, TaskStep(o) PROVE KeyInv'
  <2>1. /\ task[o] # "none" /\ row[o].status # "none" /\ row[o].csr # "bad" /\ taken' = taken
        /\ \A p \in Orders : p # o => task'[p] = task[p]
    BY <1>2 DEF TaskStep, get_or_create_account, new_order, authorization_valid,
       publish_challenge, set_ready, poll_ready, finalize, poll_certificate, cleanup, issue,
       request_certificate_fails, Goto, step, AcmeInv, TypeOK, WorkInv, KeyInv, Unfinished
  <2>2. CASE row' = row
    <3>1. task'[o] \notin Early \/ task[o] \in Early
      BY <1>2 DEF TaskStep, get_or_create_account, new_order, authorization_valid,
         publish_challenge, set_ready, poll_ready, finalize, poll_certificate, cleanup, issue,
         request_certificate_fails, Goto, Early, AcmeInv, TypeOK
    <3> QED BY <2>1, <2>2, <3>1, KeepsKeys DEF KeyInv
  <2>3. CASE row' # row
    <3>1. PICK status \in Statuses \ {"none"}, cert \in {"null", "cert"}, key \in {"null", "key"},
               error \in {"null", "error"} :
            /\ update_acme_order_status(o, status, cert, key, error)
            /\ key = "key" => row[o].csr # "good" /\ task'[o] \in {"download", "none"}
      BY <1>2, <2>3 DEF TaskStep, get_or_create_account, new_order, authorization_valid,
         publish_challenge, set_ready, poll_ready, finalize, poll_certificate, cleanup, issue,
         request_certificate_fails, Goto, Statuses, Terminal, AcmeInv, TypeOK
    <3>2. /\ \A p \in Orders : p # o => row'[p] = row[p]
          /\ row'[o].status = status /\ row'[o].csr = row[o].csr /\ row'[o].private_key_pem = key
      BY <3>1, Updates DEF AcmeInv, TypeOK
    <3>3. row[o].csr \in {"none", "good"}
      BY <2>1 DEF AcmeInv, TypeOK, Row
    <3> QED BY <2>1, <3>1, <3>2, <3>3, KeepsKeys DEF Early
  <2> QED BY <2>2, <2>3
<1>3. ASSUME NEW o \in Orders, CaChecks(o) PROVE KeyInv'
  BY <1>3 DEF CaChecks, step, KeyInv
<1>4. ASSUME NEW o \in Orders, NEW c \in Callers, get_acme_order(c, o) PROVE KeyInv'
  BY <1>4 DEF get_acme_order, KeyInv
<1>5. ASSUME NEW o \in Orders, recover_pending_orders(o) PROVE KeyInv'
  <2>1. task' = task /\ task[o] = "none" /\ taken' = taken
    BY <1>5 DEF recover_pending_orders, AcmeInv, WorkInv
  <2>2. /\ \A p \in Orders : p # o => row'[p] = row[p]
        /\ row'[o].status = "failed" /\ row'[o].csr = row[o].csr
        /\ row'[o].private_key_pem = "null"
    BY <1>5, Updates DEF recover_pending_orders, AcmeInv, TypeOK
  <2> QED BY <2>1, <2>2, KeepsKeys
<1>6. ASSUME NEW c \in Callers, clear_acme_private_key(c) PROVE KeyInv'
  <2>1. get[c] \in Orders /\ get[c] \in taken
    BY <1>6 DEF clear_acme_private_key, AcmeInv, TypeOK, WorkInv
  <2>2. PICK o \in Orders : o = get[c]
    BY <2>1
  <2>3. \A p \in Orders : /\ row'[p].status = row[p].status /\ row'[p].csr = row[p].csr
                          /\ p # o => row'[p] = row[p]
    BY <1>6, <2>1, <2>2, ClearRow DEF AcmeInv, TypeOK
  <2>4. row'[o].private_key_pem = "null"
    <3>1. row[o] \in Row /\ row \in [Orders -> Row]
      BY DEF AcmeInv, TypeOK
    <3> QED BY <1>6, <2>2, <3>1 DEF clear_acme_private_key, Row
  <2> QED BY <1>6, <2>1, <2>2, <2>3, <2>4, KeepsKeys DEF clear_acme_private_key, KeyInv
<1>7. CASE Restart
  <2>1. /\ \A p \in Orders : /\ row'[p].status = row[p].status /\ row'[p].csr = row[p].csr
                             /\ row'[p].private_key_pem
                                  = decrypt_private_key(row[p].private_key_pem)
        /\ taken' = taken /\ taken \subseteq Orders /\ task' = [p \in Orders |-> "none"]
    BY <1>7, RestartRow DEF Restart, AcmeInv, TypeOK
  <2> QED BY <2>1 DEF KeyInv, Early, decrypt_private_key
<1>8. CASE UNCHANGED vars
  BY <1>8 DEF vars, KeyInv
<1> QED BY <1>1, <1>2, <1>3, <1>4, <1>5, <1>6, <1>7, <1>8 DEF Next, TaskStep

\* The bot's orders are the orders of the service it promises: in every
\* interleaving of tasks, callers, crashes and recovery an outcome is final, and a
\* generated key is there from before the order is issued until it is read, or
\* until a restart of a bot without acme.encryption_key.
THEOREM Implements == Spec => ImplementsService
<1>1. Init => RefInv /\ Service!ServiceInit
  BY AcmeInit, RefInit DEF RefInv
<1>2. RefInv /\ [Next]_vars => RefInv'
  BY RefNext
<1>3. RefInv /\ [Next]_vars => [Service!ServiceNext]_Service!serviceVars
  BY RefStep
<1> QED BY <1>1, <1>2, <1>3, PTL DEF Spec, ImplementsService, Service!ServiceSpec
=============================================================================
