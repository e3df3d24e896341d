--------------------------- MODULE RegistryProofs ---------------------------
(***************************************************************************)
(* Proofs about Registry, for every set of names and users and every value *)
(* of the bounds: the types, and the four safety invariants the runs check *)
(* on small instances.  None of the four is inductive; each is proved with *)
(* what the tasks remember between two of their steps.  Together they make *)
(* Registry an implementation of NameService.  At the end, proofs about    *)
(* CircuitBreaker, through which payments are verified.                    *)
(***************************************************************************)
EXTENDS Registry, CircuitBreaker, TLAPS

\* What the tasks hold while they are not idle.
TaskInv ==
    /\ \A e \in relay : e.kind \in {"claim", "renewal", "delegation", "lease"} => e.name \in Names
    /\ ep.pc \in {"claim", "renewal"} => ep.ev.name \in Names
    /\ ep.pc \in {"authorize", "zone", "proof", "rows"} => ep.fqdn \in Fqdns
    /\ pp.pc # "idle" => pp.dm \in dms
    /\ ex.pc \in {"zone", "rows", "mark"} => ex.cur \in ex.todo

\* Grants: what events give, what was saved, and what is on its way
\* into the table or into the zone.
GrantInv ==
    /\ \A e \in relay : gives(e) => Granted(e.name, e.npub)
    /\ ep.pc = "claim" => Granted(ep.ev.name, ep.ev.npub)
    /\ pp.pc = "publish" => Granted(pp.dm.name, pp.dm.sender)
    /\ HolderWasGranted

ServedInv ==
    /\ ep.pc = "zone" /\ ep.fqdn \in Names => Granted(ep.fqdn, ep.ev.signer)
    /\ ServedByGrantee

\* Lapses: the history variables are up to date, and so is what the expiry
\* task concluded from its snapshot.
LapseInv ==
    /\ \A n \in Names : table[n].status # "none" /\ table[n].valid_until <= now => n \in lapsed
    /\ \A n \in Names : table[n].status # "none" /\ grace_deadline(table[n]) <= now => n \in overdue
    /\ ex.todo \subseteq lapsed
    /\ \A n \in ex.todo : past_deadline(n) => n \in overdue
    /\ ex.pc \in {"zone", "rows", "mark"} => ex.cur \in overdue
    /\ ExpiredWasOverdue

\* Sales: a name that was sold and never lapsed has an active row, and no DM
\* for it is past the availability check.
SaleInv ==
    /\ \A g \in grants : g.by = "payment" => g.name \in lapsed \/ table[g.name].status = "active"
    /\ pp.pc = "verify" =>
          \/ pp.dm.name \in lapsed
          \/ \A g \in grants : g.by = "payment" => g.name # pp.dm.name
    /\ NoEarlyResale
-----------------------------------------------------------------------------
(* The statements on the table keep its type. *)

\* INSERT OR REPLACE writes a row of the table's type.
LEMMA SaveType ==
    ASSUME NEW t \in Table, NEW n \in Names, NEW u \in Principals, NEW k \in Principals,
           NEW from \in Nat, NEW until \in Nat, NEW price \in Nat, NEW at \in Nat
    PROVE  save_delegation_with_price(t, n, u, k, from, until, price, at) \in Table
BY DEF Table, Row, Statuses, save_delegation_with_price

\* The three updates leave a row of the table's type.
LEMMA UpdateType ==
    ASSUME NEW t \in Table, NEW n \in Names, NEW until \in Nat
    PROVE  /\ renew_delegation(t, n, until) \in Table
           /\ mark_delegation_grace(t, n) \in Table
           /\ mark_delegation_expired(t, n) \in Table
<1>1. renew_delegation(t, n, until) \in Table
  BY DEF Table, Row, Statuses, renew_delegation
<1>2. mark_delegation_grace(t, n) \in Table
  BY DEF Table, Row, Statuses, mark_delegation_grace
<1>3. mark_delegation_expired(t, n) \in Table
  BY DEF Table, Row, Statuses, mark_delegation_expired
<1> QED BY <1>1, <1>2, <1>3

\* INSERT OR REPLACE changes one row, to an active one of the new holder.
LEMMA SaveRow ==
    ASSUME NEW t \in Table, NEW n \in Names, NEW u, NEW k, NEW from, NEW until,
           NEW price, NEW at, NEW m \in Names
    PROVE  LET s == save_delegation_with_price(t, n, u, k, from, until, price, at) IN
           /\ m # n => s[m] = t[m]
           /\ m = n => s[m].npub = u /\ s[m].status = "active" /\ s[m].valid_until = until
BY DEF Table, save_delegation_with_price

\* The three updates change neither who holds a name nor which names have a row.
LEMMA UpdateRow ==
    ASSUME NEW t \in Table, NEW n \in Names, NEW until \in Nat, NEW m \in Names,
           NEW s \in {renew_delegation(t, n, until), mark_delegation_grace(t, n),
                      mark_delegation_expired(t, n)}
    PROVE  /\ s[m].npub = t[m].npub
           /\ s[m].status # "none" <=> t[m].status # "none"
BY DEF Table, Row, renew_delegation, mark_delegation_grace, mark_delegation_expired

\* Renewal makes the row active; the two marks act on the row they name.
LEMMA UpdateStatus ==
    ASSUME NEW t \in Table, NEW n \in Names, NEW until \in Nat, NEW m \in Names
    PROVE  /\ renew_delegation(t, n, until)[m].status \in {t[m].status, "active"}
           /\ mark_delegation_grace(t, n)[m].status \in {t[m].status, "grace"}
           /\ m # n => mark_delegation_grace(t, n)[m].status = t[m].status
           /\ m # n => mark_delegation_expired(t, n)[m].status = t[m].status
BY DEF Table, Row, renew_delegation, mark_delegation_grace, mark_delegation_expired

\* The dummy values of idle tasks have the types of the real ones.
LEMMA IdleTypes ==
    /\ NoRow \in Row
    /\ [n \in Names |-> NoRow] \in Table
    /\ NoEvent \in Event
    /\ IdleEp \in [pc : EpPcs, ev : Event, fqdn : Fqdns \cup {Nobody}]
    /\ IdlePp \in [pc : PpPcs, dm : Dm \cup {NoDm}, from : Nat, until : Nat]
    /\ IdleEx \in [pc : ExPcs, now : Nat, todo : SUBSET Names, cur : Names \cup {Nobody},
                   snap : Table]
<1>1. NoRow \in Row
  BY DEF NoRow, Row, Principals, Statuses
<1>2. [n \in Names |-> NoRow] \in Table
  BY <1>1 DEF Table
<1>3. NoEvent \in Event
  BY DEF NoEvent, Event, Principals
<1>4. IdleEp \in [pc : EpPcs, ev : Event, fqdn : Fqdns \cup {Nobody}]
  BY <1>3 DEF IdleEp, EpPcs
<1>5. IdlePp \in [pc : PpPcs, dm : Dm \cup {NoDm}, from : Nat, until : Nat]
  BY DEF IdlePp, PpPcs
<1>6. IdleEx \in [pc : ExPcs, now : Nat, todo : SUBSET Names, cur : Names \cup {Nobody},
                   snap : Table]
  BY <1>2 DEF IdleEx, ExPcs
<1> QED BY <1>1, <1>2, <1>3, <1>4, <1>5, <1>6
-----------------------------------------------------------------------------
(* Types. *)

\* The bot starts with an empty store and idle tasks.
LEMMA TypeInit == Init => TypeOK /\ TaskInv
BY IdleTypes, RegistryAssumption
   DEF Init, TypeOK, TaskInv, Time, IdleEp, IdlePp, IdleEx

\* What clients publish are events; the ones about a name carry one.
LEMMA PublishedIsEvent ==
    ASSUME TypeOK, PublishName \/ PublishGrant \/ PublishRecord
    PROVE  \E e \in Event :
              /\ Publish(e)
              /\ e.kind \in {"claim", "renewal", "delegation", "lease"} => e.name \in Names
<1> USE RegistryAssumption
<1>1. now \in Nat
  BY DEF TypeOK, Time
<1>2. CASE PublishName
  <2>1. PICK k \in Kinds \cap {"claim", "renewal"}, u \in Principals, n \in Names, v \in Ends :
          Publish([ kind |-> k, signer |-> u, name |-> n, npub |-> u,
                    valid_from |-> 0, valid_until |-> v, created_at |-> now ])
    BY <1>2 DEF PublishName
  <2>2. [ kind |-> k, signer |-> u, name |-> n, npub |-> u,
          valid_from |-> 0, valid_until |-> v, created_at |-> now ] \in Event
    BY <1>1 DEF Event
  <2> QED BY <2>1, <2>2
<1>3. CASE PublishGrant
  <2>1. PICK k \in Kinds \cap {"delegation", "lease"}, s \in Principals, u \in Users,
             n \in Names, v \in Ends :
          Publish([ kind |-> k, signer |-> s, name |-> n, npub |-> u,
                    valid_from |-> now, valid_until |-> v, created_at |-> now ])
    BY <1>3 DEF PublishGrant
  <2>2. [ kind |-> k, signer |-> s, name |-> n, npub |-> u,
          valid_from |-> now, valid_until |-> v, created_at |-> now ] \in Event
    BY <1>1 DEF Event, Principals
  <2> QED BY <2>1, <2>2
<1>4. CASE PublishRecord
  <2>1. PICK k \in Kinds \cap {"update", "delete"}, u \in Users :
          Publish([ kind |-> k, signer |-> u, name |-> Nobody, npub |-> u,
                    valid_from |-> 0, valid_until |-> 0, created_at |-> now ])
    BY <1>4 DEF PublishRecord
  <2>2. [ kind |-> k, signer |-> u, name |-> Nobody, npub |-> u,
          valid_from |-> 0, valid_until |-> 0, created_at |-> now ] \in Event
    BY <1>1 DEF Event, Principals
  <2> QED BY <2>1, <2>2
<1> QED BY <1>2, <1>3, <1>4

\* The end of an event handler: whatever it wrote, if the table has its type,
\* the event processor is idle again and everything keeps its type.
LEMMA EpDone ==
    ASSUME TypeOK, TaskInv, NEW e \in Event, Finish(e), table' \in Table,
           rows' = rows, UNCHANGED <<epRest, zone>>, History,
           seen' \subseteq relay
    PROVE  TypeOK' /\ TaskInv'
<1>1. last_seen' \in Nat
  BY DEF Finish, Event
<1>2. ep' = IdleEp
  BY DEF Finish
<1>3. lapsed' \subseteq Names /\ overdue' \subseteq Names
  BY DEF TypeOK, History
<1>4. TypeOK'
  BY <1>1, <1>2, <1>3, IdleTypes DEF TypeOK, epRest, zone, network
<1>5. TaskInv'
  BY <1>2 DEF TaskInv, IdleEp, epRest, network
<1> QED BY <1>4, <1>5

\* Every step keeps the types and what the tasks remember.
LEMMA TypeNext == TypeOK /\ TaskInv /\ [Next]_vars => TypeOK' /\ TaskInv'
<1> SUFFICES ASSUME TypeOK, TaskInv, [Next]_vars PROVE TypeOK' /\ TaskInv'
  OBVIOUS
<1> USE DelegationAssumption, RegistryAssumption, IdleTypes
        DEF store, zone, network, session, epRest, ppRest, exRest, History
<1>1. CASE Tick
  BY <1>1 DEF TypeOK, TaskInv, Tick, Time
<1>2. ASSUME NEW e \in Event, Publish(e),
             e.kind \in {"claim", "renewal", "delegation", "lease"} => e.name \in Names
      PROVE  TypeOK' /\ TaskInv'
  <2>1. grants' \subseteq Grant
    BY <1>2 DEF Publish, gives, TypeOK, Event, Grant, Time
  <2>2. published' \in 0 .. MaxEvents /\ relay' \subseteq Event /\ seen' \subseteq relay'
    BY <1>2 DEF Publish, TypeOK
  <2>3. lapsed' \subseteq Names /\ overdue' \subseteq Names
    BY <1>2 DEF Publish, TypeOK
  <2>4. TaskInv'
    BY <1>2 DEF Publish, TaskInv
  <2> QED BY <1>2, <2>1, <2>2, <2>3, <2>4 DEF Publish, TypeOK
<1>3. ASSUME NEW d \in Dm, SendDm(d) PROVE TypeOK' /\ TaskInv'
  BY <1>3 DEF TypeOK, TaskInv, SendDm
<1>4. CASE Restart
  BY <1>4 DEF TypeOK, TaskInv, Restart, IdleEp, IdlePp, IdleEx
<1>5. ASSUME NEW e \in relay, EpDelegation(e) PROVE TypeOK' /\ TaskInv'
  <2>1. /\ e \in Event /\ e.name \in Names /\ e.npub \in Principals
        /\ e.signer \in Principals /\ e.valid_from \in Nat /\ e.valid_until \in Nat
        /\ e.created_at \in Nat /\ now \in Nat /\ table \in Table
    BY <1>5 DEF TypeOK, TaskInv, EpDelegation, Event, Time
  <2>2. table' \in Table
    BY <1>5, <2>1, SaveType DEF EpDelegation, save_delegation
  <2>3. seen' \subseteq relay
    BY <1>5 DEF TypeOK, EpDelegation, Receive
  <2> QED BY <1>5, <2>1, <2>2, <2>3, EpDone DEF EpDelegation
<1>6. ASSUME NEW e \in relay, EpLease(e) PROVE TypeOK' /\ TaskInv'
  <2>1. /\ e \in Event /\ e.name \in Names /\ e.npub \in Principals
        /\ e.signer \in Principals /\ e.valid_from \in Nat /\ e.valid_until \in Nat
        /\ e.created_at \in Nat /\ now \in Nat /\ table \in Table
    BY <1>6 DEF TypeOK, TaskInv, EpLease, Event, Time
  <2>2. table' \in Table
    BY <1>6, <2>1, SaveType DEF EpLease, save_delegation
  <2>3. seen' \subseteq relay
    BY <1>6 DEF TypeOK, EpLease, Receive
  <2> QED BY <1>6, <2>1, <2>2, <2>3, EpDone DEF EpLease
<1>7. ASSUME NEW e \in relay, EpClaimCheck(e) PROVE TypeOK' /\ TaskInv'
  <2>1. e \in Event /\ e.name \in Names
    BY <1>7 DEF TypeOK, TaskInv, EpClaimCheck
  <2>2. CASE Finish(e)
    <3>1. seen' \subseteq relay /\ table' \in Table
      BY <1>7 DEF TypeOK, EpClaimCheck, Receive
    <3> QED BY <1>7, <2>1, <2>2, <3>1, EpDone DEF EpClaimCheck
  <2>3. CASE ep' = [IdleEp EXCEPT !.pc = "claim", !.ev = [e EXCEPT !.valid_from = now]] /\ UNCHANGED last_seen
    <3>1. [e EXCEPT !.valid_from = now] \in Event /\ [e EXCEPT !.valid_from = now].name = e.name
      BY <2>1 DEF Event, TypeOK, Time
    <3>2. /\ ep' \in [pc : EpPcs, ev : Event, fqdn : Fqdns \cup {Nobody}]
          /\ ep'.pc = "claim" /\ ep'.ev.name \in Names
      BY <2>1, <2>3, <3>1 DEF IdleEp, EpPcs
    <3> QED BY <1>7, <2>3, <3>2 DEF TypeOK, TaskInv, EpClaimCheck, Receive
  <2> QED BY <1>7, <2>2, <2>3 DEF EpClaimCheck
<1>8. CASE EpClaimSave
  <2>1. /\ ep.ev \in Event /\ ep.ev.name \in Names /\ ep.ev.npub \in Principals
        /\ ep.ev.signer \in Principals /\ ep.ev.valid_from \in Nat
        /\ ep.ev.valid_until \in Nat /\ now \in Nat /\ table \in Table
    BY <1>8 DEF TypeOK, TaskInv, EpClaimSave, Event, Time
  <2>2. table' \in Table
    BY <1>8, <2>1, SaveType DEF EpClaimSave
  <2>3. seen' \subseteq relay
    BY <1>8 DEF TypeOK, EpClaimSave
  <2> QED BY <1>8, <2>1, <2>2, <2>3, EpDone DEF EpClaimSave
<1>9. ASSUME NEW e \in relay, EpRenewalCheck(e) PROVE TypeOK' /\ TaskInv'
  <2>1. e \in Event /\ e.name \in Names
    BY <1>9 DEF TypeOK, TaskInv, EpRenewalCheck
  <2>2. CASE Finish(e)
    <3>1. seen' \subseteq relay /\ table' \in Table
      BY <1>9 DEF TypeOK, EpRenewalCheck, Receive
    <3> QED BY <1>9, <2>1, <2>2, <3>1, EpDone DEF EpRenewalCheck
  <2>3. CASE ep' = [IdleEp EXCEPT !.pc = "renewal", !.ev = e] /\ UNCHANGED last_seen
    <3>1. /\ ep' \in [pc : EpPcs, ev : Event, fqdn : Fqdns \cup {Nobody}]
          /\ ep'.pc = "renewal" /\ ep'.ev.name \in Names
      BY <2>1, <2>3 DEF IdleEp, EpPcs
    <3> QED BY <1>9, <2>3, <3>1 DEF TypeOK, TaskInv, EpRenewalCheck, Receive
  <2> QED BY <1>9, <2>2, <2>3 DEF EpRenewalCheck
<1>10. CASE EpRenewalSave
  BY <1>10, UpdateType DEF TypeOK, TaskInv, EpRenewalSave, Finish, Event, IdleEp
<1>11. ASSUME NEW e \in relay, EpLimited(e) PROVE TypeOK' /\ TaskInv'
  BY <1>11 DEF TypeOK, TaskInv, EpLimited, Receive, Finish, Event, IdleEp
<1>12. ASSUME NEW e \in relay, NEW f \in Fqdns, EpResolve(e, f) PROVE TypeOK' /\ TaskInv'
  BY <1>12 DEF TypeOK, TaskInv, EpResolve, Receive, EpPcs
<1>13. CASE EpAuthorize
  BY <1>13 DEF TypeOK, TaskInv, EpAuthorize, Finish, Event, IdleEp, EpPcs
<1>14. CASE EpZoneFails
  BY <1>14 DEF TypeOK, TaskInv, EpZoneFails, Finish, Event, IdleEp
<1>15. CASE EpZone
  BY <1>15 DEF TypeOK, TaskInv, EpZone, epOwner, Event, EpPcs
<1>15p. CASE EpProof
  BY <1>15p DEF TypeOK, TaskInv, EpProof, epOwner, Event, EpPcs
<1>16. CASE EpRows
  BY <1>16 DEF TypeOK, TaskInv, EpRows, Finish, Event, IdleEp
<1>17. ASSUME NEW d \in dms, PpReceive(d) PROVE TypeOK' /\ TaskInv'
  <2>1. d \in Dm
    BY DEF TypeOK
  <2>2. \/ pp' = IdlePp
        \/ pp' = [IdlePp EXCEPT !.pc = "mark", !.dm = d]
        \/ pp' = [IdlePp EXCEPT !.pc = "verify", !.dm = d]
    BY <1>17 DEF PpReceive, ppAnswer
  <2>3. /\ pp' \in [pc : PpPcs, dm : Dm \cup {NoDm}, from : Nat, until : Nat]
        /\ pp'.pc # "idle" => pp'.dm \in dms
    BY <2>1, <2>2 DEF IdlePp, PpPcs
  <2> QED BY <1>17, <2>3 DEF TypeOK, TaskInv, PpReceive
<1>18. CASE PpVerifyFails
  BY <1>18 DEF TypeOK, TaskInv, PpVerifyFails, ppAnswer, IdlePp, PpPcs
<1>19. CASE PpSave
  <2>1. pp.dm \in Dm /\ pp.dm.name \in Names /\ pp.dm.sender \in Principals /\ pp.dm.days \in Nat
    BY <1>19 DEF TypeOK, TaskInv, PpSave, Dm, Principals
  <2>2. now \in Nat /\ now + pp.dm.days \in Nat /\ CreatePrice \in Nat
    BY <2>1 DEF TypeOK, Time
  <2>3. table' \in Table
    BY <1>19, <2>1, <2>2, SaveType DEF TypeOK, PpSave
  <2>4. grants' \subseteq Grant
    BY <1>19, <2>1, <2>2 DEF TypeOK, PpSave, Grant
  <2>5. /\ pp' \in [pc : PpPcs, dm : Dm \cup {NoDm}, from : Nat, until : Nat]
        /\ pp'.dm = pp.dm
    BY <1>19, <2>2 DEF TypeOK, PpSave, PpPcs
  <2>6. pp.dm \in dms
    BY <1>19 DEF TaskInv, PpSave
  <2> QED BY <1>19, <2>3, <2>4, <2>5, <2>6 DEF TypeOK, TaskInv, PpSave
<1>20. CASE PpPublish
  <2> DEFINE echo == [ kind |-> "delegation", signer |-> Registrar,
                       name |-> pp.dm.name, npub |-> pp.dm.sender,
                       valid_from |-> pp.from, valid_until |-> pp.until,
                       created_at |-> now ]
  <2>1. pp.dm \in dms /\ pp.dm \in Dm /\ pp.dm.name \in Names /\ pp.dm.sender \in Principals
    BY <1>20 DEF TypeOK, TaskInv, PpPublish, Dm, Principals
  <2>2. echo \in Event /\ echo.name \in Names
    BY <2>1 DEF TypeOK, Event, Time, Principals
  <2>3. relay' = relay \/ relay' = relay \cup {echo}
    BY <1>20 DEF PpPublish
  <2>4. /\ pp' \in [pc : PpPcs, dm : Dm \cup {NoDm}, from : Nat, until : Nat]
        /\ pp'.dm = pp.dm
    BY <1>20, <2>1 DEF PpPublish, ppAnswer, IdlePp, PpPcs
  <2> HIDE DEF echo
  <2> QED BY <1>20, <2>1, <2>2, <2>3, <2>4 DEF TypeOK, TaskInv, PpPublish
<1>21. CASE PpMark
  <2>1. pp.dm \in dms
    BY <1>21 DEF TaskInv, PpMark
  <2> QED BY <1>21, <2>1 DEF TypeOK, TaskInv, PpMark, IdlePp
<1>22. CASE ExTick
  BY <1>22 DEF TypeOK, TaskInv, ExTick, ExPcs, Time, get_delegations_past_valid_until
<1>23. ASSUME NEW n \in Names, ExGrace(n) PROVE TypeOK' /\ TaskInv'
  BY <1>23, UpdateType DEF TypeOK, TaskInv, ExGrace, ExFirst, ExDone, IdleEx, ExPcs
<1>24. ASSUME NEW n \in Names, ExRecords(n) PROVE TypeOK' /\ TaskInv'
  BY <1>24 DEF TypeOK, TaskInv, ExRecords, ExFirst, ExPcs
<1>25. CASE ExZone
  BY <1>25 DEF TypeOK, TaskInv, ExZone, ExPcs, Fqdns
<1>26. CASE ExRows
  BY <1>26 DEF TypeOK, TaskInv, ExRows, ExPcs
<1>27. CASE ExMark
  BY <1>27, UpdateType DEF TypeOK, TaskInv, ExMark, ExDone, IdleEx, ExPcs
<1>28. CASE UNCHANGED vars
  BY <1>28 DEF TypeOK, TaskInv, vars
<1>29. CASE PublishName \/ PublishGrant \/ PublishRecord
  BY <1>2, <1>29, PublishedIsEvent
<1> QED
  BY <1>1, <1>3, <1>4, <1>5, <1>6, <1>7, <1>8, <1>9, <1>10, <1>11, <1>12, <1>13, <1>14,
     <1>15, <1>15p, <1>16, <1>17, <1>18, <1>19, <1>20, <1>21, <1>22, <1>23, <1>24, <1>25, <1>26,
     <1>27, <1>28, <1>29
  DEF Next, Environment, EpStep, PpStep, ExStep

\* The types hold in every reachable state: no handler, in any interleaving of
\* the three tasks with restarts, writes a row, a zone entry or a task state
\* outside its type.
THEOREM TypeSafe == Spec => []TypeOK
<1>1. Init => TypeOK /\ TaskInv
  BY TypeInit
<1>2. TypeOK /\ TaskInv /\ [Next]_vars => TypeOK' /\ TaskInv'
  BY TypeNext
<1> QED BY <1>1, <1>2, PTL DEF Spec
-----------------------------------------------------------------------------
(* Grants. *)

\* A grant is never taken back.
LEMMA GrantsGrow == [Next]_vars => grants \subseteq grants'
<1> SUFFICES ASSUME [Next]_vars PROVE grants \subseteq grants'
  OBVIOUS
<1> USE DEF epRest, ppRest, exRest
<1>1. ASSUME NEW e, Publish(e) PROVE grants \subseteq grants'
  BY <1>1 DEF Publish
<1>2. CASE Environment
  BY <1>1, <1>2 DEF Environment, Tick, PublishName, PublishGrant, PublishRecord, SendDm, Restart
<1>3. CASE EpStep
  BY <1>3 DEF EpStep, EpDelegation, EpLease, EpClaimCheck, EpClaimSave, EpRenewalCheck,
              EpRenewalSave, EpLimited, EpResolve, EpAuthorize, EpZoneFails, EpZone, EpProof, EpRows
<1>4. CASE PpStep
  BY <1>4 DEF PpStep, PpReceive, PpVerifyFails, PpSave, PpPublish, PpMark
<1>5. CASE ExStep
  BY <1>5 DEF ExStep, ExTick, ExGrace, ExRecords, ExZone, ExRows, ExMark
<1>6. CASE UNCHANGED vars
  BY <1>6 DEF vars
<1> QED BY <1>2, <1>3, <1>4, <1>5, <1>6 DEF Next

\* Every step keeps the grants in line with the relays, the tasks and the table.
LEMMA GrantNext == TypeOK /\ TaskInv /\ GrantInv /\ [Next]_vars => GrantInv'
<1> SUFFICES ASSUME TypeOK, TaskInv, GrantInv, [Next]_vars PROVE GrantInv'
  OBVIOUS
<1> USE DEF store, zone, network, session, epRest, ppRest, exRest
<1>0. \A n, u : Granted(n, u) => Granted(n, u)'
  BY GrantsGrow DEF Granted
<1> DEFINE Quiet == /\ relay' = relay
                    /\ \A n \in Names : /\ table'[n].npub = table[n].npub
                                        /\ table'[n].status # "none" <=> table[n].status # "none"
                    /\ ep' = ep \/ ep'.pc # "claim"
                    /\ pp' = pp \/ pp'.pc # "publish"
<1>q. ASSUME Quiet PROVE GrantInv'
  BY <1>0, <1>q DEF GrantInv, HolderWasGranted
<1> HIDE DEF Quiet
<1>1. CASE Tick
  BY <1>1, <1>q DEF Quiet, Tick
<1>2. ASSUME NEW e \in Event, Publish(e) PROVE GrantInv'
  <2>1. \A f \in relay' : f \in relay \/ f = e
    BY <1>2 DEF Publish
  <2>2. gives(e) => Granted(e.name, e.npub)'
    <3> DEFINE g == [name |-> e.name, npub |-> e.npub, at |-> now,
                     by |-> IF e.kind = "lease" THEN "lease" ELSE "signature"]
    <3> SUFFICES ASSUME gives(e) PROVE Granted(e.name, e.npub)'
      OBVIOUS
    <3>1. g \in grants'
      BY <1>2 DEF Publish
    <3>2. g.name = e.name /\ g.npub = e.npub
      OBVIOUS
    <3> QED BY <3>1, <3>2 DEF Granted
  <2> QED BY <1>0, <1>2, <2>1, <2>2 DEF GrantInv, HolderWasGranted, Publish
<1>3. ASSUME NEW d \in Dm, SendDm(d) PROVE GrantInv'
  BY <1>3, <1>q DEF Quiet, SendDm
<1>4. CASE Restart
  BY <1>4, <1>q DEF Quiet, Restart, IdleEp, IdlePp
<1>5. ASSUME NEW e \in relay, EpDelegation(e) PROVE GrantInv'
  <2>1. e.name \in Names /\ table \in Table
    BY <1>5 DEF TaskInv, TypeOK, EpDelegation
  <2>2. ASSUME NEW n \in Names, table'[n].status # "none" PROVE Granted(n, table'[n].npub)
    BY <1>5, <2>1, <2>2, SaveRow DEF GrantInv, HolderWasGranted, EpDelegation, save_delegation, validate_delegation, gives
  <2> QED BY <1>0, <1>5, <2>2 DEF GrantInv, HolderWasGranted, EpDelegation, Finish, IdleEp
<1>6. ASSUME NEW e \in relay, EpLease(e) PROVE GrantInv'
  <2>1. e.name \in Names /\ table \in Table
    BY <1>6 DEF TaskInv, TypeOK, EpLease
  <2>2. ASSUME NEW n \in Names, table'[n].status # "none" PROVE Granted(n, table'[n].npub)
    BY <1>6, <2>1, <2>2, SaveRow DEF GrantInv, HolderWasGranted, EpLease, save_delegation, gives
  <2> QED BY <1>0, <1>6, <2>2 DEF GrantInv, HolderWasGranted, EpLease, Finish, IdleEp
<1>7. ASSUME NEW e \in relay, EpClaimCheck(e) PROVE GrantInv'
  <2>1. ep'.pc = "claim" => Granted(ep'.ev.name, ep'.ev.npub)
    <3>1. CASE claim_accepted(table, e, now)
      <4>1. ep' = [IdleEp EXCEPT !.pc = "claim", !.ev = [e EXCEPT !.valid_from = now]]
        BY <1>7, <3>1 DEF EpClaimCheck
      <4>2. e \in Event
        BY DEF TypeOK
      <4>3. ep'.ev.name = e.name /\ ep'.ev.npub = e.npub
        BY <4>1, <4>2 DEF IdleEp, Event
      <4> QED BY <1>7, <3>1, <4>3 DEF GrantInv, EpClaimCheck, claim_accepted, gives
    <3>2. CASE ~ claim_accepted(table, e, now)
      BY <1>7, <3>2 DEF EpClaimCheck, Finish, IdleEp
    <3> QED BY <3>1, <3>2
  <2> QED BY <1>0, <1>7, <2>1 DEF GrantInv, HolderWasGranted, EpClaimCheck
<1>8. CASE EpClaimSave
  <2>1. ep.ev.name \in Names /\ table \in Table
    BY <1>8 DEF TaskInv, TypeOK, EpClaimSave
  <2>2. ASSUME NEW n \in Names, table'[n].status # "none" PROVE Granted(n, table'[n].npub)
    BY <1>8, <2>1, <2>2, SaveRow DEF GrantInv, HolderWasGranted, EpClaimSave
  <2> QED BY <1>0, <1>8, <2>2 DEF GrantInv, HolderWasGranted, EpClaimSave, Finish, IdleEp
<1>9. ASSUME NEW e \in relay, EpRenewalCheck(e) PROVE GrantInv'
  <2>1. ep'.pc # "claim"
    <3>1. CASE renewal_accepted(table, e)
      BY <1>9, <3>1 DEF EpRenewalCheck, IdleEp
    <3>2. CASE ~ renewal_accepted(table, e)
      BY <1>9, <3>2 DEF EpRenewalCheck, Finish, IdleEp
    <3> QED BY <3>1, <3>2
  <2> QED BY <1>9, <1>q, <2>1 DEF Quiet, EpRenewalCheck
<1>10. CASE EpRenewalSave
  <2>1. ep.ev.name \in Names /\ ep.ev.valid_until \in Nat /\ table \in Table
    BY <1>10 DEF TaskInv, TypeOK, EpRenewalSave, Event
  <2> QED BY <1>10, <1>q, <2>1, UpdateRow DEF Quiet, EpRenewalSave, Finish, IdleEp
<1>11. ASSUME NEW e \in relay, EpLimited(e) PROVE GrantInv'
  BY <1>11, <1>q DEF Quiet, EpLimited, Finish, IdleEp
<1>12. ASSUME NEW e \in relay, NEW f \in Fqdns, EpResolve(e, f) PROVE GrantInv'
  BY <1>12, <1>q DEF Quiet, EpResolve
<1>13. CASE EpAuthorize
  BY <1>13, <1>q DEF Quiet, EpAuthorize, Finish, IdleEp, TypeOK
<1>14. CASE EpZoneFails
  BY <1>14, <1>q DEF Quiet, EpZoneFails, Finish, IdleEp
<1>15. CASE EpZone
  BY <1>15, <1>q DEF Quiet, EpZone, TypeOK
<1>15p. CASE EpProof
  BY <1>15p, <1>q DEF Quiet, EpProof, TypeOK
<1>16. CASE EpRows
  BY <1>16, <1>q DEF Quiet, EpRows, Finish, IdleEp
<1>17. ASSUME NEW d \in dms, PpReceive(d) PROVE GrantInv'
  <2>1. \/ pp' = IdlePp
        \/ pp' = [IdlePp EXCEPT !.pc = "mark", !.dm = d]
        \/ pp' = [IdlePp EXCEPT !.pc = "verify", !.dm = d]
    <3>1. CASE is_name_available(table, d.name, now)
      BY <1>17, <3>1 DEF PpReceive, ppAnswer
    <3>2. CASE ~ is_name_available(table, d.name, now)
      BY <1>17, <3>2 DEF PpReceive, ppAnswer
    <3> QED BY <3>1, <3>2
  <2>2. pp'.pc # "publish"
    <3>1. CASE pp' = IdlePp
      BY <3>1 DEF IdlePp
    <3>2. CASE pp' = [IdlePp EXCEPT !.pc = "mark", !.dm = d]
      BY <3>2 DEF IdlePp
    <3>3. CASE pp' = [IdlePp EXCEPT !.pc = "verify", !.dm = d]
      BY <3>3 DEF IdlePp
    <3> QED BY <2>1, <3>1, <3>2, <3>3
  <2> QED BY <1>17, <1>q, <2>2 DEF Quiet, PpReceive
<1>18. CASE PpVerifyFails
  BY <1>18, <1>q DEF Quiet, PpVerifyFails, ppAnswer, IdlePp
<1>19. CASE PpSave
  <2>1. pp.dm.name \in Names /\ table \in Table /\ pp'.dm = pp.dm
    BY <1>19 DEF TaskInv, TypeOK, PpSave, Dm
  <2> DEFINE g == [name |-> pp.dm.name, npub |-> pp.dm.sender, at |-> now, by |-> "payment"]
  <2>2. g \in grants' /\ g.name = pp.dm.name /\ g.npub = pp.dm.sender
    BY <1>19 DEF PpSave
  <2>3. \A n, u : n = pp.dm.name /\ u = pp.dm.sender => Granted(n, u)'
    BY <2>2 DEF Granted
  <2> HIDE DEF g
  <2>4. ASSUME NEW n \in Names, table'[n].status # "none"
        PROVE  \/ Granted(n, table'[n].npub)
               \/ n = pp.dm.name /\ table'[n].npub = pp.dm.sender
    BY <1>19, <2>1, <2>4, SaveRow DEF GrantInv, HolderWasGranted, PpSave
  <2> QED BY <1>0, <1>19, <2>1, <2>3, <2>4 DEF GrantInv, HolderWasGranted, PpSave
<1>20. CASE PpPublish
  <2>1. \A f \in relay' :
           \/ f \in relay
           \/ f.kind = "delegation" /\ f.name = pp.dm.name /\ f.npub = pp.dm.sender
    <3> DEFINE echo == [ kind |-> "delegation", signer |-> Registrar,
                         name |-> pp.dm.name, npub |-> pp.dm.sender,
                         valid_from |-> pp.from, valid_until |-> pp.until,
                         created_at |-> now ]
    <3>1. relay' = relay \/ relay' = relay \cup {echo}
      BY <1>20 DEF PpPublish
    <3>2. echo.kind = "delegation" /\ echo.name = pp.dm.name /\ echo.npub = pp.dm.sender
      OBVIOUS
    <3> HIDE DEF echo
    <3> QED BY <3>1, <3>2
  <2> QED BY <1>0, <1>20, <2>1 DEF GrantInv, HolderWasGranted, PpPublish, ppAnswer, IdlePp
<1>21. CASE PpMark
  BY <1>21, <1>q DEF Quiet, PpMark, IdlePp
<1>22. CASE ExTick
  BY <1>22, <1>q DEF Quiet, ExTick
<1>23. ASSUME NEW n \in Names, ExGrace(n) PROVE GrantInv'
  BY <1>23, <1>q, UpdateRow DEF Quiet, ExGrace, TypeOK
<1>24. ASSUME NEW n \in Names, ExRecords(n) PROVE GrantInv'
  BY <1>24, <1>q DEF Quiet, ExRecords
<1>25. CASE ExZone
  BY <1>25, <1>q DEF Quiet, ExZone
<1>26. CASE ExRows
  BY <1>26, <1>q DEF Quiet, ExRows
<1>27. CASE ExMark
  <2>1. ex.cur \in Names /\ table \in Table
    BY <1>27 DEF TaskInv, TypeOK, ExMark
  <2> QED BY <1>27, <1>q, <2>1, UpdateRow DEF Quiet, ExMark
<1>28. CASE UNCHANGED vars
  BY <1>28, <1>q DEF Quiet, vars
<1>29. CASE PublishName \/ PublishGrant \/ PublishRecord
  BY <1>2, <1>29, PublishedIsEvent
<1> QED
  BY <1>1, <1>3, <1>4, <1>5, <1>6, <1>7, <1>8, <1>9, <1>10, <1>11, <1>12, <1>13, <1>14,
     <1>15, <1>15p, <1>16, <1>17, <1>18, <1>19, <1>20, <1>21, <1>22, <1>23, <1>24, <1>25, <1>26,
     <1>27, <1>28, <1>29
  DEF Next, Environment, EpStep, PpStep, ExStep

\* A name's holder was always granted the name: the claim check and the save of
\* a claim, the signature check on delegation and lease events, and a payment
\* are the only ways into the table, in every interleaving of the tasks, after
\* any number of restarts and replays.
THEOREM HoldersGranted == Spec => []HolderWasGranted
<1>1. Init => GrantInv
  BY DEF Init, GrantInv, HolderWasGranted, NoRow, IdleEp, IdlePp
<1>2. GrantInv => HolderWasGranted
  BY DEF GrantInv
<1> QED BY <1>1, <1>2, TypeInit, TypeNext, GrantNext, PTL DEF Spec
-----------------------------------------------------------------------------
(* Records in the zone. *)

\* Every step keeps the records at custom names with the names' grantees.
LEMMA ServedNext == TypeOK /\ TaskInv /\ GrantInv /\ ServedInv /\ [Next]_vars => ServedInv'
<1> SUFFICES ASSUME TypeOK, TaskInv, GrantInv, ServedInv, [Next]_vars PROVE ServedInv'
  OBVIOUS
<1> USE DEF store, zone, network, session, epRest, ppRest, exRest
<1>0. \A n, u : Granted(n, u) => Granted(n, u)'
  BY GrantsGrow DEF Granted
<1> DEFINE Quiet == dns' = dns /\ (ep' = ep \/ ep'.pc # "zone")
<1>q. ASSUME Quiet PROVE ServedInv'
  BY <1>0, <1>q DEF ServedInv, ServedByGrantee
<1> HIDE DEF Quiet
<1>1. CASE Tick
  BY <1>1, <1>q DEF Quiet, Tick
<1>2. CASE PublishName \/ PublishGrant \/ PublishRecord
  BY <1>2, <1>q, PublishedIsEvent DEF Quiet, Publish
<1>3. ASSUME NEW d \in Dm, SendDm(d) PROVE ServedInv'
  BY <1>3, <1>q DEF Quiet, SendDm
<1>4. CASE Restart
  BY <1>4, <1>q DEF Quiet, Restart, IdleEp
<1>5. ASSUME NEW e \in relay, EpDelegation(e) PROVE ServedInv'
  BY <1>5, <1>q DEF Quiet, EpDelegation, Finish, IdleEp
<1>6. ASSUME NEW e \in relay, EpLease(e) PROVE ServedInv'
  BY <1>6, <1>q DEF Quiet, EpLease, Finish, IdleEp
<1>7. ASSUME NEW e \in relay, EpClaimCheck(e) PROVE ServedInv'
  <2>1. ep'.pc # "zone"
    <3>1. CASE claim_accepted(table, e, now)
      BY <1>7, <3>1 DEF EpClaimCheck, IdleEp
    <3>2. CASE ~ claim_accepted(table, e, now)
      BY <1>7, <3>2 DEF EpClaimCheck, Finish, IdleEp
    <3> QED BY <3>1, <3>2
  <2> QED BY <1>7, <1>q, <2>1 DEF Quiet, EpClaimCheck
<1>8. CASE EpClaimSave
  BY <1>8, <1>q DEF Quiet, EpClaimSave, Finish, IdleEp
<1>9. ASSUME NEW e \in relay, EpRenewalCheck(e) PROVE ServedInv'
  <2>1. ep'.pc # "zone"
    <3>1. CASE renewal_accepted(table, e)
      BY <1>9, <3>1 DEF EpRenewalCheck, IdleEp
    <3>2. CASE ~ renewal_accepted(table, e)
      BY <1>9, <3>2 DEF EpRenewalCheck, Finish, IdleEp
    <3> QED BY <3>1, <3>2
  <2> QED BY <1>9, <1>q, <2>1 DEF Quiet, EpRenewalCheck
<1>10. CASE EpRenewalSave
  BY <1>10, <1>q DEF Quiet, EpRenewalSave, Finish, IdleEp
<1>11. ASSUME NEW e \in relay, EpLimited(e) PROVE ServedInv'
  BY <1>11, <1>q DEF Quiet, EpLimited, Finish, IdleEp
<1>12. ASSUME NEW e \in relay, NEW f \in Fqdns, EpResolve(e, f) PROVE ServedInv'
  BY <1>12, <1>q DEF Quiet, EpResolve
<1>13. CASE EpAuthorize
  <2>1. CASE check_authority(table, ep.fqdn, ep.ev.signer)
    <3>1. ep'.fqdn = ep.fqdn /\ ep'.ev = ep.ev
      BY <1>13, <2>1 DEF EpAuthorize, TypeOK
    <3>2. ep.fqdn \in Names => Granted(ep.fqdn, ep.ev.signer)
      BY <2>1 DEF check_authority, GrantInv, HolderWasGranted
    <3> QED BY <1>0, <1>13, <3>1, <3>2 DEF ServedInv, ServedByGrantee, EpAuthorize
  <2>2. CASE ~ check_authority(table, ep.fqdn, ep.ev.signer)
    BY <1>13, <1>q, <2>2 DEF Quiet, EpAuthorize, Finish, IdleEp
  <2> QED BY <2>1, <2>2
<1>14. CASE EpZoneFails
  BY <1>14, <1>q DEF Quiet, EpZoneFails, Finish, IdleEp
<1>15. CASE EpZone
  <2>1. ep.fqdn \in Fqdns /\ dns \in [Fqdns -> Principals \cup {Nobody}]
    BY <1>15 DEF TypeOK, TaskInv, EpZone
  <2>2. ASSUME NEW n \in Names, dns'[n] # Nobody PROVE Granted(n, dns'[n])
    <3>1. n \in Fqdns
      BY DEF Fqdns
    <3>2. CASE n = ep.fqdn
      BY <1>15, <2>1, <2>2, <3>1, <3>2 DEF EpZone, epOwner, ServedInv
    <3>3. CASE n # ep.fqdn
      BY <1>15, <2>1, <2>2, <3>1, <3>3 DEF EpZone, ServedInv, ServedByGrantee
    <3> QED BY <3>2, <3>3
  <2>3. ep'.pc # "zone"
    BY <1>15 DEF EpZone, TypeOK
  <2> QED BY <1>0, <1>15, <2>2, <2>3 DEF ServedInv, ServedByGrantee
<1>15p. CASE EpProof
  BY <1>15p, <1>q DEF Quiet, EpProof, TypeOK
<1>16. CASE EpRows
  BY <1>16, <1>q DEF Quiet, EpRows, Finish, IdleEp
<1>17. ASSUME NEW d \in dms, PpReceive(d) PROVE ServedInv'
  BY <1>17, <1>q DEF Quiet, PpReceive
<1>18. CASE PpVerifyFails
  BY <1>18, <1>q DEF Quiet, PpVerifyFails
<1>19. CASE PpSave
  BY <1>19, <1>q DEF Quiet, PpSave
<1>20. CASE PpPublish
  BY <1>20, <1>q DEF Quiet, PpPublish
<1>21. CASE PpMark
  BY <1>21, <1>q DEF Quiet, PpMark
<1>22. CASE ExTick
  BY <1>22, <1>q DEF Quiet, ExTick
<1>23. ASSUME NEW n \in Names, ExGrace(n) PROVE ServedInv'
  BY <1>23, <1>q DEF Quiet, ExGrace
<1>24. ASSUME NEW n \in Names, ExRecords(n) PROVE ServedInv'
  BY <1>24, <1>q DEF Quiet, ExRecords
<1>25. CASE ExZone
  <2>1. ep' = ep /\ \A n \in Names : dns'[n] # Nobody => dns'[n] = dns[n]
    BY <1>25 DEF ExZone, TypeOK, Fqdns
  <2> QED BY <1>0, <2>1 DEF ServedInv, ServedByGrantee
<1>26. CASE ExRows
  BY <1>26, <1>q DEF Quiet, ExRows
<1>27. CASE ExMark
  BY <1>27, <1>q DEF Quiet, ExMark
<1>28. CASE UNCHANGED vars
  BY <1>28, <1>q DEF Quiet, vars
<1> QED
  BY <1>1, <1>2, <1>3, <1>4, <1>5, <1>6, <1>7, <1>8, <1>9, <1>10, <1>11, <1>12, <1>13, <1>14,
     <1>15, <1>15p, <1>16, <1>17, <1>18, <1>19, <1>20, <1>21, <1>22, <1>23, <1>24, <1>25, <1>26,
     <1>27, <1>28
  DEF Next, Environment, EpStep, PpStep, ExStep

\* Whatever is served at a custom name was put there by a key that was granted
\* the name: the authority check, made before the DNS update is awaited, is
\* enough for that in every interleaving with payments, renewals and expiry.
THEOREM ServedGranted == Spec => []ServedByGrantee
<1>1. Init => GrantInv
  BY DEF Init, GrantInv, HolderWasGranted, NoRow, IdleEp, IdlePp
<1>2. Init => ServedInv
  BY DEF Init, ServedInv, ServedByGrantee, IdleEp, Fqdns
<1>3. ServedInv => ServedByGrantee
  BY DEF ServedInv
<1> QED BY <1>1, <1>2, <1>3, TypeInit, TypeNext, GrantNext, ServedNext, PTL DEF Spec
-----------------------------------------------------------------------------
(* Lapses. *)

\* Every step brings the two histories up to date.
LEMMA HistoryKept == Next => History
<1> SUFFICES ASSUME Next PROVE History
  OBVIOUS
<1>1. CASE Environment
  <2>1. ASSUME NEW e, Publish(e) PROVE History
    BY <2>1 DEF Publish
  <2> QED BY <1>1, <2>1 DEF Environment, Tick, PublishName, PublishGrant, PublishRecord,
                            SendDm, Restart
<1>2. CASE EpStep
  BY <1>2 DEF EpStep, EpDelegation, EpLease, EpClaimCheck, EpClaimSave, EpRenewalCheck,
              EpRenewalSave, EpLimited, EpResolve, EpAuthorize, EpZoneFails, EpZone, EpProof, EpRows
<1>3. CASE PpStep
  BY <1>3 DEF PpStep, PpReceive, PpVerifyFails, PpSave, PpPublish, PpMark
<1>4. CASE ExStep
  BY <1>4 DEF ExStep, ExTick, ExGrace, ExRecords, ExZone, ExRows, ExMark
<1> QED BY <1>1, <1>2, <1>3, <1>4 DEF Next

\* After any step the histories hold what held before, and every lapsed lease.
LEMMA HistoryNext ==
    ASSUME LapseInv, [Next]_vars
    PROVE  /\ lapsed \subseteq lapsed' /\ overdue \subseteq overdue'
           /\ \A n \in Names : table'[n].status # "none" /\ table'[n].valid_until <= now'
                               => n \in lapsed'
           /\ \A n \in Names : table'[n].status # "none" /\ grace_deadline(table'[n]) <= now'
                               => n \in overdue'
<1>1. CASE Next
  BY <1>1, HistoryKept DEF History
<1>2. CASE UNCHANGED vars
  BY <1>2 DEF vars, store, LapseInv
<1> QED BY <1>1, <1>2

\* Done with a name, the expiry task keeps the rest of its snapshot, or is idle.
LEMMA ExDoneSwept ==
    ASSUME TypeOK, NEW n, ExDone(n)
    PROVE  /\ ex'.todo \subseteq ex.todo
           /\ ex'.pc \in {"idle", "loop"}
           /\ \A m \in ex'.todo : past_deadline(m)' <=> past_deadline(m)
<1>1. CASE ex.todo = {n}
  BY <1>1 DEF ExDone, IdleEx
<1>2. CASE ex.todo # {n}
  <2>1. /\ ex'.pc = "loop" /\ ex'.todo = ex.todo \ {n}
        /\ ex'.now = ex.now /\ ex'.snap = ex.snap
    BY <1>2 DEF ExDone, TypeOK
  <2> QED BY <2>1 DEF past_deadline
<1> QED BY <1>1, <1>2

\* Every step keeps the expiry task's conclusions in line with the histories.
LEMMA LapseNext == TypeOK /\ TaskInv /\ LapseInv /\ [Next]_vars => LapseInv'
<1> SUFFICES ASSUME TypeOK, TaskInv, LapseInv, [Next]_vars PROVE LapseInv'
  OBVIOUS
<1> USE DEF store, zone, network, session, epRest, ppRest, exRest
<1> DEFINE Swept == /\ ex.todo \subseteq lapsed
                    /\ \A n \in ex.todo : past_deadline(n) => n \in overdue
                    /\ ex.pc \in {"zone", "rows", "mark"} => ex.cur \in overdue
           NoneExpires == \A n \in Names : table'[n].status = "expired" => table[n].status = "expired"
           Quiet == ex' = ex /\ NoneExpires
<1>0. /\ lapsed \subseteq lapsed' /\ overdue \subseteq overdue'
      /\ Swept /\ ExpiredWasOverdue
      /\ table \in Table
  BY HistoryNext DEF LapseInv, TypeOK
<1>s. ASSUME Swept', ExpiredWasOverdue' PROVE LapseInv'
  BY <1>s, HistoryNext DEF LapseInv
<1>q. ASSUME Quiet PROVE LapseInv'
  <2>1. Swept'
    BY <1>0, <1>q DEF past_deadline
  <2>2. ExpiredWasOverdue'
    BY <1>0, <1>q DEF ExpiredWasOverdue
  <2> QED BY <1>s, <2>1, <2>2
<1> HIDE DEF Quiet, Swept
<1>1. CASE Tick
  BY <1>1, <1>q DEF Quiet, Tick
<1>2. CASE PublishName \/ PublishGrant \/ PublishRecord
  BY <1>2, <1>q, PublishedIsEvent DEF Quiet, Publish
<1>3. ASSUME NEW d \in Dm, SendDm(d) PROVE LapseInv'
  BY <1>3, <1>q DEF Quiet, SendDm
<1>4. CASE Restart
  <2>1. Swept'
    BY <1>4 DEF Swept, Restart, IdleEx
  <2>2. ExpiredWasOverdue'
    BY <1>0, <1>4 DEF Restart, ExpiredWasOverdue
  <2> QED BY <1>s, <2>1, <2>2
<1>5. ASSUME NEW e \in relay, EpDelegation(e) PROVE LapseInv'
  <2>1. e.name \in Names
    BY <1>5 DEF TaskInv, TypeOK, EpDelegation
  <2> QED BY <1>0, <1>5, <1>q, <2>1, SaveRow DEF Quiet, EpDelegation, save_delegation
<1>6. ASSUME NEW e \in relay, EpLease(e) PROVE LapseInv'
  <2>1. e.name \in Names
    BY <1>6 DEF TaskInv, TypeOK, EpLease
  <2> QED BY <1>0, <1>6, <1>q, <2>1, SaveRow DEF Quiet, EpLease, save_delegation
<1>7. ASSUME NEW e \in relay, EpClaimCheck(e) PROVE LapseInv'
  BY <1>7, <1>q DEF Quiet, EpClaimCheck
<1>8. CASE EpClaimSave
  <2>1. ep.ev.name \in Names
    BY <1>8 DEF TaskInv, TypeOK, EpClaimSave
  <2> QED BY <1>0, <1>8, <1>q, <2>1, SaveRow DEF Quiet, EpClaimSave
<1>9. ASSUME NEW e \in relay, EpRenewalCheck(e) PROVE LapseInv'
  BY <1>9, <1>q DEF Quiet, EpRenewalCheck
<1>10. CASE EpRenewalSave
  <2>1. ep.ev.name \in Names /\ ep.ev.valid_until \in Nat
    BY <1>10 DEF TaskInv, TypeOK, EpRenewalSave, Event
  <2> QED BY <1>0, <1>10, <1>q, <2>1, UpdateStatus DEF Quiet, EpRenewalSave
<1>11. ASSUME NEW e \in relay, EpLimited(e) PROVE LapseInv'
  BY <1>11, <1>q DEF Quiet, EpLimited
<1>12. ASSUME NEW e \in relay, NEW f \in Fqdns, EpResolve(e, f) PROVE LapseInv'
  BY <1>12, <1>q DEF Quiet, EpResolve
<1>13. CASE EpAuthorize
  BY <1>13, <1>q DEF Quiet, EpAuthorize
<1>14. CASE EpZoneFails
  BY <1>14, <1>q DEF Quiet, EpZoneFails
<1>15. CASE EpZone
  BY <1>15, <1>q DEF Quiet, EpZone
<1>15p. CASE EpProof
  BY <1>15p, <1>q DEF Quiet, EpProof, TypeOK
<1>16. CASE EpRows
  BY <1>16, <1>q DEF Quiet, EpRows
<1>17. ASSUME NEW d \in dms, PpReceive(d) PROVE LapseInv'
  BY <1>17, <1>q DEF Quiet, PpReceive
<1>18. CASE PpVerifyFails
  BY <1>18, <1>q DEF Quiet, PpVerifyFails
<1>19. CASE PpSave
  <2>1. pp.dm.name \in Names
    BY <1>19 DEF TaskInv, TypeOK, PpSave, Dm
  <2> QED BY <1>0, <1>19, <1>q, <2>1, SaveRow DEF Quiet, PpSave
<1>20. CASE PpPublish
  BY <1>20, <1>q DEF Quiet, PpPublish
<1>21. CASE PpMark
  BY <1>21, <1>q DEF Quiet, PpMark
<1>22. CASE ExTick
  <2>1. Swept'
    BY <1>0, <1>22 DEF Swept, ExTick, LapseInv, get_delegations_past_valid_until, past_deadline, TypeOK
  <2>2. ExpiredWasOverdue'
    BY <1>0, <1>22 DEF ExTick, ExpiredWasOverdue
  <2> QED BY <1>s, <2>1, <2>2
<1>23. ASSUME NEW n \in Names, ExGrace(n) PROVE LapseInv'
  <2>1. Swept'
    BY <1>0, <1>23, ExDoneSwept DEF Swept, ExGrace, ExFirst
  <2>2. ExpiredWasOverdue'
    BY <1>0, <1>23, UpdateStatus DEF ExGrace, ExpiredWasOverdue
  <2> QED BY <1>s, <2>1, <2>2
<1>24. ASSUME NEW n \in Names, ExRecords(n) PROVE LapseInv'
  <2>1. Swept'
    <3>1. n \in overdue
      BY <1>0, <1>24 DEF Swept, ExRecords, ExFirst
    <3>2. ex'.todo = ex.todo /\ ex'.cur = n /\ ex'.now = ex.now /\ ex'.snap = ex.snap
      BY <1>24 DEF ExRecords, TypeOK
    <3> QED BY <1>0, <3>1, <3>2 DEF Swept, past_deadline
  <2>2. ExpiredWasOverdue'
    BY <1>0, <1>24 DEF ExRecords, ExpiredWasOverdue
  <2> QED BY <1>s, <2>1, <2>2
<1>25. CASE ExZone
  <2>1. Swept'
    <3>1. ex'.todo = ex.todo /\ ex'.cur = ex.cur /\ ex'.now = ex.now /\ ex'.snap = ex.snap
      BY <1>25 DEF ExZone, TypeOK
    <3> QED BY <1>0, <1>25, <3>1 DEF Swept, past_deadline, ExZone
  <2>2. ExpiredWasOverdue'
    BY <1>0, <1>25 DEF ExZone, ExpiredWasOverdue
  <2> QED BY <1>s, <2>1, <2>2
<1>26. CASE ExRows
  <2>1. Swept'
    <3>1. ex'.todo = ex.todo /\ ex'.cur = ex.cur /\ ex'.now = ex.now /\ ex'.snap = ex.snap
      BY <1>26 DEF ExRows, TypeOK
    <3> QED BY <1>0, <1>26, <3>1 DEF Swept, past_deadline, ExRows
  <2>2. ExpiredWasOverdue'
    BY <1>0, <1>26 DEF ExRows, ExpiredWasOverdue
  <2> QED BY <1>s, <2>1, <2>2
<1>27. CASE ExMark
  <2>1. ex.cur \in Names /\ ex.cur \in overdue
    BY <1>0, <1>27 DEF TaskInv, TypeOK, ExMark, Swept
  <2>2. Swept'
    BY <1>0, <1>27, ExDoneSwept DEF Swept, ExMark
  <2>3. ExpiredWasOverdue'
    BY <1>0, <1>27, <2>1, UpdateStatus DEF ExMark, ExpiredWasOverdue
  <2> QED BY <1>s, <2>2, <2>3
<1>28. CASE UNCHANGED vars
  BY <1>28, <1>q DEF Quiet, vars
<1> QED
  BY <1>1, <1>2, <1>3, <1>4, <1>5, <1>6, <1>7, <1>8, <1>9, <1>10, <1>11, <1>12, <1>13, <1>14,
     <1>15, <1>15p, <1>16, <1>17, <1>18, <1>19, <1>20, <1>21, <1>22, <1>23, <1>24, <1>25, <1>26,
     <1>27, <1>28
  DEF Next, Environment, EpStep, PpStep, ExStep

\* The expiry task never expires a name no lease of which ever passed its grace
\* deadline, although it acts on a snapshot that renewals, payments and restarts
\* overtake.
THEOREM ExpiredOverdue == Spec => []ExpiredWasOverdue
<1>1. Init => LapseInv
  BY DelegationAssumption DEF Init, LapseInv, ExpiredWasOverdue, NoRow, IdleEx
<1>2. LapseInv => ExpiredWasOverdue
  BY DEF LapseInv
<1> QED BY <1>1, <1>2, TypeInit, TypeNext, LapseNext, PTL DEF Spec
-----------------------------------------------------------------------------
(* Sales. *)

\* Every step keeps sold names active until they lapse.
LEMMA SaleNext == TypeOK /\ TaskInv /\ LapseInv /\ SaleInv /\ [Next]_vars => SaleInv'
<1> SUFFICES ASSUME TypeOK, TaskInv, LapseInv, SaleInv, [Next]_vars PROVE SaleInv'
  OBVIOUS
<1> USE DEF store, zone, network, session, epRest, ppRest, exRest
<1> DEFINE Sales == \A g \in grants' : g.by = "payment" => g \in grants
           StaysActive == \A n \in Names : table[n].status = "active" =>
                                  table'[n].status = "active" \/ n \in lapsed
           Quiet == /\ Sales /\ StaysActive
                    /\ pp' = pp \/ pp'.pc # "verify"
<1>0. lapsed \subseteq lapsed' /\ table \in Table /\ grants \subseteq Grant /\ ex.todo \subseteq lapsed
  BY HistoryNext DEF LapseInv, TypeOK
<1>t. \A g \in grants : g.name \in Names
  BY <1>0 DEF Grant
<1>q. ASSUME Quiet PROVE SaleInv'
  BY <1>0, <1>q, <1>t DEF SaleInv, NoEarlyResale
<1> HIDE DEF Quiet
<1>1. CASE Tick
  BY <1>1, <1>q DEF Quiet, Tick
<1>2. CASE PublishName \/ PublishGrant \/ PublishRecord
  <2>1. PICK e \in Event : Publish(e)
    BY <1>2, PublishedIsEvent
  <2> DEFINE g == [name |-> e.name, npub |-> e.npub, at |-> now,
                   by |-> IF e.kind = "lease" THEN "lease" ELSE "signature"]
  <2>2. grants' \subseteq grants \cup {g} /\ g.by # "payment"
    BY <2>1 DEF Publish
  <2> HIDE DEF g
  <2> QED BY <1>q, <2>1, <2>2 DEF Quiet, Publish
<1>3. ASSUME NEW d \in Dm, SendDm(d) PROVE SaleInv'
  BY <1>3, <1>q DEF Quiet, SendDm
<1>4. CASE Restart
  BY <1>4, <1>q DEF Quiet, Restart, IdlePp
<1>5. ASSUME NEW e \in relay, EpDelegation(e) PROVE SaleInv'
  <2>1. e.name \in Names
    BY <1>5 DEF TaskInv, TypeOK, EpDelegation
  <2> QED BY <1>0, <1>5, <1>q, <2>1, SaveRow DEF Quiet, EpDelegation, save_delegation
<1>6. ASSUME NEW e \in relay, EpLease(e) PROVE SaleInv'
  <2>1. e.name \in Names
    BY <1>6 DEF TaskInv, TypeOK, EpLease
  <2> QED BY <1>0, <1>6, <1>q, <2>1, SaveRow DEF Quiet, EpLease, save_delegation
<1>7. ASSUME NEW e \in relay, EpClaimCheck(e) PROVE SaleInv'
  BY <1>7, <1>q DEF Quiet, EpClaimCheck
<1>8. CASE EpClaimSave
  <2>1. ep.ev.name \in Names
    BY <1>8 DEF TaskInv, TypeOK, EpClaimSave
  <2> QED BY <1>0, <1>8, <1>q, <2>1, SaveRow DEF Quiet, EpClaimSave
<1>9. ASSUME NEW e \in relay, EpRenewalCheck(e) PROVE SaleInv'
  BY <1>9, <1>q DEF Quiet, EpRenewalCheck
<1>10. CASE EpRenewalSave
  <2>1. ep.ev.name \in Names /\ ep.ev.valid_until \in Nat
    BY <1>10 DEF TaskInv, TypeOK, EpRenewalSave, Event
  <2> QED BY <1>0, <1>10, <1>q, <2>1, UpdateStatus DEF Quiet, EpRenewalSave
<1>11. ASSUME NEW e \in relay, EpLimited(e) PROVE SaleInv'
  BY <1>11, <1>q DEF Quiet, EpLimited
<1>12. ASSUME NEW e \in relay, NEW f \in Fqdns, EpResolve(e, f) PROVE SaleInv'
  BY <1>12, <1>q DEF Quiet, EpResolve
<1>13. CASE EpAuthorize
  BY <1>13, <1>q DEF Quiet, EpAuthorize
<1>14. CASE EpZoneFails
  BY <1>14, <1>q DEF Quiet, EpZoneFails
<1>15. CASE EpZone
  BY <1>15, <1>q DEF Quiet, EpZone
<1>15p. CASE EpProof
  BY <1>15p, <1>q DEF Quiet, EpProof, TypeOK
<1>16. CASE EpRows
  BY <1>16, <1>q DEF Quiet, EpRows
<1>17. ASSUME NEW d \in dms, PpReceive(d) PROVE SaleInv'
  <2>1. CASE d.form \in {"unpaid", "paid"} /\ is_name_available(table, d.name, now)
    <3>1. d.name \in Names /\ now \in Nat /\ table[d.name].valid_until \in Nat
      BY <1>0 DEF TypeOK, Dm, Time, Table, Row
    <3>2. \/ d.name \in lapsed
          \/ \A g \in grants : g.by = "payment" => g.name # d.name
      BY <2>1, <3>1 DEF SaleInv, LapseInv, is_name_available
    <3>3. pp' = [IdlePp EXCEPT !.pc = "verify", !.dm = d]
      BY <1>17, <2>1 DEF PpReceive
    <3>4. pp'.dm = d
      BY <3>3 DEF IdlePp
    <3> QED BY <1>0, <1>17, <3>2, <3>4 DEF SaleInv, NoEarlyResale, PpReceive
  <2>2. CASE ~ (d.form \in {"unpaid", "paid"} /\ is_name_available(table, d.name, now))
    <3>1. pp' = IdlePp \/ pp' = [IdlePp EXCEPT !.pc = "mark", !.dm = d]
      BY <1>17, <2>2 DEF PpReceive, ppAnswer
    <3>2. pp'.pc # "verify"
      <4>1. CASE pp' = IdlePp
        BY <4>1 DEF IdlePp
      <4>2. CASE pp' = [IdlePp EXCEPT !.pc = "mark", !.dm = d]
        BY <4>2 DEF IdlePp
      <4> QED BY <3>1, <4>1, <4>2
    <3> QED BY <1>17, <1>q, <3>2 DEF Quiet, PpReceive
  <2> QED BY <2>1, <2>2
<1>18. CASE PpVerifyFails
  BY <1>18, <1>q DEF Quiet, PpVerifyFails, ppAnswer, IdlePp
<1>19. CASE PpSave
  <2> DEFINE g == [name |-> pp.dm.name, npub |-> pp.dm.sender, at |-> now, by |-> "payment"]
  <2>1. pp.dm.name \in Names /\ pp'.pc # "verify"
    BY <1>19 DEF TaskInv, TypeOK, PpSave, Dm
  <2>2. grants' = grants \cup {g} /\ g.name = pp.dm.name
    BY <1>19 DEF PpSave
  <2> HIDE DEF g
  <2>3. \A n \in Names : table[n].status = "active" \/ n = pp.dm.name => table'[n].status = "active"
    BY <1>0, <1>19, <2>1, SaveRow DEF PpSave
  <2>4. \A h \in grants : h.by = "payment" /\ h.name = g.name => h.name \in lapsed
    BY <1>19, <2>2 DEF SaleInv, PpSave
  <2>5. NoEarlyResale'
    BY <1>0, <2>2, <2>4 DEF SaleInv, NoEarlyResale
  <2>6. \A h \in grants' : h.by = "payment" => h.name \in lapsed' \/ table'[h.name].status = "active"
    BY <1>0, <1>t, <2>1, <2>2, <2>3 DEF SaleInv
  <2> QED BY <2>1, <2>5, <2>6 DEF SaleInv
<1>20. CASE PpPublish
  BY <1>20, <1>q DEF Quiet, PpPublish, ppAnswer, IdlePp
<1>21. CASE PpMark
  BY <1>21, <1>q DEF Quiet, PpMark, IdlePp
<1>22. CASE ExTick
  BY <1>22, <1>q DEF Quiet, ExTick
<1>23. ASSUME NEW n \in Names, ExGrace(n) PROVE SaleInv'
  <2>1. n \in lapsed
    BY <1>0, <1>23 DEF ExGrace, ExFirst
  <2> QED BY <1>0, <1>23, <1>q, <2>1, UpdateStatus DEF Quiet, ExGrace
<1>24. ASSUME NEW n \in Names, ExRecords(n) PROVE SaleInv'
  BY <1>24, <1>q DEF Quiet, ExRecords
<1>25. CASE ExZone
  BY <1>25, <1>q DEF Quiet, ExZone
<1>26. CASE ExRows
  BY <1>26, <1>q DEF Quiet, ExRows
<1>27. CASE ExMark
  <2>1. ex.cur \in Names /\ ex.cur \in lapsed
    BY <1>0, <1>27 DEF TaskInv, TypeOK, ExMark
  <2> QED BY <1>0, <1>27, <1>q, <2>1, UpdateStatus DEF Quiet, ExMark
<1>28. CASE UNCHANGED vars
  BY <1>28, <1>q DEF Quiet, vars
<1> QED
  BY <1>1, <1>2, <1>3, <1>4, <1>5, <1>6, <1>7, <1>8, <1>9, <1>10, <1>11, <1>12, <1>13, <1>14,
     <1>15, <1>15p, <1>16, <1>17, <1>18, <1>19, <1>20, <1>21, <1>22, <1>23, <1>24, <1>25, <1>26,
     <1>27, <1>28
  DEF Next, Environment, EpStep, PpStep, ExStep

\* A name is never sold twice within one lease: between the availability check
\* and the save of a paid DM no other sale of the name can happen, also when a
\* restart makes the bot process a DM again.
THEOREM NoEarlyResales == Spec => []NoEarlyResale
<1>1. Init => LapseInv
  BY DelegationAssumption DEF Init, LapseInv, ExpiredWasOverdue, NoRow, IdleEx
<1>2. Init => SaleInv
  BY DEF Init, SaleInv, NoEarlyResale, IdlePp
<1>3. SaleInv => NoEarlyResale
  BY DEF SaleInv
<1> QED BY <1>1, <1>2, <1>3, TypeInit, TypeNext, LapseNext, SaleNext, PTL DEF Spec
-----------------------------------------------------------------------------
(* The book of names. *)

\* What the event processor's checks found, as long as it acts on it.
PassedInv ==
    /\ ep.pc = "renewal" => ep.ev.valid_until <= OperatorExpiry
    /\ ep.pc = "zone" /\ ep.fqdn \notin Names => ep.fqdn = ep.ev.signer

\* Only the two checks bring the event processor to where it acts on them.
LEMMA PassedKept ==
    ASSUME TypeOK, [Next]_vars, ~EpAuthorize, \A e \in relay : ~EpRenewalCheck(e)
    PROVE  ep' = ep \/ ep'.pc \notin {"renewal", "zone"}
<1> USE DEF ppRest, exRest, Finish
<1>0. IdleEp.pc = "idle"
  BY DEF IdleEp
<1>1. CASE Environment
  <2>1. ASSUME NEW e, Publish(e) PROVE ep' = ep
    BY <2>1 DEF Publish
  <2> QED BY <1>0, <1>1, <2>1 DEF Environment, Tick, PublishName, PublishGrant, PublishRecord, SendDm, Restart
<1>2. ASSUME NEW e \in relay, EpClaimCheck(e) PROVE ep' = ep \/ ep'.pc \notin {"renewal", "zone"}
  <2>1. ep' = IdleEp \/ ep' = [IdleEp EXCEPT !.pc = "claim", !.ev = [e EXCEPT !.valid_from = now]]
    BY <1>2 DEF EpClaimCheck
  <2> QED BY <1>0, <2>1 DEF IdleEp
<1>3. ASSUME NEW e \in relay, EpDelegation(e) \/ EpLease(e) \/ EpLimited(e) \/ \E f \in Fqdns : EpResolve(e, f)
      PROVE  ep'.pc \notin {"renewal", "zone"}
  BY <1>0, <1>3 DEF EpDelegation, EpLease, EpLimited, EpResolve
<1>4. CASE EpClaimSave \/ EpRenewalSave \/ EpZoneFails \/ EpRows
  BY <1>0, <1>4 DEF EpClaimSave, EpRenewalSave, EpZoneFails, EpRows
<1>5. CASE EpZone \/ EpProof
  BY <1>5 DEF EpZone, EpProof, TypeOK
<1>6. CASE PpStep
  BY <1>6 DEF PpStep, PpReceive, PpVerifyFails, PpSave, PpPublish, PpMark
<1>7. CASE ExStep
  BY <1>7 DEF ExStep, ExTick, ExGrace, ExRecords, ExZone, ExRows, ExMark
<1>8. CASE UNCHANGED vars
  BY <1>8 DEF vars
<1> QED BY <1>1, <1>2, <1>3, <1>4, <1>5, <1>6, <1>7, <1>8 DEF Next, EpStep

LEMMA PassedNext == TypeOK /\ TaskInv /\ PassedInv /\ [Next]_vars => PassedInv'
<1> SUFFICES ASSUME TypeOK, TaskInv, PassedInv, [Next]_vars PROVE PassedInv'
  OBVIOUS
<1>1. CASE EpAuthorize
  <2>1. CASE check_authority(table, ep.fqdn, ep.ev.signer)
    <3>1. ep'.pc = "zone" /\ ep'.fqdn = ep.fqdn /\ ep'.ev = ep.ev
      BY <1>1, <2>1 DEF EpAuthorize, TypeOK
    <3> QED BY <2>1, <3>1 DEF PassedInv, check_authority
  <2>2. CASE ~check_authority(table, ep.fqdn, ep.ev.signer)
    BY <1>1, <2>2 DEF PassedInv, EpAuthorize, Finish, IdleEp
  <2> QED BY <2>1, <2>2
<1>2. ASSUME NEW e \in relay, EpRenewalCheck(e) PROVE PassedInv'
  <2>1. CASE renewal_accepted(table, e)
    <3>1. ep'.pc = "renewal" /\ ep'.ev = e
      BY <1>2, <2>1 DEF EpRenewalCheck, IdleEp
    <3> QED BY <2>1, <3>1 DEF PassedInv, renewal_accepted
  <2>2. CASE ~renewal_accepted(table, e)
    BY <1>2, <2>2 DEF PassedInv, EpRenewalCheck, Finish, IdleEp
  <2> QED BY <2>1, <2>2
<1>3. CASE ~EpAuthorize /\ \A e \in relay : ~EpRenewalCheck(e)
  BY <1>3, PassedKept DEF PassedInv
<1> QED BY <1>1, <1>2, <1>3

\* What rests on the invariants of the properties above.
BookInv == TypeOK /\ TaskInv /\ GrantInv /\ ServedInv /\ LapseInv /\ SaleInv /\ PassedInv

\* A step that touches none of the book's sources is none of the book.
LEMMA BookKept ==
    ASSUME BookInv, Next, UNCHANGED <<now, table, dns, grants>>
    PROVE  UNCHANGED NameSvc!nameVars
<1>1. History
  BY HistoryKept
<1>2. UNCHANGED <<lapsed, overdue>>
  BY <1>1 DEF History, BookInv, LapseInv
<1>3. \A n : entryOf(n)' = entryOf(n)
  BY DEF entryOf
<1> QED BY <1>2, <1>3 DEF NameSvc!nameVars

LEMMA Remembered == ASSUME Next PROVE NameSvc!Remember
<1>1. History
  BY HistoryKept
<1> QED BY <1>1 DEF History, NameSvc!Remember, entryOf, grace_deadline

\* A row that is saved is a lease in the book.
LEMMA SavedInBook ==
    ASSUME table \in Table, NEW n \in Names, NEW u, NEW k, NEW from, NEW until, NEW price, NEW at,
           table' = save_delegation_with_price(table, n, u, k, from, until, price, at)
    PROVE  NameSvc!Becomes(n, u, "active") /\ table'[n].valid_until = until
<1>1. \A m \in Names : /\ m # n => table'[m] = table[m]
                       /\ m = n => /\ table'[m].npub = u /\ table'[m].status = "active"
                                   /\ table'[m].valid_until = until
  BY SaveRow
<1>2. \A m \in Names : entryOf(m)' = IF m = n THEN [holder |-> u, until |-> until, status |-> "active"]
                                     ELSE entryOf(m)
  BY <1>1 DEF entryOf
<1>3. [m \in Names |-> entryOf(m)]' =
        [[m \in Names |-> entryOf(m)] EXCEPT ![n] = [holder |-> u, until |-> until, status |-> "active"]]
  BY <1>2
<1>4. [m \in Names |-> entryOf(m)]'[n].until = until
  BY <1>2
<1> QED BY <1>1, <1>3, <1>4 DEF NameSvc!Becomes

\* The granted names before and after a grant.
LEMMA GrantInBook ==
    ASSUME NEW g, grants' = grants \cup {g}
    PROVE  /\ {<<h.name, h.npub>> : h \in grants'} = {<<h.name, h.npub>> : h \in grants} \cup {<<g.name, g.npub>>}
           /\ {h.name : h \in {k \in grants' : k.by = "payment"}} =
                {h.name : h \in {k \in grants : k.by = "payment"}} \cup (IF g.by = "payment" THEN {g.name} ELSE {})
OBVIOUS

LEMMA BookStep == ASSUME BookInv, Next PROVE [NameSvc!NameNext]_NameSvc!nameVars
<1> USE DEF store, zone, network, session, epRest, ppRest, exRest
<1>t. table \in Table /\ now \in Nat
  BY DEF BookInv, TypeOK, Time
<1>g. \A n, u : Granted(n, u) => <<n, u>> \in {<<h.name, h.npub>> : h \in grants}
  BY DEF Granted
<1>k. UNCHANGED <<now, table, dns, grants>> => [NameSvc!NameNext]_NameSvc!nameVars
  BY BookKept
<1>b. table' = table => [n \in Names |-> entryOf(n)]' = [n \in Names |-> entryOf(n)]
  BY DEF entryOf
<1>e. ASSUME NEW n \in Names, NEW u \in Principals, NEW k, NEW from, NEW until, NEW price, NEW at,
             table' = save_delegation_with_price(table, n, u, k, from, until, price, at),
             Granted(n, u), UNCHANGED <<now, dns, grants>>
      PROVE  NameSvc!NameNext
  <2>1. NameSvc!Becomes(n, u, "active")
    BY <1>t, <1>e, SavedInBook
  <2>2. NameSvc!Enter(n, u)
    BY <1>e, <1>g, <2>1 DEF NameSvc!Enter
  <2> QED BY <2>2, Remembered DEF NameSvc!NameNext
<1>1. CASE Tick
  <2>1. NameSvc!PassTime
    BY <1>1, <1>b DEF Tick, NameSvc!PassTime
  <2> QED BY <2>1, Remembered DEF NameSvc!NameNext
<1>2. CASE PublishName \/ PublishGrant \/ PublishRecord
  <2>1. PICK e \in Event : /\ Publish(e)
                           /\ e.kind \in {"claim", "renewal", "delegation", "lease"} => e.name \in Names
    BY <1>2, PublishedIsEvent DEF BookInv
  <2>2. CASE gives(e)
    <3> DEFINE g == [name |-> e.name, npub |-> e.npub, at |-> now,
                     by |-> IF e.kind = "lease" THEN "lease" ELSE "signature"]
    <3>1. grants' = grants \cup {g} /\ UNCHANGED <<now, table, dns>>
      BY <2>1, <2>2 DEF Publish
    <3>2. g.name = e.name /\ g.npub = e.npub /\ g.by # "payment" /\ e.name \in Names /\ e.npub \in Principals
      BY <2>1, <2>2 DEF Event, gives
    <3> HIDE DEF g
    <3>3. NameSvc!Sign(e.name, e.npub)
      BY <1>b, <3>1, <3>2, GrantInBook DEF NameSvc!Sign
    <3> QED BY <3>2, <3>3, Remembered DEF NameSvc!NameNext
  <2>3. CASE ~gives(e)
    BY <1>k, <2>1, <2>3 DEF Publish
  <2> QED BY <2>2, <2>3
<1>3. CASE (\E d \in Dm : SendDm(d)) \/ Restart
  BY <1>3, <1>k DEF SendDm, Restart
<1>4. ASSUME NEW e \in relay, EpDelegation(e) PROVE [NameSvc!NameNext]_NameSvc!nameVars
  <2>1. e.name \in Names /\ e.npub \in Principals /\ UNCHANGED <<now, dns, grants>>
    BY <1>4 DEF BookInv, TaskInv, TypeOK, EpDelegation, Event
  <2>2. CASE validate_delegation(e, now)
    <3>1. Granted(e.name, e.npub)
      BY <1>4, <2>2 DEF BookInv, GrantInv, EpDelegation, validate_delegation, gives
    <3> QED BY <1>4, <1>e, <2>1, <2>2, <3>1 DEF EpDelegation, save_delegation
  <2>3. CASE ~validate_delegation(e, now)
    BY <1>4, <1>k, <2>1, <2>3 DEF EpDelegation
  <2> QED BY <2>2, <2>3
<1>5. ASSUME NEW e \in relay, EpLease(e) PROVE [NameSvc!NameNext]_NameSvc!nameVars
  <2>1. e.name \in Names /\ e.npub \in Principals /\ UNCHANGED <<now, dns, grants>>
    BY <1>5 DEF BookInv, TaskInv, TypeOK, EpLease, Event
  <2>2. Granted(e.name, e.npub)
    BY <1>5 DEF BookInv, GrantInv, EpLease, gives
  <2> QED BY <1>5, <1>e, <2>1, <2>2 DEF EpLease, save_delegation
<1>6. CASE EpClaimSave
  <2>1. ep.ev.name \in Names /\ ep.ev.npub \in Principals /\ UNCHANGED <<now, dns, grants>>
    BY <1>6 DEF BookInv, TaskInv, TypeOK, EpClaimSave, Event
  <2>2. Granted(ep.ev.name, ep.ev.npub)
    BY <1>6 DEF BookInv, GrantInv, EpClaimSave
  <2> QED BY <1>6, <1>e, <2>1, <2>2 DEF EpClaimSave
<1>7. CASE EpRenewalSave
  <2> DEFINE n == ep.ev.name
             until == ep.ev.valid_until
  <2>1. n \in Names /\ until <= OperatorExpiry /\ UNCHANGED <<now, dns, grants>>
    BY <1>7 DEF BookInv, TaskInv, PassedInv, EpRenewalSave
  <2>2. table' = renew_delegation(table, n, until)
    BY <1>7 DEF EpRenewalSave
  <2> HIDE DEF n, until
  <2>3. CASE table[n].status = "none"
    BY <1>k, <2>1, <2>2, <2>3 DEF renew_delegation
  <2>4. CASE table[n].status # "none"
    <3>1. \A m \in Names : entryOf(m)' =
            IF m = n THEN [holder |-> table[n].npub, until |-> until, status |-> "active"] ELSE entryOf(m)
      BY <1>t, <2>1, <2>2, <2>4 DEF renew_delegation, entryOf, Table, Row
    <3>2. NameSvc!Renew(n)
      BY <2>1, <2>4, <3>1 DEF NameSvc!Renew, NameSvc!Becomes, entryOf
    <3> QED BY <2>1, <3>2, Remembered DEF NameSvc!NameNext
  <2> QED BY <2>3, <2>4
<1>8. ASSUME NEW e \in relay,
             EpClaimCheck(e) \/ EpRenewalCheck(e) \/ EpLimited(e) \/ \E f \in Fqdns : EpResolve(e, f)
      PROVE  [NameSvc!NameNext]_NameSvc!nameVars
  BY <1>8, <1>k DEF EpClaimCheck, EpRenewalCheck, EpLimited, EpResolve
<1>9. CASE EpAuthorize \/ EpZoneFails \/ EpProof \/ EpRows
  BY <1>9, <1>k DEF EpAuthorize, EpZoneFails, EpProof, EpRows
<1>10. CASE EpZone
  <2> DEFINE f == ep.fqdn
             u == ep.ev.signer
  <2>1. f \in Fqdns /\ u \in Principals /\ UNCHANGED <<now, table, grants>>
    BY <1>10 DEF BookInv, TypeOK, TaskInv, EpZone, Event
  <2>2. NameSvc!MayServe(f, u)
    BY <1>10, <1>g, <2>1 DEF BookInv, ServedInv, PassedInv, EpZone, NameSvc!MayServe
  <2>3. dns' = [dns EXCEPT ![f] = u] \/ dns' = [dns EXCEPT ![f] = Nobody]
    BY <1>10 DEF EpZone, epOwner
  <2> HIDE DEF f, u
  <2>4. NameSvc!Serve(f, u) \/ NameSvc!Withdraw(f)
    BY <1>b, <2>1, <2>2, <2>3 DEF NameSvc!Serve, NameSvc!Withdraw
  <2> QED BY <2>1, <2>4, Remembered DEF NameSvc!NameNext, Fqdns
<1>11. CASE (\E d \in dms : PpReceive(d)) \/ PpVerifyFails \/ PpPublish \/ PpMark
  BY <1>11, <1>k DEF PpReceive, PpVerifyFails, PpPublish, PpMark
<1>12. CASE PpSave
  <2>1. /\ pp.dm.name \in Names /\ pp.dm.sender \in Principals /\ pp.dm.days \in 1 .. MaxLease
        /\ UNCHANGED <<now, dns>>
    BY <1>12 DEF BookInv, TaskInv, TypeOK, PpSave, Dm, Principals
  <2>0. PICK n \in Names, u \in Principals : n = pp.dm.name /\ u = pp.dm.sender
    BY <2>1
  <2> DEFINE g == [name |-> n, npub |-> u, at |-> now, by |-> "payment"]
  <2>2. n \in {h.name : h \in {k \in grants : k.by = "payment"}} => n \in lapsed
    BY <1>12, <2>0 DEF BookInv, SaleInv, PpSave
  <2>3. NameSvc!Becomes(n, u, "active") /\ table'[n].valid_until = now + pp.dm.days
    BY <1>12, <1>t, <2>0, SavedInBook DEF PpSave
  <2>4. grants' = grants \cup {g} /\ g.name = n /\ g.npub = u /\ g.by = "payment"
    BY <1>12, <2>0 DEF PpSave
  <2>5. now + pp.dm.days \in now + 1 .. now + MaxLease
    BY <1>t, <2>1, DelegationAssumption
  <2> HIDE DEF g
  <2>6. [m \in Names |-> entryOf(m)]'[n].until = now + pp.dm.days
    BY <2>1, <2>3 DEF entryOf
  <2>7. NameSvc!Sell(n, u)
    BY <2>1, <2>2, <2>3, <2>4, <2>5, <2>6, GrantInBook DEF NameSvc!Sell
  <2> QED BY <2>7, Remembered DEF NameSvc!NameNext
<1>13. CASE ExTick \/ ExRows
  BY <1>13, <1>k DEF ExTick, ExRows
<1>14. ASSUME NEW n \in Names, ExRecords(n) PROVE [NameSvc!NameNext]_NameSvc!nameVars
  BY <1>14, <1>k DEF ExRecords
<1>15. ASSUME NEW n \in Names, ExGrace(n) PROVE [NameSvc!NameNext]_NameSvc!nameVars
  <2>1. n \in lapsed /\ UNCHANGED <<now, dns, grants>>
    BY <1>15 DEF BookInv, LapseInv, ExGrace, ExFirst
  <2>2. CASE table' = table
    BY <1>k, <2>1, <2>2
  <2>3. CASE table[n].status = "active" /\ table' = [table EXCEPT ![n].status = "grace"]
    <3>1. \A m \in Names : entryOf(m)' = IF m = n THEN [entryOf(n) EXCEPT !.status = "grace"] ELSE entryOf(m)
      BY <1>t, <2>3 DEF entryOf, Table, Row
    <3>2. NameSvc!EnterGrace(n)
      BY <2>1, <2>3, <3>1 DEF NameSvc!EnterGrace, entryOf
    <3> QED BY <3>2, Remembered DEF NameSvc!NameNext
  <2> QED BY <1>15, <2>2, <2>3 DEF ExGrace, mark_delegation_grace
<1>16. CASE ExZone
  <2>1. ex.cur \in overdue /\ ex.cur \in Names /\ UNCHANGED <<now, table, grants>>
    BY <1>16 DEF BookInv, LapseInv, TaskInv, TypeOK, ExZone
  <2>2. CASE dns' = dns
    BY <1>k, <2>1, <2>2
  <2>3. CASE dns' = [dns EXCEPT ![ex.cur] = Nobody]
    <3>1. NameSvc!Withdraw(ex.cur)
      BY <1>b, <2>1, <2>3 DEF NameSvc!Withdraw
    <3> QED BY <2>1, <3>1, Remembered DEF NameSvc!NameNext
  <2> QED BY <1>16, <2>2, <2>3 DEF ExZone
<1>17. CASE ExMark
  <2> DEFINE n == ex.cur
  <2>1. n \in overdue /\ n \in Names /\ UNCHANGED <<now, dns, grants>>
    BY <1>17 DEF BookInv, LapseInv, TaskInv, TypeOK, ExMark
  <2>2. table' = mark_delegation_expired(table, n)
    BY <1>17 DEF ExMark
  <2> HIDE DEF n
  <2>3. CASE table' = table
    BY <1>k, <2>1, <2>3
  <2>4. CASE table[n].status \in {"active", "grace"} /\ table' = [table EXCEPT ![n].status = "expired"]
    <3>1. \A m \in Names : entryOf(m)' = IF m = n THEN [entryOf(n) EXCEPT !.status = "expired"] ELSE entryOf(m)
      BY <1>t, <2>1, <2>4 DEF entryOf, Table, Row
    <3>2. NameSvc!Expire(n)
      BY <2>1, <2>4, <3>1 DEF NameSvc!Expire, entryOf
    <3> QED BY <2>1, <3>2, Remembered DEF NameSvc!NameNext
  <2> QED BY <2>2, <2>3, <2>4 DEF mark_delegation_expired
<1> QED
  BY <1>1, <1>2, <1>3, <1>4, <1>5, <1>6, <1>7, <1>8, <1>9, <1>10, <1>11, <1>12, <1>13, <1>14, <1>15,
     <1>16, <1>17
     DEF Next, Environment, EpStep, PpStep, ExStep

LEMMA BookInit == Init => BookInv /\ NameSvc!NameInit
<1> SUFFICES ASSUME Init PROVE BookInv /\ NameSvc!NameInit
  OBVIOUS
<1>1. TypeOK /\ TaskInv
  BY TypeInit
<1>2. GrantInv /\ ServedInv
  BY DEF Init, GrantInv, HolderWasGranted, NoRow, IdleEp, IdlePp, ServedInv, ServedByGrantee, Fqdns
<1>3. LapseInv
  BY DelegationAssumption DEF Init, LapseInv, ExpiredWasOverdue, NoRow, IdleEx
<1>4. SaleInv
  BY DEF Init, SaleInv, NoEarlyResale, IdlePp
<1>5. PassedInv
  BY DEF Init, PassedInv, IdleEp
<1>6. NameSvc!NameInit
  BY DEF Init, NameSvc!NameInit, entryOf, NoRow, Fqdns
<1> QED BY <1>1, <1>2, <1>3, <1>4, <1>5, <1>6 DEF BookInv

\* The bot keeps the book of names as NameService promises, although its tasks act on
\* checks and snapshots that are steps old (event_processor.rs, payment_processor.rs,
\* main.rs).
THEOREM Implements == Spec => ImplementsNames
<1>1. BookInv /\ [Next]_vars => BookInv'
  BY TypeNext, GrantNext, ServedNext, LapseNext, SaleNext, PassedNext DEF BookInv
<1>2. ASSUME BookInv, UNCHANGED vars PROVE UNCHANGED NameSvc!nameVars
  <2>1. \A n : entryOf(n)' = entryOf(n)
    BY <1>2 DEF vars, store, entryOf
  <2> QED BY <1>2, <2>1 DEF vars, store, zone, NameSvc!nameVars
<1>3. BookInv /\ [Next]_vars => [NameSvc!NameNext]_NameSvc!nameVars
  BY <1>2, BookStep
<1> QED BY <1>1, <1>3, BookInit, PTL DEF Spec, ImplementsNames, NameSvc!NameSpec

-----------------------------------------------------------------------------
(* The circuit breaker between the payment processor and a mint, for every *)
(* set of callers, every threshold and every cooldown.                     *)

\* The inductive invariant: the two safety invariants need each other's states
\* typed and nothing more.
BreakerInv == BreakerTypeOK /\ ClosedBelowThreshold /\ OpenIsDated

\* Every method of the breaker, called by any caller at any time, keeps it.
LEMMA BreakerKept == BreakerInv /\ [BreakerNext]_breakerVars => BreakerInv'
<1> SUFFICES ASSUME BreakerInv, [BreakerNext]_breakerVars PROVE BreakerInv'
  OBVIOUS
<1> USE BreakerAssumption
        DEF BreakerInv, BreakerTypeOK, ClosedBelowThreshold, OpenIsDated, Unset, entry
<1>1. CASE BreakerTick
  BY <1>1 DEF BreakerTick
<1>2. ASSUME NEW c \in Callers, is_available(c) PROVE BreakerInv'
  BY <1>2 DEF is_available
<1>3. ASSUME NEW c \in Callers, record_success(c) PROVE BreakerInv'
  BY <1>3 DEF record_success, Done
<1>4. ASSUME NEW c \in Callers, record_failure(c) PROVE BreakerInv'
  <2>1. failures' \in 0 .. MaxFailures
    BY <1>4 DEF record_failure, saturating_add
  <2> QED BY <1>4, <2>1 DEF record_failure, Done
<1>5. ASSUME NEW c \in Callers, no_client(c) PROVE BreakerInv'
  BY <1>5 DEF no_client, Done
<1>6. CASE UNCHANGED breakerVars
  BY <1>6 DEF breakerVars
<1> QED BY <1>1, <1>2, <1>3, <1>4, <1>5, <1>6 DEF BreakerNext

\* The inductive invariant holds in every reachable state.
LEMMA BreakerSafe == BreakerSpec => []BreakerInv
<1>1. BreakerInit => BreakerInv
  BY BreakerAssumption DEF BreakerInit, BreakerInv, BreakerTypeOK, ClosedBelowThreshold, OpenIsDated, Unset
<1> QED BY <1>1, BreakerKept, PTL DEF BreakerSpec

\* The counter stays in its width and the cooldown in its range.
THEOREM BreakerTypes == BreakerSpec => []BreakerTypeOK
<1>1. BreakerInv => BreakerTypeOK
  BY DEF BreakerInv
<1> QED BY <1>1, BreakerSafe, PTL

\* However late the answers of the mint come, a closed circuit is below its
\* threshold.
THEOREM ClosedIsBelow == BreakerSpec => []ClosedBelowThreshold
<1>1. BreakerInv => ClosedBelowThreshold
  BY DEF BreakerInv
<1> QED BY <1>1, BreakerSafe, PTL

\* The branch of is_available for an open circuit without opened_at is dead.
THEOREM OpenHasDate == BreakerSpec => []OpenIsDated
<1>1. BreakerInv => OpenIsDated
  BY DEF BreakerInv
<1> QED BY <1>1, BreakerSafe, PTL

\* No answer that comes while the circuit is open restarts its cooldown.
THEOREM CooldownKept == BreakerSpec => CooldownOnlyRunsDown
<1>1. BreakerInv /\ [BreakerNext]_breakerVars => [state = "open" /\ state' = "open" => age' >= age]_breakerVars
  <2> SUFFICES ASSUME BreakerInv, BreakerNext, state = "open", state' = "open"
               PROVE  age' >= age
    BY DEF breakerVars, entry
  <2> USE DEF BreakerInv, BreakerTypeOK, Unset, entry
  <2>1. CASE BreakerTick
    BY <2>1 DEF BreakerTick
  <2>2. ASSUME NEW c \in Callers, is_available(c) \/ record_success(c) PROVE FALSE
    BY <2>2 DEF is_available, record_success
  <2>3. ASSUME NEW c \in Callers, record_failure(c) \/ no_client(c) PROVE age' >= age
    BY <2>3 DEF record_failure, no_client
  <2> QED BY <2>1, <2>2, <2>3 DEF BreakerNext
<1> QED BY <1>1, BreakerSafe, PTL DEF BreakerSpec, CooldownOnlyRunsDown
=============================================================================
