------------------------------ MODULE Registry ------------------------------
(***************************************************************************)
(* The registrar bot (nodns-bot-rs) around its delegations table: the      *)
(* tasks that main.rs spawns on one multi-threaded runtime and that share  *)
(* the store.                                                              *)
(*                                                                         *)
(*   - the event processor takes Nostr events from the subscriber, one at  *)
(*     a time (event_processor.rs, subscriber.rs): variable ep;            *)
(*   - the payment processor takes gift-wrapped DMs, one at a time         *)
(*     (payment_processor.rs): variable pp;                                *)
(*   - the lease expiry task sweeps the table (main.rs): variable ex.      *)
(*                                                                         *)
(* A step of a task runs from one store call or network call to the next:  *)
(* between two of them the store's mutex is free and other tasks may run.  *)
(* A restart of the process loses the three tasks' state and keeps the     *)
(* store, the DNS zone and what the relays hold.                           *)
(*                                                                         *)
(* Records are abstracted to the apex record of a name: rows is the set of *)
(* keys that have an undeleted record in the store, dns and proof say      *)
(* whose record (and whose proof TXT) is served at a name.  Time is        *)
(* counted in days.  SQLite errors are left out.                           *)
(***************************************************************************)
EXTENDS Delegations, FiniteSets

CONSTANTS
    Nobody,      \* no record is served
    Kinds,       \* the kinds of event that clients publish
    Forms,       \* the forms of DM that clients send
    MaxTime,     \* bound on the clock
    Ends,        \* the ends of a lease that clients ask for
    MaxEvents,   \* bound on events published by clients
    MaxDms,      \* bound on DMs sent
    MaxRestarts  \* bound on restarts of the bot

ASSUME RegistryAssumption ==
    /\ Nobody \notin Principals
    /\ Names \cap Principals = {}
    /\ Nobody \notin Names
    /\ Kinds \subseteq {"claim", "renewal", "delegation", "lease", "update", "delete"}
    /\ Forms \subseteq {"opaque", "invalid", "unpaid", "paid"}
    /\ MaxTime \in Nat /\ Ends \subseteq Nat
    /\ MaxEvents \in Nat /\ MaxDms \in Nat /\ MaxRestarts \in Nat

VARIABLES
    now,        \* the wall clock
    table,      \* the delegations table
    rows,       \* keys with an undeleted row in the events table
    dns,        \* dns[f]: whose apex record the zone serves at f
    proof,      \* proof[f]: whose proof TXT the zone serves at _nodns.f
    relay,      \* events the relays hold
    published,  \* how many of them clients published
    seen,       \* events the subscriber has handed over since the start
    since,      \* the subscription filter of this run of the bot
    last_seen,  \* meta.last_seen
    ep,         \* the event processor
    dms,        \* DMs the relays hold
    handled,    \* DMs handed to the payment processor since the start
    processed,  \* the table processed_dms
    pp,         \* the payment processor
    ex,         \* the lease expiry task
    restarts,   \* how often the bot was restarted
    grants,     \* history: who was given which name, when, and for payment?
    lapsed,     \* history: names of which some lease passed valid_until
    overdue     \* history: names of which some lease passed its grace deadline

store == <<table, rows, last_seen, processed>>
zone == <<dns, proof>>
network == <<relay, published, dms>>
session == <<seen, since, handled>>
vars == <<now, store, zone, network, session, ep, pp, ex, restarts,
          grants, lapsed, overdue>>

Fqdns == Names \cup Principals

Time == 0 .. MaxTime

Event == [ kind        : {"none", "claim", "renewal", "delegation", "lease", "update", "delete"},
           signer      : Principals,
           name        : Names \cup {Nobody},
           npub        : Principals,
           valid_from  : Nat,
           valid_until : Nat,
           created_at  : Nat ]

NoEvent == [ kind |-> "none", signer |-> Registrar, name |-> Nobody, npub |-> Registrar,
             valid_from |-> 0, valid_until |-> 0, created_at |-> 0 ]

\* A payment DM.  "opaque": cannot be unwrapped; "invalid": refused before the
\* name is looked at; "unpaid": its token does not verify; "paid": it does.
Dm == [ sender : Users, name : Names, days : 1 .. MaxLease,
        form : Forms ]

Grant == [ name : Names, npub : Principals, at : Nat, by : {"payment", "signature", "lease"} ]

\* The three tasks between two of their steps.
IdleEp == [ pc |-> "idle", ev |-> NoEvent, fqdn |-> Nobody ]
NoDm == [ sender |-> Registrar, name |-> Nobody, days |-> 0, form |-> "none" ]

IdlePp == [ pc |-> "idle", dm |-> NoDm, from |-> 0, until |-> 0 ]
IdleEx == [ pc |-> "idle", now |-> 0, todo |-> {}, cur |-> Nobody,
            snap |-> [n \in Names |-> NoRow] ]

Init ==
    /\ now = 0
    /\ table = [n \in Names |-> NoRow]
    /\ rows = {}
    /\ dns = [f \in Fqdns |-> Nobody]
    /\ proof = [f \in Fqdns |-> Nobody]
    /\ relay = {} /\ published = 0
    /\ seen = {} /\ since = 0 /\ last_seen = 0
    /\ dms = {} /\ handled = {} /\ processed = {}
    /\ ep = IdleEp /\ pp = IdlePp /\ ex = IdleEx
    /\ restarts = 0
    /\ grants = {} /\ lapsed = {} /\ overdue = {}

\* Every step ends with this: the history variables look at the state that the
\* step leads to.
History ==
    /\ lapsed' = lapsed \cup { n \in Names : table'[n].status # "none"
                                             /\ table'[n].valid_until <= now' }
    /\ overdue' = overdue \cup { n \in Names : table'[n].status # "none"
                                               /\ grace_deadline(table'[n]) <= now' }

-----------------------------------------------------------------------------
(* The environment: time, clients, restarts. *)

Tick ==
    /\ now < MaxTime
    /\ now' = now + 1
    /\ UNCHANGED <<store, zone, network, session, ep, pp, ex, restarts, grants>>
    /\ History

\* Events that give their npub the name: claims and delegations that the registrar
\* signed, and lease events, whose signer process_lease_event does not look at.
gives(e) ==
    \/ e.kind = "lease"
    \/ e.kind \in {"claim", "delegation"} /\ is_registrar(e.signer)

\* A client publishes an event.  Anyone may try to claim, to delegate, to lease or
\* to renew.
Publish(e) ==
    /\ published < MaxEvents
    /\ e \notin relay
    /\ relay' = relay \cup {e}
    /\ published' = published + 1
    /\ grants' = IF gives(e)
                 THEN grants \cup {[name |-> e.name, npub |-> e.npub, at |-> now,
                                    by |-> IF e.kind = "lease" THEN "lease" ELSE "signature"]}
                 ELSE grants
    /\ UNCHANGED <<now, store, zone, dms, session, ep, pp, ex, restarts>>
    /\ History

PublishName ==
    \E k \in Kinds \cap {"claim", "renewal"}, u \in Principals, n \in Names, v \in Ends :
        Publish([ kind |-> k, signer |-> u, name |-> n, npub |-> u,
                  valid_from |-> 0, valid_until |-> v, created_at |-> now ])

PublishGrant ==
    \E k \in Kinds \cap {"delegation", "lease"}, s \in Principals, u \in Users,
       n \in Names, v \in Ends :
        Publish([ kind |-> k, signer |-> s, name |-> n, npub |-> u,
                  valid_from |-> now, valid_until |-> v, created_at |-> now ])

PublishRecord ==
    \E k \in Kinds \cap {"update", "delete"}, u \in Users :
        Publish([ kind |-> k, signer |-> u, name |-> Nobody, npub |-> u,
                  valid_from |-> 0, valid_until |-> 0, created_at |-> now ])

SendDm(d) ==
    /\ Cardinality(dms) < MaxDms
    /\ d \notin dms
    /\ dms' = dms \cup {d}
    /\ UNCHANGED <<now, store, zone, relay, published, session, ep, pp, ex,
                   restarts, grants>>
    /\ History

\* The process stops and starts again: the tasks begin anew, the subscriber
\* asks the relays for events since last_seen, the payment processor for all DMs.
Restart ==
    /\ restarts < MaxRestarts
    /\ restarts' = restarts + 1
    /\ ep' = IdleEp /\ pp' = IdlePp /\ ex' = IdleEx
    /\ seen' = {} /\ handled' = {}
    /\ since' = last_seen
    /\ UNCHANGED <<now, store, zone, network, grants>>
    /\ History

-----------------------------------------------------------------------------
(* The event processor. *)

\* The subscriber hands event e over: relays deliver in any order, the client
\* library drops repetitions, the filter is the one of the session's start.
Receive(e) ==
    /\ ep.pc = "idle"
    /\ e \in relay \ seen
    /\ e.created_at >= since
    /\ seen' = seen \cup {e}

\* Every event that is not thrown away ends with set_last_seen(created_at),
\* accepted or not.
Finish(e) ==
    /\ ep' = IdleEp
    /\ last_seen' = e.created_at

epRest == <<now, network, since, handled, processed, pp, ex, restarts, grants>>

\* process_delegation: validation reads no table row, one write.
EpDelegation(e) ==
    /\ e.kind = "delegation"
    /\ Receive(e)
    /\ table' = IF validate_delegation(e, now)
                THEN save_delegation(table, e.name, e.npub, e.signer,
                                     e.valid_from, e.valid_until, now)
                ELSE table
    /\ Finish(e)
    /\ UNCHANGED <<epRest, rows, zone>>
    /\ History

\* process_lease_event: stored as it is, over any row and whoever signed it.
EpLease(e) ==
    /\ e.kind = "lease"
    /\ Receive(e)
    /\ table' = save_delegation(table, e.name, e.npub, e.signer,
                                e.created_at, e.valid_until, now)
    /\ Finish(e)
    /\ UNCHANGED <<epRest, rows, zone>>
    /\ History

\* process_claim up to is_name_available ...
EpClaimCheck(e) ==
    /\ e.kind = "claim"
    /\ Receive(e)
    /\ IF claim_accepted(table, e, now)
       THEN /\ ep' = [IdleEp EXCEPT !.pc = "claim", !.ev = [e EXCEPT !.valid_from = now]]
            /\ UNCHANGED last_seen
       ELSE Finish(e)
    /\ UNCHANGED <<epRest, table, rows, zone>>
    /\ History

\* ... and its save: the signer becomes the holder, at the zone's price, from
\* the time the check read.
EpClaimSave ==
    /\ ep.pc = "claim"
    /\ table' = save_delegation_with_price(table, ep.ev.name, ep.ev.npub, ep.ev.signer,
                                           ep.ev.valid_from, ep.ev.valid_until,
                                           CreatePrice, now)
    /\ Finish(ep.ev)
    /\ UNCHANGED <<epRest, seen, rows, zone>>
    /\ History

\* process_renewal up to its last check ...
EpRenewalCheck(e) ==
    /\ e.kind = "renewal"
    /\ Receive(e)
    /\ IF renewal_accepted(table, e)
       THEN /\ ep' = [IdleEp EXCEPT !.pc = "renewal", !.ev = e]
            /\ UNCHANGED last_seen
       ELSE Finish(e)
    /\ UNCHANGED <<epRest, table, rows, zone>>
    /\ History

\* ... and its update of whatever row the name has by then.
EpRenewalSave ==
    /\ ep.pc = "renewal"
    /\ table' = renew_delegation(table, ep.ev.name, ep.ev.valid_until)
    /\ Finish(ep.ev)
    /\ UNCHANGED <<epRest, seen, rows, zone>>
    /\ History

\* The newest of the names u holds, or u's own npub name.
resolve_fqdn(t, u, f) ==
    LET mine == get_delegations_by_pubkey(t, u, now) IN
    IF mine = {} THEN f = u
    ELSE f \in mine /\ \A n \in mine : t[n].created_at <= t[f].created_at

\* process_dns_update and process_dns_deletes: an update may be refused by the
\* record count and the rate limit.
EpLimited(e) ==
    /\ e.kind = "update"
    /\ Receive(e)
    /\ Finish(e)
    /\ UNCHANGED <<epRest, table, rows, zone>>
    /\ History

EpResolve(e, f) ==
    /\ e.kind \in {"update", "delete"}
    /\ Receive(e)
    /\ resolve_fqdn(table, e.npub, f)
    /\ ep' = [pc |-> "authorize", ev |-> e, fqdn |-> f]
    /\ UNCHANGED <<epRest, table, rows, zone, last_seen>>
    /\ History

EpAuthorize ==
    /\ ep.pc = "authorize"
    /\ IF check_authority(table, ep.fqdn, ep.ev.signer)
       THEN /\ ep' = [ep EXCEPT !.pc = "zone"]
            /\ UNCHANGED last_seen
       ELSE Finish(ep.ev)
    /\ UNCHANGED <<epRest, seen, table, rows, zone>>
    /\ History

\* The DNS server refuses or cannot be reached: the record is skipped.
EpZoneFails ==
    /\ ep.pc = "zone"
    /\ Finish(ep.ev)
    /\ UNCHANGED <<epRest, seen, table, rows, zone>>
    /\ History

epOwner == IF ep.ev.kind = "update" THEN ep.ev.signer ELSE Nobody

EpZone ==
    /\ ep.pc = "zone"
    /\ dns' = [dns EXCEPT ![ep.fqdn] = epOwner]
    /\ ep' = [ep EXCEPT !.pc = "proof"]
    /\ UNCHANGED <<epRest, seen, table, rows, last_seen, proof>>
    /\ History

\* The proof TXT follows the record, if store_proofs is set; a failure is not fatal.
EpProof ==
    /\ ep.pc = "proof"
    /\ proof' \in {proof, [proof EXCEPT ![ep.fqdn] = epOwner]}
    /\ ep' = [ep EXCEPT !.pc = "rows"]
    /\ UNCHANGED <<epRest, seen, table, rows, last_seen, dns>>
    /\ History

\* save_event, or delete_records_by_key.
EpRows ==
    /\ ep.pc = "rows"
    /\ rows' = IF ep.ev.kind = "update" THEN rows \cup {ep.ev.npub} ELSE rows \ {ep.ev.npub}
    /\ Finish(ep.ev)
    /\ UNCHANGED <<epRest, seen, table, zone>>
    /\ History

EpStep ==
    \/ \E e \in relay : \/ EpDelegation(e) \/ EpLease(e) \/ EpClaimCheck(e)
                        \/ EpRenewalCheck(e) \/ EpLimited(e)
                        \/ \E f \in Fqdns : EpResolve(e, f)
    \/ EpClaimSave \/ EpRenewalSave
    \/ EpAuthorize \/ EpZoneFails \/ EpZone \/ EpProof \/ EpRows

-----------------------------------------------------------------------------
(* The payment processor. *)

ppRest == <<now, zone, rows, last_seen, seen, since, dms, published, ep, ex, restarts>>

\* The reply to the sender is sent and the DM is recorded, with the result.
ppAnswer(d) == pp' = [IdlePp EXCEPT !.pc = "mark", !.dm = d]

\* A DM arrives that the table processed_dms does not know: unwrap, parse,
\* look the zone up, check that the name is free.
PpReceive(d) ==
    /\ pp.pc = "idle"
    /\ d \in dms \ (handled \cup processed)
    /\ handled' = handled \cup {d}
    /\ \/ d.form = "opaque"  /\ pp' = IdlePp
       \/ d.form = "invalid" /\ ppAnswer(d)
       \/ /\ d.form \in {"unpaid", "paid"}
          /\ IF is_name_available(table, d.name, now)
             THEN pp' = [IdlePp EXCEPT !.pc = "verify", !.dm = d]
             ELSE ppAnswer(d)
    /\ UNCHANGED <<ppRest, table, relay, processed, grants>>
    /\ History

\* Mutant: returns without recording the DM.
mutant_verify_fails_unmarked ==
    /\ pp.pc = "verify"
    /\ pp' = IdlePp
    /\ UNCHANGED <<ppRest, table, relay, handled, processed, grants>>
    /\ History

\* verify_payment asks the mint, and does not get it confirmed.
PpVerifyFails ==
    /\ pp.pc = "verify"
    /\ ppAnswer(pp.dm)
    /\ UNCHANGED <<ppRest, table, relay, handled, processed, grants>>
    /\ History

\* verify_payment succeeds: the lease starts now and is saved, over whatever
\* row the name has by then.
PpSave ==
    /\ pp.pc = "verify"
    /\ pp.dm.form = "paid"
    /\ table' = save_delegation_with_price(table, pp.dm.name, pp.dm.sender, pp.dm.sender,
                                           now, now + pp.dm.days, CreatePrice, now)
    /\ pp' = [pp EXCEPT !.pc = "publish", !.from = now, !.until = now + pp.dm.days]
    /\ grants' = grants \cup {[name |-> pp.dm.name, npub |-> pp.dm.sender,
                               at |-> now, by |-> "payment"]}
    /\ UNCHANGED <<ppRest, relay, handled, processed>>
    /\ History

\* publish_delegation_event, through a client of its own: the subscriber's
\* client will receive the event from the relays like any other.
PpPublish ==
    /\ pp.pc = "publish"
    /\ relay' \in {relay,
                   relay \cup {[ kind |-> "delegation", signer |-> Registrar,
                                 name |-> pp.dm.name, npub |-> pp.dm.sender,
                                 valid_from |-> pp.from, valid_until |-> pp.until,
                                 created_at |-> now ]}}
    /\ ppAnswer(pp.dm)
    /\ UNCHANGED <<ppRest, table, handled, processed, grants>>
    /\ History

PpMark ==
    /\ pp.pc = "mark"
    /\ processed' = processed \cup {pp.dm}
    /\ pp' = IdlePp
    /\ UNCHANGED <<ppRest, table, relay, handled, grants>>
    /\ History

PpStep == (\E d \in dms : PpReceive(d)) \/ PpVerifyFails \/ PpSave \/ PpPublish \/ PpMark

-----------------------------------------------------------------------------
(* The lease expiry task. *)

exRest == <<now, last_seen, processed, network, session, ep, pp, restarts, grants>>

\* An interval tick: the due rows are read once, with the time of the tick.
ExTick ==
    /\ ex.pc = "idle"
    /\ LET due == get_delegations_past_valid_until(table, now) IN
       /\ due # {}
       /\ ex' = [ pc |-> "loop", now |-> now, todo |-> due, cur |-> Nobody, snap |-> table ]
    /\ UNCHANGED <<exRest, table, rows, zone>>
    /\ History

\* ORDER BY valid_until
ExFirst(n) ==
    /\ ex.pc = "loop"
    /\ n \in ex.todo
    /\ \A m \in ex.todo : ex.snap[n].valid_until <= ex.snap[m].valid_until

ExDone(n) ==
    ex' = IF ex.todo = {n} THEN IdleEx
          ELSE [ex EXCEPT !.pc = "loop", !.todo = ex.todo \ {n}, !.cur = Nobody]

\* Mutant: the grace period is forgotten.
mutant_past_valid_until(n) == ex.now >= ex.snap[n].valid_until

past_deadline(n) == ex.now >= grace_deadline(ex.snap[n])

\* Still within grace: an active row enters grace, a grace row is left alone.
ExGrace(n) ==
    /\ ExFirst(n)
    /\ ~ past_deadline(n)
    /\ table' = IF ex.snap[n].status = "active" THEN mark_delegation_grace(table, n) ELSE table
    /\ ExDone(n)
    /\ UNCHANGED <<exRest, rows, zone>>
    /\ History

\* Past the deadline: the holder's records are looked up ...
ExRecords(n) ==
    /\ ExFirst(n)
    /\ past_deadline(n)
    /\ ex' = [ex EXCEPT !.cur = n, !.pc = IF ex.snap[n].npub \in rows THEN "zone" ELSE "rows"]
    /\ UNCHANGED <<exRest, table, rows, zone>>
    /\ History

\* ... deleted from the zone under this name (a failure is only logged) ...
ExZone ==
    /\ ex.pc = "zone"
    /\ dns' \in {dns, [dns EXCEPT ![ex.cur] = Nobody]}
    /\ ex' = [ex EXCEPT !.pc = "rows"]
    /\ UNCHANGED <<exRest, table, rows, proof>>
    /\ History

\* ... soft-deleted: every record of the holder in the zone ...
ExRows ==
    /\ ex.pc = "rows"
    /\ rows' = rows \ {ex.snap[ex.cur].npub}
    /\ ex' = [ex EXCEPT !.pc = "mark"]
    /\ UNCHANGED <<exRest, table, zone>>
    /\ History

\* ... and the name's row is marked expired.
ExMark ==
    /\ ex.pc = "mark"
    /\ table' = mark_delegation_expired(table, ex.cur)
    /\ ExDone(ex.cur)
    /\ UNCHANGED <<exRest, rows, zone>>
    /\ History

ExStep == ExTick \/ (\E n \in Names : ExGrace(n) \/ ExRecords(n)) \/ ExZone \/ ExRows \/ ExMark

-----------------------------------------------------------------------------
Environment == \/ Tick \/ PublishName \/ PublishGrant \/ PublishRecord
               \/ (\E d \in Dm : SendDm(d)) \/ Restart

Next == Environment \/ EpStep \/ PpStep \/ ExStep

Spec == Init /\ [][Next]_vars

\* The runtime polls every task that can run.
Fairness == /\ WF_vars(EpStep)
            /\ WF_vars(PpStep)
            /\ WF_vars(ExStep)

FairSpec == Spec /\ Fairness
-----------------------------------------------------------------------------
(* Properties. *)

EpPcs == {"idle", "claim", "renewal", "authorize", "zone", "proof", "rows"}
PpPcs == {"idle", "verify", "publish", "mark"}
ExPcs == {"idle", "loop", "zone", "rows", "mark"}

\* Types of the store, of the zone and of the state the tasks keep between
\* their steps (store.rs schema; locals of the three task loops).
TypeOK ==
    /\ now \in Time
    /\ table \in Table
    /\ rows \subseteq Principals
    /\ dns \in [Fqdns -> Principals \cup {Nobody}]
    /\ proof \in [Fqdns -> Principals \cup {Nobody}]
    /\ relay \subseteq Event /\ published \in 0 .. MaxEvents
    /\ seen \subseteq relay
    /\ since \in Nat /\ last_seen \in Nat
    /\ ep \in [pc : EpPcs, ev : Event, fqdn : Fqdns \cup {Nobody}]
    /\ dms \subseteq Dm /\ handled \subseteq dms /\ processed \subseteq dms
    /\ pp \in [pc : PpPcs, dm : Dm \cup {NoDm}, from : Nat, until : Nat]
    /\ ex \in [pc : ExPcs, now : Nat, todo : SUBSET Names, cur : Names \cup {Nobody},
               snap : Table]
    /\ restarts \in 0 .. MaxRestarts
    /\ grants \subseteq Grant
    /\ lapsed \subseteq Names /\ overdue \subseteq Names

Granted(n, u) == \E g \in grants : g.name = n /\ g.npub = u

\* Whoever holds a name in the table paid for it, was given it by the registrar's
\* signature, or is named by a lease event (event_processor.rs:401, which takes
\* them from any key): no sequence of claims, renewals, replayed delegation
\* events, restarts and lost payments makes anyone else the holder.
HolderWasGranted ==
    \A n \in Names : table[n].status # "none" => Granted(n, table[n].npub)

\* A record served at a custom name was put there by a key that was granted
\* the name, although authority is checked before the DNS update is awaited.
ServedByGrantee ==
    \A n \in Names : dns[n] # Nobody => Granted(n, dns[n])

\* A name is sold again, to anyone and for whatever DM (one that is processed
\* a second time after a restart included), only after a lease of it lapsed.
NoEarlyResale ==
    \A g, h \in grants :
        g.by = "payment" /\ h.by = "payment" /\ g # h /\ g.name = h.name => g.name \in lapsed

\* The expiry task expires a name only if a lease of it passed its grace
\* deadline, whatever its snapshot missed in the meantime.
ExpiredWasOverdue ==
    \A n \in Names : table[n].status = "expired" => n \in overdue

\* Every lease that stays past its grace deadline is swept in the end.
Due(n) == table[n].status \in {"active", "grace"} /\ grace_deadline(table[n]) <= now

OverdueIsSwept == \A n \in Names : Due(n) ~> ~ Due(n)

\* Every DM that can be unwrapped is answered and recorded in the end, across
\* restarts and mint failures.
DmIsSettled ==
    \A d \in Dm : (d \in dms /\ d.form # "opaque") ~> (d \in processed)
-----------------------------------------------------------------------------
\* What the table says of a name to those outside.
entryOf(n) == [holder |-> table[n].npub, until |-> table[n].valid_until, status |-> table[n].status]

NameSvc == INSTANCE NameService WITH
    clock <- now,
    book <- [n \in Names |-> entryOf(n)],
    served <- dns,
    granted <- { <<g.name, g.npub>> : g \in grants },
    sold <- { g.name : g \in {h \in grants : h.by = "payment"} }

\* The bot keeps the book of names as NameService promises, although its tasks act on
\* checks and snapshots that are steps old (event_processor.rs, payment_processor.rs,
\* main.rs): each write finds its name still granted, unsold or lapsed, or overdue.
ImplementsNames == NameSvc!NameSpec
-----------------------------------------------------------------------------
(* What the documentation says of leases, and the code does not keep. *)

\* docs/23: the task moves a name to expired when it is past its deadline.
ExpiredIsPastDeadline ==
    \A n \in Names : table[n].status = "expired" => grace_deadline(table[n]) <= now

\* docs/33: during grace only renewals are accepted; the name becomes available
\* for registration after grace.
NoSaleInGrace ==
    \A g, h \in grants :
        g.by = "payment" /\ h.by = "payment" /\ g # h /\ g.name = h.name => g.name \in overdue

\* docs/23: a renewal is accepted if its signer owns the name.
HolderCanRenew ==
    \A n \in Names : table[n].status # "none" => table[n].pubkey = table[n].npub

\* docs/19, docs/crash-recovery-audit: an event during which the bot crashed is
\* delivered again: it is within the filter of the next session.
CrashIsRetried ==
    [][restarts' # restarts /\ ep.pc # "idle" => ep.ev.created_at >= since']_vars
=============================================================================
