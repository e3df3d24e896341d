----------------------------- MODULE NamePages -----------------------------
(***************************************************************************)
(* Registering a name and managing its records in the two web              *)
(* applications: Landing.tsx and Domain.tsx of the registrar,              *)
(* app/register/page.tsx and app/domain/page.tsx of the frontend, with     *)
(* their lib/nostr.ts.                                                     *)
(*                                                                         *)
(* Every change is a Nostr event the page signs and publishes, after it    *)
(* took a Cashu token from the wallet for the event to carry.  The relays, *)
(* the bot behind the records and the wallet are external.  A step runs    *)
(* from one await to the next; the user may leave a page at any time.      *)
(*                                                                         *)
(* Of a price it matters whether it is 0; one amount stands for the others. *)
(* The registrar's Edit button does     *)
(* nothing that can be seen: the id startEdit stores lacks the index that  *)
(* the row's id ends in (Domain.tsx:304, :528), so its rows are never in   *)
(* the editing state.                                                      *)
(***************************************************************************)
EXTENDS Naturals, FiniteSets

CONSTANTS
    Apps,       \* which of "registrar" and "frontend" to start
    Recs,       \* records a name can have
    Jobs,       \* publications that can be in flight at once
    Tariff,     \* the changes for which the zone's price is not 0
    None,
    MaxLoads    \* bound: loads in flight for which no publication waits

ASSUME PagesAssumption ==
    /\ Apps \subseteq {"registrar", "frontend"}
    /\ None \notin Recs \cup Jobs
    /\ Tariff \subseteq {"create", "update", "delete"}
    /\ MaxLoads \in Nat \ {0}

VARIABLES
    app,      \* the application that runs
    named,    \* whether the page is that of a bought name, and not of an npub
    route,    \* the page: "register" or "domain"
    funded,   \* whether the balance covers the price
    pricing,  \* the changes the page's price list charges for; None without a list
    search,   \* the registration page
    page,     \* the domain page
    jobs,     \* publications, by their handler
    world,    \* the records the sources have
    rows,     \* the records the domain page shows
    loads,    \* loads in flight: who waits, what the sources answered
    overlap   \* history: a record was saved while another was being deleted

data == <<world, rows, loads>>
vars == <<app, named, route, funded, pricing, search, page, jobs, data, overlap>>

Kinds == {"register", "create", "update", "delete"}
NoJob == [st |-> "idle", kind |-> "create", token |-> FALSE, why |-> "none"]
NoSearch == [asking |-> FALSE, result |-> "none", step |-> "review"]
NoPage == [op |-> "idle", editing |-> None, dialog |-> FALSE, adding |-> FALSE,
           timer |-> "off", missed |-> FALSE]

Timers == {"odd", "even"}
Whys == {"none", "npub", "unpriced", "free", "defaults", "uncovered"}
Prices == {None} \cup SUBSET {"create", "update", "delete"}

TypeOK ==
    /\ app \in Apps /\ named \in BOOLEAN /\ route \in {"register", "domain"}
    /\ funded \in BOOLEAN /\ pricing \in Prices
    /\ search \in [asking: BOOLEAN, result: {"none", "taken", "unpriced", "priced"},
                   step: {"review", "paying", "success", "error"}]
    /\ page \in [op: {"idle", "saving", "deleting"}, editing: Recs \cup {None},
                 dialog: BOOLEAN, adding: BOOLEAN, timer: {"off"} \cup Timers, missed: BOOLEAN]
    /\ jobs \in [Jobs -> [st: {"idle", "paying", "publishing", "loading"}, kind: Kinds,
                          token: BOOLEAN, why: Whys]]
    /\ world \subseteq Recs /\ rows \subseteq Recs
    /\ loads \subseteq [by: Jobs \cup {None}, saw: SUBSET Recs]
    /\ overlap \in BOOLEAN

Init ==
    /\ app \in Apps /\ named \in (IF app = "registrar" THEN BOOLEAN ELSE {TRUE})
    /\ route = "register" /\ funded \in BOOLEAN /\ pricing = None
    /\ search = NoSearch /\ page = NoPage
    /\ jobs = [j \in Jobs |-> NoJob]
    /\ world = {} /\ rows = {} /\ loads = {}
    /\ overlap = FALSE

----------------------------------------------------------------------------
(* Publications. *)

\* A handler runs up to its first await.  It asks the wallet for a token if
\* the operation is "due"; "why" is the excuse there may be for not paying.
Begin(kind, due, why) ==
    LET Free == {j \in Jobs : jobs[j].st = "idle"} IN
    /\ Free # {}
    /\ jobs' = [jobs EXCEPT ![CHOOSE j \in Free : TRUE] =
         [st |-> IF due THEN "paying" ELSE "publishing", kind |-> kind,
          token |-> FALSE, why |-> why]]

\* What the page of a live publication does next, and what it does when the
\* publication fails.
Done(j) ==
    IF jobs[j].kind = "register"
      THEN /\ search' = [search EXCEPT !.step = "success"]
           /\ jobs' = [jobs EXCEPT ![j] = NoJob]
           /\ UNCHANGED <<page, loads>>
      ELSE /\ page' = [page EXCEPT
                !.editing = IF jobs[j].kind = "update" THEN None ELSE @,
                !.adding = IF jobs[j].kind = "create" THEN FALSE ELSE @,
                !.dialog = IF app = "registrar" /\ jobs[j].kind = "delete" THEN FALSE ELSE @,
                !.missed = FALSE]
           /\ jobs' = [jobs EXCEPT ![j] = [NoJob EXCEPT !.st = "loading"]]
           /\ loads' = loads \cup {[by |-> j, saw |-> world]}
           /\ UNCHANGED search

Failed(j) ==
    /\ search' = IF jobs[j].kind = "register" THEN [search EXCEPT !.step = "error"] ELSE search
    /\ page' = IF jobs[j].kind # "register" THEN [page EXCEPT !.op = "idle"] ELSE page
    /\ jobs' = [jobs EXCEPT ![j] = NoJob]
    /\ UNCHANGED loads

\* sendTokens of the registrar, manager.wallet.send of the frontend.
WalletSends(j) ==
    /\ jobs[j].st = "paying"
    /\ jobs' = [jobs EXCEPT ![j].st = "publishing", ![j].token = TRUE]
    /\ funded' \in BOOLEAN
    /\ UNCHANGED <<app, named, route, pricing, search, page, data, overlap>>

mutant_stays_busy(j) ==
    /\ jobs[j].st = "paying"
    /\ jobs' = [jobs EXCEPT ![j] = NoJob]
    /\ search' = IF jobs[j].kind = "register" THEN [search EXCEPT !.step = "error"] ELSE search
    /\ UNCHANGED <<app, named, route, funded, pricing, page, data, overlap>>

WalletRefuses(j) ==
    /\ jobs[j].st = "paying"
    /\ Failed(j)
    /\ UNCHANGED <<app, named, route, funded, pricing, world, rows, overlap>>

\* The registrar goes on whatever the relays say: its allSettled is given the arrays
\* that SimplePool.publish returns, and waits for none of the promises in them.  The
\* frontend needs one relay that accepts (Promise.any).
registrar_accepts(relays) == TRUE
frontend_accepts(relays) == relays

signAndPublish(j, relays) ==
    /\ app = "registrar" /\ jobs[j].st = "publishing"
    /\ registrar_accepts(relays)

publishDnsEvent(j, relays) ==
    /\ app = "frontend" /\ jobs[j].st = "publishing"
    /\ frontend_accepts(relays)

Publishes(j) ==
    /\ \E relays \in BOOLEAN : signAndPublish(j, relays) \/ publishDnsEvent(j, relays)
    /\ Done(j)
    /\ UNCHANGED <<app, named, route, funded, pricing, world, rows, overlap>>

\* Mining fails, the extension refuses to sign, or no relay takes the event
\* (frontend).  A token taken for it is lost to the wallet.
PublishFails(j) ==
    /\ jobs[j].st = "publishing"
    /\ Failed(j)
    /\ UNCHANGED <<app, named, route, funded, pricing, world, rows, overlap>>

----------------------------------------------------------------------------
(* Registration. *)

\* The Search button.
CanSearch == app = "registrar" /\ route = "register" /\ ~search.asking

\* handleSearch up to the await of checkAvailability.
handleSearch ==
    /\ CanSearch
    /\ search' = [asking |-> TRUE, result |-> "none",
                  step |-> IF search.step = "paying" THEN "paying" ELSE "review"]
    /\ UNCHANGED <<app, named, route, funded, pricing, page, jobs, data, overlap>>

\* Its answer.  The price is 0 ("unpriced") if the zone's prices cannot be had or
\* a name costs nothing; an error leaves no result.
checkAvailability ==
    /\ search.asking
    /\ \E answer \in {"none", "taken", "unpriced", "priced"} :
         /\ answer = "priced" => "create" \in Tariff
         /\ search' = [search EXCEPT !.asking = FALSE, !.result = answer]
    /\ UNCHANGED <<app, named, route, funded, pricing, page, jobs, data, overlap>>

\* The Register buttons.  The registrar's card is hidden once it registered.
registrar_can_register ==
    /\ search.step \in {"review", "error"}
    /\ \/ search.result = "unpriced"
       \/ search.result = "priced" /\ funded

frontend_can_register == search.step = "review" /\ funded

\* handleRegister of the registrar and of the frontend up to the first await.
registrar_handleRegister ==
    /\ app = "registrar" /\ registrar_can_register
    /\ Begin("register", search.result = "priced",
             IF search.result = "priced" THEN "none" ELSE "unpriced")

frontend_handleRegister ==
    /\ app = "frontend" /\ frontend_can_register
    /\ Begin("register", TRUE, "none")

handleRegister ==
    /\ route = "register"
    /\ registrar_handleRegister \/ frontend_handleRegister
    /\ search' = [search EXCEPT !.step = "paying"]
    /\ UNCHANGED <<app, named, route, funded, pricing, page, data, overlap>>

\* "Search again" of the registrar, "Try Again" of the frontend.
resetSearch ==
    /\ app = "registrar" /\ search.step = "success"
    /\ search' = [search EXCEPT !.result = "none", !.step = "review"]
    /\ UNCHANGED <<app, named, route, funded, pricing, page, jobs, data, overlap>>

TryAgain ==
    /\ app = "frontend" /\ search.step = "error"
    /\ search' = NoSearch
    /\ UNCHANGED <<app, named, route, funded, pricing, page, jobs, data, overlap>>

----------------------------------------------------------------------------
(* The records of a name. *)

OnDomain == route = "domain"

\* What the handlers charge: a price the page knows and that is not 0.  The
\* registrar falls back on a price list of its own for a record that is created,
\* the frontend on nothing; neither charges what it does not know for a change.
\* The registrar changes nothing without funds; the frontend publishes without a
\* token.
charges(kind) == pricing # None /\ kind \in pricing
mutant_createCost == named /\ charges("create")
createCost == named /\ (pricing = None \/ "create" \in pricing)
registrar_due(kind) == IF kind = "create" THEN createCost ELSE charges(kind)
frontend_due(kind) == kind # "delete" /\ charges(kind) /\ funded

Why(kind) ==
    IF kind = "create" /\ ~named THEN "npub"
    ELSE IF pricing = None THEN "unpriced"
    ELSE IF kind \notin pricing THEN (IF pricing = Tariff THEN "free" ELSE "defaults")
    ELSE IF ~funded THEN "uncovered" ELSE "none"

\* The row's buttons and the form's.
IsEditing(r) == app = "frontend" /\ page.editing = r
registrar_can_change == page.op = "idle"
frontend_can_change == page.editing = None /\ page.op = "idle"
CanChange == OnDomain /\ ~page.dialog
             /\ IF app = "registrar" THEN registrar_can_change ELSE frontend_can_change
mutant_can_add == createCost => funded
registrar_can_add == page.op = "idle" /\ (createCost => funded)
frontend_can_add == page.adding /\ page.op # "saving"

\* The form of a new record.
OpenForm ==
    /\ app = "frontend" /\ OnDomain /\ ~page.dialog /\ ~page.adding
    /\ page' = [page EXCEPT !.adding = TRUE]
    /\ UNCHANGED <<app, named, route, funded, pricing, search, jobs, data, overlap>>

CloseForm ==
    /\ app = "frontend" /\ OnDomain /\ ~page.dialog /\ page.adding /\ page.op # "saving"
    /\ page' = [page EXCEPT !.adding = FALSE]
    /\ UNCHANGED <<app, named, route, funded, pricing, search, jobs, data, overlap>>

\* handleAddRecord of the registrar up to the first await: an operation that
\* is due but not covered fails at once.
handleAddRecord ==
    /\ app = "registrar" /\ OnDomain /\ registrar_can_add
    /\ registrar_due("create") => funded
    /\ Begin("create", registrar_due("create"), Why("create"))
    /\ page' = [page EXCEPT !.op = "saving"]
    /\ UNCHANGED <<app, named, route, funded, pricing, search, data, overlap>>

\* handleSaveNew of the frontend.  A deletion does not close the form.
handleSaveNew ==
    /\ app = "frontend" /\ OnDomain /\ ~page.dialog /\ frontend_can_add
    /\ Begin("create", frontend_due("create"), Why("create"))
    /\ page' = [page EXCEPT !.op = "saving"]
    /\ overlap' = (overlap \/ page.op = "deleting")
    /\ UNCHANGED <<app, named, route, funded, pricing, search, data>>

startEdit(r) ==
    /\ app = "frontend" /\ CanChange /\ r \in rows
    /\ page' = [page EXCEPT !.editing = r]
    /\ UNCHANGED <<app, named, route, funded, pricing, search, jobs, data, overlap>>

cancelEdit(r) ==
    /\ OnDomain /\ r \in rows /\ IsEditing(r) /\ page.op # "saving"
    /\ page' = [page EXCEPT !.editing = None]
    /\ UNCHANGED <<app, named, route, funded, pricing, search, jobs, data, overlap>>

\* handleEditSave up to the first await.
handleEditSave(r) ==
    /\ OnDomain /\ r \in rows /\ IsEditing(r) /\ page.op # "saving"
    /\ Begin("update", frontend_due("update"), Why("update"))
    /\ page' = [page EXCEPT !.op = "saving"]
    /\ UNCHANGED <<app, named, route, funded, pricing, search, data, overlap>>

\* A row's Delete button opens the dialog.
AskDelete ==
    /\ CanChange /\ rows # {}
    /\ page' = [page EXCEPT !.dialog = TRUE]
    /\ UNCHANGED <<app, named, route, funded, pricing, search, jobs, data, overlap>>

CancelDelete ==
    /\ OnDomain /\ page.dialog /\ (app = "registrar" => page.op = "idle")
    /\ page' = [page EXCEPT !.dialog = FALSE]
    /\ UNCHANGED <<app, named, route, funded, pricing, search, jobs, data, overlap>>

\* handleDeleteRecord of the registrar: the dialog stays until the event is out.
handleDeleteRecord ==
    /\ app = "registrar" /\ OnDomain /\ page.dialog /\ page.op = "idle"
    /\ registrar_due("delete") => funded
    /\ Begin("delete", registrar_due("delete"), Why("delete"))
    /\ page' = [page EXCEPT !.op = "saving"]
    /\ UNCHANGED <<app, named, route, funded, pricing, search, data, overlap>>

\* handleDelete of the frontend closes the dialog first.
handleDelete ==
    /\ app = "frontend" /\ OnDomain /\ page.dialog /\ page.op # "deleting"
    /\ Begin("delete", frontend_due("delete"), Why("delete"))
    /\ page' = [page EXCEPT !.op = "deleting", !.dialog = FALSE]
    /\ UNCHANGED <<app, named, route, funded, pricing, search, data, overlap>>

----------------------------------------------------------------------------
(* Loading. *)

\* loadRecords asks the sources; what they have is what it will show.
Load(by) == loads' = loads \cup {[by |-> by, saw |-> world]}

\* The answers come in any order, or a load fails and the rows stay.  A publication
\* that waited ends (finally).
registrar_loadRecords(l) == rows' = IF app = "registrar" THEN l.saw ELSE rows
frontend_loadRecords(l) == rows' = IF app = "frontend" THEN l.saw ELSE rows

LoadEnds(l) ==
    /\ l \in loads /\ loads' = loads \ {l}
    /\ \/ IF app = "registrar" THEN registrar_loadRecords(l) ELSE frontend_loadRecords(l)
       \/ UNCHANGED rows
    /\ IF l.by \in Jobs
         THEN /\ jobs' = [jobs EXCEPT ![l.by] = NoJob]
              /\ page' = [page EXCEPT !.op = "idle"]
         ELSE UNCHANGED <<jobs, page>>
    /\ UNCHANGED <<app, named, route, funded, pricing, search, world, overlap>>

HasRoom == Cardinality({l \in loads : l.by = None}) < MaxLoads

\* A relay delivers an event.  The registrar clears its timer of 500 ms and sets
\* another one ("odd" and "even" tell a timer from the one before it); the frontend
\* loads at once.
subscribeToRecords ==
    /\ app = "registrar" /\ OnDomain
    /\ page' = [page EXCEPT !.timer = IF @ = "odd" THEN "even" ELSE "odd", !.missed = TRUE]
    /\ UNCHANGED <<app, named, route, funded, pricing, search, jobs, data, overlap>>

subscribeToDnsEvents ==
    /\ app = "frontend" /\ OnDomain /\ HasRoom
    /\ Load(None)
    /\ UNCHANGED <<app, named, route, funded, pricing, search, page, jobs, world, rows, overlap>>

mutant_timer_lost(t) ==
    /\ page.timer = t /\ HasRoom
    /\ page' = [page EXCEPT !.timer = "off"]
    /\ UNCHANGED <<app, named, route, funded, pricing, search, jobs, data, overlap>>

\* A timer fires that no event cleared.
TimerFires(t) ==
    /\ page.timer = t /\ HasRoom
    /\ Load(None)
    /\ page' = [page EXCEPT !.timer = "off", !.missed = FALSE]
    /\ UNCHANGED <<app, named, route, funded, pricing, search, jobs, world, rows, overlap>>

\* The zone's prices arrive.  A failed request leaves the registrar without; the
\* frontend has a list of its own for that case.
DEFAULT_PRICING == {"create"}

fetchPricing ==
    /\ pricing = None
    /\ \/ pricing' = Tariff
       \/ app = "frontend" /\ pricing' = DEFAULT_PRICING
    /\ app = "registrar" => OnDomain
    /\ UNCHANGED <<app, named, route, funded, search, page, jobs, data, overlap>>

\* The user goes to the other page, which starts anew.  Nothing here shows what
\* the handlers left behind still do: pay, publish, and drop the answer.
Leave ==
    /\ route' = IF route = "domain" THEN "register" ELSE "domain"
    /\ search' = NoSearch /\ page' = NoPage /\ pricing' = None
    /\ jobs' = [j \in Jobs |-> NoJob]
    /\ rows' = {}
    /\ loads' = IF route' = "domain" THEN {[by |-> None, saw |-> world]} ELSE {}
    /\ overlap' = FALSE
    /\ UNCHANGED <<app, named, funded, world>>

\* The world changes: the bot, other clients, other pages of the wallet.
WorldChanges ==
    /\ world' \in SUBSET Recs /\ funded' \in BOOLEAN
    /\ UNCHANGED <<app, named, route, pricing, search, page, jobs, rows, loads, overlap>>

Publication == \E j \in Jobs : WalletSends(j) \/ WalletRefuses(j) \/ Publishes(j) \/ PublishFails(j)
Registration == handleSearch \/ checkAvailability \/ handleRegister \/ resetSearch \/ TryAgain
Records ==
    \/ OpenForm \/ CloseForm \/ handleAddRecord \/ handleSaveNew
    \/ \E r \in Recs : startEdit(r) \/ cancelEdit(r) \/ handleEditSave(r)
    \/ AskDelete \/ CancelDelete \/ handleDeleteRecord \/ handleDelete
Loading ==
    \/ \E l \in loads : LoadEnds(l)
    \/ subscribeToRecords \/ subscribeToDnsEvents \/ fetchPricing
    \/ \E t \in Timers : TimerFires(t)

Next == Publication \/ Registration \/ Records \/ Loading \/ Leave \/ WorldChanges

Spec == Init /\ [][Next]_vars

\* Calls to the wallet, the relays and the sources end.  A timer fires unless it
\* is cleared: events that keep coming may keep each of them from it.
FairSpec ==
    /\ Spec
    /\ \A j \in Jobs :
        /\ WF_vars(WalletSends(j) \/ WalletRefuses(j))
        /\ WF_vars(Publishes(j) \/ PublishFails(j))
    /\ \A by \in Jobs \cup {None} : WF_vars(\E l \in loads : l.by = by /\ LoadEnds(l))
    /\ \A t \in Timers : WF_vars(TimerFires(t))

----------------------------------------------------------------------------
(* Properties. *)

InFlight == {j \in Jobs : jobs[j].st # "idle"}

\* A page has one publication in flight, so nothing is paid twice: its buttons
\* see to it, over the dialog, the rows and the form.  The frontend's form
\* leaves one hole: a record saved while another is being deleted
\* (app/domain/page.tsx, disabled={opStatus === "saving" || !newValue}).
OneAtATime == ~overlap => Cardinality(InFlight) <= 1

\* The excuses there are for a change the zone charges for and that goes out
\* without a token.
Excused(kind, why) ==
    IF app = "registrar"
      THEN (why = "npub" /\ kind = "create") \/ (why = "unpriced" /\ kind # "create")
      ELSE kind = "delete" \/ (kind # "register" /\ why \in {"unpriced", "defaults", "uncovered"})

\* What is published without a token is free of charge in the zone, or excused: the
\* registrar publishes without one what it has no price for, but never creates a
\* record of a bought name so; the frontend deletes without one, and publishes
\* records whose price it does not know, takes from its defaults or cannot pay
\* (handlePublish, handleSaveNew, handleEditSave).
PaidUnlessExcused ==
    \A j \in Jobs : jobs[j].st = "publishing" /\ ~jobs[j].token =>
        \/ (IF jobs[j].kind = "register" THEN "create" ELSE jobs[j].kind) \notin Tariff
        \/ Excused(jobs[j].kind, jobs[j].why)

\* A page that is busy becomes idle again, whatever fails (the finally of the
\* handlers), also where deletions and saves overlap.
BusyEnds == (page.op # "idle") ~> (page.op = "idle")

\* Once no more events come, the last one the registrar's page received is
\* followed by a load that starts after it (Domain.tsx:225-228).  Events that keep
\* coming less than 500 ms apart may put the load off for ever.
NoEventMissed == []<><<subscribeToRecords>>_vars \/ (page.missed ~> ~page.missed)
=============================================================================
