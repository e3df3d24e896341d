-------------------------- MODULE NamePagesProofs --------------------------
(***************************************************************************)
(* Proofs about NamePages, for every set of records, any number of         *)
(* publications at once and any number of loads in flight.                 *)
(***************************************************************************)
EXTENDS NamePages, FiniteSetTheorems, TLAPS

JobRec == [st: {"idle", "paying", "publishing", "loading"}, kind: Kinds, token: BOOLEAN, why: Whys]
PageRec == [op: {"idle", "saving", "deleting"}, editing: Recs \cup {None},
            dialog: BOOLEAN, adding: BOOLEAN, timer: {"off"} \cup Timers, missed: BOOLEAN]
SearchRec == [asking: BOOLEAN, result: {"none", "taken", "unpriced", "priced"},
              step: {"review", "paying", "success", "error"}]

Busy(j) == jobs[j].st # "idle"

\* Each page has publications of its own kinds, and starts anew; the load a
\* publication waits for is the only one of it.
RouteInv ==
    /\ app = "frontend" => named
    /\ app = "registrar" => pricing \in {None, Tariff}
    /\ route = "register" => /\ page = NoPage /\ loads = {}
                             /\ \A j \in Jobs : Busy(j) => jobs[j].kind = "register"
    /\ route = "domain" => search = NoSearch /\ \A j \in Jobs : jobs[j].kind # "register"
    /\ \A l \in loads : l.by \in Jobs => jobs[l.by].st = "loading"
    /\ \A l, m \in loads : l.by \in Jobs /\ l.by = m.by => l = m

\* The registrar edits no row.  In the frontend the dialog, a row that is edited
\* and a deletion exclude each other.
DialogInv ==
    /\ app = "registrar" => page.editing = None /\ page.op # "deleting"
    /\ page.dialog => page.editing = None /\ (app = "frontend" => page.op = "idle")
    /\ page.op = "deleting" => page.editing = None

\* Until a save meets a deletion one publication is in flight, and while it is
\* the page is busy or paying.
BusyInv ==
    ~overlap =>
        /\ \A i, j \in Jobs : Busy(i) /\ Busy(j) => i = j
        /\ \A j \in Jobs : Busy(j) => page.op # "idle" \/ search.step = "paying"

PagesInv == TypeOK /\ RouteInv /\ DialogInv /\ BusyInv /\ PaidUnlessExcused

LEMMA Blanks == NoJob \in JobRec /\ NoPage \in PageRec /\ NoSearch \in SearchRec
BY DEF NoJob, NoPage, NoSearch, JobRec, PageRec, SearchRec, Kinds, Whys, Timers

LEMMA PagesInit == Init => PagesInv
<1> SUFFICES ASSUME Init PROVE PagesInv
  OBVIOUS
<1> USE PagesAssumption DEF Init
<1>1. NoJob \in JobRec /\ NoPage \in PageRec /\ NoSearch \in SearchRec
  BY Blanks
<1>2. TypeOK
  <2>1. named \in BOOLEAN
    <3>1. CASE app = "registrar"
      BY <3>1
    <3>2. CASE app # "registrar"
      <4>1. named \in {TRUE}
        BY <3>2
      <4> QED BY <4>1
    <3> QED BY <3>1, <3>2
  <2>2. jobs \in [Jobs -> JobRec] /\ page \in PageRec /\ search \in SearchRec
    BY <1>1
  <2>3. pricing \in Prices
    BY DEF Prices
  <2> QED BY <2>1, <2>2, <2>3 DEF TypeOK, JobRec, PageRec, SearchRec
<1>3. RouteInv /\ DialogInv /\ BusyInv
  BY DEF RouteInv, DialogInv, BusyInv, Busy, NoJob, NoPage, NoSearch
<1>4. PaidUnlessExcused
  BY DEF PaidUnlessExcused, Excused, NoJob
<1> QED BY <1>2, <1>3, <1>4 DEF PagesInv

----------------------------------------------------------------------------
(* What the parts of a handler do. *)

\* A handler that begins takes an idle place.
LEMMA Begins ==
    ASSUME TypeOK, NEW kind \in Kinds, NEW due \in BOOLEAN, NEW why \in Whys, Begin(kind, due, why)
    PROVE  \E k \in Jobs :
             /\ ~Busy(k)
             /\ jobs' \in [Jobs -> JobRec]
             /\ \A j \in Jobs \ {k} : jobs'[j] = jobs[j]
             /\ jobs'[k] = [st |-> IF due THEN "paying" ELSE "publishing", kind |-> kind,
                            token |-> FALSE, why |-> why]
<1> DEFINE Free == {j \in Jobs : jobs[j].st = "idle"}
           k == CHOOSE j \in Free : TRUE
           new == [st |-> IF due THEN "paying" ELSE "publishing", kind |-> kind,
                   token |-> FALSE, why |-> why]
<1>1. k \in Free
  BY DEF Begin
<1>2. new \in JobRec
  BY DEF JobRec
<1>3. jobs' = [jobs EXCEPT ![k] = new] /\ jobs \in [Jobs -> JobRec] /\ k \in Jobs /\ ~Busy(k)
  BY <1>1 DEF Begin, TypeOK, JobRec, Busy
<1> HIDE DEF new, k
<1>4. jobs' \in [Jobs -> JobRec] /\ jobs'[k] = new /\ \A j \in Jobs \ {k} : jobs'[j] = jobs[j]
  BY <1>2, <1>3
<1> QED BY <1>3, <1>4 DEF new

\* A publication that fails leaves its place, and the page is idle.
LEMMA Fails ==
    ASSUME PagesInv, NEW j \in Jobs, jobs[j].st \in {"paying", "publishing"}, Failed(j),
           UNCHANGED <<app, named, route, funded, pricing, world, rows, overlap>>
    PROVE  PagesInv'
<1>1. /\ jobs' \in [Jobs -> JobRec] /\ jobs'[j] = NoJob
      /\ \A k \in Jobs \ {j} : jobs'[k] = jobs[k]
  BY DEF PagesInv, TypeOK, Failed, NoJob, JobRec, Kinds, Whys
<1>2. IF jobs[j].kind = "register" THEN search' = [search EXCEPT !.step = "error"] /\ page' = page
      ELSE search' = search /\ page' = [page EXCEPT !.op = "idle"]
  BY DEF Failed
<1>3. search' \in SearchRec /\ page' \in PageRec /\ search \in SearchRec /\ page \in PageRec
  BY <1>2 DEF PagesInv, TypeOK, SearchRec, PageRec
<1>4. TypeOK'
  BY <1>1, <1>3 DEF PagesInv, TypeOK, Failed, JobRec, SearchRec, PageRec
<1>5. RouteInv'
  BY <1>1, <1>2, <1>3 DEF PagesInv, RouteInv, Busy, NoJob, Failed, NoPage, SearchRec, PageRec
<1>6. DialogInv'
  BY <1>2, <1>3 DEF PagesInv, DialogInv, PageRec
<1>7. BusyInv'
  BY <1>1, <1>2, <1>3 DEF PagesInv, BusyInv, Busy, NoJob
<1>8. PaidUnlessExcused'
  BY <1>1 DEF PagesInv, PaidUnlessExcused, Excused, NoJob
<1> QED BY <1>4, <1>5, <1>6, <1>7, <1>8 DEF PagesInv
\* A publication that begins: it was the first, if no overlap is noted, it makes the
\* page busy, and where no token is due there is an excuse.
LEMMA Begun ==
    ASSUME PagesInv, NEW kind \in Kinds, NEW due \in BOOLEAN, NEW why \in Whys, Begin(kind, due, why),
           UNCHANGED <<app, named, route, funded, pricing, data>>,
           page' \in PageRec, search' \in SearchRec, overlap' \in BOOLEAN, DialogInv',
           IF route = "register" THEN kind = "register" /\ page' = page
                                 ELSE kind # "register" /\ search' = search,
           page'.op # "idle" \/ search'.step = "paying",
           ~overlap' => ~overlap /\ page.op = "idle" /\ search.step # "paying",
           ~due => \/ (IF kind = "register" THEN "create" ELSE kind) \notin Tariff
                   \/ Excused(kind, why)
    PROVE  PagesInv'
<1>1. PICK k \in Jobs :
        /\ ~Busy(k) /\ jobs' \in [Jobs -> JobRec]
        /\ \A j \in Jobs \ {k} : jobs'[j] = jobs[j]
        /\ jobs'[k] = [st |-> IF due THEN "paying" ELSE "publishing", kind |-> kind,
                       token |-> FALSE, why |-> why]
  BY Begins DEF PagesInv
<1>2. TypeOK'
  BY <1>1 DEF PagesInv, TypeOK, JobRec, SearchRec, PageRec, data
<1>3. RouteInv'
  BY <1>1 DEF PagesInv, TypeOK, RouteInv, Busy, data
<1>4. BusyInv'
  BY <1>1 DEF PagesInv, BusyInv, Busy
<1>5. PaidUnlessExcused'
  BY <1>1 DEF PagesInv, PaidUnlessExcused, Excused
<1> QED BY <1>2, <1>3, <1>4, <1>5 DEF PagesInv

\* A step of the page that starts and ends no publication and no load, and
\* leaves what makes it busy.
LEMMA Clicks ==
    ASSUME PagesInv, UNCHANGED <<app, named, route, jobs, data, overlap>>,
           page' \in PageRec, search' \in SearchRec, funded' \in BOOLEAN,
           pricing' = pricing \/ (pricing' \in Prices /\ (app = "registrar" => pricing' = Tariff)),
           IF route = "register" THEN page' = page ELSE search' = search,
           page'.op = page.op, search.step = "paying" => search'.step = "paying",
           DialogInv'
    PROVE  PagesInv'
<1>1. TypeOK'
  BY DEF PagesInv, TypeOK, SearchRec, PageRec, data
<1>2. RouteInv'
  BY DEF PagesInv, TypeOK, RouteInv, Busy, data
<1>3. BusyInv'
  BY DEF PagesInv, BusyInv, Busy
<1>4. PaidUnlessExcused'
  BY DEF PagesInv, PaidUnlessExcused, Excused
<1> QED BY <1>1, <1>2, <1>3, <1>4 DEF PagesInv

----------------------------------------------------------------------------
(* The steps. *)

LEMMA PublicationKeeps == ASSUME PagesInv, Publication PROVE PagesInv'
<1> PICK j \in Jobs : WalletSends(j) \/ WalletRefuses(j) \/ Publishes(j) \/ PublishFails(j)
  BY DEF Publication
<1>1. CASE WalletSends(j)
  <2>1. /\ jobs' \in [Jobs -> JobRec] /\ jobs'[j] = [jobs[j] EXCEPT !.st = "publishing", !.token = TRUE]
        /\ \A k \in Jobs \ {j} : jobs'[k] = jobs[k]
    <3>1. jobs' = [jobs EXCEPT ![j].st = "publishing", ![j].token = TRUE]
      BY <1>1 DEF WalletSends
    <3>2. jobs \in [Jobs -> JobRec]
      BY DEF PagesInv, TypeOK, JobRec
    <3>3. jobs[j] \in JobRec
      BY <3>2
    <3>4. [jobs[j] EXCEPT !.st = "publishing"] \in JobRec
      BY <3>3 DEF JobRec
    <3>5. [jobs[j] EXCEPT !.st = "publishing", !.token = TRUE] \in JobRec
      BY <3>3, <3>4 DEF JobRec
    <3> QED BY <3>1, <3>2, <3>5
  <2>2. /\ jobs'[j].st = "publishing" /\ jobs'[j].token /\ jobs'[j].kind = jobs[j].kind
        /\ jobs[j].st = "paying" /\ Busy(j)
    BY <1>1, <2>1 DEF WalletSends, PagesInv, TypeOK, Busy
  <2> USE <1>1, <2>1, <2>2 DEF WalletSends, PagesInv
  <2>3. TypeOK'
    BY DEF TypeOK, JobRec, data
  <2>4. RouteInv'
    BY DEF RouteInv, Busy, data
  <2>5. DialogInv' /\ BusyInv'
    BY DEF DialogInv, BusyInv, Busy
  <2>6. PaidUnlessExcused'
    BY DEF PaidUnlessExcused, Excused
  <2> QED BY <2>3, <2>4, <2>5, <2>6
<1>2. CASE WalletRefuses(j)
  BY <1>2, Fails DEF WalletRefuses
<1>3. CASE Publishes(j)
  <2>1. /\ jobs[j].st = "publishing" /\ Busy(j) /\ Done(j) /\ jobs \in [Jobs -> JobRec]
        /\ UNCHANGED <<app, named, route, funded, pricing, world, rows, overlap>>
    BY <1>3 DEF Publishes, signAndPublish, publishDnsEvent, Busy, PagesInv, TypeOK, JobRec
  <2>2. CASE jobs[j].kind = "register"
    <3>1. /\ search' = [search EXCEPT !.step = "success"] /\ UNCHANGED <<page, loads>>
          /\ jobs' \in [Jobs -> JobRec] /\ jobs'[j] = NoJob
          /\ \A k \in Jobs \ {j} : jobs'[k] = jobs[k]
      BY <2>1, <2>2, Blanks DEF Done
    <3>2. route = "register"
      BY <2>1, <2>2 DEF PagesInv, RouteInv, TypeOK
    <3> USE <2>1, <3>1, <3>2 DEF PagesInv
    <3>3. TypeOK'
      BY DEF TypeOK, JobRec
    <3>4. RouteInv' /\ DialogInv'
      BY DEF RouteInv, DialogInv, Busy, NoJob
    <3>5. BusyInv'
      BY DEF BusyInv, Busy, NoJob
    <3>6. PaidUnlessExcused'
      BY DEF PaidUnlessExcused, Excused, NoJob
    <3> QED BY <3>3, <3>4, <3>5, <3>6
  <2>3. CASE jobs[j].kind # "register"
    <3> DEFINE waits == [NoJob EXCEPT !.st = "loading"]
               mine == [by |-> j, saw |-> world]
    <3>1. /\ page' = [page EXCEPT
                !.editing = IF jobs[j].kind = "update" THEN None ELSE @,
                !.adding = IF jobs[j].kind = "create" THEN FALSE ELSE @,
                !.dialog = IF app = "registrar" /\ jobs[j].kind = "delete" THEN FALSE ELSE @,
                !.missed = FALSE]
          /\ jobs' = [jobs EXCEPT ![j] = waits] /\ loads' = loads \cup {mine} /\ UNCHANGED search
      BY <2>1, <2>3 DEF Done
    <3>2. waits \in JobRec /\ waits.st = "loading" /\ waits.kind = "create"
      BY DEF NoJob, JobRec, Kinds, Whys
    <3>3. /\ jobs' \in [Jobs -> JobRec] /\ jobs'[j] = waits
          /\ \A k \in Jobs \ {j} : jobs'[k] = jobs[k]
      BY <2>1, <3>1, <3>2
    <3>4. route = "domain"
      BY <2>1, <2>3 DEF PagesInv, RouteInv, TypeOK
    <3>5. /\ page' \in PageRec /\ page'.op = page.op /\ page'.editing \in {None, page.editing}
          /\ page'.dialog \in {FALSE, page.dialog}
      BY <3>1 DEF PagesInv, TypeOK, PageRec
    <3>6. mine.by = j /\ mine \in [by: Jobs \cup {None}, saw: SUBSET Recs]
      BY DEF PagesInv, TypeOK
    <3> HIDE DEF waits, mine
    <3> USE <2>1, <3>2, <3>3, <3>4, <3>5 DEF PagesInv
    <3>7. TypeOK'
      BY <3>1, <3>6 DEF TypeOK, JobRec, PageRec
    <3>8. RouteInv'
      <4>1. \A l \in loads : l.by # j
        BY DEF RouteInv
      <4> QED BY <3>1, <3>6, <4>1 DEF RouteInv, TypeOK
    <3>9. DialogInv' /\ BusyInv'
      BY <3>1 DEF DialogInv, BusyInv, Busy, TypeOK
    <3>10. PaidUnlessExcused'
      BY DEF PaidUnlessExcused, Excused
    <3> QED BY <3>7, <3>8, <3>9, <3>10
  <2> QED BY <2>2, <2>3
<1>4. CASE PublishFails(j)
  BY <1>4, Fails DEF PublishFails
<1> QED BY <1>1, <1>2, <1>3, <1>4

LEMMA RegistrationKeeps == ASSUME PagesInv, Registration PROVE PagesInv'
<1> USE DEF PagesInv
<1>1. CASE handleSearch \/ checkAvailability
  <2>1. /\ search' \in SearchRec /\ (search.step = "paying" => search'.step = "paying")
        /\ UNCHANGED <<app, named, route, funded, pricing, page, jobs, data, overlap>>
    <3>1. CASE handleSearch
      BY <1>1, <3>1 DEF handleSearch, TypeOK, SearchRec
    <3>2. CASE checkAvailability
      BY <1>1, <3>2 DEF checkAvailability, TypeOK, SearchRec
    <3> QED BY <1>1, <3>1, <3>2
  <2>2. route = "register"
    BY <1>1 DEF handleSearch, CanSearch, checkAvailability, TypeOK, RouteInv, NoSearch
  <2>3. page' \in PageRec /\ funded' \in BOOLEAN /\ DialogInv'
    BY <2>1 DEF TypeOK, PageRec, DialogInv
  <2> QED BY <2>1, <2>2, <2>3, Clicks
<1>2. CASE resetSearch \/ TryAgain
  <2>1. /\ search' \in SearchRec /\ search.step # "paying"
        /\ UNCHANGED <<app, named, route, funded, pricing, page, jobs, data, overlap>>
    <3>1. CASE resetSearch
      BY <3>1 DEF resetSearch, TypeOK, SearchRec
    <3>2. CASE TryAgain
      BY <3>2, Blanks DEF TryAgain
    <3> QED BY <1>2, <3>1, <3>2
  <2>2. route = "register"
    BY <1>2 DEF resetSearch, TryAgain, TypeOK, RouteInv, NoSearch
  <2>3. page' \in PageRec /\ funded' \in BOOLEAN /\ DialogInv'
    BY <2>1 DEF TypeOK, PageRec, DialogInv
  <2> QED BY <2>1, <2>2, <2>3, Clicks
<1>3. CASE handleRegister
  <2>1. /\ route = "register" /\ search' = [search EXCEPT !.step = "paying"]
        /\ UNCHANGED <<app, named, route, funded, pricing, page, data, overlap>>
    BY <1>3 DEF handleRegister
  <2>2. /\ search' \in SearchRec /\ search'.step = "paying" /\ page' \in PageRec
        /\ overlap' \in BOOLEAN /\ DialogInv' /\ page.op = "idle"
    BY <2>1 DEF TypeOK, SearchRec, PageRec, DialogInv, RouteInv, NoPage
  <2>3. CASE registrar_handleRegister
    <3> DEFINE due == search.result = "priced"
               why == IF search.result = "priced" THEN "none" ELSE "unpriced"
    <3>1. /\ app = "registrar" /\ search.step # "paying" /\ Begin("register", due, why)
          /\ due \in BOOLEAN /\ why \in Whys /\ (~due => Excused("register", why))
      BY <2>3 DEF registrar_handleRegister, registrar_can_register, Whys, Excused
    <3> HIDE DEF due, why
    <3> QED BY <2>1, <2>2, <3>1, Begun DEF Kinds
  <2>4. CASE frontend_handleRegister
    <3>1. /\ app = "frontend" /\ search.step # "paying" /\ Begin("register", TRUE, "none")
          /\ "none" \in Whys
      BY <2>4 DEF frontend_handleRegister, frontend_can_register, Whys
    <3> QED BY <2>1, <2>2, <3>1, Begun DEF Kinds
  <2> QED BY <1>3, <2>3, <2>4 DEF handleRegister
<1> QED BY <1>1, <1>2, <1>3 DEF Registration

\* A change that is not due costs nothing in the zone, or is excused.
LEMMA Excuses ==
    ASSUME PagesInv, NEW kind \in {"create", "update", "delete"}
    PROVE  /\ kind \in Kinds /\ kind # "register" /\ Why(kind) \in Whys
           /\ registrar_due(kind) \in BOOLEAN /\ frontend_due(kind) \in BOOLEAN
           /\ app = "registrar" /\ ~registrar_due(kind) => kind \notin Tariff \/ Excused(kind, Why(kind))
           /\ app = "frontend" /\ ~frontend_due(kind) => kind \notin Tariff \/ Excused(kind, Why(kind))
<1>1. named \in BOOLEAN /\ funded \in BOOLEAN /\ (app = "frontend" => named)
      /\ (app = "registrar" => pricing \in {None, Tariff})
  BY DEF PagesInv, TypeOK, RouteInv
<1>2. Why(kind) \in Whys /\ kind \in Kinds
  BY DEF Why, Whys, Kinds
<1>3. registrar_due(kind) \in BOOLEAN /\ frontend_due(kind) \in BOOLEAN
  BY <1>1 DEF registrar_due, frontend_due, charges, createCost
<1>4. app = "registrar" /\ ~registrar_due(kind) => kind \notin Tariff \/ Excused(kind, Why(kind))
  BY <1>1 DEF registrar_due, charges, createCost, Why, Excused
<1>5. app = "frontend" /\ ~frontend_due(kind) => kind \notin Tariff \/ Excused(kind, Why(kind))
  BY <1>1 DEF frontend_due, charges, Why, Excused
<1> QED BY <1>2, <1>3, <1>4, <1>5

LEMMA FormsKeep ==
    ASSUME PagesInv, \/ OpenForm \/ CloseForm \/ AskDelete \/ CancelDelete
                     \/ \E r \in Recs : startEdit(r) \/ cancelEdit(r)
    PROVE  PagesInv'
<1> USE DEF PagesInv
<1>1. /\ UNCHANGED <<app, named, route, funded, pricing, search, jobs, data, overlap>>
      /\ route = "domain"
  BY DEF OpenForm, CloseForm, AskDelete, CancelDelete, startEdit, cancelEdit, OnDomain, CanChange
<1>2. page' \in PageRec /\ page'.op = page.op
  BY DEF OpenForm, CloseForm, AskDelete, CancelDelete, startEdit, cancelEdit, TypeOK, PageRec
<1>3. DialogInv'
  <2>1. CASE OpenForm \/ CloseForm \/ CancelDelete
    BY <1>1, <2>1 DEF OpenForm, CloseForm, CancelDelete, DialogInv, TypeOK, PageRec
  <2>2. CASE AskDelete
    BY <1>1, <2>2 DEF AskDelete, CanChange, registrar_can_change, frontend_can_change, DialogInv, TypeOK
  <2>3. ASSUME NEW r \in Recs, startEdit(r) \/ cancelEdit(r) PROVE DialogInv'
    BY <1>1, <2>3 DEF startEdit, cancelEdit, IsEditing, CanChange, frontend_can_change, DialogInv, TypeOK
  <2> QED BY <2>1, <2>2, <2>3
<1>4. search' \in SearchRec /\ funded' \in BOOLEAN
  BY <1>1 DEF TypeOK, SearchRec
<1> QED BY <1>1, <1>2, <1>3, <1>4, Clicks

LEMMA HandlersKeep ==
    ASSUME PagesInv, \/ handleAddRecord \/ handleSaveNew \/ handleDeleteRecord \/ handleDelete
                     \/ \E r \in Recs : handleEditSave(r)
    PROVE  PagesInv'
<1> USE DEF PagesInv
<1>1. /\ route = "domain" /\ UNCHANGED <<app, named, route, funded, pricing, search, data>>
      /\ search' \in SearchRec /\ search.step # "paying"
  BY DEF handleAddRecord, handleSaveNew, handleDeleteRecord, handleDelete, handleEditSave, OnDomain,
         TypeOK, SearchRec, RouteInv, NoSearch
<1>2. CASE handleAddRecord
  <2>1. /\ app = "registrar" /\ page.op = "idle" /\ overlap' = overlap
        /\ Begin("create", registrar_due("create"), Why("create")) /\ page' = [page EXCEPT !.op = "saving"]
    BY <1>2 DEF handleAddRecord, registrar_can_add
  <2>2. page' \in PageRec /\ page'.op # "idle" /\ overlap' \in BOOLEAN /\ DialogInv'
    BY <1>1, <2>1 DEF TypeOK, PageRec, DialogInv
  <2> QED BY <1>1, <2>1, <2>2, Excuses, Begun
<1>3. CASE handleSaveNew
  <2>1. /\ app = "frontend" /\ page.op # "saving" /\ ~page.dialog
        /\ overlap' = (overlap \/ page.op = "deleting")
        /\ Begin("create", frontend_due("create"), Why("create")) /\ page' = [page EXCEPT !.op = "saving"]
    BY <1>3 DEF handleSaveNew, frontend_can_add
  <2>2. /\ page' \in PageRec /\ page'.op # "idle" /\ overlap' \in BOOLEAN /\ DialogInv'
        /\ ~overlap' => ~overlap /\ page.op = "idle"
    BY <1>1, <2>1 DEF TypeOK, PageRec, DialogInv
  <2> QED BY <1>1, <2>1, <2>2, Excuses, Begun
<1>4. CASE handleDeleteRecord
  <2>1. /\ app = "registrar" /\ page.op = "idle" /\ overlap' = overlap
        /\ Begin("delete", registrar_due("delete"), Why("delete")) /\ page' = [page EXCEPT !.op = "saving"]
    BY <1>4 DEF handleDeleteRecord
  <2>2. page' \in PageRec /\ page'.op # "idle" /\ overlap' \in BOOLEAN /\ DialogInv'
    BY <1>1, <2>1 DEF TypeOK, PageRec, DialogInv
  <2> QED BY <1>1, <2>1, <2>2, Excuses, Begun
<1>5. CASE handleDelete
  <2>1. /\ app = "frontend" /\ page.dialog /\ overlap' = overlap
        /\ Begin("delete", frontend_due("delete"), Why("delete"))
        /\ page' = [page EXCEPT !.op = "deleting", !.dialog = FALSE]
    BY <1>5 DEF handleDelete
  <2>2. /\ page' \in PageRec /\ page'.op # "idle" /\ overlap' \in BOOLEAN /\ DialogInv'
        /\ page.op = "idle"
    BY <1>1, <2>1 DEF TypeOK, PageRec, DialogInv
  <2> QED BY <1>1, <2>1, <2>2, Excuses, Begun
<1>6. ASSUME NEW r \in Recs, handleEditSave(r) PROVE PagesInv'
  <2>1. /\ app = "frontend" /\ page.editing = r /\ page.op # "saving" /\ overlap' = overlap
        /\ Begin("update", frontend_due("update"), Why("update")) /\ page' = [page EXCEPT !.op = "saving"]
    BY <1>6 DEF handleEditSave, IsEditing
  <2>2. /\ page' \in PageRec /\ page'.op # "idle" /\ overlap' \in BOOLEAN /\ DialogInv'
        /\ page.op = "idle"
    BY <1>1, <2>1, PagesAssumption DEF TypeOK, PageRec, DialogInv
  <2> QED BY <1>1, <2>1, <2>2, Excuses, Begun
<1> QED BY <1>2, <1>3, <1>4, <1>5, <1>6

LEMMA LoadEndsKeeps == ASSUME PagesInv, NEW l \in loads, LoadEnds(l) PROVE PagesInv'
<1> USE DEF PagesInv
<1>1. /\ loads' = loads \ {l} /\ rows' \in {rows, l.saw} /\ route = "domain"
      /\ UNCHANGED <<app, named, route, funded, pricing, search, world, overlap>>
      /\ l \in [by: Jobs \cup {None}, saw: SUBSET Recs]
  BY DEF LoadEnds, registrar_loadRecords, frontend_loadRecords, TypeOK, RouteInv
<1>2. CASE l.by \in Jobs
  <2>1. jobs' = [jobs EXCEPT ![l.by] = NoJob] /\ page' = [page EXCEPT !.op = "idle"]
    BY <1>2 DEF LoadEnds
  <2>2. /\ NoJob \in JobRec /\ jobs' \in [Jobs -> JobRec] /\ jobs'[l.by] = NoJob
        /\ \A j \in Jobs \ {l.by} : jobs'[j] = jobs[j]
    BY <1>2, <2>1 DEF NoJob, JobRec, Kinds, Whys, TypeOK
  <2>3. /\ page' \in PageRec /\ page'.op = "idle" /\ page'.editing = page.editing
        /\ page'.dialog = page.dialog
    BY <2>1 DEF TypeOK, PageRec
  <2>4. NoJob.st = "idle" /\ NoJob.kind = "create"
    BY DEF NoJob
  <2> USE <1>1, <1>2, <2>2, <2>3, <2>4
  <2>5. TypeOK'
    BY DEF TypeOK, JobRec, PageRec
  <2>6. RouteInv'
    BY DEF RouteInv
  <2>7. DialogInv'
    BY DEF DialogInv
  <2>8. BusyInv'
    BY DEF BusyInv, Busy, RouteInv
  <2>9. PaidUnlessExcused'
    BY DEF PaidUnlessExcused, Excused
  <2> QED BY <2>5, <2>6, <2>7, <2>8, <2>9
<1>3. CASE l.by \notin Jobs
  <2>1. UNCHANGED <<jobs, page>>
    BY <1>3 DEF LoadEnds
  <2>2. TypeOK'
    BY <1>1, <2>1 DEF TypeOK
  <2>3. RouteInv' /\ DialogInv' /\ BusyInv' /\ PaidUnlessExcused'
    BY <1>1, <2>1 DEF RouteInv, DialogInv, BusyInv, Busy, PaidUnlessExcused, Excused
  <2> QED BY <2>2, <2>3
<1> QED BY <1>2, <1>3

LEMMA LoadingKeeps == ASSUME PagesInv, Loading PROVE PagesInv'
<1> USE DEF PagesInv
<1>1. CASE subscribeToRecords \/ fetchPricing
  <2>1. /\ UNCHANGED <<app, named, route, funded, search, jobs, data, overlap>>
        /\ page' \in PageRec /\ page'.op = page.op /\ page'.editing = page.editing
        /\ page'.dialog = page.dialog
        /\ pricing' = pricing \/ (pricing' \in Prices /\ (app = "registrar" => pricing' = Tariff))
        /\ route = "register" => page' = page
    <3>1. CASE subscribeToRecords
      BY <3>1 DEF subscribeToRecords, OnDomain, TypeOK, RouteInv, PageRec, Timers
    <3>2. CASE fetchPricing
      <4>1. pricing' \in Prices
        BY <3>2, PagesAssumption DEF fetchPricing, DEFAULT_PRICING, Prices
      <4> QED BY <3>2, <4>1 DEF fetchPricing, TypeOK, PageRec
    <3> QED BY <1>1, <3>1, <3>2
  <2>2. DialogInv' /\ search' \in SearchRec /\ funded' \in BOOLEAN
    BY <2>1 DEF DialogInv, TypeOK, SearchRec
  <2> QED BY <2>1, <2>2, Clicks
<1>2. CASE subscribeToDnsEvents \/ \E t \in Timers : TimerFires(t)
  <2> DEFINE new == [by |-> None, saw |-> world]
  <2>1. /\ UNCHANGED <<app, named, route, funded, pricing, search, jobs, world, rows, overlap>>
        /\ loads' = loads \cup {new} /\ route = "domain"
        /\ page' \in PageRec /\ page'.op = page.op /\ page'.editing = page.editing
        /\ page'.dialog = page.dialog
    <3>1. CASE subscribeToDnsEvents
      BY <3>1 DEF subscribeToDnsEvents, Load, OnDomain, TypeOK, PageRec
    <3>2. CASE \E t \in Timers : TimerFires(t)
      <4>1. route = "domain"
        BY <3>2 DEF TimerFires, Timers, TypeOK, RouteInv, NoPage
      <4> QED BY <3>2, <4>1 DEF TimerFires, Load, TypeOK, PageRec
    <3> QED BY <1>2, <3>1, <3>2
  <2>2. new \in [by: Jobs \cup {None}, saw: SUBSET Recs] /\ new.by \notin Jobs
    BY PagesAssumption DEF TypeOK
  <2> HIDE DEF new
  <2> USE <2>1, <2>2
  <2>3. TypeOK'
    BY DEF TypeOK, PageRec
  <2>4. RouteInv'
    BY DEF RouteInv
  <2>5. DialogInv' /\ BusyInv' /\ PaidUnlessExcused'
    BY DEF DialogInv, BusyInv, Busy, PaidUnlessExcused, Excused
  <2> QED BY <2>3, <2>4, <2>5
<1> QED BY <1>1, <1>2, LoadEndsKeeps DEF Loading

LEMMA LeaveKeeps == ASSUME PagesInv, Leave PROVE PagesInv'
<1>1. NoJob \in JobRec /\ NoPage \in PageRec /\ NoSearch \in SearchRec
  BY Blanks
<1>2. TypeOK'
  <2>1. jobs' \in [Jobs -> JobRec] /\ page' \in PageRec /\ search' \in SearchRec
    BY <1>1 DEF Leave
  <2>2. loads' \subseteq [by: Jobs \cup {None}, saw: SUBSET Recs]
    BY DEF PagesInv, TypeOK, Leave
  <2>3. pricing' \in Prices
    BY DEF Leave, Prices
  <2> QED BY <2>1, <2>2, <2>3 DEF PagesInv, TypeOK, Leave, JobRec, PageRec, SearchRec
<1>3. RouteInv' /\ DialogInv' /\ BusyInv'
  BY PagesAssumption DEF PagesInv, Leave, RouteInv, DialogInv, BusyInv, Busy, NoJob, NoPage, NoSearch, TypeOK
<1>4. PaidUnlessExcused'
  BY DEF Leave, PaidUnlessExcused, Excused, NoJob
<1> QED BY <1>2, <1>3, <1>4 DEF PagesInv

LEMMA PagesNext == ASSUME PagesInv, [Next]_vars PROVE PagesInv'
<1>1. CASE Records
  BY <1>1, FormsKeep, HandlersKeep DEF Records
<1>2. CASE WorldChanges \/ UNCHANGED vars
  BY <1>2 DEF WorldChanges, vars, data, PagesInv, TypeOK, RouteInv, DialogInv, BusyInv, Busy, PaidUnlessExcused, Excused
<1> QED BY <1>1, <1>2, PublicationKeeps, RegistrationKeeps, LoadingKeeps, LeaveKeeps DEF Next

LEMMA PagesHold == Spec => []PagesInv
BY PagesInit, PagesNext, PTL DEF Spec

----------------------------------------------------------------------------
(* The theorems. *)

\* The pages' state has the types of its components.
THEOREM TypeCorrect == Spec => []TypeOK
<1>1. PagesInv => TypeOK
  BY DEF PagesInv
<1> QED BY <1>1, PagesHold, PTL

\* A page has one publication in flight, unless a record was saved in the frontend's
\* form while another was being deleted: no two payments are made at once.
THEOREM OnePublication == Spec => []OneAtATime
<1>1. ASSUME PagesInv, ~overlap PROVE Cardinality(InFlight) <= 1
  <2>1. \A i, j \in InFlight : i = j
    BY <1>1 DEF PagesInv, BusyInv, Busy, InFlight
  <2>2. CASE InFlight = {}
    BY <2>2, FS_EmptySet
  <2>3. CASE InFlight # {}
    <3>1. PICK j : InFlight = {j}
      BY <2>1, <2>3
    <3>2. Cardinality(InFlight) = 1
      BY <3>1, FS_Singleton
    <3> QED BY <3>2
  <2> QED BY <2>2, <2>3
<1>2. PagesInv => OneAtATime
  BY <1>1 DEF OneAtATime
<1> QED BY <1>2, PagesHold, PTL

\* What is published for a bought name without a token has one of the excuses that
\* the code knows.
THEOREM PaidOrExcused == Spec => []PaidUnlessExcused
<1>1. PagesInv => PaidUnlessExcused
  BY DEF PagesInv
<1> QED BY <1>1, PagesHold, PTL
=============================================================================
