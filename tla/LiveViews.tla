----------------------------- MODULE LiveViews -----------------------------
(***************************************************************************)
(* Screens that follow the relays and load records: the explorer (App.tsx  *)
(* and its zone monitor), the frontend's record browser and live feed, its *)
(* lookups of a name (app/profile/page.tsx, app/search/page.tsx), and the  *)
(* dashboards of the frontend (app/dashboard/page.tsx) and of the          *)
(* registrar (pages/Dashboard.tsx), whose users come and go as Identities  *)
(* says.                                                                   *)
(*                                                                         *)
(* Each screen has a subject, whose records it shows: a zone, a name, the  *)
(* user (the record browser shows all).  A load that is not cancelled is   *)
(* shown whenever its answer arrives, whatever the subject is by then.     *)
(*                                                                         *)
(* The relays, the bot and DNS are external.  An event sets a record of    *)
(* one of its subject's names; "at" is the time it was created.            *)
(***************************************************************************)
EXTENDS Identities, FiniteSets, FiniteSetsExt, Sequences, SequencesExt

CONSTANTS
    Screens,    \* screens to start with
    Zones,      \* zones, or names that are looked up
    Names,      \* names of a zone or of a user
    MaxAt,      \* events of a name
    Limit,      \* length of the list of events (500 in the explorer, 50 in the browser)
    MaxNames,   \* names the zone monitor asks DNS for (29, and the zone itself)
    MaxLoads,   \* bound: loads in flight
    MaxChanges  \* bound: events, and changes of the bot's records and of DNS; in the
                \* dashboards one more, page loads and changes of the user among them

Dashboards == {"frontend", "registrar"}

ASSUME ViewsAssumption ==
    /\ Screens \subseteq {"explorer", "browser", "lookup"} \cup Dashboards
    /\ MaxAt \in Nat /\ Limit \in Nat \ {0} /\ MaxNames \in Nat /\ MaxLoads \in Nat \ {0}
    /\ MaxChanges \in Nat

VARIABLES
    screen,   \* the screen that is open
    zone,     \* the zone or name it is about
    sent,     \* events the relays have
    bot,      \* the events whose records the bot has
    dns,      \* the events whose records are in DNS
    feed,     \* the list of events
    seen,     \* seenRef of the explorer; elsewhere a history: events received
    api,      \* records loaded from the bot (and the relays)
    answer,   \* records loaded from DNS
    loads,    \* loads in flight
    timer,    \* the registrar's debounce timer runs
    crossed,  \* history: the last load started while one that is not cancelled was in flight
    changes   \* changes so far

sources == <<sent, bot, dns>>
shown == <<api, answer>>
views == <<screen, zone, sources, feed, seen, shown, loads, timer, crossed>>
vars == <<idVars, views, changes>>

Bound == IF screen \in Dashboards THEN MaxChanges + 1 ELSE MaxChanges

subject == IF screen \in Dashboards THEN session.key ELSE zone

Fqdn == [of: Zones \cup Keys, name: Names]
Event == [of: Zones \cup Keys, name: Names, at: 1..MaxAt]
key(e) == [of |-> e.of, name |-> e.name]
keys(E) == {key(e) : e \in E}

Sources == {"bot", "relays"}
Got == [st: {"idle", "loading", "ok", "error"}, of: Zones \cup Keys \cup {None},
        recs: SUBSET Event, by: SUBSET Sources, asked: SUBSET Fqdn]
Blank == [st |-> "idle", of |-> None, recs |-> {}, by |-> {}, asked |-> {}]

TypeOK ==
    /\ IdTypeOK
    /\ screen \in Screens /\ zone \in Zones \cup {None}
    /\ sent \subseteq Event /\ bot \subseteq Event /\ dns \subseteq Event
    /\ feed \in BoundedSeq(Event, Limit) /\ seen \subseteq Event
    /\ \A g \in {api, answer} :
         /\ DOMAIN g = {"st", "of", "recs", "by", "asked"}
         /\ g.st \in {"idle", "loading", "ok", "error"} /\ g.of \in Zones \cup Keys \cup {None}
         /\ g.recs \subseteq Event /\ g.by \subseteq Sources /\ g.asked \subseteq Fqdn
    /\ \A l \in loads : /\ l.of \in Zones \cup Keys \cup {None} /\ l.stage \in {"api", "dns"}
                        /\ l.bot \subseteq Event /\ l.relays \subseteq Event
                        /\ l.asked \subseteq Fqdn /\ l.cancellable \in BOOLEAN
    /\ timer \in BOOLEAN /\ crossed \in BOOLEAN
    /\ changes \in 0..Bound

----------------------------------------------------------------------------
(* What the sources have. *)

\* The latest event of each name: parseRelayRecords replaces a record only by one
\* that was created later, and so does the SDK.
mutant_latest(E) == {e \in E : \A f \in E : key(f) = key(e) => f.at >= e.at}
latest(E) == {e \in E : \A f \in E : key(f) = key(e) => f.at <= e.at}

About(E, s) == IF s = None THEN E ELSE {e \in E : e.of = s}

\* A load takes what the sources have when it starts.
NewLoad(s, cancellable) ==
    [of |-> s, stage |-> "api", bot |-> About(bot, s), relays |-> latest(About(sent, s)),
     asked |-> {}, cancellable |-> cancellable]

\* A load of s starts, next to those that go on.  (Loads that are alike are one.)
Load(s, on, cancellable) ==
    /\ Cardinality(on) < MaxLoads
    /\ loads' = on \cup {NewLoad(s, cancellable)}
    /\ crossed' = (\E l \in on : ~l.cancellable)

Init ==
    /\ IdInit
    /\ screen \in Screens
    /\ zone \in (IF screen \in {"explorer", "lookup"} THEN Zones ELSE {None})
    /\ sent = {} /\ bot = {} /\ dns = {}
    /\ feed = <<>> /\ seen = {} /\ api = Blank /\ answer = Blank
    /\ loads = IF screen \in Dashboards THEN {} ELSE {NewLoad(zone, screen = "lookup")}
    /\ timer = FALSE /\ crossed = FALSE
    /\ changes = 0

----------------------------------------------------------------------------
(* Events. *)

Add(e) == SubSeq(<<e>> \o feed, 1, Min({Limit, Len(feed) + 1}))

\* The explorer drops what it has seen before.
explorer_event(e) ==
    /\ screen = "explorer" /\ e \notin seen
    /\ feed' = Add(e) /\ seen' = seen \cup {e}
    /\ UNCHANGED <<loads, crossed, timer>>

\* The browser and the live feed drop what they show.
browser_event(e) ==
    /\ screen = "browser" /\ e \notin ToSet(feed)
    /\ feed' = Add(e) /\ seen' = seen \cup {e}
    /\ UNCHANGED <<loads, crossed, timer>>

\* The frontend's dashboard loads for each event, of anyone.
frontend_event(e) ==
    /\ screen = "frontend" /\ subject # None
    /\ Load(subject, loads, FALSE)
    /\ seen' = seen \cup {e}
    /\ UNCHANGED <<feed, timer>>

\* The registrar's starts its timer of 3 s anew, for events of its user.
registrar_event(e) ==
    /\ screen = "registrar" /\ e.of = subject
    /\ timer' = TRUE
    /\ UNCHANGED <<feed, seen, loads, crossed>>

\* A relay delivers an event, for the first time or again.
Deliver(e) ==
    /\ e \in sent
    /\ explorer_event(e) \/ browser_event(e) \/ frontend_event(e) \/ registrar_event(e)
    /\ UNCHANGED <<idVars, screen, zone, sources, shown, changes>>

DebounceFires ==
    /\ timer /\ timer' = FALSE /\ Load(subject, loads, FALSE)
    /\ api' = [api EXCEPT !.st = "loading"]
    /\ UNCHANGED <<idVars, screen, zone, sources, feed, seen, answer, changes>>

\* The record browser loads every 30 s, and when it is told to.
IntervalFires ==
    /\ screen = "browser" /\ Load(None, loads, FALSE)
    /\ UNCHANGED <<idVars, screen, zone, sources, feed, seen, shown, timer, changes>>

----------------------------------------------------------------------------
(* Loads. *)

\* What the sources that answered had.
merged(l, by) == (IF "bot" \in by THEN l.bot ELSE {}) \cup (IF "relays" \in by THEN l.relays ELSE {})

Ok(l, by) == [st |-> "ok", of |-> l.of, recs |-> merged(l, by), by |-> by, asked |-> {}]

\* A source that does not answer adds no records.  The browser empties its list
\* where the bot cannot be reached.
mutant_fetchRecords(l) ==
    /\ screen = "browser"
    /\ \E by \in SUBSET Sources : api' = [Ok(l, by) EXCEPT !.recs = @ \cup api.recs]

fetchRecords(l) ==
    /\ screen = "browser"
    /\ \E by \in SUBSET Sources : api' = Ok(l, by)

frontend_loadRecords(l) ==
    /\ screen = "frontend"
    /\ \E by \in SUBSET Sources : api' = Ok(l, by)

\* Of a name: its profile, or whether it is available.  (The rows that DNS adds to a
\* profile are left out.)
load(l) ==
    /\ screen = "lookup"
    /\ \E by \in SUBSET Sources : api' = Ok(l, by)

\* The registrar keeps its records where it fails.
loadRecords(l) ==
    /\ screen = "registrar"
    /\ api' \in {Ok(l, {"bot"}), [api EXCEPT !.st = "error"]}

\* The records of the relays, in the zone monitor: from the list of events.
relayRecords(z) == latest({e \in ToSet(feed) : e.of = z})

\* The names DNS is asked for: those of the relays first.
mutant_namesAsked(R, A) == {n \in SUBSET keys(R) : Cardinality(n) <= MaxNames /\ (n = keys(R) \/ Cardinality(n) = MaxNames)}

namesAsked(R, A) ==
    {n \in SUBSET keys(R \cup A) :
        /\ Cardinality(n) = Min({MaxNames, Cardinality(keys(R \cup A))})
        /\ n \subseteq keys(R) \/ keys(R) \subseteq n}

\* The bot has answered.  The relays' names are those of the zone that is selected by now.
refresh_api(l) ==
    /\ screen = "explorer" /\ l.stage = "api"
    /\ \E by \in {{}, {"bot"}} :
         /\ api' = [Ok(l, by) EXCEPT !.st = IF by = {} THEN "error" ELSE "ok"]
         /\ \E names \in namesAsked(relayRecords(subject), merged(l, by)) :
              loads' = (loads \ {l}) \cup
                {[l EXCEPT !.stage = "dns", !.bot = {e \in dns : key(e) \in names}, !.asked = names]}
    /\ UNCHANGED answer

refresh_dns(l) ==
    /\ screen = "explorer" /\ l.stage = "dns"
    /\ answer' \in {[Ok(l, {"bot"}) EXCEPT !.asked = l.asked], [Ok(l, {}) EXCEPT !.st = "error"]}
    /\ loads' = loads \ {l}
    /\ UNCHANGED api

LoadEnds(l) ==
    /\ l \in loads
    /\ \/ /\ fetchRecords(l) \/ frontend_loadRecords(l) \/ load(l) \/ loadRecords(l)
          /\ loads' = loads \ {l} /\ UNCHANGED answer
       \/ refresh_api(l) \/ refresh_dns(l)
    /\ UNCHANGED <<idVars, screen, zone, sources, feed, seen, timer, crossed, changes>>

Waiting == [Blank EXCEPT !.st = "loading"]

refresh(z) ==
    /\ Load(z, loads, FALSE)
    /\ api' = Waiting /\ answer' = Waiting

\* The Refresh button is disabled while either source is loading.
RefreshClicked ==
    /\ screen = "explorer" /\ api.st # "loading" /\ answer.st # "loading"
    /\ refresh(subject)
    /\ UNCHANGED <<idVars, screen, zone, sources, feed, seen, timer, changes>>

SelectZone(z) ==
    /\ screen = "explorer" /\ z # zone /\ zone' = z
    /\ refresh(z)
    /\ UNCHANGED <<idVars, screen, sources, feed, seen, timer, changes>>

\* Another name is looked up: what the effect has started is cancelled.  The rows
\* of the name before stay until the load ends.
mutant_LookUp(z) ==
    /\ screen = "lookup" /\ z # zone /\ zone' = z
    /\ Load(z, loads, TRUE)
    /\ api' = [api EXCEPT !.st = "loading"]
    /\ UNCHANGED <<idVars, screen, sources, feed, seen, answer, timer, changes>>

LookUp(z) ==
    /\ screen = "lookup" /\ z # zone /\ zone' = z
    /\ Load(z, {l \in loads : ~l.cancellable}, TRUE)
    /\ api' = [api EXCEPT !.st = "loading"]
    /\ UNCHANGED <<idVars, screen, sources, feed, seen, answer, timer, changes>>

\* The profile's Refresh is not cancelled.
LookUpAgain ==
    /\ screen = "lookup" /\ api.st # "loading" /\ api.of # None
    /\ Load(zone, loads, FALSE)
    /\ api' = [api EXCEPT !.st = "loading"]
    /\ UNCHANGED <<idVars, screen, zone, sources, feed, seen, answer, timer, changes>>

----------------------------------------------------------------------------
(* Who is signed in. *)

mutant_Fetching == api

\* The registrar says that it is fetching until a load ends, whichever.
Fetching == IF screen = "registrar" THEN [api EXCEPT !.st = "loading"] ELSE api

\* The dashboard's effect: it stops its timer, and loads for who is signed in now.
Follow ==
    /\ timer' = (timer /\ session'.key = session.key)
    /\ IF session'.key \in {None, session.key}
         THEN UNCHANGED <<loads, crossed, api>>
         ELSE Load(session'.key, loads, FALSE) /\ api' = Fetching

SwitchUser ==
    /\ \/ screen = "registrar" /\ RegistrarIdentity
       \/ screen = "frontend" /\ FrontendIdentity
    /\ Follow
    /\ changes < Bound /\ changes' = changes + 1
    /\ UNCHANGED <<screen, zone, sources, feed, seen, answer>>

\* The page is loaded again, or for the first time.
Reload ==
    /\ \/ screen = "registrar" /\ RegistrarReloads
       \/ screen = "frontend" /\ getOrCreateIdentity
    /\ IF session'.key = None
         THEN loads' = {} /\ api' = Blank
         ELSE loads' = {NewLoad(session'.key, FALSE)}
              /\ api' = IF screen = "registrar" THEN Waiting ELSE Blank
    /\ timer' = FALSE /\ crossed' = FALSE /\ seen' = {}
    /\ changes < Bound /\ changes' = changes + 1
    /\ UNCHANGED <<screen, zone, sources, feed, answer>>

----------------------------------------------------------------------------
(* The zone monitor's comparison. *)

compareRecords(R, A, D) ==
    [match |-> R \cap A \cap D, onlyRelay |-> R \ A, onlyApi |-> A \ R,
     dnsMissing |-> (R \cap A) \ D, dnsStale |-> D \ (R \cup A)]

\* A conflict: a name that two sources have, and have other data for.
conflicts(R, A, D) ==
    LET of(X, n) == {e \in X : key(e) = n}
        differ(X, Y, n) == of(X, n) # {} /\ of(Y, n) # {} /\ ~(of(X, n) \subseteq of(Y, n))
    IN  {n \in Fqdn : differ(R, A, n) \/ differ(A, D, n) \/ differ(R, D, n)}

comparison == compareRecords(relayRecords(subject), api.recs, answer.recs)

\* "FULL", "All sources in agreement".
Full ==
    /\ comparison.onlyRelay = {} /\ comparison.onlyApi = {}
    /\ comparison.dnsMissing = {} /\ comparison.dnsStale = {}
    /\ conflicts(relayRecords(subject), api.recs, answer.recs) = {}

----------------------------------------------------------------------------
(* What the screens say of the records they have. *)

Says(waiting, none) == IF waiting THEN "waiting" ELSE IF none THEN "none" ELSE "rows"

\* The registrar keeps its rows while it fetches others, and where it fails.
registrar_shows ==
    IF session = NoSession THEN "sign in"
    ELSE IF api.st = "error" THEN "error"
    ELSE Says(api.st = "loading" /\ api.recs = {}, api.recs = {})

\* "Loading" is said before the first load has ended, and never again.
frontend_shows == Says(api.st = "idle", api.recs = {})
browser_shows == Says(api.st = "idle", api.recs = {})

\* A name's profile says that it is loading only while it has no rows.
profile_shows == Says(api.st \in {"idle", "loading"} /\ api.recs = {}, api.recs = {})

\* The search says of a name it is still looking up what it said of the one before.
search_shows == IF api.of = None THEN "waiting" ELSE IF api.recs = {} THEN "available" ELSE "taken"

----------------------------------------------------------------------------
(* The world. *)

\* The names this screen is about.
Theirs == IF screen \in Dashboards THEN Keys ELSE Zones

Publish(e) ==
    /\ e.of \in Theirs /\ e \notin sent /\ sent' = sent \cup {e}
    /\ changes < Bound /\ changes' = changes + 1
    /\ UNCHANGED <<idVars, screen, zone, bot, dns, feed, seen, shown, loads, timer, crossed>>

\* The bot applies an event or drops a record, and DNS follows.
RecordChanges(n) ==
    /\ changes < Bound /\ changes' = changes + 1
    /\ LET of(E) == {e \in E : key(e) = n} IN
       \/ /\ \E E \in {{}} \cup {{e} : e \in of(sent)} : E # of(bot) /\ bot' = (bot \ of(bot)) \cup E
          /\ UNCHANGED dns
       \/ screen = "explorer" /\ of(dns) # of(bot) /\ dns' = (dns \ of(dns)) \cup of(bot) /\ UNCHANGED bot
    /\ UNCHANGED <<idVars, screen, zone, sent, feed, seen, shown, loads, timer, crossed>>

World == (\E e \in Event : Publish(e)) \/ (\E n \in Fqdn : RecordChanges(n))
Views ==
    \/ \E e \in Event : Deliver(e)
    \/ DebounceFires \/ IntervalFires \/ RefreshClicked \/ LookUpAgain
    \/ \E l \in loads : LoadEnds(l)
    \/ \E z \in Zones : SelectZone(z) \/ LookUp(z)
    \/ SwitchUser \/ Reload

Next == World \/ Views

Spec == Init /\ [][Next]_vars

\* Every request is answered or gives up, and the browser runs an interval that is due.
FairSpec ==
    /\ Spec
    /\ WF_vars(\E l \in loads : LoadEnds(l))
    /\ SF_vars(IntervalFires)

----------------------------------------------------------------------------
(* Properties. *)

\* No load is in flight, and no two crossed.
Quiet == loads = {} /\ ~crossed

\* An event that the relays deliver again is shown once, none is dropped while the
\* list has room, and the zone monitor then has the newest record of each name,
\* in whatever order the events came (App.tsx:51-69, zone-monitor.tsx:86-110,
\* record-browser.tsx:168-176).
NewestIsShown ==
    /\ IsInjective(feed)
    /\ screen = "explorer" =>
         /\ Len(feed) = Min({Limit, Cardinality(seen)})
         /\ Cardinality(seen) <= Limit =>
              \A e \in seen : \E r \in relayRecords(e.of) : key(r) = key(e) /\ r.at >= e.at

\* Where loads did not cross, the rows are of the zone, name or user that the screen
\* is about, although nothing cancels a load (a lookup's excepted); and the
\* frontend's have every event that was delivered to it, or a newer one
\* (app/dashboard/page.tsx:48-127, pages/Dashboard.tsx:117-150,
\* app/profile/page.tsx:39-63, zone-monitor.tsx:463-499).
RowsAreCurrent ==
    Quiet /\ api.st = "ok" /\ (subject # None \/ screen = "browser") =>
        /\ api.of = subject
        /\ answer.st = "ok" => answer.of = subject
        /\ screen = "frontend" /\ "relays" \in api.by =>
             \A e \in seen : e.of = subject =>
                \E r \in api.recs : key(r) = key(e) /\ r.at >= e.at

\* Where loads did not cross, a screen says "No domains yet", "No records found" or
\* "Available" of whom or what it has looked up: the registrar and a profile at any
\* time, the frontend and the search once they have ended (pages/Dashboard.tsx:293-308,
\* app/dashboard/page.tsx:344-376, profile/page.tsx:168-180, search/page.tsx:144-186).
NoneIsLookedUp ==
    /\ ~crossed /\ screen = "registrar" /\ registrar_shows = "none" => api.of = subject
    /\ ~crossed /\ screen = "lookup" /\ profile_shows = "none" => api.of = subject
    /\ Quiet /\ screen = "frontend" /\ frontend_shows = "none" => api.of = subject
    /\ Quiet /\ screen = "lookup" /\ search_shows = "available" => api.of = subject
    /\ screen = "browser" /\ browser_shows = "none" => api.st = "ok"

\* What a screen shows, or says there is none of, is of its subject.
ShownIsOfSubject == RowsAreCurrent /\ NoneIsLookedUp

\* The zone monitor reports "missing from DNS" only of a name it did ask DNS for,
\* while they are few enough to ask for all; and where it reports full agreement
\* the three sources have the same (zone-monitor.tsx:143-261, 336).
VerdictIsRight ==
    screen = "explorer" /\ Quiet /\ api.st = "ok" /\ answer.st = "ok" =>
        /\ Cardinality(answer.asked) < MaxNames =>
             \A e \in comparison.dnsMissing : key(e) \in answer.asked /\ e \notin answer.recs
        /\ Full => relayRecords(zone) = api.recs /\ api.recs = answer.recs

\* When the sources have come to rest, the record browser shows what they have,
\* unless one of them does not answer (record-browser.tsx:73-166).
BrowserCatchesUp ==
    screen = "browser" => <>[](api.by # Sources \/ api.recs = bot \cup latest(sent))

\* Who is signed in with a generated key, or (where none was ever generated) with a
\* remembered one, still is after a reload (registrar IdentityContext.tsx:52-105,
\* frontend identity.ts:20-43).
SurvivesReload ==
    [][Reload =>
        /\ session.how \in {"ephemeral", "stored"} => session' = session
        /\ session.how = "nsec" /\ session.key \in accounts /\ stored = None
             => session' = session]_vars

\* A remembered account is signed in again by a reload, as the comment at
\* IdentityContext.tsx:82 has it: the ephemeral key is what it falls through to.
AccountIsRestored ==
    [][Reload => (session.how = "nsec" /\ session.key \in accounts => session' = session)]_vars
=============================================================================
