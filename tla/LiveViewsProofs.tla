--------------------------- MODULE LiveViewsProofs ---------------------------
(***************************************************************************)
(* Proofs about LiveViews, for every set of keys, zones and names, any     *)
(* length of the list of events, any number of names asked for and any     *)
(* number of loads in flight.                                              *)
(***************************************************************************)
EXTENDS LiveViews, FiniteSetTheorems, WellFoundedInduction, TLAPS

LoadRec == [of: Zones \cup Keys \cup {None}, stage: {"api", "dns"}, bot: SUBSET Event,
            relays: SUBSET Event, asked: SUBSET Fqdn, cancellable: BOOLEAN]

\* The types, as the provers need them.
TypeInv ==
    /\ screen \in Screens /\ zone \in Zones \cup {None}
    /\ sent \subseteq Event /\ bot \subseteq Event /\ dns \subseteq Event
    /\ IsFiniteSet(bot)
    /\ feed \in Seq(Event) /\ Len(feed) <= Limit /\ seen \subseteq sent
    /\ api \in Got /\ answer \in Got
    /\ loads \subseteq LoadRec /\ \A l \in loads : l.stage = "api" => IsFiniteSet(l.bot)
    /\ timer \in BOOLEAN /\ crossed \in BOOLEAN
    /\ changes \in 0..Bound

\* How somebody signed in says where the key is kept.
SignedInv ==
    /\ IdTypeOK
    /\ screen \notin Dashboards => session = NoSession
    /\ screen = "registrar" =>
         /\ session.how # "stored"
         /\ session.how = "ephemeral" => stored = session.key
         /\ session.how = "nsec" => last = session.key
    /\ screen = "frontend" =>
         /\ session.how \in {"none", "stored"}
         /\ session.how = "stored" => stored = session.key

\* The list has no event twice, and is what the explorer has seen as long as that fits.
FeedInv ==
    /\ IsInjective(feed)
    /\ screen = "explorer" =>
         /\ IsFiniteSet(seen) /\ ToSet(feed) \subseteq seen
         /\ Len(feed) = Min({Limit, Cardinality(seen)})
         /\ Cardinality(seen) <= Limit => ToSet(feed) = seen

\* R has the record of each event of s that was received, or a newer one.
Covers(R, s) == \A e \in seen : e.of = s => \E r \in R : key(r) = key(e) /\ r.at >= e.at

\* While fewer names than the limit were asked for, the bot's are among them.
AskedAll(asked) == Cardinality(asked) < MaxNames => keys(api.recs) \subseteq asked

ExplorerInv == screen = "explorer" =>
    /\ zone \in Zones /\ \A l \in loads : ~l.cancellable
    /\ ~crossed =>
         /\ \A l, m \in loads : l = m
         /\ \A l \in loads : l.of = zone /\ (l.stage = "dns" => AskedAll(l.asked))
         /\ api.st = "ok" => api.of = zone
         /\ answer.st = "ok" => answer.of = zone
         /\ loads = {} /\ answer.st = "ok" => AskedAll(answer.asked)

BrowserInv == screen = "browser" =>
    /\ zone = None /\ api.of = None /\ api.st \in {"idle", "ok"}
    /\ \A l \in loads : l.of = None

LookupInv == screen = "lookup" =>
    /\ api.st # "error" /\ (loads = {} => api.st = "ok")
    /\ \A l \in loads : l.cancellable => l.of = zone
    /\ ~crossed => (\A l \in loads : l.of = zone) /\ (api.st = "ok" => api.of = zone)

RegistrarInv == screen = "registrar" =>
    /\ \A l \in loads : ~l.cancellable
    /\ timer => subject # None
    /\ subject # None => api.st # "idle"
    /\ ~crossed /\ subject # None =>
         (\A l \in loads : l.of = subject) /\ (api.st = "ok" => api.of = subject)

FrontendInv == screen = "frontend" =>
    /\ \A l \in loads : ~l.cancellable
    /\ api.st \in {"idle", "ok"}
    /\ subject = None => api.st = "idle" /\ loads = {}
    /\ ~crossed /\ subject # None =>
         /\ \A l \in loads : l.of = subject /\ Covers(l.relays, subject)
         /\ loads = {} /\ api.st = "ok" =>
              api.of = subject /\ ("relays" \in api.by => Covers(api.recs, subject))

\* Only the explorer asks DNS, and only the registrar has a timer.
OwnInv ==
    /\ screen # "explorer" => answer = Blank
    /\ timer => screen = "registrar"
    /\ screen \in Dashboards => \A e \in sent : e.of \in Keys

ViewsInv == TypeInv /\ SignedInv /\ FeedInv /\ OwnInv /\ ExplorerInv /\ BrowserInv
            /\ LookupInv /\ RegistrarInv /\ FrontendInv

-----------------------------------------------------------------------------
(* The operators. *)

LEMMA MinOf == \A m, n \in Nat : Min({m, n}) = IF m <= n THEN m ELSE n
<1> TAKE m, n \in Nat
<1> DEFINE k == IF m <= n THEN m ELSE n
<1>1. k \in {m, n} /\ \A y \in {m, n} : k <= y
  OBVIOUS
<1>2. \A x \in {m, n} : (\A y \in {m, n} : x <= y) => x = k
  OBVIOUS
<1> QED BY <1>1, <1>2 DEF Min

\* Of some events one is the newest: an event has a bounded time.
LEMMA Newest ==
    ASSUME NEW X, X # {}, X \subseteq Event
    PROVE  \E r \in X : \A e \in X : e.at <= r.at
<1> DEFINE T == {MaxAt - e.at : e \in X}
<1>0. \A e \in X : e.at \in 1..MaxAt
  BY DEF Event
<1>1. T \subseteq Nat /\ T # {}
  BY <1>0, ViewsAssumption
<1>2. PICK n \in T : \A m \in T : ~(<<m, n>> \in OpToRel(<, Nat))
  BY <1>1, NatLessThanWellFounded, WFMin
<1>3. \A m \in T : ~(m < n)
  BY <1>1, <1>2 DEF OpToRel
<1>4. PICK r \in X : n = MaxAt - r.at
  OBVIOUS
<1>5. \A e \in X : ~(MaxAt - e.at < MaxAt - r.at)
  BY <1>3, <1>4
<1> QED BY <1>0, <1>4, <1>5, ViewsAssumption

\* Of each event, latest keeps the record of its name that is as new or newer.
LEMMA LatestCovers ==
    ASSUME NEW E \in SUBSET Event, NEW e \in E
    PROVE  \E r \in latest(E) : key(r) = key(e) /\ r.at >= e.at
<1> DEFINE X == {f \in E : key(f) = key(e)}
<1>1. X # {} /\ X \subseteq Event
  OBVIOUS
<1> HIDE DEF X
<1>2. PICK r \in X : \A f \in X : f.at <= r.at
  BY <1>1, Newest
<1> USE DEF X
<1>3. r \in E /\ key(r) = key(e) /\ \A f \in E : key(f) = key(r) => f.at <= r.at
  BY <1>2
<1>4. r \in latest(E)
  BY <1>3 DEF latest
<1>5. e.at <= r.at /\ e.at \in Int /\ r.at \in Int
  BY <1>2, <1>3, ViewsAssumption DEF Event
<1> QED BY <1>3, <1>4, <1>5

LEMMA Abouts ==
    /\ \A E, s : About(E, s) \subseteq E /\ latest(E) \subseteq E
    /\ \A E, e, s : e \in E /\ e.of = s => e \in About(E, s)
BY DEF About, latest

\* Adding an event puts it before those that were in the list, up to the limit.
LEMMA Adding ==
    ASSUME feed \in Seq(Event), Len(feed) <= Limit, NEW e \in Event
    PROVE  /\ Add(e) \in Seq(Event)
           /\ Len(Add(e)) = IF Len(feed) < Limit THEN Len(feed) + 1 ELSE Limit
           /\ Add(e)[1] = e
           /\ \A i \in 2..Len(Add(e)) : Add(e)[i] = feed[i - 1]
<1> USE ViewsAssumption
<1> DEFINE n == IF Len(feed) < Limit THEN Len(feed) + 1 ELSE Limit
           s == <<e>> \o feed
<1>1. Len(feed) \in Nat /\ Limit \in Nat /\ Limit >= 1
  OBVIOUS
<1>2. Min({Limit, Len(feed) + 1}) = n
  BY <1>1, MinOf
<1>3. s \in Seq(Event) /\ Len(s) = Len(feed) + 1
  OBVIOUS
<1>4. s[1] = e /\ \A i \in 2..Len(feed) + 1 : s[i] = feed[i - 1]
  OBVIOUS
<1>5. n \in 1..Len(feed) + 1
  BY <1>1
<1>6. Add(e) = SubSeq(s, 1, n)
  BY <1>2 DEF Add
<1> HIDE DEF s, n
<1>7. Len(SubSeq(s, 1, n)) = n /\ \A i \in 1..n : SubSeq(s, 1, n)[i] = s[i]
  BY <1>1, <1>3, <1>5
<1>8. SubSeq(s, 1, n) \in Seq(Event)
  BY <1>1, <1>3, <1>5
<1> QED BY <1>1, <1>3, <1>4, <1>5, <1>6, <1>7, <1>8 DEF n

\* What is put before a list is in it, with what still fits.
LEMMA Prepended ==
    ASSUME NEW f \in Seq(Event), NEW s \in Seq(Event), NEW e,
           s[1] = e, \A i \in 2..Len(s) : s[i] = f[i - 1],
           Len(s) >= 1, Len(s) <= Len(f) + 1
    PROVE  /\ ToSet(s) \subseteq ToSet(f) \cup {e}
           /\ Len(s) = Len(f) + 1 => ToSet(s) = ToSet(f) \cup {e}
           /\ IsInjective(f) /\ e \notin ToSet(f) => IsInjective(s)
<1>1. Len(s) \in Nat /\ Len(f) \in Nat /\ DOMAIN s = 1..Len(s) /\ DOMAIN f = 1..Len(f)
  OBVIOUS
<1>2. \A i \in 2..Len(s) : i - 1 \in DOMAIN f /\ s[i] = f[i - 1] /\ s[i] \in ToSet(f)
  BY <1>1 DEF ToSet
<1>3. ToSet(s) \subseteq ToSet(f) \cup {e}
  <2>1. \A i \in DOMAIN s : i = 1 \/ i \in 2..Len(s)
    BY <1>1
  <2> QED BY <1>2, <2>1 DEF ToSet
<1>4. ASSUME Len(s) = Len(f) + 1 PROVE ToSet(f) \cup {e} \subseteq ToSet(s)
  <2>1. 1 \in DOMAIN s
    BY <1>1
  <2>2. ASSUME NEW j \in DOMAIN f PROVE f[j] \in ToSet(s)
    <3>1. j + 1 \in DOMAIN s /\ j + 1 \in 2..Len(s) /\ (j + 1) - 1 = j
      BY <1>1, <1>4
    <3>2. s[j + 1] = f[j]
      BY <3>1
    <3> QED BY <3>1, <3>2 DEF ToSet
  <2> QED BY <2>1, <2>2 DEF ToSet
<1>5. ASSUME IsInjective(f), e \notin ToSet(f) PROVE IsInjective(s)
  <2> SUFFICES ASSUME NEW i \in DOMAIN s, NEW j \in DOMAIN s, s[i] = s[j] PROVE i = j
    BY DEF IsInjective
  <2>1. CASE i = 1 \/ j = 1
    BY <1>1, <1>2, <1>5, <2>1
  <2>2. CASE i # 1 /\ j # 1
    <3>1. i - 1 \in DOMAIN f /\ j - 1 \in DOMAIN f /\ f[i - 1] = f[j - 1]
      BY <1>1, <1>2, <2>2
    <3>2. i - 1 = j - 1
      BY <1>5, <3>1 DEF IsInjective
    <3> QED BY <1>1, <3>2
  <2> QED BY <2>1, <2>2
<1> QED BY <1>3, <1>4, <1>5

LEMMA Adds ==
    ASSUME feed \in Seq(Event), Len(feed) <= Limit, NEW e \in Event
    PROVE  /\ ToSet(Add(e)) \subseteq ToSet(feed) \cup {e}
           /\ Len(feed) < Limit => ToSet(Add(e)) = ToSet(feed) \cup {e}
           /\ IsInjective(feed) /\ e \notin ToSet(feed) => IsInjective(Add(e))
<1>1. Len(feed) \in Nat /\ Limit \in Nat /\ Limit >= 1
  BY ViewsAssumption
<1>2. /\ Len(Add(e)) >= 1 /\ Len(Add(e)) <= Len(feed) + 1
      /\ Len(feed) < Limit => Len(Add(e)) = Len(feed) + 1
  BY <1>1, Adding
<1>3. /\ Add(e) \in Seq(Event) /\ Add(e)[1] = e
      /\ \A i \in 2..Len(Add(e)) : Add(e)[i] = feed[i - 1]
  BY Adding
<1> QED BY <1>2, <1>3, Prepended

-----------------------------------------------------------------------------
(* Who is signed in, and the types. *)

\* Only SwitchUser and Reload change who is signed in, and nothing the screen.
LEMMA Comings == [Next]_vars => screen' = screen /\ (UNCHANGED idVars \/ SwitchUser \/ Reload)
<1> SUFFICES ASSUME Next \/ UNCHANGED vars
             PROVE  screen' = screen /\ (UNCHANGED idVars \/ SwitchUser \/ Reload)
  OBVIOUS
<1> DEFINE G == screen' = screen /\ (UNCHANGED idVars \/ SwitchUser \/ Reload)
<1>1. CASE World
  BY <1>1 DEF World, Publish, RecordChanges
<1>2. ASSUME NEW e \in Event, Deliver(e) PROVE G
  BY <1>2 DEF Deliver
<1>3. CASE DebounceFires \/ IntervalFires \/ RefreshClicked \/ LookUpAgain
  BY <1>3 DEF DebounceFires, IntervalFires, RefreshClicked, LookUpAgain
<1>4. ASSUME NEW l \in loads, LoadEnds(l) PROVE G
  BY <1>4 DEF LoadEnds
<1>5. ASSUME NEW z \in Zones, SelectZone(z) \/ LookUp(z) PROVE G
  BY <1>5 DEF SelectZone, LookUp
<1>6. CASE SwitchUser \/ Reload
  BY <1>6 DEF SwitchUser, Reload
<1>7. CASE UNCHANGED vars
  BY <1>7 DEF vars, views
<1> QED BY <1>1, <1>2, <1>3, <1>4, <1>5, <1>6, <1>7 DEF Next, Views

LEMMA SignedKept == TypeInv /\ SignedInv /\ [Next]_vars => SignedInv'
<1> SUFFICES ASSUME TypeInv, SignedInv, [Next]_vars PROVE SignedInv'
  OBVIOUS
<1> USE IdentityAssumption
    DEF SignedInv, IdTypeOK, Dashboards, NoSession
<1>1. CASE UNCHANGED idVars /\ screen' = screen
  BY <1>1 DEF idVars, idStorage
<1>2. CASE screen = "registrar" /\ RegistrarIdentity /\ screen' = screen
  <2> USE <1>2 DEF SignsIn, Signed, idStorage
  <2>1. CASE loginWithExtension
    BY <2>1 DEF loginWithExtension
  <2>2. ASSUME ExtensionAnswers PROVE SignedInv'
    <3>1. ASSUME NEW k \in Own, SignsIn(k, "extension") PROVE SignedInv'
      BY <2>2, <3>1 DEF ExtensionAnswers
    <3>2. ASSUME UNCHANGED <<last, session>> PROVE SignedInv'
      BY <2>2, <3>2 DEF ExtensionAnswers
    <3> QED BY <2>2, <3>1, <3>2 DEF ExtensionAnswers
  <2>3. CASE logout
    BY <2>3 DEF logout
  <2>4. ASSUME NEW k \in Keys, NEW r \in BOOLEAN, loginWithNsec(k, r) PROVE SignedInv'
    BY <2>4 DEF loginWithNsec
  <2>5. ASSUME NEW k \in Keys, generateEphemeral(k) PROVE SignedInv'
    BY <2>5 DEF generateEphemeral
  <2>6. ASSUME NEW k \in Keys, loginWithSavedAccount(k) PROVE SignedInv'
    BY <2>6 DEF loginWithSavedAccount
  <2>7. ASSUME NEW k \in Keys, removeSavedAccount(k) PROVE SignedInv'
    BY <2>7 DEF removeSavedAccount
  <2> QED BY <2>1, <2>2, <2>3, <2>4, <2>5, <2>6, <2>7 DEF RegistrarIdentity
<1>3. CASE screen = "registrar" /\ RegistrarReloads /\ screen' = screen
  BY <1>3 DEF RegistrarReloads, restored, Signed, idStorage
<1>4. CASE screen = "frontend" /\ FrontendIdentity /\ screen' = screen
  BY <1>4 DEF FrontendIdentity, importIdentity, resetIdentity, Keeps, Signed
<1>5. CASE screen = "frontend" /\ getOrCreateIdentity /\ screen' = screen
  <2> USE <1>5 DEF getOrCreateIdentity, Keeps, Signed
  <2>1. CASE stored # None
    BY <2>1
  <2>2. CASE stored = None
    BY <2>2
  <2> QED BY <2>1, <2>2
<1>6. screen' = screen /\ (UNCHANGED idVars \/ SwitchUser \/ Reload)
  BY Comings
<1> QED BY <1>1, <1>2, <1>3, <1>4, <1>5, <1>6 DEF SwitchUser, Reload

LEMMA Subjects ==
    ASSUME TypeInv, SignedInv
    PROVE  /\ subject \in Zones \cup Keys \cup {None}
           /\ screen \in Dashboards => subject = session.key
           /\ session.key \in Keys \cup {None}
           /\ session.key = None => session = NoSession
BY IdentityAssumption DEF TypeInv, SignedInv, IdTypeOK, subject, NoSession

\* A load that starts, and those that go on.
LEMMA Started ==
    ASSUME TypeInv, NEW s \in Zones \cup Keys \cup {None}, NEW c \in BOOLEAN
    PROVE  /\ NewLoad(s, c) \in LoadRec /\ IsFiniteSet(NewLoad(s, c).bot)
           /\ NewLoad(s, c).of = s /\ NewLoad(s, c).stage = "api" /\ NewLoad(s, c).cancellable = c
           /\ NewLoad(s, c).relays = latest(About(sent, s))
<1>1. About(bot, s) \in SUBSET Event /\ IsFiniteSet(About(bot, s))
  BY Abouts, FS_Subset DEF TypeInv
<1>2. latest(About(sent, s)) \in SUBSET Event
  BY Abouts DEF TypeInv
<1> QED BY <1>1, <1>2 DEF NewLoad, LoadRec

LEMMA Loads ==
    ASSUME TypeInv, NEW s \in Zones \cup Keys \cup {None}, NEW c \in BOOLEAN,
           NEW on \in SUBSET loads, Load(s, on, c)
    PROVE  /\ loads' \subseteq LoadRec /\ \A l \in loads' : l.stage = "api" => IsFiniteSet(l.bot)
           /\ crossed' \in BOOLEAN
BY Started DEF TypeInv, Load

LEMMA OkTypes ==
    ASSUME NEW l \in LoadRec, NEW by \in SUBSET Sources
    PROVE  /\ Ok(l, by) \in Got /\ Ok(l, by).st = "ok" /\ Ok(l, by).of = l.of
           /\ Ok(l, by).recs = merged(l, by) /\ merged(l, by) \subseteq Event
           /\ Ok(l, by).by = by
BY DEF LoadRec, Ok, merged, Got

LEMMA Blanks == Blank \in Got /\ Waiting \in Got /\ \A g \in Got : [g EXCEPT !.st = "loading"] \in Got
BY DEF Blank, Waiting, Got

\* What a step of a load, or a new one, has to keep where the list and the sources stay.
LEMMA TypesKept ==
    ASSUME TypeInv, screen' = screen, zone' = zone, UNCHANGED <<sources, feed, seen, changes>>,
           api' \in Got, answer' \in Got, timer' \in BOOLEAN, crossed' \in BOOLEAN,
           loads' \subseteq LoadRec, \A l \in loads' : l.stage = "api" => IsFiniteSet(l.bot)
    PROVE  TypeInv'
BY DEF TypeInv, sources, Bound, Dashboards

LEMMA WorldTypes == TypeInv /\ World => TypeInv'
<1> SUFFICES ASSUME TypeInv, World PROVE TypeInv'
  OBVIOUS
<1> USE ViewsAssumption DEF TypeInv
<1>1. changes \in Nat /\ Bound \in Nat /\ changes <= Bound
  BY DEF Bound
<1>2. ASSUME NEW e \in Event, Publish(e) PROVE TypeInv'
  BY <1>1, <1>2 DEF Publish, shown, Bound
<1>3. ASSUME NEW n \in Fqdn, RecordChanges(n) PROVE TypeInv'
  <2> DEFINE of(E) == {e \in E : key(e) = n}
  <2>1. /\ screen' = screen /\ changes < Bound /\ changes' = changes + 1
        /\ UNCHANGED <<zone, sent, feed, seen, api, answer, loads, timer, crossed>>
    BY <1>3 DEF RecordChanges, shown
  <2>2. bot' \subseteq Event /\ dns' \subseteq Event /\ IsFiniteSet(bot')
    <3>1. CASE bot' = bot
      BY <1>3, <3>1 DEF RecordChanges
    <3>2. ASSUME bot' # bot
          PROVE  dns' = dns /\ \E E \in {{}} \cup {{e} : e \in of(sent)} : bot' = (bot \ of(bot)) \cup E
      BY <1>3, <3>2 DEF RecordChanges
    <3>3. IsFiniteSet(bot \ of(bot))
      BY FS_Subset
    <3>4. \A e : IsFiniteSet((bot \ of(bot)) \cup {e})
      BY <3>3, FS_AddElement
    <3> QED BY <3>1, <3>2, <3>3, <3>4
  <2> QED BY <1>1, <2>1, <2>2 DEF Bound
<1> QED BY <1>2, <1>3 DEF World

LEMMA DeliverTypes ==
    ASSUME TypeInv, SignedInv, NEW e \in Event, Deliver(e)
    PROVE  TypeInv'
<1> USE DEF TypeInv
<1>1. /\ e \in sent /\ screen' = screen
      /\ UNCHANGED <<zone, sent, bot, dns, api, answer, changes>>
  BY DEF Deliver, sources, shown
<1>2. CASE explorer_event(e) \/ browser_event(e)
  <2>1. Add(e) \in Seq(Event) /\ Len(Add(e)) <= Limit
    BY Adding, ViewsAssumption
  <2> QED BY <1>1, <1>2, <2>1 DEF explorer_event, browser_event, Bound
<1>3. CASE frontend_event(e)
  <2>1. /\ loads' \subseteq LoadRec /\ \A l \in loads' : l.stage = "api" => IsFiniteSet(l.bot)
        /\ crossed' \in BOOLEAN
    BY <1>3, Subjects, Loads DEF frontend_event
  <2> QED BY <1>1, <1>3, <2>1 DEF frontend_event, Bound
<1>4. CASE registrar_event(e)
  BY <1>1, <1>4 DEF registrar_event, Bound
<1> QED BY <1>2, <1>3, <1>4 DEF Deliver

LEMMA LoadEndTypes ==
    ASSUME TypeInv, SignedInv, NEW l \in loads, LoadEnds(l)
    PROVE  TypeInv'
<1>1. l \in LoadRec /\ api \in Got /\ answer \in Got
  BY DEF TypeInv
<1>2. /\ screen' = screen /\ zone' = zone /\ UNCHANGED <<sources, feed, seen, changes>>
      /\ timer' = timer /\ crossed' = crossed
  BY DEF LoadEnds
<1>3. timer' \in BOOLEAN /\ crossed' \in BOOLEAN
  BY <1>2 DEF TypeInv
<1>4. loads \subseteq LoadRec /\ \A m \in loads : m.stage = "api" => IsFiniteSet(m.bot)
  BY DEF TypeInv
<1>5. \A by \in SUBSET Sources : Ok(l, by) \in Got /\ merged(l, by) \subseteq Event
  BY <1>1, OkTypes
<1>6. \A by \in SUBSET Sources : /\ [Ok(l, by) EXCEPT !.st = "error"] \in Got
                                 /\ [Ok(l, by) EXCEPT !.st = "ok"] \in Got
                                 /\ [Ok(l, by) EXCEPT !.asked = l.asked] \in Got
  BY <1>1, <1>5 DEF Got, LoadRec
<1>7. ASSUME fetchRecords(l) \/ frontend_loadRecords(l) \/ load(l) \/ loadRecords(l),
             loads' = loads \ {l}, UNCHANGED answer
      PROVE  TypeInv'
  <2>1. api' \in Got
    BY <1>1, <1>5, <1>7 DEF fetchRecords, frontend_loadRecords, load, loadRecords, Got, Sources
  <2> QED BY <1>1, <1>2, <1>3, <1>4, <1>7, <2>1, TypesKept
<1>8. CASE refresh_api(l)
  <2>1. PICK by \in {{}, {"bot"}}, names \in SUBSET Fqdn :
          /\ api' = [Ok(l, by) EXCEPT !.st = IF by = {} THEN "error" ELSE "ok"]
          /\ loads' = (loads \ {l}) \cup
               {[l EXCEPT !.stage = "dns", !.bot = {e \in dns : key(e) \in names}, !.asked = names]}
    <3>1. \A R, A : R \subseteq Event /\ A \subseteq Event => namesAsked(R, A) \subseteq SUBSET Fqdn
      BY DEF namesAsked, keys, key, Fqdn, Event
    <3>2. relayRecords(subject) \subseteq Event
      BY Abouts DEF relayRecords, TypeInv, ToSet
    <3>3. \A b \in {{}, {"bot"}} : merged(l, b) \subseteq Event
      BY <1>5 DEF Sources
    <3> QED BY <1>8, <3>1, <3>2, <3>3 DEF refresh_api
  <2>2. api' \in Got
    BY <1>5, <1>6, <2>1 DEF Sources
  <2>3. \A n \in SUBSET Fqdn, E \in SUBSET Event :
          /\ [l EXCEPT !.stage = "dns", !.bot = E, !.asked = n] \in LoadRec
          /\ [l EXCEPT !.stage = "dns", !.bot = E, !.asked = n].stage = "dns"
    BY <1>1 DEF LoadRec
  <2>4. \A m \in loads' : m \in LoadRec /\ (m.stage = "api" => IsFiniteSet(m.bot))
    <3>1. {e \in dns : key(e) \in names} \in SUBSET Event
      BY DEF TypeInv
    <3> QED BY <1>4, <2>1, <2>3, <3>1
  <2>5. answer' \in Got
    BY <1>1, <1>8 DEF refresh_api
  <2> QED BY <1>2, <1>3, <2>2, <2>4, <2>5, TypesKept
<1>9. CASE refresh_dns(l)
  <2>1. answer' \in Got
    BY <1>5, <1>6, <1>9 DEF refresh_dns, Sources
  <2>2. loads' \subseteq loads /\ api' \in Got
    BY <1>1, <1>9 DEF refresh_dns
  <2> QED BY <1>2, <1>3, <1>4, <2>1, <2>2, TypesKept
<1> QED BY <1>7, <1>8, <1>9 DEF LoadEnds

LEMMA AskTypes ==
    ASSUME TypeInv, SignedInv,
           DebounceFires \/ IntervalFires \/ RefreshClicked \/ LookUpAgain
    PROVE  TypeInv'
<1>1. subject \in Zones \cup Keys \cup {None} /\ zone \in Zones \cup {None}
  BY Subjects DEF TypeInv
<1>2. api \in Got /\ answer \in Got /\ timer \in BOOLEAN
  BY DEF TypeInv
<1>3. \E s \in Zones \cup Keys \cup {None} : Load(s, loads, FALSE)
  BY <1>1 DEF DebounceFires, IntervalFires, RefreshClicked, LookUpAgain, refresh
<1>4. /\ loads' \subseteq LoadRec /\ \A l \in loads' : l.stage = "api" => IsFiniteSet(l.bot)
      /\ crossed' \in BOOLEAN
  BY <1>3, Loads
<1>5. /\ screen' = screen /\ zone' = zone /\ UNCHANGED <<sources, feed, seen, changes>>
      /\ timer' \in BOOLEAN
  BY <1>2 DEF DebounceFires, IntervalFires, RefreshClicked, LookUpAgain
<1>6. api' \in Got /\ answer' \in Got
  BY <1>2, Blanks DEF DebounceFires, IntervalFires, RefreshClicked, LookUpAgain, refresh, shown
<1> QED BY <1>4, <1>5, <1>6, TypesKept

LEMMA SelectTypes ==
    ASSUME TypeInv, NEW z \in Zones, SelectZone(z) \/ LookUp(z)
    PROVE  TypeInv'
<1>1. api \in Got /\ answer \in Got
  BY DEF TypeInv
<1>2. api' \in Got /\ answer' \in Got
  BY <1>1, Blanks DEF SelectZone, LookUp, refresh
<1>3. \E on \in SUBSET loads, c \in BOOLEAN : Load(z, on, c)
  BY DEF SelectZone, LookUp, refresh
<1>4. /\ loads' \subseteq LoadRec /\ \A l \in loads' : l.stage = "api" => IsFiniteSet(l.bot)
      /\ crossed' \in BOOLEAN
  BY <1>3, Loads
<1> QED BY <1>2, <1>4 DEF TypeInv, SelectZone, LookUp, sources, Bound

LEMMA UserTypes ==
    ASSUME TypeInv, SignedInv, SignedInv', SwitchUser \/ Reload
    PROVE  TypeInv'
<1>1. session'.key \in Keys \cup {None}
  BY IdentityAssumption DEF SignedInv, IdTypeOK, NoSession
<1>2. /\ screen' = screen /\ UNCHANGED <<zone, sent, bot, dns, feed, answer>>
      /\ changes < Bound /\ changes' = changes + 1
  BY DEF SwitchUser, Reload, sources
<1>3. api \in Got /\ timer \in BOOLEAN /\ crossed \in BOOLEAN /\ seen \subseteq sent
  BY DEF TypeInv
<1>4. seen' \subseteq sent'
  BY <1>2, <1>3 DEF SwitchUser, Reload
<1>5. changes' \in 0..Bound'
  BY <1>2, ViewsAssumption DEF TypeInv, Bound
<1> DEFINE G == /\ loads' \subseteq LoadRec
                /\ \A l \in loads' : l.stage = "api" => IsFiniteSet(l.bot)
                /\ crossed' \in BOOLEAN /\ timer' \in BOOLEAN /\ api' \in Got
<1>6. G
  <2>1. CASE Reload
    <3>1. loads' = {} \/ loads' = {NewLoad(session'.key, FALSE)}
      BY <2>1 DEF Reload
    <3>2. /\ NewLoad(session'.key, FALSE) \in LoadRec
          /\ IsFiniteSet(NewLoad(session'.key, FALSE).bot)
      BY <1>1, Started
    <3> QED BY <2>1, <3>1, <3>2, Blanks DEF Reload
  <2>2. ASSUME SwitchUser, session'.key \in {None, session.key} PROVE G
    BY <1>3, <2>2 DEF SwitchUser, Follow, TypeInv
  <2>3. ASSUME SwitchUser, session'.key \notin {None, session.key} PROVE G
    <3>1. Load(session'.key, loads, FALSE) /\ api' = Fetching
      BY <2>3 DEF SwitchUser, Follow
    <3>2. timer' \in BOOLEAN
      BY <1>3, <2>3 DEF SwitchUser, Follow
    <3>3. api' \in Got
      BY <1>3, <3>1, Blanks DEF Fetching
    <3> QED BY <1>1, <3>1, <3>2, <3>3, Loads
  <2> QED BY <2>1, <2>2, <2>3
<1> QED BY <1>2, <1>4, <1>5, <1>6 DEF TypeInv

LEMMA TypesHold == TypeInv /\ SignedInv /\ [Next]_vars => TypeInv'
<1> SUFFICES ASSUME TypeInv, SignedInv, Next \/ UNCHANGED vars PROVE TypeInv'
  OBVIOUS
<1>1. SignedInv'
  BY SignedKept
<1>2. CASE UNCHANGED vars
  BY <1>2 DEF TypeInv, vars, views, sources, shown, Bound
<1> QED BY <1>1, <1>2, WorldTypes, DeliverTypes, LoadEndTypes, AskTypes, SelectTypes, UserTypes
        DEF Next, Views

-----------------------------------------------------------------------------
(* The list of events, and what belongs to one screen only. *)

LEMMA FeedKept == TypeInv /\ FeedInv /\ [Next]_vars => FeedInv'
<1> SUFFICES ASSUME TypeInv, FeedInv, Next \/ UNCHANGED vars PROVE FeedInv'
  OBVIOUS
<1>1. ASSUME UNCHANGED <<screen, feed>>, screen = "explorer" => seen' = seen PROVE FeedInv'
  BY <1>1 DEF FeedInv
<1>2. ASSUME NEW e \in Event, explorer_event(e), screen' = screen PROVE FeedInv'
  <2>1. /\ screen = "explorer" /\ e \notin seen /\ IsInjective(feed)
        /\ IsFiniteSet(seen) /\ ToSet(feed) \subseteq seen
        /\ Len(feed) = Min({Limit, Cardinality(seen)})
        /\ Cardinality(seen) <= Limit => ToSet(feed) = seen
    BY <1>2 DEF explorer_event, FeedInv
  <2>2. feed' = Add(e) /\ seen' = seen \cup {e}
    BY <1>2 DEF explorer_event
  <2>3. IsFiniteSet(seen') /\ Cardinality(seen') = Cardinality(seen) + 1
    BY <2>1, <2>2, FS_AddElement
  <2>4. Cardinality(seen) \in Nat /\ Len(feed) \in Nat /\ Limit \in Nat
    BY <2>1, FS_CardinalityType, ViewsAssumption DEF TypeInv
  <2>5. Len(feed) = IF Limit <= Cardinality(seen) THEN Limit ELSE Cardinality(seen)
    BY <2>1, <2>4, MinOf
  <2>6. feed \in Seq(Event) /\ Len(feed) <= Limit
    BY DEF TypeInv
  <2>7. Len(feed') = Min({Limit, Cardinality(seen')})
    <3>1. Len(feed') = IF Limit <= Cardinality(seen) + 1 THEN Limit ELSE Cardinality(seen) + 1
      BY <2>2, <2>4, <2>5, <2>6, Adding
    <3> QED BY <2>3, <2>4, <3>1, MinOf
  <2>8. ToSet(feed') \subseteq seen' /\ (Cardinality(seen') <= Limit => ToSet(feed') = seen')
    <3>1. /\ ToSet(feed') \subseteq ToSet(feed) \cup {e}
          /\ Len(feed) < Limit => ToSet(feed') = ToSet(feed) \cup {e}
      BY <2>2, <2>6, Adds
    <3>2. Cardinality(seen') <= Limit => Len(feed) < Limit /\ Cardinality(seen) <= Limit
      BY <2>3, <2>4, <2>5
    <3> QED BY <2>1, <2>2, <3>1, <3>2
  <2>9. IsInjective(feed')
    BY <2>1, <2>2, <2>6, Adds
  <2> QED BY <2>3, <2>7, <2>8, <2>9 DEF FeedInv
<1>3. ASSUME NEW e \in Event, browser_event(e), screen' = screen PROVE FeedInv'
  BY <1>3, Adds DEF browser_event, FeedInv, TypeInv
<1>4. ASSUME NEW e \in Event, Deliver(e) PROVE FeedInv'
  BY <1>1, <1>2, <1>3, <1>4 DEF Deliver, frontend_event, registrar_event
<1>5. CASE World
  BY <1>1, <1>5 DEF World, Publish, RecordChanges
<1>6. CASE DebounceFires \/ IntervalFires \/ RefreshClicked \/ LookUpAgain
  BY <1>1, <1>6 DEF DebounceFires, IntervalFires, RefreshClicked, LookUpAgain
<1>7. ASSUME NEW l \in loads, LoadEnds(l) PROVE FeedInv'
  BY <1>1, <1>7 DEF LoadEnds
<1>8. ASSUME NEW z \in Zones, SelectZone(z) \/ LookUp(z) PROVE FeedInv'
  BY <1>1, <1>8 DEF SelectZone, LookUp
<1>9. CASE SwitchUser \/ Reload
  BY <1>1, <1>9 DEF SwitchUser, Reload
<1>10. CASE UNCHANGED vars
  BY <1>1, <1>10 DEF vars, views
<1> QED BY <1>4, <1>5, <1>6, <1>7, <1>8, <1>9, <1>10 DEF Next, Views

LEMMA OwnKept == TypeInv /\ OwnInv /\ [Next]_vars => OwnInv'
<1> SUFFICES ASSUME TypeInv, OwnInv, Next \/ UNCHANGED vars PROVE OwnInv'
  OBVIOUS
<1> USE DEF OwnInv
<1>1. ASSUME UNCHANGED <<screen, sent>>, screen # "explorer" => answer' = answer,
             timer' => timer \/ screen = "registrar"
      PROVE  OwnInv'
  BY <1>1
<1>2. ASSUME NEW e \in Event, Deliver(e) PROVE OwnInv'
  <2>1. UNCHANGED <<screen, sent, answer>>
    BY <1>2 DEF Deliver, shown, sources
  <2>2. timer' = timer \/ screen = "registrar"
    BY <1>2 DEF Deliver, explorer_event, browser_event, frontend_event, registrar_event
  <2> QED BY <1>1, <2>1, <2>2
<1>3. ASSUME NEW e \in Event, Publish(e) PROVE OwnInv'
  BY <1>3 DEF Publish, Theirs, shown
<1>4. ASSUME NEW n \in Fqdn, RecordChanges(n) PROVE OwnInv'
  BY <1>1, <1>4 DEF RecordChanges, shown
<1>5. CASE DebounceFires \/ IntervalFires \/ RefreshClicked \/ LookUpAgain
  BY <1>1, <1>5 DEF DebounceFires, IntervalFires, RefreshClicked, LookUpAgain, shown, sources
<1>6. ASSUME NEW l \in loads, LoadEnds(l) PROVE OwnInv'
  BY <1>1, <1>6 DEF LoadEnds, refresh_api, refresh_dns, sources
<1>7. ASSUME NEW z \in Zones, SelectZone(z) \/ LookUp(z) PROVE OwnInv'
  BY <1>1, <1>7 DEF SelectZone, LookUp, sources
<1>8. CASE SwitchUser \/ Reload
  BY <1>1, <1>8 DEF SwitchUser, Reload, Follow, sources
<1>9. CASE UNCHANGED vars
  BY <1>1, <1>9 DEF vars, views, sources, shown
<1> QED BY <1>2, <1>3, <1>4, <1>5, <1>6, <1>7, <1>8, <1>9 DEF Next, World, Views

-----------------------------------------------------------------------------
(* The explorer. *)

LEMMA FiniteKeys == \A E : IsFiniteSet(E) => IsFiniteSet(keys(E))
<1> TAKE E
<1> HAVE IsFiniteSet(E)
<1> DEFINE f == [e \in E |-> key(e)]
<1>1. f \in Surjection(E, keys(E))
  BY DEF Surjection, keys
<1> QED BY <1>1, FS_Surjection

LEMMA FiniteFeed == feed \in Seq(Event) => IsFiniteSet(ToSet(feed))
<1> HAVE feed \in Seq(Event)
<1>1. feed \in Surjection(1..Len(feed), ToSet(feed))
  BY DEF Surjection, ToSet
<1>2. IsFiniteSet(1..Len(feed))
  BY FS_Interval
<1> QED BY <1>1, <1>2, FS_Surjection

\* While DNS is asked for fewer names than the limit, it is asked for all.
LEMMA AsksForAll ==
    ASSUME NEW R, NEW A, IsFiniteSet(R), IsFiniteSet(A),
           NEW names \in namesAsked(R, A), Cardinality(names) < MaxNames
    PROVE  keys(A) \subseteq names
<1>1. IsFiniteSet(keys(R \cup A))
  BY FS_Union, FiniteKeys
<1>2. Cardinality(keys(R \cup A)) \in Nat /\ MaxNames \in Nat
  BY <1>1, FS_CardinalityType, ViewsAssumption
<1>3. Cardinality(names) = Min({MaxNames, Cardinality(keys(R \cup A))})
  BY DEF namesAsked
<1>4. Cardinality(names) = Cardinality(keys(R \cup A))
  <2> DEFINE c == Cardinality(keys(R \cup A))
  <2>1. c \in Nat /\ MaxNames \in Nat /\ Cardinality(names) = Min({MaxNames, c})
    BY <1>2, <1>3
  <2> HIDE DEF c
  <2>2. Min({MaxNames, c}) = IF MaxNames <= c THEN MaxNames ELSE c
    BY <2>1, MinOf
  <2>3. Cardinality(names) = c
    BY <2>1, <2>2
  <2> QED BY <2>3 DEF c
<1>5. names \in SUBSET keys(R \cup A)
  BY DEF namesAsked
<1>6. names = keys(R \cup A)
  BY <1>1, <1>4, <1>5, FS_Subset
<1> QED BY <1>6 DEF keys

LEMMA RelaysFinite == TypeInv => IsFiniteSet(relayRecords(subject))
<1> HAVE TypeInv
<1>1. relayRecords(subject) \in SUBSET ToSet(feed)
  BY Abouts DEF relayRecords
<1> QED BY <1>1, FiniteFeed, FS_Subset DEF TypeInv

\* A load of zone z starts, and z is the zone from then on.
LEMMA Refreshes ==
    ASSUME TypeInv, ExplorerInv, screen = "explorer", screen' = screen,
           NEW z \in Zones, zone' = z, refresh(z)
    PROVE  ExplorerInv'
<1>1. /\ loads' = loads \cup {NewLoad(z, FALSE)} /\ api' = Waiting /\ answer' = Waiting
      /\ crossed' = (\E l \in loads : ~l.cancellable)
  BY DEF refresh, Load
<1>2. \A l \in loads : ~l.cancellable
  BY DEF ExplorerInv
<1>3. ~crossed' => loads' = {NewLoad(z, FALSE)}
  BY <1>1, <1>2
<1>4. NewLoad(z, FALSE).of = z /\ NewLoad(z, FALSE).stage = "api" /\ ~NewLoad(z, FALSE).cancellable
  BY Started
<1>5. Waiting.st = "loading"
  BY DEF Waiting, Blank
<1> QED BY <1>1, <1>2, <1>3, <1>4, <1>5 DEF ExplorerInv

LEMMA ExplorerKept ==
    ASSUME TypeInv, OwnInv, ExplorerInv, [Next]_vars
    PROVE  ExplorerInv'
<1>0. screen' = screen
  BY Comings
<1> SUFFICES ASSUME screen = "explorer" PROVE ExplorerInv'
  BY <1>0 DEF ExplorerInv
<1>1. ASSUME UNCHANGED <<zone, loads, crossed, api, answer>> PROVE ExplorerInv'
  BY <1>0, <1>1 DEF ExplorerInv, AskedAll
<1>2. CASE World \/ UNCHANGED vars
  BY <1>1, <1>2 DEF World, Publish, RecordChanges, vars, views, shown
<1>3. ASSUME NEW e \in Event, Deliver(e) PROVE ExplorerInv'
  BY <1>1, <1>3 DEF Deliver, explorer_event, browser_event, frontend_event, registrar_event, shown
<1>4. CASE DebounceFires \/ IntervalFires \/ RefreshClicked \/ LookUpAgain
  <2>1. RefreshClicked
    BY <1>4 DEF DebounceFires, IntervalFires, LookUpAgain, OwnInv
  <2>2. zone' = zone /\ zone \in Zones /\ subject = zone /\ refresh(zone)
    BY <2>1 DEF RefreshClicked, ExplorerInv, subject, Dashboards
  <2> QED BY <1>0, <2>2, Refreshes
<1>5. ASSUME NEW z \in Zones, SelectZone(z) \/ LookUp(z) PROVE ExplorerInv'
  BY <1>0, <1>5, Refreshes DEF SelectZone, LookUp
<1>6. ASSUME NEW l \in loads, refresh_api(l), UNCHANGED <<zone, crossed>> PROVE ExplorerInv'
  <2>0. PICK by \in {{}, {"bot"}} :
          /\ api' = [Ok(l, by) EXCEPT !.st = IF by = {} THEN "error" ELSE "ok"]
          /\ \E names \in namesAsked(relayRecords(subject), merged(l, by)) :
               loads' = (loads \ {l}) \cup
                 {[l EXCEPT !.stage = "dns", !.bot = {e \in dns : key(e) \in names}, !.asked = names]}
    BY <1>6 DEF refresh_api
  <2>1. PICK names \in namesAsked(relayRecords(subject), merged(l, by)) :
          loads' = (loads \ {l}) \cup
            {[l EXCEPT !.stage = "dns", !.bot = {e \in dns : key(e) \in names}, !.asked = names]}
    BY <2>0
  <2>2. l \in LoadRec /\ l.stage = "api" /\ answer' = answer
    BY <1>6 DEF TypeInv, refresh_api
  <2> DEFINE m == [l EXCEPT !.stage = "dns", !.bot = {e \in dns : key(e) \in names}, !.asked = names]
  <2>3. m.of = l.of /\ m.cancellable = l.cancellable /\ m.asked = names
    BY <2>2 DEF LoadRec
  <2>4. api'.of = l.of /\ api'.recs = merged(l, by)
    BY <2>0 DEF Ok
  <2>5. Cardinality(names) < MaxNames => keys(api'.recs) \subseteq names
    <3>1. IsFiniteSet(merged(l, by))
      <4>1. IsFiniteSet(l.bot)
        BY <2>2 DEF TypeInv
      <4>2. merged(l, by) \in {{}, l.bot}
        BY DEF merged
      <4> QED BY <4>1, <4>2, FS_EmptySet
    <3> QED BY <2>1, <2>4, <3>1, RelaysFinite, AsksForAll
  <2>6. ~crossed' => l.of = zone /\ loads' = {m}
    BY <1>6, <2>1 DEF ExplorerInv
  <2>7. \A k \in loads' : ~k.cancellable
    BY <2>1, <2>3 DEF ExplorerInv
  <2>8. m \in loads'
    BY <2>1
  <2> HIDE DEF m
  <2> QED BY <1>0, <1>6, <2>2, <2>3, <2>4, <2>5, <2>6, <2>7, <2>8 DEF ExplorerInv, AskedAll
<1>7. ASSUME NEW l \in loads, refresh_dns(l), UNCHANGED <<zone, crossed>> PROVE ExplorerInv'
  <2>1. l.stage = "dns" /\ loads' = loads \ {l} /\ api' = api
    BY <1>7 DEF refresh_dns
  <2>2. answer'.of = l.of /\ (answer'.st = "ok" => answer'.asked = l.asked)
    BY <1>7 DEF refresh_dns, Ok
  <2> QED BY <1>0, <1>7, <2>1, <2>2 DEF ExplorerInv, AskedAll
<1>8. ASSUME NEW l \in loads, LoadEnds(l) PROVE ExplorerInv'
  BY <1>6, <1>7, <1>8 DEF LoadEnds, fetchRecords, frontend_loadRecords, load, loadRecords
<1>9. CASE SwitchUser \/ Reload
  BY <1>9 DEF SwitchUser, Reload
<1> QED BY <1>2, <1>3, <1>4, <1>5, <1>8, <1>9 DEF Next, Views

-----------------------------------------------------------------------------
(* The record browser and the lookups. *)

LEMMA BrowserKept ==
    ASSUME TypeInv, OwnInv, BrowserInv, [Next]_vars
    PROVE  BrowserInv'
<1>0. screen' = screen
  BY Comings
<1> SUFFICES ASSUME screen = "browser" PROVE BrowserInv'
  BY <1>0 DEF BrowserInv
<1>1. ASSUME UNCHANGED <<zone, loads, api>> PROVE BrowserInv'
  BY <1>0, <1>1 DEF BrowserInv
<1>2. CASE World \/ UNCHANGED vars
  BY <1>1, <1>2 DEF World, Publish, RecordChanges, vars, views, shown
<1>3. ASSUME NEW e \in Event, Deliver(e) PROVE BrowserInv'
  BY <1>1, <1>3 DEF Deliver, explorer_event, browser_event, frontend_event, registrar_event, shown
<1>4. CASE DebounceFires \/ IntervalFires \/ RefreshClicked \/ LookUpAgain
  <2>1. IntervalFires
    BY <1>4 DEF DebounceFires, RefreshClicked, LookUpAgain, OwnInv
  <2>2. loads' = loads \cup {NewLoad(None, FALSE)} /\ zone' = zone /\ api' = api
    BY <2>1 DEF IntervalFires, Load, shown
  <2>3. NewLoad(None, FALSE).of = None
    BY Started
  <2> QED BY <1>0, <2>2, <2>3 DEF BrowserInv
<1>5. ASSUME NEW l \in loads, LoadEnds(l) PROVE BrowserInv'
  <2>1. zone' = zone /\ loads' = loads \ {l} /\ fetchRecords(l)
    BY <1>5 DEF LoadEnds, frontend_loadRecords, load, loadRecords, refresh_api, refresh_dns
  <2>2. api'.of = l.of /\ api'.st = "ok"
    BY <2>1 DEF fetchRecords, Ok
  <2> QED BY <1>0, <2>1, <2>2 DEF BrowserInv
<1>6. ASSUME SwitchUser \/ Reload \/ \E z \in Zones : SelectZone(z) \/ LookUp(z) PROVE FALSE
  BY <1>6 DEF SwitchUser, Reload, SelectZone, LookUp
<1> QED BY <1>2, <1>3, <1>4, <1>5, <1>6 DEF Next, Views

LEMMA LookupKept ==
    ASSUME TypeInv, OwnInv, LookupInv, [Next]_vars
    PROVE  LookupInv'
<1>0. screen' = screen
  BY Comings
<1> SUFFICES ASSUME screen = "lookup" PROVE LookupInv'
  BY <1>0 DEF LookupInv
<1>1. ASSUME UNCHANGED <<zone, loads, crossed, api>> PROVE LookupInv'
  BY <1>0, <1>1 DEF LookupInv
<1>2. CASE World \/ UNCHANGED vars
  BY <1>1, <1>2 DEF World, Publish, RecordChanges, vars, views, shown
<1>3. ASSUME NEW e \in Event, Deliver(e) PROVE LookupInv'
  BY <1>1, <1>3 DEF Deliver, explorer_event, browser_event, frontend_event, registrar_event, shown
<1>4. CASE DebounceFires \/ IntervalFires \/ RefreshClicked \/ LookUpAgain
  <2>1. LookUpAgain
    BY <1>4 DEF DebounceFires, IntervalFires, RefreshClicked, OwnInv
  <2>2. /\ loads' = loads \cup {NewLoad(zone, FALSE)} /\ zone' = zone
        /\ crossed' = (\E l \in loads : ~l.cancellable)
        /\ api' = [api EXCEPT !.st = "loading"]
    BY <2>1 DEF LookUpAgain, Load
  <2>3. NewLoad(zone, FALSE).of = zone /\ ~NewLoad(zone, FALSE).cancellable
    BY Started DEF TypeInv
  <2>4. api'.st = "loading"
    BY <2>2 DEF TypeInv, Got
  <2> QED BY <1>0, <2>2, <2>3, <2>4 DEF LookupInv
<1>5. ASSUME NEW l \in loads, LoadEnds(l) PROVE LookupInv'
  <2>1. zone' = zone /\ crossed' = crossed /\ loads' = loads \ {l} /\ load(l)
    BY <1>5 DEF LoadEnds, frontend_loadRecords, fetchRecords, loadRecords, refresh_api, refresh_dns
  <2>2. api'.of = l.of /\ api'.st = "ok"
    BY <2>1 DEF load, Ok
  <2> QED BY <1>0, <2>1, <2>2 DEF LookupInv
<1>6. ASSUME NEW z \in Zones, SelectZone(z) \/ LookUp(z) PROVE LookupInv'
  <2>1. LookUp(z)
    BY <1>6 DEF SelectZone
  <2> DEFINE on == {l \in loads : ~l.cancellable}
  <2>2. /\ loads' = on \cup {NewLoad(z, TRUE)} /\ zone' = z
        /\ crossed' = (\E l \in on : ~l.cancellable)
        /\ api' = [api EXCEPT !.st = "loading"]
    BY <2>1 DEF LookUp, Load
  <2>3. NewLoad(z, TRUE).of = z
    BY Started
  <2>4. api'.st = "loading"
    BY <2>2 DEF TypeInv, Got
  <2> QED BY <1>0, <2>2, <2>3, <2>4 DEF LookupInv
<1>7. ASSUME SwitchUser \/ Reload PROVE FALSE
  BY <1>7 DEF SwitchUser, Reload
<1> QED BY <1>2, <1>3, <1>4, <1>5, <1>6, <1>7 DEF Next, Views

-----------------------------------------------------------------------------
(* The dashboards. *)

\* What the user's coming and going does to a dashboard.
LEMMA Comers ==
    ASSUME TypeInv, SignedInv, SignedInv', screen \in Dashboards, screen' = screen,
           SwitchUser \/ Reload
    PROVE  /\ subject = session.key /\ subject' = session'.key
           /\ \/ subject' = subject /\ UNCHANGED <<loads, crossed, api, seen>> /\ (timer' => timer)
              \/ subject' = None /\ UNCHANGED <<loads, crossed, api, seen>> /\ ~timer'
              \/ /\ subject' \in Keys /\ subject' # subject /\ ~timer' /\ seen' = seen
                 /\ Load(subject', loads, FALSE) /\ api' = Fetching
              \/ subject' = None /\ loads' = {} /\ api' = Blank /\ ~timer'
              \/ /\ subject' \in Keys /\ loads' = {NewLoad(subject', FALSE)}
                 /\ api' = (IF screen = "registrar" THEN Waiting ELSE Blank)
                 /\ ~timer' /\ ~crossed' /\ seen' = {}
<1>1. subject = session.key /\ subject' = session'.key
  BY DEF subject
<1>2. session'.key \in Keys \cup {None}
  BY DEF SignedInv, IdTypeOK, NoSession
<1>3. timer \in BOOLEAN
  BY DEF TypeInv
<1>4. CASE Reload
  BY <1>1, <1>2, <1>4 DEF Reload
<1>5. ASSUME SwitchUser, session'.key = session.key
      PROVE  subject' = subject /\ UNCHANGED <<loads, crossed, api, seen>> /\ (timer' => timer)
  BY <1>1, <1>5 DEF SwitchUser, Follow
<1>6. ASSUME SwitchUser, session'.key # session.key, session'.key = None
      PROVE  subject' = None /\ UNCHANGED <<loads, crossed, api, seen>> /\ ~timer'
  BY <1>1, <1>6 DEF SwitchUser, Follow
<1>7. ASSUME SwitchUser, session'.key # session.key, session'.key # None
      PROVE  /\ subject' \in Keys /\ subject' # subject /\ ~timer' /\ seen' = seen
             /\ Load(subject', loads, FALSE) /\ api' = Fetching
  BY <1>1, <1>2, <1>7 DEF SwitchUser, Follow
<1> QED BY <1>1, <1>4, <1>5, <1>6, <1>7

LEMMA RegistrarKept ==
    ASSUME TypeInv, SignedInv, SignedInv', OwnInv, RegistrarInv, [Next]_vars
    PROVE  RegistrarInv'
<1>0. screen' = screen
  BY Comings
<1> SUFFICES ASSUME screen = "registrar" PROVE RegistrarInv'
  BY <1>0 DEF RegistrarInv
<1>a. subject = session.key /\ (session' = session => subject' = subject)
  BY <1>0 DEF subject, Dashboards
<1>b. None \notin Keys /\ subject \in Zones \cup Keys \cup {None}
  BY IdentityAssumption, Subjects
<1>1. ASSUME session' = session, UNCHANGED <<loads, crossed, api>>, timer' => timer \/ subject # None
      PROVE  RegistrarInv'
  BY <1>0, <1>1, <1>a DEF RegistrarInv
<1>2. CASE World \/ UNCHANGED vars
  BY <1>1, <1>2 DEF World, Publish, RecordChanges, vars, views, shown, idVars
<1>3. ASSUME NEW e \in Event, Deliver(e) PROVE RegistrarInv'
  <2>1. registrar_event(e) /\ e \in sent /\ session' = session /\ api' = api
    BY <1>3 DEF Deliver, explorer_event, browser_event, frontend_event, shown, idVars
  <2>2. subject \in Keys
    BY <2>1 DEF registrar_event, OwnInv, Dashboards
  <2> QED BY <1>1, <1>b, <2>1, <2>2 DEF registrar_event
<1>4. CASE DebounceFires \/ IntervalFires \/ RefreshClicked \/ LookUpAgain
  <2>1. DebounceFires
    BY <1>4 DEF IntervalFires, RefreshClicked, LookUpAgain
  <2>2. /\ loads' = loads \cup {NewLoad(subject, FALSE)} /\ timer /\ ~timer'
        /\ crossed' = (\E l \in loads : ~l.cancellable)
        /\ api' = [api EXCEPT !.st = "loading"] /\ session' = session
    BY <2>1 DEF DebounceFires, Load, idVars
  <2>3. NewLoad(subject, FALSE).of = subject /\ ~NewLoad(subject, FALSE).cancellable
    BY <1>b, Started
  <2>4. api'.st = "loading"
    BY <2>2 DEF TypeInv, Got
  <2> QED BY <1>0, <1>a, <2>2, <2>3, <2>4 DEF RegistrarInv
<1>5. ASSUME NEW l \in loads, LoadEnds(l) PROVE RegistrarInv'
  <2>1. /\ session' = session /\ crossed' = crossed /\ timer' = timer /\ loads' = loads \ {l}
        /\ loadRecords(l)
    BY <1>5 DEF LoadEnds, frontend_loadRecords, fetchRecords, load, refresh_api, refresh_dns, idVars
  <2>2. api'.st = "error" \/ (api'.st = "ok" /\ api'.of = l.of)
    <3>1. [api EXCEPT !.st = "error"].st = "error"
      BY DEF TypeInv, Got
    <3>2. Ok(l, {"bot"}).st = "ok" /\ Ok(l, {"bot"}).of = l.of
      BY DEF Ok
    <3>3. api' = Ok(l, {"bot"}) \/ api' = [api EXCEPT !.st = "error"]
      BY <2>1 DEF loadRecords
    <3> QED BY <3>1, <3>2, <3>3
  <2> QED BY <1>0, <1>a, <2>1, <2>2 DEF RegistrarInv
<1>6. ASSUME NEW z \in Zones, SelectZone(z) \/ LookUp(z) PROVE FALSE
  BY <1>6 DEF SelectZone, LookUp
<1>7. CASE SwitchUser \/ Reload
  <2> USE <1>0 DEF RegistrarInv
  <2>0. Waiting.st = "loading"
    BY DEF Waiting, Blank
  <2>1. CASE subject' = subject /\ UNCHANGED <<loads, crossed, api, seen>> /\ (timer' => timer)
    BY <2>1
  <2>2. CASE subject' = None /\ UNCHANGED <<loads, crossed, api, seen>> /\ ~timer'
    BY <2>2
  <2>3. CASE /\ subject' \in Keys /\ subject' # subject /\ ~timer'
             /\ Load(subject', loads, FALSE) /\ api' = Fetching
    <3>1. NewLoad(subject', FALSE).of = subject' /\ ~NewLoad(subject', FALSE).cancellable
      BY <2>3, Started
    <3>2. /\ loads' = loads \cup {NewLoad(subject', FALSE)}
          /\ crossed' = (\E l \in loads : ~l.cancellable)
      BY <2>3 DEF Load
    <3>3. api'.st = "loading"
      BY <2>3 DEF Fetching, TypeInv, Got
    <3> QED BY <2>3, <3>1, <3>2, <3>3
  <2>4. CASE subject' = None /\ loads' = {} /\ api' = Blank /\ ~timer'
    BY <2>4
  <2>5. CASE /\ subject' \in Keys /\ loads' = {NewLoad(subject', FALSE)}
             /\ api' = Waiting /\ ~timer'
    <3>1. NewLoad(subject', FALSE).of = subject' /\ ~NewLoad(subject', FALSE).cancellable
      BY <2>5, Started
    <3> QED BY <2>0, <2>5, <3>1
  <2> QED BY <1>7, <2>1, <2>2, <2>3, <2>4, <2>5, Comers DEF Dashboards
<1> QED BY <1>2, <1>3, <1>4, <1>5, <1>6, <1>7 DEF Next, Views

\* A load that starts has all that was received of its subject, or newer records.
LEMMA StartsCovered ==
    ASSUME TypeInv, NEW s \in Keys
    PROVE  \A e \in sent : e.of = s =>
              \E r \in NewLoad(s, FALSE).relays : key(r) = key(e) /\ r.at >= e.at
<1> SUFFICES ASSUME NEW e \in sent, e.of = s
             PROVE  \E r \in NewLoad(s, FALSE).relays : key(r) = key(e) /\ r.at >= e.at
  OBVIOUS
<1>1. NewLoad(s, FALSE).relays = latest(About(sent, s))
  BY Started
<1>2. e \in About(sent, s) /\ About(sent, s) \in SUBSET Event
  BY Abouts DEF TypeInv
<1> QED BY <1>1, <1>2, LatestCovers

LEMMA FrontendKept ==
    ASSUME TypeInv, TypeInv', SignedInv, SignedInv', OwnInv, FrontendInv, [Next]_vars
    PROVE  FrontendInv'
<1>0. screen' = screen
  BY Comings
<1> SUFFICES ASSUME screen = "frontend" PROVE FrontendInv'
  BY <1>0 DEF FrontendInv
<1>a. subject = session.key /\ (session' = session => subject' = subject)
  BY <1>0 DEF subject, Dashboards
<1>b. None \notin Keys /\ subject \in Keys \cup {None} /\ seen \subseteq sent
  BY IdentityAssumption, Subjects DEF TypeInv, Dashboards
<1>1. ASSUME session' = session, UNCHANGED <<loads, crossed, api, seen>> PROVE FrontendInv'
  BY <1>0, <1>1, <1>a DEF FrontendInv, Covers
<1>2. CASE World \/ UNCHANGED vars
  BY <1>1, <1>2 DEF World, Publish, RecordChanges, vars, views, shown, idVars
<1>3. ASSUME NEW e \in Event, Deliver(e) PROVE FrontendInv'
  <2>1. /\ subject # None /\ seen' = seen \cup {e} /\ e \in sent
        /\ session' = session /\ api' = api
        /\ loads' = loads \cup {NewLoad(subject, FALSE)}
        /\ crossed' = (\E l \in loads : ~l.cancellable)
    BY <1>3 DEF Deliver, explorer_event, browser_event, frontend_event, registrar_event, Load,
                shown, idVars
  <2>2. NewLoad(subject, FALSE).of = subject /\ ~NewLoad(subject, FALSE).cancellable
    BY <1>b, Started
  <2>3. ~crossed' => loads' = {NewLoad(subject, FALSE)}
    BY <2>1 DEF FrontendInv
  <2>4. \A d \in seen' : d.of = subject =>
          \E r \in NewLoad(subject, FALSE).relays : key(r) = key(d) /\ r.at >= d.at
    BY <1>b, <2>1, StartsCovered
  <2> QED BY <1>0, <1>a, <2>1, <2>2, <2>3, <2>4 DEF FrontendInv, Covers
<1>4. ASSUME DebounceFires \/ IntervalFires \/ RefreshClicked \/ LookUpAgain PROVE FALSE
  BY <1>4 DEF DebounceFires, IntervalFires, RefreshClicked, LookUpAgain, OwnInv
<1>5. ASSUME NEW l \in loads, LoadEnds(l) PROVE FrontendInv'
  <2>1. /\ session' = session /\ crossed' = crossed /\ seen' = seen /\ loads' = loads \ {l}
        /\ frontend_loadRecords(l)
    BY <1>5 DEF LoadEnds, fetchRecords, load, loadRecords, refresh_api, refresh_dns, idVars
  <2>2. PICK by \in SUBSET Sources : api' = Ok(l, by)
    BY <2>1 DEF frontend_loadRecords
  <2>3. /\ api'.st = "ok" /\ api'.of = l.of /\ api'.by = by
        /\ "relays" \in by => l.relays \subseteq api'.recs
    BY <2>2 DEF Ok, merged
  <2> QED BY <1>0, <1>a, <2>1, <2>3 DEF FrontendInv, Covers
<1>6. ASSUME NEW z \in Zones, SelectZone(z) \/ LookUp(z) PROVE FALSE
  BY <1>6 DEF SelectZone, LookUp
<1>7. CASE SwitchUser \/ Reload
  <2> USE <1>0
  <2>0. subject' \in Keys
    <3>1. subject' = session'.key
      BY <1>0 DEF subject, Dashboards
    <3>2. CASE SwitchUser
      BY <3>1, <3>2 DEF SwitchUser, FrontendIdentity, importIdentity, resetIdentity, Keeps, Signed
    <3>3. CASE Reload
      BY <3>1, <3>3 DEF Reload, getOrCreateIdentity, Keeps, Signed, SignedInv, IdTypeOK
    <3> QED BY <1>7, <3>2, <3>3
  <2>1. CASE subject' = subject /\ UNCHANGED <<loads, crossed, api, seen>>
    BY <2>1 DEF FrontendInv, Covers
  <2>2. CASE /\ subject' \in Keys /\ subject' # subject /\ seen' = seen
             /\ Load(subject', loads, FALSE) /\ api' = Fetching
    <3>1. NewLoad(subject', FALSE).of = subject' /\ ~NewLoad(subject', FALSE).cancellable
      BY <2>2, Started
    <3>2. /\ loads' = loads \cup {NewLoad(subject', FALSE)}
          /\ crossed' = (\E l \in loads : ~l.cancellable)
      BY <2>2 DEF Load
    <3>3. ~crossed' => loads' = {NewLoad(subject', FALSE)}
      BY <3>2 DEF FrontendInv
    <3>4. \A d \in seen' : d.of = subject' =>
            \E r \in NewLoad(subject', FALSE).relays : key(r) = key(d) /\ r.at >= d.at
      BY <1>b, <2>2, StartsCovered
    <3>5. api' = api
      BY <2>2 DEF Fetching
    <3> QED BY <1>b, <2>0, <3>1, <3>2, <3>3, <3>4, <3>5 DEF FrontendInv, Covers
  <2>3. CASE /\ loads' = {NewLoad(subject', FALSE)} /\ api' = Blank /\ ~crossed' /\ seen' = {}
    <3>1. NewLoad(subject', FALSE).of = subject' /\ ~NewLoad(subject', FALSE).cancellable
      BY <2>0, Started
    <3>2. api'.st = "idle"
      BY <2>3 DEF Blank
    <3> QED BY <1>b, <2>0, <2>3, <3>1, <3>2 DEF FrontendInv, Covers
  <2> QED BY <1>7, <1>b, <2>0, <2>1, <2>2, <2>3, Comers DEF Dashboards
<1> QED BY <1>2, <1>3, <1>4, <1>5, <1>6, <1>7 DEF Next, Views

-----------------------------------------------------------------------------
(* The invariant. *)

LEMMA ViewsInit == Init => ViewsInv
<1> SUFFICES ASSUME Init PROVE ViewsInv
  OBVIOUS
<1> USE IdentityAssumption, ViewsAssumption
<1>1. zone \in Zones \cup {None} /\ (screen = "browser" => zone = None)
  BY DEF Init
<1>2. /\ sent = {} /\ bot = {} /\ dns = {} /\ feed = <<>> /\ seen = {} /\ api = Blank /\ answer = Blank
      /\ ~timer /\ timer \in BOOLEAN /\ ~crossed /\ crossed \in BOOLEAN /\ changes = 0
      /\ screen \in Screens /\ session = NoSession
  BY DEF Init, IdInit
<1>3. Blank \in Got /\ Blank.st = "idle" /\ Blank.of = None
  BY DEF Blank, Got
<1>4. loads \in {{}, {NewLoad(zone, screen = "lookup")}} /\ (screen \in Dashboards => loads = {})
      /\ (screen \notin Dashboards => loads # {})
  BY DEF Init
<1>5. IsFiniteSet({}) /\ Cardinality({}) = 0
  BY FS_EmptySet
<1>6. TypeInv
  <2> DEFINE l == NewLoad(zone, screen = "lookup")
  <2>1. About(bot, zone) = {} /\ latest(About(sent, zone)) = {}
    BY <1>2 DEF About, latest
  <2>2. l \in LoadRec /\ l.bot = {}
    BY <1>1, <2>1 DEF NewLoad, LoadRec
  <2>3. changes \in 0..Bound
    BY <1>2 DEF Bound
  <2>4. loads \subseteq LoadRec /\ \A m \in loads : m.bot = {}
    BY <1>4, <2>2
  <2>5. <<>> \in Seq(Event) /\ Len(<<>>) = 0
    OBVIOUS
  <2> HIDE DEF l
  <2>6. \A m \in loads : m.stage = "api" => IsFiniteSet(m.bot)
    BY <1>5, <2>4
  <2>7. feed \in Seq(Event) /\ Len(feed) <= Limit /\ seen \subseteq sent
    BY <1>2, <2>5
  <2>8. IsFiniteSet(bot) /\ sent \subseteq Event /\ bot \subseteq Event /\ dns \subseteq Event
    BY <1>2, <1>5
  <2> QED BY <1>1, <1>2, <1>3, <2>3, <2>4, <2>6, <2>7, <2>8 DEF TypeInv
<1>7. SignedInv
  BY DEF Init, IdInit, SignedInv, IdTypeOK, NoSession
<1>8. \A l \in loads : l.of = zone /\ l.stage = "api" /\ l.cancellable = (screen = "lookup")
  BY <1>4 DEF NewLoad
<1>9. FeedInv
  <2>1. ToSet(feed) = {} /\ IsInjective(feed) /\ Len(feed) = 0
    BY <1>2 DEF ToSet, IsInjective
  <2>2. Min({Limit, 0}) = 0
    BY MinOf
  <2> QED BY <1>2, <1>5, <2>1, <2>2 DEF FeedInv
<1>10. OwnInv
  BY <1>2 DEF OwnInv
<1>11. ExplorerInv
  <2>1. screen = "explorer" => zone \in Zones
    BY DEF Init
  <2> QED BY <1>2, <1>3, <1>4, <1>8, <2>1 DEF ExplorerInv
<1>12. BrowserInv /\ LookupInv
  BY <1>1, <1>2, <1>3, <1>4, <1>8 DEF BrowserInv, LookupInv, Dashboards
<1>13. RegistrarInv /\ FrontendInv
  <2>1. screen \in Dashboards => subject = None
    BY <1>2 DEF subject, NoSession
  <2> QED BY <1>2, <1>3, <1>4, <2>1 DEF RegistrarInv, FrontendInv, Dashboards
<1> QED BY <1>6, <1>7, <1>9, <1>10, <1>11, <1>12, <1>13 DEF ViewsInv

LEMMA ViewsNext == ViewsInv /\ [Next]_vars => ViewsInv'
<1> SUFFICES ASSUME ViewsInv, [Next]_vars PROVE ViewsInv'
  OBVIOUS
<1> USE DEF ViewsInv
<1>1. SignedInv'
  BY SignedKept
<1>2. TypeInv'
  BY TypesHold
<1>3. FeedInv' /\ OwnInv'
  BY FeedKept, OwnKept
<1>4. ExplorerInv' /\ BrowserInv' /\ LookupInv'
  BY ExplorerKept, BrowserKept, LookupKept
<1>5. RegistrarInv' /\ FrontendInv'
  BY <1>1, <1>2, RegistrarKept, FrontendKept
<1> QED BY <1>1, <1>2, <1>3, <1>4, <1>5

\* The inductive invariant holds in every reachable state.
LEMMA ViewsHold == Spec => []ViewsInv
BY ViewsInit, ViewsNext, PTL DEF Spec

-----------------------------------------------------------------------------
(* The theorems. *)

\* What the screens keep of events, answers and loads has its types, the list never
\* grows beyond its limit, and it holds events that the relays have.
THEOREM TypeCorrect == Spec => []TypeOK
<1>1. ViewsInv => TypeOK
  <2> SUFFICES ASSUME ViewsInv PROVE TypeOK
    OBVIOUS
  <2>1. TypeInv /\ SignedInv
    BY DEF ViewsInv
  <2>2. feed \in BoundedSeq(Event, Limit)
    BY <2>1, ViewsAssumption DEF TypeInv, BoundedSeq, SeqOf
  <2> QED BY <2>1, <2>2 DEF TypeInv, SignedInv, TypeOK, Got, LoadRec
<1> QED BY <1>1, ViewsHold, PTL

\* However often and in whatever order the relays deliver, the list has no event
\* twice, drops none while it has room, and the zone monitor has the newest of each name.
THEOREM NewestShown == Spec => []NewestIsShown
<1>1. ViewsInv => NewestIsShown
  <2> SUFFICES ASSUME ViewsInv, screen = "explorer", Cardinality(seen) <= Limit, NEW e \in seen
               PROVE  \E r \in relayRecords(e.of) : key(r) = key(e) /\ r.at >= e.at
    BY DEF ViewsInv, FeedInv, NewestIsShown
  <2>1. ToSet(feed) = seen /\ seen \subseteq Event
    BY DEF ViewsInv, FeedInv, TypeInv
  <2> DEFINE X == {d \in seen : d.of = e.of}
  <2>2. relayRecords(e.of) = latest(X) /\ X \in SUBSET Event /\ e \in X
    BY <2>1 DEF relayRecords
  <2> HIDE DEF X
  <2> QED BY <2>2, LatestCovers
<1> QED BY <1>1, ViewsHold, PTL

\* Loads that did not cross leave the screen with the rows of its subject, the
\* frontend's with every event that was delivered; and "none" is said of what was
\* looked up.
THEOREM ShownOfSubject == Spec => []ShownIsOfSubject
<1>1. ViewsInv => RowsAreCurrent
  <2> SUFFICES ASSUME ViewsInv, loads = {}, ~crossed, api.st = "ok",
                      subject # None \/ screen = "browser"
               PROVE  /\ api.of = subject
                      /\ answer.st = "ok" => answer.of = subject
                      /\ screen = "frontend" /\ "relays" \in api.by =>
                           \A e \in seen : e.of = subject =>
                              \E r \in api.recs : key(r) = key(e) /\ r.at >= e.at
    BY DEF RowsAreCurrent, Quiet
  <2>0. screen \in Screens /\ Blank.st = "idle"
    BY DEF ViewsInv, TypeInv, Blank
  <2>1. CASE screen = "explorer"
    BY <2>1 DEF ViewsInv, ExplorerInv, subject, Dashboards
  <2>2. CASE screen = "browser"
    BY <2>0, <2>2 DEF ViewsInv, BrowserInv, OwnInv, subject, Dashboards
  <2>3. CASE screen = "lookup"
    BY <2>0, <2>3 DEF ViewsInv, LookupInv, OwnInv, subject, Dashboards
  <2>4. CASE screen = "registrar"
    BY <2>0, <2>4 DEF ViewsInv, RegistrarInv, OwnInv
  <2>5. CASE screen = "frontend"
    BY <2>0, <2>5 DEF ViewsInv, FrontendInv, OwnInv, Covers
  <2> QED BY <2>0, <2>1, <2>2, <2>3, <2>4, <2>5, ViewsAssumption DEF Dashboards
<1>2. ViewsInv => NoneIsLookedUp
  <2> SUFFICES ASSUME ViewsInv PROVE NoneIsLookedUp
    OBVIOUS
  <2>0. api.st \in {"idle", "loading", "ok", "error"}
    BY DEF ViewsInv, TypeInv, Got
  <2>1. ASSUME ~crossed, screen = "registrar", registrar_shows = "none" PROVE api.of = subject
    <3>1. session # NoSession
      BY <2>1 DEF registrar_shows
    <3>2. subject # None
      BY <2>1, <3>1, Subjects DEF ViewsInv, Dashboards
    <3>3. api.st \notin {"error", "loading"}
      BY <2>1, <3>1 DEF registrar_shows, Says
    <3> QED BY <2>0, <2>1, <3>2, <3>3 DEF ViewsInv, RegistrarInv
  <2>2. ASSUME ~crossed, screen = "lookup", profile_shows = "none" PROVE api.of = subject
    <3>1. api.st \notin {"idle", "loading"}
      BY <2>2 DEF profile_shows, Says
    <3> QED BY <2>0, <2>2, <3>1 DEF ViewsInv, LookupInv, subject, Dashboards
  <2>3. ASSUME Quiet, screen = "frontend", frontend_shows = "none" PROVE api.of = subject
    <3>1. api.st # "idle"
      BY <2>3 DEF frontend_shows, Says
    <3> QED BY <2>3, <3>1 DEF ViewsInv, FrontendInv, Quiet
  <2>4. ASSUME Quiet, screen = "lookup" PROVE api.of = subject
    BY <2>4 DEF ViewsInv, LookupInv, Quiet, subject, Dashboards
  <2>5. ASSUME screen = "browser", browser_shows = "none" PROVE api.st = "ok"
    BY <2>5 DEF ViewsInv, BrowserInv, browser_shows, Says
  <2> QED BY <2>1, <2>2, <2>3, <2>4, <2>5 DEF NoneIsLookedUp
<1> QED BY <1>1, <1>2, ViewsHold, PTL DEF ShownIsOfSubject

\* The zone monitor reports "missing from DNS" of names it did ask for, and full
\* agreement of sources that have the same.
THEOREM VerdictRight == Spec => []VerdictIsRight
<1>1. ViewsInv => VerdictIsRight
  <2> SUFFICES ASSUME ViewsInv, screen = "explorer", loads = {}, ~crossed,
                      api.st = "ok", answer.st = "ok"
               PROVE  /\ Cardinality(answer.asked) < MaxNames =>
                           \A e \in comparison.dnsMissing :
                              key(e) \in answer.asked /\ e \notin answer.recs
                      /\ Full => relayRecords(zone) = api.recs /\ api.recs = answer.recs
    BY DEF VerdictIsRight, Quiet
  <2>1. subject = zone /\ AskedAll(answer.asked)
    BY DEF ViewsInv, ExplorerInv, subject, Dashboards
  <2> DEFINE R == relayRecords(zone)
  <2>2. /\ comparison.dnsMissing = (R \cap api.recs) \ answer.recs
        /\ comparison.onlyRelay = R \ api.recs /\ comparison.onlyApi = api.recs \ R
        /\ comparison.dnsStale = answer.recs \ (R \cup api.recs)
    BY <2>1 DEF comparison, compareRecords
  <2> HIDE DEF R
  <2>3. ASSUME Cardinality(answer.asked) < MaxNames, NEW e \in comparison.dnsMissing
        PROVE  key(e) \in answer.asked /\ e \notin answer.recs
    BY <2>1, <2>2, <2>3 DEF AskedAll, keys
  <2>4. ASSUME Full PROVE R = api.recs /\ api.recs = answer.recs
    <3>1. /\ R \ api.recs = {} /\ api.recs \ R = {}
          /\ (R \cap api.recs) \ answer.recs = {} /\ answer.recs \ (R \cup api.recs) = {}
      BY <2>2, <2>4 DEF Full
    <3> QED BY <3>1
  <2> QED BY <2>3, <2>4 DEF R
<1> QED BY <1>1, ViewsHold, PTL

\* A reload signs in again who was signed in with a generated key, or with a
\* remembered one where none was ever generated.
THEOREM ReloadKeepsUser == Spec => SurvivesReload
<1>1. ViewsInv /\ [Next]_vars =>
        [Reload => /\ session.how \in {"ephemeral", "stored"} => session' = session
                   /\ session.how = "nsec" /\ session.key \in accounts /\ stored = None
                        => session' = session]_vars
  <2> SUFFICES ASSUME ViewsInv, Reload
               PROVE  /\ session.how \in {"ephemeral", "stored"} => session' = session
                      /\ session.how = "nsec" /\ session.key \in accounts /\ stored = None
                           => session' = session
    OBVIOUS
  <2>1. SignedInv
    BY DEF ViewsInv
  <2>2. session.how # "none" => session = Signed(session.key, session.how) /\ session.key # None
    BY <2>1, IdentityAssumption DEF SignedInv, IdTypeOK, Signed, NoSession
  <2>3. CASE screen = "registrar"
    BY <2>1, <2>2, <2>3 DEF Reload, RegistrarReloads, restored, SignedInv
  <2>4. CASE screen = "frontend"
    BY <2>1, <2>2, <2>4 DEF Reload, getOrCreateIdentity, Keeps, SignedInv
  <2> QED BY <2>3, <2>4 DEF Reload
<1> QED BY <1>1, ViewsHold, PTL DEF Spec, SurvivesReload
==============================================================================
