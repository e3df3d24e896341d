--------------------------- MODULE ResolverProofs ---------------------------
(***************************************************************************)
(* Proofs about Resolver, for every number of records, keys and events.    *)
(***************************************************************************)
EXTENDS Resolver, FiniteSetTheorems, TLAPS

\* A query that is done has the answers it waited for, and its result is made of
\* them: no source is asked again.
ResultInv ==
    result.st = "done" =>
        /\ Complete
        /\ query.mode = "tripartite" =>
             result.records = toResolvedRecords(Got("api"), Got("nostr"), Got("dns"))

\* What discovery and check know of a zone that stays as it is.
ZoneInv ==
    /\ disc.verified => disc.st = "done"
    /\ quiet =>
         /\ disc.st = "found" \/ disc.verified => handlers # <<>> /\ disc.signer = newest
         /\ disc.verified => txt = disc.signer
         /\ check.st = "asked" => check.npub = txt
         /\ check.st = "done" =>
              \/ check.res = "verified"
              \/ check.res = "not-opted-in" /\ txt = None
              \/ check.res = "unverified" /\ \A i \in DOMAIN handlers : handlers[i] # txt

ResolverInv == TypeOK /\ ResultInv /\ ZoneInv

\* Two members of a finite set are two.
LEMMA TwoMembers ==
    ASSUME NEW S, IsFiniteSet(S), NEW x \in S, NEW y \in S, x # y
    PROVE  Cardinality(S) >= 2
<1>1. IsFiniteSet({x}) /\ Cardinality({x}) = 1
  BY FS_Singleton
<1>2. IsFiniteSet({x} \cup {y}) /\ Cardinality({x} \cup {y}) = 1 + 1
  BY <1>1, FS_AddElement
<1>3. Cardinality({x} \cup {y}) <= Cardinality(S)
  <2>1. {x} \cup {y} \subseteq S
    OBVIOUS
  <2> QED BY <2>1, FS_Subset
<1>4. Cardinality(S) \in Nat
  BY FS_CardinalityType
<1> QED BY <1>2, <1>3, <1>4

\* What is returned of three sources is in two of them.
LEMMA ReturnedTwice ==
    ASSUME NEW a, NEW n, NEW d, NEW k \in toResolvedRecords(a, n, d)
    PROVE  (k \in a /\ k \in n) \/ (k \in a /\ k \in d) \/ (k \in n /\ k \in d)
BY DEF toResolvedRecords, compareTripartite

\* The records of a number of events are records.
LEMMA QueriedIsData ==
    ASSUME TypeOK, NEW answered \in SUBSET DOMAIN relays
    PROVE  {r.key : r \in queryRecords(answered)} \subseteq Data
<1>1. ASSUME NEW i \in DOMAIN relays, NEW r \in Parsed(i)
      PROVE  r.key \in Data
  <2>1. relays[i] \in Events
    BY DEF TypeOK
  <2>2. value(relays[i]) \in Recs \cup {TTL}
    BY <2>1 DEF value, Events
  <2>3. r = [key |-> Key(value(relays[i])), at |-> i]
    BY <1>1 DEF Parsed
  <2> QED BY <2>2, <2>3 DEF Key, Data
<1>2. \A r \in queryRecords(answered) : \E i \in DOMAIN relays : r \in Parsed(i)
  BY DEF queryRecords, deduplicateRecords
<1> QED BY <1>1, <1>2

LEMMA ReturnedIsData ==
    ASSUME NEW a \in SUBSET Data, NEW n \in SUBSET Data, NEW d \in SUBSET Data
    PROVE  toResolvedRecords(a, n, d) \in SUBSET Data
BY DEF toResolvedRecords

\* The initial state.
LEMMA ResolverInit == Init => ResolverInv
BY ResolverAssumption
   DEF Init, ResolverInv, TypeOK, ResultInv, ZoneInv, NoQuery, NoResult, NoDisc, NoCheck,
       Sources, Pending, Events

\* A source that was waited for answers: only a query that is not done asks.
LEMMA Answers ==
    ASSUME ResolverInv, NEW s \in Sources, Asks(s), NEW has \in SUBSET Data,
           query' = [query EXCEPT !.got[s] = Answered(has)],
           UNCHANGED <<task, relays, api, dns, result, zones>>
    PROVE  ResolverInv'
<1> DEFINE q == [query EXCEPT !.got[s] = Answered(has)]
<1>1. q \in [mode: Modes \cup {None}, got: [Sources -> [st: {"pending", "answered"}, has: SUBSET Data]]]
  BY DEF ResolverInv, TypeOK, Answered
<1>2. result.st # "done"
  BY DEF ResolverInv, ResultInv, Complete, Asks
<1> HIDE DEF q
<1>3. TypeOK'
  BY <1>1 DEF ResolverInv, TypeOK, zones, q
<1>4. ResultInv' /\ ZoneInv'
  BY <1>2 DEF ResolverInv, ResultInv, ZoneInv, zones, newest
<1> QED BY <1>3, <1>4 DEF ResolverInv

\* A step about records leaves the invariant.
LEMMA RecordsKeep ==
    ASSUME ResolverInv, Records PROVE ResolverInv'
<1> USE DEF ResolverInv
<1>1. CASE resolve
  <2>1. TypeOK'
    BY <1>1, ResolverAssumption DEF resolve, TypeOK, zones, NoQuery, NoResult, Sources, Pending, Modes
  <2> QED BY <1>1, <2>1 DEF resolve, ResultInv, ZoneInv, zones, newest, NoResult
<1>2. CASE fetchApiRecords
  <2>1. PICK has \in {{}, api} : query' = [query EXCEPT !.got["api"] = Answered({Key(r) : r \in has})]
    BY <1>2 DEF fetchApiRecords
  <2>2. {Key(r) : r \in has} \in SUBSET Data
    BY DEF TypeOK, Key, Data
  <2> QED BY <1>2, <2>1, <2>2, Answers DEF fetchApiRecords, Sources
<1>3. CASE fetchNostrRecords
  <2>1. PICK answered \in SUBSET DOMAIN relays :
          query' = [query EXCEPT !.got["nostr"] = Answered({r.key : r \in queryRecords(answered)})]
    BY <1>3 DEF fetchNostrRecords
  <2>2. {r.key : r \in queryRecords(answered)} \in SUBSET Data
    BY QueriedIsData
  <2> QED BY <1>3, <2>1, <2>2, Answers DEF fetchNostrRecords, Sources
<1>4. CASE fetchDnsRecords
  <2>1. PICK has \in SUBSET dns : query' = [query EXCEPT !.got["dns"] = Answered({dnsKey(r) : r \in has})]
    BY <1>4 DEF fetchDnsRecords
  <2>2. {dnsKey(r) : r \in has} \in SUBSET Data
    BY DEF TypeOK, dnsKey, Data
  <2> QED BY <1>4, <2>1, <2>2, Answers DEF fetchDnsRecords, Sources
<1>5. CASE queryAllDnsRecordTypes
  <2>1. PICK has \in SUBSET dns : query' = [query EXCEPT !.got["dns"] = Answered({Key(r) : r \in has})]
    BY <1>5 DEF queryAllDnsRecordTypes
  <2>2. {Key(r) : r \in has} \in SUBSET Data
    BY DEF TypeOK, Key, Data
  <2> QED BY <1>5, <2>1, <2>2, Answers DEF queryAllDnsRecordTypes, Sources
<1>6. CASE Returns
  <2>1. \A s \in Sources : Got(s) \in SUBSET Data
    BY DEF TypeOK, Got
  <2>2. toResolvedRecords(Got("api"), Got("nostr"), Got("dns")) \in SUBSET Data
    BY <2>1, ReturnedIsData DEF Sources
  <2>3. compareTripartite(Got("api"), Got("nostr"), Got("dns")) \in BOOLEAN
    BY DEF compareTripartite
  <2>4. query.mode # "tripartite" => query.mode \in Sources
    BY <1>6 DEF Returns, Complete, TypeOK, Modes, Sources
  <2>5. result' \in [st: {"none", "done"}, records: SUBSET Data, verified: BOOLEAN]
    BY <1>6, <2>1, <2>2, <2>3, <2>4 DEF Returns
  <2>6. TypeOK'
    BY <1>6, <2>5 DEF Returns, TypeOK, zones
  <2>7. ResultInv'
    BY <1>6 DEF Returns, ResultInv, Complete, Got
  <2> QED BY <1>6, <2>6, <2>7 DEF Returns, ZoneInv, zones, newest
<1>7. CASE Ask
  <2>1. TypeOK'
    BY <1>7 DEF Ask, TypeOK, zones, NoQuery, NoResult, Sources, Pending
  <2> QED BY <1>7, <2>1 DEF Ask, ResultInv, ZoneInv, zones, newest, NoResult
<1>8. ASSUME NEW e \in Events, Publish(e) PROVE ResolverInv'
  <2>1. relays' \in Seq(Events) /\ Len(relays') <= MaxEvents
    BY <1>8, ResolverAssumption DEF Publish, TypeOK
  <2> QED BY <1>8, <2>1 DEF Publish, TypeOK, ResultInv, ZoneInv, zones, newest, Complete, Got
<1>9. CASE BotApplies
  BY <1>9 DEF BotApplies, TypeOK, ResultInv, ZoneInv, zones, newest, Complete, Got
<1> QED
  BY <1>1, <1>2, <1>3, <1>4, <1>5, <1>6, <1>7, <1>8, <1>9 DEF Records

\* What discovery and check go through.
DiscTypes == [st: {"idle", "asked", "found", "done"}, signer: Keys \cup {None}, verified: BOOLEAN]
CheckTypes == [st: {"idle", "asked", "done"}, npub: Keys \cup {None},
               res: {"none", "not-opted-in", "unverified", "verified"}]

\* A step about zones leaves the records alone.
LEMMA ZonesLeaveRecords ==
    ASSUME ResolverInv, UNCHANGED <<task, records>>,
           handlers' \in Seq(Keys), Len(handlers') <= MaxEvents, txt' \in Keys \cup {None},
           disc' \in DiscTypes, check' \in CheckTypes, quiet' \in BOOLEAN, ZoneInv'
    PROVE  ResolverInv'
BY DEF ResolverInv, TypeOK, ResultInv, records, Complete, Got, DiscTypes, CheckTypes

\* A step about zones leaves the invariant.
LEMMA ZonesKeep ==
    ASSUME ResolverInv, Zones PROVE ResolverInv'
<1>0. /\ handlers \in Seq(Keys) /\ Len(handlers) <= MaxEvents /\ txt \in Keys \cup {None}
      /\ disc \in DiscTypes /\ check \in CheckTypes /\ quiet \in BOOLEAN /\ ZoneInv
  BY DEF ResolverInv, TypeOK, DiscTypes, CheckTypes
<1> USE ResolverAssumption DEF DiscTypes, CheckTypes
<1>1. CASE discoverZones
  BY <1>0, <1>1, ZonesLeaveRecords DEF discoverZones, ZoneInv, newest, NoDisc
<1>2. CASE queryZoneHandlerEvents
  <2>1. handlers # <<>> => newest \in Keys
    BY <1>0 DEF newest
  <2>2. UNCHANGED <<task, records, handlers, txt, check>>
    BY <1>2 DEF queryZoneHandlerEvents
  <2>3. disc' \in DiscTypes /\ quiet' \in BOOLEAN
    BY <1>0, <1>2, <2>1 DEF queryZoneHandlerEvents
  <2>4. /\ ~disc'.verified
        /\ quiet' => quiet
        /\ \/ disc'.st = "found" /\ disc'.signer = newest /\ handlers # <<>>
           \/ disc'.st = "done"
    <3>1. ~disc.verified
      BY <1>0, <1>2 DEF queryZoneHandlerEvents, ZoneInv
    <3>2. CASE handlers # <<>> /\ disc' = [disc EXCEPT !.st = "found", !.signer = newest] /\ UNCHANGED quiet
      BY <1>0, <3>1, <3>2
    <3>3. CASE disc' = [disc EXCEPT !.st = "done"] /\ quiet' = (quiet /\ handlers = <<>>)
      BY <1>0, <3>1, <3>3
    <3> QED BY <1>2, <3>2, <3>3 DEF queryZoneHandlerEvents
  <2>5. newest' = newest
    BY <2>2 DEF newest
  <2>6. ZoneInv'
    BY <1>0, <2>2, <2>4, <2>5 DEF ZoneInv
  <2> QED BY <1>0, <2>2, <2>3, <2>6, ZonesLeaveRecords
<1>3. CASE fetchDnsTxt
  <2>1. UNCHANGED <<task, records, handlers, txt, check>>
    BY <1>3 DEF fetchDnsTxt
  <2>2. disc' \in DiscTypes /\ quiet' \in BOOLEAN
    BY <1>0, <1>3 DEF fetchDnsTxt, verifies
  <2>3. ZoneInv'
    BY <1>0, <1>3, <2>1 DEF fetchDnsTxt, verifies, ZoneInv, newest
  <2> QED BY <1>0, <2>1, <2>2, <2>3, ZonesLeaveRecords
<1>4. CASE checkZone
  <2>1. UNCHANGED <<task, records, handlers, txt, disc>>
    BY <1>4 DEF checkZone
  <2>2. check' \in CheckTypes /\ quiet' \in BOOLEAN
    BY <1>0, <1>4 DEF checkZone
  <2>3. /\ quiet' => quiet
        /\ \/ check'.st = "done" /\ check'.res = "not-opted-in" /\ (quiet' => txt = None)
           \/ check'.st = "asked" /\ (quiet' => check'.npub = txt)
    <3>1. PICK npub \in {None, txt} :
            /\ check' = IF npub = None THEN [st |-> "done", npub |-> None, res |-> "not-opted-in"]
                        ELSE [st |-> "asked", npub |-> npub, res |-> "none"]
            /\ quiet' = (quiet /\ npub = txt)
      BY <1>4 DEF checkZone
    <3>2. quiet' => quiet /\ npub = txt
      BY <3>1
    <3>3. IF npub = None THEN check'.st = "done" /\ check'.res = "not-opted-in"
                         ELSE check'.st = "asked" /\ check'.npub = npub
      BY <3>1
    <3> QED BY <3>2, <3>3
  <2>4. newest' = newest
    BY <2>1 DEF newest
  <2>5. ZoneInv'
    BY <1>0, <2>1, <2>3, <2>4 DEF ZoneInv
  <2> QED BY <1>0, <2>1, <2>2, <2>5, ZonesLeaveRecords
<1>5. CASE fetchZoneHandler
  <2>1. UNCHANGED <<task, records, handlers, txt, disc>>
    BY <1>5 DEF fetchZoneHandler
  <2>2. check' \in CheckTypes /\ quiet' \in BOOLEAN
    BY <1>0, <1>5 DEF fetchZoneHandler
  <2>3. ZoneInv'
    BY <1>0, <1>5, <2>1 DEF fetchZoneHandler, ZoneInv, newest
  <2> QED BY <1>0, <2>1, <2>2, <2>3, ZonesLeaveRecords
<1>6. CASE ZoneAgain
  BY <1>0, <1>6, ZonesLeaveRecords DEF ZoneAgain, ZoneInv, newest, NoDisc, NoCheck
<1>7. ASSUME NEW k \in Keys, Announce(k) PROVE ResolverInv'
  <2>1. UNCHANGED <<task, records, txt, disc, check>> /\ quiet' = FALSE
    BY <1>7 DEF Announce
  <2>2. handlers' \in Seq(Keys) /\ Len(handlers') <= MaxEvents
    BY <1>0, <1>7 DEF Announce
  <2>3. ZoneInv'
    BY <1>0, <2>1 DEF ZoneInv
  <2> QED BY <1>0, <2>1, <2>2, <2>3, ZonesLeaveRecords
<1>8. CASE ChangeTxt
  <2>1. UNCHANGED <<task, records, handlers, disc, check>> /\ quiet' = FALSE /\ txt' \in Keys \cup {None}
    BY <1>8 DEF ChangeTxt
  <2>2. ZoneInv'
    BY <1>0, <2>1 DEF ZoneInv
  <2> QED BY <1>0, <2>1, <2>2, ZonesLeaveRecords
<1> QED
  BY <1>1, <1>2, <1>3, <1>4, <1>5, <1>6, <1>7, <1>8 DEF Zones

LEMMA ResolverInvHolds == Spec => []ResolverInv
<1>1. ResolverInv /\ [Next]_vars => ResolverInv'
  <2>1. ResolverInv /\ UNCHANGED vars => ResolverInv'
    BY DEF ResolverInv, TypeOK, ResultInv, ZoneInv, vars, records, zones, newest, Complete, Got
  <2> QED BY <2>1, RecordsKeep, ZonesKeep DEF Next
<1> QED BY <1>1, ResolverInit, PTL DEF Spec

\* Queries, results and zones have their types, whatever the sources answer.
THEOREM TypeCorrect == Spec => []TypeOK
BY ResolverInvHolds, PTL DEF ResolverInv

\* A record that the tripartite mode returns (resolveVerified, toResolvedRecords in
\* nodns-resolver/src/verify.ts) was seen in two sources, for any records, and
\* whatever changes or fails while the three are read.
THEOREM SeenInTwo == Spec => []SeenTwice
<1>1. ResolverInv => SeenTwice
  <2> SUFFICES ASSUME ResolverInv, result.st = "done", query.mode = "tripartite",
                      NEW k \in result.records
               PROVE  Cardinality({s \in Sources : k \in Got(s)}) >= 2
    BY DEF SeenTwice
  <2> DEFINE S == {s \in Sources : k \in Got(s)}
  <2>1. IsFiniteSet(Sources)
    <3>1. IsFiniteSet({"api"})
      BY FS_Singleton
    <3>2. IsFiniteSet({"api"} \cup {"nostr"})
      BY <3>1, FS_AddElement
    <3>3. IsFiniteSet(({"api"} \cup {"nostr"}) \cup {"dns"})
      BY <3>2, FS_AddElement
    <3>4. Sources = ({"api"} \cup {"nostr"}) \cup {"dns"}
      BY DEF Sources
    <3> QED BY <3>3, <3>4
  <2>2. IsFiniteSet(S)
    BY <2>1, FS_Subset
  <2>3. k \in toResolvedRecords(Got("api"), Got("nostr"), Got("dns"))
    BY DEF ResolverInv, ResultInv
  <2>4. \E x \in S, y \in S : x # y
    BY <2>3, ReturnedTwice DEF Sources
  <2> QED BY <2>2, <2>4, TwoMembers
<1> QED BY <1>1, ResolverInvHolds, PTL

\* discoverZones and checkZone (nodns-resolver/src/zones.ts) agree on a zone that
\* nobody changes while they run, for any number of announcements by any keys.
THEOREM ZonesAgree == Spec => []ZoneChecksAgree
<1>1. ResolverInv => ZoneChecksAgree
  <2> SUFFICES ASSUME ResolverInv, quiet, disc.st = "done", disc.verified, check.st = "done"
               PROVE  check.res = "verified"
    BY DEF ZoneChecksAgree
  <2>1. handlers # <<>> /\ txt = newest
    BY DEF ResolverInv, ZoneInv
  <2>2. Len(handlers) \in DOMAIN handlers /\ handlers[Len(handlers)] = txt /\ txt \in Keys
    BY <2>1 DEF ResolverInv, TypeOK, newest
  <2> QED BY <2>2, ResolverAssumption DEF ResolverInv, ZoneInv
<1> QED BY <1>1, ResolverInvHolds, PTL
=============================================================================
