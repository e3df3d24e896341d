------------------------------ MODULE Resolver ------------------------------
(***************************************************************************)
(* The resolver library of the web applications and the command line       *)
(* client (nodns-resolver/src): the three resolution modes, the comparison *)
(* of the three sources, and the discovery and the check of zones.         *)
(*                                                                         *)
(* The relays, the operator's API and DNS are external and change while a  *)
(* query runs.  A query asks its sources at once and reads each at another *)
(* moment; a source that fails or times out counts as empty.               *)
(*                                                                         *)
(* A record is its type and data; all are records of the one name that is  *)
(* asked for, with one TTL.                                                *)
(***************************************************************************)
EXTENDS Naturals, Sequences, FiniteSets

CONSTANTS
    Recs,         \* records
    TTL,          \* the TTL, where it is read as data
    Keys,         \* keys that announce the zone
    None,
    MaxEvents     \* bound: events on the relays

ASSUME ResolverAssumption ==
    TTL \notin Recs /\ None \notin Keys /\ MaxEvents \in Nat

VARIABLES
    task,     \* what runs: "records" or "zones"
    relays,   \* record events on the relays, oldest first
    api,      \* records the operator's API has
    dns,      \* records DNS has
    query,    \* the query that runs: its mode and what its sources answered
    result,   \* its result
    handlers, \* zone announcements on the relays, oldest first: their signers
    txt,      \* the npub of the zone's _nodns TXT record
    disc,     \* discoverZones
    check,    \* checkZone
    quiet     \* history: nothing changed or failed since disc and check were idle

records == <<relays, api, dns, query, result>>
zones == <<handlers, txt, disc, check, quiet>>
vars == <<task, records, zones>>

Modes == {"dns", "nostr", "tripartite"}
Events == [rec: Recs, form: {"five", "eleven"}, del: BOOLEAN]
Sources == {"api", "nostr", "dns"}

\* What a source's record is compared by, `${type}:${data}`: DNS answers have
\* numbers for types, which the names of the other sources never equal.
Data == [type: {"name", "number"}, data: Recs \cup {TTL}]
Key(r) == [type |-> "name", data |-> r]
dnsKey(r) == [type |-> "number", data |-> r]

Pending == [st |-> "pending", has |-> {}]
Answered(S) == [st |-> "answered", has |-> S]
NoQuery == [mode |-> None, got |-> [s \in Sources |-> Pending]]
NoResult == [st |-> "none", records |-> {}, verified |-> FALSE]

TypeOK ==
    /\ task \in {"records", "zones"}
    /\ relays \in Seq(Events) /\ Len(relays) <= MaxEvents
    /\ api \subseteq Recs /\ dns \subseteq Recs
    /\ query \in [mode: Modes \cup {None}, got: [Sources -> [st: {"pending", "answered"}, has: SUBSET Data]]]
    /\ result \in [st: {"none", "done"}, records: SUBSET Data, verified: BOOLEAN]
    /\ handlers \in Seq(Keys) /\ Len(handlers) <= MaxEvents
    /\ txt \in Keys \cup {None}
    /\ disc \in [st: {"idle", "asked", "found", "done"}, signer: Keys \cup {None}, verified: BOOLEAN]
    /\ check \in [st: {"idle", "asked", "done"}, npub: Keys \cup {None},
                  res: {"none", "not-opted-in", "unverified", "verified"}]
    /\ quiet \in BOOLEAN

NoDisc == [st |-> "idle", signer |-> None, verified |-> FALSE]
NoCheck == [st |-> "idle", npub |-> None, res |-> "none"]

Init ==
    /\ task \in {"records", "zones"}
    /\ relays = <<>> /\ api = {} /\ dns = {}
    /\ query = NoQuery /\ result = NoResult
    /\ handlers = <<>> /\ txt = None
    /\ disc = NoDisc /\ check = NoCheck /\ quiet = TRUE

----------------------------------------------------------------------------
(* Events and records. *)

\* The data parseRecordsFromEvent takes, the tag's fourth field: the data of
\* the old form of eleven fields, the TTL of the form of five that
\* buildRecordTag makes.  Nothing tells a deletion apart.
value(e) == IF e.form = "eleven" THEN e.rec ELSE TTL

\* A tag without data, the deletion of the old form, is skipped.
Parsed(i) ==
    LET e == relays[i] IN
    IF e.form = "eleven" /\ e.del THEN {} ELSE {[key |-> Key(value(e)), at |-> i]}

\* deduplicateRecords keeps the newest of the records that are equal.
deduplicateRecords(S) == {r \in S : \A o \in S : o.key = r.key => o.at <= r.at}

\* queryRecordsByDomain, from the events the relays answered with.
queryRecords(answered) == deduplicateRecords(UNION {Parsed(i) : i \in answered})

----------------------------------------------------------------------------
(* Resolution. *)

\* resolve and resolveVerified up to the await of their sources.
resolve ==
    /\ task = "records" /\ query.mode = None
    /\ \E mode \in Modes : query' = [NoQuery EXCEPT !.mode = mode]
    /\ result' = NoResult
    /\ UNCHANGED <<task, relays, api, dns, zones>>

Asks(s) ==
    /\ query.mode # None /\ query.got[s].st = "pending"
    /\ query.mode \in {s, "tripartite"}

fetchApiRecords ==
    /\ Asks("api")
    /\ \E has \in {{}, api} : query' = [query EXCEPT !.got["api"] = Answered({Key(r) : r \in has})]
    /\ UNCHANGED <<task, relays, api, dns, result, zones>>

\* The relays' answers that came in time.
fetchNostrRecords ==
    /\ Asks("nostr")
    /\ \E answered \in SUBSET DOMAIN relays :
         query' = [query EXCEPT !.got["nostr"] =
                     Answered({r.key : r \in queryRecords(answered)})]
    /\ UNCHANGED <<task, relays, api, dns, result, zones>>

\* fetchDnsRecords keeps the numbers of the types; queryAllDnsRecordTypes, of
\* the dns mode, has their names.  Some of the types may fail.
fetchDnsRecords ==
    /\ query.mode = "tripartite" /\ Asks("dns")
    /\ \E has \in SUBSET dns : query' = [query EXCEPT !.got["dns"] = Answered({dnsKey(r) : r \in has})]
    /\ UNCHANGED <<task, relays, api, dns, result, zones>>

queryAllDnsRecordTypes ==
    /\ query.mode = "dns" /\ Asks("dns")
    /\ \E has \in SUBSET dns : query' = [query EXCEPT !.got["dns"] = Answered({Key(r) : r \in has})]
    /\ UNCHANGED <<task, relays, api, dns, result, zones>>

\* match: no record is in one source alone.
compareTripartite(a, n, d) ==
    /\ a \subseteq n \cup d
    /\ n \subseteq a \cup d
    /\ d \subseteq a \cup n

\* The records that are returned: those of DNS, or else the API's, if the
\* sources match; otherwise the API's that another source has.
mutant_toResolvedRecords(a, n, d) ==
    IF compareTripartite(a, n, d)
      THEN IF d # {} THEN d ELSE a
      ELSE a
toResolvedRecords(a, n, d) ==
    IF compareTripartite(a, n, d)
      THEN IF d # {} THEN d ELSE a
      ELSE {k \in a : k \in n \/ k \in d}

Got(s) == query.got[s].has
Complete == query.mode # None /\ \A s \in Sources : query.mode \in {s, "tripartite"} => query.got[s].st = "answered"

\* resolve returns what its one source has, resolveVerified what is agreed on.
Returns ==
    /\ Complete
    /\ result' = IF query.mode = "tripartite"
         THEN [st |-> "done", records |-> toResolvedRecords(Got("api"), Got("nostr"), Got("dns")),
               verified |-> compareTripartite(Got("api"), Got("nostr"), Got("dns"))]
         ELSE [st |-> "done", records |-> Got(query.mode), verified |-> FALSE]
    /\ UNCHANGED <<task, relays, api, dns, query, zones>>
    /\ result.st = "none"

\* The caller is done with the result.
Ask == result.st = "done" /\ query' = NoQuery /\ result' = NoResult
       /\ UNCHANGED <<task, relays, api, dns, zones>>

\* Someone publishes a record; the API and DNS change as the bot sees fit.
Publish(e) ==
    /\ task = "records" /\ query = NoQuery /\ Len(relays) < MaxEvents /\ relays' = Append(relays, e)
    /\ UNCHANGED <<task, api, dns, query, result, zones>>

BotApplies ==
    /\ task = "records"
    /\ api' \in SUBSET Recs /\ dns' \in SUBSET Recs
    /\ UNCHANGED <<task, relays, query, result, zones>>

----------------------------------------------------------------------------
(* Zones. *)

\* discoverZones asks for the announcements and takes the newest of the zone.
discoverZones ==
    /\ task = "zones" /\ disc.st = "idle" /\ disc' = [NoDisc EXCEPT !.st = "asked"]
    /\ UNCHANGED <<task, records, handlers, txt, check, quiet>>

newest == handlers[Len(handlers)]

queryZoneHandlerEvents ==
    /\ disc.st = "asked"
    /\ \/ handlers # <<>> /\ disc' = [disc EXCEPT !.st = "found", !.signer = newest]
          /\ UNCHANGED quiet
       \/ disc' = [disc EXCEPT !.st = "done"] /\ quiet' = (quiet /\ handlers = <<>>)
    /\ UNCHANGED <<task, records, handlers, txt, check>>

\* The TXT record must name the signer.
mutant_verifies(npub, signer) == npub # None
verifies(npub, signer) == npub = signer

fetchDnsTxt ==
    /\ disc.st = "found"
    /\ \E npub \in {None, txt} :
         /\ disc' = [disc EXCEPT !.st = "done", !.verified = verifies(npub, disc.signer)]
         /\ quiet' = (quiet /\ npub = txt)
    /\ UNCHANGED <<task, records, handlers, txt, check>>

\* checkZone looks at the TXT record first, and then for an announcement of
\* the key it names.
checkZone ==
    /\ task = "zones" /\ check.st = "idle"
    /\ \E npub \in {None, txt} :
         /\ check' = IF npub = None THEN [st |-> "done", npub |-> None, res |-> "not-opted-in"]
                     ELSE [st |-> "asked", npub |-> npub, res |-> "none"]
         /\ quiet' = (quiet /\ npub = txt)
    /\ UNCHANGED <<task, records, handlers, txt, disc>>

fetchZoneHandler ==
    /\ check.st = "asked"
    /\ \E answered \in BOOLEAN :
         LET found == answered /\ \E i \in DOMAIN handlers : handlers[i] = check.npub IN
         /\ check' = [check EXCEPT !.st = "done", !.res = IF found THEN "verified" ELSE "unverified"]
         /\ quiet' = (quiet /\ answered)
    /\ UNCHANGED <<task, records, handlers, txt, disc>>

ZoneAgain ==
    /\ disc.st = "done" /\ check.st = "done"
    /\ disc' = NoDisc /\ check' = NoCheck /\ quiet' = TRUE
    /\ UNCHANGED <<task, records, handlers, txt>>

\* An operator, of this zone or of another who claims it, announces it, and
\* the TXT record changes.
Announce(k) ==
    /\ task = "zones" /\ Len(handlers) < MaxEvents /\ handlers' = Append(handlers, k)
    /\ quiet' = FALSE
    /\ UNCHANGED <<task, records, txt, disc, check>>

ChangeTxt ==
    /\ task = "zones" /\ txt' \in Keys \cup {None} /\ quiet' = FALSE
    /\ UNCHANGED <<task, records, handlers, disc, check>>

Records ==
    \/ resolve \/ fetchApiRecords \/ fetchNostrRecords \/ fetchDnsRecords
    \/ queryAllDnsRecordTypes \/ Returns \/ Ask
    \/ \E e \in Events : Publish(e)
    \/ BotApplies
Zones ==
    \/ discoverZones \/ queryZoneHandlerEvents \/ fetchDnsTxt \/ checkZone \/ fetchZoneHandler \/ ZoneAgain
    \/ \E k \in Keys : Announce(k)
    \/ ChangeTxt

Next == Records \/ Zones

Spec == Init /\ [][Next]_vars

----------------------------------------------------------------------------
(* Properties. *)

\* Cross-verification (docs/46-adr-sdk-architecture.md): a record the
\* tripartite mode returns was seen in two sources, although each was read at
\* another moment and some did not answer.
SeenTwice ==
    result.st = "done" /\ query.mode = "tripartite" =>
        \A k \in result.records : Cardinality({s \in Sources : k \in Got(s)}) >= 2

\* Discovery and check agree on a zone: what the one lists as verified the
\* other, which looks in the other order, does not refuse, if nothing changed
\* or failed meanwhile.
ZoneChecksAgree ==
    quiet /\ disc.st = "done" /\ disc.verified /\ check.st = "done" => check.res = "verified"

\* "All sources agree" (app/domain/page.tsx of the frontend, on match): every
\* record is in every source.
AllAgree ==
    result.st = "done" /\ result.verified => Got("api") = Got("nostr") /\ Got("nostr") = Got("dns")

\* A record made with buildRecordTag is read back with its data.
RoundTrip ==
    \A i \in DOMAIN relays : \A r \in Parsed(i) : ~relays[i].del => r.key = Key(relays[i].rec)
=============================================================================
