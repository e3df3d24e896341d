----------------------------- MODULE CliProofs -----------------------------
(***************************************************************************)
(* Proofs about Cli, for every set of relays and of records and any number *)
(* of polls and of changes while a command reads.                          *)
(***************************************************************************)
EXTENDS Cli, FiniteSetTheorems, WellFoundedInduction, TLAPS

Sources == {"relay", "api", "dns"}

\* The types the proofs need: those of TypeOK, but for the diff.
Types ==
    /\ cmd \in Cmds
    /\ opt \in [dry: BOOLEAN, skip: BOOLEAN, own: BOOLEAN, claim: BOOLEAN, valid: BOOLEAN]
    /\ pc \in Pcs /\ out \in Outs /\ (pc = "exit" <=> out # "none")
    /\ zone \in [txt: BOOLEAN, npub: BOOLEAN, announced: BOOLEAN, due: BOOLEAN]
    /\ world \in [Sources -> SUBSET Recs]
    /\ read \in [Sources -> Answer]
    /\ changes \in Nat

\* Which command is where.
PlaceInv ==
    /\ opt.dry => cmd \in {"add", "delete"}
    /\ pc \in {"gate", "pause", "offer"} => cmd \in {"add", "delete"}
    /\ pc \in {"quote", "poll", "expired", "mint", "send", "sign", "publish"} =>
         cmd \in {"add", "delete", "register"}
    /\ pc \in {"request", "proof"} => cmd = "burn"
    /\ pc \in {"check", "receive", "resend"} => cmd = "refund"
    /\ pc = "look" => cmd = "register"
    /\ pc \in {"verdict", "diff"} => cmd = "conformance"
    /\ pc \in {"relay", "api", "dns"} => cmd \in {"conformance", "resolve"}

\* No invoice before it is asked for, none for a dry run, and who asks for it.
InvoiceInv ==
    /\ pc \in {"start", "gate", "pause", "offer", "quote", "request"} => quote = "none"
    /\ pc \in {"start", "gate", "pause", "offer", "request"} => path = "none"
    /\ opt.dry => path = "none" /\ quote = "none"
    /\ path = "none" => quote = "none" /\ ~seen
    /\ pc \in {"quote", "poll", "expired", "mint", "send"} => path # "none"
    /\ path \in {"p2pk", "plain"} => cmd = "add"
    /\ pc = "expired" => path = "p2pk"
    /\ cmd = "refund" => quote = "none"
    /\ pc \notin {"look", "exit"} => has = {}

\* A payment that was seen on the plain path is at the mint, in the wallet, in the
\* token, or was lost to the mint.
PlainInv ==
    path = "plain" =>
      /\ seen => pc \in {"mint", "send", "sign", "publish", "exit"} /\ quote \in {"paid", "issued"}
      /\ pc \in {"mint", "send", "sign", "publish"} => seen
      /\ pc \in {"sign", "publish"} => sats = "token"
      /\ pc = "publish" => printed
      /\ SeenIsPrinted

\* What the ends of the commands rest on; the answers of resolve and zone-export are
\* in ReadInv.
EndInv ==
    /\ pc \in {"check", "receive", "resend"} => late
    /\ out = "confirmed" => has # {} \/ quote = "paid"
    /\ out = "reclaimed" => cmd = "refund" /\ sats = "user" /\ late
    /\ out \in {"dry", "refused"} => quote = "none" /\ has = {}
    /\ out = "verified" => zone.txt /\ zone.npub /\ zone.announced

\* If nothing changed, the bot answered with what it had and DNS with no more than that; a
\* single source answers resolve and zone-export; conformance asks DNS about the records of
\* the bot, if there are any, and its end is the verdict.
ReadInv ==
    /\ out = "answered" => cmd \in {"resolve", "zone-export"}
    /\ cmd \in Readers /\ changes = 0 =>
         /\ read["api"].ok => read["api"].records = world["api"]
         /\ read["dns"].records \subseteq world["dns"]
    /\ cmd \in {"resolve", "zone-export"} =>
         /\ pc # "exit" => \A s \in Sources : ~read[s].ok
         /\ \A s, t \in Sources : read[s].ok /\ read[t].ok => s = t
    /\ cmd = "conformance" =>
         /\ pc \in {"start", "relay", "api"} => ~B.ok
         /\ pc \in {"start", "relay", "api", "dns"} => ~C.ok
         /\ pc = "dns" => B.ok /\ B.records # {}
         /\ pc \in {"verdict", "diff", "exit"} /\ B.ok => (C.ok <=> B.records # {})
         /\ C.ok => C.records \subseteq B.records
         /\ pc = "exit" => out = Verdict

CliInv == Types /\ PlaceInv /\ InvoiceInv /\ PlainInv /\ EndInv /\ ReadInv

LEMMA CliInit == Init => CliInv
<1> SUFFICES ASSUME Init PROVE CliInv
  OBVIOUS
<1> USE CliAssumption DEF Init
<1>1. Types
  <2>1. opt \in [dry: BOOLEAN, skip: BOOLEAN, own: BOOLEAN, claim: BOOLEAN, valid: BOOLEAN]
    BY DEF Options
  <2>2. zone \in [txt: BOOLEAN, npub: BOOLEAN, announced: BOOLEAN, due: BOOLEAN]
    <3>1. CASE cmd \in {"add", "delete", "zone-check"}
      BY <3>1
    <3>2. CASE cmd \notin {"add", "delete", "zone-check"}
      <4>1. zone = [txt |-> TRUE, npub |-> TRUE, announced |-> TRUE, due |-> FALSE]
        BY <3>2
      <4> QED BY <4>1, Zenon
    <3> QED BY <3>1, <3>2
  <2>3. world \in [Sources -> SUBSET Recs]
    BY DEF Sources
  <2>4. read \in [Sources -> Answer]
    BY DEF Sources, Answer, Unread
  <2> QED BY <2>1, <2>2, <2>3, <2>4 DEF Types, Pcs, Outs
<1>2. PlaceInv
  BY DEF PlaceInv, Options
<1>3. InvoiceInv /\ PlainInv /\ EndInv
  BY DEF InvoiceInv, PlainInv, EndInv, Options
<1>4. ReadInv
  BY DEF ReadInv, Sources, Unread, Readers, B, C
<1> QED BY <1>1, <1>2, <1>3, <1>4 DEF CliInv

----------------------------------------------------------------------------
(* The steps. *)

\* What was read stays as it is while the command reads nothing.
LEMMA NothingRead ==
    ASSUME CliInv, UNCHANGED <<cmd, sources>>, cmd \notin Readers, out' # "answered"
    PROVE  ReadInv'
BY DEF CliInv, Types, ReadInv, sources, Readers, Sources, B, C, Verdict, hasDifferences, A

LEMMA PublishingKeeps == ASSUME CliInv, Publishing PROVE CliInv'
<1> USE DEF CliInv, Goto, Exit, money, Publishing, Validate, checkZone, Continue, Abort, signAndPublish, publish
<1>1. Types'
  BY DEF Types, PlaceInv, sources, Pcs, Outs
<1>2. PlaceInv'
  BY DEF PlaceInv
<1>3. InvoiceInv'
  BY DEF PlaceInv, InvoiceInv
<1>4. PlainInv'
  BY DEF Types, PlaceInv, InvoiceInv, PlainInv, SeenIsPrinted
<1>5. EndInv'
  BY DEF Types, PlaceInv, InvoiceInv, EndInv
<1>6. cmd \notin Readers /\ UNCHANGED <<cmd, sources>> /\ out' # "answered"
  BY DEF Types, PlaceInv, Readers
<1>7. ReadInv'
  BY <1>6, NothingRead
<1> QED BY <1>1, <1>2, <1>3, <1>4, <1>5, <1>7

LEMMA PayingKeeps == ASSUME CliInv, Paying PROVE CliInv'
<1> USE DEF CliInv, Goto, Exit, money, Paying, createP2pkTokenWithRefund, needsPayment, createMintQuote,
            createPaymentToken, pollP2pk, Expired, mintProofs, walletSend
<1>1. Types'
  BY DEF Types, PlaceInv, sources, Pcs, Outs
<1>2. PlaceInv'
  BY DEF PlaceInv
<1>3. InvoiceInv'
  BY DEF PlaceInv, InvoiceInv
<1>4. PlainInv'
  BY DEF Types, PlaceInv, InvoiceInv, PlainInv, SeenIsPrinted
<1>5. EndInv'
  BY DEF Types, PlaceInv, InvoiceInv, EndInv
<1>6. cmd \notin Readers /\ UNCHANGED <<cmd, sources>> /\ out' # "answered"
  BY DEF Types, PlaceInv, Readers
<1>7. ReadInv'
  BY <1>6, NothingRead
<1> QED BY <1>1, <1>2, <1>3, <1>4, <1>5, <1>7

LEMMA ScriptKeeps == ASSUME CliInv, Script PROVE CliInv'
<1> USE DEF CliInv, Goto, Exit, money, Script, register, mintCashu, publishEvent, LookUp
<1>1. Types'
  BY DEF Types, PlaceInv, sources, Pcs, Outs
<1>2. PlaceInv'
  BY DEF PlaceInv
<1>3. InvoiceInv'
  BY DEF PlaceInv, InvoiceInv
<1>4. PlainInv'
  BY DEF Types, PlaceInv, InvoiceInv, PlainInv, SeenIsPrinted
<1>5. EndInv'
  BY DEF Types, PlaceInv, InvoiceInv, EndInv
<1>6. cmd \notin Readers /\ UNCHANGED <<cmd, sources>> /\ out' # "answered"
  BY DEF Types, PlaceInv, Readers
<1>7. ReadInv'
  BY <1>6, NothingRead
<1> QED BY <1>1, <1>2, <1>3, <1>4, <1>5, <1>7

LEMMA BurningKeeps == ASSUME CliInv, Burning PROVE CliInv'
<1> USE DEF CliInv, Goto, Exit, money, Burning, burn, createBurnRequest, pollForProof
<1>1. Types'
  BY DEF Types, PlaceInv, sources, Pcs, Outs
<1>2. PlaceInv'
  BY DEF PlaceInv
<1>3. InvoiceInv'
  BY DEF PlaceInv, InvoiceInv
<1>4. PlainInv'
  BY DEF Types, PlaceInv, InvoiceInv, PlainInv, SeenIsPrinted
<1>5. EndInv'
  BY DEF Types, PlaceInv, InvoiceInv, EndInv
<1>6. cmd \notin Readers /\ UNCHANGED <<cmd, sources>> /\ out' # "answered"
  BY DEF Types, PlaceInv, Readers
<1>7. ReadInv'
  BY <1>6, NothingRead
<1> QED BY <1>1, <1>2, <1>3, <1>4, <1>5, <1>7

LEMMA EligibleKeeps == ASSUME CliInv, checkRefundEligibility \/ refund PROVE CliInv'
<1>1. /\ cmd = "refund" /\ pc \in {"start", "check"}
      /\ UNCHANGED <<cmd, opt, zone, gate, money, has, sources>>
  BY DEF CliInv, PlaceInv, checkRefundEligibility, refund, Goto, Exit
<1>2. \/ pc' = "exit" /\ out' \in {"invalid", "not yet", "eligible"}
      \/ pc' \in {"check", "receive"} /\ late /\ UNCHANGED out
  BY DEF CliInv, EndInv, checkRefundEligibility, refund, Goto, Exit
<1>3. Types'
  <2>1. UNCHANGED <<cmd, opt, zone, world, read, changes>>
    BY <1>1 DEF sources
  <2>2. pc # "exit" /\ pc' \in Pcs
    BY <1>1, <1>2 DEF Pcs
  <2>3. out' \in Outs /\ (pc' = "exit" <=> out' # "none")
    BY <1>2, <2>2 DEF CliInv, Types, Outs
  <2> QED BY <2>1, <2>2, <2>3 DEF CliInv, Types
<1>4. PlaceInv'
  BY <1>1, <1>2 DEF CliInv, PlaceInv
<1>5. InvoiceInv' /\ PlainInv' /\ EndInv'
  BY <1>1, <1>2 DEF CliInv, Types, InvoiceInv, PlainInv, SeenIsPrinted, EndInv, money
<1>6. ReadInv'
  BY <1>1, <1>2, NothingRead DEF CliInv, Types, Readers
<1> QED BY <1>3, <1>4, <1>5, <1>6 DEF CliInv

LEMMA ReclaimKeeps == ASSUME CliInv, reclaimExpiredToken \/ Resend PROVE CliInv'
<1> USE DEF CliInv, Goto, Exit, money, reclaimExpiredToken, Resend
<1>1. Types'
  BY DEF Types, PlaceInv, sources, Pcs, Outs
<1>2. PlaceInv'
  BY DEF PlaceInv
<1>3. InvoiceInv'
  BY DEF PlaceInv, InvoiceInv
<1>4. PlainInv'
  BY DEF Types, PlaceInv, InvoiceInv, PlainInv, SeenIsPrinted
<1>5. EndInv'
  BY DEF Types, PlaceInv, InvoiceInv, EndInv
<1>6. cmd \notin Readers /\ UNCHANGED <<cmd, sources>> /\ out' # "answered"
  BY DEF Types, PlaceInv, Readers
<1>7. ReadInv'
  BY <1>6, NothingRead
<1> QED BY <1>1, <1>2, <1>3, <1>4, <1>5, <1>7

LEMMA EnvironmentKeeps == ASSUME CliInv, Environment PROVE CliInv'
<1> USE DEF CliInv, Environment, Pay, TimePasses, OperatorClaims, RecordsChange
<1>1. Types'
  BY DEF Types, Sources, sources, money
<1>2. PlaceInv'
  BY DEF PlaceInv, sources, money
<1>3. InvoiceInv'
  BY DEF InvoiceInv, sources, money
<1>4. PlainInv'
  BY DEF Types, InvoiceInv, PlainInv, SeenIsPrinted, sources, money
<1>5. EndInv'
  BY DEF Types, PlaceInv, InvoiceInv, EndInv, sources, money
<1>6. ReadInv'
  <2>1. CASE RecordsChange
    BY <2>1 DEF Types, ReadInv, sources, B, C, Verdict, hasDifferences, A
  <2>2. CASE Pay \/ TimePasses \/ OperatorClaims
    BY <2>2 DEF ReadInv, sources, B, C, Verdict, hasDifferences, A
  <2> QED BY <2>1, <2>2
<1> QED BY <1>1, <1>2, <1>3, <1>4, <1>5, <1>6

\* The steps that read keep what is said of the money.
LEMMA ReadingKeepsMoney ==
    ASSUME CliInv, Comparing \/ Reading
    PROVE  Types' /\ PlaceInv' /\ InvoiceInv' /\ PlainInv' /\ EndInv'
<1> USE DEF CliInv, Goto, Exit, money, Comparing, Reading, Reads, sources,
            conformance, fetchZoneEvents, fetchApiRecords, queryZoneRecords, Compare, generateUnifiedDiff,
            zoneCheck, zoneExport, resolve, resolveViaNostr, resolveViaApi, resolveViaDns, querySync
<1>1. Types'
  <2>1. Verdict \in Outs \ {"none", "confirmed", "reclaimed", "dry", "refused", "verified"}
    BY DEF Verdict, Outs
  <2>2. read' \in [Sources -> Answer]
    <3>1. \A s \in Sources : \A S \in SUBSET Recs : Reads(s, S) => read' \in [Sources -> Answer]
      BY DEF Types, Sources, Answer
    <3>2. \A s \in Sources : world[s] \in SUBSET Recs
      BY DEF Types
    <3> HIDE DEF Reads
    <3> QED BY <3>1, <3>2 DEF Types, Sources
  <2>3. /\ pc' \in Pcs /\ out' \in Outs /\ (pc' = "exit" <=> out' # "none")
        /\ UNCHANGED <<cmd, opt, zone, world, changes>>
    BY <2>1 DEF Types, Pcs, Outs
  <2> QED BY <2>2, <2>3 DEF Types
<1>2. PlaceInv'
  BY DEF PlaceInv
<1>3. InvoiceInv'
  BY DEF PlaceInv, InvoiceInv
<1>4. PlainInv'
  BY DEF Types, PlaceInv, InvoiceInv, PlainInv, SeenIsPrinted
<1>5. EndInv'
  BY DEF Types, PlaceInv, InvoiceInv, EndInv, Verdict
<1> QED BY <1>1, <1>2, <1>3, <1>4, <1>5

LEMMA ReadingKeeps == ASSUME CliInv, Reading PROVE ReadInv'
<1> USE DEF CliInv, Goto, Exit, money, Reads, B, C
<1>1. CASE zoneCheck
  BY <1>1, NothingRead DEF zoneCheck, Readers
<1>2. CASE zoneExport
  BY <1>2 DEF zoneExport, querySync, ReadInv, Types, Sources, Answer
<1>3. CASE resolve
  BY <1>3 DEF resolve, ReadInv, Types, sources
<1>4. CASE resolveViaNostr
  BY <1>4 DEF resolveViaNostr, querySync, ReadInv, Types, Sources, Answer
<1>5. CASE resolveViaApi
  BY <1>5 DEF resolveViaApi, ReadInv, Types, Sources, Answer
<1>6. CASE resolveViaDns
  BY <1>6 DEF resolveViaDns, ReadInv, Types, Sources, Answer
<1> QED BY <1>1, <1>2, <1>3, <1>4, <1>5, <1>6 DEF Reading

LEMMA ComparingKeeps == ASSUME CliInv, Comparing PROVE ReadInv'
<1> USE DEF CliInv, Goto, Exit, money, Reads, B, C
<1>1. CASE conformance
  BY <1>1 DEF conformance, ReadInv, Types, sources
<1>2. CASE fetchZoneEvents
  BY <1>2 DEF fetchZoneEvents, querySync, ReadInv, Types, Sources, Answer, PlaceInv
<1>3. CASE fetchApiRecords
  BY <1>3 DEF fetchApiRecords, ReadInv, Types, Sources, Answer
<1>4. CASE queryZoneRecords
  BY <1>4 DEF queryZoneRecords, ReadInv, Types, Sources, Answer
<1>5. CASE Compare
  BY <1>5 DEF Compare, ReadInv, Types, PlaceInv, sources, Verdict, hasDifferences, A
<1>6. CASE generateUnifiedDiff
  BY <1>6 DEF generateUnifiedDiff, ReadInv, Types, PlaceInv, Verdict, hasDifferences, A
<1> QED BY <1>1, <1>2, <1>3, <1>4, <1>5, <1>6 DEF Comparing

LEMMA CliNext == ASSUME CliInv, [Next]_vars PROVE CliInv'
<1>1. CASE Comparing \/ Reading
  BY <1>1, ReadingKeepsMoney, ReadingKeeps, ComparingKeeps DEF CliInv
<1>2. CASE UNCHANGED vars
  BY <1>2 DEF vars, money, sources, CliInv, Types, PlaceInv, InvoiceInv, PlainInv, SeenIsPrinted, EndInv,
              ReadInv, Verdict, hasDifferences, A, B, C
<1> QED
  BY <1>1, <1>2, PublishingKeeps, PayingKeeps, ScriptKeeps, BurningKeeps, EligibleKeeps, ReclaimKeeps,
     EnvironmentKeeps
     DEF Next, Command, Refunding

LEMMA CliHolds == Spec => []CliInv
BY CliInit, CliNext, PTL DEF Spec

----------------------------------------------------------------------------
(* The zone files. *)

Increasing(s) == \A m, n \in 1..Len(s) : m < n => s[m] < s[n]

\* The predicate that zoneFile chooses by.
Enumerates(s, S) ==
    /\ s \in [1 .. Cardinality(S) -> S]
    /\ \A m, n \in 1 .. Cardinality(S) : m < n => s[m] < s[n]

LEMMA RecsFinite == \A S \in SUBSET Recs : IsFiniteSet(S) /\ Cardinality(S) \in Nat /\ S \subseteq Nat
BY CliAssumption, FS_Subset, FS_CardinalityType

LEMMA LeastOf == ASSUME NEW S \in SUBSET Nat, S # {} PROVE \E x \in S : \A y \in S : x <= y
<1>1. PICK x \in S : \A y \in S : ~(<<y, x>> \in OpToRel(<, Nat))
  BY NatLessThanWellFounded, WFMin
<1>2. \A y \in S : ~(y < x)
  BY <1>1 DEF OpToRel
<1> QED BY <1>2

\* Put before an enumeration, a smaller record gives one of both.
LEMMA EnumeratesMore ==
    ASSUME NEW S \in SUBSET Recs, NEW x \in S, \A y \in S : x <= y,
           NEW t, Enumerates(t, S \ {x})
    PROVE  \E s : Enumerates(s, S)
<1> DEFINE c == Cardinality(S \ {x})
           s == [i \in 1 .. Cardinality(S) |-> IF i = 1 THEN x ELSE t[i - 1]]
<1>1. Cardinality(S) = c + 1 /\ c \in Nat
  <2>1. IsFiniteSet(S \ {x}) /\ c \in Nat
    BY RecsFinite
  <2>2. (S \ {x}) \cup {x} = S
    OBVIOUS
  <2>3. Cardinality((S \ {x}) \cup {x}) = c + 1
    BY <2>1, FS_AddElement
  <2> QED BY <2>1, <2>2, <2>3
<1>2. t \in [1 .. c -> S \ {x}] /\ \A m, n \in 1 .. c : m < n => t[m] < t[n]
  BY DEF Enumerates
<1> HIDE DEF c
<1>3. \A i \in 2 .. c + 1 : i - 1 \in 1 .. c /\ t[i - 1] \in S /\ x < t[i - 1]
  <2>1. \A i \in 2 .. c + 1 : i - 1 \in 1 .. c
    BY <1>1
  <2>2. \A y \in S \ {x} : y \in S /\ x < y
    BY RecsFinite
  <2>3. \A i \in 2 .. c + 1 : t[i - 1] \in S \ {x}
    BY <1>2, <2>1
  <2> QED BY <2>1, <2>2, <2>3
<1>4. s \in [1 .. Cardinality(S) -> S]
  BY <1>1, <1>3
<1>5. ASSUME NEW m \in 1 .. c + 1, NEW n \in 1 .. c + 1, m < n PROVE s[m] < s[n]
  <2>1. n \in 2 .. c + 1 /\ s[n] = t[n - 1]
    BY <1>1, <1>5
  <2>2. CASE m = 1
    BY <1>1, <1>3, <2>1, <2>2
  <2>3. CASE m # 1
    <3>1. m \in 2 .. c + 1 /\ s[m] = t[m - 1] /\ m - 1 < n - 1
      BY <1>1, <1>5, <2>3
    <3> QED BY <1>2, <1>3, <2>1, <3>1
  <2> QED BY <2>2, <2>3
<1> HIDE DEF s
<1> QED BY <1>1, <1>4, <1>5 DEF Enumerates

\* Every set of records can be put in order: of those that could not, one would be
\* smallest, and without its first record it could.
LEMMA Enumerable == \A S \in SUBSET Recs : \E s : Enumerates(s, S)
<1> SUFFICES ASSUME NEW Q \in SUBSET Recs, \A s : ~Enumerates(s, Q) PROVE FALSE
  OBVIOUS
<1> DEFINE Bad == {S \in SUBSET Recs : \A s : ~Enumerates(s, S)}
           T == {Cardinality(S) : S \in Bad}
<1>1. T \in SUBSET Nat /\ T # {}
  BY RecsFinite
<1>2. PICK n \in T : \A k \in T : n <= k
  BY <1>1, LeastOf
<1>3. PICK S \in Bad : n = Cardinality(S)
  OBVIOUS
<1>4. S \in SUBSET Recs /\ S \subseteq Nat /\ IsFiniteSet(S) /\ Cardinality(S) \in Nat
  BY RecsFinite
<1>5. S # {}
  <2> SUFFICES ASSUME S = {} PROVE FALSE
    OBVIOUS
  <2>1. Cardinality(S) = 0
    BY FS_EmptySet
  <2>2. [i \in {} |-> i] \in [1 .. 0 -> {}]
    BY 1 .. 0 = {}
  <2>3. \E s : Enumerates(s, {})
    BY <2>1, <2>2 DEF Enumerates
  <2> QED BY <2>3
<1>6. PICK x \in S : \A y \in S : x <= y
  BY <1>4, <1>5, LeastOf
<1>7. S \ {x} \notin Bad
  <2>1. Cardinality(S \ {x}) = Cardinality(S) - 1
    BY <1>4, FS_RemoveElement
  <2> QED BY <1>2, <1>3, <1>4, <2>1
<1>8. PICK t : Enumerates(t, S \ {x})
  BY <1>4, <1>7
<1> QED BY <1>4, <1>6, <1>8, EnumeratesMore

\* A zone file has each record of its set once, in their order.
LEMMA ZoneFile ==
    ASSUME NEW S \in SUBSET Recs
    PROVE  /\ zoneFile(S) \in Seq(Recs) /\ Increasing(zoneFile(S))
           /\ {zoneFile(S)[k] : k \in 1 .. Len(zoneFile(S))} = S
<1> DEFINE s == zoneFile(S)
           c == Cardinality(S)
<1>0. IsFiniteSet(S) /\ c \in Nat /\ S \subseteq Nat
  BY RecsFinite
<1>1. Enumerates(s, S)
  <2>1. zoneFile(S) = CHOOSE f \in [1 .. Cardinality(S) -> S] :
                        \A m, n \in 1 .. Cardinality(S) : m < n => f[m] < f[n]
    BY DEF zoneFile, sorted
  <2>2. \E f \in [1 .. Cardinality(S) -> S] : \A m, n \in 1 .. Cardinality(S) : m < n => f[m] < f[n]
    BY Enumerable DEF Enumerates
  <2> QED BY <2>1, <2>2 DEF Enumerates
<1>2. s \in [1 .. c -> S] /\ \A m, n \in 1 .. c : m < n => s[m] < s[n]
  BY <1>1 DEF Enumerates
<1> HIDE DEF s, c
<1>3. s \in Seq(S) /\ Len(s) = c
  BY <1>0, <1>2
<1>4. s \in Seq(Recs)
  BY <1>3
<1>5. s \in Injection(1 .. c, S)
  <2> SUFFICES ASSUME NEW m \in 1 .. c, NEW n \in 1 .. c, s[m] = s[n] PROVE m = n
    BY <1>2 DEF Injection, IsInjective
  <2>1. s[m] \in Nat /\ s[n] \in Nat
    BY <1>0, <1>2
  <2>2. (m < n => s[m] < s[n]) /\ (n < m => s[n] < s[m])
    BY <1>2
  <2>3. ~(m < n) /\ ~(n < m)
    BY <2>1, <2>2
  <2> QED BY <1>0, <2>3
<1>6. Cardinality(1 .. c) = Cardinality(S)
  BY <1>0, FS_Interval DEF c
<1>7. s \in Surjection(1 .. c, S)
  BY <1>0, <1>5, <1>6, FS_Injection
<1>8. {s[k] : k \in 1 .. c} = S
  BY <1>2, <1>7 DEF Surjection
<1> QED BY <1>2, <1>3, <1>4, <1>8 DEF Increasing, s

LEMMA FileLength == \A S \in SUBSET Recs : Len(zoneFile(S)) \in Nat
<1> SUFFICES ASSUME NEW S \in SUBSET Recs PROVE Len(zoneFile(S)) \in Nat
  OBVIOUS
<1>1. zoneFile(S) \in Seq(Recs)
  BY ZoneFile
<1> QED BY <1>1

----------------------------------------------------------------------------
(* The diff. *)

Start == [i |-> 1, j |-> 1, lines |-> <<>>]

\* What stands before the n-th line of a zone file.
Above(s, n) == {s[k] : k \in 1 .. n - 1}

\* Of R and S, the diff so far has what is above i and j; they have the same in common.
Merge(d, R, S) ==
    /\ d \in [i: Nat, j: Nat, lines: Seq(Marks \X Recs)]
    /\ d.i \in 1 .. Len(zoneFile(R)) + 1 /\ d.j \in 1 .. Len(zoneFile(S)) + 1
    /\ Above(zoneFile(R), d.i) \cap S = Above(zoneFile(S), d.j) \cap R
    /\ shows(d.lines, "-", Above(zoneFile(R), d.i))
    /\ shows(d.lines, "+", Above(zoneFile(S), d.j))
    /\ \A n \in DOMAIN d.lines : d.lines[n][2] \in R \cap S => d.lines[n][1] = " "

LEMMA MergeStart == \A R, S \in SUBSET Recs : Merge(Start, R, S)
<1> SUFFICES ASSUME NEW R \in SUBSET Recs, NEW S \in SUBSET Recs PROVE Merge(Start, R, S)
  OBVIOUS
<1>1. 1 \in 1 .. Len(zoneFile(R)) + 1 /\ 1 \in 1 .. Len(zoneFile(S)) + 1
  <2>1. zoneFile(R) \in Seq(Recs) /\ zoneFile(S) \in Seq(Recs)
    BY ZoneFile
  <2> QED BY <2>1
<1>2. \A s : Above(s, 1) = {}
  BY DEF Above
<1>3. \A m : shows(<<>>, m, {})
  BY DEF shows
<1>4. Start \in [i: Nat, j: Nat, lines: Seq(Marks \X Recs)]
  <2>1. <<>> \in Seq(Marks \X Recs)
    OBVIOUS
  <2> QED BY <2>1 DEF Start
<1>5. Start.i = 1 /\ Start.j = 1 /\ Start.lines = <<>>
  BY DEF Start
<1>6. \A n \in DOMAIN <<>> : FALSE
  OBVIOUS
<1> HIDE DEF Start
<1> QED BY <1>1, <1>2, <1>3, <1>4, <1>5, <1>6 DEF Merge

\* The lines of one file.
Side(L, w) == {n \in DOMAIN L : L[n][1] \in {" ", w}}

LEMMA ShowsBySide ==
    ASSUME NEW L, NEW w, NEW D
    PROVE  shows(L, w, D) <=> /\ {L[n][2] : n \in Side(L, w)} = D
                              /\ \A n, k \in Side(L, w) : n < k => L[n][2] < L[k][2]
BY DEF shows, Side

\* A line more.
LEMMA ShowsMore ==
    ASSUME NEW L \in Seq(Marks \X Recs), NEW m \in Marks, NEW x \in Recs,
           NEW w \in Marks, NEW D \in SUBSET Recs, shows(L, w, D)
    PROVE  /\ m \notin {" ", w} => shows(Append(L, <<m, x>>), w, D)
           /\ m \in {" ", w} /\ (\A y \in D : y < x) => shows(Append(L, <<m, x>>), w, D \cup {x})
<1> DEFINE M == Append(L, <<m, x>>)
           l == Len(L)
<1>1. /\ l \in Nat /\ DOMAIN L = 1 .. l /\ DOMAIN M = 1 .. l + 1
      /\ M[l + 1] = <<m, x>> /\ \A n \in 1 .. l : M[n] = L[n]
  OBVIOUS
<1>2. {L[n][2] : n \in Side(L, w)} = D /\ \A n, k \in Side(L, w) : n < k => L[n][2] < L[k][2]
  BY ShowsBySide
<1> HIDE DEF M, l
<1>a. <<m, x>>[1] = m /\ <<m, x>>[2] = x
  OBVIOUS
<1>b. 1 .. l + 1 = (1 .. l) \cup {l + 1} /\ l + 1 \notin 1 .. l
  BY <1>1
<1>3. ASSUME m \notin {" ", w} PROVE Side(M, w) = Side(L, w)
  BY <1>1, <1>3, <1>a, <1>b DEF Side
<1>4. ASSUME m \in {" ", w} PROVE Side(M, w) = Side(L, w) \cup {l + 1}
  BY <1>1, <1>4, <1>a, <1>b DEF Side
<1>5. \A n \in Side(L, w) : n \in 1 .. l /\ M[n] = L[n] /\ L[n][2] \in D
  BY <1>1, <1>2 DEF Side
<1>6. ASSUME m \notin {" ", w} PROVE shows(M, w, D)
  <2>1. {M[n][2] : n \in Side(L, w)} = {L[n][2] : n \in Side(L, w)}
    BY <1>5
  <2>2. \A n, k \in Side(L, w) : n < k => M[n][2] < M[k][2]
    BY <1>2, <1>5
  <2> QED BY <1>2, <1>3, <1>6, <2>1, <2>2, ShowsBySide
<1>7. ASSUME m \in {" ", w}, \A y \in D : y < x PROVE shows(M, w, D \cup {x})
  <2>1. {M[n][2] : n \in Side(M, w)} = D \cup {x}
    <3>1. {M[n][2] : n \in Side(L, w)} = {L[n][2] : n \in Side(L, w)}
      BY <1>5
    <3>2. M[l + 1][2] = x
      BY <1>1, <1>a
    <3> QED BY <1>2, <1>4, <1>7, <3>1, <3>2
  <2>2. ASSUME NEW n \in Side(M, w), NEW k \in Side(M, w), n < k PROVE M[n][2] < M[k][2]
    <3>0. n \in Side(L, w) \cup {l + 1} /\ k \in Side(L, w) \cup {l + 1}
      BY <1>4, <1>7
    <3>1. n \in Side(L, w)
      <4> SUFFICES ASSUME n = l + 1 PROVE FALSE
        BY <3>0
      <4> QED BY <1>1, <1>5, <3>0, <2>2
    <3>2. CASE k = l + 1
      BY <1>1, <1>5, <1>7, <1>a, <3>1, <3>2
    <3>3. CASE k # l + 1
      BY <1>2, <1>5, <2>2, <3>0, <3>1, <3>3
    <3> QED BY <3>2, <3>3
  <2> QED BY <2>1, <2>2, ShowsBySide
<1> QED BY <1>6, <1>7 DEF M

\* What is above the next line of a zone file is smaller, and the line is added to it.
LEMMA NextLine ==
    ASSUME NEW S \in SUBSET Recs, NEW n \in 1 .. Len(zoneFile(S))
    PROVE  /\ Above(zoneFile(S), n) \in SUBSET Recs /\ zoneFile(S)[n] \in S
           /\ \A y \in Above(zoneFile(S), n) : y < zoneFile(S)[n]
           /\ Above(zoneFile(S), n + 1) = Above(zoneFile(S), n) \cup {zoneFile(S)[n]}
<1> DEFINE s == zoneFile(S)
<1>1. s \in Seq(Recs) /\ Increasing(s) /\ {s[k] : k \in 1 .. Len(s)} = S
  BY ZoneFile
<1> HIDE DEF s
<1>2. Len(s) \in Nat
  BY <1>1
<1> SUFFICES ASSUME n \in 1 .. Len(s)
             PROVE  /\ Above(s, n) \in SUBSET Recs /\ s[n] \in S
                    /\ \A y \in Above(s, n) : y < s[n]
                    /\ Above(s, n + 1) = Above(s, n) \cup {s[n]}
  BY DEF s
<1>3. \A k \in 1 .. n - 1 : k \in 1 .. Len(s) /\ k < n
  BY <1>2
<1>4. 1 .. (n + 1) - 1 = (1 .. n - 1) \cup {n}
  BY <1>2
<1>5. Above(s, n + 1) = Above(s, n) \cup {s[n]}
  BY <1>4 DEF Above
<1>6. Above(s, n) \in SUBSET Recs /\ s[n] \in S
  BY <1>1, <1>3 DEF Above
<1>7. \A y \in Above(s, n) : y < s[n]
  BY <1>1, <1>3 DEF Above, Increasing
<1> QED BY <1>5, <1>6, <1>7

\* A line that the other file has, is not above there: it is the next line or a later one.
LEMMA StillToCome ==
    ASSUME NEW R \in SUBSET Recs, NEW S \in SUBSET Recs,
           NEW i \in 1 .. Len(zoneFile(R)), NEW j \in 1 .. Len(zoneFile(S)) + 1,
           Above(zoneFile(R), i) \cap S = Above(zoneFile(S), j) \cap R,
           zoneFile(R)[i] \in S
    PROVE  j <= Len(zoneFile(S)) /\ zoneFile(S)[j] <= zoneFile(R)[i]
<1> DEFINE a == zoneFile(R)
           b == zoneFile(S)
<1>1. b \in Seq(Recs) /\ Increasing(b) /\ {b[k] : k \in 1 .. Len(b)} = S
  BY ZoneFile
<1>2. a[i] \in R /\ a[i] \in S /\ \A y \in Above(a, i) : y < a[i]
  BY NextLine
<1>3. a[i] \notin Above(b, j)
  <2>1. a[i] \in Nat
    BY <1>2, RecsFinite
  <2>2. a[i] \notin Above(a, i)
    BY <1>2, <2>1
  <2> QED BY <1>2, <2>2
<1>4. PICK k \in 1 .. Len(b) : a[i] = b[k]
  BY <1>1, <1>2
<1> HIDE DEF a, b
<1>5. Len(b) \in Nat /\ j \in Nat /\ j >= 1
  <2>1. Len(b) \in Nat
    BY <1>1
  <2>2. j \in 1 .. Len(b) + 1
    BY DEF b
  <2> QED BY <2>1, <2>2
<1>6. ~(k <= j - 1)
  BY <1>3, <1>4, <1>5 DEF Above
<1>7. j <= k
  BY <1>5, <1>6
<1>8. b[j] \in Nat /\ b[k] \in Nat /\ (j < k => b[j] < b[k])
  <2>1. b \in Seq(Recs) /\ Recs \subseteq Nat
    BY <1>1, CliAssumption
  <2>2. j \in 1 .. Len(b)
    BY <1>4, <1>5, <1>7
  <2>3. b[j] \in Recs /\ b[k] \in Recs
    BY <1>4, <2>1, <2>2
  <2> QED BY <1>1, <1>4, <2>1, <2>2, <2>3 DEF Increasing
<1> QED BY <1>4, <1>5, <1>7, <1>8 DEF a, b

\* The state of the diff after a line of mark m.
Grown(d, m, x, i, j) == [i |-> i, j |-> j, lines |-> Append(d.lines, <<m, x>>)]

\* A line was added to the diff with its mark, and to what is above in each file
\* that the mark stands for.
LEMMA MergeMore ==
    ASSUME NEW R \in SUBSET Recs, NEW S \in SUBSET Recs, NEW d, Merge(d, R, S),
           NEW m \in Marks, NEW x \in Recs,
           NEW i \in 1 .. Len(zoneFile(R)) + 1, NEW j \in 1 .. Len(zoneFile(S)) + 1,
           IF m = "+" THEN i = d.i ELSE d.i <= Len(zoneFile(R)) /\ i = d.i + 1 /\ x = zoneFile(R)[d.i],
           IF m = "-" THEN j = d.j ELSE d.j <= Len(zoneFile(S)) /\ j = d.j + 1 /\ x = zoneFile(S)[d.j],
           m = "-" => x \notin S, m = "+" => x \notin R
    PROVE  Merge(Grown(d, m, x, i, j), R, S)
<1> DEFINE e == Grown(d, m, x, i, j)
           a == Above(zoneFile(R), d.i)
           b == Above(zoneFile(S), d.j)
<1>1. /\ d.i \in Nat \ {0} /\ d.j \in Nat \ {0} /\ d.lines \in Seq(Marks \X Recs)
      /\ Len(zoneFile(R)) \in Nat /\ Len(zoneFile(S)) \in Nat
  <2>1. Len(zoneFile(R)) \in Nat /\ Len(zoneFile(S)) \in Nat
    BY FileLength
  <2>2. /\ d \in [i: Nat, j: Nat, lines: Seq(Marks \X Recs)]
        /\ d.i \in 1 .. Len(zoneFile(R)) + 1 /\ d.j \in 1 .. Len(zoneFile(S)) + 1
    BY DEF Merge
  <2> QED BY <2>1, <2>2
<1>2. /\ e.i = i /\ e.j = j /\ e.lines = Append(d.lines, <<m, x>>)
      /\ e \in [i: Nat, j: Nat, lines: Seq(Marks \X Recs)]
  <2>1. <<m, x>> \in Marks \X Recs
    OBVIOUS
  <2>2. Append(d.lines, <<m, x>>) \in Seq(Marks \X Recs)
    BY <1>1, <2>1
  <2>3. i \in Nat /\ j \in Nat
    BY <1>1
  <2> QED BY <2>2, <2>3 DEF Grown
<1>3. a \in SUBSET Recs /\ b \in SUBSET Recs
  <2>1. zoneFile(R) \in Seq(Recs) /\ zoneFile(S) \in Seq(Recs)
    BY ZoneFile
  <2>2. d.i - 1 <= Len(zoneFile(R)) /\ d.j - 1 <= Len(zoneFile(S))
    <3>1. d.i \in 1 .. Len(zoneFile(R)) + 1 /\ d.j \in 1 .. Len(zoneFile(S)) + 1
      BY DEF Merge
    <3> QED BY <1>1, <3>1
  <2>3. \A k \in 1 .. d.i - 1 : k \in 1 .. Len(zoneFile(R))
    BY <1>1, <2>2
  <2>4. \A k \in 1 .. d.j - 1 : k \in 1 .. Len(zoneFile(S))
    BY <1>1, <2>2
  <2>5. a \in SUBSET Recs
    BY <2>1, <2>3 DEF Above
  <2>6. b \in SUBSET Recs
    BY <2>1, <2>4 DEF Above
  <2> QED BY <2>5, <2>6
<1>4. m # "+" => /\ Above(zoneFile(R), i) = a \cup {x} /\ x \in R
                 /\ \A y \in a : y < x
  <2> SUFFICES ASSUME m # "+" PROVE /\ Above(zoneFile(R), i) = a \cup {x} /\ x \in R
                                    /\ \A y \in a : y < x
    OBVIOUS
  <2>1. d.i \in 1 .. Len(zoneFile(R)) /\ i = d.i + 1 /\ x = zoneFile(R)[d.i]
    BY <1>1
  <2> QED BY <2>1, NextLine
<1>5. m # "-" => /\ Above(zoneFile(S), j) = b \cup {x} /\ x \in S
                 /\ \A y \in b : y < x
  <2> SUFFICES ASSUME m # "-" PROVE /\ Above(zoneFile(S), j) = b \cup {x} /\ x \in S
                                    /\ \A y \in b : y < x
    OBVIOUS
  <2>1. d.j \in 1 .. Len(zoneFile(S)) /\ j = d.j + 1 /\ x = zoneFile(S)[d.j]
    BY <1>1
  <2> QED BY <2>1, NextLine
<1>6. /\ m = "+" => Above(zoneFile(R), i) = a
      /\ m = "-" => Above(zoneFile(S), j) = b
  OBVIOUS
<1>7. /\ a \cap S = b \cap R /\ shows(d.lines, "-", a) /\ shows(d.lines, "+", b)
      /\ \A n \in DOMAIN d.lines : d.lines[n][2] \in R \cap S => d.lines[n][1] = " "
  BY DEF Merge
<1> HIDE DEF a, b, e
<1>8. Above(zoneFile(R), i) \cap S = Above(zoneFile(S), j) \cap R
  BY <1>4, <1>5, <1>6, <1>7 DEF Marks
<1>9. shows(e.lines, "-", Above(zoneFile(R), i))
  <2>1. "-" \in Marks
    BY DEF Marks
  <2>2. LET L == Append(d.lines, <<m, x>>)
        IN  /\ m \notin {" ", "-"} => shows(L, "-", a)
            /\ m \in {" ", "-"} /\ (\A y \in a : y < x) => shows(L, "-", a \cup {x})
    <3>1. d.lines \in Seq(Marks \X Recs)
      BY <1>1
    <3>2. shows(d.lines, "-", a)
      BY <1>7
    <3>3. a \in SUBSET Recs
      BY <1>3
    <3> QED BY <2>1, <3>1, <3>2, <3>3, ShowsMore
  <2> QED BY <1>2, <1>4, <1>6, <2>2 DEF Marks
<1>10. shows(e.lines, "+", Above(zoneFile(S), j))
  <2>1. "+" \in Marks
    BY DEF Marks
  <2>2. LET L == Append(d.lines, <<m, x>>)
        IN  /\ m \notin {" ", "+"} => shows(L, "+", b)
            /\ m \in {" ", "+"} /\ (\A y \in b : y < x) => shows(L, "+", b \cup {x})
    <3>1. d.lines \in Seq(Marks \X Recs)
      BY <1>1
    <3>2. shows(d.lines, "+", b)
      BY <1>7
    <3>3. b \in SUBSET Recs
      BY <1>3
    <3> QED BY <2>1, <3>1, <3>2, <3>3, ShowsMore
  <2> QED BY <1>2, <1>5, <1>6, <2>2 DEF Marks
<1>11. ASSUME NEW n \in DOMAIN e.lines, e.lines[n][2] \in R \cap S PROVE e.lines[n][1] = " "
  <2>1. /\ n \in DOMAIN d.lines => e.lines[n] = d.lines[n]
        /\ n \notin DOMAIN d.lines => e.lines[n] = <<m, x>>
    <3>1. d.lines \in Seq(Marks \X Recs) /\ e.lines = Append(d.lines, <<m, x>>)
      BY <1>1, <1>2
    <3>2. Len(d.lines) \in Nat /\ DOMAIN d.lines = 1 .. Len(d.lines)
      BY <3>1
    <3>3. /\ DOMAIN e.lines = 1 .. Len(d.lines) + 1 /\ e.lines[Len(d.lines) + 1] = <<m, x>>
          /\ \A k \in 1 .. Len(d.lines) : e.lines[k] = d.lines[k]
      BY <3>1, <3>2
    <3> QED BY <1>11, <3>2, <3>3
  <2>2. CASE n \in DOMAIN d.lines
    BY <1>7, <1>11, <2>1, <2>2
  <2>3. CASE n \notin DOMAIN d.lines
    <3>1. <<m, x>>[1] = m /\ <<m, x>>[2] = x
      OBVIOUS
    <3>2. x \in R /\ x \in S
      BY <1>11, <2>1, <2>3, <3>1
    <3> QED BY <2>1, <2>3, <3>1, <3>2 DEF Marks
  <2> QED BY <2>2, <2>3
<1> QED BY <1>2, <1>8, <1>9, <1>10, <1>11 DEF Merge, e

\* While lines are left, two that are the same stand next, or one that the other file
\* does not have: the rest of the branches is never taken.
LEMMA NoOtherRound ==
    ASSUME NEW R \in SUBSET Recs, NEW S \in SUBSET Recs, NEW d, Merge(d, R, S),
           d.i <= Len(zoneFile(R)) \/ d.j <= Len(zoneFile(S)),
           d.i <= Len(zoneFile(R)) => zoneFile(R)[d.i] \in S,
           d.j <= Len(zoneFile(S)) => zoneFile(S)[d.j] \in R
    PROVE  d.i <= Len(zoneFile(R)) /\ d.j <= Len(zoneFile(S)) /\ zoneFile(R)[d.i] = zoneFile(S)[d.j]
<1> DEFINE a == zoneFile(R)
           b == zoneFile(S)
<1>1. /\ Len(a) \in Nat /\ Len(b) \in Nat /\ d.i \in 1 .. Len(a) + 1 /\ d.j \in 1 .. Len(b) + 1
      /\ Above(a, d.i) \cap S = Above(b, d.j) \cap R
  BY FileLength DEF Merge
<1>2. ASSUME d.i <= Len(a) PROVE d.j <= Len(b) /\ b[d.j] <= a[d.i]
  <2>1. d.i \in 1 .. Len(a)
    BY <1>1, <1>2
  <2> QED BY <1>1, <1>2, <2>1, StillToCome
<1>3. ASSUME d.j <= Len(b) PROVE d.i <= Len(a) /\ a[d.i] <= b[d.j]
  <2>1. d.j \in 1 .. Len(b)
    BY <1>1, <1>3
  <2> QED BY <1>1, <1>3, <2>1, StillToCome
<1>4. d.i \in 1 .. Len(a) /\ d.j \in 1 .. Len(b) /\ b[d.j] <= a[d.i] /\ a[d.i] <= b[d.j]
  BY <1>1, <1>2, <1>3
<1>5. a[d.i] \in Nat /\ b[d.j] \in Nat
  BY <1>4, NextLine, RecsFinite
<1> QED BY <1>4, <1>5

\* A round of the diff.
LEMMA MergeRound ==
    ASSUME A.records \in SUBSET Recs, B.records \in SUBSET Recs,
           Merge(diff, A.records, B.records), generateUnifiedDiff
    PROVE  /\ Merge(diff', A.records, B.records)
           /\ pc' = "exit" => /\ diff'.i = Len(zoneFile(A.records)) + 1
                              /\ diff'.j = Len(zoneFile(B.records)) + 1
<1> DEFINE R == A.records
           S == B.records
           a == zoneFile(R)
           b == zoneFile(S)
           x == a[diff.i]
           y == b[diff.j]
           moreA == diff.i <= Len(a)
           moreB == diff.j <= Len(b)
<1>1. /\ diff \in [i: Nat, j: Nat, lines: Seq(Marks \X Recs)]
      /\ diff.i \in 1 .. Len(a) + 1 /\ diff.j \in 1 .. Len(b) + 1
      /\ Len(a) \in Nat /\ Len(b) \in Nat
  BY FileLength DEF Merge
<1>2. CASE ~moreA /\ ~moreB
  <2>1. diff' = diff
    BY <1>2 DEF generateUnifiedDiff
  <2>2. diff.i = Len(a) + 1 /\ diff.j = Len(b) + 1
    BY <1>1, <1>2
  <2> QED BY <2>1, <2>2
<1>3. CASE moreA \/ moreB
  <2>1. pc' = "diff"
    BY <1>3 DEF generateUnifiedDiff
  <2>2. /\ moreA => x \in Recs /\ diff.i \in 1 .. Len(a) /\ diff.i + 1 \in 1 .. Len(a) + 1
        /\ moreB => y \in Recs /\ diff.j \in 1 .. Len(b) /\ diff.j + 1 \in 1 .. Len(b) + 1
    <3>1. a \in Seq(Recs) /\ b \in Seq(Recs)
      BY ZoneFile
    <3> QED BY <1>1, <3>1
  <2>3. CASE moreA /\ moreB /\ x = y
    <3>1. diff' = Grown(diff, " ", x, diff.i + 1, diff.j + 1)
      BY <1>1, <1>3, <2>3 DEF generateUnifiedDiff, Grown
    <3>2. " " \in Marks
      BY DEF Marks
    <3> QED BY <2>1, <2>2, <2>3, <3>1, <3>2, MergeMore
  <2>4. CASE ~(moreA /\ moreB /\ x = y) /\ moreA /\ x \notin S
    <3>1. diff' = Grown(diff, "-", x, diff.i + 1, diff.j)
      BY <1>1, <1>3, <2>4 DEF generateUnifiedDiff, Grown, isGone
    <3>2. "-" \in Marks
      BY DEF Marks
    <3> QED BY <1>1, <2>1, <2>2, <2>4, <3>1, <3>2, MergeMore
  <2>5. CASE ~(moreA /\ moreB /\ x = y) /\ ~(moreA /\ x \notin S) /\ moreB /\ y \notin R
    <3>1. diff' = Grown(diff, "+", y, diff.i, diff.j + 1)
      BY <1>1, <1>3, <2>5 DEF generateUnifiedDiff, Grown, isGone
    <3>2. "+" \in Marks
      BY DEF Marks
    <3> QED BY <1>1, <2>1, <2>2, <2>5, <3>1, <3>2, MergeMore
  <2> QED BY <1>3, <2>3, <2>4, <2>5, NoOtherRound
<1> QED BY <1>2, <1>3

\* Until the diff begins nothing is done; from then on it is a merge of the two zone
\* files, and a diff with lines ends behind the last line of both.
DiffInv ==
    /\ pc \notin {"diff", "exit"} => diff = Start
    /\ pc = "diff" => Merge(diff, A.records, B.records)
    /\ pc = "exit" /\ diff # Start =>
         /\ Merge(diff, A.records, B.records)
         /\ diff.i = Len(zoneFile(A.records)) + 1 /\ diff.j = Len(zoneFile(B.records)) + 1

\* No other step touches the diff, or what it compares.
LEMMA DiffAlone ==
    ASSUME [Next]_vars, ~generateUnifiedDiff
    PROVE  diff' = diff /\ (pc \in {"diff", "exit"} => UNCHANGED <<pc, read>>)
<1> USE DEF Goto, Exit, sources
<1>1. CASE Publishing
  BY <1>1 DEF Publishing, Validate, checkZone, Continue, Abort, signAndPublish, publish
<1>2. CASE Paying
  BY <1>2 DEF Paying, createP2pkTokenWithRefund, createMintQuote, createPaymentToken, pollP2pk, Expired,
              mintProofs, walletSend
<1>3. CASE Script
  BY <1>3 DEF Script, register, mintCashu, publishEvent, LookUp
<1>4. CASE Burning
  BY <1>4 DEF Burning, burn, createBurnRequest, pollForProof
<1>5. CASE Refunding
  BY <1>5 DEF Refunding, checkRefundEligibility, refund, reclaimExpiredToken, Resend
<1>6. CASE Comparing
  BY <1>6 DEF Comparing, conformance, fetchZoneEvents, fetchApiRecords, queryZoneRecords, Compare
<1>7. CASE Reading
  BY <1>7 DEF Reading, zoneCheck, zoneExport, resolve, resolveViaNostr, resolveViaApi, resolveViaDns
<1>8. CASE Environment
  BY <1>8 DEF Environment, Pay, TimePasses, OperatorClaims, RecordsChange
<1>9. CASE UNCHANGED vars
  BY <1>9 DEF vars
<1> QED BY <1>1, <1>2, <1>3, <1>4, <1>5, <1>6, <1>7, <1>8, <1>9 DEF Next, Command

LEMMA ComparedAreRecords == Types => A.records \in SUBSET Recs /\ B.records \in SUBSET Recs
BY DEF Types, Sources, Answer, A, B

LEMMA DiffInit == Init => DiffInv
BY DEF Init, DiffInv, Start

LEMMA DiffNext == ASSUME Types, Types', DiffInv, [Next]_vars PROVE DiffInv'
<1>1. CASE generateUnifiedDiff
  <2>1. pc = "diff" /\ pc' \in {"diff", "exit"} /\ read' = read
    BY <1>1 DEF generateUnifiedDiff, Exit
  <2>2. UNCHANGED <<A, B>>
    BY <2>1 DEF A, B
  <2>3. /\ Merge(diff', A.records, B.records)
        /\ pc' = "exit" => /\ diff'.i = Len(zoneFile(A.records)) + 1
                           /\ diff'.j = Len(zoneFile(B.records)) + 1
    BY <1>1, <2>1, ComparedAreRecords, MergeRound DEF DiffInv
  <2> QED BY <2>1, <2>2, <2>3 DEF DiffInv
<1>2. CASE ~generateUnifiedDiff
  <2>1. diff' = diff /\ (pc \in {"diff", "exit"} => UNCHANGED <<pc, read>>)
    BY <1>2, DiffAlone
  <2>2. CASE pc \in {"diff", "exit"}
    <3>1. UNCHANGED <<pc, diff, A, B>>
      BY <2>1, <2>2 DEF A, B
    <3> QED BY <3>1 DEF DiffInv
  <2>3. CASE pc \notin {"diff", "exit"}
    <3>1. diff' = Start
      BY <2>1, <2>3 DEF DiffInv
    <3>2. A'.records \in SUBSET Recs /\ B'.records \in SUBSET Recs
      BY ComparedAreRecords DEF Types, Sources, Answer, A, B
    <3>3. Merge(Start, A'.records, B'.records)
      BY <3>2, MergeStart
    <3> QED BY <3>1, <3>3 DEF DiffInv
  <2> QED BY <2>2, <2>3
<1> QED BY <1>1, <1>2

LEMMA DiffHolds == Spec => []DiffInv
<1>1. CliInv => Types
  BY DEF CliInv
<1> QED BY <1>1, CliHolds, DiffInit, DiffNext, PTL DEF Spec

----------------------------------------------------------------------------
(* The theorems. *)

\* The types that are left: of the money, of the relays and of the bounds.
Named ==
    /\ gate \in {"none", "unverified", "verified"}
    /\ quote \in {"none", "open", "paid", "issued"}
    /\ path \in {"none", "p2pk", "plain", "script", "notary"}
    /\ sats \in {"payer", "mint", "wallet", "token", "operator", "user"}
Flags == late \in BOOLEAN /\ seen \in BOOLEAN /\ printed \in BOOLEAN
Bounds == polls \in 0 .. MaxPolls /\ changes \in 0 .. MaxChanges /\ has \subseteq Relays
MoneyTypes == Named /\ Flags /\ Bounds

LEMMA MoneyTypesNext == ASSUME MoneyTypes, [Next]_vars PROVE MoneyTypes'
<1> USE CliAssumption DEF MoneyTypes, money, sources
<1>1. CASE Publishing
  <2> USE <1>1 DEF Publishing, Validate, checkZone, Continue, Abort, signAndPublish, publish
  <2>1. Named'
    BY DEF Named
  <2>2. Flags'
    BY DEF Flags
  <2>3. Bounds'
    BY DEF Bounds
  <2> QED BY <2>1, <2>2, <2>3
<1>2. CASE Paying
  <2> USE <1>2 DEF Paying, createP2pkTokenWithRefund, createMintQuote, createPaymentToken, pollP2pk, Expired,
                mintProofs, walletSend
  <2>1. Named'
    BY DEF Named
  <2>2. Flags'
    BY DEF Flags
  <2>3. Bounds'
    BY DEF Bounds
  <2> QED BY <2>1, <2>2, <2>3
<1>3. CASE Script
  <2> USE <1>3 DEF Script, register, mintCashu, publishEvent, LookUp
  <2>1. Named'
    BY DEF Named
  <2>2. Flags'
    BY DEF Flags
  <2>3. Bounds'
    BY DEF Bounds
  <2> QED BY <2>1, <2>2, <2>3
<1>4. CASE Burning
  <2> USE <1>4 DEF Burning, burn, createBurnRequest, pollForProof
  <2>1. Named'
    BY DEF Named
  <2>2. Flags'
    BY DEF Flags
  <2>3. Bounds'
    BY DEF Bounds
  <2> QED BY <2>1, <2>2, <2>3
<1>5. CASE Refunding
  <2> USE <1>5 DEF Refunding, checkRefundEligibility, refund, reclaimExpiredToken, Resend
  <2>1. Named'
    BY DEF Named
  <2>2. Flags'
    BY DEF Flags
  <2>3. Bounds'
    BY DEF Bounds
  <2> QED BY <2>1, <2>2, <2>3
<1>6. CASE Comparing
  <2> USE <1>6 DEF Comparing, conformance, fetchZoneEvents, fetchApiRecords, queryZoneRecords, Compare,
                generateUnifiedDiff
  <2>1. Named'
    BY DEF Named
  <2>2. Flags'
    BY DEF Flags
  <2>3. Bounds'
    BY DEF Bounds
  <2> QED BY <2>1, <2>2, <2>3
<1>7. CASE Reading
  <2> USE <1>7 DEF Reading, zoneCheck, zoneExport, resolve, resolveViaNostr, resolveViaApi, resolveViaDns
  <2>1. Named'
    BY DEF Named
  <2>2. Flags'
    BY DEF Flags
  <2>3. Bounds'
    BY DEF Bounds
  <2> QED BY <2>1, <2>2, <2>3
<1>8. CASE Environment
  <2> USE <1>8 DEF Environment, Pay, TimePasses, OperatorClaims, RecordsChange
  <2>1. Named'
    BY DEF Named
  <2>2. Flags'
    BY DEF Flags
  <2>3. Bounds'
    BY DEF Bounds
  <2> QED BY <2>1, <2>2, <2>3
<1>9. CASE UNCHANGED vars
  <2> USE <1>9 DEF vars
  <2>1. Named'
    BY DEF Named
  <2>2. Flags'
    BY DEF Flags
  <2>3. Bounds'
    BY DEF Bounds
  <2> QED BY <2>1, <2>2, <2>3
<1> QED BY <1>1, <1>2, <1>3, <1>4, <1>5, <1>6, <1>7, <1>8, <1>9 DEF Next, Command

\* Every variable has its type; the diff is lines of marks and records.
THEOREM TypeCorrect == Spec => []TypeOK
<1>1. ASSUME Init PROVE MoneyTypes
  <2>1. Named
    BY <1>1 DEF Init, Named
  <2>2. Flags
    BY <1>1 DEF Init, Flags
  <2>3. Bounds
    BY <1>1, CliAssumption DEF Init, Bounds
  <2> QED BY <2>1, <2>2, <2>3 DEF MoneyTypes
<1>2. ASSUME CliInv, DiffInv, MoneyTypes PROVE TypeOK
  <2>1. diff.i \in Nat /\ diff.j \in Nat /\ diff.lines \in Seq(Marks \X Recs)
    <3>1. Merge(Start, A.records, B.records)
      BY <1>2, ComparedAreRecords, MergeStart DEF CliInv
    <3>2. Merge(diff, A.records, B.records)
      BY <1>2, <3>1 DEF DiffInv
    <3> QED BY <3>2 DEF Merge
  <2> QED BY <1>2, <2>1 DEF CliInv, Types, Sources, MoneyTypes, Named, Flags, Bounds, TypeOK
<1> QED BY <1>1, <1>2, MoneyTypesNext, CliHolds, DiffHolds, PTL DEF Spec

\* What was paid and seen to be paid is in the token that was printed, unless
\* the mint failed: neither the timeout nor the relays take it away
\* (lib/cashu.ts, createPaymentToken).
THEOREM SeenPrinted == Spec => []SeenIsPrinted
<1>1. CliInv => SeenIsPrinted
  BY DEF CliInv, PlainInv, SeenIsPrinted
<1> QED BY <1>1, CliHolds, PTL

\* What a command says of its end is so, and an answer of resolve or zone-export is
\* of one source (commands/resolve.ts, commands/zone-export.ts).
THEOREM ReportedSo == Spec => []ReportedIsSo
<1>1. ASSUME CliInv, out = "answered"
      PROVE  Cardinality({s \in DOMAIN read : read[s].ok}) <= 1
  <2> DEFINE S == {s \in DOMAIN read : read[s].ok}
  <2>1. \A s, t \in S : s = t
    BY <1>1 DEF CliInv, Types, ReadInv
  <2>2. CASE S = {}
    BY <2>2, FS_EmptySet
  <2>3. CASE S # {}
    <3>1. PICK s : S = {s}
      BY <2>1, <2>3
    <3>2. Cardinality(S) = 1
      BY <3>1, FS_Singleton
    <3> QED BY <3>2
  <2> QED BY <2>2, <2>3
<1>2. CliInv => ReportedIsSo
  BY <1>1 DEF CliInv, EndInv, ReadInv, Readers, ReportedIsSo
<1> QED BY <1>2, CliHolds, PTL

\* If nothing changed while conformance ran, a "match" says that the relays answered with
\* the bot's records and that DNS has them all, and with full answers the verdict is right
\* both ways (commands/conformance.ts).
THEOREM VerdictRight == Spec => []VerdictIsRight
<1>1. ASSUME CliInv, cmd = "conformance", pc = "exit", changes = 0
      PROVE  /\ B.ok => B.records = world["api"]
             /\ C.records \subseteq world["dns"]
             /\ out = Verdict
             /\ B.ok => (C.ok <=> B.records # {})
  BY <1>1 DEF CliInv, ReadInv, Readers, B, C
<1>2. ASSUME CliInv, cmd = "conformance", pc = "exit", changes = 0, out = "match"
      PROVE  A.records = world["api"] /\ world["api"] \subseteq world["dns"]
  <2>1. A.ok /\ B.ok /\ ~hasDifferences
    BY <1>1, <1>2 DEF Verdict
  <2>2. A.records = B.records /\ (B.records # {} => B.records = C.records)
    <3>1. /\ A.records \in SUBSET Recs /\ B.records \in SUBSET Recs /\ C.records \in SUBSET Recs
      BY <1>2 DEF CliInv, Types, Sources, Answer, A, B, C
    <3> QED BY <1>1, <1>2, <2>1, <3>1 DEF hasDifferences
  <2> QED BY <1>1, <1>2, <2>1, <2>2
<1>3. ASSUME CliInv, cmd = "conformance", pc = "exit", changes = 0,
             A.ok, A.records = world["relay"], B.ok,
             B.records # {} => C.records = world["dns"] \cap B.records
      PROVE  out = "match" <=> world["relay"] = world["api"] /\ world["api"] \subseteq world["dns"]
  <2>1. B.records = world["api"] /\ (C.ok <=> B.records # {})
    BY <1>1, <1>3
  <2>2. out = "match" <=> ~hasDifferences
    BY <1>1, <1>3 DEF Verdict
  <2> QED BY <1>3, <2>1, <2>2 DEF hasDifferences
<1>4. CliInv => VerdictIsRight
  BY <1>2, <1>3 DEF VerdictIsRight
<1> QED BY <1>4, CliHolds, PTL

\* The diff is one of the two zone files: without the lines of the one it is the
\* other, and it shows a line they share once (lib/conformance.ts, generateUnifiedDiff).
THEOREM DiffFaithful == Spec => []DiffIsFaithful
<1>1. ASSUME Types, DiffInv, pc = "exit", diff.lines # <<>>
      PROVE  /\ shows(diff.lines, "-", A.records) /\ shows(diff.lines, "+", B.records)
             /\ \A n \in DOMAIN diff.lines :
                  diff.lines[n][2] \in A.records \cap B.records => diff.lines[n][1] = " "
  <2>1. A.records \in SUBSET Recs /\ B.records \in SUBSET Recs
    BY <1>1, ComparedAreRecords
  <2>2. \A S \in SUBSET Recs : Above(zoneFile(S), Len(zoneFile(S)) + 1) = S
    <3>1. \A S \in SUBSET Recs : (Len(zoneFile(S)) + 1) - 1 = Len(zoneFile(S))
      BY FileLength
    <3> QED BY <3>1, ZoneFile DEF Above
  <2>3. diff # Start
    BY <1>1 DEF Start
  <2> QED BY <1>1, <2>1, <2>2, <2>3 DEF DiffInv, Merge
<1>2. Types /\ DiffInv => DiffIsFaithful
  BY <1>1 DEF DiffIsFaithful
<1>3. CliInv => Types
  BY DEF CliInv
<1> QED BY <1>2, <1>3, CliHolds, DiffHolds, PTL

=============================================================================
