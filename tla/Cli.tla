-------------------------------- MODULE Cli --------------------------------
(***************************************************************************)
(* The commands of the command line client (nodns-cli/src/commands; key    *)
(* and list are left out), with the library they stand on                  *)
(* (nodns-cli/src/lib, nodns-resolver/src/notary.ts), and the script that  *)
(* registers a record from the CI (ci/register-txt.mjs).                   *)
(*                                                                         *)
(* One command runs, from one await to the next.  The zone's TXT record,   *)
(* the mint, the relays, the notary and the bot are external: they answer  *)
(* or fail, and whoever holds the invoice may pay it at any moment.        *)
(***************************************************************************)
EXTENDS Naturals, Sequences, FiniteSets

CONSTANTS
    Cmds,       \* the commands to start
    Relays,
    Recs,       \* records of the zone, numbered in the order of compareRecords
    MaxPolls,   \* bound: polls of the notary, and of the mint by the script
    MaxChanges  \* bound: changes of the zone's records while a command reads them

ASSUME CliAssumption ==
    /\ Cmds \subseteq {"add", "delete", "burn", "refund", "conformance", "register",
                       "resolve", "zone-check", "zone-export"}
    /\ Recs \subseteq Nat \ {0} /\ IsFiniteSet(Recs)
    /\ MaxPolls \in Nat /\ MaxChanges \in Nat

VARIABLES
    cmd,      \* the command
    opt,      \* its options
    pc,       \* where it is
    zone,     \* what the zone's TXT record and its announcement say
    gate,     \* what checkZone found: "none" if it was not asked
    quote,    \* the invoice: "none", "open", "paid", "issued"
    path,     \* who waits for the invoice: "p2pk", "plain", "script", "notary"
    polls,    \* polls that are left
    late,     \* the time to wait for the payment is over
    seen,     \* history: the command saw that the invoice is paid
    sats,     \* where the money is: "payer", "mint", "wallet", "token", "operator", "user"
    printed,  \* whether the token, or the event with it, was printed
    has,      \* relays that have the event
    out       \* how the command ended

money == <<quote, path, polls, late, seen, sats, printed>>

VARIABLES
    world,    \* the zone's records: on the relays, at the bot, in DNS
    read,     \* what the command read of them, and of which it got an answer
    changes,  \* history: changes of world
    diff      \* the unified diff: how far, and its lines

sources == <<world, read, changes, diff>>
vars == <<cmd, opt, pc, zone, gate, money, has, out, sources>>

Pcs == {"start", "gate", "pause", "offer", "quote", "poll", "expired", "mint", "send", "sign", "publish",
        "request", "proof", "check", "receive", "resend", "look",
        "relay", "api", "dns", "verdict", "diff", "exit"}
Outs == {"none", "invalid", "refused", "failed", "timeout", "aborted", "dry", "reported", "confirmed",
         "not yet", "eligible", "reclaimed", "match", "partial", "incomplete", "unverified", "verified",
         "answered"}

Readers == {"conformance", "resolve", "zone-export"}
Answer == [ok: BOOLEAN, records: SUBSET Recs]
Marks == {" ", "-", "+"}

TypeOK ==
    /\ cmd \in Cmds
    /\ opt \in [dry: BOOLEAN, skip: BOOLEAN, own: BOOLEAN, claim: BOOLEAN, valid: BOOLEAN]
    /\ pc \in Pcs /\ out \in Outs /\ (pc = "exit" <=> out # "none")
    /\ zone \in [txt: BOOLEAN, npub: BOOLEAN, announced: BOOLEAN, due: BOOLEAN]
    /\ gate \in {"none", "unverified", "verified"}
    /\ quote \in {"none", "open", "paid", "issued"}
    /\ path \in {"none", "p2pk", "plain", "script", "notary"}
    /\ polls \in 0 .. MaxPolls /\ late \in BOOLEAN /\ seen \in BOOLEAN /\ printed \in BOOLEAN
    /\ sats \in {"payer", "mint", "wallet", "token", "operator", "user"}
    /\ has \subseteq Relays
    /\ world \in [{"relay", "api", "dns"} -> SUBSET Recs]
    /\ read \in [{"relay", "api", "dns"} -> Answer]
    /\ changes \in 0 .. MaxChanges
    /\ diff.i \in Nat /\ diff.j \in Nat /\ diff.lines \in Seq(Marks \X Recs)

\* The options a command has; a flag it does not have is off.  own is a key
\* that fits: the secret key that is required, for a refund the refund key.
Options(c) ==
    {o \in [dry: BOOLEAN, skip: BOOLEAN, own: BOOLEAN, claim: BOOLEAN, valid: BOOLEAN] :
        /\ o.dry \/ o.skip => c \in {"add", "delete"}
        /\ o.claim => c = "refund"
        /\ c \notin {"add", "delete", "refund"} => o.own
        /\ c \notin {"add", "burn", "refund"} => o.valid}

Unread == [ok |-> FALSE, records |-> {}]

Init ==
    /\ cmd \in Cmds /\ opt \in Options(cmd) /\ pc = "start"
    /\ zone \in IF cmd \in {"add", "delete", "zone-check"} THEN [txt: BOOLEAN, npub: BOOLEAN, announced: BOOLEAN, due: BOOLEAN]
                ELSE {[txt |-> TRUE, npub |-> TRUE, announced |-> TRUE, due |-> FALSE]}
    /\ gate = "none" /\ quote = "none" /\ path = "none" /\ polls = 0 /\ late = FALSE /\ seen = FALSE
    /\ sats = (IF cmd = "refund" THEN "token" ELSE "payer")
    /\ printed = FALSE /\ has = {} /\ out = "none"
    /\ IF cmd \in Readers THEN world \in [{"relay", "api", "dns"} -> SUBSET Recs]
       ELSE world = [s \in {"relay", "api", "dns"} |-> {}]
    /\ read = [s \in {"relay", "api", "dns"} |-> Unread] /\ changes = 0
    /\ diff = [i |-> 1, j |-> 1, lines |-> <<>>]

\* A step of the command from a to b, and its end.
Goto(a, b) == pc = a /\ pc' = b /\ UNCHANGED <<cmd, opt, zone, out>>
Exit(a, how) == pc = a /\ pc' = "exit" /\ out' = how /\ UNCHANGED <<cmd, opt, zone>>

----------------------------------------------------------------------------
(* add and delete: the zone gate, the payment, the event. *)

Validate ==
    /\ cmd \in {"add", "delete"}
    /\ \/ ~(opt.valid /\ (opt.own \/ cmd = "delete")) /\ Exit("start", "invalid")
       \/ opt.valid /\ (opt.own \/ cmd = "delete")
          /\ IF opt.dry \/ opt.skip THEN Goto("start", "offer") ELSE Goto("start", "gate")
    /\ UNCHANGED <<gate, money, has, sources>>

\* checkZone: no TXT record, or no answer, means not opted in; a TXT record
\* whose key did not announce the zone is shown and the command goes on.
checkZone ==
    \/ Exit("gate", "refused") /\ UNCHANGED <<gate, money, has, sources>>
    \/ /\ zone.txt
       /\ \E answered \in BOOLEAN :
            gate' = IF zone.npub /\ zone.announced /\ answered THEN "verified" ELSE "unverified"
       /\ IF gate' = "verified" THEN Goto("gate", "offer") ELSE Goto("gate", "pause")
       /\ UNCHANGED <<money, has, sources>>

\* Three seconds to abort.
Continue == Goto("pause", "offer") /\ UNCHANGED <<gate, money, has, sources>>
Abort == Exit("pause", "aborted") /\ UNCHANGED <<gate, money, has, sources>>

needsPayment == cmd = "add" /\ gate # "none" /\ ~opt.dry /\ zone.due

\* createP2pkTokenWithRefund: a mint without locked tokens, or without an
\* answer, gets the plain createPaymentToken.
createP2pkTokenWithRefund ==
    /\ pc = "offer"
    /\ \/ needsPayment /\ path' \in {"p2pk", "plain"} /\ Goto("offer", "quote")
       \/ ~needsPayment /\ path' = path
          /\ IF opt.own THEN Goto("offer", "sign") ELSE Exit("offer", "invalid")
    /\ UNCHANGED <<gate, quote, polls, late, seen, sats, printed, has, sources>>

createMintQuote ==
    /\ \/ Exit("quote", "failed") /\ UNCHANGED <<quote, polls>>
       \/ Goto("quote", "poll") /\ quote' = "open" /\ polls' = IF path = "script" THEN MaxPolls ELSE 0
    /\ UNCHANGED <<gate, path, late, seen, sats, printed, has, sources>>

\* One round of the loop of createPaymentToken: the time, the check and, when
\* the invoice is paid, the tokens at once.
mutant_createPaymentToken ==
    /\ path = "plain" /\ pc = "poll"
    /\ \/ ~late /\ \/ quote = "paid" /\ seen' = TRUE /\ Goto("poll", "expired")
                   \/ quote = "open" /\ UNCHANGED <<pc, cmd, opt, zone, out, seen>>
                   \/ Exit("poll", "failed") /\ UNCHANGED seen
       \/ late /\ Exit("poll", "timeout") /\ UNCHANGED seen
    /\ UNCHANGED <<gate, quote, path, polls, late, sats, printed, has, sources>>
createPaymentToken ==
    /\ path = "plain" /\ pc = "poll"
    /\ \/ ~late /\ \/ quote = "paid" /\ seen' = TRUE /\ Goto("poll", "mint")
                   \/ quote = "open" /\ UNCHANGED <<pc, cmd, opt, zone, out, seen>>
                   \/ Exit("poll", "failed") /\ UNCHANGED seen
       \/ late /\ Exit("poll", "timeout") /\ UNCHANGED seen
    /\ UNCHANGED <<gate, quote, path, polls, late, sats, printed, has, sources>>

\* The loop of createP2pkTokenWithRefund leaves when the invoice is paid and
\* when the time is over, and what is asked after it is the time.
pollP2pk ==
    /\ path = "p2pk" /\ pc = "poll"
    /\ \/ ~late /\ \/ quote = "paid" /\ seen' = TRUE /\ Goto("poll", "expired")
                   \/ quote = "open" /\ UNCHANGED <<pc, cmd, opt, zone, out, seen>>
                   \/ Exit("poll", "failed") /\ UNCHANGED seen
       \/ late /\ Goto("poll", "expired") /\ UNCHANGED seen
    /\ UNCHANGED <<gate, quote, path, polls, late, sats, printed, has, sources>>

Expired ==
    /\ IF late THEN Exit("expired", "timeout") ELSE Goto("expired", "mint")
    /\ UNCHANGED <<gate, money, has, sources>>

\* The script polls MaxPolls times and gives up after the last.
mintCashu ==
    /\ path = "script" /\ pc = "poll"
    /\ \/ quote = "paid" /\ seen' = TRUE /\ Goto("poll", "mint") /\ UNCHANGED polls
       \/ quote = "open" /\ polls > 0 /\ polls' = polls - 1 /\ UNCHANGED <<pc, cmd, opt, zone, out, seen>>
       \/ quote = "open" /\ polls = 0 /\ Exit("poll", "timeout") /\ UNCHANGED <<polls, seen>>
       \/ Exit("poll", "failed") /\ UNCHANGED <<polls, seen>>
    /\ UNCHANGED <<gate, quote, path, late, sats, printed, has, sources>>

mintProofs ==
    /\ \/ Exit("mint", "failed") /\ UNCHANGED <<quote, sats>>
       \/ Goto("mint", IF path = "script" THEN "sign" ELSE "send") /\ quote' = "issued"
          /\ sats' = IF path = "script" THEN "token" ELSE "wallet"
    /\ UNCHANGED <<gate, path, polls, late, seen, printed, has, sources>>

walletSend ==
    /\ \/ Exit("send", "failed") /\ UNCHANGED sats
       \/ Goto("send", "sign") /\ sats' = "token"
    /\ UNCHANGED <<gate, quote, path, polls, late, seen, printed, has, sources>>

\* signAndPublish prints the event, with the token in it, and publishes it if
\* this is no dry run; the script prints nothing of it.
signAndPublish ==
    /\ IF opt.dry THEN Exit("sign", "dry") ELSE Goto("sign", "publish")
    /\ printed' = (cmd # "register")
    /\ UNCHANGED <<gate, quote, path, polls, late, seen, sats, has, sources>>

\* SimplePool.publish returns a promise for each relay in an array, which the
\* await does not wait for: each relay counts as reached, and the pool is
\* closed at once.
publish ==
    /\ cmd \in {"add", "delete"}
    /\ Exit("publish", "reported")
    /\ \E reached \in SUBSET Relays : has' = reached
    /\ UNCHANGED <<gate, money, sources>>

\* The script connects to one relay after the other, until one takes the event.
publishEvent ==
    /\ cmd = "register"
    /\ \/ \E r \in Relays : has' = {r} /\ Goto("publish", "look")
       \/ Exit("publish", "failed") /\ has' = has
    /\ UNCHANGED <<gate, money, sources>>

\* ... and asks the bot for the record once.
LookUp ==
    /\ \/ has # {} /\ Exit("look", "confirmed")
       \/ Exit("look", "failed")
    /\ UNCHANGED <<gate, money, has, sources>>

register ==
    /\ cmd = "register" /\ Goto("start", "quote") /\ path' = "script"
    /\ UNCHANGED <<gate, quote, polls, late, seen, sats, printed, has, sources>>

----------------------------------------------------------------------------
(* burn. *)

burn ==
    /\ cmd = "burn"
    /\ IF opt.valid THEN Goto("start", "request") ELSE Exit("start", "invalid")
    /\ UNCHANGED <<gate, money, has, sources>>

\* The notary's invoice, and floor(timeout / 3) polls, none for a timeout
\* below three seconds.
createBurnRequest ==
    /\ \/ Exit("request", "failed") /\ UNCHANGED <<quote, path, polls>>
       \/ Goto("request", "proof") /\ quote' = "open" /\ path' = "notary" /\ polls' \in 0 .. MaxPolls
    /\ UNCHANGED <<gate, late, seen, sats, printed, has, sources>>

\* An answer without a proof is waited out, a request that fails ends it all.
mutant_pollForProof ==
    /\ pc = "proof"
    /\ \/ polls > 0 /\ quote = "paid" /\ seen' = TRUE /\ Exit("proof", "confirmed") /\ UNCHANGED polls
       \/ polls > 0 /\ UNCHANGED <<polls, pc, cmd, opt, zone, out, seen>>
       \/ polls > 0 /\ Exit("proof", "failed") /\ UNCHANGED <<polls, seen>>
       \/ polls = 0 /\ Exit("proof", "timeout") /\ UNCHANGED <<polls, seen>>
    /\ UNCHANGED <<gate, quote, path, late, sats, printed, has, sources>>
pollForProof ==
    /\ pc = "proof"
    /\ \/ polls > 0 /\ quote = "paid" /\ seen' = TRUE /\ Exit("proof", "confirmed") /\ UNCHANGED polls
       \/ polls > 0 /\ polls' = polls - 1 /\ UNCHANGED <<pc, cmd, opt, zone, out, seen>>
       \/ polls > 0 /\ Exit("proof", "failed") /\ UNCHANGED <<polls, seen>>
       \/ polls = 0 /\ Exit("proof", "timeout") /\ UNCHANGED <<polls, seen>>
    /\ UNCHANGED <<gate, quote, path, late, sats, printed, has, sources>>

----------------------------------------------------------------------------
(* refund, of a token with (opt.valid) or without a lock; late is past its   *)
(* locktime.  Until then its operator can spend it, and later too.           *)

checkRefundEligibility ==
    /\ cmd = "refund"
    /\ \/ ~opt.valid /\ Exit("start", "invalid")
       \/ opt.valid /\ ~late /\ Exit("start", "not yet")
       \/ opt.valid /\ late /\ Goto("start", "check")
    /\ UNCHANGED <<gate, money, has, sources>>

refund ==
    /\ \/ ~opt.claim /\ Exit("check", "eligible")
       \/ opt.claim /\ ~opt.own /\ Exit("check", "invalid")
       \/ opt.claim /\ opt.own /\ Goto("check", "receive")
    /\ UNCHANGED <<gate, money, has, sources>>

\* reclaimExpiredToken receives the token, which the mint refuses if it is
\* spent, and makes a new one of it.
reclaimExpiredToken ==
    /\ \/ Exit("receive", "failed") /\ UNCHANGED sats
       \/ sats = "token" /\ sats' = "wallet" /\ Goto("receive", "resend")
    /\ UNCHANGED <<gate, quote, path, polls, late, seen, printed, has, sources>>

mutant_Resend ==
    /\ Exit("resend", "reclaimed") /\ printed' = TRUE /\ sats' \in {"user", "wallet"}
    /\ UNCHANGED <<gate, quote, path, polls, late, seen, has, sources>>
Resend ==
    /\ \/ Exit("resend", "failed") /\ UNCHANGED <<sats, printed>>
       \/ Exit("resend", "reclaimed") /\ sats' = "user" /\ printed' = TRUE
    /\ UNCHANGED <<gate, quote, path, polls, late, seen, has, sources>>

----------------------------------------------------------------------------
(* conformance. *)

conformance == cmd = "conformance" /\ Goto("start", "relay") /\ UNCHANGED <<gate, money, has, sources>>

\* A source that cannot be read leaves its records empty, and the command goes
\* on with the next.
Reads(s, S) == read' = [read EXCEPT ![s] = [ok |-> TRUE, records |-> S]]

\* querySync does not reject: it resolves with the events that some of the relays
\* sent in time, 1000 of each at most, perhaps none.  Without the newest event of a
\* name, an older one or one that was deleted stands for it: such an answer counts, and
\* may be any set of records.
querySync == \E records \in SUBSET Recs : Reads("relay", records)

fetchZoneEvents ==
    /\ cmd = "conformance" /\ Goto("relay", "api")
    /\ querySync \/ UNCHANGED read
    /\ UNCHANGED <<gate, money, has, world, changes, diff>>

fetchApiRecords ==
    /\ cmd = "conformance"
    /\ \/ Reads("api", world["api"]) /\ Goto("api", IF world["api"] # {} THEN "dns" ELSE "verdict")
       \/ UNCHANGED read /\ Goto("api", "verdict")
    /\ UNCHANGED <<gate, money, has, world, changes, diff>>

\* DNS is asked for the API's names, each for itself, and a query that fails
\* is a name without records.
queryZoneRecords ==
    /\ cmd = "conformance" /\ Goto("dns", "verdict")
    /\ \E some \in SUBSET (world["dns"] \cap read["api"].records) : Reads("dns", some)
    /\ UNCHANGED <<gate, money, has, world, changes, diff>>

A == read["relay"]
B == read["api"]
C == read["dns"]

\* diffRecordSets of the sources that answered.
mutant_hasDifferences == A.ok /\ B.ok /\ A.records \ B.records # {}
hasDifferences ==
    \/ A.ok /\ B.ok /\ (A.records \ B.records # {} \/ B.records \ A.records # {})
    \/ B.ok /\ C.ok /\ (B.records \ C.records # {} \/ C.records \ B.records # {})

Verdict ==
    IF ~A.ok \/ ~B.ok THEN "incomplete" ELSE IF hasDifferences THEN "partial" ELSE "match"

\* With different records the diff of the two zone files is printed first.
Compare ==
    /\ IF A.ok /\ B.ok /\ A.records # B.records THEN Goto("verdict", "diff") ELSE Exit("verdict", Verdict)
    /\ UNCHANGED <<gate, money, has, sources>>

sorted == [S \in SUBSET Recs |-> CHOOSE s \in [1 .. Cardinality(S) -> S] :
                            \A m, n \in 1 .. Cardinality(S) : m < n => s[m] < s[n]]
zoneFile(S) == sorted[S]

\* A line that the other file does not have.
mutant_isGone(l, S) == FALSE
isGone(l, S) == l \notin S

\* One round of generateUnifiedDiff.
generateUnifiedDiff ==
    LET a == zoneFile(A.records)
        b == zoneFile(B.records)
        moreA == diff.i <= Len(a)
        moreB == diff.j <= Len(b)
        add(m, l) == [diff EXCEPT !.lines = Append(@, <<m, l>>)]
        stepA(m) == [add(m, a[diff.i]) EXCEPT !.i = @ + 1]
        stepB == [add("+", b[diff.j]) EXCEPT !.j = @ + 1]
    IN
    /\ pc = "diff"
    /\ \/ ~moreA /\ ~moreB /\ Exit("diff", Verdict) /\ UNCHANGED diff
       \/ /\ moreA \/ moreB
          /\ diff' = IF moreA /\ moreB /\ a[diff.i] = b[diff.j] THEN [stepA(" ") EXCEPT !.j = @ + 1]
                     ELSE IF moreA /\ isGone(a[diff.i], B.records) THEN stepA("-")
                     ELSE IF moreB /\ isGone(b[diff.j], A.records) THEN stepB
                     ELSE IF moreA /\ moreB
                       THEN [diff EXCEPT !.i = @ + 1, !.j = @ + 1,
                               !.lines = @ \o <<<<"-", a[diff.i]>>, <<"+", b[diff.j]>>>>]
                     ELSE IF moreA THEN stepA("-") ELSE stepB
          /\ UNCHANGED <<pc, cmd, opt, zone, out>>
    /\ UNCHANGED <<gate, money, has, world, read, changes>>

----------------------------------------------------------------------------
(* zone-check, zone-export and resolve. *)

\* checkZone once more, with words for each outcome.
zoneCheck ==
    /\ cmd = "zone-check"
    /\ \/ Exit("start", "refused")
       \/ zone.txt /\ \E handler \in {FALSE, zone.announced} :
            Exit("start", IF zone.npub /\ handler THEN "verified" ELSE "unverified")
    /\ UNCHANGED <<gate, money, has, sources>>

\* The records of the relays or of the bot, or an error.
zoneExport ==
    /\ cmd = "zone-export"
    /\ \/ Exit("start", "failed") /\ UNCHANGED read
       \/ Exit("start", "answered") /\ (querySync \/ Reads("api", world["api"]))
    /\ UNCHANGED <<gate, money, has, world, changes, diff>>

resolve ==
    /\ cmd = "resolve" /\ \E s \in {"relay", "api", "dns"} : Goto("start", s)
    /\ UNCHANGED <<gate, money, has, sources>>

resolveViaNostr ==
    /\ cmd = "resolve" /\ Exit("relay", "answered")
    /\ querySync \/ UNCHANGED read
    /\ UNCHANGED <<gate, money, has, world, changes, diff>>

\* DNS is asked where the bot fails, and not where it has no records.
resolveViaApi ==
    /\ cmd = "resolve"
    /\ \/ Exit("api", "answered") /\ Reads("api", world["api"])
       \/ Goto("api", "dns") /\ UNCHANGED read
    /\ UNCHANGED <<gate, money, has, world, changes, diff>>

\* A query that fails is a type without records.
resolveViaDns ==
    /\ cmd = "resolve" /\ Exit("dns", "answered")
    /\ \E some \in SUBSET world["dns"] : Reads("dns", some)
    /\ UNCHANGED <<gate, money, has, world, changes, diff>>

----------------------------------------------------------------------------
(* The environment. *)

Pay ==
    /\ quote = "open" /\ quote' = "paid"
    /\ sats' = IF path = "notary" THEN sats ELSE "mint"
    /\ UNCHANGED <<cmd, opt, pc, zone, gate, path, polls, late, seen, printed, has, out, sources>>

TimePasses ==
    /\ ~late
    /\ (cmd = "refund" /\ pc # "exit") \/ (path \in {"p2pk", "plain"} /\ pc \in {"poll", "expired"})
    /\ late' = TRUE
    /\ UNCHANGED <<cmd, opt, pc, zone, gate, quote, path, polls, seen, sats, printed, has, out, sources>>

OperatorClaims ==
    /\ cmd = "refund" /\ sats = "token" /\ sats' = "operator"
    /\ UNCHANGED <<cmd, opt, pc, zone, gate, quote, path, polls, late, seen, printed, has, out, sources>>

\* The bot applies what the relays have, and DNS follows the bot.
RecordsChange ==
    /\ cmd \in Readers /\ pc \in {"relay", "api", "dns"} /\ changes < MaxChanges /\ changes' = changes + 1
    /\ \/ \E S \in SUBSET Recs : world' = [world EXCEPT !["relay"] = S]
       \/ world' = [world EXCEPT !["api"] = world["relay"]]
       \/ world' = [world EXCEPT !["dns"] = world["api"]]
    /\ UNCHANGED <<cmd, opt, pc, zone, gate, money, has, out, read, diff>>

Publishing == Validate \/ checkZone \/ Continue \/ Abort \/ signAndPublish \/ publish
Paying ==
    \/ createP2pkTokenWithRefund \/ createMintQuote \/ createPaymentToken \/ pollP2pk \/ Expired
    \/ mintProofs \/ walletSend
Script == register \/ mintCashu \/ publishEvent \/ LookUp
Burning == burn \/ createBurnRequest \/ pollForProof
Refunding == checkRefundEligibility \/ refund \/ reclaimExpiredToken \/ Resend
Comparing ==
    \/ conformance \/ fetchZoneEvents \/ fetchApiRecords \/ queryZoneRecords \/ Compare
    \/ generateUnifiedDiff
Reading == zoneCheck \/ zoneExport \/ resolve \/ resolveViaNostr \/ resolveViaApi \/ resolveViaDns
Command == Publishing \/ Paying \/ Script \/ Burning \/ Refunding \/ Comparing \/ Reading
Environment == Pay \/ TimePasses \/ OperatorClaims \/ RecordsChange

Next == Command \/ Environment

Spec == Init /\ [][Next]_vars

\* Time passes, and every request is answered or fails; a poll may be answered with
\* "not yet" each time, and need never fail.
FairSpec ==
    /\ Spec /\ WF_vars(TimePasses)
    /\ WF_vars(pc \notin {"poll", "proof"} /\ Command)
    /\ WF_vars(pc \in {"poll", "proof"} /\ Command /\ out' # "failed")

----------------------------------------------------------------------------
(* Properties. *)

\* What was paid and seen to be paid is in the token that was printed, unless
\* the mint failed: neither the timeout nor the relays take it away
\* (lib/cashu.ts; createP2pkTokenWithRefund asks for the time once more).
SeenIsPrinted ==
    pc = "exit" /\ seen /\ path = "plain" /\ out # "failed" => sats = "token" /\ printed

\* What a command says of its end is so: the script's event is on a relay, the
\* notary's invoice is paid, a reclaimed token has the money and was due; a dry run
\* and a refused zone have cost nothing (commands/add.ts); the key of a zone that is
\* called verified has announced it; and an answer of resolve or zone-export is of
\* one source, although resolve goes on to DNS where the bot fails: of the bot, all that
\* it has, of DNS, nothing that it has not, if nothing changed meanwhile.  Of the relays
\* it may be anything (commands/resolve.ts, commands/zone-export.ts).
ReportedIsSo ==
    /\ out = "confirmed" => has # {} \/ quote = "paid"
    /\ out = "reclaimed" => sats = "user" /\ late
    /\ out \in {"dry", "refused"} => quote = "none" /\ has = {}
    /\ out = "verified" => zone.txt /\ zone.npub /\ zone.announced
    /\ out = "answered" =>
         /\ Cardinality({s \in DOMAIN read : read[s].ok}) <= 1
         /\ changes = 0 => /\ read["api"].ok => read["api"].records = world["api"]
                           /\ read["dns"].records \subseteq world["dns"]

\* If nothing changed while conformance ran, a "match" says that the relays answered with
\* the bot's records and that DNS has them all, whatever the relays and DNS left out; and
\* if the bot answered and relays and DNS left out nothing, the verdict is "match" exactly
\* if the three have the same records, as far as DNS was asked (commands/conformance.ts).
VerdictIsRight ==
    cmd = "conformance" /\ pc = "exit" /\ changes = 0 =>
      /\ out = "match" => A.records = world["api"] /\ world["api"] \subseteq world["dns"]
      /\ /\ A.ok /\ A.records = world["relay"]
         /\ B.ok /\ (B.records # {} => C.records = world["dns"] \cap B.records)
         => (out = "match" <=> world["relay"] = world["api"] /\ world["api"] \subseteq world["dns"])

\* Without the lines of the other file, whose mark is not m, the diff is the zone file
\* of S: each of its records once, in their order.
shows(lines, m, S) ==
    LET side == {n \in DOMAIN lines : lines[n][1] \in {" ", m}}
    IN  /\ {lines[n][2] : n \in side} = S
        /\ \A n, k \in side : n < k => lines[n][2] < lines[k][2]

\* The diff is one of the two zone files: without the lines of the one it is
\* the other, and it shows a line they share once (generateUnifiedDiff).
DiffIsFaithful ==
    pc = "exit" /\ diff.lines # <<>> =>
        /\ shows(diff.lines, "-", A.records) /\ shows(diff.lines, "+", B.records)
        /\ \A n \in DOMAIN diff.lines : diff.lines[n][2] \in A.records \cap B.records => diff.lines[n][1] = " "

\* Every command ends, even if mint and notary answer each poll with "not yet": each of
\* its waits is bounded (lib/cashu.ts, lib/p2pk.ts, notary.ts, ci/register-txt.mjs).
CommandEnds == <>(pc = "exit")

\* "Failed to publish to all N relay(s)" (lib/nostr.ts): a publication that
\* is reported is on a relay.
ReportedIsPublished == out = "reported" => has # {}
=============================================================================
