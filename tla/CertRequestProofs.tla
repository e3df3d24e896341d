------------------------- MODULE CertRequestProofs -------------------------
(***************************************************************************)
(* Proofs about CertRequest and the dashboard it is part of, for every     *)
(* number of keys, records, orders, pipelines, polls and clicks.           *)
(***************************************************************************)
EXTENDS CertRequest, FiniteSetTheorems, TLAPS

----------------------------------------------------------------------------
(* The dashboard. *)

\* A pipeline's polls are of the pipelines there are; while the key has not
\* changed since something was published all of them, and the publication in
\* flight, are of that key; and an end of the pipeline has had a pipeline.
PipelineInv ==
    /\ \A r \in 1..MaxRuns : polls[r].flying > 0 => r <= run
    /\ publishing => run < MaxRuns
    /\ timer # "none" => run > 0
    /\ ~moved => /\ publishing => job.key = key
                 /\ \A r \in 1..run : polls[r].key = key
    /\ status = "success" => run > 0
    /\ EndIsEarned

DashInv == DashTypeOK /\ PipelineInv

LEMMA DashInitInv == DashInit => DashInv
<1> SUFFICES ASSUME DashInit PROVE DashInv
  OBVIOUS
<1>1. NoPolls \in [key: Keys \cup {None}, attempts: 0..MaxAttempts, flying: 0..MaxPolls] /\ NoPolls.flying = 0
  BY DashboardAssumption DEF NoPolls
<1>2. DashTypeOK
  <2>1. polls \in [1..MaxRuns -> [key: Keys \cup {None}, attempts: 0..MaxAttempts, flying: 0..MaxPolls]]
    BY <1>1 DEF DashInit
  <2>2. job \in [key: Keys, recs: SUBSET Recs] \cup {NoJob} /\ run \in 0..MaxRuns /\ clicks \in 0..MaxClicks
    BY DashboardAssumption DEF DashInit
  <2>3. /\ key \in Keys \cup {None} /\ pending \subseteq Recs
        /\ status \in Idle \cup {"publishing", "processing", "resolving"}
        /\ timer \in {"none", "t2", "t3", "interval"}
        /\ dns \subseteq Keys /\ asked \subseteq Keys /\ answered \subseteq Keys
        /\ unsent \in BOOLEAN /\ moved \in BOOLEAN
    BY DEF DashInit, Idle
  <2> QED BY <2>1, <2>2, <2>3 DEF DashTypeOK
<1>3. \A r \in 1..MaxRuns : polls[r].flying = 0
  BY <1>1 DEF DashInit
<1>4. PipelineInv
  BY <1>3, DashboardAssumption
     DEF DashInit, PipelineInv, EndIsEarned, SuccessIsOwn, ErrorHasReason, publishing
<1> QED BY <1>2, <1>4 DEF DashInv

\* One pipeline's polls.
Polls == [key: Keys \cup {None}, attempts: 0..MaxAttempts, flying: 0..MaxPolls]

\* A change of key: what was published is of another key then, or nothing was.
LEMMA KeyChangeKeeps ==
    ASSUME DashInv, KeyChange PROVE DashInv'
<1>1. /\ key' \in Keys \cup {None} /\ moved' \in BOOLEAN /\ (~moved' => ~publishing /\ ~(run > 0))
      /\ pending' \in SUBSET Recs /\ clicks' \in 0..MaxClicks
      /\ UNCHANGED <<job, run, polls, world, answered, unsent>>
  <2>1. moved' = (moved \/ publishing \/ run > 0)
    BY DEF KeyChange, handleGenerateNew, handleLoadNsec, handleClearKeys, setKeyPair
  <2>2. moved' \in BOOLEAN /\ (~moved' => ~publishing /\ ~(run > 0))
    BY <2>1, Zenon
  <2>3. clicks' \in 0..MaxClicks
    BY DashboardAssumption
       DEF KeyChange, handleGenerateNew, handleLoadNsec, handleClearKeys, Click, DashInv, DashTypeOK
  <2>4. /\ key' \in Keys \cup {None} /\ pending' \in SUBSET Recs
        /\ UNCHANGED <<job, run, polls, world, answered, unsent>>
    BY DEF KeyChange, handleGenerateNew, handleLoadNsec, handleClearKeys, setKeyPair, pipeline,
           DashInv, DashTypeOK
  <2> QED BY <2>2, <2>3, <2>4
<1>2. \/ UNCHANGED <<status, timer>>
      \/ status' = "idle" /\ timer' = "none"
  BY DEF KeyChange, handleGenerateNew, handleLoadNsec, handleClearKeys, setKeyPair, pipeline,
         stopPipelineTimers
<1>3. DashTypeOK'
  BY <1>1, <1>2 DEF DashInv, DashTypeOK, world, Idle, publishing
<1>4. PipelineInv'
  <2>1. run \in 0..MaxRuns
    BY DEF DashInv, DashTypeOK
  <2>2. ~moved' => ~publishing /\ run = 0
    BY <1>1, <2>1
  <2>3. ErrorHasReason'
    BY <1>1, <1>2 DEF DashInv, PipelineInv, EndIsEarned, ErrorHasReason, Exhausted
  <2>4. SuccessIsOwn'
    BY <1>1, <1>2, <2>2 DEF DashInv, PipelineInv, SuccessIsOwn
  <2>5. ~moved' => ~publishing' /\ \A r \in 1..run' : polls'[r].key = key'
    BY <1>1, <2>2 DEF publishing
  <2> QED BY <1>1, <1>2, <2>3, <2>4, <2>5 DEF DashInv, PipelineInv, EndIsEarned, publishing
<1> QED BY <1>3, <1>4 DEF DashInv

\* A pipeline begins.
LEMMA PipelineBegins ==
    ASSUME DashInv, handlePublishWithPipeline PROVE DashInv'
<1> USE DashboardAssumption DEF DashInv
<1>1. job.key \in Keys /\ job.recs \subseteq Recs /\ run \in 0..MaxRuns /\ run < MaxRuns
  BY DEF handlePublishWithPipeline, publishing, DashTypeOK, PipelineInv
<1> DEFINE fresh == [NoPolls EXCEPT !.key = job.key]
<1>2. fresh \in Polls /\ fresh.key = job.key /\ fresh.flying = 0
  BY <1>1 DEF Polls, NoPolls
<1>3. /\ polls' = [polls EXCEPT ![run + 1] = fresh] /\ run' = run + 1 /\ run + 1 \in 1..MaxRuns
      /\ status' = "publishing" /\ timer' = "t2" /\ pending' = {} /\ job' = NoJob /\ unsent' = FALSE
      /\ UNCHANGED <<key, dns, clicks, answered, moved>>
      /\ asked' \subseteq Keys
  BY <1>1 DEF handlePublishWithPipeline, startPipeline, DashTypeOK
<1> HIDE DEF fresh
<1>4. polls \in [1..MaxRuns -> Polls]
  BY DEF DashTypeOK, Polls
<1>5. DashTypeOK'
  <2>1. polls' \in [1..MaxRuns -> Polls]
    BY <1>2, <1>3, <1>4
  <2>2. /\ job' \in [key: Keys, recs: SUBSET Recs] \cup {NoJob} /\ run' \in 0..MaxRuns
        /\ pending' \subseteq Recs /\ asked' \subseteq Keys
    BY <1>1, <1>3
  <2>3. /\ status' \in Idle \cup {"publishing", "processing", "resolving"}
        /\ timer' \in {"none", "t2", "t3", "interval"}
    BY <1>3
  <2> QED BY <1>3, <2>1, <2>2, <2>3 DEF DashTypeOK, Polls
<1>6. \A r \in 1..MaxRuns : polls'[r] = IF r = run + 1 THEN fresh ELSE polls[r]
  BY <1>3, <1>4
<1>7. ~moved => job.key = key /\ \A r \in 1..run : polls[r].key = key
  BY DEF PipelineInv, handlePublishWithPipeline
<1>8. ~moved' => \A r \in 1..run' : polls'[r].key = key'
  BY <1>1, <1>2, <1>3, <1>6, <1>7
<1>9. \A r \in 1..MaxRuns : polls'[r].flying > 0 => r <= run'
  BY <1>1, <1>2, <1>3, <1>4, <1>6 DEF PipelineInv, Polls
<1>10. PipelineInv'
  BY <1>1, <1>3, <1>8, <1>9 DEF PipelineInv, EndIsEarned, SuccessIsOwn, ErrorHasReason, publishing
<1> QED BY <1>5, <1>10

\* A poll is sent.
LEMMA PollSent ==
    ASSUME DashInv, startPipelineDnsPolling PROVE DashInv'
<1> USE DashboardAssumption DEF DashInv
<1>1. run \in 1..MaxRuns /\ polls[run].flying < MaxPolls
  BY DEF startPipelineDnsPolling, PipelineInv, DashTypeOK
<1>2. polls \in [1..MaxRuns -> Polls]
  BY DEF DashTypeOK, Polls
<1> DEFINE next == [polls[run] EXCEPT !.attempts = Count(@), !.flying = @ + 1]
<1>3. /\ next \in Polls /\ next.key = polls[run].key
      /\ polls[run].attempts = MaxAttempts => next.attempts = MaxAttempts
  <2>1. polls[run] \in Polls
    BY <1>1, <1>2
  <2>2. Count(polls[run].attempts) \in 0..MaxAttempts
    BY <2>1 DEF Count, Polls
  <2>3. polls[run].flying + 1 \in 0..MaxPolls
    BY <1>1, <2>1 DEF Polls
  <2>4. polls[run].attempts = MaxAttempts => Count(polls[run].attempts) = MaxAttempts
    BY DEF Count
  <2>5. /\ next \in Polls /\ next.key = polls[run].key
        /\ next.attempts = Count(polls[run].attempts)
    BY <2>1, <2>2, <2>3 DEF Polls
  <2> QED BY <2>4, <2>5
<1>4. polls' = [polls EXCEPT ![run] = next] /\ UNCHANGED <<queue, status, timer, run, world, clicks, history>>
  BY DEF startPipelineDnsPolling
<1> HIDE DEF next
<1>5. \A r \in 1..MaxRuns : polls'[r] = IF r = run THEN next ELSE polls[r]
  BY <1>2, <1>4
<1>6. DashTypeOK'
  <2>1. polls' \in [1..MaxRuns -> Polls]
    BY <1>2, <1>3, <1>4
  <2> QED BY <1>4, <2>1 DEF DashTypeOK, Polls, queue, world, history
<1>7. \A r \in 1..MaxRuns : polls'[r].key = polls[r].key /\ (Exhausted(r) => Exhausted(r)')
  BY <1>3, <1>5 DEF Exhausted
<1>8. \A r \in 1..MaxRuns : polls'[r].flying > 0 => r <= run
  BY <1>1, <1>5 DEF PipelineInv
<1>9. PipelineInv'
  <2>1. run' = run /\ run \in 0..MaxRuns
    BY <1>4 DEF DashTypeOK
  <2> QED BY <1>4, <1>7, <1>8, <2>1
       DEF PipelineInv, EndIsEarned, SuccessIsOwn, ErrorHasReason, publishing, queue, world, history
<1> QED BY <1>6, <1>9

\* A poll of any pipeline is answered.
LEMMA PollAnswered ==
    ASSUME DashInv, NEW r \in 1..MaxRuns, PollReturns(r) PROVE DashInv'
<1> USE DashboardAssumption DEF DashInv
<1>1. polls \in [1..MaxRuns -> Polls] /\ polls[r] \in Polls /\ run \in 0..MaxRuns
  BY DEF DashTypeOK, Polls
<1>2. PICK found \in {FALSE, polls[r].key \in dns} :
        /\ polls[r].flying > 0
        /\ polls' = [polls EXCEPT ![r].flying = @ - 1]
        /\ status' = IF Exhausted(r) THEN "error" ELSE IF found THEN "success" ELSE status
        /\ IF found \/ Exhausted(r) THEN stopPipelineTimers ELSE UNCHANGED timer
        /\ answered' = IF found THEN answered \cup {polls[r].key} ELSE answered
        /\ UNCHANGED <<queue, run, world, clicks, unsent, moved>>
  BY DEF PollReturns
<1>3. r \in 1..run
  BY <1>1, <1>2 DEF PipelineInv
<1> DEFINE next == [polls[r] EXCEPT !.flying = @ - 1]
<1>4. /\ next \in Polls /\ next.key = polls[r].key /\ next.attempts = polls[r].attempts
  <2>1. polls[r].flying - 1 \in 0..MaxPolls
    BY <1>1, <1>2 DEF Polls
  <2> QED BY <1>1, <2>1 DEF Polls
<1>5. polls' = [polls EXCEPT ![r] = next]
  BY <1>2
<1> HIDE DEF next
<1>6. \A q \in 1..MaxRuns : polls'[q] = IF q = r THEN next ELSE polls[q]
  BY <1>1, <1>5
<1>7. \A q \in 1..MaxRuns : polls'[q].key = polls[q].key /\ (Exhausted(q)' <=> Exhausted(q))
  BY <1>4, <1>6 DEF Exhausted
<1>8. found => polls[r].key \in Keys
  BY <1>2 DEF DashTypeOK
<1>9. timer' \in {"none", timer} /\ status' \in {"error", "success", status}
  BY <1>2 DEF stopPipelineTimers
<1>10. DashTypeOK'
  <2>1. polls' \in [1..MaxRuns -> Polls]
    BY <1>1, <1>4, <1>5
  <2> QED BY <1>2, <1>8, <1>9, <2>1 DEF DashTypeOK, Polls, queue, world, Idle
<1>11. PipelineInv'
  <2>1. \A q \in 1..MaxRuns : polls'[q].flying > 0 => q <= run'
    BY <1>1, <1>2, <1>3, <1>6 DEF PipelineInv
  <2>2. SuccessIsOwn'
    BY <1>2, <1>3 DEF PipelineInv, EndIsEarned, SuccessIsOwn, queue
  <2>3. ErrorHasReason'
    <3>1. CASE Exhausted(r)
      BY <1>1, <1>2, <1>3, <1>7, <3>1 DEF ErrorHasReason
    <3>2. CASE ~Exhausted(r)
      BY <1>1, <1>2, <1>7, <3>2 DEF PipelineInv, EndIsEarned, ErrorHasReason
    <3> QED BY <3>1, <3>2
  <2>4. ~moved' => \A q \in 1..run' : polls'[q].key = key'
    BY <1>1, <1>2, <1>7 DEF PipelineInv, queue
  <2> QED BY <1>1, <1>2, <1>3, <1>9, <2>1, <2>2, <2>3, <2>4 DEF PipelineInv, EndIsEarned, publishing, queue
<1> QED BY <1>10, <1>11

\* The steps of the dashboard that keep the key.
LEMMA KeyStaysKeeps ==
    ASSUME DashInv, KeyStays PROVE DashInv'
<1> USE DashboardAssumption DEF DashInv
<1>1. ASSUME NEW r \in Recs, handleAddRecord(r) \/ handleRemoveRecord(r) PROVE DashInv'
  BY <1>1 DEF handleAddRecord, handleRemoveRecord, DashTypeOK, PipelineInv, EndIsEarned, SuccessIsOwn,
              ErrorHasReason, pipeline, world, history, publishing, Exhausted
<1>2. CASE handlePublish
  <2>1. DashTypeOK'
    BY <1>2 DEF handlePublish, Click, FormShown, DashTypeOK, pipeline, world, history
  <2>2. PipelineInv'
    BY <1>2 DEF handlePublish, PipelineInv, EndIsEarned, SuccessIsOwn, ErrorHasReason, pipeline, world,
                history, publishing, Exhausted
  <2> QED BY <2>1, <2>2
<1>3. CASE publishFailed
  BY <1>3 DEF publishFailed, DashTypeOK, PipelineInv, EndIsEarned, SuccessIsOwn, ErrorHasReason, Idle,
              world, publishing, Exhausted
<1>4. CASE TimerFires
  BY <1>4 DEF TimerFires, DashTypeOK, PipelineInv, EndIsEarned, SuccessIsOwn, ErrorHasReason, Idle,
              queue, world, history, publishing, Exhausted
<1>5. ASSUME NEW k \in Keys, BotApplies(k) PROVE DashInv'
  BY <1>5 DEF BotApplies, DashTypeOK, PipelineInv, EndIsEarned, SuccessIsOwn, ErrorHasReason,
              queue, pipeline, history, publishing, Exhausted
<1> QED
  BY <1>1, <1>2, <1>3, <1>4, <1>5, PipelineBegins, PollSent, PollAnswered DEF KeyStays

\* A request for a certificate is one click more.
LEMMA DashStays ==
    ASSUME DashInv, UNCHANGED <<queue, pipeline, world, history>>, clicks' = clicks \/ Click
    PROVE  DashInv'
<1>1. clicks' \in 0..MaxClicks
  BY DashboardAssumption DEF DashInv, DashTypeOK, Click
<1>2. DashTypeOK'
  BY <1>1 DEF DashInv, DashTypeOK, queue, pipeline, world, history, Idle
<1>3. PipelineInv'
  BY DEF DashInv, PipelineInv, EndIsEarned, SuccessIsOwn, ErrorHasReason, Exhausted, publishing,
         queue, pipeline, world, history
<1> QED BY <1>2, <1>3 DEF DashInv

----------------------------------------------------------------------------
(* The panel and the orders. *)

Panels == [order: Orders \cup {None}, shown: Answers \cup {Nothing},
           loading: BOOLEAN, error: BOOLEAN,
           derived: Keys \cup {None}, derivationError: BOOLEAN]

Posts == [st: {"none", "sent", "accepted"}, order: Orders \cup {None},
          csr: Keys \cup {None}, here: BOOLEAN]

\* An order that was placed with the user's key there is now: with a CSR of its
\* derived key, or else for the bot to generate one.
Fits(o) ==
    /\ o \in Orders /\ outcome[o] # "none" /\ key \in Keys
    /\ IF Crypto[key] = "csr" THEN o \notin generates /\ csrOf[o] = key ELSE o \in generates

\* A key that was handed out is the one generated for the order it came with.
KeyOfIts(a) == a.key # None => a.key = a.order /\ a.order \in generates

\* Whatever the panel has, awaits and shows is of the user's key there is now.
KeyInv ==
    /\ panel.derived # None =>
         key \in Keys /\ panel.derived = key /\ (Crypto[key] = "csr" \/ panel.derivationError)
    /\ \A a \in answers : Fits(a.order) /\ KeyOfIts(a)
    /\ panel.shown # Nothing => Fits(panel.shown.order) /\ KeyOfIts(panel.shown)
    /\ panel.order # None => Fits(panel.order)
    /\ post.st # "none" /\ post.here => key \in Keys /\ post.csr = generateCsr(key)
    /\ post.st = "accepted" /\ post.here => Fits(post.order)

Known(o) == o \in Orders /\ outcome[o] \in {"open"} \cup Settled

\* The order that is polled, and the one whose answer is under way, are orders
\* the bot has accepted; and so are those whose key it generates.
KnownInv ==
    /\ \A o \in generates : outcome[o] # "none"
    /\ panel.order # None => Known(panel.order)
    /\ post.st = "accepted" => Known(post.order)

\* While nothing has gone astray, an order that is open is the one the panel
\* polls or the one whose answer is under way, of which there is one at most;
\* and what is answered and shown of an order that was settled is so.
OrderInv ==
    /\ \A o \in Orders : outcome[o] = "open" => o = panel.order \/ (post.st = "accepted" /\ o = post.order)
    /\ post.st # "none" => post.here /\ panel.order = None
    /\ panel.error => panel.order = None /\ post.st = "none"
    /\ \A a \in answers : a.st \in Settled => outcome[a.order] = a.st
    /\ panel.shown.st \in Settled =>
         panel.order # None /\ panel.shown.order = panel.order /\ outcome[panel.order] = panel.shown.st

CertInv == TypeOK /\ KeyInv /\ KnownInv /\ (~astray => OrderInv)

Blank == NoPanel.shown = Nothing /\ NoPanel.shown.st = "none" /\ NoPanel.order = None

LEMMA Blanks == Blank /\ NoPanel \in Panels /\ ~NoPanel.error /\ NoPanel.derived = None
                      /\ NoPost \in Posts
                      /\ NoPost.st = "none"
BY DEF Blank, NoPanel, Nothing, Panels, Posts, NoPost

LEMMA CertInitInv == Init => CertInv
<1> SUFFICES ASSUME Init PROVE CertInv
  OBVIOUS
<1> USE Blanks DEF Blank
<1>1. DashTypeOK
  BY DashInitInv DEF Init, DashInv
<1>2. Bot!ServiceTypeOK
  BY DEF Init, Bot!ServiceInit, Bot!ServiceTypeOK
<1>3. TypeOK
  BY <1>1, <1>2 DEF Init, TypeOK, Panels, Posts
<1>4. KeyInv
  BY DEF Init, KeyInv
<1>5. OrderInv
  BY DEF Init, OrderInv, Bot!ServiceInit, Settled
<1>6. KnownInv
  BY DEF Init, KnownInv, Bot!ServiceInit
<1> QED BY <1>3, <1>4, <1>5, <1>6 DEF CertInv

LEMMA SameDash ==
    ASSUME DashTypeOK, UNCHANGED dashVars PROVE DashTypeOK'
BY DEF DashTypeOK, dashVars, queue, pipeline, world, history, Idle

\* What fits goes on to fit while the user's key and the orders stay.
LEMMA FitsStays ==
    ASSUME key' = key, csrOf' = csrOf, generates' = generates,
           \A o \in Orders : outcome[o] # "none" => outcome'[o] # "none"
    PROVE  /\ \A o : Fits(o) => Fits(o)'
           /\ \A a : KeyOfIts(a) => KeyOfIts(a)'
BY DEF Fits, KeyOfIts

\* The orders that are awaited and shown are orders.
LEMMA OrdersOf ==
    ASSUME TypeOK
    PROVE  /\ \A a \in answers : a \in Answers /\ a.order \in Orders
           /\ panel.shown # Nothing => panel.shown \in Answers /\ panel.shown.order \in Orders
           /\ panel.order # None => panel.order \in Orders
           /\ panel \in Panels /\ post \in Posts
BY DEF TypeOK, Answers, Panels, Posts

\* The steps of the bot.
LEMMA BotWorksKeeps ==
    ASSUME CertInv, NEW o \in Orders, BotWorks(o) PROVE CertInv'
<1>1. /\ Bot!ServiceTypeOK /\ Bot!ServiceTypeOK' /\ generates' = generates
      /\ \/ outcome' = outcome
         \/ outcome[o] = "open" /\ \E s \in Settled : outcome' = [outcome EXCEPT ![o] = s]
  <2>1. Bot!ServiceTypeOK
    BY DEF CertInv, TypeOK
  <2>2. CASE Bot!KeepKey(o)
    <3>1. UNCHANGED <<outcome, generates, taken>> /\ held' = held \cup {o} /\ o \in generates
      BY <2>2 DEF Bot!KeepKey
    <3> QED BY <2>1, <3>1 DEF Bot!ServiceTypeOK
  <2>3. CASE Bot!Issue(o)
    BY <2>1, <2>3 DEF Bot!Issue, Bot!ServiceTypeOK, Settled
  <2>4. CASE Bot!Fail(o)
    BY <2>1, <2>4 DEF Bot!Fail, Bot!ServiceTypeOK, Settled
  <2>5. CASE Bot!ClearKey(o)
    <3>1. UNCHANGED <<outcome, generates, taken>> /\ held' = held \ {o}
      BY <2>5 DEF Bot!ClearKey
    <3> QED BY <2>1, <3>1 DEF Bot!ServiceTypeOK
  <2> QED BY <2>2, <2>3, <2>4, <2>5 DEF BotWorks
<1>2. DashTypeOK'
  BY SameDash DEF CertInv, TypeOK, BotWorks
<1>3. UNCHANGED <<csrOf, panel, post, answers, astray>> /\ key' = key
  BY DEF BotWorks, child, dashVars, queue
<1>4. TypeOK'
  BY <1>1, <1>2, <1>3 DEF CertInv, TypeOK
<1>5. KeyInv'
  <2>1. \A q \in Orders : outcome[q] # "none" => outcome'[q] # "none"
    BY <1>1 DEF Bot!ServiceTypeOK, Settled
  <2> QED BY <1>1, <1>3, <2>1, FitsStays, OrdersOf DEF CertInv, KeyInv
<1>6. \A q \in Orders : /\ outcome'[q] = "open" => outcome[q] = "open"
                        /\ outcome[q] \in Settled => outcome'[q] = outcome[q]
  BY <1>1 DEF Bot!ServiceTypeOK, Settled
<1>7. \A a \in answers : a.order \in Orders
  BY DEF CertInv, TypeOK, Answers
<1>8. panel.order \in Orders \cup {None}
  BY DEF CertInv, TypeOK
<1>9. ~astray' => OrderInv'
  BY <1>3, <1>6, <1>7, <1>8 DEF CertInv, OrderInv
<1>10. KnownInv'
  BY <1>1, <1>3, <1>8 DEF CertInv, KnownInv, Known, Settled, Bot!ServiceTypeOK
<1> QED BY <1>4, <1>5, <1>9, <1>10 DEF CertInv

\* A restart of the bot.
LEMMA RestartKeeps ==
    ASSUME CertInv, BotRestarts PROVE CertInv'
<1>1. /\ UNCHANGED <<outcome, generates, taken>> /\ held' = {}
      /\ UNCHANGED <<dashVars, csrOf, panel, post, answers, astray>>
  BY DEF BotRestarts, Bot!LoseKeys, child
<1>2. key' = key
  BY <1>1 DEF dashVars, queue
<1>3. TypeOK'
  <2>1. Bot!ServiceTypeOK'
    BY <1>1 DEF CertInv, TypeOK, Bot!ServiceTypeOK
  <2> QED BY <1>1, <2>1, SameDash DEF CertInv, TypeOK
<1>4. KeyInv'
  BY <1>1, <1>2, FitsStays, OrdersOf DEF CertInv, KeyInv
<1>5. KnownInv' /\ (~astray' => OrderInv')
  BY <1>1 DEF CertInv, KnownInv, Known, OrderInv
<1> QED BY <1>3, <1>4, <1>5 DEF CertInv

\* The panel asks.
LEMMA RequestKeeps ==
    ASSUME CertInv, DashTypeOK', handleRequest PROVE CertInv'
<1> DEFINE next == [NoPanel EXCEPT !.loading = TRUE, !.derived = generateTlsKeyPair(key),
                                  !.derivationError = generateCsr(key) = None]
           sent == [NoPost EXCEPT !.st = "sent", !.csr = generateCsr(key), !.here = TRUE]
<1>0. key \in Keys /\ key' = key
  BY DEF handleRequest, may_request, queue, CertInv, TypeOK, DashTypeOK
<1>a. /\ generateTlsKeyPair(key) \in Keys \cup {None} /\ generateCsr(key) \in Keys \cup {None}
      /\ (generateCsr(key) = None) \in BOOLEAN
  BY <1>0 DEF generateTlsKeyPair, generateCsr
<1>1. /\ next \in Panels /\ next.order = None /\ next.shown = Nothing
      /\ ~next.error /\ next.derived = generateTlsKeyPair(key)
      /\ next.derivationError = (generateCsr(key) = None)
  BY <1>a DEF NoPanel, Nothing, Panels
<1>2. sent \in Posts /\ sent.st = "sent" /\ sent.here /\ sent.csr = generateCsr(key)
  BY <1>a DEF NoPost, Posts
<1>3. /\ panel' = next /\ post' = sent /\ UNCHANGED <<service, csrOf, answers, astray>>
      /\ panel.order = None /\ post = NoPost
  BY DEF handleRequest, may_request, ShowsButton
<1>b. next.derived # None => next.derived = key /\ (Crypto[key] = "csr" \/ next.derivationError)
  BY <1>1 DEF generateTlsKeyPair, generateCsr
<1> HIDE DEF next, sent
<1>4. TypeOK'
  BY <1>1, <1>2, <1>3 DEF CertInv, TypeOK, Panels, Posts, service, Bot!ServiceTypeOK
<1>5. Nothing.st = "none"
  BY DEF Nothing
<1>6. KeyInv'
  BY <1>0, <1>1, <1>2, <1>3, <1>b, FitsStays, OrdersOf DEF CertInv, KeyInv, service
<1>7. ~astray' => OrderInv'
  BY <1>1, <1>2, <1>3, <1>5, Blanks, CertAssumption DEF CertInv, OrderInv, service, Settled
<1>8. KnownInv'
  BY <1>1, <1>2, <1>3 DEF CertInv, KnownInv, Known, service
<1> QED BY <1>4, <1>6, <1>7, <1>8 DEF CertInv

\* The bot accepts.
LEMMA AcceptKeeps ==
    ASSUME CertInv, NEW o \in Orders, BotAccepts(o) PROVE CertInv'
<1> DEFINE next == [post EXCEPT !.st = "accepted", !.order = o]
<1>0. post \in Posts
  BY OrdersOf DEF CertInv
<1>1. /\ next \in Posts
      /\ next.st = "accepted" /\ next.order = o /\ next.here = post.here /\ next.csr = post.csr
  BY <1>0 DEF Posts
<1>2. /\ post' = next /\ post.st = "sent" /\ Bot!Accept(o, post.csr # None)
      /\ csrOf' = [csrOf EXCEPT ![o] = post.csr]
      /\ UNCHANGED <<dashVars, panel, answers, astray>>
  BY DEF BotAccepts
<1> HIDE DEF next
<1>3. /\ Bot!ServiceTypeOK' /\ outcome[o] = "none"
      /\ \A q \in Orders : outcome'[q] = IF q = o THEN "open" ELSE outcome[q]
      /\ generates' = IF post.csr # None THEN generates ELSE generates \cup {o}
  BY <1>2 DEF CertInv, TypeOK, Bot!Accept, Bot!ServiceTypeOK
<1>4. TypeOK'
  <2>1. csrOf' \in [Orders -> Keys \cup {None}]
    BY <1>0, <1>2 DEF CertInv, TypeOK, Posts
  <2> QED BY <1>1, <1>2, <1>3, <2>1, SameDash DEF CertInv, TypeOK, Posts
<1>5. KeyInv'
  <2>1. key' = key
    BY <1>2 DEF dashVars, queue
  <2>2. /\ \A q : Fits(q) => Fits(q)'
        /\ \A a : KeyOfIts(a) => KeyOfIts(a)'
    BY <1>2, <1>3, <2>1 DEF CertInv, TypeOK, Fits, KeyOfIts
  <2>3. post.here => Fits(o)'
    <3> SUFFICES ASSUME post.here PROVE Fits(o)'
      OBVIOUS
    <3>1. key \in Keys /\ post.csr = generateCsr(key)
      BY <1>2 DEF CertInv, KeyInv
    <3>2. csrOf'[o] = post.csr
      BY <1>2 DEF CertInv, TypeOK
    <3>3. o \notin generates
      BY <1>3 DEF CertInv, KnownInv
    <3> QED BY <1>3, <2>1, <3>1, <3>2, <3>3, DashboardAssumption DEF Fits, generateCsr
  <2>4. post'.here => Fits(post.order)'
    <3>1. post'.here => post.here /\ post'.order = o
      BY <1>1, <1>2
    <3> QED BY <2>3, <3>1 DEF Fits
  <2> QED BY <1>1, <1>2, <2>1, <2>2, <2>4, OrdersOf DEF CertInv, KeyInv
<1>6. \A a \in answers : a.order \in Orders
  BY DEF CertInv, TypeOK, Answers
<1>7. panel.order \in Orders \cup {None}
  BY DEF CertInv, TypeOK
<1>8. ~astray' => OrderInv'
  BY <1>1, <1>2, <1>3, <1>6, <1>7, Blanks DEF CertInv, OrderInv, Settled
<1>9. KnownInv'
  BY <1>1, <1>2, <1>3 DEF CertInv, TypeOK, Bot!ServiceTypeOK, KnownInv, Known
<1> QED BY <1>4, <1>5, <1>8, <1>9 DEF CertInv

\* The order id arrives.
LEMMA AnswerKeeps ==
    ASSUME CertInv, requestCertificate PROVE CertInv'
<1> DEFINE begun == [order |-> post.order, st |-> "open", key |-> None]
           next == [panel EXCEPT !.order = post.order, !.loading = FALSE, !.shown = begun]
<1>1. /\ UNCHANGED <<dashVars, service, csrOf, answers, astray>>
      /\ post' = NoPost /\ post.st = "accepted"
      /\ panel' = IF post.here THEN next ELSE panel
  BY DEF requestCertificate
<1>2. panel \in Panels /\ post.order \in Orders
  BY <1>1 DEF CertInv, TypeOK, Panels, KnownInv, Known
<1>3. begun \in Answers /\ begun.st = "open" /\ begun.key = None /\ begun.order = post.order
  BY <1>2 DEF Answers
<1> HIDE DEF begun
<1>4. /\ next \in Panels /\ next.order = post.order /\ next.shown = begun
      /\ next.error = panel.error /\ next.derived = panel.derived
      /\ next.derivationError = panel.derivationError
  BY <1>2, <1>3 DEF Panels
<1> HIDE DEF next
<1>5. TypeOK'
  BY <1>1, <1>2, <1>4, SameDash, Blanks DEF CertInv, TypeOK, Panels, Posts, service, Bot!ServiceTypeOK
<1>6. KeyInv'
  <2>1. key' = key
    BY <1>1 DEF dashVars, queue
  <2>2. CASE post.here
    <3>1. PICK o : o = post.order /\ Fits(o)'
      <4>1. \A o : Fits(o) => Fits(o)'
        BY <1>1, <2>1, FitsStays DEF service
      <4>2. Fits(post.order)
        BY <1>1, <2>2 DEF CertInv, KeyInv
      <4> QED BY <4>1, <4>2
    <3>2. /\ panel'.shown.order = o /\ panel'.shown.key = None /\ panel'.order = o
          /\ panel'.derived = panel.derived /\ panel'.derivationError = panel.derivationError
      BY <1>1, <1>3, <1>4, <2>2, <3>1
    <3>3. Fits(panel.shown.order)' /\ Fits(panel.order)' /\ KeyOfIts(panel.shown)'
      BY <3>1, <3>2 DEF Fits, KeyOfIts
    <3> QED
      BY <1>1, <2>1, <3>2, <3>3, FitsStays, OrdersOf, Blanks DEF CertInv, KeyInv, service
  <2>3. CASE ~post.here
    BY <1>1, <2>1, <2>3, FitsStays, OrdersOf, Blanks DEF CertInv, KeyInv, service
  <2> QED BY <2>2, <2>3
<1>7. ~astray' => OrderInv'
  BY <1>1, <1>2, <1>3, <1>4, Blanks, CertAssumption DEF CertInv, OrderInv, service, Settled
<1>8. KnownInv'
  BY <1>1, <1>4, Blanks DEF CertInv, KnownInv, Known, service
<1> QED BY <1>5, <1>6, <1>7, <1>8 DEF CertInv

\* It does not.
LEMMA ThrowsKeeps ==
    ASSUME CertInv, safeFetchThrows PROVE CertInv'
<1> DEFINE next == [panel EXCEPT !.error = TRUE, !.loading = FALSE]
<1>1. /\ UNCHANGED <<dashVars, service, csrOf, answers>>
      /\ post' = NoPost /\ post.st # "none"
      /\ panel' = IF post.here THEN next ELSE panel
      /\ astray' = (astray \/ post.st = "accepted")
  BY DEF safeFetchThrows
<1>2. panel \in Panels
  BY DEF CertInv, TypeOK, Panels
<1>3. /\ next \in Panels /\ next.order = panel.order /\ next.shown = panel.shown
      /\ next.derived = panel.derived
      /\ next.derivationError = panel.derivationError
  BY <1>2 DEF Panels
<1> HIDE DEF next
<1>4. astray' \in BOOLEAN /\ (~astray' => ~astray /\ post.st # "accepted")
  BY <1>1, Zenon
<1>5. TypeOK'
  BY <1>1, <1>2, <1>3, <1>4, SameDash, Blanks DEF CertInv, TypeOK, Panels, Posts, service, Bot!ServiceTypeOK
<1>6. KeyInv'
  <2>1. key' = key
    BY <1>1 DEF dashVars, queue
  <2> QED BY <1>1, <1>3, <2>1, FitsStays, OrdersOf, Blanks DEF CertInv, KeyInv, service
<1>7. ~astray' => OrderInv'
  BY <1>1, <1>3, <1>4, Blanks DEF CertInv, OrderInv, service, Settled
<1>8. KnownInv'
  BY <1>1, <1>3, Blanks DEF CertInv, KnownInv, Known, service
<1> QED BY <1>5, <1>6, <1>7, <1>8 DEF CertInv

\* A poll is sent: the bot reads what became of the order and whether it has
\* the order's key.
LEMMA PollKeeps ==
    ASSUME CertInv, getCertificateOrder PROVE CertInv'
<1> DEFINE o == panel.order
           a == [order |-> o, st |-> outcome[o], key |-> IF o \in held THEN o ELSE None]
<1>1. /\ answers' = answers \cup {a} /\ o # None
      /\ \/ taken' = taken
         \/ o \in held /\ taken' = taken \cup {o}
      /\ UNCHANGED <<outcome, generates, held, dashVars, csrOf, panel, post, astray>>
  BY DEF getCertificateOrder, Polling, Bot!TakeKey, service
<1>2. Bot!ServiceTypeOK /\ Known(o)
  BY <1>1 DEF CertInv, TypeOK, KnownInv
<1>3. a \in Answers /\ a.order = o /\ a.st = outcome[o] /\ (a.key # None => a.key = o /\ o \in held)
  BY <1>2 DEF Answers, Known, Settled
<1>4. held \subseteq generates
  BY <1>2 DEF Bot!ServiceTypeOK
<1> HIDE DEF a
<1>5. Bot!ServiceTypeOK'
  BY <1>1, <1>2 DEF Bot!ServiceTypeOK
<1>6. TypeOK'
  BY <1>1, <1>3, <1>5, SameDash DEF CertInv, TypeOK
<1>7. KeyInv'
  <2>1. key' = key
    BY <1>1 DEF dashVars, queue
  <2>2. Fits(a.order) /\ KeyOfIts(a)
    BY <1>1, <1>3, <1>4 DEF CertInv, KeyInv, KeyOfIts
  <2> QED BY <1>1, <1>3, <2>1, <2>2, FitsStays, OrdersOf DEF CertInv, KeyInv
<1>8. ~astray' => OrderInv'
  BY <1>1, <1>3 DEF CertInv, OrderInv
<1>9. KnownInv'
  BY <1>1 DEF CertInv, KnownInv, Known
<1> QED BY <1>6, <1>7, <1>8, <1>9 DEF CertInv

\* An answer is shown.
LEMMA ArrivesKeeps ==
    ASSUME CertInv, NEW a \in answers, PollArrives(a) PROVE CertInv'
<1> DEFINE next == [panel EXCEPT !.shown = a]
<1>1. /\ UNCHANGED <<dashVars, service, csrOf, post>> /\ answers' = answers \ {a} /\ panel' = next
      /\ astray' = (astray \/ a.order # panel.order)
  BY DEF PollArrives
<1>2. panel \in Panels /\ a \in Answers
  BY DEF CertInv, TypeOK, Panels
<1>3. /\ next \in Panels /\ next.order = panel.order /\ next.shown = a
      /\ next.error = panel.error /\ next.derived = panel.derived
      /\ next.derivationError = panel.derivationError
  BY <1>2 DEF Panels
<1> HIDE DEF next
<1>4. astray' \in BOOLEAN /\ (~astray' => ~astray /\ a.order = panel.order)
  BY <1>1, Zenon
<1>5. TypeOK'
  BY <1>1, <1>2, <1>3, <1>4, SameDash DEF CertInv, TypeOK, Panels, service, Bot!ServiceTypeOK
<1>6. KeyInv'
  <2>1. key' = key
    BY <1>1 DEF dashVars, queue
  <2> QED BY <1>1, <1>2, <1>3, <2>1, FitsStays, OrdersOf DEF CertInv, KeyInv, service
<1>7. a.order # None
  BY <1>2, CertAssumption DEF Answers
<1>8. ~astray' => OrderInv'
  BY <1>1, <1>3, <1>4, <1>7 DEF CertInv, OrderInv, service
<1>9. KnownInv'
  BY <1>1, <1>3 DEF CertInv, KnownInv, Known, service
<1> QED BY <1>5, <1>6, <1>8, <1>9 DEF CertInv

\* An answer is lost.
LEMMA LostKeeps ==
    ASSUME CertInv, NEW a \in answers, PollThrows(a) PROVE CertInv'
<1>1. /\ UNCHANGED <<dashVars, service, csrOf, panel, post, astray>> /\ answers' = answers \ {a}
  BY DEF PollThrows
<1>2. TypeOK'
  BY <1>1, SameDash DEF CertInv, TypeOK, service, Bot!ServiceTypeOK
<1>3. KeyInv'
  <2>1. key' = key
    BY <1>1 DEF dashVars, queue
  <2> QED BY <1>1, <2>1, FitsStays, OrdersOf DEF CertInv, KeyInv, service
<1>4. ~astray' => OrderInv'
  BY <1>1 DEF CertInv, OrderInv, service
<1>5. KnownInv'
  BY <1>1 DEF CertInv, KnownInv, Known, service
<1> QED BY <1>2, <1>3, <1>4, <1>5 DEF CertInv

\* The panel is reset: it has no order, or one that was settled.
LEMMA ResetKeeps ==
    ASSUME CertInv, handleReset PROVE CertInv'
<1> DEFINE next == [NoPanel EXCEPT !.loading = panel.loading]
<1>1. /\ UNCHANGED <<dashVars, service, csrOf, post, answers, astray>> /\ panel' = next
      /\ panel.error \/ panel.shown.st \in Settled
  BY DEF handleReset, ShowsIssued, ShowsFailed, Settled
<1>2. panel.loading \in BOOLEAN /\ panel.order \in Orders \cup {None}
  BY DEF CertInv, TypeOK
<1>3. /\ next \in Panels /\ next.order = None /\ next.shown = Nothing /\ ~next.error /\ next.derived = None
  BY <1>2 DEF NoPanel, Nothing, Panels
<1>4. Nothing.st = "none"
  BY DEF Nothing
<1> HIDE DEF next
<1>5. TypeOK'
  BY <1>1, <1>3, SameDash DEF CertInv, TypeOK, Panels, service, Bot!ServiceTypeOK
<1>6. KeyInv'
  <2>1. key' = key
    BY <1>1 DEF dashVars, queue
  <2> QED BY <1>1, <1>3, <2>1, FitsStays, OrdersOf DEF CertInv, KeyInv, service
<1>7. ~astray' => OrderInv'
  <2> SUFFICES ASSUME ~astray' PROVE OrderInv'
    OBVIOUS
  <2>1. OrderInv
    BY <1>1 DEF CertInv
  <2>2. panel.order # None => outcome[panel.order] \in Settled
    BY <1>1, <2>1 DEF OrderInv
  <2>3. \A o \in Orders : outcome[o] = "open" => post.st = "accepted" /\ o = post.order
    BY <1>2, <2>1, <2>2, CertAssumption DEF OrderInv, Settled
  <2>4. Nothing.st \notin Settled
    BY <1>4 DEF Settled
  <2> QED BY <1>1, <1>3, <2>1, <2>3, <2>4 DEF OrderInv, service
<1>8. KnownInv'
  BY <1>1, <1>3 DEF CertInv, KnownInv, Known, service
<1> QED BY <1>5, <1>6, <1>7, <1>8 DEF CertInv

\* The key changes, and the panel with it.
LEMMA RemountKeeps ==
    ASSUME CertInv, DashTypeOK', Remount PROVE CertInv'
<1> DEFINE gone == [post EXCEPT !.here = FALSE]
<1>1. /\ UNCHANGED <<service, csrOf>> /\ panel' = NoPanel /\ answers' = {} /\ post' = gone
      /\ astray' = (astray \/ post # NoPost \/ panel.order # None)
  BY DEF Remount
<1>2. /\ gone \in Posts
      /\ gone.st = post.st /\ gone.order = post.order /\ ~gone.here
  BY DEF CertInv, TypeOK, Posts
<1> HIDE DEF gone
<1>4. astray' \in BOOLEAN /\ (~astray' => ~astray /\ post = NoPost /\ panel.order = None)
  BY <1>1, Zenon
<1>5. NoPanel.shown = Nothing /\ NoPanel.shown.st = "none" /\ NoPanel.order = None
  BY Blanks DEF Blank
<1>6. TypeOK'
  BY <1>1, <1>2, <1>4, Blanks DEF CertInv, TypeOK, Panels, Posts, service, Bot!ServiceTypeOK
<1>7. KeyInv'
  BY <1>1, <1>2, <1>5, Blanks DEF KeyInv
<1>8. ~astray' => OrderInv'
  <2> SUFFICES ASSUME ~astray' PROVE OrderInv'
    OBVIOUS
  <2>1. OrderInv /\ post'.st = "none" /\ post.st = "none" /\ panel.order = None
    BY <1>1, <1>2, <1>4, Blanks DEF CertInv
  <2>2. \A o \in Orders : outcome[o] # "open"
    BY <2>1, CertAssumption DEF OrderInv
  <2> QED BY <1>1, <1>5, <2>1, <2>2, Blanks DEF OrderInv, service, Settled
<1>9. KnownInv'
  <2>1. /\ panel'.order = None /\ post'.st = post.st /\ post'.order = post.order /\ outcome' = outcome
        /\ generates' = generates
    BY <1>1, <1>2, <1>5 DEF service
  <2> QED BY <2>1 DEF CertInv, KnownInv, Known
<1> QED BY <1>6, <1>7, <1>8, <1>9 DEF CertInv

----------------------------------------------------------------------------
(* Together. *)

Invariant == PipelineInv /\ CertInv

LEMMA InitInv == Init => Invariant
BY DashInitInv, CertInitInv DEF Init, DashInv, Invariant

LEMMA NextInv ==
    ASSUME Invariant, [Next]_vars PROVE Invariant'
<1>1. DashInv
  BY DEF Invariant, CertInv, TypeOK, DashInv
<1>2. ASSUME UNCHANGED dashVars PROVE PipelineInv'
  BY <1>2 DEF Invariant, PipelineInv, EndIsEarned, SuccessIsOwn, ErrorHasReason, Exhausted, publishing,
              dashVars, queue, pipeline, world, history
<1>3. ASSUME UNCHANGED <<service, csrOf, child>>, key' = key, DashTypeOK' PROVE CertInv'
  <2>1. TypeOK'
    BY <1>3 DEF Invariant, CertInv, TypeOK, service, child, Bot!ServiceTypeOK
  <2>2. KeyInv'
    BY <1>3, FitsStays, OrdersOf DEF Invariant, CertInv, KeyInv, service, child
  <2>3. KnownInv'
    BY <1>3 DEF Invariant, CertInv, KnownInv, Known, service, child
  <2>4. ~astray' => OrderInv'
    BY <1>3 DEF Invariant, CertInv, OrderInv, service, child
  <2> QED BY <2>1, <2>2, <2>3, <2>4 DEF CertInv
<1>4. CASE KeyStays /\ UNCHANGED <<service, csrOf, child>>
  <2>1. key' = key
    BY <1>4 DEF KeyStays, handleAddRecord, handleRemoveRecord, handlePublish,
       handlePublishWithPipeline, publishFailed, TimerFires, startPipelineDnsPolling, PollReturns,
       BotApplies, queue
  <2> QED BY <1>1, <1>3, <1>4, <2>1, KeyStaysKeeps DEF Invariant, DashInv
<1>5. CASE Remount
  <2>1. KeyChange
    BY <1>5 DEF Remount
  <2>2. DashInv'
    BY <1>1, <2>1, KeyChangeKeeps
  <2> QED BY <1>5, <2>2, RemountKeeps DEF Invariant, DashInv
<1>6. CASE handleRequest
  <2>1. UNCHANGED <<queue, pipeline, world, history>> /\ Click
    BY <1>6 DEF handleRequest
  <2>2. DashInv'
    BY <1>1, <2>1, DashStays
  <2> QED BY <1>6, <2>2, RequestKeeps DEF Invariant, DashInv
<1>7. CASE requestCertificate
  BY <1>2, <1>7, AnswerKeeps DEF Invariant, requestCertificate
<1>8. CASE safeFetchThrows
  BY <1>2, <1>8, ThrowsKeeps DEF Invariant, safeFetchThrows
<1>9. CASE getCertificateOrder
  BY <1>2, <1>9, PollKeeps DEF Invariant, getCertificateOrder
<1>10. ASSUME NEW a \in answers, PollArrives(a) PROVE Invariant'
  BY <1>2, <1>10, ArrivesKeeps DEF Invariant, PollArrives
<1>11. ASSUME NEW a \in answers, PollThrows(a) PROVE Invariant'
  BY <1>2, <1>11, LostKeeps DEF Invariant, PollThrows
<1>12. CASE handleReset
  BY <1>2, <1>12, ResetKeeps DEF Invariant, handleReset
<1>13. ASSUME NEW o \in Orders, BotAccepts(o) PROVE Invariant'
  BY <1>2, <1>13, AcceptKeeps DEF Invariant, BotAccepts
<1>14. ASSUME NEW o \in Orders, BotWorks(o) PROVE Invariant'
  BY <1>2, <1>14, BotWorksKeeps DEF Invariant, BotWorks
<1>15. CASE BotRestarts
  BY <1>2, <1>15, RestartKeeps DEF Invariant, BotRestarts
<1>16. CASE UNCHANGED vars
  <2>1. UNCHANGED dashVars /\ UNCHANGED <<service, csrOf, child>> /\ key' = key
    BY <1>16 DEF vars, dashVars, queue
  <2>2. DashTypeOK'
    BY <1>1, <2>1, SameDash DEF DashInv
  <2> QED BY <1>2, <1>3, <2>1, <2>2 DEF Invariant
<1> QED
  BY <1>4, <1>5, <1>6, <1>7, <1>8, <1>9, <1>10, <1>11, <1>12, <1>13, <1>14, <1>15,
     <1>16
  DEF Next

LEMMA InvariantHolds == Spec => []Invariant
BY InitInv, NextInv, PTL DEF Spec

\* Every variable keeps its type.
THEOREM TypeCorrect == Spec => []TypeOK
<1>1. Invariant => TypeOK
  BY DEF Invariant, CertInv
<1> QED BY <1>1, InvariantHolds, PTL

\* What the pipeline ends with is earned: success by a poll that found the name
\* of the key there is, an error by a failed publication or by polls that are
\* used up, whichever of the pipelines so far sent the poll.
THEOREM EndEarned == Spec => []EndIsEarned
<1>1. Invariant => EndIsEarned
  BY DEF Invariant, PipelineInv
<1> QED BY <1>1, InvariantHolds, PTL

\* The private key offered with a certificate is the one it was issued for, of
\* all the user's keys and all the keys the bot generated, unless a key was
\* derived and the CSR then failed.
THEOREM KeyFitting == Spec => []KeyFits
<1>1. Invariant => KeyFits
  <2> SUFFICES ASSUME Invariant, ShowsIssued, ~DerivedInVain
               PROVE  effectivePrivateKeyPem \in {None, keyOf(panel.shown.order)}
    BY DEF KeyFits
  <2>1. KeyInv
    BY DEF Invariant, CertInv
  <2>2. Fits(panel.shown.order) /\ KeyOfIts(panel.shown)
    BY <2>1 DEF KeyInv, ShowsIssued, Nothing
  <2>3. CASE panel.derived # None
    BY <2>1, <2>2, <2>3 DEF KeyInv, DerivedInVain, Fits, effectivePrivateKeyPem, keyOf
  <2>4. CASE panel.derived = None
    BY <2>2, <2>4 DEF KeyOfIts, effectivePrivateKeyPem, keyOf
  <2> QED BY <2>3, <2>4
<1> QED BY <1>1, InvariantHolds, PTL

\* While no answer is lost or reaches another order's panel, one order is open
\* at most.
THEOREM OneOrderOpen == Spec => []OneOpenOrder
<1>1. Invariant => OneOpenOrder
  <2> SUFFICES ASSUME Invariant, ~astray
               PROVE  Cardinality({o \in Orders : outcome[o] = "open"}) <= 1
    BY DEF OneOpenOrder
  <2> DEFINE Open == {o \in Orders : outcome[o] = "open"}
             one == IF post.st = "accepted" THEN post.order ELSE panel.order
  <2>1. OrderInv
    BY DEF Invariant, CertInv
  <2>2. Open \subseteq {one}
    BY <2>1, Blanks, CertAssumption DEF OrderInv
  <2>3. IsFiniteSet({one}) /\ Cardinality({one}) = 1
    BY FS_Singleton
  <2>4. Cardinality(Open) <= Cardinality({one})
    BY <2>2, <2>3, FS_Subset
  <2> QED BY <2>3, <2>4
<1> QED BY <1>1, InvariantHolds, PTL
=============================================================================
