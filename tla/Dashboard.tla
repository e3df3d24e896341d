----------------------------- MODULE Dashboard -----------------------------
(***************************************************************************)
(* The frontend's dashboard (components/dashboard.tsx): a key, the records *)
(* queued for it, their publication, and the pipeline that then waits for  *)
(* DNS to answer.                                                          *)
(*                                                                         *)
(* Each publication starts a pipeline: two timers show it being published  *)
(* and processed, then an interval polls DNS.  stopPipelineTimers stops    *)
(* the timers, not the polls in flight: these belong to the pipeline that  *)
(* sent them, count with its attempts, and end whatever runs by then.      *)
(*                                                                         *)
(* Relays, the bot and DNS are external: of a zone's records the model has *)
(* whether a key's name has a TXT record, which is all the polls ask for.  *)
(* The payment token, a text the user pastes, and the list of published    *)
(* records are left out.                                                   *)
(***************************************************************************)
EXTENDS Naturals, FiniteSets

CONSTANTS
    Keys,         \* key pairs
    Recs,         \* records the user may queue
    Txt,          \* those of type TXT
    None,
    MaxAttempts,  \* maxAttempts
    MaxPolls,     \* bound: polls of one pipeline in flight
    MaxRuns,      \* bound: pipelines
    MaxClicks     \* bound: changes of the key, publications and, later, requests

ASSUME DashboardAssumption ==
    /\ None \notin Keys /\ Txt \subseteq Recs
    /\ MaxAttempts \in Nat \ {0} /\ MaxPolls \in Nat \ {0}
    /\ MaxRuns \in Nat \ {0} /\ MaxClicks \in Nat

VARIABLES
    key,      \* keyPair
    pending,  \* pendingRecords
    job,      \* what handlePublish is publishing
    status,   \* pipelineStatus
    timer,    \* which timer of the pipeline fires next
    run,      \* the pipelines so far; the last is the current one
    polls,    \* of each pipeline: its name, its attempts, the polls in flight
    dns,      \* keys whose name has a TXT record
    asked,    \* keys with a TXT record the bot has not put into DNS yet
    clicks,   \* how many of these there were
    answered, \* history: keys whose name a poll found
    unsent,   \* history: the last publication failed
    moved     \* history: the key has changed since something was published

queue == <<key, pending, job>>
pipeline == <<status, timer, run, polls>>
world == <<dns, asked>>
history == <<answered, unsent, moved>>
dashVars == <<queue, pipeline, world, clicks, history>>

NoJob == [key |-> None, recs |-> {}]
NoPolls == [key |-> None, attempts |-> 0, flying |-> 0]
publishing == job # NoJob
Idle == {"idle", "success", "error"}

DashTypeOK ==
    /\ key \in Keys \cup {None} /\ pending \subseteq Recs
    /\ job \in [key: Keys, recs: SUBSET Recs] \cup {NoJob}
    /\ status \in Idle \cup {"publishing", "processing", "resolving"}
    /\ timer \in {"none", "t2", "t3", "interval"} /\ run \in 0..MaxRuns
    /\ polls \in [1..MaxRuns -> [key: Keys \cup {None}, attempts: 0..MaxAttempts, flying: 0..MaxPolls]]
    /\ dns \subseteq Keys /\ asked \subseteq Keys
    /\ clicks \in 0..MaxClicks /\ answered \subseteq Keys
    /\ unsent \in BOOLEAN /\ moved \in BOOLEAN

DashInit ==
    /\ key = None /\ pending = {} /\ job = NoJob
    /\ status = "idle" /\ timer = "none" /\ run = 0 /\ polls = [r \in 1..MaxRuns |-> NoPolls]
    /\ dns = {} /\ asked = {}
    /\ clicks = 0 /\ answered = {} /\ unsent = FALSE /\ moved = FALSE

Click == clicks < MaxClicks /\ clicks' = clicks + 1

stopPipelineTimers == timer' = "none"

----------------------------------------------------------------------------
(* Keys and the queue.  Neither a new key nor a loaded one stops the       *)
(* pipeline or empties the queue; only Clear Keys does.                    *)

setKeyPair(k) ==
    /\ key' = k
    /\ moved' = (moved \/ publishing \/ run > 0)
    /\ UNCHANGED <<pending, job, pipeline, world, answered, unsent>>

handleGenerateNew(k) == Click /\ key = None /\ setKeyPair(k)

handleLoadNsec(k) == Click /\ key \notin {None, k} /\ setKeyPair(k)

handleClearKeys ==
    /\ Click /\ key # None
    /\ key' = None /\ pending' = {}
    /\ status' = "idle" /\ stopPipelineTimers
    /\ moved' = (moved \/ publishing \/ run > 0)
    /\ UNCHANGED <<job, run, polls, world, answered, unsent>>

\* The form of the publish card is there once there is a key.
FormShown == key # None

handleAddRecord(r) ==
    /\ FormShown
    /\ pending' = pending \cup {r}
    /\ UNCHANGED <<key, job, pipeline, world, clicks, history>>

handleRemoveRecord(r) ==
    /\ FormShown /\ r \in pending
    /\ pending' = pending \ {r}
    /\ UNCHANGED <<key, job, pipeline, world, clicks, history>>

----------------------------------------------------------------------------
(* Publication. *)

handlePublish ==
    /\ Click /\ FormShown /\ ~publishing /\ pending # {} /\ run < MaxRuns
    /\ job' = [key |-> key, recs |-> pending]
    /\ UNCHANGED <<key, pending, pipeline, world, history>>

startPipeline(k) ==
    /\ run' = run + 1
    /\ polls' = [polls EXCEPT ![run + 1] = [NoPolls EXCEPT !.key = k]]
    /\ status' = "publishing" /\ timer' = "t2"

\* A relay accepts the event, and the queue is emptied: of what was queued in
\* the meantime, too.
handlePublishWithPipeline ==
    /\ publishing
    /\ startPipeline(job.key)
    /\ asked' = IF job.recs \cap Txt # {} THEN asked \cup {job.key} ELSE asked
    /\ pending' = {} /\ job' = NoJob /\ unsent' = FALSE
    /\ UNCHANGED <<key, dns, clicks, answered, moved>>

\* The event is not mined or no relay accepts it.  The timers of the pipeline
\* before go on.
publishFailed ==
    /\ publishing
    /\ job' = NoJob /\ status' = "error" /\ unsent' = TRUE
    /\ UNCHANGED <<key, pending, timer, run, polls, world, clicks, answered, moved>>

----------------------------------------------------------------------------
(* The pipeline. *)

TimerFires ==
    /\ \/ timer = "t2" /\ status' = "processing" /\ timer' = "t3"
       \/ timer = "t3" /\ status' = "resolving" /\ timer' = "interval"
    /\ UNCHANGED <<queue, run, polls, world, clicks, history>>

mutant_Count(n) == n
Count(n) == IF n < MaxAttempts THEN n + 1 ELSE n

startPipelineDnsPolling ==
    /\ timer = "interval" /\ polls[run].flying < MaxPolls
    /\ polls' = [polls EXCEPT ![run].attempts = Count(@), ![run].flying = @ + 1]
    /\ UNCHANGED <<queue, status, timer, run, world, clicks, history>>

Exhausted(r) == polls[r].attempts = MaxAttempts

mutant_any_answer(r) ==
    \E found \in {FALSE, polls[r].key \in dns} :
        /\ polls[r].flying > 0
        /\ polls' = [polls EXCEPT ![r].flying = @ - 1]
        /\ status' = IF Exhausted(r) THEN "error" ELSE "success"
        /\ stopPipelineTimers
        /\ answered' = IF found THEN answered \cup {polls[r].key} ELSE answered
        /\ UNCHANGED <<queue, run, world, clicks, unsent, moved>>

mutant_first_failure(r) ==
    \E found \in {FALSE, polls[r].key \in dns} :
        /\ polls[r].flying > 0
        /\ polls' = [polls EXCEPT ![r].flying = @ - 1]
        /\ status' = IF found THEN "success" ELSE "error"
        /\ stopPipelineTimers
        /\ answered' = IF found THEN answered \cup {polls[r].key} ELSE answered
        /\ UNCHANGED <<queue, run, world, clicks, unsent, moved>>

\* DNS has answered: that the name has records, that it has none, or not at
\* all.  The attempts are looked at in each case.
PollReturns(r) ==
    \E found \in {FALSE, polls[r].key \in dns} :
        /\ polls[r].flying > 0
        /\ polls' = [polls EXCEPT ![r].flying = @ - 1]
        /\ status' = IF Exhausted(r) THEN "error" ELSE IF found THEN "success" ELSE status
        /\ IF found \/ Exhausted(r) THEN stopPipelineTimers ELSE UNCHANGED timer
        /\ answered' = IF found THEN answered \cup {polls[r].key} ELSE answered
        /\ UNCHANGED <<queue, run, world, clicks, unsent, moved>>

----------------------------------------------------------------------------
\* The bot applies what it was sent, and DNS has it.
BotApplies(k) ==
    /\ k \in asked /\ asked' = asked \ {k} /\ dns' = dns \cup {k}
    /\ UNCHANGED <<queue, pipeline, clicks, history>>

KeyChange == (\E k \in Keys : handleGenerateNew(k) \/ handleLoadNsec(k)) \/ handleClearKeys

KeyStays ==
    \/ \E r \in Recs : handleAddRecord(r) \/ handleRemoveRecord(r)
    \/ handlePublish \/ handlePublishWithPipeline \/ publishFailed
    \/ TimerFires \/ startPipelineDnsPolling \/ \E r \in 1..MaxRuns : PollReturns(r)
    \/ \E k \in Keys : BotApplies(k)

DashNext == KeyChange \/ KeyStays

\* Timers fire, and requests are answered or time out.
DashFairness ==
    /\ WF_dashVars(handlePublishWithPipeline \/ publishFailed)
    /\ WF_dashVars(TimerFires) /\ WF_dashVars(startPipelineDnsPolling)
    /\ \A r \in 1..MaxRuns : WF_dashVars(PollReturns(r))

----------------------------------------------------------------------------
(* Properties. *)

\* The three stages of publish-pipeline.tsx.
stage(n) ==
    LET active == IF n = 1 THEN "publishing" ELSE IF n = 2 THEN "processing" ELSE "resolving"
        after == IF n = 1 THEN {"processing", "resolving", "success", "error"}
                 ELSE IF n = 2 THEN {"resolving", "success"} ELSE {"success"}
    IN  IF status = active THEN "active" ELSE IF status \in after THEN "done" ELSE "pending"

\* A pipeline comes to an end: no stage stays active, although a poll of an
\* earlier pipeline may stop the timers, and a failed publication, a cleared
\* or another key may come between.
PipelineEnds == (\E n \in 1..3 : stage(n) = "active") ~> (\A n \in 1..3 : stage(n) # "active")

\* Success, which lets the user ask for a certificate, means that DNS knows
\* the name of the key there is, unless the key has changed since: the polls of
\* earlier pipelines may report it, but not of a name that was not found.
SuccessIsOwn == status = "success" /\ key # None /\ ~moved => key \in answered

\* The pipeline fails for a reason: the publication failed, or some pipeline
\* has had all its attempts.
ErrorHasReason == status = "error" => unsent \/ \E r \in 1..run : Exhausted(r)

\* How a pipeline ends is earned, whichever pipeline's poll or timer says so.
EndIsEarned == SuccessIsOwn /\ ErrorHasReason
=============================================================================
