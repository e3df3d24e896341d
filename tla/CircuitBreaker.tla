--------------------------- MODULE CircuitBreaker ---------------------------
(***************************************************************************)
(* The circuit breaker in front of a Cashu mint                            *)
(* (nodns-connectors/src/circuit_breaker.rs) and the calls that            *)
(* verify_payment makes through it (nodns-bot-rs/src/payment.rs), from the *)
(* payment processor and from the resolver's subscribe handler at once.    *)
(*                                                                         *)
(* The breaker keeps one entry per mint and no operation touches two, so   *)
(* one entry is modelled.  A missing entry is the default one.  Each       *)
(* method runs under the breaker's mutex: one step.  The call to the mint  *)
(* lies between is_available and record_*: any number of steps.            *)
(*                                                                         *)
(* opened_at is kept as the time that has passed since (age), which is all *)
(* the code asks of it.                                                    *)
(***************************************************************************)
EXTENDS Integers, FiniteSets

CONSTANTS
    Callers,      \* requests that may be in progress at once
    Threshold,    \* CB_THRESHOLD
    Cooldown,     \* CB_COOLDOWN, in ticks
    MaxFailures   \* where the counter saturates (u32::MAX in the code)

ASSUME BreakerAssumption ==
    /\ Threshold \in Nat \ {0}
    /\ Cooldown \in Nat \ {0}
    /\ MaxFailures \in Nat /\ MaxFailures >= Threshold

VARIABLES
    state,     \* CircuitEntry.state
    failures,  \* CircuitEntry.failures
    age,       \* time since CircuitEntry.opened_at, Unset for None
    calling,   \* callers that wait for the mint
    probing    \* history: those of them admitted in the half-open state

entry == <<state, failures, age>>
breakerVars == <<entry, calling, probing>>

Unset == -1

BreakerInit ==
    /\ state = "closed" /\ failures = 0 /\ age = Unset
    /\ calling = {} /\ probing = {}

\* Time passes; beyond the cooldown it makes no difference how much.
BreakerTick ==
    /\ age # Unset /\ age < Cooldown
    /\ age' = age + 1
    /\ UNCHANGED <<state, failures, calling, probing>>

\* is_available returns true, and opens the circuit halfway if it was open.
is_available(c) ==
    /\ c \notin calling
    /\ \/ state \in {"closed", "halfopen"} /\ UNCHANGED state
       \/ state = "open" /\ (age = Unset \/ age >= Cooldown) /\ state' = "halfopen"
    /\ calling' = calling \cup {c}
    /\ probing' = IF state' = "halfopen" THEN probing \cup {c} ELSE probing
    /\ UNCHANGED <<failures, age>>

\* The caller is done with the mint, whatever the answer is about.
Done(c) ==
    /\ c \in calling
    /\ calling' = calling \ {c}
    /\ probing' = probing \ {c}

\* Mutant: the failures that opened the circuit are kept.
mutant_success_keeps_count(c) ==
    /\ Done(c)
    /\ state' = "closed" /\ age' = Unset
    /\ UNCHANGED failures

\* The mint answered.
record_success(c) ==
    /\ Done(c)
    /\ state' = "closed" /\ failures' = 0 /\ age' = Unset

saturating_add(n) == IF n < MaxFailures THEN n + 1 ELSE n

\* Mutant: every failed call restarts the cooldown.
mutant_failure_restarts_cooldown(c) ==
    /\ Done(c)
    /\ failures' = saturating_add(failures)
    /\ IF state \in {"halfopen", "open"} \/ failures' >= Threshold
       THEN state' = "open" /\ age' = 0
       ELSE UNCHANGED <<state, age>>

\* Mutant: the failed probe forgets to note when the circuit opened.
mutant_reopen_undated(c) ==
    /\ Done(c)
    /\ failures' = saturating_add(failures)
    /\ \/ state = "halfopen" /\ state' = "open" /\ age' = Unset
       \/ state = "closed" /\ failures' >= Threshold /\ state' = "open" /\ age' = 0
       \/ state = "closed" /\ failures' < Threshold /\ UNCHANGED <<state, age>>
       \/ state = "open" /\ UNCHANGED <<state, age>>

\* The mint failed or the call timed out.
record_failure(c) ==
    /\ Done(c)
    /\ failures' = saturating_add(failures)
    /\ \/ state = "halfopen" /\ state' = "open" /\ age' = 0
       \/ state = "closed" /\ failures' >= Threshold /\ state' = "open" /\ age' = 0
       \/ state = "closed" /\ failures' < Threshold /\ UNCHANGED <<state, age>>
       \/ state = "open" /\ UNCHANGED <<state, age>>

\* No HTTP client could be built: verify_payment returns with nothing recorded.
no_client(c) == Done(c) /\ UNCHANGED entry

BreakerNext ==
    \/ BreakerTick
    \/ \E c \in Callers :
          is_available(c) \/ record_success(c) \/ record_failure(c) \/ no_client(c)

BreakerSpec == BreakerInit /\ [][BreakerNext]_breakerVars
-----------------------------------------------------------------------------
\* Types of the entry and of the calls in progress.
BreakerTypeOK ==
    /\ state \in {"closed", "open", "halfopen"}
    /\ failures \in 0 .. MaxFailures
    /\ age \in Unset .. Cooldown
    /\ calling \subseteq Callers /\ probing \subseteq calling

\* A closed circuit is below the threshold: the answers of calls that were
\* admitted in earlier states of the circuit, in whatever order they come,
\* never leave it closed with a count that should have opened it.
ClosedBelowThreshold == state = "closed" => failures < Threshold

\* "Defensive: should always be set when Open" (is_available): the branch for an
\* open circuit that has no opened_at is never taken.
OpenIsDated == state # "closed" => age # Unset

\* "the cooldown isn't silently extended by every failed retry attempt"
\* (record_failure): while the circuit is open its cooldown only runs down.
CooldownOnlyRunsDown == [][state = "open" /\ state' = "open" => age' >= age]_breakerVars
-----------------------------------------------------------------------------
(* What the comments say of the breaker, and concurrent callers do not keep. *)

\* CircuitState::HalfOpen: "a single probe request is allowed through".
SingleProbe == Cardinality(probing) <= 1
=============================================================================
