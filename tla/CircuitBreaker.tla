--------------------------- MODULE CircuitBreaker ---------------------------
(***************************************************************************)
(* retry_with_backoff around CircuitBreaker::call around a call to SAP     *)
(* (retry.rs), by several callers that share one breaker.  The breaker's   *)
(* mutex is released while the call is awaited, so what a caller saw when  *)
(* it was let through may be long out of date when its answer is counted.  *)
(*                                                                         *)
(* Time is kept as what is left: of the open duration, and of a caller's   *)
(* sleep between two attempts.                                             *)
(***************************************************************************)
EXTENDS Naturals, FiniteSets

CONSTANTS
    Callers,        \* requests made during the run, one each
    Threshold,      \* CircuitBreaker::failure_threshold
    OpenDuration,   \* CircuitBreaker::open_duration
    MaxAttempts,    \* BackoffPolicy::max_attempts
    InitialDelay,   \* BackoffPolicy::initial
    Multiplier,     \* BackoffPolicy::multiplier
    MaxDelay        \* BackoffPolicy::max_delay

ASSUME BreakerAssumption ==
    /\ Threshold \in Nat /\ OpenDuration \in Nat /\ MaxAttempts \in Nat
    /\ InitialDelay \in Nat /\ Multiplier \in Nat /\ MaxDelay \in Nat

VARIABLES
    circuit,      \* CircuitInner::state
    failures,     \* CircuitInner::failures
    openLeft,     \* open_duration minus the time since opened_at, at least 0
    bpc,          \* bpc[c]: where the caller is
    attempt,      \* attempt[c]: calls of f so far
    delay,        \* delay[c]: the next sleep
    nap,          \* nap[c]: what is left of the current sleep
    answer,       \* answer[c]: what the request returned
    stale         \* history: callers inside since before the circuit opened

breakerVars == <<circuit, failures, openLeft>>
callerVars == <<bpc, attempt, delay, nap, answer>>
bvars == <<breakerVars, callerVars, stale>>

MinOf(a, b) == IF a < b THEN a ELSE b
Inside == {c \in Callers : bpc[c] = "inside"}

BreakerTypeOK ==
    /\ circuit \in {"Closed", "Open", "HalfOpen"}
    /\ failures \in Nat
    /\ openLeft \in 0..OpenDuration
    /\ bpc \in [Callers -> {"idle", "calling", "inside", "sleeping", "returned"}]
    /\ attempt \in [Callers -> Nat]
    /\ delay \in [Callers -> Nat]
    /\ nap \in [Callers -> Nat]
    /\ answer \in [Callers -> {"none", "ok", "transient", "permanent", "circuit_open"}]
    /\ stale \subseteq Callers

BreakerInit ==
    /\ circuit = "Closed"
    /\ failures = 0
    /\ openLeft = 0
    /\ bpc = [c \in Callers |-> "idle"]
    /\ attempt = [c \in Callers |-> 0]
    /\ delay = [c \in Callers |-> InitialDelay]
    /\ nap = [c \in Callers |-> 0]
    /\ answer = [c \in Callers |-> "none"]
    /\ stale = {}

-----------------------------------------------------------------------------

\* RfcErrorCode::is_transient: an open circuit counts as a passing trouble.
IsTransient(result) == result \in {"transient", "circuit_open"}

\* tick: an open circuit whose time is over is half-open from now on.
Ticked == IF circuit = "Open" /\ openLeft = 0 THEN "HalfOpen" ELSE circuit

\* CircuitBreaker::state, for whoever watches it.
Observe ==
    /\ circuit # Ticked
    /\ circuit' = Ticked
    /\ UNCHANGED <<failures, openLeft, callerVars, stale>>

\* What retry_with_backoff does with the result of one attempt.
Retry(c, result) ==
    \/ /\ ~IsTransient(result) \/ attempt[c] >= MaxAttempts
       /\ bpc' = [bpc EXCEPT ![c] = "returned"]
       /\ answer' = [answer EXCEPT ![c] = result]
       /\ UNCHANGED <<delay, nap>>
    \/ /\ IsTransient(result) /\ attempt[c] < MaxAttempts
       /\ bpc' = [bpc EXCEPT ![c] = "sleeping"]
       /\ nap' = [nap EXCEPT ![c] = delay[c]]
       /\ delay' = [delay EXCEPT ![c] = MinOf(@ * Multiplier, MaxDelay)]
       /\ UNCHANGED answer

\* The next attempt: at once the first time, after the sleep later.
Attempt(c) ==
    /\ \/ bpc[c] = "idle"
       \/ bpc[c] = "sleeping" /\ nap[c] = 0
    /\ bpc' = [bpc EXCEPT ![c] = "calling"]
    /\ attempt' = [attempt EXCEPT ![c] = @ + 1]
    /\ UNCHANGED <<breakerVars, delay, nap, answer, stale>>

\* Mutant: the snapshot is taken but not looked at.
AdmitAlways(c) ==
    /\ bpc[c] = "calling"
    /\ circuit' = Ticked
    /\ bpc' = [bpc EXCEPT ![c] = "inside"]
    /\ UNCHANGED <<failures, openLeft, attempt, delay, nap, answer, stale>>

\* Mutant: an open circuit is waited for, but nobody who waits ticks it.
AdmitWaits(c) ==
    /\ bpc[c] = "calling" /\ circuit # "Open"
    /\ bpc' = [bpc EXCEPT ![c] = "inside"]
    /\ UNCHANGED <<breakerVars, attempt, delay, nap, answer, stale>>

\* CircuitBreaker::call before its await.
Admit(c) ==
    /\ bpc[c] = "calling"
    /\ circuit' = Ticked
    /\ \/ /\ Ticked = "Open"
          /\ Retry(c, "circuit_open")
       \/ /\ Ticked # "Open"
          /\ bpc' = [bpc EXCEPT ![c] = "inside"]
          /\ UNCHANGED <<delay, nap, answer>>
    /\ UNCHANGED <<failures, openLeft, attempt, stale>>

FinishOk(c) ==
    /\ failures' = 0
    /\ circuit' = "Closed"
    /\ openLeft' = 0
    /\ stale' = {}

\* Mutant: the count starts again each time the circuit opens.
FinishTransientReset(c) ==
    IF failures + 1 >= Threshold
    THEN /\ circuit' = "Open"
         /\ failures' = 0
         /\ openLeft' = OpenDuration
         /\ stale' = Inside \ {c}
    ELSE /\ failures' = failures + 1
         /\ UNCHANGED <<circuit, openLeft>>
         /\ stale' = stale \ {c}

FinishTransient(c) ==
    /\ failures' = failures + 1
    /\ IF failures' >= Threshold
       THEN /\ circuit' = "Open"
            /\ openLeft' = OpenDuration
            /\ stale' = Inside \ {c}
       ELSE /\ UNCHANGED <<circuit, openLeft>>
            /\ stale' = stale \ {c}

FinishPermanent(c) ==
    /\ UNCHANGED breakerVars
    /\ stale' = stale \ {c}

\* CircuitBreaker::call after its await; then the retry loop.
Finish(c, result) ==
    /\ bpc[c] = "inside"
    /\ \/ result = "ok" /\ FinishOk(c)
       \/ result = "transient" /\ FinishTransient(c)
       \/ result = "permanent" /\ FinishPermanent(c)
    /\ Retry(c, result)
    /\ UNCHANGED attempt

\* Time passes, no further than to the end of the shortest sleep.
Elapse ==
    /\ \A c \in Callers : bpc[c] = "sleeping" => nap[c] > 0
    /\ openLeft > 0 \/ \E c \in Callers : bpc[c] = "sleeping"
    /\ openLeft' = IF openLeft > 0 THEN openLeft - 1 ELSE 0
    /\ nap' = [c \in Callers |-> IF bpc[c] = "sleeping" THEN nap[c] - 1 ELSE nap[c]]
    /\ UNCHANGED <<circuit, failures, bpc, attempt, delay, answer, stale>>

CallerStep(c) ==
    \/ Attempt(c) \/ Admit(c)
    \/ \E result \in {"ok", "transient", "permanent"} : Finish(c, result)

AllReturned ==
    /\ openLeft = 0 /\ \A c \in Callers : bpc[c] = "returned"
    /\ UNCHANGED bvars

BreakerNext == Observe \/ Elapse \/ AllReturned \/ \E c \in Callers : CallerStep(c)

\* Every call of SAP has a timeout, every task is scheduled, time passes.
BreakerFairness == WF_bvars(Elapse) /\ \A c \in Callers : WF_bvars(CallerStep(c))

BreakerSpec == BreakerInit /\ [][BreakerNext]_bvars /\ BreakerFairness

-----------------------------------------------------------------------------

\* While the circuit is open SAP gets no new call: whoever is inside was let
\* through before it opened (retry.rs:124-131), however calls and late
\* answers interleave.
OpenAdmitsNobody == circuit = "Open" => Inside \subseteq stale

\* A request returns, whatever SAP answers and however often the circuit
\* opens: its attempts are bounded, and an open circuit costs one of them
\* (retry.rs:44-61).
RequestReturns == \A c \in Callers : bpc[c] # "idle" ~> bpc[c] = "returned"

Gate == INSTANCE BreakerGate WITH
    shut <- circuit = "Open", cooled <- openLeft = 0,
    streak <- failures, inside <- Inside

\* The breaker keeps the promise of the abstract gate (retry.rs:105-153).
ImplementsGate == Gate!GateSpec
=============================================================================
