------------------------ MODULE CircuitBreakerProofs ------------------------
(***************************************************************************)
(* Proofs about CircuitBreaker, for any number of callers and any policy:  *)
(* type correctness, that an open circuit admits nobody, and that the      *)
(* breaker implements BreakerGate.                                         *)
(***************************************************************************)
EXTENDS CircuitBreaker, TLAPS

\* What the retry loop does with a result keeps the callers' locals in their
\* types and takes nobody but c from inside, and never puts c there.
LEMMA RetryStep ==
    ASSUME BreakerTypeOK, NEW c \in Callers,
           NEW result \in {"ok", "transient", "permanent", "circuit_open"},
           Retry(c, result)
    PROVE  /\ bpc' \in [Callers -> {"idle", "calling", "inside", "sleeping", "returned"}]
           /\ delay' \in [Callers -> Nat]
           /\ nap' \in [Callers -> Nat]
           /\ answer' \in [Callers -> {"none", "ok", "transient", "permanent", "circuit_open"}]
           /\ Inside' = Inside \ {c}
  <1>1. MinOf(delay[c] * Multiplier, MaxDelay) \in Nat
    BY BreakerAssumption DEF BreakerTypeOK, MinOf
  <1> QED
    BY <1>1 DEF BreakerTypeOK, Retry, Inside

-----------------------------------------------------------------------------

LEMMA TypeInit == BreakerInit => BreakerTypeOK
  BY BreakerAssumption DEF BreakerInit, BreakerTypeOK

LEMMA TypeStep == BreakerTypeOK /\ [BreakerNext]_bvars => BreakerTypeOK'
  <1> SUFFICES ASSUME BreakerTypeOK, [BreakerNext]_bvars
               PROVE  BreakerTypeOK'
    OBVIOUS
  <1>1. CASE Observe
    BY <1>1 DEF Observe, Ticked, callerVars, BreakerTypeOK
  <1>2. CASE Elapse
    <2>1. openLeft' \in 0..OpenDuration
      BY <1>2, BreakerAssumption DEF Elapse, BreakerTypeOK
    <2>2. nap' \in [Callers -> Nat]
      BY <1>2 DEF Elapse, BreakerTypeOK
    <2> QED
      BY <1>2, <2>1, <2>2 DEF Elapse, BreakerTypeOK
  <1>3. ASSUME NEW c \in Callers, Attempt(c)
        PROVE  BreakerTypeOK'
    BY <1>3 DEF Attempt, breakerVars, BreakerTypeOK
  <1>4. ASSUME NEW c \in Callers, Admit(c)
        PROVE  BreakerTypeOK'
    <2>1. CASE Retry(c, "circuit_open")
      BY <1>4, <2>1, RetryStep DEF Admit, Ticked, BreakerTypeOK
    <2>2. CASE ~Retry(c, "circuit_open")
      BY <1>4, <2>2 DEF Admit, Ticked, BreakerTypeOK
    <2> QED
      BY <2>1, <2>2
  <1>5. ASSUME NEW c \in Callers, NEW result \in {"ok", "transient", "permanent"},
               Finish(c, result)
        PROVE  BreakerTypeOK'
    <2>1. Retry(c, result) /\ UNCHANGED attempt
      BY <1>5 DEF Finish
    <2>2. /\ circuit' \in {"Closed", "Open", "HalfOpen"}
          /\ failures' \in Nat
          /\ openLeft' \in 0..OpenDuration
          /\ stale' \subseteq Callers
      BY <1>5, BreakerAssumption
      DEF Finish, FinishOk, FinishTransient, FinishPermanent, breakerVars, Inside, BreakerTypeOK
    <2> QED
      BY <2>1, <2>2, RetryStep DEF BreakerTypeOK
  <1>6. CASE AllReturned \/ UNCHANGED bvars
    BY <1>6 DEF AllReturned, bvars, breakerVars, callerVars, BreakerTypeOK
  <1> QED
    BY <1>1, <1>2, <1>3, <1>4, <1>5, <1>6 DEF BreakerNext, CallerStep

\* Circuit, counters, timers and callers stay in their types, whatever SAP
\* answers (retry.rs:15-153).
THEOREM BreakerTypeCorrect == BreakerSpec => []BreakerTypeOK
  BY TypeInit, TypeStep, PTL DEF BreakerSpec

-----------------------------------------------------------------------------

LEMMA OpenStep ==
    BreakerTypeOK /\ OpenAdmitsNobody /\ [BreakerNext]_bvars => OpenAdmitsNobody'
  <1> SUFFICES ASSUME BreakerTypeOK, OpenAdmitsNobody, [BreakerNext]_bvars
               PROVE  OpenAdmitsNobody'
    OBVIOUS
  <1>1. CASE Observe
    BY <1>1 DEF Observe, Ticked, OpenAdmitsNobody
  <1>2. CASE Elapse
    BY <1>2 DEF Elapse, Inside, OpenAdmitsNobody
  <1>3. ASSUME NEW c \in Callers, Attempt(c)
        PROVE  OpenAdmitsNobody'
    BY <1>3 DEF Attempt, breakerVars, Inside, OpenAdmitsNobody, BreakerTypeOK
  <1>4. ASSUME NEW c \in Callers, Admit(c)
        PROVE  OpenAdmitsNobody'
    <2>1. CASE Ticked = "Open"
      BY <1>4, <2>1, RetryStep DEF Admit, Ticked, OpenAdmitsNobody
    <2>2. CASE Ticked # "Open"
      BY <1>4, <2>2 DEF Admit, OpenAdmitsNobody
    <2> QED
      BY <2>1, <2>2
  <1>5. ASSUME NEW c \in Callers, NEW result \in {"ok", "transient", "permanent"},
               Finish(c, result)
        PROVE  OpenAdmitsNobody'
    <2>1. Inside' = Inside \ {c}
      BY <1>5, RetryStep DEF Finish
    <2> QED
      BY <1>5, <2>1
      DEF Finish, FinishOk, FinishTransient, FinishPermanent, breakerVars, OpenAdmitsNobody
  <1>6. CASE AllReturned \/ UNCHANGED bvars
    BY <1>6 DEF AllReturned, bvars, breakerVars, callerVars, Inside, OpenAdmitsNobody
  <1> QED
    BY <1>1, <1>2, <1>3, <1>4, <1>5, <1>6 DEF BreakerNext, CallerStep

\* While the circuit is open SAP gets no new call, for any number of callers,
\* any threshold and any open duration (retry.rs:118-153).
THEOREM OpenIsShut == BreakerSpec => []OpenAdmitsNobody
  <1>1. BreakerInit => OpenAdmitsNobody
    BY DEF BreakerInit, OpenAdmitsNobody
  <1> QED
    BY <1>1, TypeInit, TypeStep, OpenStep, PTL DEF BreakerSpec

-----------------------------------------------------------------------------

LEMMA GateInitially == BreakerInit => Gate!GateInit
  BY DEF BreakerInit, Inside, Gate!GateInit

LEMMA GateStep ==
    BreakerTypeOK /\ [BreakerNext]_bvars => [Gate!GateNext]_(Gate!gateVars)
  <1> SUFFICES ASSUME BreakerTypeOK, [BreakerNext]_bvars
               PROVE  Gate!GateNext \/ UNCHANGED Gate!gateVars
    OBVIOUS
  <1>1. CASE Observe
    <2>1. Gate!Reopen
      BY <1>1 DEF Observe, Ticked, callerVars, Inside, Gate!Reopen
    <2> QED
      BY <2>1 DEF Gate!GateNext
  <1>2. CASE Elapse
    <2>1. Inside' = Inside /\ failures' = failures /\ circuit' = circuit
      BY <1>2 DEF Elapse, Inside
    <2>2. CASE openLeft' = 0
      <3>1. Gate!Cool
        BY <2>1, <2>2 DEF Gate!Cool
      <3> QED
        BY <3>1 DEF Gate!GateNext
    <2>3. CASE openLeft' # 0
      <3>1. openLeft # 0
        BY <1>2, <2>3 DEF Elapse
      <3> QED
        BY <2>1, <2>3, <3>1 DEF Gate!gateVars
    <2> QED
      BY <2>2, <2>3
  <1>3. ASSUME NEW c \in Callers, Attempt(c)
        PROVE  UNCHANGED Gate!gateVars
    <2>1. Inside' = Inside
      BY <1>3 DEF Attempt, Inside, BreakerTypeOK
    <2> QED
      BY <1>3, <2>1 DEF Attempt, breakerVars, Gate!gateVars
  <1>4. ASSUME NEW c \in Callers, Admit(c)
        PROVE  Gate!GateNext \/ UNCHANGED Gate!gateVars
    <2>1. CASE Ticked = "Open"
      <3>1. Inside' = Inside \ {c} /\ c \notin Inside
        BY <1>4, <2>1, RetryStep DEF Admit, Inside
      <3>2. circuit' = circuit /\ failures' = failures /\ openLeft' = openLeft
        BY <1>4, <2>1 DEF Admit, Ticked
      <3> QED
        BY <3>1, <3>2 DEF Gate!gateVars
    <2>2. CASE Ticked # "Open"
      <3>1. c \notin Inside /\ Inside' = Inside \cup {c}
        BY <1>4, <2>2 DEF Admit, Inside, BreakerTypeOK
      <3>2. circuit = "Open" => openLeft = 0
        BY <2>2 DEF Ticked
      <3>3. circuit' # "Open" /\ failures' = failures /\ openLeft' = openLeft
        BY <1>4, <2>2 DEF Admit
      <3>4. Gate!Enter(c)
        BY <3>1, <3>2, <3>3 DEF Gate!Enter
      <3> QED
        BY <3>4 DEF Gate!GateNext
    <2> QED
      BY <2>1, <2>2
  <1>5. ASSUME NEW c \in Callers, NEW result \in {"ok", "transient", "permanent"},
               Finish(c, result)
        PROVE  Gate!GateNext
    <2>1. c \in Inside /\ Inside' = Inside \ {c}
      BY <1>5, RetryStep DEF Finish, Inside
    <2>2. CASE FinishOk(c)
      <3>1. Gate!LeaveOk(c)
        BY <2>1, <2>2 DEF FinishOk, Gate!LeaveOk
      <3> QED
        BY <3>1 DEF Gate!GateNext
    <2>3. CASE FinishTransient(c)
      <3>1. Gate!LeaveFailed(c)
        BY <2>1, <2>3, BreakerAssumption DEF FinishTransient, Gate!LeaveFailed, BreakerTypeOK
      <3> QED
        BY <3>1 DEF Gate!GateNext
    <2>4. CASE FinishPermanent(c)
      <3>1. Gate!LeaveRejected(c)
        BY <2>1, <2>4 DEF FinishPermanent, breakerVars, Gate!LeaveRejected
      <3> QED
        BY <3>1 DEF Gate!GateNext
    <2> QED
      BY <1>5, <2>2, <2>3, <2>4 DEF Finish
  <1>6. CASE AllReturned \/ UNCHANGED bvars
    BY <1>6 DEF AllReturned, bvars, breakerVars, callerVars, Inside, Gate!gateVars
  <1> QED
    BY <1>1, <1>2, <1>3, <1>4, <1>5, <1>6 DEF BreakerNext, CallerStep

\* The breaker with its callers implements the abstract gate: it shuts only
\* after Threshold failures in a row, admits nobody until it has cooled down,
\* and passes again with the next success (retry.rs:105-153).
THEOREM BreakerIsAGate == BreakerSpec => ImplementsGate
  BY TypeInit, TypeStep, GateInitially, GateStep, PTL DEF BreakerSpec, ImplementsGate, Gate!GateSpec
=============================================================================
