----------------------------- MODULE BreakerGate -----------------------------
(***************************************************************************)
(* What a circuit breaker promises its users (retry.rs): a gate in front   *)
(* of SAP that shuts only after Threshold transient failures without a     *)
(* success in between, lets nobody through while it is shut and has not    *)
(* cooled down, and passes again at the latest with the next success.      *)
(* CircuitBreaker implements it.                                           *)
(***************************************************************************)
EXTENDS Naturals

CONSTANTS
    Callers,      \* who calls SAP through the gate
    Threshold     \* CircuitBreaker::failure_threshold

VARIABLES
    shut,         \* the gate refuses calls
    cooled,       \* the open duration has elapsed since it shut
    streak,       \* transient failures since the last success
    inside        \* callers whose call is on its way to SAP

gateVars == <<shut, cooled, streak, inside>>

GateInit ==
    /\ shut = FALSE
    /\ cooled = TRUE
    /\ streak = 0
    /\ inside = {}

Cool ==
    /\ cooled' = TRUE
    /\ UNCHANGED <<shut, streak, inside>>

\* Half-open: a gate that has cooled down passes again.
Reopen ==
    /\ shut /\ cooled
    /\ shut' = FALSE
    /\ UNCHANGED <<cooled, streak, inside>>

Enter(c) ==
    /\ c \notin inside
    /\ shut => cooled
    /\ shut' = FALSE
    /\ inside' = inside \cup {c}
    /\ UNCHANGED <<cooled, streak>>

LeaveOk(c) ==
    /\ c \in inside
    /\ inside' = inside \ {c}
    /\ shut' = FALSE
    /\ cooled' = TRUE
    /\ streak' = 0

LeaveFailed(c) ==
    /\ c \in inside
    /\ inside' = inside \ {c}
    /\ streak' = streak + 1
    /\ \/ streak' >= Threshold /\ shut' = TRUE /\ cooled' \in BOOLEAN
       \/ streak' < Threshold /\ UNCHANGED <<shut, cooled>>

LeaveRejected(c) ==
    /\ c \in inside
    /\ inside' = inside \ {c}
    /\ UNCHANGED <<shut, cooled, streak>>

GateNext ==
    \/ Cool \/ Reopen
    \/ \E c \in Callers : Enter(c) \/ LeaveOk(c) \/ LeaveFailed(c) \/ LeaveRejected(c)

GateSpec == GateInit /\ [][GateNext]_gateVars
=============================================================================
