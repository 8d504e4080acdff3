----------------------------- MODULE ToolCalls -----------------------------
(***************************************************************************)
(* What a session promises those who call a tool through it and the user   *)
(* who is asked: a call is carried out at most once, as it was asked for;  *)
(* a write is decided in one step with its audit entry, and confirmed only *)
(* when the user has accepted all its forms, in order and beforehand; the  *)
(* caller is told once, either the decision or that the session is closed. *)
(* There is no transport here.  McpSession implements it.                  *)
(***************************************************************************)
EXTENDS Workflow

CONSTANTS
    Calls,        \* the calls of a session
    Offered       \* the methods they may ask for

VARIABLES
    wanted,       \* wanted[n]: the method call n asks for, or "none"
    consent,      \* consent[n]: the forms of call n the user has accepted
    done,         \* done[n]: what came of call n, or "none"
    entry,        \* entry[n]: its entry in the audit log, or "none"
    told          \* told[n]: what the caller was told, or "none"

callsVars == <<wanted, consent, done, entry, told>>

CallsInit ==
    /\ wanted = [n \in Calls |-> "none"]
    /\ consent = [n \in Calls |-> {}]
    /\ done = [n \in Calls |-> "none"]
    /\ entry = [n \in Calls |-> "none"]
    /\ told = [n \in Calls |-> "none"]

Ask(n) ==
    /\ wanted[n] = "none"
    /\ \E m \in Offered : wanted' = [wanted EXCEPT ![n] = m]
    /\ UNCHANGED <<consent, done, entry, told>>

\* The user accepts the next form of a call that is not decided yet.
Accept(n) ==
    /\ wanted[n] # "none" /\ done[n] = "none"
    /\ \E i \in 1..Rounds(wanted[n]) :
         /\ consent[n] = 1..(i - 1)
         /\ consent' = [consent EXCEPT ![n] = 1..i]
    /\ UNCHANGED <<wanted, done, entry, told>>

Answer(n) ==
    /\ wanted[n] # "none" /\ done[n] = "none"
    /\ Rounds(wanted[n]) = 0
    /\ done' = [done EXCEPT ![n] = PlainResult(wanted[n])]
    /\ UNCHANGED <<wanted, consent, entry, told>>

Confirm(n) ==
    /\ wanted[n] # "none" /\ done[n] = "none"
    /\ Rounds(wanted[n]) > 0 /\ consent[n] = 1..Rounds(wanted[n])
    /\ done' = [done EXCEPT ![n] = "confirmed"]
    /\ entry' = [entry EXCEPT ![n] = "ok"]
    /\ UNCHANGED <<wanted, consent, told>>

Refuse(n) ==
    /\ wanted[n] # "none" /\ done[n] = "none"
    /\ Rounds(wanted[n]) > 0
    /\ \E r \in {"declined", "cancelled", "mismatch"}, a \in {"declined", "denied"} :
         /\ done' = [done EXCEPT ![n] = r]
         /\ entry' = [entry EXCEPT ![n] = a]
    /\ UNCHANGED <<wanted, consent, told>>

Tell(n) ==
    /\ wanted[n] # "none" /\ told[n] = "none"
    /\ \/ done[n] # "none" /\ told' = [told EXCEPT ![n] = done[n]]
       \/ told' = [told EXCEPT ![n] = "closed"]
    /\ UNCHANGED <<wanted, consent, done, entry>>

CallsNext ==
    \E n \in Calls : Ask(n) \/ Accept(n) \/ Answer(n) \/ Confirm(n) \/ Refuse(n) \/ Tell(n)

CallsSpec == CallsInit /\ [][CallsNext]_callsVars
=============================================================================
