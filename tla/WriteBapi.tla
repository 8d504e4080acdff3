------------------------------ MODULE WriteBapi ------------------------------
(***************************************************************************)
(* execute_write_bapi (transaction.rs) as the tool sap.rfc.call runs it    *)
(* with commit=true: call the BAPI, judge its BAPIRET2 messages, finish    *)
(* with COMMIT or ROLLBACK, and record the attempt on the audit log.       *)
(* Attempts run concurrently, and every call_rfc may time out before or    *)
(* after SAP has executed it, or be executed after the caller gave up.     *)
(*                                                                         *)
(* SAP itself is external: a write BAPI leaves its change in the open LUW  *)
(* of the session it ran in, COMMIT persists that LUW, and ROLLBACK or the *)
(* end of the session discards it.  The SapClient trait says nothing about *)
(* sessions, so Sessions is a parameter: every call its own ("per_call",   *)
(* what SoapRfcClient does, whose HTTP client keeps no cookies), every     *)
(* attempt its own ("per_attempt", what execute_write_bapi needs), or one  *)
(* for all ("shared").                                                     *)
(***************************************************************************)
EXTENDS FiniteSets

CONSTANTS
    Writers,         \* attempts: invocations of sap.rfc.call with commit=true
    Sessions         \* which calls run in the same SAP session

ASSUME SessionAssumption == Sessions \in {"per_call", "per_attempt", "shared"}

VARIABLES
    readOnly,    \* the server's safety flag (--enable-writes not given)
    wpc,          \* wpc[w]: the call_rfc that attempt w awaits
    outcome,     \* outcome[w]: what execute_write_bapi returned
    audit,       \* audit[w]: the audit entry of the attempt
    net,         \* requests sent to SAP and not yet executed
    rep,         \* replies of SAP not yet received
    luw,         \* attempts whose change is in an open LUW
    persisted    \* attempts whose change has been committed to the database

wvars == <<readOnly, wpc, outcome, audit, net, rep, luw, persisted>>

\* The three RFCs an attempt can send.
Ops == {"bapi", "commit", "rollback"}

\* What parse_bapiret2 and has_failure make of a reply: at least one message
\* and none a failure, a failure (E, A or an unknown severity), no message.
Verdicts == {"success", "failure", "empty"}

Requests == [by : Writers, op : Ops]
Replies == [by : Writers, op : Ops, verdict : Verdicts]

Outcomes == {"none", "denied", "invalid", "error",
             "committed", "rolled_back", "unconfirmed"}

WriteTypeOK ==
    /\ readOnly \in BOOLEAN
    /\ wpc \in [Writers -> Ops \cup {"idle", "done"}]
    /\ outcome \in [Writers -> Outcomes]
    /\ audit \in [Writers -> {"none", "ok", "failed", "denied"}]
    /\ net \subseteq Requests
    /\ rep \subseteq Replies
    /\ luw \subseteq Writers
    /\ persisted \subseteq Writers

WriteInit ==
    /\ readOnly \in BOOLEAN
    /\ wpc = [w \in Writers |-> "idle"]
    /\ outcome = [w \in Writers |-> "none"]
    /\ audit = [w \in Writers |-> "none"]
    /\ net = {}
    /\ rep = {}
    /\ luw = {}
    /\ persisted = {}

-----------------------------------------------------------------------------
(***************************************************************************)
(* The attempt.                                                            *)
(***************************************************************************)

\* call_rfc up to its await.
Send(w, op) ==
    /\ net' = net \cup {[by |-> w, op |-> op]}
    /\ wpc' = [wpc EXCEPT ![w] = op]
    /\ UNCHANGED <<outcome, audit>>

\* Return o; tool_rfc_call records the audit entry that goes with it.
Finish(w, o) ==
    /\ wpc' = [wpc EXCEPT ![w] = "done"]
    /\ outcome' = [outcome EXCEPT ![w] = o]
    /\ audit' = [audit EXCEPT ![w] = CASE o = "committed" -> "ok"
                                       [] o = "denied"    -> "denied"
                                       [] OTHER           -> "failed"]
    /\ UNCHANGED net

\* Mutant: the safety flag is left to the callee.
StartUnguarded(w, isControl) ==
    /\ wpc[w] = "idle"
    /\ IF isControl THEN Finish(w, "invalid") ELSE Send(w, "bapi")
    /\ UNCHANGED <<readOnly, rep, luw, persisted>>

\* Refused in read-only mode and for COMMIT and ROLLBACK themselves.
Start(w, isControl) ==
    /\ wpc[w] = "idle"
    /\ IF readOnly THEN Finish(w, "denied")
       ELSE IF isControl THEN Finish(w, "invalid")
       ELSE Send(w, "bapi")
    /\ UNCHANGED <<readOnly, rep, luw, persisted>>

\* The BAPI has answered: commit only on positive confirmation.
BapiReply(w) ==
    /\ wpc[w] = "bapi"
    /\ \E r \in rep :
        /\ r.by = w /\ r.op = "bapi"
        /\ Send(w, IF r.verdict = "success" THEN "commit" ELSE "rollback")
        /\ rep' = rep \ {r}
    /\ UNCHANGED <<readOnly, luw, persisted>>

\* Mutant: a COMMIT that came back at all counts as committed.
CommitReplyUnread(w) ==
    /\ wpc[w] = "commit"
    /\ \E r \in rep :
        /\ r.by = w /\ r.op = "commit"
        /\ Finish(w, "committed")
        /\ rep' = rep \ {r}
    /\ UNCHANGED <<readOnly, luw, persisted>>

\* COMMIT has answered: only a failure message counts against it.
CommitReply(w) ==
    /\ wpc[w] = "commit"
    /\ \E r \in rep :
        /\ r.by = w /\ r.op = "commit"
        /\ IF r.verdict = "failure" THEN Send(w, "rollback") ELSE Finish(w, "committed")
        /\ rep' = rep \ {r}
    /\ UNCHANGED <<readOnly, luw, persisted>>

\* ROLLBACK has answered: rolled_back is only claimed when it is confirmed.
RollbackReply(w) ==
    /\ wpc[w] = "rollback"
    /\ \E r \in rep :
        /\ r.by = w /\ r.op = "rollback"
        /\ Finish(w, IF r.verdict = "failure" THEN "unconfirmed" ELSE "rolled_back")
        /\ rep' = rep \ {r}
    /\ UNCHANGED <<readOnly, luw, persisted>>

\* Mutant: a rollback whose call failed is reported as done.
CallFailsOnFaith(w) ==
    /\ wpc[w] \in Ops
    /\ Finish(w, IF wpc[w] = "rollback" THEN "rolled_back" ELSE "error")
    /\ UNCHANGED <<readOnly, rep, luw, persisted>>

\* call_rfc returns Err (a timeout, a broken connection, a SOAP fault).  The
\* BAPI's and the COMMIT's error is passed on with `?`; the ROLLBACK's is not.
CallFails(w) ==
    /\ wpc[w] \in Ops
    /\ Finish(w, IF wpc[w] = "rollback" THEN "unconfirmed" ELSE "error")
    /\ UNCHANGED <<readOnly, rep, luw, persisted>>

-----------------------------------------------------------------------------
(***************************************************************************)
(* SAP, external.                                                          *)
(***************************************************************************)

\* The attempts whose open change a COMMIT or ROLLBACK of w acts upon.
Reached(w) == CASE Sessions = "per_call"    -> {}
                [] Sessions = "per_attempt" -> {w}
                [] Sessions = "shared"      -> Writers

\* The LUW after op has reported v.  Even a BAPI that reports a failure may
\* have left a change; a COMMIT or ROLLBACK that reports one had no effect.
LuwAfter(w, op, v) ==
    CASE op = "bapi"                  -> IF Sessions = "per_call" THEN luw ELSE luw \cup {w}
      [] op # "bapi" /\ v = "failure" -> luw
      [] op # "bapi" /\ v # "failure" -> luw \ Reached(w)

SapExecutes(w, op, v) ==
    /\ [by |-> w, op |-> op] \in net
    /\ net' = net \ {[by |-> w, op |-> op]}
    /\ rep' = rep \cup {[by |-> w, op |-> op, verdict |-> v]}
    /\ luw' = LuwAfter(w, op, v)
    /\ persisted' = IF op = "commit" /\ v # "failure"
                    THEN persisted \cup (luw \cap Reached(w)) ELSE persisted
    /\ UNCHANGED <<readOnly, wpc, outcome, audit>>

Attempt(w) ==
    \/ \E c \in BOOLEAN : Start(w, c)
    \/ BapiReply(w) \/ CommitReply(w) \/ RollbackReply(w) \/ CallFails(w)

WriteNext ==
    \E w \in Writers :
        \/ Attempt(w)
        \/ \E op \in Ops, v \in Verdicts : SapExecutes(w, op, v)

WriteSpec == WriteInit /\ [][WriteNext]_wvars

-----------------------------------------------------------------------------
(***************************************************************************)
(* Properties.                                                             *)
(***************************************************************************)

\* Where every attempt has one session to itself, "committed" (WriteOutcome and the
\* audit log alike) means that the change is in the database, and an attempt
\* that reports anything else than an error of a call has not changed it.
ReportIsTrue ==
    Sessions = "per_attempt" =>
        \A w \in Writers :
            /\ outcome[w] = "committed" => w \in persisted
            /\ audit[w] = "ok" => w \in persisted
            /\ outcome[w] \in {"denied", "invalid", "rolled_back", "unconfirmed"} =>
                   w \notin persisted

\* rolled_back is never reported on faith: SAP has executed the ROLLBACK, so
\* nothing of the attempt is left in its LUW or on its way to SAP.
RolledBackLeavesNothing ==
    \A w \in Writers :
        outcome[w] = "rolled_back" =>
            /\ w \notin luw
            /\ \A r \in net : r.by # w

\* Fail-closed: a server in read-only mode never sends SAP a write, so no LUW
\* is ever opened, whatever is retried or arrives late.
ReadOnlySendsNothing ==
    readOnly => net = {} /\ luw = {} /\ persisted = {}

\* "Whether the LUW was committed (true) - i.e. the change is persisted"
\* (WriteOutcome): refuted for the sessions of SoapRfcClient.
CommittedIsPersisted == \A w \in Writers : outcome[w] = "committed" => w \in persisted
=============================================================================
