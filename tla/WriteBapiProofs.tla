--------------------------- MODULE WriteBapiProofs ---------------------------
(***************************************************************************)
(* Machine-checked facts about WriteBapi: for every set of attempts, in    *)
(* whatever sessions their calls run, what an attempt reports is true.     *)
(* The invariants are not inductive: what an attempt may conclude from a   *)
(* reply depends on what is still on its way to SAP.                       *)
(***************************************************************************)
EXTENDS WriteBapi, TLAPS

\* Every attempt has at most one exchange with SAP going on, that of the call
\* it awaits; a request and its reply do not exist side by side.
OneExchange ==
    /\ \A w \in Writers : wpc[w] = "idle" =>
          /\ outcome[w] = "none" /\ audit[w] = "none"
          /\ \A r \in net : r.by # w
          /\ \A r \in rep : r.by # w
          /\ w \notin luw /\ w \notin persisted
    /\ \A w \in Writers : wpc[w] \in Ops =>
          /\ outcome[w] = "none" /\ audit[w] = "none"
          /\ \A r \in net : r.by = w => r.op = wpc[w]
          /\ \A r \in rep : r.by = w => r.op = wpc[w]
    /\ \A r \in net, s \in rep : r.by # s.by
    /\ \A r, s \in net : r.by = s.by => r = s
    /\ \A r, s \in rep : r.by = s.by => r = s

\* Nothing leaves a read-only server.
Sealed ==
    readOnly => /\ net = {} /\ rep = {} /\ luw = {} /\ persisted = {}
                /\ \A w \in Writers : wpc[w] \in {"idle", "done"}

\* What a confirmed ROLLBACK means while its reply is on the way, and after.
Emptied ==
    /\ \A r \in rep : r.op = "rollback" /\ r.verdict # "failure" => r.by \notin luw
    /\ \A w \in Writers : outcome[w] \in {"rolled_back", "unconfirmed", "denied", "invalid"} =>
          \A r \in net : r.by = w => r.op = "rollback"
    /\ \A w \in Writers : outcome[w] = "rolled_back" =>
          /\ w \notin luw
          /\ \A r \in net : r.by # w

\* Where each attempt has its own LUW, the change is there from the reply of
\* the BAPI until COMMIT or ROLLBACK, and in the database after COMMIT alone.
OwnLuw ==
    Sessions = "per_attempt" =>
        /\ \A r \in rep : r.op = "bapi" => r.by \in luw
        /\ \A r \in net : r.op = "commit" => r.by \in luw /\ r.by \notin persisted
        /\ \A w \in Writers : wpc[w] \in {"bapi", "rollback"} => w \notin persisted
        /\ \A r \in rep : r.op = "commit" => (r.by \in persisted <=> r.verdict # "failure")
        /\ \A w \in Writers : outcome[w] = "committed" => w \in persisted
        /\ \A w \in Writers : outcome[w] \in {"denied", "invalid", "rolled_back", "unconfirmed"} =>
              w \notin persisted

\* Where no session outlives a call there is no open LUW to find.
NoSessionNoLuw == Sessions = "per_call" => luw = {}

AuditAgrees == \A w \in Writers : audit[w] = "ok" => outcome[w] = "committed"

IInv == WriteTypeOK /\ OneExchange /\ Sealed /\ Emptied /\ OwnLuw /\ NoSessionNoLuw /\ AuditAgrees
-----------------------------------------------------------------------------
(***************************************************************************)
(* The invariant holds initially and is preserved, one lemma per step.     *)
(***************************************************************************)

LEMMA InitInv == WriteInit => IInv
  BY DEF WriteInit, IInv, WriteTypeOK, OneExchange, Sealed, Emptied, OwnLuw, NoSessionNoLuw,
     AuditAgrees, Ops, Outcomes

\* An attempt starts: refused, or its BAPI is sent.
LEMMA StartInv ==
    ASSUME IInv, NEW w \in Writers, NEW c \in BOOLEAN, Start(w, c)
    PROVE  IInv'
  <1> USE DEF IInv, Start, Send, Finish
  <1>1. WriteTypeOK'
    BY DEF WriteTypeOK, Ops, Outcomes, Requests, Replies, Verdicts
  <1>2. OneExchange'
    BY DEF OneExchange, WriteTypeOK, Ops, Requests, Replies
  <1>3. Sealed'
    BY DEF Sealed, OneExchange, WriteTypeOK, Ops
  <1>4. Emptied'
    BY DEF Emptied, OneExchange, WriteTypeOK, Ops, Requests, Replies
  <1>5. OwnLuw'
    BY DEF OwnLuw, OneExchange, Emptied, WriteTypeOK, Ops, Requests, Replies
  <1>6. NoSessionNoLuw'
    BY DEF NoSessionNoLuw
  <1>7. AuditAgrees'
    BY DEF AuditAgrees, OneExchange, WriteTypeOK, Ops
  <1> QED
    BY <1>1, <1>2, <1>3, <1>4, <1>5, <1>6, <1>7

\* The reply of the BAPI decides between COMMIT and ROLLBACK.
LEMMA BapiReplyInv ==
    ASSUME IInv, NEW w \in Writers, BapiReply(w)
    PROVE  IInv'
  <1> USE DEF IInv, BapiReply, Send
  <1>1. WriteTypeOK'
    BY DEF WriteTypeOK, Ops, Outcomes, Requests, Replies, Verdicts
  <1>2. OneExchange'
    BY DEF OneExchange, WriteTypeOK, Ops, Requests, Replies
  <1>3. Sealed'
    BY DEF Sealed, OneExchange, WriteTypeOK, Ops
  <1>4. Emptied'
    BY DEF Emptied, OneExchange, WriteTypeOK, Ops, Requests, Replies
  <1>5. OwnLuw'
    BY DEF OwnLuw, OneExchange, Emptied, WriteTypeOK, Ops, Requests, Replies
  <1>6. NoSessionNoLuw'
    BY DEF NoSessionNoLuw
  <1>7. AuditAgrees'
    BY DEF AuditAgrees, OneExchange, WriteTypeOK, Ops
  <1> QED
    BY <1>1, <1>2, <1>3, <1>4, <1>5, <1>6, <1>7

\* The reply of COMMIT ends the attempt or turns it to ROLLBACK.
LEMMA CommitReplyInv ==
    ASSUME IInv, NEW w \in Writers, CommitReply(w)
    PROVE  IInv'
  <1> USE DEF IInv, CommitReply, Send, Finish
  <1>1. WriteTypeOK'
    BY DEF WriteTypeOK, Ops, Outcomes, Requests, Replies, Verdicts
  <1>2. OneExchange'
    BY DEF OneExchange, WriteTypeOK, Ops, Requests, Replies
  <1>3. Sealed'
    BY DEF Sealed, OneExchange, WriteTypeOK, Ops
  <1>4. Emptied'
    BY DEF Emptied, OneExchange, WriteTypeOK, Ops, Requests, Replies
  <1>5. OwnLuw'
    BY DEF OwnLuw, OneExchange, Emptied, WriteTypeOK, Ops, Requests, Replies
  <1>6. NoSessionNoLuw'
    BY DEF NoSessionNoLuw
  <1>7. AuditAgrees'
    BY DEF AuditAgrees, OneExchange, WriteTypeOK, Ops
  <1> QED
    BY <1>1, <1>2, <1>3, <1>4, <1>5, <1>6, <1>7

\* The reply of ROLLBACK ends the attempt.
LEMMA RollbackReplyInv ==
    ASSUME IInv, NEW w \in Writers, RollbackReply(w)
    PROVE  IInv'
  <1> USE DEF IInv, RollbackReply, Finish
  <1>1. WriteTypeOK'
    BY DEF WriteTypeOK, Ops, Outcomes, Requests, Replies, Verdicts
  <1>2. OneExchange'
    BY DEF OneExchange, WriteTypeOK, Ops, Requests, Replies
  <1>3. Sealed'
    BY DEF Sealed, OneExchange, WriteTypeOK, Ops
  <1>4. Emptied'
    BY DEF Emptied, OneExchange, WriteTypeOK, Ops, Requests, Replies
  <1>5. OwnLuw'
    BY DEF OwnLuw, OneExchange, Emptied, WriteTypeOK, Ops, Requests, Replies
  <1>6. NoSessionNoLuw'
    BY DEF NoSessionNoLuw
  <1>7. AuditAgrees'
    BY DEF AuditAgrees, OneExchange, WriteTypeOK, Ops
  <1> QED
    BY <1>1, <1>2, <1>3, <1>4, <1>5, <1>6, <1>7

\* A call that returns an error ends the attempt.
LEMMA CallFailsInv ==
    ASSUME IInv, NEW w \in Writers, CallFails(w)
    PROVE  IInv'
  <1> USE DEF IInv, CallFails, Finish
  <1>1. WriteTypeOK'
    BY DEF WriteTypeOK, Ops, Outcomes, Requests, Replies, Verdicts
  <1>2. OneExchange'
    BY DEF OneExchange, WriteTypeOK, Ops, Requests, Replies
  <1>3. Sealed'
    BY DEF Sealed, OneExchange, WriteTypeOK, Ops
  <1>4. Emptied'
    BY DEF Emptied, OneExchange, WriteTypeOK, Ops, Requests, Replies
  <1>5. OwnLuw'
    BY DEF OwnLuw, OneExchange, Emptied, WriteTypeOK, Ops, Requests, Replies
  <1>6. NoSessionNoLuw'
    BY DEF NoSessionNoLuw
  <1>7. AuditAgrees'
    BY DEF AuditAgrees, OneExchange, WriteTypeOK, Ops
  <1> QED
    BY <1>1, <1>2, <1>3, <1>4, <1>5, <1>6, <1>7

\* SAP executes a request, in time or late.
LEMMA SapInv ==
    ASSUME IInv, NEW w \in Writers, NEW op \in Ops, NEW v \in Verdicts, SapExecutes(w, op, v)
    PROVE  IInv'
  <1> USE SessionAssumption DEF IInv, SapExecutes, LuwAfter
  <1>1. WriteTypeOK'
    BY DEF WriteTypeOK, Ops, Outcomes, Requests, Replies, Verdicts, Reached
  <1>2. OneExchange'
    BY DEF OneExchange, WriteTypeOK, Ops, Requests, Replies
  <1>3. Sealed'
    BY DEF Sealed, OneExchange, WriteTypeOK, Ops
  <1>4. Emptied'
    BY DEF Emptied, OneExchange, NoSessionNoLuw, WriteTypeOK, Ops, Requests, Replies, Reached
  <1>5. OwnLuw'
    <2> SUFFICES ASSUME Sessions = "per_attempt" PROVE OwnLuw'
      BY DEF OwnLuw
    <2> DEFINE req == [by |-> w, op |-> op]
    <2>1. req \in net /\ req.by = w /\ req.op = op /\ Reached(w) = {w}
      BY DEF Reached
    <2>2. \A r \in net : r # req => r.by # w
      BY <2>1 DEF OneExchange
    <2>3. \A r \in rep : r.by # w
      BY <2>1 DEF OneExchange
    <2>4. CASE op = "bapi"
      BY <2>1, <2>2, <2>3, <2>4 DEF OwnLuw, WriteTypeOK, Requests, Replies
    <2>5. CASE op = "commit"
      <3>1. w \in luw /\ wpc[w] \notin {"idle", "bapi", "rollback"}
        BY <2>1, <2>5 DEF OwnLuw, OneExchange, Ops
      <3>2. outcome[w] \notin {"denied", "invalid", "rolled_back", "unconfirmed"}
        BY <2>1, <2>5 DEF Emptied
      <3>3. w \notin persisted
        BY <2>1, <2>5 DEF OwnLuw
      <3> QED
        BY <2>1, <2>2, <2>3, <2>5, <3>1, <3>2, <3>3 DEF OwnLuw, WriteTypeOK, Requests, Replies
    <2>6. CASE op = "rollback"
      BY <2>1, <2>2, <2>3, <2>6 DEF OwnLuw, WriteTypeOK, Requests, Replies
    <2> QED
      BY <2>4, <2>5, <2>6 DEF Ops
  <1>6. NoSessionNoLuw'
    BY DEF NoSessionNoLuw, LuwAfter, Reached, Ops
  <1>7. AuditAgrees'
    BY DEF AuditAgrees, OneExchange, WriteTypeOK, Ops
  <1> QED
    BY <1>1, <1>2, <1>3, <1>4, <1>5, <1>6, <1>7

LEMMA NextInv == IInv /\ [WriteNext]_wvars => IInv'
  <1> SUFFICES ASSUME IInv, [WriteNext]_wvars PROVE IInv'
    OBVIOUS
  <1>1. CASE UNCHANGED wvars
    BY <1>1 DEF wvars, IInv, WriteTypeOK, OneExchange, Sealed, Emptied, OwnLuw, NoSessionNoLuw,
     AuditAgrees
  <1>2. ASSUME NEW w \in Writers, Attempt(w) PROVE IInv'
    BY <1>2, StartInv, BapiReplyInv, CommitReplyInv, RollbackReplyInv, CallFailsInv DEF Attempt
  <1>3. ASSUME NEW w \in Writers, NEW op \in Ops, NEW v \in Verdicts, SapExecutes(w, op, v)
        PROVE  IInv'
    BY <1>3, SapInv
  <1> QED
    BY <1>1, <1>2, <1>3 DEF WriteNext

LEMMA InvariantHolds == WriteSpec => []IInv
  BY InitInv, NextInv, PTL DEF WriteSpec

-----------------------------------------------------------------------------
(***************************************************************************)
(* The theorems.                                                           *)
(***************************************************************************)

\* execute_write_bapi and the calls it has in flight keep to their types.
THEOREM WriteTypeCorrect == WriteSpec => []WriteTypeOK
  <1>1. IInv => WriteTypeOK
    BY DEF IInv
  <1> QED
    BY <1>1, InvariantHolds, PTL

\* For any number of concurrent attempts, each with a session of its own:
\* "committed", returned or audited, means persisted; and no attempt that was
\* refused, rolled back or left unconfirmed ever changes the database, however
\* late SAP executes what was sent to it.
THEOREM ReportsAreTrue == WriteSpec => []ReportIsTrue
  <1>1. IInv => ReportIsTrue
    BY DEF IInv, ReportIsTrue, OwnLuw, AuditAgrees
  <1> QED
    BY <1>1, InvariantHolds, PTL

\* rolled_back is never claimed while the change is in an open LUW or any
\* request of the attempt is still on its way, in whatever sessions.
THEOREM RollbackIsConfirmed == WriteSpec => []RolledBackLeavesNothing
  <1>1. IInv => RolledBackLeavesNothing
    BY DEF IInv, RolledBackLeavesNothing, Emptied
  <1> QED
    BY <1>1, InvariantHolds, PTL

\* The read-only flag is fail-closed: no write RFC is ever sent under it.
THEOREM ReadOnlyIsSealed == WriteSpec => []ReadOnlySendsNothing
  <1>1. IInv => ReadOnlySendsNothing
    BY DEF IInv, ReadOnlySendsNothing, Sealed
  <1> QED
    BY <1>1, InvariantHolds, PTL
=============================================================================
