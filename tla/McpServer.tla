------------------------------ MODULE McpServer ------------------------------
(***************************************************************************)
(* The MCP server's stdio loop, Server::run_stdio, with the tool tasks it  *)
(* spawns and the ElicitationHandle through which a tool suspends itself   *)
(* on an answer of the user.  A task is identified by the id of the        *)
(* request it serves: a client never uses an id twice.                     *)
(***************************************************************************)
EXTENDS McpPipes

VARIABLES
    sMain,      \* the loop of run_stdio: "serving", "joining", "stopped"
    inbound,    \* the mpsc channel from the reader task to the loop
    outbound,   \* the mpsc channel to the writer task
    task,       \* task[n]: where the task of request n is suspended
    tmethod,    \* tmethod[n]: the method of the request the task serves
    asked,      \* asked[n]: the elicitation ids task n has used, in order
    result,     \* result[n]: what dispatch returned ("none" before)
    audit,      \* audit[n]: the audit entry of workflow n ("none" before)
    sNextId,    \* ElicitationInner::next_id
    sPending,   \* ids with a oneshot sender in ElicitationInner::pending
    sReply      \* sReply[e]: the response in the oneshot of e, or "none"

serverVars == <<sMain, inbound, outbound, task, tmethod, asked, result, audit,
                sNextId, sPending, sReply>>

TaskStates == {"none", "running", "registered", "awaiting", "responding", "done"}

ServerTypeOK ==
    /\ sMain \in {"serving", "joining", "stopped"}
    /\ inbound \in Seq(ToServer)
    /\ outbound \in Seq(ToClient)
    /\ task \in [CallIds -> TaskStates]
    /\ tmethod \in [CallIds -> Methods \cup {"none"}]
    /\ asked \in [CallIds -> Seq(ElicitIds)]
    /\ result \in [CallIds -> Results \cup {"none"}]
    /\ audit \in [CallIds -> AuditOutcomes \cup {"none"}]
    /\ sNextId \in ElicitBase..(ElicitBase + MaxElicits)
    /\ sPending \subseteq ElicitIds
    /\ sReply \in [ElicitIds -> Answers \cup {"none"}]

ServerInit ==
    /\ sMain = "serving"
    /\ inbound = <<>>
    /\ outbound = <<>>
    /\ task = [n \in CallIds |-> "none"]
    /\ tmethod = [n \in CallIds |-> "none"]
    /\ asked = [n \in CallIds |-> <<>>]
    /\ result = [n \in CallIds |-> "none"]
    /\ audit = [n \in CallIds |-> "none"]
    /\ sNextId = ElicitBase
    /\ sPending = {}
    /\ sReply = [e \in ElicitIds |-> "none"]

-----------------------------------------------------------------------------
(***************************************************************************)
(* The reader task: forwards until EOF, suspended while inbound is full.   *)
(***************************************************************************)

SReaderForward ==
    /\ sReader = "running"
    /\ c2s # <<>>
    /\ Len(inbound) < ChanCap
    /\ inbound' = Append(inbound, Head(c2s))
    /\ c2s' = Tail(c2s)
    /\ UNCHANGED <<sMain, outbound, task, tmethod, asked, result, audit, sNextId,
                   sPending, sReply, s2c, cWriter, sReader, sWriter, cReader>>

SReaderEof ==
    /\ sReader = "running"
    /\ EofAtServer
    /\ sReader' = "stopped"
    /\ UNCHANGED <<serverVars, c2s, s2c, cWriter, sWriter, cReader>>

ServerReader == SReaderForward \/ SReaderEof

-----------------------------------------------------------------------------
(***************************************************************************)
(* The loop.  It never awaits a tool or the outbound channel.              *)
(***************************************************************************)

\* A request gets a task of its own.
MainRequest ==
    /\ sMain = "serving"
    /\ inbound # <<>>
    /\ Head(inbound).kind = "request"
    /\ LET req == Head(inbound)
       IN  /\ task' = [task EXCEPT ![req.id] = "running"]
           /\ tmethod' = [tmethod EXCEPT ![req.id] = req.body]
           /\ asked' = [asked EXCEPT ![req.id] = <<>>]
           /\ result' = [result EXCEPT ![req.id] = "none"]
    /\ inbound' = Tail(inbound)
    /\ UNCHANGED <<sMain, outbound, audit, sNextId, sPending, sReply, pipeVars>>

\* Mutant: a response completes the oldest waiter, whatever its id.
MainResponseOldest ==
    /\ sMain = "serving"
    /\ inbound # <<>>
    /\ Head(inbound).kind = "response"
    /\ sPending # {}
    /\ LET e == CHOOSE x \in sPending : \A y \in sPending : x <= y
       IN  /\ sPending' = sPending \ {e}
           /\ sReply' = [sReply EXCEPT ![e] = Head(inbound).body]
    /\ inbound' = Tail(inbound)
    /\ UNCHANGED <<sMain, outbound, task, tmethod, asked, result, audit, sNextId, pipeVars>>

\* deliver_response: the waiter of that id is removed and completed.
MainResponse ==
    /\ sMain = "serving"
    /\ inbound # <<>>
    /\ Head(inbound).kind = "response"
    /\ LET resp == Head(inbound)
       IN  /\ sPending' = sPending \ {resp.id}
           /\ sReply' = IF resp.id \in sPending
                        THEN [sReply EXCEPT ![resp.id] = resp.body] ELSE sReply
    /\ inbound' = Tail(inbound)
    /\ UNCHANGED <<sMain, outbound, task, tmethod, asked, result, audit, sNextId, pipeVars>>

\* on_notification only logs.
MainNotification ==
    /\ sMain = "serving"
    /\ inbound # <<>>
    /\ Head(inbound).kind = "notification"
    /\ inbound' = Tail(inbound)
    /\ UNCHANGED <<sMain, outbound, task, tmethod, asked, result, audit, sNextId,
                   sPending, sReply, pipeVars>>

\* inbound is closed and drained: drop(outbound_tx), then join both tasks.
MainClose ==
    /\ sMain = "serving"
    /\ inbound = <<>>
    /\ sReader = "stopped"
    /\ sMain' = "joining"
    /\ UNCHANGED <<inbound, outbound, task, tmethod, asked, result, audit, sNextId,
                   sPending, sReply, pipeVars>>

\* run_stdio returns, and with it main: the remaining tasks end too.
MainReturn ==
    /\ sMain = "joining"
    /\ sReader = "stopped"
    /\ sWriter = "stopped"
    /\ sMain' = "stopped"
    /\ UNCHANGED <<inbound, outbound, task, tmethod, asked, result, audit, sNextId,
                   sPending, sReply, pipeVars>>

ServerMain ==
    MainRequest \/ MainResponse \/ MainNotification \/ MainClose \/ MainReturn

-----------------------------------------------------------------------------
(***************************************************************************)
(* The task of request n: dispatch, and the elicitations of a workflow.    *)
(***************************************************************************)

ServerUp == sMain # "stopped"

TaskPlain(n) ==
    /\ ServerUp
    /\ task[n] = "running"
    /\ Rounds(tmethod[n]) = 0
    /\ result' = [result EXCEPT ![n] = PlainResult(tmethod[n])]
    /\ task' = [task EXCEPT ![n] = "responding"]
    /\ UNCHANGED <<sMain, inbound, outbound, tmethod, asked, audit, sNextId,
                   sPending, sReply, pipeVars>>

\* elicit, up to the insertion of the waiter: the fresh id is known to this
\* task alone, so allocation and insertion are one step.
TaskElicit(n) ==
    /\ ServerUp
    /\ task[n] = "running"
    /\ Rounds(tmethod[n]) > Len(asked[n])
    /\ sNextId < ElicitBase + MaxElicits
    /\ sNextId' = sNextId + 1
    /\ asked' = [asked EXCEPT ![n] = Append(@, sNextId)]
    /\ sPending' = sPending \cup {sNextId}
    /\ task' = [task EXCEPT ![n] = "registered"]
    /\ UNCHANGED <<sMain, inbound, outbound, tmethod, result, audit, sReply, pipeVars>>

CurrentId(n) == asked[n][Len(asked[n])]

\* The workflow handler goes on with answer a to its latest form: the next
\* form, or the audit entry followed by the result.
Continue(n, a) ==
    LET m == tmethod[n]
        r == Len(asked[n])
    IN  IF Accepts(a) /\ r < Rounds(m)
        THEN /\ task' = [task EXCEPT ![n] = "running"]
             /\ UNCHANGED <<result, audit>>
        ELSE /\ task' = [task EXCEPT ![n] = "responding"]
             /\ result' = [result EXCEPT ![n] = WorkflowResult(m, r, a)]
             /\ audit' = [audit EXCEPT ![n] = WorkflowAudit(m, r, a)]

\* elicit, the send: suspended while outbound is full; once the writer task
\* has dropped the receiver the waiter is removed and the answer is Cancel.
TaskElicitSend(n) ==
    /\ ServerUp
    /\ task[n] = "registered"
    /\ \/ /\ sWriter = "running"
          /\ Len(outbound) < ChanCap
          /\ outbound' = Append(outbound, [kind |-> "request", id |-> CurrentId(n),
                                           body |-> "elicitation/create"])
          /\ task' = [task EXCEPT ![n] = "awaiting"]
          /\ UNCHANGED <<sPending, result, audit>>
       \/ /\ sWriter = "stopped"
          /\ sPending' = sPending \ {CurrentId(n)}
          /\ Continue(n, "cancel")
          /\ UNCHANGED outbound
    /\ UNCHANGED <<sMain, inbound, tmethod, asked, sNextId, sReply, pipeVars>>

\* elicit, rx.await: the response, or Cancel when the waiter was dropped.
TaskResume(n) ==
    /\ ServerUp
    /\ task[n] = "awaiting"
    /\ LET e == CurrentId(n)
       IN  /\ e \notin sPending
           /\ Continue(n, IF sReply[e] = "none" THEN "cancel" ELSE ParseResponse(sReply[e]))
    /\ UNCHANGED <<sMain, inbound, outbound, tmethod, asked, sNextId, sPending,
                   sReply, pipeVars>>

\* out.send of the response; its failure is ignored.
TaskRespond(n) ==
    /\ ServerUp
    /\ task[n] = "responding"
    /\ \/ /\ sWriter = "running"
          /\ Len(outbound) < ChanCap
          /\ outbound' = Append(outbound, [kind |-> "response", id |-> n, body |-> result[n]])
       \/ /\ sWriter = "stopped"
          /\ UNCHANGED outbound
    /\ task' = [task EXCEPT ![n] = "done"]
    /\ UNCHANGED <<sMain, inbound, tmethod, asked, result, audit, sNextId, sPending,
                   sReply, pipeVars>>

TaskStep(n) ==
    TaskPlain(n) \/ TaskElicit(n) \/ TaskElicitSend(n) \/ TaskResume(n) \/ TaskRespond(n)

-----------------------------------------------------------------------------
(***************************************************************************)
(* The writer task.                                                        *)
(***************************************************************************)

SWriterSend ==
    /\ sWriter = "running"
    /\ outbound # <<>>
    /\ ~BrokenToClient
    /\ Len(s2c) < PipeCap
    /\ s2c' = Append(s2c, Head(outbound))
    /\ outbound' = Tail(outbound)
    /\ UNCHANGED <<sMain, inbound, task, tmethod, asked, result, audit, sNextId,
                   sPending, sReply, c2s, cWriter, sReader, sWriter, cReader>>

\* The senders that keep outbound open: the one inside elicit_handle, a local
\* of run_stdio until it returns (the loop's own goes with drop(outbound_tx)
\* before that), and the clones of the running tasks.
OutboundOpen ==
    \/ ServerUp
    \/ \E n \in CallIds : task[n] \notin {"none", "done"}

\* The loop ends on a failed write or when no sender is left.
SWriterStop ==
    /\ sWriter = "running"
    /\ IF outbound # <<>> THEN BrokenToClient ELSE ~OutboundOpen
    /\ sWriter' = "stopped"
    /\ outbound' = <<>>
    /\ UNCHANGED <<sMain, inbound, task, tmethod, asked, result, audit, sNextId,
                   sPending, sReply, c2s, s2c, cWriter, sReader, cReader>>

ServerWriter == SWriterSend \/ SWriterStop

-----------------------------------------------------------------------------
\* The server process ends at any moment: the kernel closes both its ends.
ServerExit ==
    /\ ServerUp
    /\ sMain' = "stopped"
    /\ sReader' = "stopped"
    /\ sWriter' = "stopped"
    /\ inbound' = <<>>
    /\ outbound' = <<>>
    /\ c2s' = <<>>
    /\ UNCHANGED <<task, tmethod, asked, result, audit, sNextId, sPending, sReply,
                   s2c, cWriter, cReader>>
=============================================================================
