------------------------------ MODULE McpClient ------------------------------
(***************************************************************************)
(* The MCP client of crates/mcp-client: spawn_with_halves, call, notify    *)
(* and handle_server_request.  A call is identified by the id fetch_add    *)
(* gives it; many calls run at once, each suspended on its own oneshot.    *)
(* The reader task completes oneshots, the writer task drains the outbox,  *)
(* and every elicitation of the server is answered by a task of its own.   *)
(***************************************************************************)
EXTENDS McpPipes

VARIABLES
    client,    \* "up", "dropped" (the last Arc<Client> is gone), "exited"
    nextId,    \* Client::next_id
    method,    \* method[n]: what call n asked for ("none" before it exists)
    call,      \* call[n]: where the future of call n is suspended
    outcome,   \* outcome[n]: what call n returned ("none" while it runs)
    pending,   \* ids with a oneshot sender in Client::pending
    reply,     \* reply[n]: the response in call n's oneshot, or "none"
    outbox,    \* the mpsc channel to the writer task
    handler,   \* handler[e]: the task answering elicitation e
    answer     \* answer[e]: what the user answered to elicitation e

clientVars ==
    <<client, nextId, method, call, outcome, pending, reply, outbox, handler, answer>>

CallStates == {"idle", "allocated", "registered", "waiting", "notifying", "done"}

ClientTypeOK ==
    /\ client \in {"up", "dropped", "exited"}
    /\ nextId \in 1..(MaxCalls + 1)
    /\ method \in [CallIds -> Methods \cup {"none"}]
    /\ call \in [CallIds -> CallStates]
    /\ outcome \in [CallIds -> Results \cup {"none", "closed"}]
    /\ pending \subseteq CallIds
    /\ reply \in [CallIds -> Results \cup {"none"}]
    /\ outbox \in Seq(ToServer)
    /\ handler \in [ElicitIds -> {"none", "asking", "answered", "done"}]
    /\ answer \in [ElicitIds -> Answers \cup {"none"}]

ClientInit ==
    /\ client = "up"
    /\ nextId = 1
    /\ method = [n \in CallIds |-> "none"]
    /\ call = [n \in CallIds |-> "idle"]
    /\ outcome = [n \in CallIds |-> "none"]
    /\ pending = {}
    /\ reply = [n \in CallIds |-> "none"]
    /\ outbox = <<>>
    /\ handler = [e \in ElicitIds |-> "none"]
    /\ answer = [e \in ElicitIds |-> "none"]

-----------------------------------------------------------------------------
(***************************************************************************)
(* Client::call and Client::initialize, suspended where the code awaits.   *)
(***************************************************************************)

\* fetch_add on next_id.
CallAllocate(m) ==
    /\ client = "up"
    /\ nextId <= MaxCalls
    /\ nextId' = nextId + 1
    /\ method' = [method EXCEPT ![nextId] = m]
    /\ call' = [call EXCEPT ![nextId] = "allocated"]
    /\ UNCHANGED <<client, outcome, pending, reply, outbox, handler, answer, pipeVars>>

\* The waiter goes into the map before the request goes out.
CallRegister(n) ==
    /\ client = "up"
    /\ call[n] = "allocated"
    /\ pending' = pending \cup {n}
    /\ call' = [call EXCEPT ![n] = "registered"]
    /\ UNCHANGED <<client, nextId, method, outcome, reply, outbox, handler, answer,
                   pipeVars>>

\* Mutant: the id is read again from next_id when the request is built.
CallRequestReread(n) == [kind |-> "request", id |-> nextId, body |-> method[n]]

\* Request::new with the id that fetch_add returned.
CallRequest(n) == [kind |-> "request", id |-> n, body |-> method[n]]

\* outbox.send suspends while the channel is full and fails once the writer
\* task has dropped the receiver; the waiter then stays in the map.
CallSend(n) ==
    /\ client = "up"
    /\ call[n] = "registered"
    /\ \/ /\ cWriter = "running"
          /\ Len(outbox) < ChanCap
          /\ outbox' = Append(outbox, CallRequest(n))
          /\ call' = [call EXCEPT ![n] = "waiting"]
          /\ UNCHANGED outcome
       \/ /\ cWriter = "stopped"
          /\ call' = [call EXCEPT ![n] = "done"]
          /\ outcome' = [outcome EXCEPT ![n] = "closed"]
          /\ UNCHANGED outbox
    /\ UNCHANGED <<client, nextId, method, pending, reply, handler, answer, pipeVars>>

\* rx.await: the response, or TransportClosed when the sender was dropped.
\* initialize goes on to send its notification after a successful result.
CallReturn(n) ==
    /\ client = "up"
    /\ call[n] = "waiting"
    /\ reply[n] # "none" \/ n \notin pending
    /\ outcome' = [outcome EXCEPT ![n] = IF reply[n] = "none" THEN "closed" ELSE reply[n]]
    /\ call' = [call EXCEPT ![n] = IF method[n] = "initialize" /\ reply[n] = "ok"
                                   THEN "notifying" ELSE "done"]
    /\ UNCHANGED <<client, nextId, method, pending, reply, outbox, handler, answer,
                   pipeVars>>

\* notify(INITIALIZED); a closed outbox turns initialize into TransportClosed.
CallNotify(n) ==
    /\ client = "up"
    /\ call[n] = "notifying"
    /\ call' = [call EXCEPT ![n] = "done"]
    /\ \/ /\ cWriter = "running"
          /\ Len(outbox) < ChanCap
          /\ outbox' = Append(outbox, [kind |-> "notification", id |-> 0, body |-> "initialized"])
          /\ UNCHANGED outcome
       \/ /\ cWriter = "stopped"
          /\ outcome' = [outcome EXCEPT ![n] = "closed"]
          /\ UNCHANGED outbox
    /\ UNCHANGED <<client, nextId, method, pending, reply, handler, answer, pipeVars>>

CallStep(n) == CallRegister(n) \/ CallSend(n) \/ CallReturn(n) \/ CallNotify(n)

-----------------------------------------------------------------------------
(***************************************************************************)
(* The reader task.                                                        *)
(***************************************************************************)

\* Mutant: responses are matched to waiters in order, not by id.
ReaderResponseInOrder ==
    /\ cReader = "running"
    /\ s2c # <<>>
    /\ Head(s2c).kind = "response"
    /\ pending # {}
    /\ LET n == CHOOSE x \in pending : \A y \in pending : x <= y
       IN  /\ pending' = pending \ {n}
           /\ reply' = [reply EXCEPT ![n] = Head(s2c).body]
    /\ s2c' = Tail(s2c)
    /\ UNCHANGED <<client, nextId, method, call, outcome, outbox, handler, answer,
                   c2s, cWriter, sReader, sWriter, cReader>>

\* A response completes and removes the waiter of its id; one without a
\* waiter is dropped.
ReaderResponse ==
    /\ cReader = "running"
    /\ s2c # <<>>
    /\ Head(s2c).kind = "response"
    /\ LET r == Head(s2c)
       IN  /\ pending' = pending \ {r.id}
           /\ reply' = IF r.id \in pending THEN [reply EXCEPT ![r.id] = r.body] ELSE reply
    /\ s2c' = Tail(s2c)
    /\ UNCHANGED <<client, nextId, method, call, outcome, outbox, handler, answer,
                   c2s, cWriter, sReader, sWriter, cReader>>

\* A server request is handed to a task of its own, so the reader goes on.
ReaderRequest ==
    /\ cReader = "running"
    /\ s2c # <<>>
    /\ Head(s2c).kind = "request"
    /\ handler' = [handler EXCEPT ![Head(s2c).id] = "asking"]
    /\ s2c' = Tail(s2c)
    /\ UNCHANGED <<client, nextId, method, call, outcome, pending, reply, outbox, answer,
                   c2s, cWriter, sReader, sWriter, cReader>>

ReaderEof ==
    /\ cReader = "running"
    /\ EofAtClient
    /\ cReader' = "draining"
    /\ UNCHANGED <<clientVars, c2s, s2c, cWriter, sReader, sWriter>>

\* Mutant: the reader task ends without dropping the waiters.
ReaderDrainNothing ==
    /\ cReader = "draining"
    /\ cReader' = "stopped"
    /\ UNCHANGED <<clientVars, c2s, s2c, cWriter, sReader, sWriter>>

\* After the loop: pending.clear() drops every oneshot sender.
ReaderDrain ==
    /\ cReader = "draining"
    /\ pending' = {}
    /\ cReader' = "stopped"
    /\ UNCHANGED <<client, nextId, method, call, outcome, reply, outbox, handler, answer,
                   c2s, s2c, cWriter, sReader, sWriter>>

ClientReader == ReaderResponse \/ ReaderRequest \/ ReaderEof \/ ReaderDrain

-----------------------------------------------------------------------------
(***************************************************************************)
(* handle_server_request, one task per elicitation.                        *)
(***************************************************************************)

\* Mutant: the form stays open until its answer has left.
HandlerAnswerAgain(e, a) ==
    /\ client # "exited"
    /\ handler[e] \in {"asking", "answered"}
    /\ handler' = [handler EXCEPT ![e] = "answered"]
    /\ answer' = [answer EXCEPT ![e] = a]
    /\ UNCHANGED <<client, nextId, method, call, outcome, pending, reply, outbox, pipeVars>>

\* delegate.on_elicit returns.
HandlerAnswer(e, a) ==
    /\ client # "exited"
    /\ handler[e] = "asking"
    /\ handler' = [handler EXCEPT ![e] = "answered"]
    /\ answer' = [answer EXCEPT ![e] = a]
    /\ UNCHANGED <<client, nextId, method, call, outcome, pending, reply, outbox, pipeVars>>

\* outbox.send of the response; its failure is ignored.
HandlerSend(e) ==
    /\ client # "exited"
    /\ handler[e] = "answered"
    /\ \/ /\ cWriter = "running"
          /\ Len(outbox) < ChanCap
          /\ outbox' = Append(outbox, [kind |-> "response", id |-> e, body |-> answer[e]])
       \/ /\ cWriter = "stopped"
          /\ UNCHANGED outbox
    /\ handler' = [handler EXCEPT ![e] = "done"]
    /\ UNCHANGED <<client, nextId, method, call, outcome, pending, reply, answer,
                   pipeVars>>

-----------------------------------------------------------------------------
(***************************************************************************)
(* The writer task.                                                        *)
(***************************************************************************)

\* Mutant: a message that finds the pipe full is dropped.
WriterSendLossy ==
    /\ cWriter = "running"
    /\ outbox # <<>>
    /\ ~BrokenToServer
    /\ c2s' = IF Len(c2s) < PipeCap THEN Append(c2s, Head(outbox)) ELSE c2s
    /\ outbox' = Tail(outbox)
    /\ UNCHANGED <<client, nextId, method, call, outcome, pending, reply, handler, answer,
                   s2c, cWriter, sReader, sWriter, cReader>>

\* outbox_rx.recv, then writer.send: suspended while the pipe is full.
WriterSend ==
    /\ cWriter = "running"
    /\ outbox # <<>>
    /\ ~BrokenToServer
    /\ Len(c2s) < PipeCap
    /\ c2s' = Append(c2s, Head(outbox))
    /\ outbox' = Tail(outbox)
    /\ UNCHANGED <<client, nextId, method, call, outcome, pending, reply, handler, answer,
                   s2c, cWriter, sReader, sWriter, cReader>>

\* The senders that keep the outbox open: the Client itself, the clone the
\* reader task took, and one clone per running handler.
OutboxOpen ==
    \/ client = "up"
    \/ cReader # "stopped"
    \/ \E e \in ElicitIds : handler[e] \in {"asking", "answered"}

\* The loop ends on a failed write or when no sender is left; the task then
\* drops the receiver, with what it still held, and the end of the pipe.
WriterStop ==
    /\ cWriter = "running"
    /\ IF outbox # <<>> THEN BrokenToServer ELSE ~OutboxOpen
    /\ cWriter' = "stopped"
    /\ outbox' = <<>>
    /\ UNCHANGED <<client, nextId, method, call, outcome, pending, reply, handler, answer,
                   c2s, s2c, sReader, sWriter, cReader>>

ClientWriter == WriterSend \/ WriterStop

-----------------------------------------------------------------------------
\* The application drops its Client once no call borrows it; JoinHandles are
\* detached, so the tasks go on.
ClientDrop ==
    /\ client = "up"
    /\ \A n \in CallIds : call[n] \in {"idle", "done"}
    /\ client' = "dropped"
    /\ UNCHANGED <<nextId, method, call, outcome, pending, reply, outbox, handler, answer,
                   pipeVars>>

\* The client process ends at any moment: the kernel closes both its ends.
ClientExit ==
    /\ client # "exited"
    /\ client' = "exited"
    /\ cWriter' = "stopped"
    /\ cReader' = "stopped"
    /\ outbox' = <<>>
    /\ s2c' = <<>>
    /\ UNCHANGED <<nextId, method, call, outcome, pending, reply, handler, answer,
                   c2s, sReader, sWriter>>
=============================================================================
