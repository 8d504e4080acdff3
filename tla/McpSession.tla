------------------------------ MODULE McpSession ------------------------------
(***************************************************************************)
(* One stdio session: the client of crates/mcp-client and the server of    *)
(* crates/mcp-server on the two ends of a pair of pipes, each able to end  *)
(* at any moment.                                                          *)
(***************************************************************************)
EXTENDS McpClient, McpServer, FiniteSets

vars == <<pipeVars, clientVars, serverVars>>

TypeOK == PipesTypeOK /\ ClientTypeOK /\ ServerTypeOK

Init == PipesInit /\ ClientInit /\ ServerInit

Begin == \E m \in Methods : CallAllocate(m) /\ UNCHANGED serverVars
Calling(n) == CallStep(n) /\ UNCHANGED serverVars
Answering(e) == (\E a \in UserAnswers : HandlerAnswer(e, a)) /\ UNCHANGED serverVars
Replying(e) == HandlerSend(e) /\ UNCHANGED serverVars
ClientReading == ClientReader /\ UNCHANGED serverVars
ClientWriting == ClientWriter /\ UNCHANGED serverVars
Dropping == ClientDrop /\ UNCHANGED serverVars
ClientEnding == ClientExit /\ UNCHANGED serverVars

Serving(n) == TaskStep(n) /\ UNCHANGED clientVars
ServerLooping == ServerMain /\ UNCHANGED clientVars
ServerReading == ServerReader /\ UNCHANGED clientVars
ServerWriting == ServerWriter /\ UNCHANGED clientVars
ServerEnding == ServerExit /\ UNCHANGED clientVars

Next ==
    \/ Begin
    \/ \E n \in CallIds : Calling(n) \/ Serving(n)
    \/ \E e \in ElicitIds : Answering(e) \/ Replying(e)
    \/ ClientReading \/ ClientWriting \/ Dropping \/ ClientEnding
    \/ ServerLooping \/ ServerReading \/ ServerWriting \/ ServerEnding

(***************************************************************************)
(* Every tokio task that can go on is scheduled, and a delegate answers.   *)
(* Making a call, dropping the client and the end of a process are not     *)
(* owed.                                                                   *)
(***************************************************************************)
Fairness ==
    /\ \A n \in CallIds : WF_vars(Calling(n)) /\ WF_vars(Serving(n))
    /\ \A e \in ElicitIds : WF_vars(Answering(e) \/ Replying(e))
    /\ WF_vars(ClientReading) /\ WF_vars(ClientWriting)
    /\ WF_vars(ServerLooping) /\ WF_vars(ServerReading) /\ WF_vars(ServerWriting)

Spec == Init /\ [][Next]_vars /\ Fairness

-----------------------------------------------------------------------------
(***************************************************************************)
(* Safety.                                                                 *)
(***************************************************************************)

\* A caller gets back the result that the server's task computed for the very
\* method this caller asked for, however calls, responses and elicitations
\* interleave on the shared pipes and whichever ids the two sides picked
\* (call and the reader task in mcp-client, run_stdio in mcp-server).
ReplyIsOwn ==
    \A n \in CallIds :
        outcome[n] \in Results =>
            /\ tmethod[n] = method[n]
            /\ outcome[n] = result[n]

\* A workflow reports "confirmed" only if it put all its forms to the user and
\* the user accepted each of those very forms: no answer reaches a tool that
\* did not ask for it, and no failure of the transport counts as consent.
ConfirmedOnlyByUser ==
    \A n \in CallIds :
        result[n] = "confirmed" =>
            /\ Len(asked[n]) = Rounds(tmethod[n])
            /\ \A i \in DOMAIN asked[n] : Accepts(answer[asked[n][i]])

\* What a caller is told about a write is on the audit log: the entry is
\* recorded before the response leaves, and says the same.
ToldIsAudited ==
    \A n \in CallIds :
        /\ outcome[n] = "confirmed" => audit[n] = "ok"
        /\ outcome[n] \in {"declined", "cancelled", "mismatch"} =>
               audit[n] \in {"declined", "denied"}

\* Where messages of kind k with id i are in queue q, and how many.
Places(q, k, i) == {j \in DOMAIN q : q[j].kind = k /\ q[j].id = i}
Copies(q, k, i) == Cardinality(Places(q, k, i))

One(b) == IF b THEN 1 ELSE 0

\* Both processes run and no task of either has ended.
SessionUp ==
    /\ client # "exited"
    /\ sMain = "serving"
    /\ cWriter = "running" /\ sReader = "running"
    /\ sWriter = "running" /\ cReader = "running"

\* While the session is up, what a suspended future waits for is in exactly
\* one place: a request on its way, a task working on it, or the response on
\* its way back.  Nothing is lost or duplicated at a hand-over between a task,
\* a channel and a pipe, in either direction.
ExactlyOneInFlight ==
    SessionUp =>
        /\ \A n \in pending : call[n] = "waiting" =>
             1 = Copies(outbox, "request", n) + Copies(c2s, "request", n)
                  + Copies(inbound, "request", n) + One(task[n] \notin {"none", "done"})
                  + Copies(outbound, "response", n) + Copies(s2c, "response", n)
        /\ \A n \in CallIds : task[n] = "awaiting" =>
             LET e == CurrentId(n)
             IN  1 = Copies(outbound, "request", e) + Copies(s2c, "request", e)
                      + One(handler[e] \in {"asking", "answered"})
                      + Copies(outbox, "response", e) + Copies(c2s, "response", e)
                      + Copies(inbound, "response", e) + One(e \notin sPending)

-----------------------------------------------------------------------------
(***************************************************************************)
(* What the session is to its callers and its user.                        *)
(***************************************************************************)

\* The forms of workflow n that the user accepted.
Consent(n) == {i \in DOMAIN asked[n] : Accepts(answer[asked[n][i]])}

\* initialize has not returned before its notification is queued.
Told(n) == IF call[n] = "done" THEN outcome[n] ELSE "none"

Service == INSTANCE ToolCalls WITH
    Calls <- CallIds, Offered <- Methods, wanted <- method,
    consent <- [n \in CallIds |-> Consent(n)], done <- result, entry <- audit,
    told <- [n \in CallIds |-> Told(n)]

\* Tasks, channels, pipes, lost connections and dying processes show their
\* users nothing but calls that are carried out at most once, decided with
\* their audit entry after the user's consent, and answered once (call in
\* mcp-client, run_stdio, elicit, the workflow handlers of tools.rs).
ImplementsToolCalls == Service!CallsSpec

-----------------------------------------------------------------------------
(***************************************************************************)
(* Liveness.                                                               *)
(***************************************************************************)

\* A call whose waiter was registered while the reader task runs returns, even
\* through channels and pipes of the smallest capacity and even if the server
\* dies: the answer arrives or the drain at EOF drops the waiter.
RegisteredCallReturns ==
    \A n \in CallIds :
        (n \in pending /\ cReader = "running")
            ~> (call[n] = "done" \/ client = "exited")

-----------------------------------------------------------------------------
(***************************************************************************)
(* What comments of the code promise of the end of a session, and what the *)
(* code does not do: each of these is refuted by a run of its own.         *)
(***************************************************************************)

\* "Drain pending waiters so callers see TransportClosed instead of hanging"
\* (mcp-client): no call in progress stays suspended for ever.
NoCallHangs ==
    \A n \in CallIds : call[n] = "waiting" ~> (call[n] = "done" \/ client = "exited")

\* "On any failure (transport closed, ...), returns an ElicitationResult"
\* (elicit.rs): no tool stays suspended in elicit for ever.
ElicitReturns ==
    \A n \in CallIds : task[n] = "awaiting" ~> (task[n] # "awaiting" \/ ~ServerUp)

\* "Gracefully end.  Closing the child's stdin causes its event loop to exit"
\* (sample-client): once the client is dropped, the server ends.
DropEndsServer == client = "dropped" ~> (~ServerUp \/ client = "exited")
=============================================================================
