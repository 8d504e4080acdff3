-------------------------- MODULE McpSessionProofs --------------------------
(***************************************************************************)
(* Machine-checked facts about McpSession, for every number of calls and   *)
(* elicitations, every channel and pipe capacity and every base id.        *)
(***************************************************************************)
EXTENDS McpSession, SequenceTheorems, FiniteSetTheorems, FunctionTheorems, TLAPS

(***************************************************************************)
(* TypeOK is not inductive: what a task puts into a message was stored by  *)
(* an earlier step, and is a value of the message's type only because that *)
(* step precedes this one.                                                 *)
(***************************************************************************)
Defined ==
    /\ \A n \in CallIds : call[n] # "idle" => method[n] \in Methods
    /\ \A e \in ElicitIds : handler[e] = "answered" => answer[e] \in Answers
    /\ \A n \in CallIds : task[n] \in {"registered", "awaiting"} => asked[n] # <<>>
    /\ \A n \in CallIds : task[n] = "responding" => result[n] \in Results

TInv == TypeOK /\ Defined

-----------------------------------------------------------------------------
(***************************************************************************)
(* Facts about queues and answers.                                         *)
(***************************************************************************)

\* Taking the head of a queue and appending to one stay within its type.
LEMMA QueueTypes ==
    ASSUME NEW S, NEW q \in Seq(S)
    PROVE  /\ q # <<>> => Head(q) \in S /\ Tail(q) \in Seq(S)
           /\ \A x \in S : Append(q, x) \in Seq(S)
           /\ <<>> \in Seq(S)
  OBVIOUS

\* What a message of each kind carries, in either direction.
LEMMA ToServerFields ==
    ASSUME NEW m \in ToServer
    PROVE  /\ m.kind = "request" => m.id \in CallIds /\ m.body \in Methods
           /\ m.kind = "response" => m.id \in ElicitIds /\ m.body \in Answers
  BY DEF ToServer

LEMMA ToClientFields ==
    ASSUME NEW m \in ToClient
    PROVE  /\ m.kind = "response" => m.id \in CallIds /\ m.body \in Results
           /\ m.kind = "request" => m.id \in ElicitIds
  BY DEF ToClient

\* Every arm of a workflow handler ends in a result and an audit outcome.
LEMMA WorkflowTypes ==
    ASSUME NEW m, NEW r, NEW a
    PROVE  WorkflowResult(m, r, a) \in Results /\ WorkflowAudit(m, r, a) \in AuditOutcomes
  BY DEF WorkflowResult, WorkflowAudit, Results, AuditOutcomes

-----------------------------------------------------------------------------
(***************************************************************************)
(* Type correctness, one lemma per process, one step per action.           *)
(***************************************************************************)

LEMMA InitType == Init => TInv
  BY BoundsAssumption DEF Init, PipesInit, ClientInit, ServerInit, TInv, Defined, TypeOK,
     PipesTypeOK, ClientTypeOK, ServerTypeOK, CallIds, ElicitIds, CallStates, TaskStates

LEMMA BeginType ==
    ASSUME TInv, Begin
    PROVE  TInv'
  <1> USE DEF TInv, TypeOK, PipesTypeOK, ClientTypeOK, ServerTypeOK, pipeVars, serverVars
  <1>1. PICK m \in Methods : CallAllocate(m)
    BY DEF Begin
  <1>2. nextId \in CallIds /\ nextId' \in 1..(MaxCalls + 1)
    BY <1>1, BoundsAssumption DEF CallAllocate, CallIds
  <1>3. UNCHANGED serverVars
    BY DEF Begin
  <1>4. TypeOK'
    BY <1>1, <1>2, <1>3 DEF CallAllocate, CallStates
  <1>5. Defined'
    BY <1>1, <1>2, <1>3 DEF CallAllocate, Defined
  <1> QED
    BY <1>4, <1>5

LEMMA CallType ==
    ASSUME TInv, NEW n \in CallIds, Calling(n)
    PROVE  TInv'
  <1> USE DEF TInv, TypeOK, PipesTypeOK, ClientTypeOK, ServerTypeOK, pipeVars, serverVars
  <1>0. UNCHANGED serverVars
    BY DEF Calling
  <1>1. CASE CallRegister(n)
    BY <1>0, <1>1 DEF CallRegister, Defined, CallStates
  <1>2. CASE CallSend(n)
    <2> DEFINE msg == CallRequest(n)
    <2>1. msg \in ToServer
      BY <1>2 DEF CallSend, CallRequest, Defined, ToServer
    <2>1a. outbox' = Append(outbox, msg) \/ outbox' = outbox
      BY <1>2 DEF CallSend
    <2> HIDE DEF msg
    <2>1b. outbox \in Seq(ToServer)
      OBVIOUS
    <2>2. outbox' \in Seq(ToServer)
      BY ONLY <2>1, <2>1a, <2>1b, QueueTypes
    <2>3. CASE call' = [call EXCEPT ![n] = "waiting"] /\ UNCHANGED outcome
      BY <1>0, <1>2, <2>2, <2>3 DEF CallSend, Defined, CallStates
    <2>4. CASE /\ call' = [call EXCEPT ![n] = "done"]
               /\ outcome' = [outcome EXCEPT ![n] = "closed"]
      BY <1>0, <1>2, <2>2, <2>4 DEF CallSend, Defined, CallStates
    <2> QED
      BY <1>2, <2>3, <2>4 DEF CallSend
  <1>3. CASE CallReturn(n)
    BY <1>0, <1>3 DEF CallReturn, Defined, CallStates
  <1>4. CASE CallNotify(n)
    <2> DEFINE msg == [kind |-> "notification", id |-> 0, body |-> "initialized"]
    <2>1. msg \in ToServer
      BY DEF ToServer
    <2>1a. outbox' = Append(outbox, msg) \/ outbox' = outbox
      BY <1>4 DEF CallNotify
    <2> HIDE DEF msg
    <2>1b. outbox \in Seq(ToServer)
      OBVIOUS
    <2>2. outbox' \in Seq(ToServer)
      BY ONLY <2>1, <2>1a, <2>1b, QueueTypes
    <2> QED
      BY <1>0, <1>4, <2>2 DEF CallNotify, Defined, CallStates
  <1> QED
    BY <1>1, <1>2, <1>3, <1>4 DEF Calling, CallStep

LEMMA HandlerType ==
    ASSUME TInv, NEW e \in ElicitIds, Answering(e) \/ Replying(e)
    PROVE  TInv'
  <1> USE DEF TInv, TypeOK, PipesTypeOK, ClientTypeOK, ServerTypeOK, pipeVars, serverVars
  <1>0. UNCHANGED serverVars
    BY DEF Answering, Replying
  <1>1. ASSUME NEW a \in UserAnswers, HandlerAnswer(e, a) PROVE TInv'
    BY <1>0, <1>1, InputsAssumption DEF HandlerAnswer, Defined
  <1>2. CASE HandlerSend(e)
    <2> DEFINE msg == [kind |-> "response", id |-> e, body |-> answer[e]]
    <2>1. msg \in ToServer
      BY <1>2 DEF HandlerSend, Defined, ToServer
    <2>1a. outbox' = Append(outbox, msg) \/ outbox' = outbox
      BY <1>2 DEF HandlerSend
    <2> HIDE DEF msg
    <2>1b. outbox \in Seq(ToServer)
      OBVIOUS
    <2>2. outbox' \in Seq(ToServer)
      BY ONLY <2>1, <2>1a, <2>1b, QueueTypes
    <2> QED
      BY <1>0, <1>2, <2>2 DEF HandlerSend, Defined
  <1> QED
    BY <1>1, <1>2 DEF Answering, Replying

LEMMA ClientTasksType ==
    ASSUME TInv, ClientReading \/ ClientWriting \/ Dropping \/ ClientEnding
    PROVE  TInv'
  <1> USE DEF TInv, TypeOK, PipesTypeOK, ClientTypeOK, ServerTypeOK, pipeVars, serverVars,
             clientVars
  <1>0. UNCHANGED serverVars
    BY DEF ClientReading, ClientWriting, Dropping, ClientEnding
  <1>1. CASE ReaderResponse
    <2>1. s2c' \in Seq(ToClient) /\ Head(s2c) \in ToClient
      BY <1>1, QueueTypes DEF ReaderResponse
    <2>2. Head(s2c).id \in CallIds /\ Head(s2c).body \in Results
      BY <1>1, <2>1, ToClientFields DEF ReaderResponse
    <2> QED
      BY <1>0, <1>1, <2>1, <2>2 DEF ReaderResponse, Defined
  <1>2. CASE ReaderRequest
    <2>1. s2c' \in Seq(ToClient) /\ Head(s2c).id \in ElicitIds
      BY <1>2, QueueTypes, ToClientFields DEF ReaderRequest
    <2> QED
      BY <1>0, <1>2, <2>1 DEF ReaderRequest, Defined
  <1>3. CASE ReaderEof
    BY <1>0, <1>3 DEF ReaderEof, Defined
  <1>4. CASE ReaderDrain
    BY <1>0, <1>4 DEF ReaderDrain, Defined
  <1>5. CASE WriterSend
    <2>1. c2s' \in Seq(ToServer) /\ outbox' \in Seq(ToServer)
      BY <1>5, QueueTypes DEF WriterSend
    <2> QED
      BY <1>0, <1>5, <2>1 DEF WriterSend, Defined
  <1>6. CASE WriterStop
    BY <1>0, <1>6 DEF WriterStop, Defined
  <1>7. CASE ClientDrop
    BY <1>0, <1>7 DEF ClientDrop, Defined
  <1>8. CASE ClientExit
    BY <1>0, <1>8 DEF ClientExit, Defined
  <1> QED
    BY <1>1, <1>2, <1>3, <1>4, <1>5, <1>6, <1>7, <1>8
       DEF ClientReading, ClientReader, ClientWriting, ClientWriter, Dropping, ClientEnding

LEMMA ServerLoopType ==
    ASSUME TInv, ServerLooping
    PROVE  TInv'
  <1> USE DEF TInv, TypeOK, PipesTypeOK, ClientTypeOK, ServerTypeOK, pipeVars, clientVars
  <1>0. UNCHANGED clientVars
    BY DEF ServerLooping
  <1>1. CASE MainRequest
    <2>1. inbound' \in Seq(ToServer) /\ Head(inbound) \in ToServer
      BY <1>1, QueueTypes DEF MainRequest
    <2>2. Head(inbound).id \in CallIds /\ Head(inbound).body \in Methods
      BY <1>1, <2>1, ToServerFields DEF MainRequest
    <2> QED
      BY <1>0, <1>1, <2>1, <2>2 DEF MainRequest, Defined, TaskStates
  <1>2. CASE MainResponse
    <2>1. inbound' \in Seq(ToServer) /\ Head(inbound) \in ToServer
      BY <1>2, QueueTypes DEF MainResponse
    <2>2. Head(inbound).id \in ElicitIds /\ Head(inbound).body \in Answers
      BY <1>2, <2>1, ToServerFields DEF MainResponse
    <2> QED
      BY <1>0, <1>2, <2>1, <2>2 DEF MainResponse, Defined
  <1>3. CASE MainNotification
    BY <1>0, <1>3, QueueTypes DEF MainNotification, Defined
  <1>4. CASE MainClose
    BY <1>0, <1>4 DEF MainClose, Defined
  <1>5. CASE MainReturn
    BY <1>0, <1>5 DEF MainReturn, Defined
  <1> QED
    BY <1>1, <1>2, <1>3, <1>4, <1>5 DEF ServerLooping, ServerMain

LEMMA TaskType ==
    ASSUME TInv, NEW n \in CallIds, Serving(n)
    PROVE  TInv'
  <1> USE DEF TInv, TypeOK, PipesTypeOK, ClientTypeOK, ServerTypeOK, pipeVars, clientVars
  <1>0. UNCHANGED clientVars
    BY DEF Serving
  <1>1. CASE TaskPlain(n)
    BY <1>0, <1>1 DEF TaskPlain, PlainResult, Results, Defined, TaskStates
  <1>2. CASE TaskElicit(n)
    <2>1. sNextId \in ElicitIds /\ sNextId' \in ElicitBase..(ElicitBase + MaxElicits)
      BY <1>2, BoundsAssumption DEF TaskElicit, ElicitIds
    <2>2. asked[n] \in Seq(ElicitIds)
      OBVIOUS
    <2>3. Append(asked[n], sNextId) \in Seq(ElicitIds) /\ Append(asked[n], sNextId) # <<>>
      BY ONLY <2>1, <2>2, AppendProperties
    <2> QED
      BY <1>0, <1>2, <2>1, <2>3 DEF TaskElicit, Defined, TaskStates
  <1>3. ASSUME NEW a, Continue(n, a)
        PROVE  /\ task' \in [CallIds -> TaskStates]
               /\ result' \in [CallIds -> Results \cup {"none"}]
               /\ audit' \in [CallIds -> AuditOutcomes \cup {"none"}]
               /\ task'[n] \in {"running", "responding"}
               /\ task'[n] = "responding" => result'[n] \in Results
               /\ \A k \in CallIds : k # n => task'[k] = task[k] /\ result'[k] = result[k]
    <2> DEFINE m == tmethod[n]
               r == Len(asked[n])
    <2>1. CASE Accepts(a) /\ r < Rounds(m)
      <3>1. task' = [task EXCEPT ![n] = "running"] /\ result' = result /\ audit' = audit
        BY <1>3, <2>1 DEF Continue
      <3> QED
        BY <3>1 DEF TaskStates
    <2>2. CASE ~(Accepts(a) /\ r < Rounds(m))
      <3> DEFINE res == WorkflowResult(m, r, a)
                 aud == WorkflowAudit(m, r, a)
      <3>1. res \in Results /\ aud \in AuditOutcomes
        BY WorkflowTypes
      <3>2. /\ task' = [task EXCEPT ![n] = "responding"]
            /\ result' = [result EXCEPT ![n] = res]
            /\ audit' = [audit EXCEPT ![n] = aud]
        BY <1>3, <2>2 DEF Continue
      <3> HIDE DEF res, aud
      <3> QED
        BY <3>1, <3>2 DEF TaskStates
    <2> QED
      BY <2>1, <2>2
  <1>4. CASE TaskElicitSend(n)
    <2>1. CurrentId(n) \in ElicitIds
      BY <1>4 DEF TaskElicitSend, CurrentId, Defined
    <2> DEFINE msg == [kind |-> "request", id |-> CurrentId(n), body |-> "elicitation/create"]
    <2>2. msg \in ToClient
      BY <2>1 DEF ToClient
    <2>2a. outbound' = Append(outbound, msg) \/ outbound' = outbound
      BY <1>4 DEF TaskElicitSend
    <2> HIDE DEF msg
    <2>2b. outbound \in Seq(ToClient)
      OBVIOUS
    <2>3. outbound' \in Seq(ToClient)
      BY ONLY <2>2, <2>2a, <2>2b, QueueTypes
    <2>4. CASE Continue(n, "cancel") /\ sPending' = sPending \ {CurrentId(n)}
      BY <1>0, <1>3, <1>4, <2>3, <2>4 DEF TaskElicitSend, Defined
    <2>5. CASE task' = [task EXCEPT ![n] = "awaiting"] /\ UNCHANGED <<sPending, result, audit>>
      BY <1>0, <1>4, <2>3, <2>5 DEF TaskElicitSend, Defined, TaskStates
    <2> QED
      BY <1>4, <2>4, <2>5 DEF TaskElicitSend
  <1>5. CASE TaskResume(n)
    <2>1. PICK a : Continue(n, a)
      BY <1>5 DEF TaskResume
    <2> QED
      BY <1>0, <1>3, <1>5, <2>1 DEF TaskResume, Defined
  <1>6. CASE TaskRespond(n)
    <2> DEFINE msg == [kind |-> "response", id |-> n, body |-> result[n]]
    <2>1. msg \in ToClient
      BY <1>6 DEF TaskRespond, Defined, ToClient
    <2>1a. outbound' = Append(outbound, msg) \/ outbound' = outbound
      BY <1>6 DEF TaskRespond
    <2> HIDE DEF msg
    <2>1b. outbound \in Seq(ToClient)
      OBVIOUS
    <2>2. outbound' \in Seq(ToClient)
      BY ONLY <2>1, <2>1a, <2>1b, QueueTypes
    <2> QED
      BY <1>0, <1>6, <2>2 DEF TaskRespond, Defined, TaskStates
  <1> QED
    BY <1>1, <1>2, <1>4, <1>5, <1>6 DEF Serving, TaskStep

LEMMA ServerTasksType ==
    ASSUME TInv, ServerReading \/ ServerWriting \/ ServerEnding
    PROVE  TInv'
  <1> USE DEF TInv, TypeOK, PipesTypeOK, ClientTypeOK, ServerTypeOK, pipeVars, clientVars,
             serverVars
  <1>0. UNCHANGED clientVars
    BY DEF ServerReading, ServerWriting, ServerEnding
  <1>1. CASE SReaderForward
    <2>1. inbound' \in Seq(ToServer) /\ c2s' \in Seq(ToServer)
      BY <1>1, QueueTypes DEF SReaderForward
    <2> QED
      BY <1>0, <1>1, <2>1 DEF SReaderForward, Defined
  <1>2. CASE SReaderEof
    BY <1>0, <1>2 DEF SReaderEof, Defined
  <1>3. CASE SWriterSend
    <2>1. s2c' \in Seq(ToClient) /\ outbound' \in Seq(ToClient)
      BY <1>3, QueueTypes DEF SWriterSend
    <2> QED
      BY <1>0, <1>3, <2>1 DEF SWriterSend, Defined
  <1>4. CASE SWriterStop
    BY <1>0, <1>4 DEF SWriterStop, Defined
  <1>5. CASE ServerExit
    BY <1>0, <1>5 DEF ServerExit, Defined
  <1> QED
    BY <1>1, <1>2, <1>3, <1>4, <1>5
       DEF ServerReading, ServerReader, ServerWriting, ServerWriter, ServerEnding

LEMMA NextType == TInv /\ [Next]_vars => TInv'
  <1> SUFFICES ASSUME TInv, [Next]_vars PROVE TInv'
    OBVIOUS
  <1>1. CASE UNCHANGED vars
    BY <1>1 DEF vars, pipeVars, clientVars, serverVars, TInv, Defined, TypeOK, PipesTypeOK,
       ClientTypeOK, ServerTypeOK
  <1>2. CASE Next
    BY <1>2, BeginType, CallType, HandlerType, ClientTasksType, ServerLoopType, TaskType,
       ServerTasksType DEF Next
  <1> QED
    BY <1>1, <1>2

\* Every message on a channel or a pipe is one its receiver can handle, and
\* every task finds in its locals the values its current step needs.
THEOREM SessionTypeCorrect == Spec => []TypeOK
  <1>1. TInv => TypeOK
    BY DEF TInv
  <1> QED
    BY <1>1, InitType, NextType, PTL DEF Spec

-----------------------------------------------------------------------------
(***************************************************************************)
(* Who gets which message: every request is served once, every response    *)
(* reaches the caller that waits for it, and every form and its answer     *)
(* belong to the workflow that asked.                                      *)
(***************************************************************************)

(***************************************************************************)
(* How many messages of a kind and an id a queue holds.                    *)
(***************************************************************************)

LEMMA PlacesFinite ==
    ASSUME NEW S, NEW q \in Seq(S), NEW k, NEW i
    PROVE  IsFiniteSet(Places(q, k, i)) /\ Copies(q, k, i) \in Nat
  <1>1. Places(q, k, i) \in SUBSET (1..Len(q)) /\ Len(q) \in Nat /\ 1 \in Int /\ Len(q) \in Int
    BY DEF Places
  <1>2. IsFiniteSet(1..Len(q))
    BY ONLY <1>1, FS_Interval
  <1>3. IsFiniteSet(Places(q, k, i))
    BY ONLY <1>1, <1>2, FS_Subset
  <1> QED
    BY ONLY <1>3, FS_CardinalityType DEF Copies

LEMMA NoCopies ==
    ASSUME NEW S, NEW q \in Seq(S), NEW k, NEW i
    PROVE  /\ Copies(<<>>, k, i) = 0
           /\ Copies(q, k, i) = 0 => \A j \in DOMAIN q : ~(q[j].kind = k /\ q[j].id = i)
  <1>1. Places(<<>>, k, i) = {}
    BY DEF Places
  <1>2. Copies(q, k, i) = 0 => Places(q, k, i) = {}
    BY PlacesFinite, FS_EmptySet DEF Copies
  <1>3. Copies(<<>>, k, i) = 0
    BY <1>1, FS_EmptySet DEF Copies
  <1> QED
    BY <1>2, <1>3 DEF Places

LEMMA AppendCopies ==
    ASSUME NEW S, NEW q \in Seq(S), NEW x \in S, NEW k, NEW i
    PROVE  Copies(Append(q, x), k, i) = Copies(q, k, i) + One(x.kind = k /\ x.id = i)
  <1> DEFINE last == Len(q) + 1
  <1>1. /\ DOMAIN Append(q, x) = DOMAIN q \cup {last}
        /\ \A j \in DOMAIN q : Append(q, x)[j] = q[j]
        /\ Append(q, x)[last] = x
        /\ last \notin DOMAIN q
    OBVIOUS
  <1> HIDE DEF last
  <1>2. IsFiniteSet(Places(q, k, i)) /\ Copies(q, k, i) \in Nat
    BY PlacesFinite
  <1>3. CASE x.kind = k /\ x.id = i
    <2>1. Places(Append(q, x), k, i) = Places(q, k, i) \cup {last} /\ last \notin Places(q, k, i)
      BY <1>1, <1>3 DEF Places
    <2>2. Cardinality(Places(q, k, i) \cup {last}) = Cardinality(Places(q, k, i)) + 1
      BY ONLY <1>2, <2>1, FS_AddElement
    <2> QED
      BY <1>3, <2>1, <2>2 DEF Copies, One
  <1>4. CASE ~(x.kind = k /\ x.id = i)
    <2>1. Places(Append(q, x), k, i) = Places(q, k, i)
      BY <1>1, <1>4 DEF Places
    <2> QED
      BY <1>2, <1>4, <2>1 DEF Copies, One
  <1> QED
    BY <1>3, <1>4

LEMMA TailCopies ==
    ASSUME NEW S, NEW q \in Seq(S), q # <<>>, NEW k, NEW i
    PROVE  Copies(q, k, i) = Copies(Tail(q), k, i) + One(Head(q).kind = k /\ Head(q).id = i)
  <1> DEFINE old == Places(q, k, i)
             new == Places(Tail(q), k, i)
             shift == [j \in new |-> j + 1]
  <1>0. /\ Len(q) \in Nat \ {0} /\ DOMAIN q = 1..Len(q)
        /\ DOMAIN Tail(q) = 1..(Len(q) - 1)
        /\ \A j \in 1..(Len(q) - 1) : Tail(q)[j] = q[j + 1]
        /\ Head(q) = q[1]
        /\ Tail(q) \in Seq(S)
    OBVIOUS
  <1>1. IsFiniteSet(old) /\ IsFiniteSet(new) /\ Copies(q, k, i) \in Nat
    BY <1>0, PlacesFinite
  <1>2. ExistsBijection(new, old \ {1})
    <2>1. \A j \in new : j \in Nat /\ j + 1 \in old \ {1}
      BY <1>0 DEF Places
    <2>2. \A l \in old \ {1} : l - 1 \in new /\ (l - 1) + 1 = l
      BY <1>0 DEF Places
    <2> HIDE DEF old, new
    <2>3. shift \in [new -> old \ {1}]
      BY <2>1
    <2>4. \A j, l \in new : shift[j] = shift[l] => j = l
      BY <2>1
    <2>5. \A l \in old \ {1} : \E j \in new : shift[j] = l
      BY <2>2
    <2> HIDE DEF shift
    <2>6. shift \in Bijection(new, old \ {1})
      BY <2>3, <2>4, <2>5, Fun_IsBij
    <2> QED
      BY <2>6 DEF ExistsBijection
  <1>3. 1 \in old <=> Head(q).kind = k /\ Head(q).id = i
    BY <1>0 DEF Places
  <1> HIDE DEF old, new
  <1>4. Cardinality(old \ {1}) = Cardinality(new)
    BY ONLY <1>1, <1>2, FS_Bijection
  <1>5. Cardinality(old \ {1}) = IF 1 \in old THEN Cardinality(old) - 1 ELSE Cardinality(old)
    BY ONLY <1>1, FS_RemoveElement
  <1> QED
    BY <1>1, <1>3, <1>4, <1>5 DEF Copies, One, old, new

-----------------------------------------------------------------------------
(***************************************************************************)
(* The inductive invariant.  What a caller receives was put together by    *)
(* five tasks, so the claim about it needs one about every place the       *)
(* request, the form, the answer and the response are on the way.          *)
(***************************************************************************)
Contents(q) == {q[j] : j \in DOMAIN q}

\* Requests and responses of call n, forms of elicitation e and replies to it,
\* on their way.
Requests(n) ==
    Copies(outbox, "request", n) + Copies(c2s, "request", n) + Copies(inbound, "request", n)
Responses(n) == Copies(outbound, "response", n) + Copies(s2c, "response", n)
Forms(e) == Copies(outbound, "request", e) + Copies(s2c, "request", e)
FormReplies(e) ==
    Copies(outbox, "response", e) + Copies(c2s, "response", e) + Copies(inbound, "response", e)

\* An id is used for one call, a call for one request, a request for one task,
\* and a task for one response.
ServedOnce ==
    \A n \in CallIds :
        /\ n >= nextId => call[n] = "idle"
        /\ Requests(n) + One(task[n] # "none") <= One(call[n] \in {"waiting", "notifying", "done"})
        /\ Responses(n) <= One(task[n] = "done")

\* Everything on its way to the server, and to the client.
Upstream == Contents(outbox) \cup Contents(c2s) \cup Contents(inbound)
Downstream == Contents(outbound) \cup Contents(s2c)

\* A request on its way is the caller's, and a response its task's.
OwnMessages ==
    /\ \A m \in Upstream : m.kind = "request" => m.body = method[m.id]
    /\ \A m \in Downstream : m.kind = "response" => m.body = result[m.id]

\* A task serves the method its caller asked for, and what is delivered to the
\* caller is what that task computed.
OwnResults ==
    \A n \in CallIds :
        /\ task[n] # "none" => tmethod[n] = method[n]
        /\ reply[n] # "none" => task[n] = "done" /\ reply[n] = result[n]
        /\ outcome[n] \in Results => task[n] = "done" /\ outcome[n] = result[n]

\* An elicitation id is used for one form, a form for one handler, a handler
\* for one reply; a form about to be sent is registered and nobody knows it.
AskedOnce ==
    /\ \A e \in ElicitIds :
          /\ Forms(e) + One(handler[e] # "none") <= One(e < sNextId)
          /\ FormReplies(e) <= One(handler[e] = "done")
    /\ \A n \in CallIds : task[n] = "registered" =>
          /\ CurrentId(n) \in sPending
          /\ Forms(CurrentId(n)) = 0 /\ handler[CurrentId(n)] = "none"

\* No two forms, of one workflow or of two, share an id.
OwnForms ==
    \A n \in CallIds :
        /\ task[n] = "none" => asked[n] = <<>>
        /\ \A i \in DOMAIN asked[n] :
              /\ asked[n][i] < sNextId
              /\ \A k \in CallIds : \A j \in DOMAIN asked[k] :
                    asked[n][i] = asked[k][j] => n = k /\ i = j

\* An answer is final once given, and a reply, on its way or delivered, is it.
OwnAnswers ==
    /\ \A e \in ElicitIds :
          /\ handler[e] \in {"none", "asking"} => answer[e] = "none"
          /\ sReply[e] # "none" => sReply[e] = answer[e]
    /\ \A m \in Upstream : m.kind = "response" => m.body = answer[m.id]

\* The user accepted the i-th form of workflow n.
Consented(n, i) == Accepts(answer[asked[n][i]])

\* A workflow asks at most its number of forms, and asks the next one only if
\* the user accepted those before.
Progress ==
    \A n \in CallIds :
        /\ task[n] # "none" => Len(asked[n]) <= Rounds(tmethod[n])
        /\ task[n] \in {"none", "running", "registered", "awaiting"} => result[n] = "none"
        /\ task[n] = "running" => \A i \in DOMAIN asked[n] : Consented(n, i)
        /\ task[n] \in {"registered", "awaiting"} => \A i \in 1..(Len(asked[n]) - 1) : Consented(n, i)

\* A result is recorded together with the audit entry that says the same.
Audited ==
    \A n \in CallIds :
        /\ result[n] = "confirmed" => audit[n] = "ok"
        /\ result[n] \in {"declined", "cancelled", "mismatch"} => audit[n] \in {"declined", "denied"}

-----------------------------------------------------------------------------
(***************************************************************************)
(* What a step does to the messages on their way.  Up is towards the       *)
(* server: outbox, c2s and inbound.                                        *)
(***************************************************************************)
UpGains(x) ==
    /\ \A n \in CallIds : Requests(n)' = Requests(n) + One(x.kind = "request" /\ x.id = n)
    /\ \A e \in ElicitIds :
          FormReplies(e)' = FormReplies(e) + One(x.kind = "response" /\ x.id = e)
    /\ Upstream' = Upstream \cup {x}

UpLoses(x) ==
    /\ \A n \in CallIds :
          /\ Requests(n)' \in Nat
          /\ Requests(n) = Requests(n)' + One(x.kind = "request" /\ x.id = n)
    /\ \A e \in ElicitIds :
          /\ FormReplies(e)' \in Nat
          /\ FormReplies(e) = FormReplies(e)' + One(x.kind = "response" /\ x.id = e)
    /\ x \in Upstream
    /\ Upstream' \subseteq Upstream

UpKeeps ==
    /\ \A n \in CallIds : Requests(n)' = Requests(n)
    /\ \A e \in ElicitIds : FormReplies(e)' = FormReplies(e)
    /\ Upstream' \subseteq Upstream

UpDrops ==
    /\ \A n \in CallIds : Requests(n)' \in 0..Requests(n)
    /\ \A e \in ElicitIds : FormReplies(e)' \in 0..FormReplies(e)
    /\ Upstream' \subseteq Upstream

DownGains(x) ==
    /\ \A n \in CallIds : Responses(n)' = Responses(n) + One(x.kind = "response" /\ x.id = n)
    /\ \A e \in ElicitIds : Forms(e)' = Forms(e) + One(x.kind = "request" /\ x.id = e)
    /\ Downstream' = Downstream \cup {x}

DownLoses(x) ==
    /\ \A n \in CallIds :
          /\ Responses(n)' \in Nat
          /\ Responses(n) = Responses(n)' + One(x.kind = "response" /\ x.id = n)
    /\ \A e \in ElicitIds :
          /\ Forms(e)' \in Nat
          /\ Forms(e) = Forms(e)' + One(x.kind = "request" /\ x.id = e)
    /\ x \in Downstream
    /\ Downstream' \subseteq Downstream

DownKeeps ==
    /\ \A n \in CallIds : Responses(n)' = Responses(n)
    /\ \A e \in ElicitIds : Forms(e)' = Forms(e)
    /\ Downstream' \subseteq Downstream

DownDrops ==
    /\ \A n \in CallIds : Responses(n)' \in 0..Responses(n)
    /\ \A e \in ElicitIds : Forms(e)' \in 0..Forms(e)
    /\ Downstream' \subseteq Downstream

\* What a queue holds after a message was appended or taken.
LEMMA QueueContents ==
    ASSUME NEW S, NEW q \in Seq(S)
    PROVE  /\ Contents(<<>>) = {}
           /\ Contents(q) \subseteq S
           /\ \A x \in S : Contents(Append(q, x)) = Contents(q) \cup {x}
           /\ q # <<>> => Head(q) \in Contents(q) /\ Contents(q) = Contents(Tail(q)) \cup {Head(q)}
  <1>1. Contents(<<>>) = {} /\ Contents(q) \subseteq S
    BY DEF Contents
  <1>2. ASSUME NEW x \in S PROVE Contents(Append(q, x)) = Contents(q) \cup {x}
    <2>1. /\ DOMAIN Append(q, x) = DOMAIN q \cup {Len(q) + 1}
          /\ \A j \in DOMAIN q : Append(q, x)[j] = q[j]
          /\ Append(q, x)[Len(q) + 1] = x
          /\ Len(q) + 1 \notin DOMAIN q
      OBVIOUS
    <2> QED
      BY <2>1 DEF Contents
  <1>3. ASSUME q # <<>>
        PROVE  Head(q) \in Contents(q) /\ Contents(q) = Contents(Tail(q)) \cup {Head(q)}
    <2>1. /\ DOMAIN q = 1..Len(q) /\ Len(q) \in Nat \ {0}
          /\ DOMAIN Tail(q) = 1..(Len(q) - 1)
          /\ \A j \in 1..(Len(q) - 1) : Tail(q)[j] = q[j + 1]
          /\ Head(q) = q[1]
      BY <1>3
    <2>2. Head(q) \in Contents(q)
      BY <2>1 DEF Contents
    <2>3. \A m \in Contents(Tail(q)) : m \in Contents(q)
      BY <2>1 DEF Contents
    <2>4. ASSUME NEW j \in DOMAIN q, j # 1 PROVE q[j] \in Contents(Tail(q))
      <3>1. j - 1 \in DOMAIN Tail(q) /\ Tail(q)[j - 1] = q[j]
        BY <2>1, <2>4
      <3> QED
        BY <3>1 DEF Contents
    <2>5. \A m \in Contents(q) : m \in Contents(Tail(q)) \cup {Head(q)}
      BY <2>1, <2>4 DEF Contents
    <2> QED
      BY <2>2, <2>3, <2>5
  <1> QED
    BY <1>1, <1>2, <1>3

\* The counts are numbers, and what is on its way is a message of its type.
LEMMA FlowTypes ==
    ASSUME TInv
    PROVE  /\ \A n \in CallIds : Requests(n) \in Nat /\ Responses(n) \in Nat
           /\ \A e \in ElicitIds : Forms(e) \in Nat /\ FormReplies(e) \in Nat
           /\ Upstream \subseteq ToServer /\ Downstream \subseteq ToClient
  <1>1. /\ outbox \in Seq(ToServer) /\ c2s \in Seq(ToServer) /\ inbound \in Seq(ToServer)
        /\ outbound \in Seq(ToClient) /\ s2c \in Seq(ToClient)
    BY DEF TInv, TypeOK, PipesTypeOK, ClientTypeOK, ServerTypeOK
  <1>2. \A k, i : /\ Copies(outbox, k, i) \in Nat /\ Copies(c2s, k, i) \in Nat
                  /\ Copies(inbound, k, i) \in Nat
                  /\ Copies(outbound, k, i) \in Nat /\ Copies(s2c, k, i) \in Nat
    BY <1>1, PlacesFinite
  <1>3. Upstream \subseteq ToServer /\ Downstream \subseteq ToClient
    BY <1>1, QueueContents DEF Upstream, Downstream
  <1> QED
    BY <1>2, <1>3 DEF Requests, Responses, Forms, FormReplies

\* Two queues of one direction differ from before by one message that went
\* from the head of one to the end of the other.
LEMMA Moved ==
    ASSUME NEW S, NEW p \in Seq(S), NEW q \in Seq(S), p # <<>>
    PROVE  /\ \A k, i : Copies(Tail(p), k, i) + Copies(Append(q, Head(p)), k, i)
                          = Copies(p, k, i) + Copies(q, k, i)
           /\ Contents(Tail(p)) \cup Contents(Append(q, Head(p))) = Contents(p) \cup Contents(q)
  <1>1. Head(p) \in S /\ Tail(p) \in Seq(S)
    OBVIOUS
  <1>2. ASSUME NEW k, NEW i
        PROVE  Copies(Tail(p), k, i) + Copies(Append(q, Head(p)), k, i)
                 = Copies(p, k, i) + Copies(q, k, i)
    <2>1. Copies(p, k, i) = Copies(Tail(p), k, i) + One(Head(p).kind = k /\ Head(p).id = i)
      BY TailCopies
    <2>2. Copies(Append(q, Head(p)), k, i) = Copies(q, k, i) + One(Head(p).kind = k /\ Head(p).id = i)
      BY <1>1, AppendCopies
    <2>3. Copies(p, k, i) \in Nat /\ Copies(q, k, i) \in Nat /\ Copies(Tail(p), k, i) \in Nat
      BY <1>1, PlacesFinite
    <2> QED
      BY <2>1, <2>2, <2>3 DEF One
  <1> QED
    BY <1>1, <1>2, QueueContents

\* What each kind of step does to the messages on their way to the server.
LEMMA UpFlow ==
    ASSUME TInv
    PROVE  /\ \A x \in ToServer :
                outbox' = Append(outbox, x) /\ UNCHANGED <<c2s, inbound>> => UpGains(x)
           /\ inbound # <<>> /\ inbound' = Tail(inbound) /\ UNCHANGED <<outbox, c2s>>
                => UpLoses(Head(inbound))
           /\ WriterSend /\ UNCHANGED serverVars => UpKeeps
           /\ SReaderForward /\ UNCHANGED clientVars => UpKeeps
           /\ UNCHANGED <<outbox, c2s, inbound>> => UpKeeps
           /\ /\ outbox' \in {outbox, <<>>} /\ c2s' \in {c2s, <<>>}
              /\ inbound' \in {inbound, <<>>}
              => UpDrops
  <1> USE DEF Requests, FormReplies, Upstream
  <1>1. outbox \in Seq(ToServer) /\ c2s \in Seq(ToServer) /\ inbound \in Seq(ToServer)
    BY DEF TInv, TypeOK, PipesTypeOK, ClientTypeOK, ServerTypeOK
  <1>2. \A k, i : Copies(outbox, k, i) \in Nat /\ Copies(c2s, k, i) \in Nat
                    /\ Copies(inbound, k, i) \in Nat
    BY <1>1, PlacesFinite
  <1>3. ASSUME NEW x \in ToServer, outbox' = Append(outbox, x), UNCHANGED <<c2s, inbound>>
        PROVE  UpGains(x)
    <2>1. \A k, i : Copies(outbox', k, i) = Copies(outbox, k, i) + One(x.kind = k /\ x.id = i)
      BY <1>1, <1>3, AppendCopies
    <2>2. Contents(outbox') = Contents(outbox) \cup {x}
      BY <1>1, <1>3, QueueContents
    <2> QED
      BY <1>2, <1>3, <2>1, <2>2 DEF UpGains, One
  <1>4. ASSUME inbound # <<>>, inbound' = Tail(inbound), UNCHANGED <<outbox, c2s>>
        PROVE  UpLoses(Head(inbound))
    <2> DEFINE x == Head(inbound)
    <2>0. inbound' \in Seq(ToServer)
      BY <1>1, <1>4
    <2>1. \A k, i : /\ Copies(inbound, k, i) = Copies(inbound', k, i) + One(x.kind = k /\ x.id = i)
                    /\ Copies(inbound', k, i) \in Nat
      <3>1. \A k, i : Copies(inbound', k, i) \in Nat
        BY <2>0, PlacesFinite
      <3>2. \A k, i : Copies(inbound, k, i) = Copies(Tail(inbound), k, i) + One(x.kind = k /\ x.id = i)
        BY <1>1, <1>4, TailCopies
      <3> QED
        BY <1>4, <3>1, <3>2
    <2>2. x \in Contents(inbound) /\ Contents(inbound') \subseteq Contents(inbound)
      BY <1>1, <1>4, QueueContents
    <2> HIDE DEF x
    <2>3. ASSUME NEW k, NEW i
          PROVE  LET sum == Copies(outbox, k, i) + Copies(c2s, k, i) + Copies(inbound', k, i)
                 IN  /\ sum \in Nat
                     /\ Copies(outbox, k, i) + Copies(c2s, k, i) + Copies(inbound, k, i)
                          = sum + One(x.kind = k /\ x.id = i)
      BY <1>2, <2>1 DEF One
    <2>4. UpLoses(x)
      BY <1>4, <2>2, <2>3 DEF UpLoses
    <2> QED
      BY <2>4 DEF x
  <1>5. ASSUME WriterSend, UNCHANGED serverVars PROVE UpKeeps
    <2>1. /\ outbox # <<>> /\ outbox' = Tail(outbox) /\ c2s' = Append(c2s, Head(outbox))
          /\ inbound' = inbound
      BY <1>5 DEF WriterSend, serverVars
    <2>2. /\ \A k, i : Copies(outbox', k, i) + Copies(c2s', k, i) = Copies(outbox, k, i) + Copies(c2s, k, i)
          /\ Contents(outbox') \cup Contents(c2s') = Contents(outbox) \cup Contents(c2s)
      BY <1>1, <2>1, Moved
    <2> QED
      BY <1>2, <2>1, <2>2 DEF UpKeeps
  <1>6. ASSUME SReaderForward, UNCHANGED clientVars PROVE UpKeeps
    <2>1. /\ c2s # <<>> /\ c2s' = Tail(c2s) /\ inbound' = Append(inbound, Head(c2s))
          /\ outbox' = outbox
      BY <1>6 DEF SReaderForward, clientVars
    <2>2. /\ \A k, i : Copies(c2s', k, i) + Copies(inbound', k, i) = Copies(c2s, k, i) + Copies(inbound, k, i)
          /\ Contents(c2s') \cup Contents(inbound') = Contents(c2s) \cup Contents(inbound)
      BY <1>1, <2>1, Moved
    <2>3. c2s' \in Seq(ToServer) /\ inbound' \in Seq(ToServer)
      BY <1>1, <2>1
    <2>4. \A k, i : Copies(c2s', k, i) \in Nat /\ Copies(inbound', k, i) \in Nat
      BY <2>3, PlacesFinite
    <2>5. ASSUME NEW k, NEW i
          PROVE  Copies(outbox', k, i) + Copies(c2s', k, i) + Copies(inbound', k, i)
                   = Copies(outbox, k, i) + Copies(c2s, k, i) + Copies(inbound, k, i)
      <3>1. Copies(outbox', k, i) = Copies(outbox, k, i)
        BY <2>1
      <3>2. /\ Copies(c2s', k, i) + Copies(inbound', k, i) = Copies(c2s, k, i) + Copies(inbound, k, i)
            /\ Copies(c2s', k, i) \in Nat /\ Copies(inbound', k, i) \in Nat
        BY <2>2, <2>4
      <3>3. /\ Copies(outbox, k, i) \in Nat /\ Copies(c2s, k, i) \in Nat
            /\ Copies(inbound, k, i) \in Nat
        BY <1>2
      <3> QED
        BY ONLY <3>1, <3>2, <3>3
    <2> QED
      BY <2>1, <2>2, <2>5 DEF UpKeeps
  <1>7. ASSUME UNCHANGED <<outbox, c2s, inbound>> PROVE UpKeeps
    BY <1>2, <1>7 DEF UpKeeps
  <1>8. ASSUME outbox' \in {outbox, <<>>}, c2s' \in {c2s, <<>>}, inbound' \in {inbound, <<>>}
        PROVE  UpDrops
    <2>1. \A k, i : Copies(<<>>, k, i) = 0
      BY <1>1, NoCopies
    <2>2. Contents(<<>>) = {}
      BY <1>1, QueueContents
    <2> QED
      BY <1>2, <1>8, <2>1, <2>2, SMTT(30) DEF UpDrops
  <1> QED
    BY <1>3, <1>4, <1>5, <1>6, <1>7, <1>8

\* The same for the messages on their way to the client.
LEMMA DownFlow ==
    ASSUME TInv
    PROVE  /\ \A x \in ToClient :
                outbound' = Append(outbound, x) /\ UNCHANGED s2c => DownGains(x)
           /\ s2c # <<>> /\ s2c' = Tail(s2c) /\ UNCHANGED outbound => DownLoses(Head(s2c))
           /\ SWriterSend => DownKeeps
           /\ UNCHANGED <<outbound, s2c>> => DownKeeps
           /\ outbound' \in {outbound, <<>>} /\ s2c' \in {s2c, <<>>} => DownDrops
  <1> USE DEF Responses, Forms, Downstream
  <1>1. outbound \in Seq(ToClient) /\ s2c \in Seq(ToClient)
    BY DEF TInv, TypeOK, PipesTypeOK, ServerTypeOK
  <1>2. \A k, i : Copies(outbound, k, i) \in Nat /\ Copies(s2c, k, i) \in Nat
    BY <1>1, PlacesFinite
  <1>3. ASSUME NEW x \in ToClient, outbound' = Append(outbound, x), UNCHANGED s2c
        PROVE  DownGains(x)
    <2>1. \A k, i : Copies(outbound', k, i) = Copies(outbound, k, i) + One(x.kind = k /\ x.id = i)
      BY <1>1, <1>3, AppendCopies
    <2>2. Contents(outbound') = Contents(outbound) \cup {x}
      BY <1>1, <1>3, QueueContents
    <2> QED
      BY <1>2, <1>3, <2>1, <2>2 DEF DownGains, One
  <1>4. ASSUME s2c # <<>>, s2c' = Tail(s2c), UNCHANGED outbound
        PROVE  DownLoses(Head(s2c))
    <2> DEFINE x == Head(s2c)
    <2>0. s2c' \in Seq(ToClient)
      BY <1>1, <1>4
    <2>1. \A k, i : /\ Copies(s2c, k, i) = Copies(s2c', k, i) + One(x.kind = k /\ x.id = i)
                    /\ Copies(s2c', k, i) \in Nat
      <3>1. \A k, i : Copies(s2c', k, i) \in Nat
        BY <2>0, PlacesFinite
      <3>2. \A k, i : Copies(s2c, k, i) = Copies(Tail(s2c), k, i) + One(x.kind = k /\ x.id = i)
        BY <1>1, <1>4, TailCopies
      <3> QED
        BY <1>4, <3>1, <3>2
    <2>2. x \in Contents(s2c) /\ Contents(s2c') \subseteq Contents(s2c)
      BY <1>1, <1>4, QueueContents
    <2> HIDE DEF x
    <2>3. DownLoses(x)
      BY <1>2, <1>4, <2>1, <2>2, SMTT(30) DEF DownLoses, One
    <2> QED
      BY <2>3 DEF x
  <1>5. ASSUME SWriterSend PROVE DownKeeps
    <2>1. outbound # <<>> /\ outbound' = Tail(outbound) /\ s2c' = Append(s2c, Head(outbound))
      BY <1>5 DEF SWriterSend
    <2>2. /\ \A k, i : Copies(outbound', k, i) + Copies(s2c', k, i) = Copies(outbound, k, i) + Copies(s2c, k, i)
          /\ Contents(outbound') \cup Contents(s2c') = Contents(outbound) \cup Contents(s2c)
      BY <1>1, <2>1, Moved
    <2> QED
      BY <1>2, <2>1, <2>2 DEF DownKeeps
  <1>6. ASSUME UNCHANGED <<outbound, s2c>> PROVE DownKeeps
    BY <1>2, <1>6 DEF DownKeeps
  <1>7. ASSUME outbound' \in {outbound, <<>>}, s2c' \in {s2c, <<>>} PROVE DownDrops
    <2>1. \A k, i : Copies(<<>>, k, i) = 0
      BY <1>1, NoCopies
    <2>2. Contents(<<>>) = {}
      BY <1>1, QueueContents
    <2> QED
      BY <1>2, <1>7, <2>1, <2>2 DEF DownDrops
  <1> QED
    BY <1>3, <1>4, <1>5, <1>6, <1>7

-----------------------------------------------------------------------------
(***************************************************************************)
(* Calls.                                                                  *)
(***************************************************************************)
RInv == ServedOnce /\ OwnMessages /\ OwnResults

LEMMA EmptyFlow ==
    ASSUME Init
    PROVE  /\ \A n : Requests(n) = 0 /\ Responses(n) = 0
           /\ \A e : Forms(e) = 0 /\ FormReplies(e) = 0
           /\ Upstream = {} /\ Downstream = {}
  <1>1. \A k, i : Copies(<<>>, k, i) = 0
    <2>1. <<>> \in Seq({})
      OBVIOUS
    <2> QED
      BY <2>1, NoCopies
  <1>2. Contents(<<>>) = {}
    BY DEF Contents
  <1>3. outbox = <<>> /\ c2s = <<>> /\ inbound = <<>> /\ outbound = <<>> /\ s2c = <<>>
    BY DEF Init, PipesInit, ClientInit, ServerInit
  <1> QED
    BY <1>1, <1>2, <1>3 DEF Requests, Responses, Forms, FormReplies, Upstream, Downstream

LEMMA CallsInit == Init => RInv
  BY EmptyFlow, BoundsAssumption DEF Init, PipesInit, ClientInit, ServerInit, RInv, ServedOnce, OwnMessages,
     OwnResults, One, Results, CallIds

\* A step that leaves the calls and their tasks alone, and neither sends a
\* request up nor a response down, leaves the invariant.
LEMMA CallsQuiet ==
    ASSUME TInv, RInv,
           \A n \in CallIds : Requests(n)' \in 0..Requests(n) /\ Responses(n)' \in 0..Responses(n),
           \A m \in Upstream' : m.kind = "request" => m \in Upstream,
           \A m \in Downstream' : m.kind = "response" => m \in Downstream,
           UNCHANGED <<nextId, call, method, task, tmethod, result, reply, outcome>>
    PROVE  RInv'
  <1>1. \A n \in CallIds : Requests(n) \in Nat /\ Responses(n) \in Nat
    BY FlowTypes
  <1>2. ServedOnce'
    BY <1>1 DEF RInv, ServedOnce, One
  <1>3. OwnMessages'
    BY DEF RInv, OwnMessages
  <1>4. OwnResults'
    BY DEF RInv, OwnResults
  <1> QED
    BY <1>2, <1>3, <1>4 DEF RInv

\* A message on its way is counted.
LEMMA Counted ==
    ASSUME TInv
    PROVE  /\ \A m \in Upstream :
                /\ m.kind = "request" => Requests(m.id) >= 1
                /\ m.kind = "response" => FormReplies(m.id) >= 1
           /\ \A m \in Downstream :
                /\ m.kind = "response" => Responses(m.id) >= 1
                /\ m.kind = "request" => Forms(m.id) >= 1
  <1>1. /\ outbox \in Seq(ToServer) /\ c2s \in Seq(ToServer) /\ inbound \in Seq(ToServer)
        /\ outbound \in Seq(ToClient) /\ s2c \in Seq(ToClient)
    BY DEF TInv, TypeOK, PipesTypeOK, ClientTypeOK, ServerTypeOK
  <1>2. \A k, i : /\ Copies(outbox, k, i) \in Nat /\ Copies(c2s, k, i) \in Nat
                  /\ Copies(inbound, k, i) \in Nat
                  /\ Copies(outbound, k, i) \in Nat /\ Copies(s2c, k, i) \in Nat
    BY <1>1, PlacesFinite
  <1>3. ASSUME NEW S, NEW q \in Seq(S), NEW m \in Contents(q)
        PROVE  Copies(q, m.kind, m.id) # 0
    BY NoCopies DEF Contents
  <1>4. /\ \A m \in Contents(outbox) : Copies(outbox, m.kind, m.id) # 0
        /\ \A m \in Contents(c2s) : Copies(c2s, m.kind, m.id) # 0
        /\ \A m \in Contents(inbound) : Copies(inbound, m.kind, m.id) # 0
        /\ \A m \in Contents(outbound) : Copies(outbound, m.kind, m.id) # 0
        /\ \A m \in Contents(s2c) : Copies(s2c, m.kind, m.id) # 0
    BY <1>1, <1>3
  <1> QED
    BY <1>2, <1>4 DEF Requests, Responses, Forms, FormReplies, Upstream, Downstream

LEMMA CallsBegin ==
    ASSUME TInv, RInv, NEW m \in Methods, CallAllocate(m), UNCHANGED serverVars
    PROVE  RInv'
  <1>1. UpKeeps /\ DownKeeps
    BY UpFlow, DownFlow DEF CallAllocate, pipeVars, serverVars
  <1>2. nextId \in CallIds /\ call[nextId] = "idle" /\ nextId \in Nat
    BY BoundsAssumption DEF CallAllocate, RInv, ServedOnce, CallIds, TInv, TypeOK, ClientTypeOK
  <1>3. Requests(nextId) = 0 /\ task[nextId] = "none"
    BY <1>2, FlowTypes DEF RInv, ServedOnce, One
  <1>4. \A x \in Upstream : x.kind = "request" => x.id # nextId
    BY <1>3, Counted
  <1>5. /\ nextId' = nextId + 1
        /\ method' = [method EXCEPT ![nextId] = m]
        /\ call' = [call EXCEPT ![nextId] = "allocated"]
        /\ UNCHANGED <<outcome, reply, task, tmethod, result>>
    BY DEF CallAllocate, serverVars
  <1>6. method \in [CallIds -> Methods \cup {"none"}] /\ call \in [CallIds -> CallStates]
    BY DEF TInv, TypeOK, ClientTypeOK
  <1>7. ServedOnce'
    BY <1>1, <1>2, <1>5, <1>6 DEF RInv, ServedOnce, One, UpKeeps, DownKeeps, CallIds
  <1>8. OwnMessages'
    <2>1. \A x \in Upstream : x.kind = "request" => x.id \in CallIds
      BY FlowTypes, ToServerFields
    <2> QED
      BY <1>1, <1>4, <1>5, <1>6, <2>1 DEF RInv, OwnMessages, UpKeeps, DownKeeps
  <1>9. OwnResults'
    BY <1>2, <1>3, <1>5, <1>6 DEF RInv, OwnResults
  <1> QED
    BY <1>7, <1>8, <1>9 DEF RInv

LEMMA CallsCall ==
    ASSUME TInv, RInv, NEW n \in CallIds, Calling(n)
    PROVE  RInv'
  <1>0. UNCHANGED serverVars
    BY DEF Calling
  <1> USE DEF TInv, TypeOK, ClientTypeOK
  <1>1. CASE CallRegister(n)
    <2>1. UpKeeps /\ DownKeeps
      BY <1>0, <1>1, UpFlow, DownFlow DEF CallRegister, pipeVars, serverVars
    <2>2. /\ call[n] = "allocated" /\ call' = [call EXCEPT ![n] = "registered"]
          /\ UNCHANGED <<nextId, method, outcome, reply, task, tmethod, result>>
      BY <1>0, <1>1 DEF CallRegister, serverVars
    <2> QED
      BY <2>1, <2>2 DEF RInv, ServedOnce, OwnMessages, OwnResults, One, UpKeeps, DownKeeps
  <1>2. CASE CallSend(n)
    <2>1. /\ call[n] = "registered" /\ DownKeeps
          /\ UNCHANGED <<nextId, method, reply, task, tmethod, result>>
      BY <1>0, <1>2, DownFlow DEF CallSend, pipeVars, serverVars
    <2>2. Requests(n) = 0 /\ task[n] = "none" /\ Requests(n) \in Nat
      <3>1. Requests(n) \in Nat
        BY FlowTypes
      <3>2. Requests(n) + One(task[n] # "none") <= 0
        BY <2>1 DEF RInv, ServedOnce, One
      <3> QED
        BY <3>1, <3>2 DEF One
    <2>3. CASE outbox' = Append(outbox, CallRequest(n)) /\ call' = [call EXCEPT ![n] = "waiting"]
                 /\ UNCHANGED outcome
      <3>1. CallRequest(n) \in ToServer
        BY <2>1 DEF CallRequest, ToServer, Defined
      <3>2. UpGains(CallRequest(n))
        BY <1>0, <1>2, <2>3, <3>1, UpFlow DEF CallSend, pipeVars, serverVars
      <3>3. ServedOnce'
        BY <2>1, <2>2, <2>3, <3>2, FlowTypes
           DEF RInv, ServedOnce, UpGains, DownKeeps, CallRequest, One
      <3>4. OwnMessages'
        BY <2>1, <2>3, <3>2 DEF RInv, OwnMessages, UpGains, DownKeeps, CallRequest
      <3>5. OwnResults'
        BY <2>1, <2>3 DEF RInv, OwnResults
      <3> QED
        BY <3>3, <3>4, <3>5 DEF RInv
    <2>4. CASE UNCHANGED outbox /\ call' = [call EXCEPT ![n] = "done"]
                 /\ outcome' = [outcome EXCEPT ![n] = "closed"]
      <3>1. UpKeeps
        BY <1>0, <1>2, <2>4, UpFlow DEF CallSend, pipeVars, serverVars
      <3>2. ServedOnce' /\ OwnMessages'
        BY <2>1, <2>2, <2>4, <3>1, FlowTypes
           DEF RInv, ServedOnce, OwnMessages, UpKeeps, DownKeeps, One
      <3>3. OwnResults'
        BY <2>1, <2>4 DEF RInv, OwnResults, Results
      <3> QED
        BY <3>2, <3>3 DEF RInv
    <2> QED
      BY <1>2, <2>3, <2>4 DEF CallSend
  <1>3. CASE CallReturn(n)
    <2>1. UpKeeps /\ DownKeeps
      BY <1>0, <1>3, UpFlow, DownFlow DEF CallReturn, pipeVars, serverVars
    <2>2. /\ call[n] = "waiting" /\ call' \in [CallIds -> CallStates]
          /\ call'[n] \in {"notifying", "done"}
          /\ \A k \in CallIds \ {n} : call'[k] = call[k]
          /\ outcome' = [outcome EXCEPT ![n] = IF reply[n] = "none" THEN "closed" ELSE reply[n]]
          /\ UNCHANGED <<nextId, method, reply, task, tmethod, result>>
      BY <1>0, <1>3 DEF CallReturn, serverVars, CallStates
    <2>3. ServedOnce' /\ OwnMessages'
      BY <2>1, <2>2, FlowTypes DEF RInv, ServedOnce, OwnMessages, UpKeeps, DownKeeps, One
    <2>4. OwnResults'
      BY <2>2 DEF RInv, OwnResults, Results
    <2> QED
      BY <2>3, <2>4 DEF RInv
  <1>4. CASE CallNotify(n)
    <2> DEFINE msg == [kind |-> "notification", id |-> 0, body |-> "initialized"]
    <2>1. DownKeeps /\ (UpGains(msg) \/ UpKeeps)
      <3>1. msg \in ToServer
        BY DEF ToServer
      <3> QED
        BY <1>0, <1>4, <3>1, UpFlow, DownFlow DEF CallNotify, pipeVars, serverVars
    <2>2. /\ call[n] = "notifying" /\ call' = [call EXCEPT ![n] = "done"]
          /\ \/ UNCHANGED outcome
             \/ outcome' = [outcome EXCEPT ![n] = "closed"]
          /\ UNCHANGED <<nextId, method, reply, task, tmethod, result>>
      BY <1>0, <1>4 DEF CallNotify, serverVars
    <2>3. ServedOnce' /\ OwnMessages'
      BY <2>1, <2>2, FlowTypes
         DEF RInv, ServedOnce, OwnMessages, UpKeeps, UpGains, DownKeeps, One
    <2>4. OwnResults'
      BY <2>2 DEF RInv, OwnResults, Results
    <2> QED
      BY <2>3, <2>4 DEF RInv
  <1> QED
    BY <1>1, <1>2, <1>3, <1>4 DEF Calling, CallStep

LEMMA CallsHandler ==
    ASSUME TInv, RInv, NEW e \in ElicitIds, Answering(e) \/ Replying(e)
    PROVE  RInv'
  <1>0. UNCHANGED serverVars
    BY DEF Answering, Replying
  <1> DEFINE msg == [kind |-> "response", id |-> e, body |-> answer[e]]
  <1>1. DownKeeps /\ (UpKeeps \/ UpGains(msg))
    <2>1. ASSUME NEW a \in UserAnswers, HandlerAnswer(e, a) PROVE UpKeeps /\ DownKeeps
      BY <1>0, <2>1, UpFlow, DownFlow DEF HandlerAnswer, pipeVars, serverVars
    <2>2. ASSUME HandlerSend(e) PROVE DownKeeps /\ (UpKeeps \/ UpGains(msg))
      <3>1. msg \in ToServer
        BY <2>2 DEF HandlerSend, TInv, Defined, ToServer
      <3> QED
        BY <1>0, <2>2, <3>1, UpFlow, DownFlow DEF HandlerSend, pipeVars, serverVars
    <2> QED
      BY <2>1, <2>2 DEF Answering, Replying
  <1>2. UNCHANGED <<nextId, call, method, task, tmethod, result, reply, outcome>>
    BY <1>0 DEF Answering, Replying, HandlerAnswer, HandlerSend, serverVars
  <1>3. \A n \in CallIds : Requests(n)' = Requests(n) /\ Responses(n)' = Responses(n)
    BY <1>1, FlowTypes DEF UpKeeps, UpGains, DownKeeps, One
  <1>4. \A m \in Upstream' : m.kind = "request" => m \in Upstream
    BY <1>1 DEF UpKeeps, UpGains
  <1>5. Downstream' \subseteq Downstream
    BY <1>1 DEF DownKeeps
  <1> QED
    BY <1>2, <1>3, <1>4, <1>5, FlowTypes, CallsQuiet

\* The steps of the client's tasks and of its end that complete no call.
LEMMA CallsClientQuiet ==
    ASSUME TInv, RInv, UNCHANGED serverVars,
           \/ ReaderRequest \/ ReaderEof \/ ReaderDrain
           \/ WriterSend \/ WriterStop \/ ClientDrop \/ ClientExit
    PROVE  RInv'
  <1>1. UpKeeps \/ UpDrops
    BY UpFlow DEF ReaderRequest, ReaderEof, ReaderDrain, WriterStop, ClientDrop, ClientExit,
       serverVars, clientVars, pipeVars
  <1>2. DownKeeps \/ DownDrops \/ DownLoses(Head(s2c))
    BY DownFlow DEF ReaderRequest, ReaderEof, ReaderDrain, WriterSend, WriterStop, ClientDrop,
       ClientExit, serverVars, clientVars, pipeVars
  <1>3. UNCHANGED <<nextId, call, method, task, tmethod, result, reply, outcome>>
    BY DEF ReaderRequest, ReaderEof, ReaderDrain, WriterSend, WriterStop, ClientDrop,
       ClientExit, serverVars, clientVars, pipeVars
  <1>4. \A n \in CallIds : Requests(n)' \in 0..Requests(n) /\ Responses(n)' \in 0..Responses(n)
    BY <1>1, <1>2, FlowTypes DEF UpKeeps, UpDrops, DownKeeps, DownDrops, DownLoses, One
  <1>5. Upstream' \subseteq Upstream /\ Downstream' \subseteq Downstream
    BY <1>1, <1>2 DEF UpKeeps, UpDrops, DownKeeps, DownDrops, DownLoses
  <1> QED
    BY <1>3, <1>4, <1>5, CallsQuiet

LEMMA CallsReaderResponse ==
    ASSUME TInv, RInv, ReaderResponse, UNCHANGED serverVars
    PROVE  RInv'
  <1> DEFINE r == Head(s2c)
  <1>1. UpKeeps /\ DownLoses(r)
    BY UpFlow, DownFlow DEF ReaderResponse, serverVars
  <1>2. r \in ToClient /\ r.kind = "response" /\ r.id \in CallIds /\ r.body \in Results
    BY <1>1, FlowTypes, ToClientFields DEF ReaderResponse, DownLoses
  <1>3. r.body = result[r.id] /\ task[r.id] = "done"
    <2>1. Responses(r.id) >= 1 /\ Responses(r.id) \in Nat
      BY <1>1, <1>2, Counted, FlowTypes DEF DownLoses
    <2> QED
      BY <1>1, <1>2, <2>1 DEF RInv, ServedOnce, OwnMessages, DownLoses, One
  <1>4. /\ reply' \in {reply, [reply EXCEPT ![r.id] = r.body]}
        /\ UNCHANGED <<nextId, call, method, task, tmethod, result, outcome>>
    BY DEF ReaderResponse, serverVars
  <1>5. reply \in [CallIds -> Results \cup {"none"}]
    BY DEF TInv, TypeOK, ClientTypeOK
  <1> HIDE DEF r
  <1>6. ServedOnce' /\ OwnMessages'
    BY <1>1, <1>4, FlowTypes DEF RInv, ServedOnce, OwnMessages, UpKeeps, DownLoses, One
  <1>7. OwnResults'
    BY <1>2, <1>3, <1>4, <1>5 DEF RInv, OwnResults
  <1> QED
    BY <1>6, <1>7 DEF RInv

\* The steps of the server's tasks and of its end that start no task.
LEMMA CallsServerQuiet ==
    ASSUME TInv, RInv, UNCHANGED clientVars,
           \/ MainResponse \/ MainNotification \/ MainClose \/ MainReturn
           \/ SReaderForward \/ SReaderEof \/ SWriterSend \/ SWriterStop \/ ServerExit
    PROVE  RInv'
  <1>1. UpKeeps \/ UpDrops \/ UpLoses(Head(inbound))
    BY UpFlow DEF MainResponse, MainNotification, MainClose, MainReturn, SReaderEof,
       SWriterSend, SWriterStop, ServerExit, serverVars, clientVars, pipeVars
  <1>2. DownKeeps \/ DownDrops
    BY DownFlow DEF MainResponse, MainNotification, MainClose, MainReturn, SReaderForward,
       SReaderEof, SWriterStop, ServerExit, serverVars, clientVars, pipeVars
  <1>3. UNCHANGED <<nextId, call, method, task, tmethod, result, reply, outcome>>
    BY DEF MainResponse, MainNotification, MainClose, MainReturn, SReaderForward,
       SReaderEof, SWriterSend, SWriterStop, ServerExit, serverVars, clientVars, pipeVars
  <1>4. \A n \in CallIds : Requests(n)' \in 0..Requests(n) /\ Responses(n)' \in 0..Responses(n)
    BY <1>1, <1>2, FlowTypes DEF UpKeeps, UpDrops, UpLoses, DownKeeps, DownDrops, One
  <1>5. Upstream' \subseteq Upstream /\ Downstream' \subseteq Downstream
    BY <1>1, <1>2 DEF UpKeeps, UpDrops, UpLoses, DownKeeps, DownDrops
  <1> QED
    BY <1>3, <1>4, <1>5, CallsQuiet

LEMMA CallsMainRequest ==
    ASSUME TInv, RInv, MainRequest, UNCHANGED clientVars
    PROVE  RInv'
  <1> DEFINE req == Head(inbound)
  <1>1. UpLoses(req) /\ DownKeeps
    BY UpFlow, DownFlow DEF MainRequest, pipeVars, clientVars
  <1>2. req.kind = "request" /\ req.id \in CallIds /\ req.body \in Methods
    BY <1>1, FlowTypes, ToServerFields DEF MainRequest, UpLoses
  <1>3. req.body = method[req.id] /\ task[req.id] = "none" /\ Responses(req.id) = 0
    <2>1. Requests(req.id) >= 1 /\ Requests(req.id) \in Nat /\ Responses(req.id) \in Nat
      BY <1>1, <1>2, Counted, FlowTypes DEF UpLoses
    <2>2. task[req.id] = "none"
      BY <1>2, <2>1 DEF RInv, ServedOnce, One
    <2> QED
      BY <1>1, <1>2, <2>1, <2>2 DEF RInv, ServedOnce, OwnMessages, UpLoses, One
  <1>4. /\ task' = [task EXCEPT ![req.id] = "running"]
        /\ tmethod' = [tmethod EXCEPT ![req.id] = req.body]
        /\ result' = [result EXCEPT ![req.id] = "none"]
        /\ UNCHANGED <<nextId, call, method, reply, outcome>>
    BY DEF MainRequest, clientVars
  <1>5. /\ task \in [CallIds -> TaskStates] /\ tmethod \in [CallIds -> Methods \cup {"none"}]
        /\ result \in [CallIds -> Results \cup {"none"}]
    BY DEF TInv, TypeOK, ServerTypeOK
  <1>5a. \A m \in Downstream : m.kind = "response" => m.id # req.id /\ m.id \in CallIds
    BY <1>3, Counted, FlowTypes, ToClientFields
  <1> HIDE DEF req
  <1>6. ServedOnce'
    BY <1>1, <1>2, <1>3, <1>4, <1>5, FlowTypes DEF RInv, ServedOnce, UpLoses, DownKeeps, One
  <1>7. OwnMessages'
    BY <1>1, <1>4, <1>5, <1>5a DEF RInv, OwnMessages, UpLoses, DownKeeps
  <1>8. OwnResults'
    BY <1>2, <1>3, <1>4, <1>5 DEF RInv, OwnResults
  <1> QED
    BY <1>6, <1>7, <1>8 DEF RInv

\* A step of a task that is not yet done, whatever it makes of its result.
LEMMA CallsBusy ==
    ASSUME TInv, RInv, NEW n \in CallIds, NEW t, NEW v,
           task[n] \notin {"none", "done"}, t \notin {"none", "done"},
           task' = [task EXCEPT ![n] = t], result' = [result EXCEPT ![n] = v],
           \A k \in CallIds : Requests(k)' = Requests(k) /\ Responses(k)' = Responses(k),
           Upstream' \subseteq Upstream,
           \A m \in Downstream' : m.kind = "response" => m \in Downstream,
           UNCHANGED <<nextId, call, method, tmethod, reply, outcome>>
    PROVE  RInv'
  <1>1. Responses(n) = 0
    BY FlowTypes DEF RInv, ServedOnce, One
  <1>2. \A m \in Downstream : m.kind = "response" => m.id # n /\ m.id \in CallIds
    BY <1>1, Counted, FlowTypes, ToClientFields
  <1>3. task \in [CallIds -> TaskStates] /\ result \in [CallIds -> Results \cup {"none"}]
    BY DEF TInv, TypeOK, ServerTypeOK
  <1>4. ServedOnce'
    BY <1>3 DEF RInv, ServedOnce, One
  <1>5. OwnMessages'
    BY <1>2, <1>3 DEF RInv, OwnMessages
  <1>6. OwnResults'
    BY <1>3 DEF RInv, OwnResults
  <1> QED
    BY <1>4, <1>5, <1>6 DEF RInv

\* What a workflow does with an answer.
LEMMA ContinueSteps ==
    ASSUME NEW n, NEW a, Continue(n, a), TInv, n \in CallIds
    PROVE  \E v : \E t \in {"running", "responding"} :
              task' = [task EXCEPT ![n] = t] /\ result' = [result EXCEPT ![n] = v]
  <1>1. result = [result EXCEPT ![n] = result[n]]
    BY DEF TInv, TypeOK, ServerTypeOK
  <1> QED
    BY <1>1 DEF Continue

LEMMA CallsTask ==
    ASSUME TInv, RInv, NEW n \in CallIds, Serving(n)
    PROVE  RInv'
  <1>0. UNCHANGED clientVars
    BY DEF Serving
  <1>1. result = [result EXCEPT ![n] = result[n]]
    BY DEF TInv, TypeOK, ServerTypeOK
  <1>2. CASE TaskPlain(n)
    <2>1. UpKeeps /\ DownKeeps
      BY <1>0, <1>2, UpFlow, DownFlow DEF TaskPlain, pipeVars, clientVars
    <2>2. /\ task[n] = "running" /\ task' = [task EXCEPT ![n] = "responding"]
          /\ result' = [result EXCEPT ![n] = PlainResult(tmethod[n])]
          /\ UNCHANGED <<nextId, call, method, tmethod, reply, outcome>>
      BY <1>0, <1>2 DEF TaskPlain, clientVars
    <2> QED
      BY <2>1, <2>2, CallsBusy DEF UpKeeps, DownKeeps
  <1>3. CASE TaskElicit(n)
    <2>1. UpKeeps /\ DownKeeps
      BY <1>0, <1>3, UpFlow, DownFlow DEF TaskElicit, pipeVars, clientVars
    <2>2. /\ task[n] = "running" /\ task' = [task EXCEPT ![n] = "registered"]
          /\ result' = [result EXCEPT ![n] = result[n]]
          /\ UNCHANGED <<nextId, call, method, tmethod, reply, outcome>>
      BY <1>0, <1>1, <1>3 DEF TaskElicit, clientVars
    <2> QED
      BY <2>1, <2>2, CallsBusy DEF UpKeeps, DownKeeps
  <1>4. CASE TaskElicitSend(n)
    <2> DEFINE msg == [kind |-> "request", id |-> CurrentId(n), body |-> "elicitation/create"]
    <2>1. UpKeeps /\ (DownKeeps \/ DownGains(msg))
      <3>1. msg \in ToClient
        BY <1>4 DEF TaskElicitSend, CurrentId, Defined, ToClient, TInv, TypeOK, ServerTypeOK
      <3> QED
        BY <1>0, <1>4, <3>1, UpFlow, DownFlow DEF TaskElicitSend, pipeVars, clientVars
    <2>2. PICK v : \E t \in {"awaiting", "running", "responding"} :
             task' = [task EXCEPT ![n] = t] /\ result' = [result EXCEPT ![n] = v]
      BY <1>1, <1>4, ContinueSteps DEF TaskElicitSend
    <2>3. task[n] = "registered" /\ UNCHANGED <<nextId, call, method, tmethod, reply, outcome>>
      BY <1>0, <1>4 DEF TaskElicitSend, clientVars
    <2>4. /\ \A k \in CallIds : Requests(k)' = Requests(k) /\ Responses(k)' = Responses(k)
          /\ Upstream' \subseteq Upstream
          /\ \A m \in Downstream' : m.kind = "response" => m \in Downstream
      BY <2>1, FlowTypes DEF UpKeeps, DownKeeps, DownGains, One
    <2> QED
      BY <2>2, <2>3, <2>4, CallsBusy
  <1>5. CASE TaskResume(n)
    <2>1. UpKeeps /\ DownKeeps
      BY <1>0, <1>5, UpFlow, DownFlow DEF TaskResume, pipeVars, clientVars
    <2>2. PICK v : \E t \in {"running", "responding"} :
             task' = [task EXCEPT ![n] = t] /\ result' = [result EXCEPT ![n] = v]
      BY <1>5, ContinueSteps DEF TaskResume
    <2>3. task[n] = "awaiting" /\ UNCHANGED <<nextId, call, method, tmethod, reply, outcome>>
      BY <1>0, <1>5 DEF TaskResume, clientVars
    <2> QED
      BY <2>1, <2>2, <2>3, CallsBusy DEF UpKeeps, DownKeeps
  <1>6. CASE TaskRespond(n)
    <2> DEFINE msg == [kind |-> "response", id |-> n, body |-> result[n]]
    <2>1. UpKeeps /\ (DownKeeps \/ DownGains(msg))
      <3>1. msg \in ToClient
        BY <1>6 DEF TaskRespond, Defined, ToClient, TInv
      <3> QED
        BY <1>0, <1>6, <3>1, UpFlow, DownFlow DEF TaskRespond, pipeVars, clientVars
    <2>2. /\ task[n] = "responding" /\ task' = [task EXCEPT ![n] = "done"]
          /\ UNCHANGED <<nextId, call, method, tmethod, reply, outcome, result>>
      BY <1>0, <1>6 DEF TaskRespond, clientVars
    <2>3. Responses(n) = 0
      BY <2>2, FlowTypes DEF RInv, ServedOnce, One
    <2>4. task \in [CallIds -> TaskStates]
      BY DEF TInv, TypeOK, ServerTypeOK
    <2>5. ServedOnce'
      BY <2>1, <2>2, <2>3, <2>4, FlowTypes DEF RInv, ServedOnce, UpKeeps, DownKeeps, DownGains, One
    <2>6. OwnMessages'
      BY <2>1, <2>2 DEF RInv, OwnMessages, UpKeeps, DownKeeps, DownGains
    <2>7. OwnResults'
      BY <2>2, <2>4 DEF RInv, OwnResults
    <2> QED
      BY <2>5, <2>6, <2>7 DEF RInv
  <1> QED
    BY <1>2, <1>3, <1>4, <1>5, <1>6 DEF Serving, TaskStep

LEMMA CallsStep == TInv /\ RInv /\ [Next]_vars => RInv'
  <1> SUFFICES ASSUME TInv, RInv, [Next]_vars PROVE RInv'
    OBVIOUS
  <1>1. CASE UNCHANGED vars
    <2>1. UpKeeps /\ DownKeeps /\ UNCHANGED <<nextId, call, method, task, tmethod, result, reply, outcome>>
      BY <1>1, UpFlow, DownFlow DEF vars, pipeVars, clientVars, serverVars
    <2> QED
      BY <2>1, FlowTypes, CallsQuiet DEF UpKeeps, DownKeeps
  <1>2. CASE Next
    <2>1. ASSUME Begin PROVE RInv'
      BY <2>1, CallsBegin DEF Begin
    <2>2. ASSUME ClientReading \/ ClientWriting \/ Dropping \/ ClientEnding PROVE RInv'
      BY <2>2, CallsReaderResponse, CallsClientQuiet
         DEF ClientReading, ClientReader, ClientWriting, ClientWriter, Dropping, ClientEnding
    <2>3. ASSUME ServerLooping \/ ServerReading \/ ServerWriting \/ ServerEnding PROVE RInv'
      BY <2>3, CallsMainRequest, CallsServerQuiet
         DEF ServerLooping, ServerMain, ServerReading, ServerReader, ServerWriting, ServerWriter,
             ServerEnding
    <2> QED
      BY <1>2, <2>1, <2>2, <2>3, CallsCall, CallsHandler, CallsTask DEF Next
  <1> QED
    BY <1>1, <1>2

\* A caller gets the result of its own call, for any number of calls in
\* flight (call and the reader task in mcp-client, run_stdio in mcp-server).
THEOREM RepliesAreOwn == Spec => []ReplyIsOwn
  <1>1. RInv => ReplyIsOwn
    BY DEF RInv, OwnResults, ReplyIsOwn
  <1> QED
    BY <1>1, InitType, NextType, CallsInit, CallsStep, PTL DEF Spec

-----------------------------------------------------------------------------
(***************************************************************************)
(* The audit log.                                                          *)
(***************************************************************************)

\* In every arm of a workflow handler the audit entry says what the result
\* says, and only an accepted form is reported as confirmed.
LEMMA WorkflowAgrees ==
    ASSUME NEW m, NEW r, NEW a
    PROVE  /\ WorkflowResult(m, r, a) = "confirmed" => WorkflowAudit(m, r, a) = "ok" /\ Accepts(a)
           /\ WorkflowResult(m, r, a) \in {"declined", "cancelled", "mismatch"} =>
                 WorkflowAudit(m, r, a) \in {"declined", "denied"}
  BY DEF WorkflowResult, WorkflowAudit, Mismatched, Accepts, ScopeSelection

LEMMA AuditedContinue ==
    ASSUME TInv, Audited, NEW n \in CallIds, NEW a, Continue(n, a)
    PROVE  Audited'
  <1>1. result \in [CallIds -> Results \cup {"none"}] /\ audit \in [CallIds -> AuditOutcomes \cup {"none"}]
    BY DEF TInv, TypeOK, ServerTypeOK
  <1>2. CASE UNCHANGED <<result, audit>>
    BY <1>2 DEF Audited
  <1>3. ASSUME NEW m, NEW r,
               result' = [result EXCEPT ![n] = WorkflowResult(m, r, a)],
               audit' = [audit EXCEPT ![n] = WorkflowAudit(m, r, a)]
        PROVE  Audited'
    BY <1>1, <1>3, WorkflowAgrees DEF Audited
  <1> QED
    BY <1>2, <1>3 DEF Continue

LEMMA AuditedStep == TInv /\ Audited /\ [Next]_vars => Audited'
  <1> SUFFICES ASSUME TInv, Audited, [Next]_vars PROVE Audited'
    OBVIOUS
  <1>0. result \in [CallIds -> Results \cup {"none"}]
    BY DEF TInv, TypeOK, ServerTypeOK
  <1>1. ASSUME UNCHANGED <<result, audit>> PROVE Audited'
    BY <1>1 DEF Audited
  <1>2. ASSUME NEW n \in CallIds, Serving(n) PROVE Audited'
    <2>1. CASE TaskPlain(n)
      BY <1>0, <2>1 DEF TaskPlain, PlainResult, Audited
    <2>2. CASE TaskElicitSend(n)
      BY <1>1, <2>2, AuditedContinue DEF TaskElicitSend
    <2>3. CASE TaskResume(n)
      BY <2>3, AuditedContinue DEF TaskResume
    <2> QED
      BY <1>1, <1>2, <2>1, <2>2, <2>3 DEF Serving, TaskStep, TaskElicit, TaskRespond
  <1>3. ASSUME ServerLooping PROVE Audited'
    <2>1. CASE MainRequest
      BY <1>0, <2>1 DEF MainRequest, Audited
    <2> QED
      BY <1>1, <1>3, <2>1
         DEF ServerLooping, ServerMain, MainResponse, MainNotification, MainClose, MainReturn
  <1>4. ASSUME UNCHANGED serverVars PROVE Audited'
    BY <1>1, <1>4 DEF serverVars
  <1>5. ASSUME ServerReading \/ ServerWriting \/ ServerEnding PROVE Audited'
    BY <1>1, <1>5 DEF ServerReading, ServerReader, SReaderForward, SReaderEof, ServerWriting,
       ServerWriter, SWriterSend, SWriterStop, ServerEnding, ServerExit, serverVars
  <1> QED
    BY <1>2, <1>3, <1>4, <1>5 DEF Next, Begin, Calling, Answering, Replying, ClientReading,
       ClientWriting, Dropping, ClientEnding, vars

\* What a caller is told about a write is what the audit log says, however
\* the workflows of a session interleave (record_write_audit in tools.rs).
THEOREM ToldAudited == Spec => []ToldIsAudited
  <1>1. Init => Audited
    BY DEF Init, ServerInit, Audited
  <1>2. RInv /\ Audited => ToldIsAudited
    BY DEF RInv, OwnResults, Audited, ToldIsAudited, Results
  <1> QED
    BY <1>1, <1>2, InitType, NextType, CallsInit, CallsStep, AuditedStep, PTL DEF Spec

-----------------------------------------------------------------------------
(***************************************************************************)
(* Forms and answers.                                                      *)
(***************************************************************************)
EInv == AskedOnce /\ OwnForms /\ OwnAnswers /\ Progress /\ ConfirmedOnlyByUser

LEMMA FormsInit == Init => EInv
  <1> SUFFICES ASSUME Init PROVE EInv
    OBVIOUS
  <1>1. AskedOnce
    BY EmptyFlow, BoundsAssumption DEF Init, ClientInit, ServerInit, AskedOnce, One, ElicitIds
  <1>2. OwnForms /\ OwnAnswers
    BY EmptyFlow DEF Init, ClientInit, ServerInit, OwnForms, OwnAnswers
  <1>3. Progress /\ ConfirmedOnlyByUser
    BY DEF Init, ClientInit, ServerInit, Progress, ConfirmedOnlyByUser
  <1> QED
    BY <1>1, <1>2, <1>3 DEF EInv

\* The form a workflow waits for is its own and the latest it asked.
LEMMA CurrentForm ==
    ASSUME TInv, NEW n \in CallIds, task[n] \in {"registered", "awaiting"}
    PROVE  /\ asked[n] \in Seq(ElicitIds) /\ Len(asked[n]) \in Nat \ {0}
           /\ Len(asked[n]) \in DOMAIN asked[n]
           /\ CurrentId(n) = asked[n][Len(asked[n])] /\ CurrentId(n) \in ElicitIds
  BY DEF TInv, TypeOK, ServerTypeOK, Defined, CurrentId

\* A step that leaves the workflows, the handlers and the waiters alone, and
\* sends neither a form down nor an answer up, leaves the invariant.
LEMMA FormsQuiet ==
    ASSUME TInv, EInv,
           \A e \in ElicitIds : Forms(e)' \in 0..Forms(e) /\ FormReplies(e)' \in 0..FormReplies(e),
           \A m \in Upstream' : m.kind = "response" => m \in Upstream,
           UNCHANGED <<handler, answer, task, tmethod, asked, result, sNextId, sPending, sReply>>
    PROVE  EInv'
  <1>1. AskedOnce'
    <2>1. ASSUME NEW e \in ElicitIds
          PROVE  /\ Forms(e)' + One(handler[e] # "none")' <= One(e < sNextId)'
                 /\ FormReplies(e)' <= One(handler[e] = "done")'
      BY FlowTypes DEF EInv, AskedOnce, One
    <2>2. ASSUME NEW n \in CallIds, task[n] = "registered"
          PROVE  CurrentId(n)' \in sPending' /\ Forms(CurrentId(n))' = 0 /\ handler[CurrentId(n)]' = "none"
      <3>1. CurrentId(n) \in ElicitIds /\ CurrentId(n)' = CurrentId(n)
        BY <2>2, CurrentForm DEF CurrentId
      <3>2. Forms(CurrentId(n))' = 0
        BY <2>2, <3>1, FlowTypes DEF EInv, AskedOnce
      <3> QED
        BY <2>2, <3>1, <3>2 DEF EInv, AskedOnce
    <2> QED
      BY <2>1, <2>2 DEF AskedOnce
  <1>2. OwnForms' /\ OwnAnswers'
    BY DEF EInv, OwnForms, OwnAnswers
  <1>3. Progress' /\ ConfirmedOnlyByUser'
    BY DEF EInv, Progress, ConfirmedOnlyByUser, Consented
  <1> QED
    BY <1>1, <1>2, <1>3 DEF EInv

\* The steps of the client that touch no form.
LEMMA FormsClientQuiet ==
    ASSUME TInv, EInv, UNCHANGED serverVars,
           \/ Begin \/ \E n \in CallIds : Calling(n)
           \/ ReaderResponse \/ ReaderEof \/ ReaderDrain
           \/ WriterSend \/ WriterStop \/ ClientDrop \/ ClientExit
    PROVE  EInv'
  <1>0. UNCHANGED <<handler, answer, task, tmethod, asked, result, sNextId, sPending, sReply>>
    BY DEF Begin, CallAllocate, Calling, CallStep, CallRegister, CallSend, CallReturn, CallNotify,
       ReaderResponse, ReaderEof, ReaderDrain, WriterSend, WriterStop, ClientDrop,
       ClientExit, serverVars, clientVars, pipeVars
  <1>1. \/ UpKeeps \/ UpDrops
        \/ \E x \in ToServer : x.kind # "response" /\ UpGains(x)
    <2>1. ASSUME NEW n \in CallIds, CallSend(n)
          PROVE  UpKeeps \/ \E x \in ToServer : x.kind # "response" /\ UpGains(x)
      <3>1. CallRequest(n) \in ToServer /\ CallRequest(n).kind # "response"
        BY <2>1 DEF CallSend, CallRequest, ToServer, TInv, Defined
      <3> QED
        BY <2>1, <3>1, UpFlow DEF CallSend, pipeVars, serverVars
    <2>2. ASSUME NEW n \in CallIds, CallNotify(n)
          PROVE  UpKeeps \/ \E x \in ToServer : x.kind # "response" /\ UpGains(x)
      <3> DEFINE msg == [kind |-> "notification", id |-> 0, body |-> "initialized"]
      <3>1. msg \in ToServer /\ msg.kind # "response"
        BY DEF ToServer
      <3> QED
        BY <2>2, <3>1, UpFlow DEF CallNotify, pipeVars, serverVars
    <2>3. ASSUME \/ Begin \/ \E n \in CallIds : CallRegister(n) \/ CallReturn(n)
                 \/ ReaderResponse \/ ReaderEof \/ ReaderDrain \/ ClientDrop
          PROVE  UpKeeps
      BY <2>3, UpFlow DEF Begin, CallAllocate, CallRegister, CallReturn, ReaderResponse, ReaderEof,
         ReaderDrain, ClientDrop, serverVars, clientVars, pipeVars
    <2>4. ASSUME WriterSend \/ WriterStop \/ ClientExit
          PROVE  UpKeeps \/ UpDrops
      BY <2>4, UpFlow DEF WriterStop, ClientExit, serverVars
    <2> QED
      BY <2>1, <2>2, <2>3, <2>4 DEF Calling, CallStep
  <1>2. DownKeeps \/ DownDrops \/ (ReaderResponse /\ DownLoses(Head(s2c)))
    BY DownFlow DEF Begin, CallAllocate, Calling, CallStep, CallRegister, CallSend, CallReturn,
       CallNotify, ReaderResponse, ReaderEof, ReaderDrain, WriterSend, WriterStop, ClientDrop,
       ClientExit, serverVars, clientVars, pipeVars
  <1>3. \A e \in ElicitIds : FormReplies(e)' \in 0..FormReplies(e)
    BY <1>1, FlowTypes DEF UpKeeps, UpDrops, UpGains, One
  <1>4. \A e \in ElicitIds : Forms(e)' \in 0..Forms(e)
    BY <1>2, FlowTypes DEF DownKeeps, DownDrops, DownLoses, One
  <1>5. \A m \in Upstream' : m.kind = "response" => m \in Upstream
    BY <1>1 DEF UpKeeps, UpDrops, UpGains
  <1> QED
    BY <1>0, <1>3, <1>4, <1>5, FormsQuiet

\* The steps of the server that touch no form.
LEMMA FormsServerQuiet ==
    ASSUME TInv, EInv, UNCHANGED clientVars,
           \/ MainNotification \/ MainClose \/ MainReturn
           \/ SReaderForward \/ SReaderEof \/ SWriterSend \/ SWriterStop \/ ServerExit
    PROVE  EInv'
  <1>0. UNCHANGED <<handler, answer, task, tmethod, asked, result, sNextId, sPending, sReply>>
    BY DEF MainNotification, MainClose, MainReturn, SReaderForward,
       SReaderEof, SWriterSend, SWriterStop, ServerExit, serverVars, clientVars, pipeVars
  <1>1. UpKeeps \/ UpDrops \/ UpLoses(Head(inbound))
    BY UpFlow DEF MainNotification, MainClose, MainReturn, SReaderEof,
       SWriterSend, SWriterStop, ServerExit, serverVars, clientVars, pipeVars
  <1>2. DownKeeps \/ DownDrops
    BY DownFlow DEF MainNotification, MainClose, MainReturn, SReaderForward,
       SReaderEof, SWriterStop, ServerExit, serverVars, clientVars, pipeVars
  <1>3. \A e \in ElicitIds : Forms(e)' \in 0..Forms(e) /\ FormReplies(e)' \in 0..FormReplies(e)
    BY <1>1, <1>2, FlowTypes DEF UpKeeps, UpDrops, UpLoses, DownKeeps, DownDrops, One
  <1>5. Upstream' \subseteq Upstream
    BY <1>1 DEF UpKeeps, UpDrops, UpLoses
  <1> QED
    BY <1>0, <1>3, <1>5, FormsQuiet

\* A form that arrives gets its one handler.
LEMMA FormsReaderRequest ==
    ASSUME TInv, EInv, ReaderRequest, UNCHANGED serverVars
    PROVE  EInv'
  <1> DEFINE e == Head(s2c).id
  <1>1. UpKeeps /\ DownLoses(Head(s2c))
    BY UpFlow, DownFlow DEF ReaderRequest, serverVars
  <1>2. Head(s2c).kind = "request" /\ e \in ElicitIds
    BY <1>1, FlowTypes, ToClientFields DEF ReaderRequest, DownLoses
  <1>3. Forms(e) >= 1 /\ Forms(e) \in Nat
    BY <1>1, <1>2, Counted, FlowTypes DEF DownLoses
  <1>4. Forms(e) = 1 /\ handler[e] = "none" /\ e < sNextId /\ answer[e] = "none"
    BY <1>2, <1>3 DEF EInv, AskedOnce, OwnAnswers, One
  <1>5. /\ handler' = [handler EXCEPT ![e] = "asking"]
        /\ UNCHANGED <<answer, task, tmethod, asked, result, sNextId, sPending, sReply>>
    BY DEF ReaderRequest, serverVars
  <1>6. handler \in [ElicitIds -> {"none", "asking", "answered", "done"}]
    BY DEF TInv, TypeOK, ClientTypeOK
  <1>7. \A f \in ElicitIds : /\ FormReplies(f)' = FormReplies(f)
                             /\ Forms(f) = Forms(f)' + One(f = e) /\ Forms(f)' \in Nat
    BY <1>1, <1>2 DEF UpKeeps, DownLoses, One
  <1> HIDE DEF e
  <1>8. AskedOnce'
    <2>1. ASSUME NEW f \in ElicitIds
          PROVE  /\ Forms(f)' + One(handler'[f] # "none") <= One(f < sNextId')
                 /\ FormReplies(f)' <= One(handler'[f] = "done")
      BY <1>2, <1>4, <1>5, <1>6, <1>7, FlowTypes DEF EInv, AskedOnce, One
    <2>2. ASSUME NEW n \in CallIds, task'[n] = "registered"
          PROVE  CurrentId(n)' \in sPending' /\ Forms(CurrentId(n))' = 0 /\ handler'[CurrentId(n)'] = "none"
      <3>1. CurrentId(n) \in ElicitIds /\ CurrentId(n)' = CurrentId(n) /\ task[n] = "registered"
        BY <1>5, <2>2, CurrentForm DEF CurrentId
      <3>2. /\ CurrentId(n) \in sPending /\ Forms(CurrentId(n)) = 0
            /\ handler[CurrentId(n)] = "none" /\ CurrentId(n) # e
        BY <1>4, <3>1 DEF EInv, AskedOnce
      <3>3. Forms(CurrentId(n))' = 0
        BY <1>7, <3>1, <3>2 DEF One
      <3> QED
        BY <1>5, <1>6, <3>1, <3>2, <3>3
    <2> QED
      BY <2>1, <2>2 DEF AskedOnce
  <1>9. OwnForms' /\ OwnAnswers'
    BY <1>1, <1>2, <1>4, <1>5, <1>6 DEF EInv, OwnForms, OwnAnswers, UpKeeps
  <1>10. Progress' /\ ConfirmedOnlyByUser'
    BY <1>5 DEF EInv, Progress, ConfirmedOnlyByUser, Consented
  <1> QED
    BY <1>8, <1>9, <1>10 DEF EInv

\* An answer is given once, and is what travels back.
LEMMA FormsHandler ==
    ASSUME TInv, EInv, NEW e \in ElicitIds, Answering(e) \/ Replying(e)
    PROVE  EInv'
  <1>0. UNCHANGED serverVars
    BY DEF Answering, Replying
  <1>1. handler \in [ElicitIds -> {"none", "asking", "answered", "done"}]
        /\ answer \in [ElicitIds -> Answers \cup {"none"}]
    BY DEF TInv, TypeOK, ClientTypeOK
  <1>2. UNCHANGED <<task, tmethod, asked, result, sNextId, sPending, sReply>>
    BY <1>0 DEF serverVars
  <1>3. ASSUME NEW n \in CallIds, task[n] = "registered"
        PROVE  /\ CurrentId(n) \in ElicitIds /\ CurrentId(n)' = CurrentId(n)
               /\ CurrentId(n) \in sPending /\ Forms(CurrentId(n)) = 0
               /\ handler[CurrentId(n)] = "none"
    BY <1>2, <1>3, CurrentForm DEF CurrentId, EInv, AskedOnce
  <1>4. ASSUME NEW a \in UserAnswers, HandlerAnswer(e, a) PROVE EInv'
    <2>1. UpKeeps /\ DownKeeps
      BY <1>0, <1>4, UpFlow, DownFlow DEF HandlerAnswer, pipeVars, serverVars
    <2>2. /\ handler[e] = "asking" /\ handler' = [handler EXCEPT ![e] = "answered"]
          /\ answer' = [answer EXCEPT ![e] = a]
      BY <1>4 DEF HandlerAnswer
    <2>3. answer[e] = "none" /\ sReply[e] = "none" /\ FormReplies(e) = 0
      BY <2>2, FlowTypes DEF EInv, OwnAnswers, AskedOnce, One
    <2>4. \A m \in Upstream : m.kind = "response" => m.id \in ElicitIds \ {e}
      BY <2>3, Counted, FlowTypes, ToServerFields
    <2>5. AskedOnce'
      BY <1>1, <1>2, <1>3, <2>1, <2>2 DEF EInv, AskedOnce, One, UpKeeps, DownKeeps
    <2>6. OwnForms' /\ OwnAnswers'
      BY <1>1, <1>2, <2>1, <2>2, <2>3, <2>4 DEF EInv, OwnForms, OwnAnswers, UpKeeps
    <2>7. \A f \in ElicitIds : Accepts(answer[f]) => f # e /\ answer'[f] = answer[f]
      BY <1>1, <2>2, <2>3 DEF Accepts
    <2>8. \A n \in CallIds : asked[n] \in Seq(ElicitIds)
      BY DEF TInv, TypeOK, ServerTypeOK
    <2>9. Progress' /\ ConfirmedOnlyByUser'
      <3>1. ASSUME NEW n \in CallIds, NEW i \in DOMAIN asked[n], Consented(n, i)
            PROVE  Consented(n, i)'
        BY <1>2, <2>7, <2>8, <3>1 DEF Consented
      <3>2. Progress'
        BY <1>2, <2>8, <3>1 DEF EInv, Progress
      <3>3. ConfirmedOnlyByUser'
        BY <1>2, <2>8, <3>1 DEF EInv, ConfirmedOnlyByUser, Consented
      <3> QED
        BY <3>2, <3>3
    <2> QED
      BY <2>5, <2>6, <2>9 DEF EInv
  <1>5. CASE HandlerSend(e)
    <2> DEFINE msg == [kind |-> "response", id |-> e, body |-> answer[e]]
    <2>1. DownKeeps /\ (UpKeeps \/ UpGains(msg))
      <3>1. msg \in ToServer
        BY <1>5 DEF HandlerSend, TInv, Defined, ToServer
      <3> QED
        BY <1>0, <1>5, <3>1, UpFlow, DownFlow DEF HandlerSend, pipeVars, serverVars
    <2>2. /\ handler[e] = "answered" /\ handler' = [handler EXCEPT ![e] = "done"]
          /\ UNCHANGED answer
      BY <1>5 DEF HandlerSend
    <2>3. FormReplies(e) = 0
      BY <2>2, FlowTypes DEF EInv, AskedOnce, One
    <2>4. \A f \in ElicitIds : FormReplies(f)' \in Nat /\ FormReplies(f)' <= FormReplies(f) + One(f = e)
      BY <2>1, FlowTypes DEF UpKeeps, UpGains, One
    <2>5. AskedOnce'
      BY <1>1, <1>2, <1>3, <2>1, <2>2, <2>3, <2>4, FlowTypes DEF EInv, AskedOnce, One, DownKeeps
    <2>6. OwnForms' /\ OwnAnswers'
      BY <1>1, <1>2, <2>1, <2>2 DEF EInv, OwnForms, OwnAnswers, UpKeeps, UpGains
    <2>7. Progress' /\ ConfirmedOnlyByUser'
      BY <1>2, <2>2 DEF EInv, Progress, ConfirmedOnlyByUser, Consented
    <2> QED
      BY <2>5, <2>6, <2>7 DEF EInv
  <1> QED
    BY <1>4, <1>5 DEF Answering, Replying

\* A request starts its task afresh; it had none before.
LEMMA FormsMainRequest ==
    ASSUME TInv, RInv, EInv, MainRequest, UNCHANGED clientVars
    PROVE  EInv'
  <1> DEFINE req == Head(inbound)
  <1>1. UpLoses(req) /\ DownKeeps
    BY UpFlow, DownFlow DEF MainRequest, pipeVars, clientVars
  <1>2. req.kind = "request" /\ req.id \in CallIds /\ req.body \in Methods
    BY <1>1, FlowTypes, ToServerFields DEF MainRequest, UpLoses
  <1>3. Requests(req.id) >= 1 /\ Requests(req.id) \in Nat
    BY <1>1, <1>2, Counted, FlowTypes DEF UpLoses
  <1>4. task[req.id] = "none"
    BY <1>2, <1>3 DEF RInv, ServedOnce, One
  <1>5. /\ asked \in [CallIds -> Seq(ElicitIds)] /\ result \in [CallIds -> Results \cup {"none"}]
        /\ task \in [CallIds -> TaskStates] /\ tmethod \in [CallIds -> Methods \cup {"none"}]
    BY DEF TInv, TypeOK, ServerTypeOK
  <1>6. asked[req.id] = <<>> /\ result[req.id] = "none"
    BY <1>2, <1>4 DEF EInv, OwnForms, Progress
  <1>7. /\ task' = [task EXCEPT ![req.id] = "running"]
        /\ tmethod' = [tmethod EXCEPT ![req.id] = req.body]
        /\ asked' = [asked EXCEPT ![req.id] = <<>>]
        /\ result' = [result EXCEPT ![req.id] = "none"]
        /\ UNCHANGED <<handler, answer, sNextId, sPending, sReply>>
    BY DEF MainRequest, clientVars
  <1>8. UNCHANGED <<asked, result>>
    BY <1>5, <1>6, <1>7
  <1>9. \A e \in ElicitIds : Forms(e)' = Forms(e) /\ FormReplies(e)' = FormReplies(e)
    BY <1>1, <1>2, FlowTypes DEF UpLoses, DownKeeps, One
  <1>10. Upstream' \subseteq Upstream
    BY <1>1 DEF UpLoses
  <1> HIDE DEF req
  <1>11. AskedOnce'
    <2>1. ASSUME NEW n \in CallIds, task'[n] = "registered"
          PROVE  /\ task[n] = "registered"
                 /\ CurrentId(n) \in ElicitIds /\ CurrentId(n)' = CurrentId(n)
      BY <1>2, <1>5, <1>7, <1>8, <2>1, CurrentForm DEF CurrentId
    <2> QED
      BY <1>7, <1>9, <2>1 DEF EInv, AskedOnce
  <1>12. OwnForms' /\ OwnAnswers'
    BY <1>5, <1>7, <1>8, <1>10 DEF EInv, OwnForms, OwnAnswers
  <1>13. Progress'
    <2>1. Len(asked[req.id]) = 0 /\ Rounds(req.body) \in Nat
      BY <1>6 DEF Rounds
    <2> QED
      BY <1>2, <1>5, <1>6, <1>7, <1>8, <2>1 DEF EInv, Progress, Consented
  <1>14. ConfirmedOnlyByUser'
    BY <1>2, <1>5, <1>6, <1>7, <1>8 DEF EInv, ConfirmedOnlyByUser
  <1> QED
    BY <1>11, <1>12, <1>13, <1>14 DEF EInv

\* The answer a waiter receives is the user's answer to that waiter's form.
LEMMA FormsMainResponse ==
    ASSUME TInv, EInv, MainResponse, UNCHANGED clientVars
    PROVE  EInv'
  <1> DEFINE resp == Head(inbound)
  <1>1. UpLoses(resp) /\ DownKeeps
    BY UpFlow, DownFlow DEF MainResponse, pipeVars, clientVars
  <1>2. resp.kind = "response" /\ resp.id \in ElicitIds /\ resp.body = answer[resp.id]
    BY <1>1, FlowTypes, ToServerFields DEF MainResponse, UpLoses, EInv, OwnAnswers
  <1>3. FormReplies(resp.id) >= 1 /\ FormReplies(resp.id) \in Nat
    BY <1>1, <1>2, Counted, FlowTypes DEF UpLoses
  <1>4. handler[resp.id] = "done"
    BY <1>2, <1>3 DEF EInv, AskedOnce, One
  <1>5. /\ sPending' = sPending \ {resp.id}
        /\ sReply' \in {sReply, [sReply EXCEPT ![resp.id] = resp.body]}
        /\ UNCHANGED <<handler, answer, task, tmethod, asked, result, sNextId>>
    BY DEF MainResponse, clientVars
  <1>6. \A e \in ElicitIds : Forms(e)' = Forms(e) /\ FormReplies(e)' \in 0..FormReplies(e)
    BY <1>1, FlowTypes DEF UpLoses, DownKeeps, One
  <1>7. Upstream' \subseteq Upstream /\ sReply \in [ElicitIds -> Answers \cup {"none"}]
    BY <1>1 DEF UpLoses, TInv, TypeOK, ServerTypeOK
  <1> HIDE DEF resp
  <1>8. AskedOnce'
    <2>1. ASSUME NEW n \in CallIds, task[n] = "registered"
          PROVE  /\ CurrentId(n) \in ElicitIds /\ CurrentId(n)' = CurrentId(n)
                 /\ CurrentId(n) # resp.id
      BY <1>4, <1>5, <2>1, CurrentForm DEF CurrentId, EInv, AskedOnce
    <2>2. ASSUME NEW e \in ElicitIds
          PROVE  /\ Forms(e)' + One(handler'[e] # "none") <= One(e < sNextId')
                 /\ FormReplies(e)' <= One(handler'[e] = "done")
      BY <1>5, <1>6, FlowTypes DEF EInv, AskedOnce, One
    <2> QED
      BY <1>5, <1>6, <2>1, <2>2 DEF EInv, AskedOnce
  <1>9. OwnForms' /\ OwnAnswers'
    BY <1>2, <1>5, <1>7 DEF EInv, OwnForms, OwnAnswers
  <1>10. Progress' /\ ConfirmedOnlyByUser'
    BY <1>5 DEF EInv, Progress, ConfirmedOnlyByUser, Consented
  <1> QED
    BY <1>8, <1>9, <1>10 DEF EInv

\* A workflow that asks nothing more, and the response of one.
LEMMA FormsPlain ==
    ASSUME TInv, EInv, NEW n \in CallIds, UNCHANGED clientVars,
           TaskPlain(n) \/ TaskRespond(n)
    PROVE  EInv'
  <1> DEFINE msg == [kind |-> "response", id |-> n, body |-> result[n]]
  <1>1. UpKeeps /\ (DownKeeps \/ DownGains(msg))
    <2>1. task[n] = "responding" => msg \in ToClient
      BY DEF Defined, ToClient, TInv
    <2> QED
      BY <2>1, UpFlow, DownFlow DEF TaskPlain, TaskRespond, pipeVars, clientVars
  <1>2. /\ task[n] \in {"running", "responding"} /\ task'[n] \in {"responding", "done"}
        /\ \A k \in CallIds \ {n} : task'[k] = task[k] /\ result'[k] = result[k]
        /\ result'[n] = result[n] \/ result'[n] \in {"ok", "error"}
        /\ UNCHANGED <<handler, answer, tmethod, asked, sNextId, sPending, sReply>>
    BY DEF TaskPlain, TaskRespond, clientVars, PlainResult, TInv, TypeOK, ServerTypeOK
  <1>3. \A e \in ElicitIds : Forms(e)' = Forms(e) /\ FormReplies(e)' = FormReplies(e)
    BY <1>1, FlowTypes DEF UpKeeps, DownKeeps, DownGains, One
  <1>4. Upstream' \subseteq Upstream
    BY <1>1 DEF UpKeeps
  <1>5. AskedOnce'
    <2>1. ASSUME NEW k \in CallIds, task'[k] = "registered"
          PROVE  /\ task[k] = "registered"
                 /\ CurrentId(k) \in ElicitIds /\ CurrentId(k)' = CurrentId(k)
      BY <1>2, <2>1, CurrentForm DEF CurrentId
    <2> QED
      BY <1>2, <1>3, <2>1 DEF EInv, AskedOnce
  <1>6. OwnForms' /\ OwnAnswers'
    BY <1>2, <1>4 DEF EInv, OwnForms, OwnAnswers
  <1>7. Progress' /\ ConfirmedOnlyByUser'
    BY <1>2 DEF EInv, Progress, ConfirmedOnlyByUser, Consented
  <1> QED
    BY <1>5, <1>6, <1>7 DEF EInv

\* A new form has an id no other form has, and nobody has seen it yet.
LEMMA FormsElicit ==
    ASSUME TInv, EInv, NEW n \in CallIds, UNCHANGED clientVars, TaskElicit(n)
    PROVE  EInv'
  <1>1. UpKeeps /\ DownKeeps
    BY UpFlow, DownFlow DEF TaskElicit, pipeVars, clientVars
  <1>2. /\ task[n] = "running" /\ task' = [task EXCEPT ![n] = "registered"]
        /\ asked' = [asked EXCEPT ![n] = Append(asked[n], sNextId)]
        /\ Rounds(tmethod[n]) > Len(asked[n])
        /\ sNextId' = sNextId + 1 /\ sPending' = sPending \cup {sNextId}
        /\ UNCHANGED <<handler, answer, tmethod, result, sReply>>
    BY DEF TaskElicit, clientVars
  <1>3. sNextId \in ElicitIds /\ sNextId \in Nat /\ sPending \subseteq ElicitIds
    BY BoundsAssumption DEF TaskElicit, ElicitIds, TInv, TypeOK, ServerTypeOK
  <1>4. asked \in [CallIds -> Seq(ElicitIds)] /\ task \in [CallIds -> TaskStates]
    BY DEF TInv, TypeOK, ServerTypeOK
  <1>5. Forms(sNextId) = 0 /\ handler[sNextId] = "none"
    BY <1>3, FlowTypes DEF EInv, AskedOnce, One
  <1>6. /\ Len(asked'[n]) = Len(asked[n]) + 1 /\ Len(asked[n]) \in Nat
        /\ DOMAIN asked'[n] = DOMAIN asked[n] \cup {Len(asked[n]) + 1}
        /\ asked'[n][Len(asked[n]) + 1] = sNextId
        /\ \A i \in DOMAIN asked[n] : asked'[n][i] = asked[n][i] /\ i \in 1..Len(asked[n])
        /\ \A i \in 1..(Len(asked'[n]) - 1) : i \in DOMAIN asked[n]
    BY <1>2, <1>4
  <1>7. \A k \in CallIds \ {n} : asked'[k] = asked[k] /\ task'[k] = task[k]
    BY <1>2, <1>4
  <1>8. \A e \in ElicitIds : e \in Nat /\ (e < sNextId => e < sNextId')
    BY <1>2, <1>3, BoundsAssumption DEF ElicitIds
  <1>9. AskedOnce'
    <2>1. ASSUME NEW e \in ElicitIds
          PROVE  /\ Forms(e)' + One(handler'[e] # "none") <= One(e < sNextId')
                 /\ FormReplies(e)' <= One(handler'[e] = "done")
      <3>1. /\ Forms(e)' = Forms(e) /\ FormReplies(e)' = FormReplies(e) /\ handler' = handler
            /\ Forms(e) \in Nat
        BY <1>1, <1>2, FlowTypes DEF UpKeeps, DownKeeps
      <3>2. e < sNextId => e < sNextId'
        BY <1>8
      <3> QED
        BY <3>1, <3>2 DEF EInv, AskedOnce, One
    <2>2. ASSUME NEW k \in CallIds, task'[k] = "registered"
          PROVE  CurrentId(k)' \in sPending' /\ Forms(CurrentId(k))' = 0 /\ handler'[CurrentId(k)'] = "none"
      <3>1. CASE k = n
        <4>1. CurrentId(k)' = sNextId
          BY <1>6, <3>1 DEF CurrentId
        <4> QED
          BY <1>1, <1>2, <1>3, <1>5, <4>1 DEF DownKeeps
      <3>2. CASE k # n
        <4>1. task[k] = "registered" /\ CurrentId(k)' = CurrentId(k) /\ CurrentId(k) \in ElicitIds
          BY <1>7, <2>2, <3>2, CurrentForm DEF CurrentId
        <4> QED
          BY <1>1, <1>2, <4>1 DEF DownKeeps, EInv, AskedOnce
      <3> QED
        BY <3>1, <3>2
    <2> QED
      BY <2>1, <2>2 DEF AskedOnce
  <1>10. OwnForms'
    <2>1. \A k \in CallIds : \A i \in DOMAIN asked[k] : asked[k][i] < sNextId /\ asked[k][i] \in ElicitIds
      BY <1>4 DEF EInv, OwnForms
    <2>2. \A k \in CallIds : task'[k] = "none" => asked'[k] = <<>>
      BY <1>2, <1>4, <1>7 DEF EInv, OwnForms
    <2>3. \A k \in CallIds : \A i \in DOMAIN asked'[k] :
             \/ i \in DOMAIN asked[k] /\ asked'[k][i] = asked[k][i]
             \/ k = n /\ i = Len(asked[n]) + 1 /\ asked'[k][i] = sNextId
      BY <1>6, <1>7
    <2>4. sNextId < sNextId'
      BY <1>2, <1>3
    <2>5. ASSUME NEW k \in CallIds, NEW i \in DOMAIN asked'[k]
          PROVE  /\ asked'[k][i] < sNextId'
                 /\ \A l \in CallIds : \A j \in DOMAIN asked'[l] :
                       asked'[k][i] = asked'[l][j] => k = l /\ i = j
      <3>1. asked'[k][i] < sNextId'
        BY <1>8, <2>1, <2>3, <2>4
      <3>2. ASSUME NEW l \in CallIds, NEW j \in DOMAIN asked'[l], asked'[k][i] = asked'[l][j]
            PROVE  k = l /\ i = j
        <4>1. ~(sNextId < sNextId)
          BY <1>3
        <4> QED
          BY <2>1, <2>3, <3>2, <4>1 DEF EInv, OwnForms
      <3> QED
        BY <3>1, <3>2
    <2> QED
      BY <2>2, <2>5 DEF OwnForms
  <1>11. OwnAnswers'
    BY <1>1, <1>2 DEF EInv, OwnAnswers, UpKeeps
  <1>12. Progress'
    <2>1. ASSUME NEW k \in CallIds, k # n
          PROVE  /\ task'[k] # "none" => Len(asked'[k]) <= Rounds(tmethod'[k])
                 /\ task'[k] \in {"none", "running", "registered", "awaiting"} => result'[k] = "none"
                 /\ task'[k] = "running" => \A i \in DOMAIN asked'[k] : Consented(k, i)'
                 /\ task'[k] \in {"registered", "awaiting"} =>
                       \A i \in 1..(Len(asked'[k]) - 1) : Consented(k, i)'
      BY <1>2, <1>7, <2>1 DEF EInv, Progress, Consented
    <2>2. Len(asked'[n]) <= Rounds(tmethod'[n])
      BY <1>2, <1>6 DEF Rounds
    <2>3. \A i \in 1..(Len(asked'[n]) - 1) : Consented(n, i)'
      BY <1>2, <1>6 DEF EInv, Progress, Consented
    <2>4. task'[n] = "registered" /\ result'[n] = "none"
      BY <1>2, <1>4 DEF EInv, Progress
    <2> QED
      BY <2>1, <2>2, <2>3, <2>4 DEF Progress
  <1>13. ConfirmedOnlyByUser'
    <2>1. result[n] = "none"
      BY <1>2 DEF EInv, Progress
    <2> QED
      BY <1>2, <1>7, <2>1 DEF EInv, ConfirmedOnlyByUser
  <1> QED
    BY <1>9, <1>10, <1>11, <1>12, <1>13 DEF EInv

\* A workflow that goes on with an answer, when an acceptance is the user's.
LEMMA FormsContinue ==
    ASSUME TInv, EInv, NEW n \in CallIds, NEW a, Continue(n, a),
           task[n] \in {"registered", "awaiting"},
           Accepts(a) => Accepts(answer[CurrentId(n)]),
           UNCHANGED <<answer, tmethod, asked>>
    PROVE  /\ Progress' /\ ConfirmedOnlyByUser'
           /\ task'[n] \in {"running", "responding"}
           /\ \A k \in CallIds \ {n} : task'[k] = task[k]
  <1> DEFINE m == tmethod[n]
             r == Len(asked[n])
  <1>1. task \in [CallIds -> TaskStates] /\ result \in [CallIds -> Results \cup {"none"}]
    BY DEF TInv, TypeOK, ServerTypeOK
  <1>2. /\ r \in Nat /\ DOMAIN asked[n] = 1..r /\ r <= Rounds(m) /\ Rounds(m) \in Nat
        /\ \A i \in 1..(r - 1) : Consented(n, i)
        /\ result[n] = "none"
    BY CurrentForm DEF EInv, Progress, Rounds
  <1>3. Accepts(a) => \A i \in DOMAIN asked[n] : Consented(n, i)
    <2>1. Accepts(a) => Consented(n, r)
      BY DEF Consented, CurrentId
    <2> QED
      BY <1>2, <2>1
  <1>4. CASE Accepts(a) /\ r < Rounds(m)
    <2>1. task' = [task EXCEPT ![n] = "running"] /\ UNCHANGED result
      BY <1>4 DEF Continue
    <2>2. Progress'
      BY <1>1, <1>2, <1>3, <1>4, <2>1 DEF EInv, Progress, Consented
    <2>3. ConfirmedOnlyByUser'
      BY <1>2, <2>1 DEF EInv, ConfirmedOnlyByUser
    <2> QED
      BY <1>1, <2>1, <2>2, <2>3
  <1>5. CASE ~(Accepts(a) /\ r < Rounds(m))
    <2> DEFINE res == WorkflowResult(m, r, a)
    <2>1. task' = [task EXCEPT ![n] = "responding"] /\ result' = [result EXCEPT ![n] = res]
      BY <1>5 DEF Continue
    <2>2. res = "confirmed" => Accepts(a)
      BY WorkflowAgrees
    <2> HIDE DEF res
    <2>3. Progress'
      BY <1>1, <1>2, <2>1 DEF EInv, Progress, Consented
    <2>4. res = "confirmed" => r = Rounds(m) /\ \A i \in DOMAIN asked[n] : Consented(n, i)
      BY <1>2, <1>3, <1>5, <2>2
    <2>5. ConfirmedOnlyByUser'
      BY <1>1, <2>1, <2>4 DEF EInv, ConfirmedOnlyByUser, Consented
    <2> QED
      BY <1>1, <2>1, <2>3, <2>5
  <1> QED
    BY <1>4, <1>5

LEMMA FormsElicitSend ==
    ASSUME TInv, EInv, NEW n \in CallIds, UNCHANGED clientVars, TaskElicitSend(n)
    PROVE  EInv'
  <1> DEFINE msg == [kind |-> "request", id |-> CurrentId(n), body |-> "elicitation/create"]
  <1>0. /\ task[n] = "registered"
        /\ UNCHANGED <<handler, answer, tmethod, asked, sNextId, sReply>>
    BY DEF TaskElicitSend, clientVars
  <1>1. /\ CurrentId(n) \in ElicitIds /\ CurrentId(n) \in sPending
        /\ Forms(CurrentId(n)) = 0 /\ handler[CurrentId(n)] = "none"
        /\ CurrentId(n) < sNextId
    BY <1>0, CurrentForm DEF EInv, AskedOnce, OwnForms
  <1>2. UpKeeps /\ (DownKeeps \/ DownGains(msg))
    <2>1. msg \in ToClient
      BY <1>1 DEF ToClient
    <2> QED
      BY <2>1, UpFlow, DownFlow DEF TaskElicitSend, pipeVars, clientVars
  <1>3. ASSUME NEW k \in CallIds, task[k] = "registered", k # n
        PROVE  /\ CurrentId(k) \in ElicitIds /\ CurrentId(k)' = CurrentId(k)
               /\ CurrentId(k) # CurrentId(n)
    BY <1>0, <1>3, CurrentForm DEF CurrentId, EInv, OwnForms
  <1>4. task \in [CallIds -> TaskStates]
    BY DEF TInv, TypeOK, ServerTypeOK
  <1>5. /\ Progress' /\ ConfirmedOnlyByUser'
        /\ task'[n] \in {"awaiting", "running", "responding"}
        /\ \A k \in CallIds \ {n} : task'[k] = task[k]
    <2>1. CASE task' = [task EXCEPT ![n] = "awaiting"] /\ UNCHANGED result
      BY <1>0, <1>4, <2>1 DEF EInv, Progress, ConfirmedOnlyByUser, Consented
    <2>2. CASE Continue(n, "cancel")
      BY <1>0, <2>2, FormsContinue DEF Accepts
    <2> QED
      BY <2>1, <2>2 DEF TaskElicitSend
  <1>6. \A e \in ElicitIds : /\ FormReplies(e)' = FormReplies(e)
                             /\ Forms(e)' \in Nat /\ Forms(e)' <= Forms(e) + One(e = CurrentId(n))
    BY <1>2, FlowTypes DEF UpKeeps, DownKeeps, DownGains, One
  <1>7. sPending \ {CurrentId(n)} \subseteq sPending'
    BY DEF TaskElicitSend
  <1>8. AskedOnce'
    <2>1. ASSUME NEW e \in ElicitIds
          PROVE  /\ Forms(e)' + One(handler'[e] # "none") <= One(e < sNextId')
                 /\ FormReplies(e)' <= One(handler'[e] = "done")
      BY <1>0, <1>1, <1>6, FlowTypes DEF EInv, AskedOnce, One
    <2>2. ASSUME NEW k \in CallIds, task'[k] = "registered"
          PROVE  CurrentId(k)' \in sPending' /\ Forms(CurrentId(k))' = 0 /\ handler'[CurrentId(k)'] = "none"
      <3>1. k # n /\ task[k] = "registered"
        BY <1>5, <2>2
      <3>2. /\ CurrentId(k) \in ElicitIds /\ CurrentId(k)' = CurrentId(k)
            /\ CurrentId(k) # CurrentId(n)
        BY <1>3, <3>1
      <3>3. /\ CurrentId(k) \in sPending /\ Forms(CurrentId(k)) = 0
            /\ handler[CurrentId(k)] = "none"
        BY <3>1 DEF EInv, AskedOnce
      <3>4. Forms(CurrentId(k))' = 0
        BY <1>6, <3>2, <3>3 DEF One
      <3> QED
        BY <1>0, <1>7, <3>2, <3>3, <3>4
    <2> QED
      BY <2>1, <2>2 DEF AskedOnce
  <1>9. OwnForms'
    BY <1>0, <1>5 DEF EInv, OwnForms
  <1>10. OwnAnswers'
    BY <1>0, <1>2 DEF EInv, OwnAnswers, UpKeeps
  <1> QED
    BY <1>5, <1>8, <1>9, <1>10 DEF EInv

LEMMA FormsResume ==
    ASSUME TInv, EInv, NEW n \in CallIds, UNCHANGED clientVars, TaskResume(n)
    PROVE  EInv'
  <1> DEFINE e == CurrentId(n)
             a == IF sReply[e] = "none" THEN "cancel" ELSE ParseResponse(sReply[e])
  <1>1. UpKeeps /\ DownKeeps
    BY UpFlow, DownFlow DEF TaskResume, pipeVars, clientVars
  <1>2. /\ task[n] = "awaiting" /\ Continue(n, a)
        /\ UNCHANGED <<handler, answer, tmethod, asked, sNextId, sPending, sReply>>
    BY DEF TaskResume, clientVars
  <1>3. e \in ElicitIds
    BY <1>2, CurrentForm
  <1>4. Accepts(a) => Accepts(answer[e])
    BY <1>3 DEF EInv, OwnAnswers, ParseResponse, Accepts
  <1> HIDE DEF a
  <1>5. /\ Progress' /\ ConfirmedOnlyByUser'
        /\ task'[n] \in {"running", "responding"}
        /\ \A k \in CallIds \ {n} : task'[k] = task[k]
    BY <1>2, <1>4, FormsContinue
  <1>6. AskedOnce'
    <2>1. ASSUME NEW k \in CallIds, task'[k] = "registered"
          PROVE  /\ task[k] = "registered"
                 /\ CurrentId(k) \in ElicitIds /\ CurrentId(k)' = CurrentId(k)
      BY <1>2, <1>5, <2>1, CurrentForm DEF CurrentId
    <2> QED
      BY <1>1, <1>2, <2>1 DEF EInv, AskedOnce, UpKeeps, DownKeeps
  <1>7. OwnForms' /\ OwnAnswers'
    BY <1>1, <1>2, <1>5 DEF EInv, OwnForms, OwnAnswers, UpKeeps
  <1> QED
    BY <1>5, <1>6, <1>7 DEF EInv

LEMMA FormsStep == TInv /\ RInv /\ EInv /\ [Next]_vars => EInv'
  <1> SUFFICES ASSUME TInv, RInv, EInv, [Next]_vars PROVE EInv'
    OBVIOUS
  <1>1. CASE UNCHANGED vars
    <2>1. UpKeeps /\ DownKeeps
      BY <1>1, UpFlow, DownFlow DEF vars, pipeVars, clientVars, serverVars
    <2>2. UNCHANGED <<handler, answer, task, tmethod, asked, result, sNextId, sPending, sReply>>
      BY <1>1 DEF vars, clientVars, serverVars
    <2> QED
      BY <2>1, <2>2, FlowTypes, FormsQuiet DEF UpKeeps, DownKeeps
  <1>2. ASSUME \/ Begin \/ \E n \in CallIds : Calling(n)
               \/ ClientReading \/ ClientWriting \/ Dropping \/ ClientEnding
        PROVE  EInv'
    BY <1>2, FormsClientQuiet, FormsReaderRequest
       DEF Begin, Calling, ClientReading, ClientReader, ClientWriting, ClientWriter, Dropping,
           ClientEnding
  <1>3. ASSUME ServerLooping \/ ServerReading \/ ServerWriting \/ ServerEnding
        PROVE  EInv'
    BY <1>3, FormsServerQuiet, FormsMainRequest, FormsMainResponse
       DEF ServerLooping, ServerMain, ServerReading, ServerReader, ServerWriting, ServerWriter,
           ServerEnding
  <1>4. ASSUME NEW n \in CallIds, Serving(n) PROVE EInv'
    BY <1>4, FormsPlain, FormsElicit, FormsElicitSend, FormsResume DEF Serving, TaskStep
  <1> QED
    BY <1>1, <1>2, <1>3, <1>4, FormsHandler DEF Next

\* A write is reported as confirmed only when the user accepted every form of
\* that very workflow, whatever the transport loses and however workflows
\* interleave (elicit and deliver_response in elicit.rs, tools.rs).
THEOREM ConfirmedByUser == Spec => []ConfirmedOnlyByUser
  <1>1. EInv => ConfirmedOnlyByUser
    BY DEF EInv
  <1> QED
    BY <1>1, InitType, NextType, CallsInit, CallsStep, FormsInit, FormsStep, PTL DEF Spec

-----------------------------------------------------------------------------
(***************************************************************************)
(* Nothing is lost while the session is up.                                *)
(***************************************************************************)

\* Where what call n waits for is, and where the answer to form e is.
CallFlight(n) == Requests(n) + One(task[n] \notin {"none", "done"}) + Responses(n)
FormFlight(e) ==
    Forms(e) + One(handler[e] \in {"asking", "answered"}) + FormReplies(e) + One(e \notin sPending)

CallsInFlight == SessionUp => \A n \in pending : call[n] = "waiting" => CallFlight(n) = 1
FormsInFlight ==
    SessionUp => \A n \in CallIds : task[n] = "awaiting" => FormFlight(CurrentId(n)) = 1

\* A session that is down stays down, and every step by which a task of
\* either process stops takes it down.
LEMMA SessionStaysUp ==
    ASSUME TInv, [Next]_vars, SessionUp'
    PROVE  /\ SessionUp
           /\ ~(ReaderEof \/ ReaderDrain \/ WriterStop \/ ClientExit)
           /\ ~(MainClose \/ MainReturn \/ SReaderEof \/ SWriterStop \/ ServerExit)
  <1>1. ~(ReaderEof \/ ReaderDrain \/ WriterStop \/ ClientExit)
    BY DEF SessionUp, ReaderEof, ReaderDrain, WriterStop, ClientExit
  <1>2. ~(MainClose \/ MainReturn \/ SReaderEof \/ SWriterStop \/ ServerExit)
    BY DEF SessionUp, MainClose, MainReturn, SReaderEof, SWriterStop, ServerExit
  <1>3. CASE UNCHANGED vars
    BY <1>1, <1>2, <1>3 DEF vars, SessionUp, pipeVars, clientVars, serverVars
  <1>4. ASSUME UNCHANGED serverVars,
               \/ Begin \/ \E n \in CallIds : Calling(n)
               \/ \E e \in ElicitIds : Answering(e) \/ Replying(e)
               \/ ReaderResponse \/ ReaderRequest \/ WriterSend \/ ClientDrop
        PROVE  SessionUp
    BY <1>4 DEF SessionUp, serverVars, pipeVars, Begin, CallAllocate, Calling, CallStep,
       CallRegister, CallSend, CallReturn, CallNotify, Answering, HandlerAnswer, Replying,
       HandlerSend, ReaderResponse, ReaderRequest, WriterSend, ClientDrop
  <1>5. ASSUME UNCHANGED clientVars,
               \/ \E n \in CallIds : TaskStep(n)
               \/ MainRequest \/ MainResponse \/ MainNotification \/ SReaderForward \/ SWriterSend
        PROVE  SessionUp
    BY <1>5 DEF SessionUp, clientVars, pipeVars, TaskStep, TaskPlain, TaskElicit, TaskElicitSend,
       TaskResume, TaskRespond, MainRequest, MainResponse, MainNotification, SReaderForward,
       SWriterSend
  <1>6. ASSUME Next PROVE SessionUp
    <2>1. ASSUME \/ Begin \/ \E n \in CallIds : Calling(n)
                 \/ \E e \in ElicitIds : Answering(e) \/ Replying(e)
                 \/ ClientReading \/ ClientWriting \/ Dropping \/ ClientEnding
          PROVE  SessionUp
      BY <1>1, <1>4, <2>1 DEF Begin, Calling, Answering, Replying, ClientReading, ClientReader,
         ClientWriting, ClientWriter, Dropping, ClientEnding
    <2>2. ASSUME \/ \E n \in CallIds : Serving(n)
                 \/ ServerLooping \/ ServerReading \/ ServerWriting \/ ServerEnding
          PROVE  SessionUp
      BY <1>2, <1>5, <2>2 DEF Serving, ServerLooping, ServerMain, ServerReading, ServerReader,
         ServerWriting, ServerWriter, ServerEnding
    <2> QED
      BY <1>6, <2>1, <2>2 DEF Next
  <1> QED
    BY <1>1, <1>2, <1>3, <1>6

\* A step that moves messages and leaves the calls and their tasks alone.
LEMMA CallFlightQuiet ==
    ASSUME TInv, CallsInFlight, SessionUp,
           \A n \in CallIds : Requests(n)' = Requests(n) /\ Responses(n)' = Responses(n),
           pending' \subseteq pending, UNCHANGED <<call, task>>
    PROVE  CallsInFlight'
  <1>1. pending \subseteq CallIds
    BY DEF TInv, TypeOK, ClientTypeOK
  <1> QED
    BY <1>1 DEF CallsInFlight, CallFlight

LEMMA CallFlightCall ==
    ASSUME TInv, RInv, CallsInFlight, SessionUp, SessionUp', NEW n \in CallIds, Calling(n)
    PROVE  CallsInFlight'
  <1>0. UNCHANGED <<task, inbound, outbound>>
    BY DEF Calling, serverVars
  <1> USE DEF CallsInFlight, CallFlight
  <1>1. call \in [CallIds -> CallStates] /\ pending \subseteq CallIds
    BY DEF TInv, TypeOK, ClientTypeOK
  <1>2. DownKeeps
    BY <1>0, DownFlow DEF Calling, CallStep, CallRegister, CallSend, CallReturn, CallNotify, pipeVars
  <1>3. CASE CallRegister(n)
    <2>1. UpKeeps
      BY <1>0, <1>3, UpFlow DEF CallRegister, pipeVars
    <2>2. pending' = pending \cup {n} /\ call' = [call EXCEPT ![n] = "registered"]
      BY <1>3 DEF CallRegister
    <2> QED
      BY <1>0, <1>1, <1>2, <2>1, <2>2 DEF UpKeeps, DownKeeps
  <1>4. CASE CallSend(n)
    <2>1. /\ call[n] = "registered" /\ outbox' = Append(outbox, CallRequest(n))
          /\ call' = [call EXCEPT ![n] = "waiting"] /\ UNCHANGED <<pending, c2s, inbound>>
      BY <1>0, <1>4 DEF CallSend, SessionUp, pipeVars
    <2>2. UpGains(CallRequest(n))
      <3>1. CallRequest(n) \in ToServer
        BY <2>1 DEF CallRequest, ToServer, TInv, Defined
      <3> QED
        BY <2>1, <3>1, UpFlow
    <2>3. Requests(n) = 0 /\ task[n] = "none" /\ Responses(n) = 0
      <3>1. Requests(n) + One(task[n] # "none") <= 0 /\ Responses(n) <= One(task[n] = "done")
        BY <2>1 DEF RInv, ServedOnce, One
      <3> QED
        BY <3>1, FlowTypes DEF One
    <2>4. \A k \in CallIds : /\ Requests(k)' = Requests(k) + One(k = n)
                             /\ Responses(k)' = Responses(k)
      BY <1>2, <2>2 DEF UpGains, DownKeeps, CallRequest, One
    <2> QED
      BY <1>0, <1>1, <2>1, <2>3, <2>4, FlowTypes DEF One
  <1>5. CASE CallReturn(n) \/ CallNotify(n)
    <2> DEFINE msg == [kind |-> "notification", id |-> 0, body |-> "initialized"]
    <2>1. UpKeeps \/ UpGains(msg)
      <3>1. msg \in ToServer
        BY DEF ToServer
      <3> QED
        BY <1>0, <1>5, <3>1, UpFlow DEF CallReturn, CallNotify, pipeVars
    <2>2. \A k \in CallIds : Requests(k)' = Requests(k) /\ Responses(k)' = Responses(k)
      BY <1>2, <2>1, FlowTypes DEF UpKeeps, UpGains, DownKeeps, One
    <2>3. /\ call'[n] \in {"notifying", "done"} /\ \A k \in CallIds \ {n} : call'[k] = call[k]
          /\ UNCHANGED pending
      BY <1>1, <1>5 DEF CallReturn, CallNotify
    <2> QED
      BY <1>0, <1>1, <2>2, <2>3
  <1> QED
    BY <1>3, <1>4, <1>5 DEF Calling, CallStep

LEMMA CallFlightTask ==
    ASSUME TInv, RInv, CallsInFlight, SessionUp, NEW n \in CallIds, Serving(n)
    PROVE  CallsInFlight'
  <1>0. UNCHANGED <<call, pending, outbox>>
    BY DEF Serving, clientVars
  <1>1. task \in [CallIds -> TaskStates] /\ pending \subseteq CallIds
    BY DEF TInv, TypeOK, ClientTypeOK, ServerTypeOK
  <1>2. UpKeeps
    BY <1>0, UpFlow DEF Serving, TaskStep, TaskPlain, TaskElicit, TaskElicitSend, TaskResume,
       TaskRespond, pipeVars
  <1>3. CASE TaskRespond(n)
    <2> DEFINE msg == [kind |-> "response", id |-> n, body |-> result[n]]
    <2>1. /\ task[n] = "responding" /\ task' = [task EXCEPT ![n] = "done"]
          /\ outbound' = Append(outbound, msg) /\ UNCHANGED s2c
      BY <1>3 DEF TaskRespond, SessionUp, pipeVars
    <2>2. DownGains(msg)
      <3>1. msg \in ToClient
        BY <2>1 DEF Defined, ToClient, TInv
      <3> QED
        BY <2>1, <3>1, DownFlow
    <2>3. \A k \in CallIds : /\ Requests(k)' = Requests(k)
                             /\ Responses(k)' = Responses(k) + One(k = n)
      BY <1>2, <2>2 DEF UpKeeps, DownGains, One
    <2>4. ASSUME NEW k \in CallIds PROVE CallFlight(k)' = CallFlight(k)
      <3>1. Requests(k) \in Nat /\ Responses(k) \in Nat
        BY FlowTypes
      <3>2. One(task[k] \notin {"none", "done"}) = One(task'[k] \notin {"none", "done"}) + One(k = n)
        BY <1>1, <2>1 DEF One
      <3>3. /\ Requests(k)' = Requests(k) /\ Responses(k)' = Responses(k) + One(k = n)
            /\ One(k = n) \in Nat /\ One(task'[k] \notin {"none", "done"}) \in Nat
        BY <2>3 DEF One
      <3> QED
        BY <3>1, <3>2, <3>3 DEF CallFlight
    <2> QED
      BY <1>0, <1>1, <2>4 DEF CallsInFlight
  <1>4. CASE TaskPlain(n) \/ TaskElicit(n) \/ TaskElicitSend(n) \/ TaskResume(n)
    <2> DEFINE msg == [kind |-> "request", id |-> CurrentId(n), body |-> "elicitation/create"]
    <2>1. DownKeeps \/ DownGains(msg)
      <3>1. task[n] = "registered" => msg \in ToClient
        BY CurrentForm DEF ToClient
      <3> QED
        BY <1>0, <1>4, <3>1, DownFlow
           DEF TaskPlain, TaskElicit, TaskElicitSend, TaskResume, pipeVars
    <2>2. \A k \in CallIds : Requests(k)' = Requests(k) /\ Responses(k)' = Responses(k)
      BY <1>2, <2>1, FlowTypes DEF UpKeeps, DownKeeps, DownGains, One
    <2>3. task[n] \notin {"none", "done"} /\ \E t \in TaskStates \ {"none", "done"} :
             task' = [task EXCEPT ![n] = t]
      BY <1>4 DEF TaskPlain, TaskElicit, TaskElicitSend, TaskResume, Continue, TaskStates
    <2>4. \A k \in CallIds : CallFlight(k)' = CallFlight(k)
      BY <1>1, <2>2, <2>3 DEF CallFlight
    <2> QED
      BY <1>0, <1>1, <2>4 DEF CallsInFlight
  <1> QED
    BY <1>3, <1>4 DEF Serving, TaskStep

LEMMA CallFlightStep ==
    ASSUME TInv, RInv, CallsInFlight, [Next]_vars
    PROVE  CallsInFlight'
  <1>0. CASE ~SessionUp'
    BY <1>0 DEF CallsInFlight
  <1>1. CASE SessionUp'
    <2>0. SessionUp
      BY <1>1, SessionStaysUp
    <2>t. /\ task \in [CallIds -> TaskStates] /\ call \in [CallIds -> CallStates]
          /\ pending \subseteq CallIds
      BY DEF TInv, TypeOK, ClientTypeOK, ServerTypeOK
    <2>1. ASSUME UpKeeps, DownKeeps, pending' = pending, UNCHANGED <<call, task>>
          PROVE  CallsInFlight'
      BY <2>0, <2>1, CallFlightQuiet DEF UpKeeps, DownKeeps
    <2>2. CASE Begin
      <3>1. UpKeeps /\ DownKeeps
        BY <2>2, UpFlow, DownFlow DEF Begin, CallAllocate, pipeVars, serverVars
      <3>2. /\ call' = [call EXCEPT ![nextId] = "allocated"]
            /\ UNCHANGED <<pending, task>>
        BY <2>2 DEF Begin, CallAllocate, serverVars
      <3> QED
        BY <2>0, <2>t, <3>1, <3>2 DEF CallsInFlight, CallFlight, UpKeeps, DownKeeps
    <2>3. CASE ClientReading
      <3>1. CASE ReaderResponse
        <4> DEFINE r == Head(s2c)
        <4>1. UpKeeps /\ DownLoses(r) /\ r.kind = "response"
          BY <2>3, <3>1, UpFlow, DownFlow DEF ReaderResponse, ClientReading, serverVars
        <4>2. pending' = pending \ {r.id} /\ UNCHANGED <<call, task>>
          BY <2>3, <3>1 DEF ReaderResponse, ClientReading, serverVars
        <4> HIDE DEF r
        <4>3. \A n \in CallIds \ {r.id} :
                 Requests(n)' = Requests(n) /\ Responses(n)' = Responses(n)
          BY <4>1, FlowTypes DEF UpKeeps, DownLoses, One
        <4> QED
          BY <2>0, <2>t, <4>2, <4>3 DEF CallsInFlight, CallFlight
      <3>2. CASE ReaderRequest
        <4>1. UpKeeps /\ DownLoses(Head(s2c)) /\ Head(s2c).kind = "request"
          BY <2>3, <3>2, UpFlow, DownFlow DEF ReaderRequest, ClientReading, serverVars
        <4>2. \A n \in CallIds : Requests(n)' = Requests(n) /\ Responses(n)' = Responses(n)
          BY <4>1, FlowTypes DEF UpKeeps, DownLoses, One
        <4>3. UNCHANGED <<pending, call, task>>
          BY <2>3, <3>2 DEF ReaderRequest, ClientReading, serverVars
        <4> QED
          BY <2>0, <4>2, <4>3, CallFlightQuiet
      <3> QED
        BY <1>1, <2>3, <3>1, <3>2, SessionStaysUp DEF ClientReading, ClientReader
    <2>4. CASE ClientWriting \/ Dropping \/ ClientEnding
      <3>1. WriterSend \/ ClientDrop
        BY <1>1, <2>4, SessionStaysUp DEF ClientWriting, ClientWriter, Dropping, ClientEnding
      <3>2. UNCHANGED serverVars
        BY <2>4 DEF ClientWriting, Dropping, ClientEnding
      <3>3. UpKeeps /\ DownKeeps
        BY <3>1, <3>2, UpFlow, DownFlow DEF WriterSend, ClientDrop, serverVars, pipeVars
      <3> QED
        BY <2>1, <3>1, <3>2, <3>3 DEF WriterSend, ClientDrop, serverVars
    <2>5. CASE ServerReading \/ ServerWriting \/ ServerEnding
      <3>1. SReaderForward \/ SWriterSend
        BY <1>1, <2>5, SessionStaysUp
           DEF ServerReading, ServerReader, ServerWriting, ServerWriter, ServerEnding
      <3>2. UNCHANGED clientVars
        BY <2>5 DEF ServerReading, ServerWriting, ServerEnding
      <3>3. UpKeeps /\ DownKeeps
        BY <3>1, <3>2, UpFlow, DownFlow DEF SReaderForward, SWriterSend, clientVars
      <3> QED
        BY <2>1, <3>1, <3>2, <3>3 DEF SReaderForward, SWriterSend, clientVars
    <2>6. CASE ServerLooping
      <3>0. UNCHANGED clientVars
        BY <2>6 DEF ServerLooping
      <3>1. CASE MainRequest
        <4> DEFINE req == Head(inbound)
        <4>1. UpLoses(req) /\ DownKeeps
          BY <3>0, <3>1, UpFlow, DownFlow DEF MainRequest, pipeVars, clientVars
        <4>2. req.kind = "request" /\ req.id \in CallIds
          BY <3>1, <4>1, FlowTypes, ToServerFields DEF MainRequest, UpLoses
        <4>3. task[req.id] = "none"
          <5>1. Requests(req.id) >= 1 /\ Requests(req.id) \in Nat
            BY <4>1, <4>2, Counted, FlowTypes DEF UpLoses
          <5> QED
            BY <4>2, <5>1 DEF RInv, ServedOnce, One
        <4>4. task' = [task EXCEPT ![req.id] = "running"] /\ UNCHANGED <<pending, call>>
          BY <3>0, <3>1 DEF MainRequest, clientVars
        <4> HIDE DEF req
        <4>5. ASSUME NEW k \in CallIds PROVE CallFlight(k)' = CallFlight(k)
          <5>1. /\ Requests(k) = Requests(k)' + One(k = req.id) /\ Requests(k)' \in Nat
                /\ Responses(k)' = Responses(k) /\ Responses(k) \in Nat
            BY <4>1, <4>2, FlowTypes DEF UpLoses, DownKeeps, One
          <5>2. One(task'[k] \notin {"none", "done"})
                  = One(task[k] \notin {"none", "done"}) + One(k = req.id)
            BY <2>t, <4>2, <4>3, <4>4 DEF One
          <5>3. One(k = req.id) \in Nat /\ One(task[k] \notin {"none", "done"}) \in Nat
            BY DEF One
          <5> QED
            BY <5>1, <5>2, <5>3 DEF CallFlight
        <4> QED
          BY <2>0, <2>t, <4>4, <4>5 DEF CallsInFlight
      <3>2. CASE MainResponse \/ MainNotification
        <4>1. UpLoses(Head(inbound)) /\ Head(inbound).kind # "request" /\ DownKeeps
          BY <3>0, <3>2, UpFlow, DownFlow DEF MainResponse, MainNotification, pipeVars, clientVars
        <4>2. \A n \in CallIds : Requests(n)' = Requests(n) /\ Responses(n)' = Responses(n)
          BY <4>1, FlowTypes DEF UpLoses, DownKeeps, One
        <4>3. UNCHANGED <<pending, call, task>>
          BY <3>0, <3>2 DEF MainResponse, MainNotification, clientVars
        <4> QED
          BY <2>0, <4>2, <4>3, CallFlightQuiet
      <3> QED
        BY <1>1, <2>6, <3>1, <3>2, SessionStaysUp DEF ServerLooping, ServerMain
    <2>7. ASSUME NEW e \in ElicitIds, Answering(e) \/ Replying(e) PROVE CallsInFlight'
      <3> DEFINE msg == [kind |-> "response", id |-> e, body |-> answer[e]]
      <3>0. UNCHANGED serverVars
        BY <2>7 DEF Answering, Replying
      <3>1. DownKeeps /\ (UpKeeps \/ UpGains(msg))
        <4>1. handler[e] = "answered" => msg \in ToServer
          BY DEF TInv, Defined, ToServer
        <4> QED
          BY <2>7, <3>0, <4>1, UpFlow, DownFlow
             DEF Answering, Replying, HandlerAnswer, HandlerSend, pipeVars, serverVars
      <3>2. \A n \in CallIds : Requests(n)' = Requests(n) /\ Responses(n)' = Responses(n)
        BY <3>1, FlowTypes DEF UpKeeps, UpGains, DownKeeps, One
      <3>3. UNCHANGED <<pending, call, task>>
        BY <2>7, <3>0 DEF Answering, Replying, HandlerAnswer, HandlerSend, serverVars
      <3> QED
        BY <2>0, <3>2, <3>3, CallFlightQuiet
    <2>8. CASE UNCHANGED vars
      <3>1. UpKeeps /\ DownKeeps
        BY <2>8, UpFlow, DownFlow DEF vars, pipeVars, clientVars, serverVars
      <3> QED
        BY <2>1, <2>8, <3>1 DEF vars, clientVars, serverVars
    <2> QED
      BY <1>1, <2>0, <2>2, <2>3, <2>4, <2>5, <2>6, <2>7, <2>8, CallFlightCall, CallFlightTask
         DEF Next
  <1> QED
    BY <1>0, <1>1

\* A step that starts no wait and keeps the count of every form waited for.
LEMMA FormFlightKept ==
    ASSUME TInv, FormsInFlight, SessionUp,
           \A n \in CallIds : task'[n] = "awaiting" => task[n] = "awaiting" /\ asked'[n] = asked[n],
           \A n \in CallIds : \A e \in ElicitIds :
              task[n] = "awaiting" /\ task'[n] = "awaiting" /\ e = CurrentId(n) =>
                 FormFlight(e)' = FormFlight(e) \/ FormFlight(e)' = 1
    PROVE  FormsInFlight'
  <1> SUFFICES ASSUME NEW n \in CallIds, task'[n] = "awaiting"
               PROVE  FormFlight(CurrentId(n))' = 1
    BY DEF FormsInFlight
  <1>1. CurrentId(n)' = CurrentId(n) /\ CurrentId(n) \in ElicitIds
    BY CurrentForm DEF CurrentId
  <1>2. FormFlight(CurrentId(n)) = 1
    BY DEF FormsInFlight
  <1> QED
    BY <1>1, <1>2

\* What moves no form and no answer, and changes no handler and no waiter.
LEMMA FormFlightQuiet ==
    ASSUME TInv, FormsInFlight, SessionUp,
           \A n \in CallIds : task'[n] = "awaiting" => task[n] = "awaiting" /\ asked'[n] = asked[n],
           \A e \in ElicitIds : Forms(e)' = Forms(e) /\ FormReplies(e)' = FormReplies(e),
           UNCHANGED <<handler, sPending>>
    PROVE  FormsInFlight'
  <1>1. \A e \in ElicitIds : FormFlight(e)' = FormFlight(e)
    BY DEF FormFlight
  <1> QED
    BY <1>1, FormFlightKept

LEMMA FormFlightClient ==
    ASSUME TInv, EInv, FormsInFlight, SessionUp, SessionUp', [Next]_vars,
           \/ Begin \/ \E n \in CallIds : Calling(n)
           \/ \E e \in ElicitIds : Answering(e) \/ Replying(e)
           \/ ClientReading \/ ClientWriting \/ Dropping \/ ClientEnding
    PROVE  FormsInFlight'
  <1>0. UNCHANGED serverVars
    BY DEF Begin, Calling, Answering, Replying, ClientReading, ClientWriting, Dropping, ClientEnding
  <1>1. UNCHANGED <<task, asked, sPending, inbound, outbound>>
    BY <1>0 DEF serverVars
  <1>t. handler \in [ElicitIds -> {"none", "asking", "answered", "done"}]
    BY DEF TInv, TypeOK, ClientTypeOK
  <1>2. CASE Begin \/ \E n \in CallIds : Calling(n)
    <2>1. UNCHANGED handler /\ DownKeeps
      BY <1>1, <1>2, DownFlow DEF Begin, CallAllocate, Calling, CallStep, CallRegister, CallSend,
         CallReturn, CallNotify, pipeVars
    <2>2. UpKeeps \/ \E x \in ToServer : x.kind # "response" /\ UpGains(x)
      <3>1. ASSUME NEW n \in CallIds, CallSend(n)
            PROVE  UpKeeps \/ \E x \in ToServer : x.kind # "response" /\ UpGains(x)
        <4>1. CallRequest(n) \in ToServer /\ CallRequest(n).kind # "response"
          BY <3>1 DEF CallSend, CallRequest, ToServer, TInv, Defined
        <4> QED
          BY <1>1, <3>1, <4>1, UpFlow DEF CallSend, pipeVars
      <3>2. ASSUME NEW n \in CallIds, CallNotify(n)
            PROVE  UpKeeps \/ \E x \in ToServer : x.kind # "response" /\ UpGains(x)
        <4> DEFINE msg == [kind |-> "notification", id |-> 0, body |-> "initialized"]
        <4>1. msg \in ToServer /\ msg.kind # "response"
          BY DEF ToServer
        <4> QED
          BY <1>1, <3>2, <4>1, UpFlow DEF CallNotify, pipeVars
      <3>3. ASSUME Begin \/ \E n \in CallIds : CallRegister(n) \/ CallReturn(n) PROVE UpKeeps
        BY <1>1, <3>3, UpFlow DEF Begin, CallAllocate, CallRegister, CallReturn, pipeVars
      <3> QED
        BY <1>2, <3>1, <3>2, <3>3 DEF Calling, CallStep
    <2>3. \A e \in ElicitIds : Forms(e)' = Forms(e) /\ FormReplies(e)' = FormReplies(e)
      BY <2>1, <2>2, FlowTypes DEF UpKeeps, UpGains, DownKeeps, One
    <2> QED
      BY <1>1, <2>1, <2>3, FormFlightQuiet
  <1>3. CASE ClientWriting \/ Dropping \/ ClientEnding
    <2>1. WriterSend \/ ClientDrop
      BY <1>3, SessionStaysUp DEF ClientWriting, ClientWriter, Dropping, ClientEnding
    <2>2. UpKeeps /\ DownKeeps
      BY <1>0, <1>1, <2>1, UpFlow, DownFlow DEF WriterSend, ClientDrop, pipeVars
    <2>3. UNCHANGED handler
      BY <2>1 DEF WriterSend, ClientDrop
    <2> QED
      BY <1>1, <2>2, <2>3, FormFlightQuiet DEF UpKeeps, DownKeeps
  <1>4. CASE ClientReading
    <2>1. CASE ReaderResponse
      <3>1. UpKeeps /\ DownLoses(Head(s2c)) /\ Head(s2c).kind = "response" /\ UNCHANGED handler
        BY <1>1, <2>1, UpFlow, DownFlow DEF ReaderResponse
      <3>2. \A e \in ElicitIds : Forms(e)' = Forms(e) /\ FormReplies(e)' = FormReplies(e)
        BY <3>1, FlowTypes DEF UpKeeps, DownLoses, One
      <3> QED
        BY <1>1, <3>1, <3>2, FormFlightQuiet
    <2>2. CASE ReaderRequest
      <3> DEFINE q == Head(s2c)
      <3>1. UpKeeps /\ DownLoses(q) /\ q.kind = "request"
        BY <1>1, <2>2, UpFlow, DownFlow DEF ReaderRequest
      <3>2. q.id \in ElicitIds /\ handler' = [handler EXCEPT ![q.id] = "asking"]
        BY <2>2, <3>1, FlowTypes, ToClientFields DEF ReaderRequest, DownLoses
      <3>3. handler[q.id] = "none"
        <4>1. Forms(q.id) >= 1 /\ Forms(q.id) \in Nat
          BY <3>1, <3>2, Counted, FlowTypes DEF DownLoses
        <4> QED
          BY <3>2, <4>1 DEF EInv, AskedOnce, One
      <3> HIDE DEF q
      <3>4. ASSUME NEW e \in ElicitIds PROVE FormFlight(e)' = FormFlight(e)
        <4>1. /\ Forms(e) = Forms(e)' + One(e = q.id) /\ Forms(e)' \in Nat
              /\ FormReplies(e)' = FormReplies(e) /\ FormReplies(e) \in Nat
          BY <3>1, <3>2, FlowTypes DEF UpKeeps, DownLoses, One
        <4>2. /\ One(handler'[e] \in {"asking", "answered"})
                   = One(handler[e] \in {"asking", "answered"}) + One(e = q.id)
              /\ One(handler[e] \in {"asking", "answered"}) \in Nat
              /\ One(e = q.id) \in Nat /\ One(e \notin sPending) \in Nat
          BY <1>t, <3>2, <3>3 DEF One
        <4> QED
          BY <1>1, <4>1, <4>2 DEF FormFlight
      <3> QED
        BY <1>1, <3>4, FormFlightKept
    <2> QED
      BY <1>4, <2>1, <2>2, SessionStaysUp DEF ClientReading, ClientReader
  <1>5. ASSUME NEW e \in ElicitIds, Answering(e) PROVE FormsInFlight'
    <2>1. PICK a \in UserAnswers : HandlerAnswer(e, a)
      BY <1>5 DEF Answering
    <2>2. UpKeeps /\ DownKeeps
      BY <1>1, <2>1, UpFlow, DownFlow DEF HandlerAnswer, pipeVars
    <2>3. handler[e] = "asking" /\ handler' = [handler EXCEPT ![e] = "answered"]
      BY <2>1 DEF HandlerAnswer
    <2>4. \A f \in ElicitIds : FormFlight(f)' = FormFlight(f)
      BY <1>1, <1>t, <2>2, <2>3 DEF FormFlight, UpKeeps, DownKeeps
    <2> QED
      BY <1>1, <2>4, FormFlightKept
  <1>6. ASSUME NEW e \in ElicitIds, Replying(e) PROVE FormsInFlight'
    <2> DEFINE msg == [kind |-> "response", id |-> e, body |-> answer[e]]
    <2>1. /\ handler[e] = "answered" /\ handler' = [handler EXCEPT ![e] = "done"]
          /\ outbox' = Append(outbox, msg) /\ UNCHANGED <<c2s, s2c>>
      BY <1>6 DEF Replying, HandlerSend, SessionUp, pipeVars
    <2>2. UpGains(msg) /\ DownKeeps
      <3>1. msg \in ToServer
        BY <2>1 DEF TInv, Defined, ToServer
      <3> QED
        BY <1>1, <2>1, <3>1, UpFlow, DownFlow
    <2>3. ASSUME NEW f \in ElicitIds PROVE FormFlight(f)' = FormFlight(f)
      <3>1. /\ FormReplies(f)' = FormReplies(f) + One(f = e) /\ Forms(f)' = Forms(f)
            /\ FormReplies(f) \in Nat /\ Forms(f) \in Nat
        BY <2>2, FlowTypes DEF UpGains, DownKeeps, One
      <3>2. /\ One(handler[f] \in {"asking", "answered"})
                 = One(handler'[f] \in {"asking", "answered"}) + One(f = e)
            /\ One(handler'[f] \in {"asking", "answered"}) \in Nat
            /\ One(f = e) \in Nat /\ One(f \notin sPending) \in Nat
        BY <1>t, <2>1 DEF One
      <3> QED
        BY <1>1, <3>1, <3>2 DEF FormFlight
    <2> QED
      BY <1>1, <2>3, FormFlightKept
  <1> QED
    BY <1>2, <1>3, <1>4, <1>5, <1>6

LEMMA FormFlightServer ==
    ASSUME TInv, RInv, EInv, FormsInFlight, SessionUp, SessionUp', [Next]_vars,
           ServerLooping \/ ServerReading \/ ServerWriting \/ ServerEnding
    PROVE  FormsInFlight'
  <1>0. UNCHANGED <<handler, outbox>> /\ UNCHANGED clientVars
    BY DEF ServerLooping, ServerReading, ServerWriting, ServerEnding, clientVars
  <1>t. task \in [CallIds -> TaskStates] /\ asked \in [CallIds -> Seq(ElicitIds)]
    BY DEF TInv, TypeOK, ServerTypeOK
  <1>1. CASE ServerReading \/ ServerWriting \/ ServerEnding
    <2>1. SReaderForward \/ SWriterSend
      BY <1>1, SessionStaysUp
         DEF ServerReading, ServerReader, ServerWriting, ServerWriter, ServerEnding
    <2>2. UpKeeps /\ DownKeeps
      BY <1>0, <2>1, UpFlow, DownFlow DEF SReaderForward, SWriterSend
    <2>3. UNCHANGED <<task, asked, sPending>>
      BY <2>1 DEF SReaderForward, SWriterSend
    <2> QED
      BY <1>0, <2>2, <2>3, FormFlightQuiet DEF UpKeeps, DownKeeps
  <1>2. CASE MainRequest
    <2>1. UpLoses(Head(inbound)) /\ DownKeeps /\ Head(inbound).kind = "request"
      BY <1>0, <1>2, UpFlow, DownFlow DEF MainRequest, pipeVars
    <2>2. \A e \in ElicitIds : Forms(e)' = Forms(e) /\ FormReplies(e)' = FormReplies(e)
      BY <2>1, FlowTypes DEF UpLoses, DownKeeps, One
    <2>3. /\ UNCHANGED sPending
          /\ \A n \in CallIds : task'[n] = "awaiting" => task[n] = "awaiting" /\ asked'[n] = asked[n]
      BY <1>2, <1>t DEF MainRequest
    <2> QED
      BY <1>0, <2>2, <2>3, FormFlightQuiet
  <1>3. CASE MainNotification
    <2>1. UpLoses(Head(inbound)) /\ DownKeeps /\ Head(inbound).kind = "notification"
      BY <1>0, <1>3, UpFlow, DownFlow DEF MainNotification, pipeVars
    <2>2. \A e \in ElicitIds : Forms(e)' = Forms(e) /\ FormReplies(e)' = FormReplies(e)
      BY <2>1, FlowTypes DEF UpLoses, DownKeeps, One
    <2>3. UNCHANGED <<task, asked, sPending>>
      BY <1>3 DEF MainNotification
    <2> QED
      BY <1>0, <2>2, <2>3, FormFlightQuiet
  <1>4. CASE MainResponse
    <2> DEFINE resp == Head(inbound)
    <2>1. UpLoses(resp) /\ DownKeeps /\ resp.kind = "response"
      BY <1>0, <1>4, UpFlow, DownFlow DEF MainResponse, pipeVars
    <2>2. resp.id \in ElicitIds
      BY <2>1, FlowTypes, ToServerFields DEF UpLoses
    <2>3. sPending' = sPending \ {resp.id} /\ UNCHANGED <<task, asked>>
      BY <1>4 DEF MainResponse
    <2>4. FormReplies(resp.id) >= 1
      BY <2>1, <2>2, Counted DEF UpLoses
    <2> HIDE DEF resp
    <2>5. ASSUME NEW n \in CallIds, NEW e \in ElicitIds, task[n] = "awaiting", e = CurrentId(n)
          PROVE  FormFlight(e)' = FormFlight(e)
      <3>1. /\ FormReplies(e) = FormReplies(e)' + One(e = resp.id) /\ FormReplies(e)' \in Nat
            /\ Forms(e)' = Forms(e) /\ Forms(e) \in Nat
        BY <2>1, FlowTypes DEF UpLoses, DownKeeps, One
      <3>2. FormFlight(e) = 1
        BY <2>5 DEF FormsInFlight
      <3>3. e = resp.id => e \in sPending
        <4>1. One(handler[e] \in {"asking", "answered"}) \in Nat
          BY DEF One
        <4> QED
          BY <2>4, <3>1, <3>2, <4>1, FlowTypes DEF FormFlight, One
      <3>4. /\ One(e \notin sPending') = One(e \notin sPending) + One(e = resp.id)
            /\ One(e \notin sPending) \in Nat /\ One(e = resp.id) \in Nat
            /\ One(handler[e] \in {"asking", "answered"}) \in Nat
        BY <2>3, <3>3 DEF One
      <3> QED
        BY <1>0, <3>1, <3>4 DEF FormFlight
    <2> QED
      BY <2>3, <2>5, FormFlightKept
  <1> QED
    BY <1>1, <1>2, <1>3, <1>4, SessionStaysUp DEF ServerLooping, ServerMain

LEMMA FormFlightTask ==
    ASSUME TInv, EInv, FormsInFlight, SessionUp, NEW n \in CallIds, Serving(n)
    PROVE  FormsInFlight'
  <1>0. UNCHANGED <<handler, outbox>>
    BY DEF Serving, clientVars
  <1>t. task \in [CallIds -> TaskStates] /\ asked \in [CallIds -> Seq(ElicitIds)]
    BY DEF TInv, TypeOK, ServerTypeOK
  <1>1. UpKeeps
    BY <1>0, UpFlow DEF Serving, TaskStep, TaskPlain, TaskElicit, TaskElicitSend, TaskResume,
       TaskRespond, pipeVars
  <1>2. CASE TaskPlain(n) \/ TaskResume(n) \/ TaskRespond(n)
    <2> DEFINE msg == [kind |-> "response", id |-> n, body |-> result[n]]
    <2>1. DownKeeps \/ DownGains(msg)
      <3>1. task[n] = "responding" => msg \in ToClient
        BY DEF Defined, ToClient, TInv
      <3> QED
        BY <1>2, <3>1, DownFlow DEF TaskPlain, TaskResume, TaskRespond, pipeVars
    <2>2. \A e \in ElicitIds : Forms(e)' = Forms(e) /\ FormReplies(e)' = FormReplies(e)
      BY <1>1, <2>1, FlowTypes DEF UpKeeps, DownKeeps, DownGains, One
    <2>3. /\ UNCHANGED <<asked, sPending>>
          /\ \A k \in CallIds : task'[k] = "awaiting" => task[k] = "awaiting"
      BY <1>2, <1>t DEF TaskPlain, TaskResume, TaskRespond, Continue
    <2> QED
      BY <1>0, <2>2, <2>3, FormFlightQuiet
  <1>3. CASE TaskElicit(n)
    <2>1. DownKeeps
      BY <1>3, DownFlow DEF TaskElicit, pipeVars
    <2>2. /\ sPending' = sPending \cup {sNextId} /\ sNextId \in Nat
          /\ \A k \in CallIds : task'[k] = "awaiting" => task[k] = "awaiting" /\ asked'[k] = asked[k]
      BY <1>3, <1>t, BoundsAssumption DEF TaskElicit, TInv, TypeOK, ServerTypeOK
    <2>3. ASSUME NEW k \in CallIds, NEW e \in ElicitIds, task[k] = "awaiting", e = CurrentId(k)
          PROVE  FormFlight(e)' = FormFlight(e)
      <3>1. e < sNextId
        BY <2>3, CurrentForm DEF EInv, OwnForms
      <3>2. e # sNextId
        BY <2>2, <3>1
      <3> QED
        BY <1>0, <1>1, <2>1, <2>2, <3>2 DEF FormFlight, UpKeeps, DownKeeps
    <2> QED
      BY <2>2, <2>3, FormFlightKept
  <1>4. CASE TaskElicitSend(n)
    <2>0. PICK c \in ElicitIds : c = CurrentId(n)
      BY <1>4, CurrentForm DEF TaskElicitSend
    <2> DEFINE msg == [kind |-> "request", id |-> c, body |-> "elicitation/create"]
    <2>1. /\ task[n] = "registered" /\ task' = [task EXCEPT ![n] = "awaiting"]
          /\ outbound' = Append(outbound, msg) /\ UNCHANGED <<asked, sPending, s2c>>
      BY <1>4, <2>0 DEF TaskElicitSend, SessionUp, pipeVars
    <2>2. c \in ElicitIds /\ c \in sPending /\ Forms(c) = 0 /\ handler[c] = "none"
      BY <2>0, <2>1, CurrentForm DEF EInv, AskedOnce
    <2>3. DownGains(msg)
      <3>1. msg \in ToClient
        BY <2>2 DEF ToClient
      <3> QED
        BY <2>1, <3>1, DownFlow
    <2>4. \A e \in ElicitIds : Forms(e)' = Forms(e) + One(e = c) /\ FormReplies(e)' = FormReplies(e)
      BY <1>1, <2>3 DEF UpKeeps, DownGains, One
    <2>5. FormReplies(c) = 0
      BY <2>2, FlowTypes DEF EInv, AskedOnce, One
    <2>6. CurrentId(n)' = c
      BY <2>0, <2>1 DEF CurrentId
    <2>7. ASSUME NEW k \in CallIds, task'[k] = "awaiting", k # n
          PROVE  /\ task[k] = "awaiting" /\ CurrentId(k) \in ElicitIds \ {c}
                 /\ CurrentId(k)' = CurrentId(k)
      BY <1>t, <2>0, <2>1, <2>7, CurrentForm DEF CurrentId, EInv, OwnForms
    <2>8. FormFlight(c)' = 1
      <3>1. Forms(c)' = 1 /\ FormReplies(c)' = 0
        BY <2>2, <2>4, <2>5 DEF One
      <3> QED
        BY <1>0, <2>1, <2>2, <3>1 DEF FormFlight, One
    <2>9. \A e \in ElicitIds \ {c} : FormFlight(e)' = FormFlight(e)
      BY <1>0, <2>1, <2>4, FlowTypes DEF FormFlight, One
    <2>10. ASSUME NEW k \in CallIds, task'[k] = "awaiting"
           PROVE  FormFlight(CurrentId(k))' = 1
      <3>1. CASE k = n
        BY <2>6, <2>8, <3>1
      <3>2. CASE k # n
        <4>1. FormFlight(CurrentId(k)) = 1
          BY <2>7, <2>10, <3>2 DEF FormsInFlight
        <4> QED
          BY <2>7, <2>9, <2>10, <3>2, <4>1
      <3> QED
        BY <3>1, <3>2
    <2> QED
      BY <2>10 DEF FormsInFlight
  <1> QED
    BY <1>2, <1>3, <1>4 DEF Serving, TaskStep

LEMMA FormFlightStep ==
    ASSUME TInv, RInv, EInv, FormsInFlight, [Next]_vars
    PROVE  FormsInFlight'
  <1>1. CASE ~SessionUp'
    BY <1>1 DEF FormsInFlight
  <1>2. CASE SessionUp' /\ UNCHANGED vars
    <2>1. UpKeeps /\ DownKeeps
      BY <1>2, UpFlow, DownFlow DEF vars, pipeVars, clientVars, serverVars
    <2>2. UNCHANGED <<task, asked, handler, sPending>> /\ SessionUp
      BY <1>2, SessionStaysUp DEF vars, clientVars, serverVars
    <2> QED
      BY <2>1, <2>2, FormFlightQuiet DEF UpKeeps, DownKeeps
  <1>3. CASE SessionUp' /\ Next
    <2>1. SessionUp
      BY <1>3, SessionStaysUp
    <2> QED
      BY <1>3, <2>1, FormFlightClient, FormFlightServer, FormFlightTask DEF Next
  <1> QED
    BY <1>1, <1>2, <1>3

\* While the session is up, every suspended call and every suspended workflow
\* has exactly one thing on its way that will wake it, through channels and
\* pipes of any capacity (mcp-client's tasks, run_stdio and elicit).
THEOREM OneInFlight == Spec => []ExactlyOneInFlight
  <1>1. Init => CallsInFlight /\ FormsInFlight
    BY DEF Init, ClientInit, ServerInit, CallsInFlight, FormsInFlight
  <1>2. TInv /\ CallsInFlight /\ FormsInFlight => ExactlyOneInFlight
    <2> SUFFICES ASSUME TInv, CallsInFlight, FormsInFlight, SessionUp
                 PROVE  ExactlyOneInFlight
      BY DEF ExactlyOneInFlight
    <2>1. /\ outbox \in Seq(ToServer) /\ c2s \in Seq(ToServer) /\ inbound \in Seq(ToServer)
          /\ outbound \in Seq(ToClient) /\ s2c \in Seq(ToClient) /\ pending \subseteq CallIds
      BY DEF TInv, TypeOK, PipesTypeOK, ClientTypeOK, ServerTypeOK
    <2>2. \A k, i : /\ Copies(outbox, k, i) \in Nat /\ Copies(c2s, k, i) \in Nat
                    /\ Copies(inbound, k, i) \in Nat
                    /\ Copies(outbound, k, i) \in Nat /\ Copies(s2c, k, i) \in Nat
      BY <2>1, PlacesFinite
    <2>3. ASSUME NEW n \in pending, call[n] = "waiting"
          PROVE  1 = Copies(outbox, "request", n) + Copies(c2s, "request", n)
                  + Copies(inbound, "request", n) + One(task[n] \notin {"none", "done"})
                  + Copies(outbound, "response", n) + Copies(s2c, "response", n)
      <3>1. CallFlight(n) = 1
        BY <2>3 DEF CallsInFlight
      <3>2. One(task[n] \notin {"none", "done"}) \in Nat
        BY DEF One
      <3> QED
        BY <2>2, <3>1, <3>2 DEF CallFlight, Requests, Responses
    <2>4. ASSUME NEW n \in CallIds, task[n] = "awaiting", NEW e, e = CurrentId(n)
          PROVE  1 = Copies(outbound, "request", e) + Copies(s2c, "request", e)
                      + One(handler[e] \in {"asking", "answered"})
                      + Copies(outbox, "response", e) + Copies(c2s, "response", e)
                      + Copies(inbound, "response", e) + One(e \notin sPending)
      <3>1. FormFlight(e) = 1
        BY <2>4 DEF FormsInFlight
      <3>2. One(handler[e] \in {"asking", "answered"}) \in Nat /\ One(e \notin sPending) \in Nat
        BY DEF One
      <3> QED
        BY <2>2, <3>1, <3>2 DEF FormFlight, Forms, FormReplies
    <2> QED
      BY <2>3, <2>4 DEF ExactlyOneInFlight
  <1>3. ASSUME TInv, RInv, EInv, CallsInFlight, FormsInFlight, [Next]_vars
        PROVE  CallsInFlight' /\ FormsInFlight'
    BY <1>3, CallFlightStep, FormFlightStep
  <1> QED
    BY <1>1, <1>2, <1>3, InitType, NextType, CallsInit, CallsStep, FormsInit, FormsStep, PTL DEF Spec

-----------------------------------------------------------------------------
(***************************************************************************)
(* The session as its callers and its user see it.  ToolCalls lets the     *)
(* user accept a form only while the call is undecided.  That needs the    *)
(* life of a form: no form outlives the wait of the workflow that asked it *)
(* unless it was answered or never reached the user.                       *)
(***************************************************************************)

\* A form of a workflow was answered, or was lost before the user saw it, or
\* is the one the workflow is suspended on.
Rests(n, i, e) ==
    \/ handler[e] = "done"
    \/ handler[e] = "none" /\ Forms(e) = 0
    \/ i = Len(asked[n]) /\ task[n] = "awaiting"

Settled ==
    \A n \in CallIds : \A i \in DOMAIN asked[n] :
        \A e \in ElicitIds : asked[n][i] = e => Rests(n, i, e)

\* A waiter is only removed by the answer to its form.
Delivered ==
    \A n \in CallIds : task[n] = "awaiting" =>
        CurrentId(n) \in sPending \/ handler[CurrentId(n)] = "done"

\* A call that was not made asks for nothing, and initialize announces itself
\* only once it has succeeded.
Phases ==
    \A n \in CallIds :
        /\ call[n] = "idle" => method[n] = "none"
        /\ call[n] = "notifying" => outcome[n] = "ok"

LInv == Settled /\ Delivered /\ Phases

LEMMA SettledInit == Init => LInv
  BY DEF Init, ClientInit, ServerInit, LInv, Settled, Delivered, Phases

\* Only the first half of elicit puts a form on its way.
LEMMA FormsOnlySent ==
    ASSUME TInv, Next, \A n \in CallIds : Serving(n) => ~TaskElicitSend(n)
    PROVE  \A e \in ElicitIds : Forms(e)' \in 0..Forms(e)
  <1>1. ASSUME \/ UNCHANGED <<outbound, s2c>>
               \/ s2c # <<>> /\ s2c' = Tail(s2c) /\ UNCHANGED outbound
               \/ SWriterSend
               \/ outbound' \in {outbound, <<>>} /\ s2c' \in {s2c, <<>>}
        PROVE  \A e \in ElicitIds : Forms(e)' \in 0..Forms(e)
    <2>1. DownKeeps \/ DownDrops \/ DownLoses(Head(s2c))
      BY <1>1, DownFlow
    <2> QED
      BY <2>1, FlowTypes DEF DownKeeps, DownDrops, DownLoses, One
  <1>2. ASSUME NEW n \in CallIds, Serving(n) PROVE \A e \in ElicitIds : Forms(e)' \in 0..Forms(e)
    <2> DEFINE msg == [kind |-> "response", id |-> n, body |-> result[n]]
    <2>1. CASE TaskRespond(n)
      <3>1. msg \in ToClient
        BY <2>1 DEF TaskRespond, Defined, ToClient, TInv
      <3>2. DownKeeps \/ DownGains(msg)
        BY <2>1, <3>1, DownFlow DEF TaskRespond, pipeVars
      <3> QED
        BY <3>2, FlowTypes DEF DownKeeps, DownGains, One
    <2> QED
      BY <1>1, <1>2, <2>1 DEF Serving, TaskStep, TaskPlain, TaskElicit, TaskResume, pipeVars
  <1>3. ASSUME \/ Begin \/ \E n \in CallIds : Calling(n)
               \/ \E e \in ElicitIds : Answering(e) \/ Replying(e)
        PROVE  \A e \in ElicitIds : Forms(e)' \in 0..Forms(e)
    <2>1. UNCHANGED <<outbound, s2c>>
      BY <1>3 DEF Begin, CallAllocate, Calling, CallStep, CallRegister, CallSend, CallReturn,
         CallNotify, Answering, HandlerAnswer, Replying, HandlerSend, pipeVars, serverVars
    <2> QED
      BY <1>1, <2>1
  <1>4. ASSUME ClientReading \/ ClientWriting \/ Dropping \/ ClientEnding
        PROVE  \A e \in ElicitIds : Forms(e)' \in 0..Forms(e)
    <2>1. \/ UNCHANGED <<outbound, s2c>>
          \/ s2c # <<>> /\ s2c' = Tail(s2c) /\ UNCHANGED outbound
          \/ outbound' \in {outbound, <<>>} /\ s2c' \in {s2c, <<>>}
      BY <1>4 DEF ClientReading, ClientReader, ReaderResponse, ReaderRequest, ReaderEof, ReaderDrain,
         ClientWriting, ClientWriter, WriterSend, WriterStop, Dropping, ClientDrop, ClientEnding,
         ClientExit, pipeVars, serverVars
    <2> QED
      BY <1>1, <2>1
  <1>5. ASSUME ServerLooping \/ ServerReading \/ ServerWriting \/ ServerEnding
        PROVE  \A e \in ElicitIds : Forms(e)' \in 0..Forms(e)
    <2>1. \/ UNCHANGED <<outbound, s2c>> \/ SWriterSend
          \/ outbound' \in {outbound, <<>>} /\ s2c' \in {s2c, <<>>}
      BY <1>5 DEF ServerLooping, ServerMain, MainRequest, MainResponse, MainNotification, MainClose,
         MainReturn, ServerReading, ServerReader, SReaderForward, SReaderEof, ServerWriting,
         ServerWriter, SWriterStop, ServerEnding, ServerExit, pipeVars, serverVars
    <2> QED
      BY <1>1, <2>1
  <1> QED
    BY <1>2, <1>3, <1>4, <1>5 DEF Next

LEMMA PhasesStep == TInv /\ Phases /\ [Next]_vars => Phases'
  <1> SUFFICES ASSUME TInv, Phases, [Next]_vars PROVE Phases'
    OBVIOUS
  <1>1. call \in [CallIds -> CallStates] /\ method \in [CallIds -> Methods \cup {"none"}]
        /\ outcome \in [CallIds -> Results \cup {"none", "closed"}]
    BY DEF TInv, TypeOK, ClientTypeOK
  <1>2. ASSUME UNCHANGED <<call, method, outcome>> PROVE Phases'
    BY <1>2 DEF Phases
  <1>3. ASSUME NEW m \in Methods, CallAllocate(m) PROVE Phases'
    BY <1>1, <1>3 DEF CallAllocate, Phases
  <1>4. ASSUME NEW n \in CallIds, CallStep(n) PROVE Phases'
    BY <1>1, <1>4 DEF CallStep, CallRegister, CallSend, CallReturn, CallNotify, Phases
  <1>5. ASSUME UNCHANGED clientVars PROVE Phases'
    BY <1>2, <1>5 DEF clientVars
  <1>6. ASSUME \/ \E e \in ElicitIds : Answering(e) \/ Replying(e)
               \/ ClientReading \/ ClientWriting \/ Dropping \/ ClientEnding
        PROVE  Phases'
    BY <1>2, <1>6 DEF Answering, HandlerAnswer, Replying, HandlerSend, ClientReading, ClientReader,
       ReaderResponse, ReaderRequest, ReaderEof, ReaderDrain, ClientWriting, ClientWriter,
       WriterSend, WriterStop, Dropping, ClientDrop, ClientEnding, ClientExit, clientVars
  <1> QED
    BY <1>3, <1>4, <1>5, <1>6 DEF Next, Begin, Calling, Serving, ServerLooping, ServerReading,
       ServerWriting, ServerEnding, vars

\* A step that sends no form, starts and ends no wait, and neither answers a
\* form that nobody has nor takes back an answer.
Settling ==
    /\ \A e \in ElicitIds : Forms(e)' \in 0..Forms(e)
    /\ \A e \in ElicitIds : \/ handler'[e] = handler[e] \/ handler[e] \in {"asking", "answered"}
                            \/ handler[e] = "none" /\ Forms(e) # 0
    /\ \A n \in CallIds : task'[n] = "awaiting" <=> task[n] = "awaiting"
    /\ \A e \in sPending : e \in sPending' \/ handler[e] = "done"
    /\ UNCHANGED asked

LEMMA SettledKept ==
    ASSUME TInv, Settled, Delivered, Settling
    PROVE  Settled' /\ Delivered'
  <1>1. asked \in [CallIds -> Seq(ElicitIds)]
    BY DEF TInv, TypeOK, ServerTypeOK
  <1>2. ASSUME NEW n \in CallIds, NEW i \in DOMAIN asked[n], NEW e \in ElicitIds, asked[n][i] = e
        PROVE  Rests(n, i, e)'
    <2>1. Forms(e) = 0 => Forms(e)' = 0
      BY FlowTypes DEF Settling
    <2>2. Rests(n, i, e)
      BY <1>2 DEF Settled
    <2> QED
      BY <1>1, <2>1, <2>2 DEF Rests, Settling
  <1>3. Settled'
    BY <1>2 DEF Settled, Settling
  <1>4. ASSUME NEW n \in CallIds, task'[n] = "awaiting"
        PROVE  CurrentId(n)' \in sPending' \/ handler'[CurrentId(n)'] = "done"
    <2>1. CurrentId(n)' = CurrentId(n) /\ CurrentId(n) \in ElicitIds /\ task[n] = "awaiting"
      BY <1>4, CurrentForm DEF CurrentId, Settling
    <2> QED
      BY <2>1 DEF Delivered, Settling
  <1> QED
    BY <1>3, <1>4 DEF Delivered

LEMMA SettledElicit ==
    ASSUME TInv, EInv, Settled, Delivered, NEW n \in CallIds, UNCHANGED clientVars, TaskElicit(n)
    PROVE  Settled' /\ Delivered'
  <1>1. /\ task[n] = "running" /\ task' = [task EXCEPT ![n] = "registered"]
        /\ asked' = [asked EXCEPT ![n] = Append(asked[n], sNextId)]
        /\ sPending \subseteq sPending' /\ UNCHANGED handler
    BY DEF TaskElicit, clientVars
  <1>2. sNextId \in ElicitIds
    BY BoundsAssumption DEF TaskElicit, ElicitIds, TInv, TypeOK, ServerTypeOK
  <1>3. asked \in [CallIds -> Seq(ElicitIds)] /\ task \in [CallIds -> TaskStates]
    BY DEF TInv, TypeOK, ServerTypeOK
  <1>4. Forms(sNextId) = 0 /\ handler[sNextId] = "none"
    BY <1>2, FlowTypes, BoundsAssumption DEF EInv, AskedOnce, One, ElicitIds
  <1>5. \A e \in ElicitIds : Forms(e)' = Forms(e)
    BY DownFlow DEF TaskElicit, pipeVars, DownKeeps
  <1>6. \A i \in DOMAIN asked'[n] :
           (i \in DOMAIN asked[n] /\ asked'[n][i] = asked[n][i]) \/ asked'[n][i] = sNextId
    BY <1>1, <1>2, <1>3
  <1>7. \A k \in CallIds \ {n} : asked'[k] = asked[k] /\ task'[k] = task[k]
    BY <1>1, <1>3
  <1>8. ASSUME NEW k \in CallIds, NEW i \in DOMAIN asked'[k], NEW e \in ElicitIds, asked'[k][i] = e
        PROVE  Rests(k, i, e)'
    <2>1. CASE k # n
      <3>1. Rests(k, i, e)
        BY <1>7, <1>8, <2>1 DEF Settled
      <3> QED
        BY <1>1, <1>5, <1>7, <2>1, <3>1 DEF Rests
    <2>2. CASE e = sNextId
      BY <1>1, <1>2, <1>4, <1>5, <2>2 DEF Rests
    <2>3. CASE k = n /\ e # sNextId
      <3>1. Rests(n, i, e)
        BY <1>6, <1>8, <2>3 DEF Settled
      <3> QED
        BY <1>1, <1>5, <2>3, <3>1 DEF Rests
    <2> QED
      BY <2>1, <2>2, <2>3
  <1>9. ASSUME NEW k \in CallIds, task'[k] = "awaiting"
        PROVE  CurrentId(k)' \in sPending' \/ handler'[CurrentId(k)'] = "done"
    <2>1. k # n
      BY <1>1, <1>3, <1>9
    <2> QED
      BY <1>1, <1>7, <1>9, <2>1 DEF Delivered, CurrentId
  <1> QED
    BY <1>8, <1>9 DEF Settled, Delivered

\* A form is put on its way by the task that then waits for it, or not at all.
LEMMA SettledElicitSend ==
    ASSUME TInv, EInv, Settled, Delivered, NEW n \in CallIds, UNCHANGED clientVars, TaskElicitSend(n)
    PROVE  Settled' /\ Delivered'
  <1> DEFINE msg == [kind |-> "request", id |-> CurrentId(n), body |-> "elicitation/create"]
  <1>0. task[n] = "registered" /\ UNCHANGED <<handler, asked>>
    BY DEF TaskElicitSend, clientVars
  <1>1. /\ CurrentId(n) \in ElicitIds /\ CurrentId(n) \in sPending
        /\ Forms(CurrentId(n)) = 0 /\ handler[CurrentId(n)] = "none"
        /\ Len(asked[n]) \in DOMAIN asked[n]
    BY <1>0, CurrentForm DEF EInv, AskedOnce
  <1>2. task \in [CallIds -> TaskStates] /\ asked \in [CallIds -> Seq(ElicitIds)]
    BY DEF TInv, TypeOK, ServerTypeOK
  <1>3. \/ /\ task' = [task EXCEPT ![n] = "awaiting"] /\ UNCHANGED sPending
           /\ DownGains(msg)
        \/ /\ task' \in {[task EXCEPT ![n] = "running"], [task EXCEPT ![n] = "responding"]}
           /\ sPending' = sPending \ {CurrentId(n)} /\ DownKeeps
    <2>1. msg \in ToClient
      BY <1>1 DEF ToClient
    <2> QED
      BY <2>1, DownFlow DEF TaskElicitSend, Continue, pipeVars
  <1>4. \A e \in ElicitIds : e # CurrentId(n) => Forms(e)' = Forms(e)
    BY <1>3, FlowTypes DEF DownKeeps, DownGains, One
  <1>5. \A e \in ElicitIds : e = CurrentId(n) /\ task'[n] # "awaiting" => Forms(e)' = 0
    BY <1>1, <1>2, <1>3 DEF DownKeeps
  <1>6. \A k \in CallIds \ {n} : task'[k] = task[k]
    BY <1>2, <1>3
  <1>7. \A k \in CallIds : \A i \in DOMAIN asked[k] :
           /\ asked[k][i] \in ElicitIds
           /\ asked[k][i] = CurrentId(n) => k = n /\ i = Len(asked[n])
    BY <1>1, <1>2 DEF CurrentId, EInv, OwnForms
  <1>8. ASSUME NEW k \in CallIds, NEW i \in DOMAIN asked[k], NEW e \in ElicitIds, asked[k][i] = e
        PROVE  Rests(k, i, e)'
    <2>0. Rests(k, i, e)
      BY <1>8 DEF Settled
    <2>1. CASE e # CurrentId(n)
      <3>1. task[k] = "awaiting" => task'[k] = "awaiting"
        BY <1>0, <1>6
      <3> QED
        BY <1>0, <1>4, <2>0, <2>1, <3>1 DEF Rests
    <2>2. CASE e = CurrentId(n)
      <3>1. k = n /\ i = Len(asked[n])
        BY <1>7, <1>8, <2>2
      <3>2. task'[n] # "awaiting" => Forms(e)' = 0
        BY <1>5, <2>2
      <3> QED
        BY <1>0, <1>1, <2>2, <3>1, <3>2 DEF Rests
    <2> QED
      BY <2>1, <2>2
  <1>9. Settled'
    BY <1>0, <1>8 DEF Settled
  <1>10. ASSUME NEW k \in CallIds, task'[k] = "awaiting"
         PROVE  CurrentId(k)' \in sPending' \/ handler'[CurrentId(k)'] = "done"
    <2>1. CurrentId(k)' = CurrentId(k)
      BY <1>0 DEF CurrentId
    <2>2. CASE k = n
      BY <1>1, <1>2, <1>3, <1>10, <2>1, <2>2
    <2>3. CASE k # n
      <3>1. task[k] = "awaiting" /\ CurrentId(k) # CurrentId(n)
        BY <1>6, <1>7, <1>10, <2>3, CurrentForm
      <3> QED
        BY <1>0, <1>3, <2>1, <3>1 DEF Delivered
    <2> QED
      BY <2>2, <2>3
  <1> QED
    BY <1>9, <1>10 DEF Delivered

\* A workflow goes on when its form was answered.
LEMMA SettledResume ==
    ASSUME TInv, EInv, Settled, Delivered, NEW n \in CallIds, UNCHANGED clientVars, TaskResume(n)
    PROVE  Settled' /\ Delivered'
  <1>1. /\ task[n] = "awaiting" /\ CurrentId(n) \notin sPending
        /\ task' \in {[task EXCEPT ![n] = "running"], [task EXCEPT ![n] = "responding"]}
        /\ UNCHANGED <<handler, asked, sPending>>
    BY DEF TaskResume, Continue, clientVars
  <1>2. task \in [CallIds -> TaskStates] /\ asked \in [CallIds -> Seq(ElicitIds)]
    BY DEF TInv, TypeOK, ServerTypeOK
  <1>3. handler[CurrentId(n)] = "done"
    BY <1>1 DEF Delivered
  <1>4. \A e \in ElicitIds : Forms(e)' = Forms(e)
    BY DownFlow DEF TaskResume, pipeVars, DownKeeps
  <1>5. ASSUME NEW k \in CallIds, NEW i \in DOMAIN asked[k], NEW e \in ElicitIds, asked[k][i] = e
        PROVE  Rests(k, i, e)'
    <2>1. Rests(k, i, e)
      BY <1>5 DEF Settled
    <2>2. CASE k = n /\ i = Len(asked[n])
      BY <1>1, <1>3, <1>5, <2>2 DEF CurrentId, Rests
    <2>3. CASE ~(k = n /\ i = Len(asked[n]))
      BY <1>1, <1>2, <1>4, <2>1, <2>3 DEF Rests
    <2> QED
      BY <2>2, <2>3
  <1>6. ASSUME NEW k \in CallIds, task'[k] = "awaiting"
        PROVE  CurrentId(k)' \in sPending' \/ handler'[CurrentId(k)'] = "done"
    BY <1>1, <1>2, <1>6 DEF Delivered, CurrentId
  <1> QED
    BY <1>1, <1>5, <1>6 DEF Settled, Delivered

LEMMA SettledStep == TInv /\ RInv /\ EInv /\ LInv /\ [Next]_vars => LInv'
  <1> SUFFICES ASSUME TInv, RInv, EInv, LInv, [Next]_vars PROVE LInv'
    OBVIOUS
  <1>0. Phases'
    BY PhasesStep DEF LInv
  <1> SUFFICES Settled' /\ Delivered'
    BY <1>0 DEF LInv
  <1> USE DEF LInv
  <1>1. CASE UNCHANGED vars
    <2>1. DownKeeps /\ UNCHANGED <<handler, task, asked, sPending>>
      BY <1>1, DownFlow DEF vars, pipeVars, clientVars, serverVars
    <2> QED
      BY <2>1, FlowTypes, SettledKept DEF Settling, DownKeeps
  <1>2. ASSUME NEW n \in CallIds, TaskElicit(n) \/ TaskElicitSend(n) \/ TaskResume(n), Serving(n)
        PROVE  Settled' /\ Delivered'
    BY <1>2, SettledElicit, SettledElicitSend, SettledResume DEF Serving
  <1>3. CASE Next /\ \A n \in CallIds :
                 Serving(n) => ~TaskElicit(n) /\ ~TaskElicitSend(n) /\ ~TaskResume(n)
    <2>1. \A e \in ElicitIds : Forms(e)' \in 0..Forms(e)
      BY <1>3, FormsOnlySent
    <2>2. handler \in [ElicitIds -> {"none", "asking", "answered", "done"}]
          /\ task \in [CallIds -> TaskStates]
      BY DEF TInv, TypeOK, ClientTypeOK, ServerTypeOK
    <2>3. ASSUME NEW n \in CallIds, Serving(n) PROVE Settled' /\ Delivered'
      <3>1. CASE TaskPlain(n)
        BY <2>1, <2>2, <2>3, <3>1, SettledKept DEF Settling, TaskPlain, Serving, clientVars
      <3>2. CASE TaskRespond(n)
        BY <2>1, <2>2, <2>3, <3>2, SettledKept DEF Settling, TaskRespond, Serving, clientVars
      <3> QED
        BY <1>3, <2>3, <3>1, <3>2 DEF Serving, TaskStep
    <2>4. ASSUME NEW e \in ElicitIds, Answering(e) \/ Replying(e) PROVE Settled' /\ Delivered'
      BY <2>1, <2>2, <2>4, SettledKept DEF Settling, Answering, HandlerAnswer, Replying, HandlerSend, serverVars
    <2>5. ASSUME ReaderRequest, UNCHANGED serverVars PROVE Settled' /\ Delivered'
      <3> DEFINE e == Head(s2c).id
      <3>1. e \in ElicitIds /\ Forms(e) >= 1 /\ Forms(e) \in Nat
        <4>1. DownLoses(Head(s2c)) /\ Head(s2c).kind = "request"
          BY <2>5, DownFlow DEF ReaderRequest, serverVars
        <4> QED
          BY <4>1, FlowTypes, ToClientFields, Counted DEF DownLoses
      <3>2. handler[e] = "none" /\ Forms(e) # 0
        BY <3>1 DEF EInv, AskedOnce, One
      <3>3. handler' = [handler EXCEPT ![e] = "asking"] /\ UNCHANGED <<task, asked, sPending>>
        BY <2>5 DEF ReaderRequest, serverVars
      <3> HIDE DEF e
      <3> QED
        BY <2>1, <2>2, <3>1, <3>2, <3>3, SettledKept DEF Settling
    <2>6. ASSUME MainResponse, UNCHANGED clientVars PROVE Settled' /\ Delivered'
      <3> DEFINE resp == Head(inbound)
      <3>1. UpLoses(resp) /\ resp.kind = "response" /\ resp.id \in ElicitIds
        BY <2>6, UpFlow, FlowTypes, ToServerFields DEF MainResponse, UpLoses, pipeVars, clientVars
      <3>2. handler[resp.id] = "done"
        BY <3>1, Counted, FlowTypes DEF EInv, AskedOnce, One, UpLoses
      <3>3. sPending' = sPending \ {resp.id} /\ UNCHANGED <<handler, task, asked>>
        BY <2>6 DEF MainResponse, clientVars
      <3> HIDE DEF resp
      <3> QED
        BY <2>1, <2>2, <3>2, <3>3, SettledKept DEF Settling
    <2>7. ASSUME MainRequest, UNCHANGED clientVars PROVE Settled' /\ Delivered'
      <3> DEFINE req == Head(inbound)
      <3>1. UpLoses(req) /\ req.kind = "request" /\ req.id \in CallIds
        BY <2>7, UpFlow, FlowTypes, ToServerFields DEF MainRequest, UpLoses, pipeVars, clientVars
      <3>2. Requests(req.id) >= 1 /\ Requests(req.id) \in Nat
        BY <3>1, Counted, FlowTypes DEF UpLoses
      <3>3. task[req.id] = "none" /\ asked[req.id] = <<>>
        BY <3>1, <3>2 DEF RInv, ServedOnce, One, EInv, OwnForms
      <3>4. /\ task' = [task EXCEPT ![req.id] = "running"]
            /\ asked' = [asked EXCEPT ![req.id] = <<>>] /\ UNCHANGED <<handler, sPending>>
        BY <2>7 DEF MainRequest, clientVars
      <3>5. asked \in [CallIds -> Seq(ElicitIds)]
        BY DEF TInv, TypeOK, ServerTypeOK
      <3>6. UNCHANGED asked
        BY <3>1, <3>3, <3>4, <3>5
      <3> HIDE DEF req
      <3> QED
        BY <2>1, <2>2, <3>1, <3>3, <3>4, <3>6, SettledKept DEF Settling
    <2>8. ASSUME UNCHANGED <<handler, task, asked, sPending>> PROVE Settled' /\ Delivered'
      BY <2>1, <2>8, SettledKept DEF Settling
    <2>9. ASSUME \/ Begin \/ \E n \in CallIds : Calling(n)
                 \/ ClientReading \/ ClientWriting \/ Dropping \/ ClientEnding
          PROVE  Settled' /\ Delivered'
      <3>1. \/ UNCHANGED <<handler, task, asked, sPending>> \/ (ReaderRequest /\ UNCHANGED serverVars)
        BY <2>9 DEF Begin, CallAllocate, Calling, CallStep, CallRegister, CallSend, CallReturn,
           CallNotify, ClientReading, ClientReader, ReaderResponse, ReaderEof, ReaderDrain,
           ClientWriting, ClientWriter, WriterSend, WriterStop, Dropping, ClientDrop, ClientEnding,
           ClientExit, clientVars, serverVars
      <3> QED
        BY <2>5, <2>8, <3>1
    <2>10. ASSUME ServerLooping \/ ServerReading \/ ServerWriting \/ ServerEnding
           PROVE  Settled' /\ Delivered'
      <3>1. \/ UNCHANGED <<handler, task, asked, sPending>>
            \/ (MainRequest \/ MainResponse) /\ UNCHANGED clientVars
        BY <2>10 DEF ServerLooping, ServerMain, MainNotification, MainClose, MainReturn,
           ServerReading, ServerReader, SReaderForward, SReaderEof, ServerWriting, ServerWriter,
           SWriterSend, SWriterStop, ServerEnding, ServerExit, clientVars, serverVars
      <3> QED
        BY <2>6, <2>7, <2>8, <3>1
    <2> QED
      BY <1>3, <2>3, <2>4, <2>9, <2>10 DEF Next
  <1> QED
    BY <1>1, <1>2, <1>3

(***************************************************************************)
(* Every step of the session is a step of ToolCalls or none.               *)
(***************************************************************************)

\* The operators of the abstract specification are those of the concrete one.
LEMMA SameWorkflows ==
    ASSUME NEW m
    PROVE  Service!Rounds(m) = Rounds(m) /\ Service!PlainResult(m) = PlainResult(m)
  BY DEF Rounds, PlainResult, Service!Rounds, Service!PlainResult

LEMMA ServiceInit == Init => Service!CallsInit
  BY DEF Init, ClientInit, ServerInit, Service!CallsInit, Consent, Told

LEMMA SameConsent ==
    ASSUME UNCHANGED <<asked, answer>>
    PROVE  \A n \in CallIds : Consent(n)' = Consent(n)
  BY DEF Consent

LEMMA SameTold ==
    ASSUME UNCHANGED <<call, outcome>>
    PROVE  \A n \in CallIds : Told(n)' = Told(n)
  BY DEF Told

LEMMA ServiceStutter ==
    ASSUME UNCHANGED <<method, result, audit>>,
           [n \in CallIds |-> Consent(n)]' = [n \in CallIds |-> Consent(n)],
           [n \in CallIds |-> Told(n)]' = [n \in CallIds |-> Told(n)]
    PROVE  UNCHANGED Service!callsVars
  BY DEF Service!callsVars

\* What is known of a call whose task is at work.
LEMMA AtWork ==
    ASSUME TInv, RInv, EInv, NEW n \in CallIds,
           task[n] \in {"running", "registered", "awaiting"}
    PROVE  method[n] = tmethod[n] /\ method[n] # "none" /\ result[n] = "none"
  <1>1. call[n] # "idle"
    BY FlowTypes DEF RInv, ServedOnce, One
  <1>2. method[n] \in Methods
    BY <1>1 DEF TInv, Defined
  <1>3. method[n] # "none"
    BY <1>2, InputsAssumption DEF AllMethods, Workflows
  <1> QED
    BY <1>3 DEF RInv, OwnResults, EInv, Progress

LEMMA ServiceBegin ==
    ASSUME TInv, RInv, LInv, NEW m \in Methods, CallAllocate(m), UNCHANGED serverVars
    PROVE  Service!Ask(nextId) /\ nextId \in CallIds
  <1>1. nextId \in CallIds /\ call[nextId] = "idle" /\ method[nextId] = "none"
    BY BoundsAssumption DEF CallAllocate, RInv, ServedOnce, CallIds, TInv, TypeOK, ClientTypeOK,
       LInv, Phases
  <1>2. /\ method' = [method EXCEPT ![nextId] = m]
        /\ call' = [call EXCEPT ![nextId] = "allocated"]
        /\ UNCHANGED <<outcome, answer, asked, result, audit>>
    BY DEF CallAllocate, serverVars
  <1>3. \A n \in CallIds : Consent(n)' = Consent(n)
    BY <1>2, SameConsent
  <1>4. \A n \in CallIds : Told(n)' = Told(n)
    BY <1>1, <1>2 DEF Told, TInv, TypeOK, ClientTypeOK
  <1> QED
    BY <1>1, <1>2, <1>3, <1>4 DEF Service!Ask

LEMMA ServiceCalling ==
    ASSUME TInv, RInv, LInv, NEW n \in CallIds, Calling(n)
    PROVE  Service!Tell(n) \/ UNCHANGED Service!callsVars
  <1>1. UNCHANGED <<method, answer, asked, result, audit>> /\ call[n] \notin {"idle", "done"}
    BY DEF Calling, CallStep, CallRegister, CallSend, CallReturn, CallNotify, serverVars
  <1>2. [k \in CallIds |-> Consent(k)]' = [k \in CallIds |-> Consent(k)]
    BY <1>1, SameConsent
  <1>3. /\ call \in [CallIds -> CallStates] /\ outcome \in [CallIds -> Results \cup {"none", "closed"}]
        /\ reply \in [CallIds -> Results \cup {"none"}]
    BY DEF TInv, TypeOK, ClientTypeOK
  <1>4. method[n] # "none"
    BY <1>1, InputsAssumption DEF TInv, Defined, AllMethods, Workflows
  <1>5. Told(n) = "none"
    BY <1>1 DEF Told
  <1>6. /\ \A k \in CallIds \ {n} : call'[k] = call[k] /\ outcome'[k] = outcome[k]
        /\ call'[n] = "done" =>
              outcome'[n] = "closed" \/ (result[n] # "none" /\ outcome'[n] = result[n])
    <2>1. CASE CallRegister(n)
      BY <2>1 DEF CallRegister
    <2>2. CASE CallSend(n)
      <3>1. CASE call' = [call EXCEPT ![n] = "waiting"] /\ UNCHANGED outcome
        BY <1>3, <3>1
      <3>2. CASE /\ call' = [call EXCEPT ![n] = "done"]
                 /\ outcome' = [outcome EXCEPT ![n] = "closed"]
        BY <1>3, <3>2
      <3> QED
        BY <2>2, <3>1, <3>2 DEF CallSend
    <2>3. CASE CallReturn(n)
      <3>1. reply[n] # "none" => reply[n] = result[n]
        BY DEF RInv, OwnResults
      <3>2. PICK t \in CallStates : call' = [call EXCEPT ![n] = t]
        BY <2>3 DEF CallReturn, CallStates
      <3>3. outcome' = [outcome EXCEPT ![n] = IF reply[n] = "none" THEN "closed" ELSE reply[n]]
        BY <2>3 DEF CallReturn
      <3> QED
        BY <1>3, <3>1, <3>2, <3>3
    <2>4. CASE CallNotify(n)
      <3>1. outcome[n] = "ok" /\ result[n] = "ok"
        BY <2>4 DEF CallNotify, LInv, Phases, RInv, OwnResults, Results
      <3>2. /\ call' = [call EXCEPT ![n] = "done"]
            /\ outcome' \in {outcome, [outcome EXCEPT ![n] = "closed"]}
        BY <2>4 DEF CallNotify
      <3> QED
        BY <1>3, <3>1, <3>2
    <2> QED
      BY <2>1, <2>2, <2>3, <2>4 DEF Calling, CallStep
  <1>7. \A k \in CallIds \ {n} : Told(k)' = Told(k)
    BY <1>3, <1>6 DEF Told
  <1>8. CASE call'[n] # "done"
    <2>1. Told(n)' = "none"
      BY <1>8 DEF Told
    <2>2. [k \in CallIds |-> Told(k)]' = [k \in CallIds |-> Told(k)]
      BY <1>5, <1>7, <2>1
    <2> QED
      BY <1>1, <1>2, <2>2, ServiceStutter
  <1>9. CASE call'[n] = "done"
    <2>1. \/ Told(n)' = "closed"
          \/ result[n] # "none" /\ Told(n)' = result[n]
      BY <1>3, <1>6, <1>9 DEF Told
    <2>2. \/ [k \in CallIds |-> Told(k)]' = [[k \in CallIds |-> Told(k)] EXCEPT ![n] = "closed"]
          \/ /\ result[n] # "none"
             /\ [k \in CallIds |-> Told(k)]' = [[k \in CallIds |-> Told(k)] EXCEPT ![n] = result[n]]
      BY <1>7, <2>1
    <2>3. Service!Tell(n)
      BY <1>1, <1>2, <1>4, <1>5, <2>2 DEF Service!Tell
    <2> QED
      BY <2>3
  <1> QED
    BY <1>8, <1>9

\* An acceptance of the user is the consent to the next form of a workflow
\* that is not decided yet.
LEMMA ServiceAnswering ==
    ASSUME TInv, RInv, EInv, LInv, NEW e \in ElicitIds, Answering(e)
    PROVE  (\E n \in CallIds : Service!Accept(n)) \/ UNCHANGED Service!callsVars
  <1>1. PICK a \in UserAnswers : HandlerAnswer(e, a)
    BY DEF Answering
  <1>2. /\ handler[e] = "asking" /\ answer' = [answer EXCEPT ![e] = a]
        /\ UNCHANGED <<method, call, outcome, asked, result, audit>>
    BY <1>1 DEF HandlerAnswer, Answering, serverVars
  <1>3. [k \in CallIds |-> Told(k)]' = [k \in CallIds |-> Told(k)]
    BY <1>2, SameTold
  <1>4. answer[e] = "none" /\ ~Accepts(answer[e])
    BY <1>2 DEF EInv, OwnAnswers, Accepts
  <1>5. answer \in [ElicitIds -> Answers \cup {"none"}] /\ asked \in [CallIds -> Seq(ElicitIds)]
    BY DEF TInv, TypeOK, ClientTypeOK, ServerTypeOK
  <1>6. \A k \in CallIds : \A i \in DOMAIN asked[k] :
           /\ asked[k][i] # e => (Accepts(answer'[asked[k][i]]) <=> Accepts(answer[asked[k][i]]))
           /\ asked[k][i] = e => ~Accepts(answer[asked[k][i]])
                                   /\ (Accepts(answer'[asked[k][i]]) <=> Accepts(a))
    BY <1>2, <1>4, <1>5
  <1>7. CASE \A k \in CallIds : \A i \in DOMAIN asked[k] : asked[k][i] = e => ~Accepts(a)
    <2>1. \A k \in CallIds : Consent(k)' = Consent(k)
      BY <1>2, <1>6, <1>7 DEF Consent
    <2> QED
      BY <1>2, <1>3, <2>1, ServiceStutter
  <1>8. ASSUME NEW n \in CallIds, NEW i \in DOMAIN asked[n], asked[n][i] = e, Accepts(a)
        PROVE  Service!Accept(n)
    <2>1. i = Len(asked[n]) /\ task[n] = "awaiting"
      <3>1. Rests(n, i, e)
        BY <1>8 DEF LInv, Settled
      <3> QED
        BY <1>2, <3>1 DEF Rests
    <2>2. /\ method[n] = tmethod[n] /\ method[n] # "none" /\ result[n] = "none"
      BY <2>1, AtWork
    <2>3. /\ i \in Nat \ {0} /\ i <= Rounds(method[n]) /\ Rounds(method[n]) \in Nat
          /\ DOMAIN asked[n] = 1..i
          /\ \A j \in 1..(i - 1) : Accepts(answer[asked[n][j]])
      <3>1. i \in Nat \ {0} /\ DOMAIN asked[n] = 1..i
        BY <1>5, <1>8, <2>1
      <3>2. i <= Rounds(method[n]) /\ Rounds(method[n]) \in Nat
        BY <2>1, <2>2 DEF EInv, Progress, Rounds
      <3>3. \A j \in 1..(i - 1) : Accepts(answer[asked[n][j]])
        BY <2>1 DEF EInv, Progress, Consented
      <3> QED
        BY <3>1, <3>2, <3>3
    <2>4. \A k \in CallIds : \A j \in DOMAIN asked[k] : asked[k][j] = e <=> k = n /\ j = i
      BY <1>8 DEF EInv, OwnForms
    <2>5. \A k \in CallIds \ {n} : Consent(k)' = Consent(k)
      BY <1>2, <1>6, <2>4 DEF Consent
    <2>6. Consent(n) = 1..(i - 1)
      BY <1>4, <2>3, <2>4 DEF Consent
    <2>7. Consent(n)' = 1..i
      <3>1. \A j \in 1..i : Accepts(answer'[asked[n][j]])
        BY <1>6, <1>8, <2>3, <2>4
      <3> QED
        BY <1>2, <2>3, <3>1 DEF Consent
    <2>8. [k \in CallIds |-> Consent(k)]' = [[k \in CallIds |-> Consent(k)] EXCEPT ![n] = 1..i]
      BY <2>5, <2>7
    <2>9. i \in 1..Service!Rounds(method[n])
      BY <2>3, SameWorkflows
    <2> QED
      BY <1>2, <1>3, <2>2, <2>6, <2>8, <2>9 DEF Service!Accept
  <1> QED
    BY <1>7, <1>8

\* A decision is taken once, with its entry, and a confirmation is the user's.
LEMMA ServiceContinue ==
    ASSUME TInv, RInv, EInv, ConfirmedOnlyByUser', NEW n \in CallIds, NEW a, Continue(n, a),
           task[n] \in {"registered", "awaiting"},
           UNCHANGED <<method, call, outcome, answer, tmethod, asked>>
    PROVE  Service!Confirm(n) \/ Service!Refuse(n) \/ UNCHANGED Service!callsVars
  <1>1. [k \in CallIds |-> Told(k)]' = [k \in CallIds |-> Told(k)]
    BY SameTold
  <1>2. [k \in CallIds |-> Consent(k)]' = [k \in CallIds |-> Consent(k)]
    BY SameConsent
  <1>3. method[n] = tmethod[n] /\ method[n] # "none" /\ result[n] = "none"
    BY AtWork
  <1>4. /\ Len(asked[n]) \in Nat \ {0} /\ DOMAIN asked[n] = 1..Len(asked[n])
        /\ Service!Rounds(method[n]) > 0 /\ Service!Rounds(method[n]) = Rounds(tmethod[n])
    BY <1>3, CurrentForm, SameWorkflows DEF EInv, Progress, Rounds
  <1>5. CASE UNCHANGED <<result, audit>>
    BY <1>1, <1>2, <1>5, ServiceStutter
  <1>6. ASSUME NEW r, NEW l,
               result' = [result EXCEPT ![n] = WorkflowResult(r, l, a)],
               audit' = [audit EXCEPT ![n] = WorkflowAudit(r, l, a)]
        PROVE  Service!Confirm(n) \/ Service!Refuse(n)
    <2> DEFINE res == WorkflowResult(r, l, a)
               aud == WorkflowAudit(r, l, a)
    <2>1. result'[n] = res
      BY <1>6 DEF TInv, TypeOK, ServerTypeOK
    <2>2. CASE res = "confirmed"
      <3>1. aud = "ok"
        BY <2>2, WorkflowAgrees
      <3>2. /\ Len(asked[n]) = Rounds(tmethod[n])
            /\ \A i \in DOMAIN asked[n] : Accepts(answer[asked[n][i]])
        BY <2>1, <2>2 DEF ConfirmedOnlyByUser
      <3>3. Consent(n) = 1..Service!Rounds(method[n])
        BY <1>4, <3>2 DEF Consent
      <3>4. Service!Confirm(n)
        BY <1>1, <1>2, <1>3, <1>4, <1>6, <2>2, <3>1, <3>3 DEF Service!Confirm
      <3> QED
        BY <3>4
    <2>3. CASE res # "confirmed"
      <3>1. res \in {"declined", "cancelled", "mismatch"}
        BY <2>3 DEF WorkflowResult
      <3>2. aud \in {"declined", "denied"}
        BY <3>1, WorkflowAgrees
      <3>3. result' = [result EXCEPT ![n] = res] /\ audit' = [audit EXCEPT ![n] = aud]
        BY <1>6
      <3> HIDE DEF res, aud
      <3>4. Service!Refuse(n)
        BY <1>1, <1>2, <1>3, <1>4, <3>1, <3>2, <3>3 DEF Service!Refuse
      <3> QED
        BY <3>4
    <2> QED
      BY <2>2, <2>3
  <1> QED
    BY <1>5, <1>6 DEF Continue

LEMMA ServiceServing ==
    ASSUME TInv, RInv, EInv, EInv', NEW n \in CallIds, Serving(n)
    PROVE  \/ Service!Answer(n) \/ Service!Confirm(n) \/ Service!Refuse(n)
           \/ UNCHANGED Service!callsVars
  <1>0. UNCHANGED <<method, call, outcome, answer, tmethod>> /\ ConfirmedOnlyByUser'
    BY DEF Serving, clientVars, TaskStep, TaskPlain, TaskElicit, TaskElicitSend, TaskResume,
       TaskRespond, EInv
  <1>1. [k \in CallIds |-> Told(k)]' = [k \in CallIds |-> Told(k)]
    BY <1>0, SameTold
  <1>2. CASE TaskPlain(n)
    <2>1. /\ task[n] = "running" /\ Rounds(tmethod[n]) = 0
          /\ result' = [result EXCEPT ![n] = PlainResult(tmethod[n])] /\ UNCHANGED <<asked, audit>>
      BY <1>2 DEF TaskPlain
    <2>2. method[n] = tmethod[n] /\ method[n] # "none" /\ result[n] = "none"
      BY <2>1, AtWork
    <2>3. [k \in CallIds |-> Consent(k)]' = [k \in CallIds |-> Consent(k)]
      BY <1>0, <2>1, SameConsent
    <2>4. Service!Answer(n)
      BY <1>0, <1>1, <2>1, <2>2, <2>3, SameWorkflows DEF Service!Answer
    <2> QED
      BY <2>4
  <1>3. CASE TaskElicit(n)
    <2>1. /\ asked' = [asked EXCEPT ![n] = Append(asked[n], sNextId)]
          /\ UNCHANGED <<result, audit>>
      BY <1>3 DEF TaskElicit
    <2>2. sNextId \in ElicitIds /\ asked \in [CallIds -> Seq(ElicitIds)]
      BY <1>3, BoundsAssumption DEF TaskElicit, ElicitIds, TInv, TypeOK, ServerTypeOK
    <2>3. handler[sNextId] = "none"
      BY <2>2, FlowTypes, BoundsAssumption DEF EInv, AskedOnce, One, ElicitIds
    <2>4. ~Accepts(answer[sNextId])
      BY <2>2, <2>3 DEF EInv, OwnAnswers, Accepts
    <2>5. /\ \A k \in CallIds \ {n} : asked'[k] = asked[k]
          /\ DOMAIN asked'[n] = DOMAIN asked[n] \cup {Len(asked[n]) + 1}
          /\ asked'[n][Len(asked[n]) + 1] = sNextId
          /\ \A i \in DOMAIN asked[n] : asked'[n][i] = asked[n][i]
      BY <2>1, <2>2
    <2>6. \A k \in CallIds : Consent(k)' = Consent(k)
      BY <1>0, <2>4, <2>5 DEF Consent
    <2> QED
      BY <1>0, <1>1, <2>1, <2>6, ServiceStutter
  <1>4. CASE TaskElicitSend(n)
    <2>1. task[n] = "registered" /\ UNCHANGED asked
      BY <1>4 DEF TaskElicitSend
    <2>2. CASE Continue(n, "cancel")
      BY <1>0, <2>1, <2>2, ServiceContinue
    <2>3. CASE UNCHANGED <<result, audit>>
      <3>1. [k \in CallIds |-> Consent(k)]' = [k \in CallIds |-> Consent(k)]
        BY <1>0, <2>1, SameConsent
      <3> QED
        BY <1>0, <1>1, <2>3, <3>1, ServiceStutter
    <2> QED
      BY <1>4, <2>2, <2>3 DEF TaskElicitSend
  <1>5. CASE TaskResume(n)
    <2>1. task[n] = "awaiting" /\ UNCHANGED asked
      BY <1>5 DEF TaskResume
    <2>2. PICK a : Continue(n, a)
      BY <1>5 DEF TaskResume
    <2> QED
      BY <1>0, <2>1, <2>2, ServiceContinue
  <1>6. CASE TaskRespond(n)
    <2>1. UNCHANGED <<asked, result, audit>>
      BY <1>6 DEF TaskRespond
    <2>2. [k \in CallIds |-> Consent(k)]' = [k \in CallIds |-> Consent(k)]
      BY <1>0, <2>1, SameConsent
    <2> QED
      BY <1>0, <1>1, <2>1, <2>2, ServiceStutter
  <1> QED
    BY <1>2, <1>3, <1>4, <1>5, <1>6 DEF Serving, TaskStep

\* A request that reaches the loop finds its call untouched.
LEMMA ServiceRequest ==
    ASSUME TInv, RInv, EInv, MainRequest, UNCHANGED clientVars
    PROVE  UNCHANGED <<method, call, outcome, answer, asked, result, audit>>
  <1> DEFINE req == Head(inbound)
  <1>1. UpLoses(req) /\ req.kind = "request" /\ req.id \in CallIds
    BY UpFlow, FlowTypes, ToServerFields DEF MainRequest, UpLoses, pipeVars, clientVars
  <1>2. Requests(req.id) >= 1 /\ Requests(req.id) \in Nat
    BY <1>1, Counted, FlowTypes DEF UpLoses
  <1>3. task[req.id] = "none" /\ asked[req.id] = <<>> /\ result[req.id] = "none"
    BY <1>1, <1>2 DEF RInv, ServedOnce, One, EInv, OwnForms, Progress
  <1>4. asked \in [CallIds -> Seq(ElicitIds)] /\ result \in [CallIds -> Results \cup {"none"}]
    BY DEF TInv, TypeOK, ServerTypeOK
  <1>5. /\ asked' = [asked EXCEPT ![req.id] = <<>>]
        /\ result' = [result EXCEPT ![req.id] = "none"]
        /\ UNCHANGED <<method, call, outcome, answer, audit>>
    BY DEF MainRequest, clientVars
  <1> HIDE DEF req
  <1> QED
    BY <1>1, <1>3, <1>4, <1>5

LEMMA ServiceStep ==
    TInv /\ RInv /\ EInv /\ LInv /\ EInv' /\ [Next]_vars => [Service!CallsNext]_(Service!callsVars)
  <1> SUFFICES ASSUME TInv, RInv, EInv, LInv, EInv', [Next]_vars
               PROVE  Service!CallsNext \/ UNCHANGED Service!callsVars
    OBVIOUS
  <1>1. ASSUME UNCHANGED <<method, call, outcome, answer, asked, result, audit>>
        PROVE  UNCHANGED Service!callsVars
    <2>1. /\ [k \in CallIds |-> Consent(k)]' = [k \in CallIds |-> Consent(k)]
          /\ [k \in CallIds |-> Told(k)]' = [k \in CallIds |-> Told(k)]
      BY <1>1, SameConsent, SameTold
    <2> QED
      BY <1>1, <2>1, ServiceStutter
  <1>2. CASE UNCHANGED vars
    BY <1>1, <1>2 DEF vars, clientVars, serverVars
  <1>3. CASE Begin
    BY <1>3, ServiceBegin DEF Begin, Service!CallsNext
  <1>4. ASSUME NEW n \in CallIds, Calling(n) PROVE Service!CallsNext \/ UNCHANGED Service!callsVars
    BY <1>4, ServiceCalling DEF Service!CallsNext
  <1>5. ASSUME NEW n \in CallIds, Serving(n) PROVE Service!CallsNext \/ UNCHANGED Service!callsVars
    BY <1>5, ServiceServing DEF Service!CallsNext
  <1>6. ASSUME NEW e \in ElicitIds, Answering(e) PROVE Service!CallsNext \/ UNCHANGED Service!callsVars
    BY <1>6, ServiceAnswering DEF Service!CallsNext
  <1>7. ASSUME NEW e \in ElicitIds, Replying(e) PROVE UNCHANGED Service!callsVars
    BY <1>1, <1>7 DEF Replying, HandlerSend, serverVars
  <1>8. CASE ClientReading \/ ClientWriting \/ Dropping \/ ClientEnding
    BY <1>1, <1>8 DEF ClientReading, ClientReader, ReaderResponse, ReaderRequest, ReaderEof,
       ReaderDrain, ClientWriting, ClientWriter, WriterSend, WriterStop, Dropping, ClientDrop,
       ClientEnding, ClientExit, clientVars, serverVars
  <1>9. CASE ServerLooping
    BY <1>1, <1>9, ServiceRequest DEF ServerLooping, ServerMain, MainResponse, MainNotification,
       MainClose, MainReturn, clientVars
  <1>10. CASE ServerReading \/ ServerWriting \/ ServerEnding
    BY <1>1, <1>10 DEF ServerReading, ServerReader, SReaderForward, SReaderEof, ServerWriting,
       ServerWriter, SWriterSend, SWriterStop, ServerEnding, ServerExit, clientVars, serverVars
  <1> QED
    BY <1>2, <1>3, <1>4, <1>5, <1>6, <1>7, <1>8, <1>9, <1>10 DEF Next

\* A session is to its callers and its user what ToolCalls says: whatever the
\* tasks, the channels, the pipes and the ends of the processes do, every step
\* is one of those six, or nothing they can see (call in mcp-client, run_stdio
\* in mcp-server, elicit and the workflow handlers).
THEOREM SessionIsToolCalls == Spec => ImplementsToolCalls
  <1>1. TInv /\ RInv /\ EInv /\ LInv /\ [Next]_vars
           => TInv' /\ RInv' /\ EInv' /\ LInv' /\ [Service!CallsNext]_(Service!callsVars)
    BY NextType, CallsStep, FormsStep, SettledStep, ServiceStep
  <1>2. Init => TInv /\ RInv /\ EInv /\ LInv /\ Service!CallsInit
    BY InitType, CallsInit, FormsInit, SettledInit, ServiceInit
  <1> QED
    BY <1>1, <1>2, PTL DEF Spec, ImplementsToolCalls, Service!CallsSpec
=============================================================================
