------------------------------ MODULE McpPipes ------------------------------
(***************************************************************************)
(* The line-delimited JSON pipes between an MCP client and the MCP server: *)
(* c2s is the server's stdin, s2c its stdout.  Each end is owned by one    *)
(* tokio task, and the end is open as long as its task runs.               *)
(***************************************************************************)
EXTENDS Naturals, Sequences, Workflow

CONSTANTS
    MaxCalls,     \* bound: calls the client makes in one session
    MaxElicits,   \* bound: elicitations the server makes in one session
    ElicitBase,   \* first id of a server-initiated request (1_000_000 in elicit.rs)
    ChanCap,      \* capacity of every mpsc channel (64 in the code)
    PipeCap,      \* messages a pipe holds before a write blocks
    Methods,      \* methods the client calls
    UserAnswers   \* answers the client's delegate gives

ASSUME BoundsAssumption ==
    /\ MaxCalls \in Nat
    /\ MaxElicits \in Nat
    /\ ElicitBase \in Nat
    /\ ChanCap \in Nat \ {0}
    /\ PipeCap \in Nat \ {0}

ASSUME InputsAssumption == Methods \subseteq AllMethods /\ UserAnswers \subseteq Answers

CallIds == 1..MaxCalls
ElicitIds == ElicitBase..(ElicitBase + MaxElicits - 1)

VARIABLES
    c2s,       \* messages written by the client and not yet read
    s2c,       \* messages written by the server and not yet read
    cWriter,   \* the client's writer task owns the writing end of c2s
    sReader,   \* the server's reader task owns the reading end of c2s
    sWriter,   \* the server's writer task owns the writing end of s2c
    cReader    \* the client's reader task owns the reading end of s2c

pipeVars == <<c2s, s2c, cWriter, sReader, sWriter, cReader>>

ToServer ==
    [kind : {"request"}, id : CallIds, body : Methods]
        \cup [kind : {"response"}, id : ElicitIds, body : Answers]
        \cup [kind : {"notification"}, id : {0}, body : {"initialized"}]

ToClient ==
    [kind : {"response"}, id : CallIds, body : Results]
        \cup [kind : {"request"}, id : ElicitIds, body : {"elicitation/create"}]

PipesTypeOK ==
    /\ c2s \in Seq(ToServer)
    /\ s2c \in Seq(ToClient)
    /\ cWriter \in {"running", "stopped"}
    /\ sReader \in {"running", "stopped"}
    /\ sWriter \in {"running", "stopped"}
    /\ cReader \in {"running", "draining", "stopped"}

PipesInit ==
    /\ c2s = <<>>
    /\ s2c = <<>>
    /\ cWriter = "running"
    /\ sReader = "running"
    /\ sWriter = "running"
    /\ cReader = "running"

\* StdioReader::recv returns Ok(None): nothing left and the other end closed.
EofAtServer == c2s = <<>> /\ cWriter = "stopped"
EofAtClient == s2c = <<>> /\ sWriter = "stopped"

\* StdioWriter::send fails: the reading end of the pipe is gone.
BrokenToServer == sReader = "stopped"
BrokenToClient == cReader = "stopped"
=============================================================================
