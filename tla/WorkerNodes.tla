---------------------------- MODULE WorkerNodes ----------------------------
(***************************************************************************)
(* A node of each of the three classes with a worker thread                *)
(* (src/src/ability_c/nodes/nodes.cpp): they share the life cycle of       *)
(* NodeLifecycle and differ in their ports and in what a pass of the       *)
(* worker's loop does.  The owner picks the class when it makes the node.  *)
(***************************************************************************)
EXTENDS CmdExecNode

CONSTANTS
    Kinds,          \* the classes: "cmd_exec", "file_xfer", "net_info"
    Chunks, Unsafe, Roots, StartsWith, LongMax, DiskFaults, ChunkCapacity,
    MaxChunks,      \* see FileXferNode
    QueryCapacity, SetCapacity, MaxSets  \* see NetInfoNode

ASSUME WorkerAssumption ==
    /\ Kinds \subseteq {"cmd_exec", "file_xfer", "net_info"}
    /\ \A c \in Chunks : c.offset \in Nat /\ c.len \in Nat
    /\ DiskFaults \subseteq {"open", "reopen", "short"}
    /\ {LongMax, ChunkCapacity, MaxChunks, QueryCapacity, SetCapacity, MaxSets}
          \subseteq Nat

VARIABLES
    kind,                                   \* the class of the node
    pushed, taken, file, oks, damaged,      \* FileXferNode's
    queries, sets, applied                  \* NetInfoNode's

F == INSTANCE FileXferNode
N == INSTANCE NetInfoNode

fileVars == <<pushed, taken, file, oks, damaged>>
netVars  == <<queries, sets, applied>>
nodeVars == <<kind, cmdVars, fileVars, netVars>>

NodesInit == kind \in Kinds /\ CmdInit /\ F!FileInit /\ N!NetInit

\* A step of a node of each class.
CmdExec(A) ==
    /\ kind = "cmd_exec" /\ A
    /\ UNCHANGED <<kind, fileVars, netVars>>
FileXfer(A) ==
    /\ kind = "file_xfer" /\ A
    /\ UNCHANGED <<kind, requests, execVars, netVars>>
NetInfo(A) ==
    /\ kind = "net_info" /\ A
    /\ UNCHANGED <<kind, requests, execVars, fileVars>>

NodesNext == CmdExec(CmdNext) \/ FileXfer(F!FileNext) \/ NetInfo(N!NetNext)

AnyCaller(c) ==
    CmdExec(Caller(c)) \/ FileXfer(F!FileCaller(c)) \/ NetInfo(N!NetCaller(c))
AnyWorker ==
    \/ CmdExec(LoopTest \/ RecvTimeout \/ Take \/ Reply)
    \/ FileXfer(F!FileWorker)
    \/ NetInfo(N!NetWorker)

(***************************************************************************)
(* As in CmdFairness: every thread runs; nobody is sure to call or to      *)
(* send, and a child may hang.                                             *)
(***************************************************************************)
NodesFairness ==
    /\ \A c \in Callers : WF_nodeVars(pc[c] # "idle" /\ AnyCaller(c))
    /\ WF_nodeVars(AnyWorker)
    /\ WF_nodeVars(CmdExec(Execute(X!Proceeds)))
    /\ WF_nodeVars(CmdExec(Execute(X!Child)))

NodesSpec == NodesInit /\ [][NodesNext]_nodeVars /\ NodesFairness

-----------------------------------------------------------------------------
(* Properties, beside those of CmdExecNode, which hold of a node of any    *)
(* class.                                                                  *)

\* What FileXferNode has answered with ok is in the file, see there.
StoredAsAcked == F!StoredAsAcked

\* What the port of requests has accepted, and how much of it was taken up.
\* NetInfoNode's is in_set_.
Turns == (1 .. MaxCalls) \cup (1 .. MaxChunks) \cup (1 .. MaxSets)
Accepted(n) == requests >= n \/ Len(pushed) >= n \/ sets >= n
TakenUp(n)  == calls >= n \/ taken >= n \/ applied >= n

\* Whatever a port has accepted is taken up in its turn while the node runs: a
\* chunk of FileXferNode always; a request of CmdExecNode unless a child before
\* it does not end, is blocked or holds the pipes for ever; a set request of
\* NetInfoNode unless queries keep coming, as the worker looks at in_set_ only
\* when it finds in_query_ empty.
AllServed ==
    \/ <>[]Hung \/ <>[]Choked \/ <>[]heir \/ []<>(queries > 0)
    \/ \A n \in Turns : Accepted(n) ~> (TakenUp(n) \/ ~running)

\* The invariant from which StoredAsAcked, OutputComplete and DescriptorsClosed
\* follow: that of ProcessExecutor, and that of FileXferNode or, for a node of
\* another class, files that nobody wrote.
WorkInv ==
    /\ X!ExecInv
    /\ kind = "file_xfer" => F!FileInv
    /\ kind # "file_xfer" => oks = {} /\ file = [p \in F!Paths |-> <<>>]
=============================================================================
