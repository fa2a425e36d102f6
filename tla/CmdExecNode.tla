---------------------------- MODULE CmdExecNode ----------------------------
(***************************************************************************)
(* CmdExecNode (src/src/ability_c/nodes/nodes.cpp): the life cycle of      *)
(* NodeLifecycle, with a worker that takes requests from its input port    *)
(* (src/src/ability_b/port/port.hpp) and runs each with                    *)
(* ProcessExecutor::execute before it looks at running_ again.  stop()     *)
(* joins that worker, so a child process that does not end holds up        *)
(* stop() and every request behind it.                                     *)
(***************************************************************************)
EXTENDS NodeLifecycle, Sequences

CONSTANTS
    PortCapacity,   \* capacity_ of in_cmd_; 0: no limit
    Verdicts, Capacity, MaxOut, MaxErr, Faults,  \* see ProcessExecutor
    MaxCalls        \* bound: requests accepted by the port

ASSUME ExecutorAssumption ==
    /\ Verdicts \subseteq {"ok", "INVALID_ARG", "BIZ_AUTH_UNTRUSTED"}
    /\ Capacity \in Nat \ {0} /\ MaxOut \in Nat /\ MaxErr \in Nat
    /\ Faults \subseteq {"pipe1", "pipe2", "spawn", "read", "inherit"}
    /\ MaxCalls \in Nat /\ PortCapacity \in Nat

VARIABLES
    wpc,        \* where the worker is in its loop: "test" of running_, "recv",
                \* or "exec"
    requests,   \* requests the port has accepted; the worker has taken
                \* `calls` of them, oldest first, the rest are queue_
    exec,       \* pc of ProcessExecutor; the rest are its variables
    verdict, fds, child, heir, pipe, wrote, text, cut, result, calls, leaked, torn

X == INSTANCE ProcessExecutor WITH pc <- exec

execVars == <<exec, verdict, fds, child, heir, pipe, wrote, text, cut, result,
              calls, leaked, torn>>
cmdVars == <<vars, wpc, requests, execVars>>

CmdInit == Init /\ wpc = "test" /\ requests = 0 /\ X!Init

-----------------------------------------------------------------------------
(* The input port.                                                         *)

\* queue_.size() and, for the worker, a queue that is not empty.
QueueSize == requests - calls

\* Mutated form of Pending: the last request is not seen.
Pending_ButLast == QueueSize > 1

Pending == QueueSize > 0

\* push by any thread, whatever the state of the node; a full port refuses
\* (RESOURCE_BUSY).
Push ==
    /\ ~dead /\ requests < MaxCalls
    /\ PortCapacity = 0 \/ QueueSize < PortCapacity
    /\ requests' = requests + 1
    /\ UNCHANGED <<vars, wpc, execVars>>

-----------------------------------------------------------------------------
\* start(), stop() and reload() by their callers.
Caller(c) ==
    /\ Start(c) \/ Stop(c) \/ Reload(c)
    /\ UNCHANGED <<wpc, requests, execVars>>

\* while (running_.load())
LoopTest ==
    /\ ~dead /\ worker = "loop" /\ wpc = "test"
    /\ IF running THEN wpc' = "recv" /\ UNCHANGED vars
                  ELSE WorkerEnd /\ UNCHANGED wpc
    /\ UNCHANGED <<requests, execVars>>

\* in_cmd_.recv(100) gives up: only if there is nothing to take.
RecvTimeout ==
    /\ ~dead /\ wpc = "recv" /\ ~Pending
    /\ wpc' = "test"
    /\ UNCHANGED <<vars, requests, execVars>>

\* It returns a request, and execute is called.
Take ==
    /\ ~dead /\ wpc = "recv" /\ Pending
    /\ wpc' = "exec"
    /\ X!Call
    /\ UNCHANGED <<vars, requests>>

\* execute has returned: the result, or "exec failed", is sent on.  Whether
\* out_result_ took it is ignored.
Reply ==
    /\ ~dead /\ wpc = "exec" /\ exec = "returned"
    /\ wpc' = "test"
    /\ UNCHANGED <<vars, requests, execVars>>

\* A step of execute or of the child process.
Execute(A) == ~dead /\ A /\ UNCHANGED <<vars, wpc, requests>>

CmdNext ==
    \/ \E c \in Callers : Caller(c)
    \/ Push
    \/ LoopTest \/ RecvTimeout \/ Take \/ Reply
    \/ Execute(X!Proceeds) \/ Execute(X!Fails)
    \/ Execute(X!Child) \/ Execute(X!Hang) \/ Execute(X!Killed) \/ Execute(X!Heir)

(***************************************************************************)
(* Every thread runs; nobody is sure to call, to send a request or to kill *)
(* the child, and no call is sure to fail.  Nothing is assumed of the      *)
(* child: one that does not go on with what it has to do hangs (X!Hang),   *)
(* which any child may do at any time and for ever; the last conjunct only *)
(* says that a child that does not hang runs.                              *)
(***************************************************************************)
CmdFairness ==
    /\ \A c \in Callers : WF_cmdVars(pc[c] # "idle" /\ Caller(c))
    /\ WF_cmdVars(LoopTest \/ RecvTimeout \/ Take \/ Reply)
    /\ WF_cmdVars(Execute(X!Proceeds))
    /\ WF_cmdVars(Execute(X!Child))

CmdSpec == CmdInit /\ [][CmdNext]_cmdVars /\ CmdFairness

-----------------------------------------------------------------------------
(* Properties, beside those of NodeLifecycle.                              *)

\* The child is blocked: it writes to a full pipe that execute does not read.
Choked ==
    /\ child = "runs"
    /\ \E s \in X!Streams : exec # s /\ Len(pipe[s]) = Capacity

\* The child never ends of its own accord.
Hung == child = "hangs"

\* Every start(), stop() and reload() returns, also while a request is being
\* executed, but for three cases: the child does not end, and execute has no
\* timeout; the child would end but stays blocked forever, because it has more
\* to say on stderr than a pipe holds while execute still reads stdout, or on
\* stdout after an interrupted read made execute go on to stderr; or a child of
\* another node, that inherited the pipes, never ends.
StopReturns == (<>[]Hung) \/ (<>[]Choked) \/ (<>[]heir) \/ CallsReturn

\* Whatever the callers do meanwhile, a result that execute returns is
\* everything the child wrote, see ProcessExecutor.
OutputComplete == X!OutputComplete

\* Over all requests served no descriptor is left open but by a failing
\* second pipe(), see ProcessExecutor.
DescriptorsClosed == X!DescriptorsClosed
=============================================================================
