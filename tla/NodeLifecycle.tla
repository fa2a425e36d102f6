---------------------------- MODULE NodeLifecycle ----------------------------
(***************************************************************************)
(* start(), stop() and reload() of the worker nodes CmdExecNode,           *)
(* FileXferNode and NetInfoNode (src/src/ability_c/nodes/nodes.cpp): an    *)
(* atomic flag running_, the worker thread object, and the LifecycleState  *)
(* of the base class, each written by separate steps.                      *)
(***************************************************************************)
EXTENDS Naturals

CONSTANTS
    Callers,        \* threads that call start(), stop() and reload()
    Overlap,        \* the callers let different operations overlap
    ReloadStopped,  \* the callers also reload a node that does not run
    MaxStarts       \* bound: start() calls that get past the exchange

ASSUME NodeAssumption ==
    Overlap \in BOOLEAN /\ ReloadStopped \in BOOLEAN /\ MaxStarts \in Nat

VARIABLES
    running,    \* running_
    worker,     \* worker_: "none" (not joinable), in its "loop" or "done"
    state,      \* the LifecycleState
    pc,         \* where each caller is
    starts,     \* number of start() calls past the exchange
    dead        \* std::terminate was called

vars == <<running, worker, state, pc, starts, dead>>

StartPcs  == {"spawn", "mark_running"}
StopPcs   == {"probe", "join", "mark_stopped"}
ReloadPcs == {"reloaded"}

TypeOK ==
    /\ running \in BOOLEAN /\ dead \in BOOLEAN
    /\ worker \in {"none", "loop", "done"}
    /\ state \in {"Init", "Running", "Reloading", "Stopped"}
    /\ pc \in [Callers -> {"idle"} \cup StartPcs \cup StopPcs \cup ReloadPcs]
    /\ starts \in 0..MaxStarts

Init ==
    /\ running = FALSE /\ worker = "none" /\ state = "Init"
    /\ pc = [c \in Callers |-> "idle"]
    /\ starts = 0 /\ dead = FALSE

Goto(c, l) == pc' = [pc EXCEPT ![c] = l]

\* Every call in progress is in one of these places.
OnlyIn(own) == \A c \in Callers : pc[c] \in {"idle"} \cup own

\* Nobody is inside another operation, unless the callers overlap them.
MayEnter(own) == Overlap \/ OnlyIn(own)

-----------------------------------------------------------------------------
(* start(): running_.exchange(true), or RESOURCE_BUSY if it was set.       *)

StartExchange(c) ==
    /\ ~dead /\ pc[c] = "idle" /\ MayEnter(StartPcs)
    /\ ~running /\ starts < MaxStarts
    /\ running' = TRUE /\ starts' = starts + 1
    /\ Goto(c, "spawn")
    /\ UNCHANGED <<worker, state, dead>>

\* worker_ = std::thread(...): assigning to a joinable thread terminates.
StartSpawn(c) ==
    /\ ~dead /\ pc[c] = "spawn"
    /\ IF worker = "none"
       THEN worker' = "loop" /\ Goto(c, "mark_running") /\ UNCHANGED dead
       ELSE dead' = TRUE /\ UNCHANGED <<worker, pc>>
    /\ UNCHANGED <<running, state, starts>>

StartMark(c) ==
    /\ ~dead /\ pc[c] = "mark_running"
    /\ state' = "Running"
    /\ Goto(c, "idle")
    /\ UNCHANGED <<running, worker, starts, dead>>

-----------------------------------------------------------------------------
(* stop(), also called by the destructor: running_.exchange(false); only   *)
(* the call that cleared the flag joins.                                   *)

StopExchange(c) ==
    /\ ~dead /\ pc[c] = "idle" /\ MayEnter(StopPcs)
    /\ running' = FALSE
    /\ Goto(c, IF running THEN "probe" ELSE "mark_stopped")
    /\ UNCHANGED <<worker, state, starts, dead>>

StopProbe(c) ==
    /\ ~dead /\ pc[c] = "probe"
    /\ Goto(c, IF worker = "none" THEN "mark_stopped" ELSE "join")
    /\ UNCHANGED <<running, worker, state, starts, dead>>

StopJoin(c) ==
    /\ ~dead /\ pc[c] = "join"
    /\ worker # "loop"
    /\ IF worker = "done"
       THEN worker' = "none" /\ Goto(c, "mark_stopped") /\ UNCHANGED dead
       ELSE dead' = TRUE /\ UNCHANGED <<worker, pc>>
    /\ UNCHANGED <<running, state, starts>>

\* Mutated form of StopMark: the state is left as it was.
StopMark_Missing(c) ==
    /\ ~dead /\ pc[c] = "mark_stopped"
    /\ Goto(c, "idle")
    /\ UNCHANGED <<running, worker, state, starts, dead>>

StopMark(c) ==
    /\ ~dead /\ pc[c] = "mark_stopped"
    /\ state' = "Stopped"
    /\ Goto(c, "idle")
    /\ UNCHANGED <<running, worker, starts, dead>>

-----------------------------------------------------------------------------
(* reload(): Reloading, then Running, whatever the node was doing.         *)

ReloadBegin(c) ==
    /\ ~dead /\ pc[c] = "idle" /\ MayEnter(ReloadPcs)
    /\ ReloadStopped \/ running
    /\ state' = "Reloading"
    /\ Goto(c, "reloaded")
    /\ UNCHANGED <<running, worker, starts, dead>>

ReloadEnd(c) ==
    /\ ~dead /\ pc[c] = "reloaded"
    /\ state' = "Running"
    /\ Goto(c, "idle")
    /\ UNCHANGED <<running, worker, starts, dead>>

\* worker(): while (running_.load()).  A pass of the loop takes bounded time
\* (recv(100), try_recv); CmdExecNode has the one that may not.
WorkerEnd ==
    /\ ~dead /\ worker = "loop" /\ ~running
    /\ worker' = "done"
    /\ UNCHANGED <<running, state, pc, starts, dead>>

-----------------------------------------------------------------------------
Start(c)  == StartExchange(c) \/ StartSpawn(c) \/ StartMark(c)
Stop(c)   == StopExchange(c) \/ StopProbe(c) \/ StopJoin(c) \/ StopMark(c)
Reload(c) == ReloadBegin(c) \/ ReloadEnd(c)

Next ==
    \/ \E c \in Callers : Start(c) \/ Stop(c) \/ Reload(c)
    \/ WorkerEnd

Spec == Init /\ [][Next]_vars

-----------------------------------------------------------------------------
(* Properties.                                                             *)

Quiet == \A c \in Callers : pc[c] = "idle"

\* Starts racing starts and stops racing stops never assign over a joinable
\* thread nor join one twice.
NoTerminate == ~dead

\* When no call is in progress, state() tells the truth: Running if and only
\* if running_ is set and the worker thread is in its loop, and otherwise no
\* thread is left behind.
QuietConsistent ==
    Quiet => /\ (state = "Running") <=> running
             /\ worker = IF running THEN "loop" ELSE "none"

Within(c, pcs) == pc[c] \in pcs
Alone(pcs) == \A c, d \in Callers : Within(c, pcs) /\ Within(d, pcs) => c = d

\* Why: calls in progress are of one kind; one start() spawns and one stop()
\* probes and joins, the one whose exchange turned the flag; and in between
\* running_ says whether there is a thread.
OneKind == OnlyIn(StartPcs) \/ OnlyIn(StopPcs) \/ OnlyIn(ReloadPcs)

FlagAgrees ==
    /\ \A c \in Callers : Within(c, StartPcs \cup ReloadPcs) => running
    /\ \A c \in Callers : Within(c, StopPcs) => ~running

WorkerAgrees ==
    /\ \A c \in Callers : Within(c, {"spawn"}) => worker = "none"
    /\ \A c \in Callers : Within(c, {"probe", "join"}) => worker # "none"
    /\ (\A c \in Callers : ~Within(c, {"spawn", "probe", "join"})) =>
          worker = IF running THEN "loop" ELSE "none"
    /\ running => worker # "done"

\* The inductive invariant of a node whose different operations do not
\* overlap.
SerialInv ==
    /\ TypeOK /\ NoTerminate /\ QuietConsistent
    /\ OneKind /\ Alone(StartPcs) /\ Alone({"probe", "join"})
    /\ FlagAgrees /\ WorkerAgrees

\* Every start(), stop() and reload() returns.
CallsReturn == \A c \in Callers : pc[c] # "idle" ~> pc[c] = "idle"
=============================================================================
