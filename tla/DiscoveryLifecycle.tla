------------------------- MODULE DiscoveryLifecycle -------------------------
(***************************************************************************)
(* start() and stop() of the discovery Scanner and Advertiser              *)
(* (src/src/ability_a/discovery/scanner.cpp, advertiser.cpp): an atomic    *)
(* state, a std::thread object and a socket, with no lock around them.     *)
(* Every atomic operation and every use of the thread object is a step.    *)
(*                                                                         *)
(* Both classes have the same code but for the order of stop(): Scanner    *)
(* closes its socket before it joins, Advertiser after.                    *)
(***************************************************************************)
EXTENDS Naturals

CONSTANTS
    Threads,        \* threads that call start() and stop()
    Overlap,        \* the callers let a start() and a stop() overlap
    MaxStarts       \* bound: start() calls that get past the CAS

ASSUME LifecycleAssumption ==
    Overlap \in BOOLEAN /\ MaxStarts \in Nat

VARIABLES
    class,      \* which of the two classes the object is of
    state,      \* state_
    worker,     \* what the thread object stands for: "none" (not joinable),
                \* or a thread that is "born", in its "loop" or "done"
    sock,       \* sock_ is open
    pc,         \* where each caller is
    starts,     \* number of threads started
    dead        \* std::terminate was called

lifeVars == <<class, state, worker, sock, pc, starts, dead>>

StartPcs == {"spawn", "spin"}
StopPcs  == {"close", "probe", "join", "close_after"}

CloseFirst == class = "Scanner"

LifeTypeOK ==
    /\ class \in {"Scanner", "Advertiser"}
    /\ state \in {"Stopped", "Starting", "Running"}
    /\ worker \in {"none", "born", "loop", "done"}
    /\ sock \in BOOLEAN /\ dead \in BOOLEAN
    /\ pc \in [Threads -> {"idle"} \cup StartPcs \cup StopPcs]
    /\ starts \in 0..MaxStarts

LifeInit ==
    /\ class \in {"Scanner", "Advertiser"}
    /\ state = "Stopped" /\ worker = "none" /\ sock = TRUE
    /\ pc = [c \in Threads |-> "idle"]
    /\ starts = 0 /\ dead = FALSE

Goto(c, l) == pc' = [pc EXCEPT ![c] = l]

\* Nobody else is inside the other operation, unless the callers overlap them.
MayEnter(others) == Overlap \/ \A c \in Threads : pc[c] \notin others

-----------------------------------------------------------------------------
(* start().                                                                *)

\* Mutated form of StartCas: the state is set without comparing it.
StartCas_Blind(c) ==
    /\ ~dead /\ pc[c] = "idle" /\ MayEnter(StopPcs)
    /\ starts < MaxStarts
    /\ state' = "Starting"
    /\ starts' = starts + 1
    /\ Goto(c, "spawn")
    /\ UNCHANGED <<worker, sock, dead>>

\* The CAS from kStopped succeeds; if it fails start() returns RESOURCE_BUSY.
StartCas(c) ==
    /\ ~dead /\ pc[c] = "idle" /\ MayEnter(StopPcs)
    /\ state = "Stopped" /\ starts < MaxStarts
    /\ state' = "Starting"
    /\ starts' = starts + 1
    /\ Goto(c, "spawn")
    /\ UNCHANGED <<worker, sock, dead>>

\* thread_ = std::thread(...): assigning to a joinable thread terminates.
StartSpawn(c) ==
    /\ ~dead /\ pc[c] = "spawn"
    /\ IF worker = "none"
       THEN worker' = "born" /\ Goto(c, "spin") /\ UNCHANGED dead
       ELSE dead' = TRUE /\ UNCHANGED <<worker, pc>>
    /\ UNCHANGED <<state, sock, starts>>

\* Mutated form of StartSpin: start() returns without waiting for the thread.
StartSpin_NoWait(c) ==
    /\ ~dead /\ pc[c] = "spin"
    /\ Goto(c, "idle")
    /\ UNCHANGED <<state, worker, sock, starts, dead>>

StartSpin(c) ==
    /\ ~dead /\ pc[c] = "spin"
    /\ state # "Starting"
    /\ Goto(c, "idle")
    /\ UNCHANGED <<state, worker, sock, starts, dead>>

-----------------------------------------------------------------------------
(* stop(), also called by the destructor.                                  *)

AfterExchange == IF CloseFirst THEN "close" ELSE "probe"
AfterJoin     == IF CloseFirst THEN "idle" ELSE "close_after"

\* Mutated form of StopExchange: the old state is read, the new one not stored.
StopExchange_NoStore(c) ==
    /\ ~dead /\ pc[c] = "idle" /\ MayEnter(StartPcs)
    /\ state # "Stopped"
    /\ Goto(c, AfterExchange)
    /\ UNCHANGED <<state, worker, sock, starts, dead>>

\* exchange(kStopped); if it was kStopped already stop() returns.
StopExchange(c) ==
    /\ ~dead /\ pc[c] = "idle" /\ MayEnter(StartPcs)
    /\ state # "Stopped"
    /\ state' = "Stopped"
    /\ Goto(c, AfterExchange)
    /\ UNCHANGED <<worker, sock, starts, dead>>

StopClose(c) ==
    /\ ~dead /\ pc[c] \in {"close", "close_after"}
    /\ sock' = FALSE
    /\ Goto(c, IF pc[c] = "close" THEN "probe" ELSE "idle")
    /\ UNCHANGED <<state, worker, starts, dead>>

\* if (thread_.joinable())
StopProbe(c) ==
    /\ ~dead /\ pc[c] = "probe"
    /\ Goto(c, IF worker = "none" THEN AfterJoin ELSE "join")
    /\ UNCHANGED <<state, worker, sock, starts, dead>>

\* thread_.join(): of a thread another caller has joined meanwhile it throws,
\* and stop() is noexcept.
StopJoin(c) ==
    /\ ~dead /\ pc[c] = "join"
    /\ worker \in {"done", "none"}
    /\ IF worker = "done"
       THEN worker' = "none" /\ Goto(c, AfterJoin) /\ UNCHANGED dead
       ELSE dead' = TRUE /\ UNCHANGED <<worker, pc>>
    /\ UNCHANGED <<state, sock, starts>>

-----------------------------------------------------------------------------
(* The thread.                                                             *)

WorkerBegin ==
    /\ ~dead /\ worker = "born"
    /\ worker' = "loop" /\ state' = "Running"
    /\ UNCHANGED <<sock, pc, starts, dead>>

\* The loop runs while state_ is kRunning.  What it does there (poll_once,
\* broadcast_once) changes nothing here.
WorkerEnd ==
    /\ ~dead /\ worker = "loop" /\ state # "Running"
    /\ worker' = "done"
    /\ UNCHANGED <<state, sock, pc, starts, dead>>

-----------------------------------------------------------------------------
Start(c) == StartCas(c) \/ StartSpawn(c) \/ StartSpin(c)
Stop(c)  == StopExchange(c) \/ StopClose(c) \/ StopProbe(c) \/ StopJoin(c)

LifeNext ==
    /\ UNCHANGED class
    /\ \/ \E c \in Threads : Start(c) \/ Stop(c)
       \/ WorkerBegin \/ WorkerEnd

LifeSpec == LifeInit /\ [][LifeNext]_lifeVars

\* The operating system runs every thread: a call goes on and the worker does.
Continue(c) == pc[c] # "idle" /\ UNCHANGED class /\ (Start(c) \/ Stop(c))

LifeFairness ==
    /\ \A c \in Threads : WF_lifeVars(Continue(c))
    /\ WF_lifeVars(UNCHANGED class /\ (WorkerBegin \/ WorkerEnd))

FairLifeSpec == LifeSpec /\ LifeFairness

-----------------------------------------------------------------------------
(* Properties.                                                             *)

Quiet == \A c \in Threads : pc[c] = "idle"

\* Starts racing starts and stops racing stops never assign over a joinable
\* thread nor join one twice.
NoTerminate == ~dead

\* When no call is in progress the object is running with its thread in the
\* loop, or stopped with no thread and, once it ran, a closed socket: start()
\* does not return before the thread runs, stop() not before it has ended.  The
\* socket is made with the object and closed by the first stop(): one that is
\* started again runs without it.
QuietConsistent ==
    Quiet => \/ state = "Running" /\ worker = "loop" /\ (sock <=> starts = 1)
             \/ state = "Stopped" /\ worker = "none" /\ (starts > 0 => ~sock)

Alone(pcs) == \A c, d \in Threads : pc[c] \in pcs /\ pc[d] \in pcs => c = d

\* Why: start() and stop() do not overlap; one start() spawns and waits, one
\* stop() closes, probes and joins, and state_ tells which stage it is at.
OneKind ==
    \/ \A c \in Threads : pc[c] \notin StopPcs
    \/ \A c \in Threads : pc[c] \notin StartPcs

StartStage ==
    /\ \A c \in Threads : pc[c] = "spawn" => state = "Starting" /\ worker = "none"
    /\ \A c \in Threads : pc[c] = "spin" =>
          \/ state = "Starting" /\ worker = "born"
          \/ state = "Running" /\ worker = "loop"

StopStage ==
    \A c \in Threads :
        /\ pc[c] \in StopPcs => state = "Stopped"
        /\ pc[c] \in {"close", "probe", "join"} => worker \in {"loop", "done"}
        /\ pc[c] = "close_after" => worker = "none"
        /\ pc[c] = "close" => CloseFirst
        /\ CloseFirst /\ pc[c] \in {"probe", "join"} => ~sock

\* The socket is open until the first stop().
SockStage ==
    /\ starts = 0 => sock /\ Quiet /\ state = "Stopped"
    /\ starts = 1 /\ state # "Stopped" => sock
    /\ starts > 1 => ~sock

\* The inductive invariant of a scanner or advertiser whose start() and stop()
\* do not overlap.
SerialInv ==
    /\ LifeTypeOK /\ NoTerminate /\ QuietConsistent
    /\ OneKind /\ Alone(StartPcs) /\ Alone(StopPcs)
    /\ StartStage /\ StopStage /\ SockStage

\* Every start() and stop() returns.
CallsReturn == \A c \in Threads : pc[c] # "idle" ~> pc[c] = "idle"
=============================================================================
