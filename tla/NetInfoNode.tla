----------------------------- MODULE NetInfoNode -----------------------------
(***************************************************************************)
(* NetInfoNode (src/src/ability_c/nodes/nodes.cpp): the life cycle of      *)
(* NodeLifecycle, with a worker that polls two input ports with try_recv:  *)
(* only when there is no query does it look for a set request.             *)
(***************************************************************************)
EXTENDS NodeLifecycle

CONSTANTS
    QueryCapacity,  \* capacity_ of in_query_
    SetCapacity,    \* capacity_ of in_set_
    MaxSets         \* bound: set requests accepted; queries have no bound

VARIABLES
    wpc,        \* where the worker is: "test" of running_, "query" or "set"
    queries,    \* length of in_query_'s queue_
    sets,       \* set requests that in_set_ has accepted
    applied     \* how many of them the worker has taken; the rest are queue_

netVars == <<queries, sets, applied>>

NetInit == Init /\ wpc = "test" /\ queries = 0 /\ sets = 0 /\ applied = 0

-----------------------------------------------------------------------------
\* push on either port; a full one refuses (RESOURCE_BUSY).
PushQuery ==
    /\ ~dead /\ queries < QueryCapacity
    /\ queries' = queries + 1
    /\ UNCHANGED <<vars, wpc, sets, applied>>

PushSet ==
    /\ ~dead /\ sets < MaxSets /\ sets - applied < SetCapacity
    /\ sets' = sets + 1
    /\ UNCHANGED <<vars, wpc, queries, applied>>

\* start(), stop() and reload() by their callers.
NetCaller(c) ==
    /\ Start(c) \/ Stop(c) \/ Reload(c)
    /\ UNCHANGED <<wpc, netVars>>

\* while (running_.load())
NetLoopTest ==
    /\ ~dead /\ worker = "loop" /\ wpc = "test"
    /\ IF running THEN wpc' = "query" /\ UNCHANGED vars
                  ELSE WorkerEnd /\ UNCHANGED wpc
    /\ UNCHANGED netVars

\* in_query_.try_recv(): a query is answered by query_one and the loop starts
\* over; whether out_result_ took the answer is ignored.
TryQuery ==
    /\ ~dead /\ wpc = "query"
    /\ IF queries > 0 THEN queries' = queries - 1 /\ wpc' = "test"
                      ELSE wpc' = "set" /\ UNCHANGED queries
    /\ UNCHANGED <<vars, sets, applied>>

\* in_set_.try_recv(): apply_set, which only echoes the request, or a sleep.
TrySet ==
    /\ ~dead /\ wpc = "set"
    /\ applied' = IF applied < sets THEN applied + 1 ELSE applied
    /\ wpc' = "test"
    /\ UNCHANGED <<vars, queries, sets>>

NetWorker == NetLoopTest \/ TryQuery \/ TrySet

NetNext ==
    \/ \E c \in Callers : NetCaller(c)
    \/ PushQuery \/ PushSet
    \/ NetWorker
=============================================================================
