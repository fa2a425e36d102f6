-------------------------- MODULE ServiceRegistry --------------------------
(***************************************************************************)
(* The node registry of src/src/ability_a/registry/service_registry.cpp.   *)
(*                                                                         *)
(* A writer changes nodes_ under mtx_, lets go of it, copies the           *)
(* subscribers' callbacks under sub_mtx_, lets go of that too, and then    *)
(* calls the copies one after the other: each of these is a step, and      *)
(* everybody else may step in between.  A subscriber is modelled by what   *)
(* DiscoveryBridge does with the events: it keeps a copy of the registry.  *)
(***************************************************************************)
EXTENDS Naturals, FiniteSets

CONSTANTS
    Writers,        \* threads that call register_node and unregister_node
    Nodes,          \* node_id_ values
    Versions,       \* contents of an entry
    Subs,           \* subscription ids; next_sub_id_ never hands one out twice
    None, Unknown,  \* no entry; a node the subscriber has heard nothing about
    MaxOps,         \* bound: changes of nodes_ that are notified
    MaxClears       \* bound: calls of clear()

ASSUME RegistryAssumption ==
    /\ MaxOps \in Nat /\ MaxClears \in Nat
    /\ None # Unknown /\ {None, Unknown} \cap Versions = {}

Events == {"Add", "Update", "Remove"}
Notices == [ev : Events, node : Nodes, ver : Versions, op : 1 .. MaxOps]

VARIABLES
    nodes,     \* nodes_: the entry of each node, or None
    subs,      \* subs_: "new" (not yet subscribed), "on", or "off"
    wpc,       \* where each writer is: "idle", "notify", "calling"
    wev,       \* the event it notifies of, None when idle
    wtodo,     \* cbs: the copied callbacks it has yet to call
    mirror,    \* each subscriber's copy of the registry
    heard,     \* history: the changes each subscriber was told of
    since,     \* history: the number of changes when it subscribed
    ops,       \* history: number of notified changes of nodes_
    unsaid,    \* history: nodes that clear() dropped and nobody registered since
    clears,    \* number of clear() calls
    raced      \* history: nodes whose last change came while another writer
               \* was still notifying of the one before

writers == <<wpc, wev, wtodo>>
told    == <<mirror, heard>>
vars == <<nodes, subs, writers, told, since, ops, unsaid, clears, raced>>

TypeOK ==
    /\ nodes \in [Nodes -> Versions \cup {None}]
    /\ subs \in [Subs -> {"new", "on", "off"}]
    /\ wpc \in [Writers -> {"idle", "notify", "calling"}]
    /\ wev \in [Writers -> Notices \cup {None}]
    /\ \A w \in Writers : wpc[w] # "idle" => wev[w] \in Notices
    /\ wtodo \in [Writers -> SUBSET Subs]
    /\ mirror \in [Subs -> [Nodes -> Versions \cup {None, Unknown}]]
    /\ heard \in [Subs -> SUBSET (1 .. MaxOps)]
    /\ since \in [Subs -> 0 .. MaxOps]
    /\ ops \in 0 .. MaxOps /\ clears \in 0 .. MaxClears
    /\ unsaid \subseteq Nodes /\ raced \subseteq Nodes

Init ==
    /\ nodes = [n \in Nodes |-> None]
    /\ subs = [s \in Subs |-> "new"]
    /\ wpc = [w \in Writers |-> "idle"]
    /\ wev = [w \in Writers |-> None]
    /\ wtodo = [w \in Writers |-> {}]
    /\ mirror = [s \in Subs |-> [n \in Nodes |-> Unknown]]
    /\ heard = [s \in Subs |-> {}] /\ since = [s \in Subs |-> 0]
    /\ ops = 0 /\ unsaid = {} /\ clears = 0 /\ raced = {}

On == {s \in Subs : subs[s] = "on"}

-----------------------------------------------------------------------------
(* The writers.                                                            *)

\* The writer leaves the critical section on mtx_ with an event to notify of.
Changed(w, event, n, v) ==
    /\ ops < MaxOps
    /\ ops' = ops + 1
    /\ wpc' = [wpc EXCEPT ![w] = "notify"]
    /\ wev' = [wev EXCEPT ![w] = [ev |-> event, node |-> n, ver |-> v, op |-> ops + 1]]
    /\ unsaid' = unsaid \ {n}
    /\ raced' = IF \E u \in Writers \ {w} : wpc[u] # "idle" /\ wev[u].node = n
                THEN raced \cup {n} ELSE raced \ {n}
    /\ UNCHANGED <<wtodo, subs, told, since, clears>>

\* is_new decides which event an insert or overwrite is.
RegisterEvent(n) == IF nodes[n] = None THEN "Add" ELSE "Update"

register_node(w, n, v) ==
    /\ wpc[w] = "idle"
    /\ nodes' = [nodes EXCEPT ![n] = v]
    /\ Changed(w, RegisterEvent(n), n, v)

\* Mutated form of unregister_node: the entry stays.
unregister_node_Kept(w, n) ==
    /\ wpc[w] = "idle"
    /\ nodes[n] # None
    /\ UNCHANGED nodes
    /\ Changed(w, "Remove", n, nodes[n])

\* An absent node is not notified of and nothing changes.
unregister_node(w, n) ==
    /\ wpc[w] = "idle"
    /\ nodes[n] # None
    /\ nodes' = [nodes EXCEPT ![n] = None]
    /\ Changed(w, "Remove", n, nodes[n])

\* Mutated form of Copied: the loop stops after the first callback.
Copied_FirstOnly == IF On = {} THEN {} ELSE {CHOOSE s \in On : TRUE}

\* The callbacks notify copies under sub_mtx_.
Copied == On

\* notify, first half.  With nobody subscribed the call returns.
CopyCallbacks(w) ==
    /\ wpc[w] = "notify"
    /\ wtodo' = [wtodo EXCEPT ![w] = Copied]
    /\ wpc' = [wpc EXCEPT ![w] = IF Copied = {} THEN "idle" ELSE "calling"]
    /\ wev' = [wev EXCEPT ![w] = IF Copied = {} THEN None ELSE @]
    /\ UNCHANGED <<nodes, subs, told, since, ops, unsaid, clears, raced>>

\* notify, one call of the loop, in any order (subs_ is an unordered_map).
\* The copy is called whether or not it has been unsubscribed since.
Callback(w, s) ==
    /\ wpc[w] = "calling"
    /\ s \in wtodo[w]
    /\ mirror' = [mirror EXCEPT ![s][wev[w].node] =
                     IF wev[w].ev = "Remove" THEN None ELSE wev[w].ver]
    /\ heard' = [heard EXCEPT ![s] = @ \cup {wev[w].op}]
    /\ wtodo' = [wtodo EXCEPT ![w] = @ \ {s}]
    /\ wpc' = [wpc EXCEPT ![w] = IF wtodo[w] = {s} THEN "idle" ELSE "calling"]
    /\ wev' = [wev EXCEPT ![w] = IF wtodo[w] = {s} THEN None ELSE @]
    /\ UNCHANGED <<nodes, subs, since, ops, unsaid, clears, raced>>

-----------------------------------------------------------------------------
(* Everybody else.                                                         *)

\* clear() takes mtx_ and notifies nobody.
clear ==
    /\ clears < MaxClears
    /\ clears' = clears + 1
    /\ nodes' = [n \in Nodes |-> None]
    /\ unsaid' = unsaid \cup {n \in Nodes : nodes[n] # None}
    /\ UNCHANGED <<subs, writers, told, since, ops, raced>>

\* A subscriber is told nothing of the nodes already there.
subscribe(s) ==
    /\ subs[s] = "new"
    /\ subs' = [subs EXCEPT ![s] = "on"]
    /\ since' = [since EXCEPT ![s] = ops]
    /\ UNCHANGED <<nodes, writers, told, ops, unsaid, clears, raced>>

\* Called by ~SubscriptionHandle through release().
unsubscribe(s) ==
    /\ subs[s] = "on"
    /\ subs' = [subs EXCEPT ![s] = "off"]
    /\ UNCHANGED <<nodes, writers, told, since, ops, unsaid, clears, raced>>

Next ==
    \/ \E w \in Writers, n \in Nodes, v \in Versions : register_node(w, n, v)
    \/ \E w \in Writers, n \in Nodes : unregister_node(w, n)
    \/ \E w \in Writers : CopyCallbacks(w)
    \/ \E w \in Writers, s \in Subs : Callback(w, s)
    \/ clear
    \/ \E s \in Subs : subscribe(s)
    \/ \E s \in Subs : unsubscribe(s)

Spec == Init /\ [][Next]_vars

-----------------------------------------------------------------------------
(* Properties.                                                             *)

Quiet == \A w \in Writers : wpc[w] = "idle"

\* When no writer is under way, a subscriber that applied the events it got,
\* in the order it got them, holds for every node it heard of exactly what the
\* registry holds: the copy that DiscoveryBridge keeps in the topology does
\* not drift.  Two nodes are beyond that: one that clear() dropped without
\* saying so, and one whose last two changes were notified of at the same
\* time; the next change that is notified of alone brings the copy back.
MirrorExact ==
    Quiet => \A s \in On, n \in Nodes \ (unsaid \cup raced) :
                 mirror[s][n] \in {Unknown, nodes[n]}

\* Whatever the number of writers, once they are quiet every subscriber has
\* been told of every change made while it was subscribed: a callback copied
\* late, or copied while others come and go, loses nothing.
HearsEveryChange ==
    Quiet => \A s \in On : (since[s] + 1) .. ops \subseteq heard[s]

-----------------------------------------------------------------------------
(* The inductive invariant of RegistryProofs.                              *)

\* What a subscriber that applies the event of writer w holds afterwards.
Applied(w) == IF wev[w].ev = "Remove" THEN None ELSE wev[w].ver

\* Writer w is notifying of a change of n.
About(w, n) == wpc[w] # "idle" /\ wev[w].node = n

\* Writer w will still call the callback of subscriber s.
Pending(w, s) == wpc[w] = "notify" \/ (wpc[w] = "calling" /\ s \in wtodo[w])

\* Nobody calls a subscriber that does not exist yet.
NewUntouched ==
    \A s \in Subs : subs[s] = "new" =>
        /\ mirror[s] = [n \in Nodes |-> Unknown]
        /\ \A w \in Writers : s \notin wtodo[w]

\* A node that is not raced has one writer notifying of it, at most,
AtMostOneAbout ==
    \A n \in Nodes \ raced : \A w, u \in Writers : About(w, n) /\ About(u, n) => w = u

\* and that writer tells what the registry holds.
SaysWhatIsHeld ==
    \A n \in Nodes \ (unsaid \cup raced), w \in Writers :
        About(w, n) => Applied(w) = nodes[n]

\* A copy that differs from the registry will be put right.
MirrorOrPending ==
    \A s \in On, n \in Nodes \ (unsaid \cup raced) :
        \/ mirror[s][n] \in {Unknown, nodes[n]}
        \/ \E w \in Writers : About(w, n) /\ Pending(w, s)

\* A change that a subscriber has not heard of is still on its way to it.
HeardOrPending ==
    \A s \in On : \A k \in (since[s] + 1) .. ops :
        k \in heard[s] \/ \E w \in Writers : Pending(w, s) /\ wev[w].op = k

RegistryInv ==
    /\ TypeOK /\ NewUntouched /\ AtMostOneAbout /\ SaysWhatIsHeld
    /\ MirrorOrPending /\ HeardOrPending
=============================================================================
