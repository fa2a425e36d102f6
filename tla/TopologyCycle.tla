--------------------------- MODULE TopologyCycle ---------------------------
(***************************************************************************)
(* Topology::has_cycle, the depth-first search of topology.cpp, on the     *)
(* graphs that transactions can build.  The search visits the nodes, and   *)
(* the successors of a node, in the order of hash tables: the orders are   *)
(* parameters, and what the search returns must not depend on them.        *)
(***************************************************************************)
EXTENDS Topology, FiniteSets

ASSUME NamesAssumption == IsFiniteSet(Names)

Orders ==
    {o \in [1 .. Cardinality(Names) -> Names] :
        \A n \in Names : \E i \in DOMAIN o : o[i] = n}

Successors(u) == {v \in Names : <<u, v>> \in edges}

\* The variables that the calls of dfs share.
Searches == [visited : SUBSET Names, stack : SUBSET Names, has : BOOLEAN]

NewSearch == [visited |-> {}, stack |-> {}, has |-> FALSE]

\* A turn of a loop that calls dfs, as call has it, for those of S until a cycle
\* is found, and the search after i turns, in the order o.
Turn(o, call, S, t, i) == IF t.has \/ o[i] \notin S THEN t ELSE call[t][o[i]]

Loop(o, call, S, s) ==
    LET after[i \in 0 .. Cardinality(Names)] ==
            IF i = 0 THEN s ELSE Turn(o, call, S, after[i - 1], i)
    IN  after

LoopEnd(o, call, S, s) == Loop(o, call, S, s)[Cardinality(Names)]

\* Mutated form of Leave: stack.erase(u) is missing.
Leave_OnStack(s, u) == s

\* The end of a call of dfs that found nothing.
Leave(s, u) == [s EXCEPT !.stack = @ \ {u}]

\* dfs(u), where call stands for the calls that it makes.
Visit(order, call, s, u) ==
    LET enter == [s EXCEPT !.visited = @ \cup {u}, !.stack = @ \cup {u}]
        done  == LoopEnd(order[u], call, Successors(u), enter)
    IN  IF u \in s.stack THEN [s EXCEPT !.has = TRUE]
        ELSE IF u \in s.visited THEN s
        ELSE IF done.has THEN done ELSE Leave(done, u)

\* dfs with d calls at most within each other,
Calls(order, call) == [s \in Searches |-> [u \in Names |-> Visit(order, call, s, u)]]

Nested(order) ==
    LET nest[d \in 0 .. Cardinality(Names) + 1] ==
            IF d = 0 THEN <<>> ELSE Calls(order, nest[d - 1])
    IN  nest

\* of which there are no more: all but the last mark a name that was not marked.
dfs(order) == Nested(order)[Cardinality(Names) + 1]

\* The search starts at every registered node, in the order roots, until it has
\* found a cycle; order[u] is that of the successors of u.
has_cycle(roots, order) ==
    Cardinality(nodes) >= 2 /\ LoopEnd(roots, dfs(order), nodes, NewSearch).has

-----------------------------------------------------------------------------
\* Whatever holds all successors of u, and those of all it holds, holds n.
Reaches(u, n) ==
    \A C \in SUBSET Names :
        Successors(u) \subseteq C /\ (\A m \in C : Successors(m) \subseteq C) => n \in C

\* Some cycle can be reached from a registered node.
CycleReachable ==
    \E u \in nodes, n \in Names : Reaches(n, n) /\ (u = n \/ Reaches(u, n))

\* With two nodes or more, has_cycle says whether some cycle can be reached
\* from a registered node, in whatever order the hash tables are walked.
CycleExact ==
    Cardinality(nodes) >= 2 =>
        \A o \in Orders : has_cycle(o, [n \in Names |-> o]) <=> CycleReachable
=============================================================================
