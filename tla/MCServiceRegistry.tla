------------------------- MODULE MCServiceRegistry -------------------------
(* ServiceRegistry for TLC: writers, nodes, versions and subscriptions are *)
(* interchangeable model values.                                           *)
EXTENDS ServiceRegistry, TLC

Symmetry == Permutations(Writers) \cup Permutations(Nodes)
            \cup Permutations(Versions) \cup Permutations(Subs)
=============================================================================
