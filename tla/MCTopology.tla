---------------------------- MODULE MCTopology ----------------------------
(* Topology and has_cycle for TLC: clients and names are interchangeable.  *)
EXTENDS TopologyCycle, TLC

Symmetry == Permutations(Clients) \cup Permutations(Names)
=============================================================================
