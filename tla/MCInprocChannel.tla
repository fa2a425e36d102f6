-------------------------- MODULE MCInprocChannel --------------------------
(* InprocChannel for TLC: threads are model values and interchangeable.    *)
EXTENDS InprocChannel, TLC

Symmetry == Permutations(Senders) \cup Permutations(Receivers)
=============================================================================
