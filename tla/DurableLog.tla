----------------------------- MODULE DurableLog -----------------------------
(***************************************************************************)
(* What the interface of src/src/platform/fs/wal.hpp promises its clients: *)
(* a log of entries that append extends with an entry numbered above all   *)
(* entries in it, that truncate cuts from below, and that nothing else     *)
(* changes -- in particular not a restart of the process.                  *)
(***************************************************************************)
EXTENDS Naturals

VARIABLE log      \* the [id, seq] of the entries replay() returns

Init == log = {}

append ==
    \E e \in log' \ log :
        /\ log' = log \cup {e}
        /\ \A d \in log : d.seq < e.seq /\ d.id # e.id

\* What is dropped is numbered below everything that is kept.
truncate ==
    /\ log' \subseteq log
    /\ \A d \in log \ log', e \in log' : d.seq < e.seq

Next == append \/ truncate

Spec == Init /\ [][Next]_log
=============================================================================
