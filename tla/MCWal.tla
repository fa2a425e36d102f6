------------------------------- MODULE MCWal -------------------------------
(* Wal for TLC: three environments, each with what it is meant to exercise. *)
EXTENDS Wal

\* Nothing fails but fsync; the limits are reached; the file is truncated.
Calm ==
    [max_entries |-> 3, max_size |-> 0, fsync_on_append |-> TRUE,
     faults |-> {"fsync"}, calls |-> {"truncate", "truncate_all"}]

\* Every append is fsynced; writes fail, processes die, the power goes.
Durable ==
    [max_entries |-> 0, max_size |-> 0, fsync_on_append |-> TRUE,
     faults |-> {"write", "kill", "power"}, calls |-> {"truncate_all"}]

\* Everything at once.
Hostile ==
    [max_entries |-> 3, max_size |-> 11, fsync_on_append |-> FALSE,
     faults |-> {"write", "fsync", "kill", "power"},
     calls |-> {"truncate", "truncate_all"}]

MCSettings == {Calm, Durable, Hostile}
=============================================================================
