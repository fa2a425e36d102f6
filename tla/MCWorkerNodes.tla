---------------------------- MODULE MCWorkerNodes ----------------------------
(* WorkerNodes for TLC: chunks that overlap, leave a hole, carry no bytes, *)
(* lie beyond a long, or name a path that is refused.                      *)
EXTENDS WorkerNodes

MCChunks ==
    {[path |-> "data/f", offset |-> 0, len |-> 2],
     [path |-> "data/f", offset |-> 1, len |-> 2],
     [path |-> "data/f", offset |-> 3, len |-> 0],
     [path |-> "data/f", offset |-> 5, len |-> 1],
     [path |-> "data/..", offset |-> 0, len |-> 1],
     [path |-> "etc/f", offset |-> 0, len |-> 1]}

MCStartsWith == {<<"data", "data/f">>, <<"data", "data/..">>}
=============================================================================
