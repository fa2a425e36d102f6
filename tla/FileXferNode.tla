---------------------------- MODULE FileXferNode ----------------------------
(***************************************************************************)
(* FileXferNode (src/src/ability_c/nodes/nodes.cpp): the life cycle of     *)
(* NodeLifecycle, with a worker that takes chunks of files from its input  *)
(* port, writes each to its place in the file and answers.  The file is    *)
(* opened anew for every chunk; is_last is never looked at.                *)
(*                                                                         *)
(* A byte of a file is the number of the chunk that wrote it, 0 in a hole. *)
(* A file that does not exist is an empty one: opening it creates it.      *)
(***************************************************************************)
EXTENDS NodeLifecycle, Sequences

CONSTANTS
    Chunks,         \* the chunks senders may send: [path, offset, len]
    Unsafe,         \* paths that are empty or contain ".."
    Roots,          \* allowed_roots_
    StartsWith,     \* <<root, path>>: the path's first characters are the root's
    LongMax,        \* largest offset that a long holds
    DiskFaults,     \* "open", "reopen", "short": what may go wrong with a file
    ChunkCapacity,  \* capacity_ of in_chunk_
    MaxChunks       \* bound: chunks accepted by the port

VARIABLES
    wpc,        \* where the worker is: "test" of running_, "recv" or "write"
    pushed,     \* every chunk the port has accepted, in order
    taken,      \* how many of them the worker has taken; the rest are queue_
    file,       \* path |-> the bytes of the file
    oks,        \* history: chunks answered with ok = true
    damaged     \* history: chunks written short, or wiped by a truncation

fileVars == <<pushed, taken, file, oks, damaged>>

Paths == {c.path : c \in Chunks}

FileInit ==
    /\ Init /\ wpc = "test"
    /\ pushed = <<>> /\ taken = 0
    /\ file = [p \in Paths |-> <<>>]
    /\ oks = {} /\ damaged = {}

-----------------------------------------------------------------------------
\* push; a full port refuses (RESOURCE_BUSY).
PushChunk ==
    /\ ~dead /\ Len(pushed) < MaxChunks
    /\ Len(pushed) - taken < ChunkCapacity
    /\ \E c \in Chunks : pushed' = Append(pushed, c)
    /\ UNCHANGED <<vars, wpc, taken, file, oks, damaged>>

\* start(), stop() and reload() by their callers.
FileCaller(c) ==
    /\ Start(c) \/ Stop(c) \/ Reload(c)
    /\ UNCHANGED <<wpc, fileVars>>

\* while (running_.load())
FileLoopTest ==
    /\ ~dead /\ worker = "loop" /\ wpc = "test"
    /\ IF running THEN wpc' = "recv" /\ UNCHANGED vars
                  ELSE WorkerEnd /\ UNCHANGED wpc
    /\ UNCHANGED fileVars

\* in_chunk_.recv(100): the oldest chunk, or after 100 ms without one nothing.
RecvChunk ==
    /\ ~dead /\ wpc = "recv"
    /\ IF taken < Len(pushed) THEN taken' = taken + 1 /\ wpc' = "write"
                              ELSE wpc' = "test" /\ UNCHANGED taken
    /\ UNCHANGED <<vars, pushed, file, oks, damaged>>

-----------------------------------------------------------------------------
(* write_block and the answer, for the chunk just taken.                   *)

Chunk == pushed[taken]

\* The first n bytes of a chunk, as positions in the file.
Cells(c, n) == (c.offset + 1) .. (c.offset + n)

path_allowed(p) ==
    /\ p \notin Unsafe
    /\ Roots = {} \/ \E r \in Roots : <<r, p>> \in StartsWith

\* "r+b" may fail for another reason than a missing file.
Reopened == {FALSE} \cup {TRUE : f \in DiskFaults \cap {"reopen"}}

\* Mutated form of Opened: the file is always opened "w+b".
Opened_Truncated(p, again) == <<>>

\* The bytes of the file once it is open: "r+b" leaves them, the "w+b" that
\* follows when it failed empties the file.
Opened(p, again) == IF again THEN <<>> ELSE file[p]

\* fwrite writes all of it, or less when the disk is full.
Counts(c) == {c.len} \cup UNION {0 .. c.len : f \in DiskFaults \cap {"short"}}

Written(old, c, n) ==
    LET end == IF n > 0 /\ c.offset + n > Len(old) THEN c.offset + n ELSE Len(old)
    IN  [i \in 1 .. end |-> IF i \in Cells(c, n) THEN taken
                            ELSE IF i <= Len(old) THEN old[i] ELSE 0]

\* Chunks lost when p is opened again.
Wiped(p, again) == {k \in oks : again /\ pushed[k].path = p}

\* The answer; whether out_ack_ took it is ignored.
Answer(ok) ==
    /\ ~dead /\ wpc = "write"
    /\ wpc' = "test"
    /\ oks' = IF ok THEN oks \cup {taken} ELSE oks
    /\ UNCHANGED <<vars, pushed, taken>>

\* The path is refused.
RefuseChunk ==
    /\ Answer(FALSE)
    /\ ~path_allowed(Chunk.path)
    /\ UNCHANGED <<file, damaged>>

\* Neither fopen succeeds.
OpenFails ==
    /\ Answer(FALSE)
    /\ path_allowed(Chunk.path) /\ "open" \in DiskFaults
    /\ UNCHANGED <<file, damaged>>

\* The offset, cast to long, is negative: fseek fails after the file is open.
SeekFails ==
    /\ Answer(FALSE)
    /\ path_allowed(Chunk.path) /\ Chunk.offset > LongMax
    /\ \E again \in Reopened :
          /\ file' = [file EXCEPT ![Chunk.path] = Opened(Chunk.path, again)]
          /\ damaged' = damaged \cup Wiped(Chunk.path, again)

\* The chunk is written; a short write is answered with ok as well.
StoreChunk ==
    /\ Answer(TRUE)
    /\ path_allowed(Chunk.path) /\ Chunk.offset <= LongMax
    /\ \E again \in Reopened, n \in Counts(Chunk) :
          /\ file' = [file EXCEPT ![Chunk.path] =
                        Written(Opened(Chunk.path, again), Chunk, n)]
          /\ damaged' = damaged \cup Wiped(Chunk.path, again)
                                \cup {k \in {taken} : n < Chunk.len}

FileWorker == FileLoopTest \/ RecvChunk \/ RefuseChunk \/ SeekFails \/ StoreChunk

FileNext ==
    \/ \E c \in Callers : FileCaller(c)
    \/ PushChunk
    \/ FileWorker
    \/ OpenFails

-----------------------------------------------------------------------------
(* A property; WorkerNodes checks it.                                      *)

\* A chunk answered with ok is in the file, byte for byte, or a chunk accepted
\* after it has overwritten it, unless the disk was full or the file could not
\* be opened for update; and every byte in a file comes from a chunk that was
\* answered with ok, at the place the chunk named.
StoredAsAcked ==
    /\ \A k \in oks \ damaged : \A i \in Cells(pushed[k], pushed[k].len) :
          i <= Len(file[pushed[k].path]) /\ file[pushed[k].path][i] \in k .. taken
    /\ \A p \in Paths : \A i \in 1 .. Len(file[p]) : file[p][i] # 0 =>
          LET k == file[p][i]
          IN  k \in oks /\ pushed[k].path = p /\ i \in Cells(pushed[k], pushed[k].len)

\* The invariant from which StoredAsAcked follows: every acknowledged chunk is
\* one the worker has taken, and the one in its hands is not answered yet.
FileInv ==
    /\ pushed \in Seq(Chunks) /\ taken \in 0 .. Len(pushed)
    /\ file \in [Paths -> Seq(Nat)]
    /\ oks \subseteq 1 .. taken
    /\ wpc = "write" => taken \in (1 .. Len(pushed)) \ oks
    /\ StoredAsAcked
=============================================================================
