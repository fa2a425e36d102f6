----------------------------- MODULE NodeProofs -----------------------------
(***************************************************************************)
(* The worker nodes' life cycle, for any number of calling threads: while  *)
(* different operations do not overlap, starts racing starts and stops     *)
(* racing stops neither terminate the process nor leave state() wrong; and *)
(* so it is for a node of each class, whatever its worker does.            *)
(*                                                                         *)
(* And their work, also when operations overlap: chunks answered with ok   *)
(* are stored, the output of a command is complete, and its descriptors    *)
(* are closed.                                                             *)
(***************************************************************************)
EXTENDS WorkerNodes, FiniteSetTheorems, SequenceTheorems, TLAPS

Serial == Overlap = FALSE /\ ReloadStopped = FALSE

\* The node as constructed: no thread, no call in progress.
LEMMA SerialInit ==
    ASSUME Init PROVE SerialInv
<1>1. TypeOK
  <2>1. starts \in 0 .. MaxStarts
    BY NodeAssumption DEF Init
  <2>2. pc \in [Callers -> {"idle"} \cup StartPcs \cup StopPcs \cup ReloadPcs]
    BY DEF Init, StartPcs, StopPcs, ReloadPcs
  <2>3. running \in BOOLEAN /\ dead \in BOOLEAN
    BY Zenon DEF Init
  <2> QED
    BY <2>1, <2>2, <2>3, Zenon DEF Init, TypeOK
<1>2. \A c \in Callers : pc[c] = "idle"
  BY DEF Init
<1>3. NoTerminate /\ QuietConsistent
  BY DEF Init, NoTerminate, QuietConsistent
<1>4. OneKind /\ Alone(StartPcs) /\ Alone({"probe", "join"})
  BY <1>2 DEF OneKind, OnlyIn, Alone, Within, StartPcs, StopPcs, ReloadPcs
<1>5. FlagAgrees /\ WorkerAgrees
  BY <1>2 DEF Init, FlagAgrees, WorkerAgrees, Within, StartPcs, StopPcs, ReloadPcs
<1> QED
  BY <1>1, <1>3, <1>4, <1>5 DEF SerialInv

\* Every step of start(), stop(), reload() and the worker keeps the invariant.
LEMMA SerialStep ==
    ASSUME Serial, SerialInv, [Next]_vars PROVE SerialInv'
<1> USE NodeAssumption
    DEF Serial, SerialInv, TypeOK, NoTerminate, QuietConsistent, Quiet, OneKind, OnlyIn, Alone,
        Within, FlagAgrees, WorkerAgrees, StartPcs, StopPcs, ReloadPcs, MayEnter, Goto
<1>1. ASSUME NEW c \in Callers, StartExchange(c) PROVE SerialInv'
  BY <1>1 DEF StartExchange
<1>2. ASSUME NEW c \in Callers, StartSpawn(c) PROVE SerialInv'
  BY <1>2 DEF StartSpawn
<1>3. ASSUME NEW c \in Callers, StartMark(c) PROVE SerialInv'
  BY <1>3 DEF StartMark
<1>4. ASSUME NEW c \in Callers, StopExchange(c) PROVE SerialInv'
  <2>1. TypeOK'
    BY <1>4 DEF StopExchange
  <2>2. NoTerminate' /\ OneKind' /\ Alone(StartPcs)'
    BY <1>4 DEF StopExchange
  <2>3. Alone({"probe", "join"})'
    BY <1>4 DEF StopExchange
  <2>4. FlagAgrees' /\ WorkerAgrees' /\ QuietConsistent'
    BY <1>4 DEF StopExchange
  <2> QED
    BY <2>1, <2>2, <2>3, <2>4
<1>5. ASSUME NEW c \in Callers, StopProbe(c) PROVE SerialInv'
  <2>1. TypeOK'
    BY <1>5 DEF StopProbe
  <2>2. NoTerminate' /\ OneKind' /\ Alone(StartPcs)'
    BY <1>5 DEF StopProbe
  <2>3. Alone({"probe", "join"})'
    BY <1>5 DEF StopProbe
  <2>4. FlagAgrees' /\ WorkerAgrees' /\ QuietConsistent'
    BY <1>5 DEF StopProbe
  <2> QED
    BY <2>1, <2>2, <2>3, <2>4
<1>6. ASSUME NEW c \in Callers, StopJoin(c) PROVE SerialInv'
  BY <1>6 DEF StopJoin
<1>7. ASSUME NEW c \in Callers, StopMark(c) PROVE SerialInv'
  BY <1>7 DEF StopMark
<1>8. ASSUME NEW c \in Callers, ReloadBegin(c) PROVE SerialInv'
  BY <1>8 DEF ReloadBegin
<1>9. ASSUME NEW c \in Callers, ReloadEnd(c) PROVE SerialInv'
  BY <1>9 DEF ReloadEnd
<1>10. CASE WorkerEnd
  BY <1>10 DEF WorkerEnd
<1>11. CASE UNCHANGED vars
  BY <1>11 DEF vars
<1> QED
  BY <1>1, <1>2, <1>3, <1>4, <1>5, <1>6, <1>7, <1>8, <1>9, <1>10, <1>11
  DEF Next, Start, Stop, Reload

\* nodes.cpp: whatever the number of threads, a node whose different operations
\* do not overlap keeps the whole invariant.
THEOREM SerialInvariant ==
    ASSUME Serial PROVE Spec => []SerialInv
<1>1. Init => SerialInv
  BY SerialInit
<1>2. SerialInv /\ [Next]_vars => SerialInv'
  BY SerialStep
<1> QED
  BY <1>1, <1>2, PTL DEF Spec

\* In particular the process is not terminated, and between calls state()
\* is Running exactly when the worker thread is in its loop.
COROLLARY SafeLifecycle ==
    ASSUME Serial PROVE Spec => [](NoTerminate /\ QuietConsistent)
<1>1. SerialInv => NoTerminate /\ QuietConsistent
  BY DEF SerialInv
<1> QED
  BY <1>1, SerialInvariant, PTL

\* What the worker of CmdExecNode does with a request changes nothing that the
\* life cycle is about.
LEMMA CmdStep ==
    ASSUME CmdNext PROVE [Next]_vars
<1>1. ASSUME NEW c \in Callers, Caller(c) PROVE [Next]_vars
  BY <1>1 DEF Caller, Next
<1>2. CASE LoopTest
  BY <1>2 DEF LoopTest, Next
<1>3. CASE Push \/ RecvTimeout \/ Take \/ Reply
  BY <1>3 DEF Push, RecvTimeout, Take, Reply
<1>4. CASE \/ Execute(X!Proceeds) \/ Execute(X!Fails)
           \/ Execute(X!Child) \/ Execute(X!Hang) \/ Execute(X!Killed)
           \/ Execute(X!Heir)
  BY <1>4 DEF Execute
<1> QED
  BY <1>1, <1>2, <1>3, <1>4 DEF CmdNext

\* CmdExecNode implements the life cycle of the worker nodes.
THEOREM CmdImplements == CmdSpec => Spec
<1>1. CmdInit => Init
  BY DEF CmdInit
<1>2. [CmdNext]_cmdVars => [Next]_vars
  <2>1. CASE CmdNext
    BY <2>1, CmdStep
  <2>2. CASE UNCHANGED cmdVars
    BY <2>2 DEF cmdVars
  <2> QED
    BY <2>1, <2>2
<1> QED
  BY <1>1, <1>2, PTL DEF CmdSpec, Spec

\* So stop() racing stop() around a request under way is as safe.
COROLLARY CmdSafe ==
    ASSUME Serial PROVE CmdSpec => [](NoTerminate /\ QuietConsistent)
  BY CmdImplements, SafeLifecycle, PTL

\* Nor does what the worker of FileXferNode does with a chunk.
LEMMA FileStep ==
    ASSUME F!FileNext PROVE [Next]_vars
<1>1. ASSUME NEW c \in Callers, F!FileCaller(c) PROVE [Next]_vars
  <2>1. Start(c) \/ Stop(c) \/ Reload(c)
    BY <1>1
        DEF F!FileCaller, F!StartExchange, F!StartSpawn, F!StartMark,
        F!StopExchange, F!StopProbe, F!StopJoin, F!StopMark, F!ReloadBegin,
        F!ReloadEnd, F!Start, F!Stop, F!Reload, F!Goto, F!MayEnter, F!OnlyIn,
        F!StartPcs, F!StopPcs, F!ReloadPcs, Start, Stop, Reload, StartExchange,
        StartSpawn, StartMark, StopExchange, StopProbe, StopJoin, StopMark,
        ReloadBegin, ReloadEnd, Goto, MayEnter, OnlyIn, StartPcs, StopPcs, ReloadPcs
  <2> QED
    BY <2>1 DEF Next
<1>2. CASE F!FileLoopTest
  BY <1>2 DEF F!FileLoopTest, F!WorkerEnd, F!vars, vars, WorkerEnd, Next
<1>3. CASE F!PushChunk \/ F!RecvChunk
  BY <1>3 DEF F!PushChunk, F!RecvChunk, F!vars, vars
<1>4. CASE F!RefuseChunk \/ F!OpenFails \/ F!SeekFails \/ F!StoreChunk
  BY <1>4 DEF F!RefuseChunk, F!OpenFails, F!SeekFails, F!StoreChunk, F!Answer, F!vars, vars
<1> QED
  BY <1>1, <1>2, <1>3, <1>4 DEF F!FileNext, F!FileWorker

\* Nor the polling of NetInfoNode's worker.
LEMMA NetStep ==
    ASSUME N!NetNext PROVE [Next]_vars
<1>1. ASSUME NEW c \in Callers, N!NetCaller(c) PROVE [Next]_vars
  <2>1. Start(c) \/ Stop(c) \/ Reload(c)
    BY <1>1
        DEF N!NetCaller, N!StartExchange, N!StartSpawn, N!StartMark, N!StopExchange,
        N!StopProbe, N!StopJoin, N!StopMark, N!ReloadBegin, N!ReloadEnd, N!Start,
        N!Stop, N!Reload, N!Goto, N!MayEnter, N!OnlyIn, N!StartPcs, N!StopPcs,
        N!ReloadPcs, Start, Stop, Reload, StartExchange, StartSpawn, StartMark,
        StopExchange, StopProbe, StopJoin, StopMark, ReloadBegin, ReloadEnd, Goto,
        MayEnter, OnlyIn, StartPcs, StopPcs, ReloadPcs
  <2> QED
    BY <2>1 DEF Next
<1>2. CASE N!NetLoopTest
  BY <1>2 DEF N!NetLoopTest, N!WorkerEnd, N!vars, vars, WorkerEnd, Next
<1>3. CASE N!PushQuery \/ N!PushSet \/ N!TryQuery \/ N!TrySet
  BY <1>3 DEF N!PushQuery, N!PushSet, N!TryQuery, N!TrySet, N!vars, vars
<1> QED
  BY <1>1, <1>2, <1>3 DEF N!NetNext, N!NetWorker

\* Each of the three classes implements the life cycle.
THEOREM NodesImplement == NodesSpec => Spec
<1>1. NodesInit => Init
  BY DEF NodesInit, CmdInit
<1>2. [NodesNext]_nodeVars => [Next]_vars
  <2>1. CASE CmdExec(CmdNext)
    BY <2>1, CmdStep DEF CmdExec
  <2>2. CASE FileXfer(F!FileNext)
    BY <2>2, FileStep DEF FileXfer
  <2>3. CASE NetInfo(N!NetNext)
    BY <2>3, NetStep DEF NetInfo
  <2>4. CASE UNCHANGED nodeVars
    BY <2>4 DEF nodeVars, cmdVars
  <2> QED
    BY <2>1, <2>2, <2>3, <2>4 DEF NodesNext
<1> QED
  BY <1>1, <1>2, PTL DEF NodesSpec, Spec

\* So stop() racing stop() around a message under way is as safe for each.
COROLLARY NodesSafe ==
    ASSUME Serial PROVE NodesSpec => [](NoTerminate /\ QuietConsistent)
  BY NodesImplement, SafeLifecycle, PTL

-----------------------------------------------------------------------------
(* FileXferNode: what is answered with ok is in the file.                  *)

\* write_block: how long the file is after a write, and what is where.
LEMMA WrittenBytes ==
    ASSUME NEW old \in Seq(Nat), NEW c \in Chunks, NEW n \in Nat, taken \in Nat
    PROVE  /\ F!Written(old, c, n) \in Seq(Nat)
           /\ Len(F!Written(old, c, n)) >= Len(old)
           /\ n > 0 => Len(F!Written(old, c, n)) >= c.offset + n
           /\ \A i \in 1 .. Len(F!Written(old, c, n)) :
                 F!Written(old, c, n)[i] = IF i \in F!Cells(c, n) THEN taken
                                           ELSE IF i <= Len(old) THEN old[i] ELSE 0
<1> DEFINE end == IF n > 0 /\ c.offset + n > Len(old) THEN c.offset + n ELSE Len(old)
           byte(i) == IF i \in F!Cells(c, n) THEN taken
                      ELSE IF i <= Len(old) THEN old[i] ELSE 0
<1>1. c.offset \in Nat
  BY WorkerAssumption
<1>2. end \in Nat /\ end >= Len(old) /\ (n > 0 => end >= c.offset + n)
  BY <1>1
<1>3. \A i \in 1 .. end : byte(i) \in Nat
  <2>1. \A i \in 1 .. Len(old) : old[i] \in Nat
    OBVIOUS
  <2>2. ASSUME NEW i \in 1 .. end, i <= Len(old) PROVE old[i] \in Nat
    BY <2>1, <2>2, <1>2
  <2> QED
    BY <2>2
<1>4. F!Written(old, c, n) = [i \in 1 .. end |-> byte(i)]
  BY DEF F!Written
<1> HIDE DEF end, byte
<1>5. F!Written(old, c, n) \in Seq(Nat) /\ Len(F!Written(old, c, n)) = end
  BY <1>2, <1>3, <1>4
<1>6. \A i \in 1 .. end : F!Written(old, c, n)[i] = byte(i)
  BY <1>4
<1> QED
  BY <1>2, <1>5, <1>6 DEF byte

\* What the file holds once it is open.
LEMMA OpenedBytes ==
    ASSUME NEW p \in F!Paths, NEW again \in BOOLEAN, file \in [F!Paths -> Seq(Nat)]
    PROVE  F!Opened(p, again) \in Seq(Nat)
<1>1. file[p] \in Seq(Nat) /\ <<>> \in Seq(Nat)
  OBVIOUS
<1> QED
  BY <1>1 DEF F!Opened

\* A node as made has written nothing.
LEMMA FileInitial ==
    ASSUME F!FileInit PROVE F!FileInv
<1>1. pushed \in Seq(Chunks) /\ taken \in 0 .. Len(pushed) /\ oks \subseteq 1 .. taken
  BY DEF F!FileInit
<1>2. file \in [F!Paths -> Seq(Nat)] /\ \A p \in F!Paths : Len(file[p]) = 0
  BY DEF F!FileInit
<1>3. F!StoredAsAcked
  BY <1>2 DEF F!StoredAsAcked, F!FileInit
<1> QED
  BY <1>1, <1>2, <1>3 DEF F!FileInv, F!FileInit

\* A chunk that is accepted lies behind those that were taken.
LEMMA FilePush ==
    ASSUME F!FileInv, F!PushChunk PROVE F!FileInv'
<1> USE DEF F!FileInv, F!PushChunk
<1>1. PICK c \in Chunks : pushed' = Append(pushed, c)
  OBVIOUS
<1>2. /\ pushed' \in Seq(Chunks) /\ Len(pushed') = Len(pushed) + 1
      /\ \A k \in 1 .. Len(pushed) : pushed'[k] = pushed[k]
  BY <1>1
<1>3. F!StoredAsAcked'
  <2>1. \A k \in oks : pushed'[k] = pushed[k]
    BY <1>2
  <2>2. UNCHANGED <<oks, damaged, file, taken>>
    OBVIOUS
  <2>3. F!StoredAsAcked
    OBVIOUS
  <2> HIDE DEF F!FileInv, F!PushChunk
  <2> QED
    BY <2>1, <2>2, <2>3 DEF F!StoredAsAcked, F!Cells
<1> QED
  BY <1>2, <1>3

\* The worker takes the oldest chunk; it is not answered yet.
LEMMA FileRecv ==
    ASSUME F!FileInv, F!RecvChunk PROVE F!FileInv'
<1> USE DEF F!FileInv, F!RecvChunk
<1>1. taken' \in {taken, taken + 1} /\ taken' \in 0 .. Len(pushed')
  OBVIOUS
<1>2. F!StoredAsAcked'
  <2>1. ASSUME NEW k \in oks \ damaged, NEW i \in F!Cells(pushed[k], pushed[k].len)
        PROVE  /\ i <= Len(file[pushed[k].path])
               /\ file[pushed[k].path][i] \in k .. taken'
    <3>1. i <= Len(file[pushed[k].path]) /\ file[pushed[k].path][i] \in k .. taken
      BY <2>1 DEF F!StoredAsAcked
    <3>2. k \in Int /\ taken \in Int
      OBVIOUS
    <3> QED
      BY <1>1, <3>1, <3>2
  <2> QED
    BY <2>1 DEF F!StoredAsAcked, F!Cells
<1>3. wpc' = "write" => taken' = taken + 1 /\ taken' \notin oks
  OBVIOUS
<1> QED
  BY <1>1, <1>2, <1>3

\* A chunk that is answered with an error leaves the file as it is.
LEMMA FileRefused ==
    ASSUME F!FileInv, F!RefuseChunk \/ F!OpenFails PROVE F!FileInv'
  BY DEF F!FileInv, F!RefuseChunk, F!OpenFails, F!Answer, F!StoredAsAcked, F!Cells

\* The chunk at hand, its path and the sizes in it.
LEMMA ChunkAtHand ==
    ASSUME F!FileInv, wpc = "write"
    PROVE  /\ taken \in 1 .. Len(pushed) /\ taken \notin oks /\ F!Chunk = pushed[taken]
           /\ F!Chunk \in Chunks /\ F!Chunk.path \in F!Paths
           /\ F!Chunk.offset \in Nat /\ F!Chunk.len \in Nat
<1>1. taken \in 1 .. Len(pushed) /\ taken \notin oks /\ F!Chunk \in Chunks
  BY DEF F!FileInv, F!Chunk
<1> QED
  BY <1>1, WorkerAssumption DEF F!Chunk, F!Paths

\* fseek fails: the file was opened, and may have been emptied.
LEMMA FileSeek ==
    ASSUME F!FileInv, F!SeekFails PROVE F!FileInv'
<1>1. /\ wpc = "write" /\ wpc' = "test" /\ oks' = oks /\ taken' = taken
      /\ pushed' = pushed
  BY DEF F!SeekFails, F!Answer
<1> DEFINE p == F!Chunk.path
<1>2. PICK again \in F!Reopened :
         /\ file' = [file EXCEPT ![p] = F!Opened(p, again)]
         /\ damaged' = damaged \cup F!Wiped(p, again)
  BY DEF F!SeekFails
<1>3. p \in F!Paths
  BY <1>1, ChunkAtHand
<1> HIDE DEF p
<1>4. again \in BOOLEAN
  BY DEF F!Reopened
<1>5. file' \in [F!Paths -> Seq(Nat)]
  BY <1>2, <1>3, <1>4, OpenedBytes DEF F!FileInv
<1>6. \A q \in F!Paths : file'[q] = IF q = p /\ again THEN <<>> ELSE file[q]
  BY <1>2, <1>3 DEF F!FileInv, F!Opened
<1>7. \A k \in oks \ damaged' : k \in oks \ damaged /\ ~(again /\ pushed[k].path = p)
  BY <1>2 DEF F!Wiped
<1>8. \A k \in oks : pushed[k].path \in F!Paths
  BY DEF F!FileInv, F!Paths
<1>9. F!StoredAsAcked'
  <2>1. ASSUME NEW k \in oks \ damaged', NEW i \in F!Cells(pushed[k], pushed[k].len)
        PROVE  /\ i <= Len(file'[pushed[k].path])
               /\ file'[pushed[k].path][i] \in k .. taken
    BY <1>6, <1>7, <1>8 DEF F!FileInv, F!StoredAsAcked
  <2>2. ASSUME NEW q \in F!Paths, NEW i \in 1 .. Len(file'[q]), file'[q][i] # 0
        PROVE  /\ file'[q][i] \in oks /\ pushed[file'[q][i]].path = q
               /\ i \in F!Cells(pushed[file'[q][i]], pushed[file'[q][i]].len)
    <3>1. file'[q] = file[q]
      BY <1>6
    <3> QED
      BY <2>2, <3>1 DEF F!FileInv, F!StoredAsAcked
  <2> QED
    BY <1>1, <2>1, <2>2 DEF F!StoredAsAcked, F!Cells
<1> QED
  BY <1>1, <1>5, <1>9 DEF F!FileInv

\* The chunk is written, whole or short, over what the file held.
LEMMA FileStore ==
    ASSUME F!FileInv, F!StoreChunk PROVE F!FileInv'
<1>1. /\ wpc = "write" /\ wpc' = "test" /\ oks' = oks \cup {taken}
      /\ taken' = taken /\ pushed' = pushed
  BY DEF F!StoreChunk, F!Answer
<1> DEFINE c == F!Chunk
           p == c.path
<1>2. PICK again \in F!Reopened, n \in F!Counts(c) :
         /\ file' = [file EXCEPT ![p] = F!Written(F!Opened(p, again), c, n)]
         /\ damaged' = damaged \cup F!Wiped(p, again) \cup {k \in {taken} : n < c.len}
  BY DEF F!StoreChunk
<1>3. /\ taken \in 1 .. Len(pushed) /\ taken \notin oks /\ c = pushed[taken]
      /\ c \in Chunks /\ p \in F!Paths /\ c.offset \in Nat /\ c.len \in Nat
  BY <1>1, ChunkAtHand
<1> DEFINE old == F!Opened(p, again)
           new == F!Written(old, c, n)
<1>4. again \in BOOLEAN
  BY DEF F!Reopened
<1>5. n \in 0 .. c.len
  BY <1>3 DEF F!Counts
<1> HIDE DEF c
<1>6. old \in Seq(Nat) /\ old = IF again THEN <<>> ELSE file[p]
  BY <1>3, <1>4, OpenedBytes DEF F!FileInv, F!Opened
<1> HIDE DEF old
<1>7. /\ new \in Seq(Nat) /\ Len(new) >= Len(old)
      /\ n > 0 => Len(new) >= c.offset + n
      /\ \A i \in 1 .. Len(new) :
            new[i] = IF i \in F!Cells(c, n) THEN taken
                     ELSE IF i <= Len(old) THEN old[i] ELSE 0
  <2>1. taken \in Nat /\ n \in Nat
    BY <1>3, <1>5
  <2>2. old \in Seq(Nat) /\ c \in Chunks
    BY <1>3, <1>6
  <2> QED
    BY <2>1, <2>2, WrittenBytes
<1> HIDE DEF new
<1>8. file' = [file EXCEPT ![p] = new]
  BY <1>2 DEF new, old
<1> HIDE DEF p
<1>9. /\ file' \in [F!Paths -> Seq(Nat)]
      /\ \A q \in F!Paths : file'[q] = IF q = p THEN new ELSE file[q]
  BY <1>3, <1>7, <1>8 DEF F!FileInv
<1>10. \A k \in oks : k \in 1 .. taken /\ pushed[k].path \in F!Paths
  <2> TAKE k \in oks
  <2>1. pushed \in Seq(Chunks) /\ taken \in 0 .. Len(pushed) /\ k \in 1 .. taken
    BY DEF F!FileInv
  <2>2. k \in 1 .. Len(pushed)
    BY <2>1
  <2>3. pushed[k] \in Chunks
    BY <2>1, <2>2
  <2> QED
    BY <2>1, <2>3 DEF F!Paths
<1>11. ASSUME NEW k \in oks' \ damaged', NEW i \in F!Cells(pushed[k], pushed[k].len)
       PROVE  i <= Len(file'[pushed[k].path]) /\ file'[pushed[k].path][i] \in k .. taken
  <2>1. i \in Int
    BY DEF F!Cells
  <2>2. CASE k = taken
    <3>1. n = c.len /\ i \in F!Cells(c, n) /\ pushed[k].path = p
      BY <1>2, <1>3, <1>5, <2>2 DEF p
    <3>2. n > 0 /\ i \in (c.offset + 1) .. (c.offset + n)
      BY <1>3, <1>5, <3>1 DEF F!Cells
    <3>3. i \in 1 .. Len(new)
      BY <1>3, <1>5, <1>7, <3>2
    <3>4. new[i] = taken /\ file'[pushed[k].path] = new
      BY <1>3, <1>7, <1>9, <3>1, <3>3
    <3> QED
      BY <1>3, <2>2, <3>3, <3>4
  <2>3. CASE k # taken
    <3>1. k \in oks \ damaged /\ ~(again /\ pushed[k].path = p)
      BY <1>1, <1>2, <2>3 DEF F!Wiped
    <3>2. /\ i <= Len(file[pushed[k].path])
          /\ file[pushed[k].path][i] \in k .. taken
      BY <3>1 DEF F!FileInv, F!StoredAsAcked
    <3>3. CASE pushed[k].path # p
      BY <1>9, <1>10, <3>1, <3>2, <3>3
    <3>4. CASE pushed[k].path = p
      <4>1. old = file[p] /\ file'[p] = new
        BY <1>3, <1>6, <1>9, <3>1, <3>4
      <4>2. pushed[k] \in Chunks
        BY <1>10, <3>1 DEF F!FileInv
      <4>3. i >= 1
        BY <4>2, WorkerAssumption DEF F!Cells
      <4>4. i \in 1 .. Len(new) /\ i <= Len(old)
        BY <1>6, <1>7, <2>1, <3>2, <3>4, <4>1, <4>3
      <4>5. new[i] = taken \/ new[i] = old[i]
        BY <1>7, <4>4
      <4>6. taken \in k .. taken
        BY <1>3, <1>10, <3>1
      <4> QED
        BY <3>2, <3>4, <4>1, <4>4, <4>5, <4>6
    <3> QED
      BY <3>3, <3>4
  <2> QED
    BY <2>2, <2>3
<1>12. ASSUME NEW q \in F!Paths, NEW i \in 1 .. Len(file'[q]), file'[q][i] # 0
       PROVE  /\ file'[q][i] \in oks' /\ pushed[file'[q][i]].path = q
              /\ i \in F!Cells(pushed[file'[q][i]], pushed[file'[q][i]].len)
  <2>1. ASSUME NEW f, f = file[q], i \in 1 .. Len(f), file'[q][i] = f[i]
        PROVE  /\ file'[q][i] \in oks' /\ pushed[file'[q][i]].path = q
               /\ i \in F!Cells(pushed[file'[q][i]], pushed[file'[q][i]].len)
    BY <1>1, <1>12, <2>1 DEF F!FileInv, F!StoredAsAcked
  <2>2. CASE q # p
    BY <1>9, <2>1, <2>2
  <2>3. CASE q = p
    <3>1. file'[q] = new /\ i \in 1 .. Len(new)
      BY <1>9, <2>3
    <3>2. CASE i \in F!Cells(c, n)
      <4>1. file'[q][i] = taken
        BY <1>7, <3>1, <3>2
      <4>2. i \in F!Cells(c, c.len)
        BY <1>3, <1>5, <3>2 DEF F!Cells
      <4> QED
        BY <1>1, <1>3, <2>3, <4>1, <4>2 DEF p
    <3>3. CASE i \notin F!Cells(c, n)
      <4>1. i <= Len(old) /\ file'[q][i] = old[i]
        BY <1>7, <1>12, <3>1, <3>3
      <4>2. old # <<>>
        BY <4>1
      <4>3. old = file[p]
        BY <1>6, <4>2
      <4> QED
        BY <2>1, <2>3, <4>1, <4>3
    <3> QED
      BY <3>2, <3>3
  <2> QED
    BY <2>2, <2>3
<1>13. F!StoredAsAcked'
  BY <1>1, <1>11, <1>12 DEF F!StoredAsAcked, F!Cells
<1>14. oks' \subseteq 1 .. taken'
  <2>1. \A k \in oks : k \in 1 .. taken
    BY <1>10
  <2>2. taken \in 1 .. taken
    BY <1>3
  <2> QED
    BY <1>1, <2>1, <2>2
<1> QED
  BY <1>1, <1>9, <1>13, <1>14 DEF F!FileInv

\* Every step of a FileXferNode keeps the invariant of its files.
LEMMA FileKept ==
    ASSUME F!FileInv, F!FileNext PROVE F!FileInv'
<1>1. CASE (\E c \in Callers : F!FileCaller(c)) \/ F!FileLoopTest
  <2>1. /\ pushed' = pushed /\ taken' = taken /\ file' = file /\ oks' = oks
        /\ damaged' = damaged /\ (wpc' = wpc \/ wpc' = "recv")
    BY <1>1 DEF F!FileCaller, F!FileLoopTest, F!fileVars
  <2> QED
    BY <2>1 DEF F!FileInv, F!StoredAsAcked, F!Cells
<1> QED
  BY <1>1, FilePush, FileRecv, FileRefused, FileSeek, FileStore DEF F!FileNext, F!FileWorker

-----------------------------------------------------------------------------
(* CmdExecNode: the output of a child is complete, and nothing stays open. *)

\* Counting the ends of a pipe.
LEMMA EndsCounted ==
    X!Cardinality({}) = 0 /\ X!Cardinality({"out"} \X {"r", "w"}) = 2
<1> DEFINE r == <<"out", "r">>
           w == <<"out", "w">>
<1>1. {"out"} \X {"r", "w"} = {r} \cup {w} /\ r # w
  OBVIOUS
<1> HIDE DEF r, w
<1>2. IsFiniteSet({r}) /\ Cardinality({r}) = 1
  BY FS_Singleton
<1>3. Cardinality({r} \cup {w}) = 2
  BY <1>1, <1>2, FS_AddElement
<1>4. \A S : X!Cardinality(S) = Cardinality(S)
  BY DEF X!Cardinality, Cardinality
<1> QED
  BY <1>1, <1>3, <1>4, FS_EmptySet

\* Nothing is read or open before the first call.
LEMMA ExecInitial ==
    ASSUME X!Init PROVE X!ExecInv
<1> USE DEF X!Init
<1>1. X!TypeOK
  <2>1. heir \in BOOLEAN
    BY Zenon
  <2>2. pipe \in [X!Streams -> Seq(Nat)] /\ text \in [X!Streams -> Seq(Nat)]
        /\ wrote \in [X!Streams -> Nat]
    OBVIOUS
  <2> QED
    BY <2>1, <2>2 DEF X!TypeOK, X!Pcs
<1>2. X!ResultLast /\ X!DescriptorsHeld
  BY DEF X!ResultLast, X!DescriptorsHeld, X!Streams
<1>3. X!DescriptorsClosed
  BY EndsCounted DEF X!DescriptorsClosed
<1>4. ASSUME NEW s \in X!Streams PROVE X!NothingLost(s) /\ X!Drained(s)
  BY DEF X!NothingLost, X!Drained, X!Past, X!Alive
<1> QED
  BY <1>1, <1>2, <1>3, <1>4 DEF X!ExecInv

\* A call starts afresh; what the last one left open is counted.
LEMMA ExecCall ==
    ASSUME X!ExecInv, X!Call PROVE X!ExecInv'
<1> USE DEF X!Call
<1>1. leaked + X!Cardinality(fds) = 2 * torn /\ torn \in Nat /\ calls \in Nat
  BY DEF X!ExecInv, X!TypeOK, X!DescriptorsClosed
<1>2. leaked' = 2 * torn' /\ leaked' \in Nat /\ torn' \in Nat /\ calls' \in Nat
  BY <1>1
<1>3. X!TypeOK'
  <2>1. heir' \in BOOLEAN
    BY Zenon
  <2>2. pipe' \in [X!Streams -> Seq(Nat)] /\ text' \in [X!Streams -> Seq(Nat)]
        /\ wrote' \in [X!Streams -> Nat]
    OBVIOUS
  <2> QED
    BY <1>2, <2>1, <2>2 DEF X!TypeOK, X!Pcs
<1>4. X!ResultLast' /\ X!DescriptorsHeld' /\ X!DescriptorsClosed'
  BY <1>2 DEF X!ResultLast, X!DescriptorsHeld, X!DescriptorsClosed, X!Streams
<1>5. ASSUME NEW s \in X!Streams PROVE X!NothingLost(s)' /\ X!Drained(s)'
  BY DEF X!NothingLost, X!Drained, X!Past, X!Alive
<1> QED
  BY <1>3, <1>4, <1>5 DEF X!ExecInv

\* The checks, the pipes and the spawn come before anything is written.
LEMMA ExecSetUp ==
    ASSUME X!ExecInv, X!Check \/ X!Pipes \/ X!PipesFail \/ X!Spawn \/ X!SpawnFails
    PROVE  X!ExecInv'
<1>1. X!TypeOK /\ X!ResultLast /\ X!DescriptorsHeld
  BY DEF X!ExecInv
<1>2. X!TypeOK'
  <2>1. CASE X!Check
    BY <1>1, <2>1 DEF X!TypeOK, X!Pcs, X!Check, X!Return, X!tally
  <2>2. CASE X!Pipes
    BY <1>1, <2>2 DEF X!TypeOK, X!Pcs, X!Pipes, X!tally
  <2>3. CASE X!PipesFail
    <3>1. fds' \subseteq X!Ends /\ torn' \in Nat
      BY <1>1, <2>3 DEF X!TypeOK, X!Ends, X!Streams, X!PipesFail
    <3> QED
      BY <1>1, <2>3, <3>1 DEF X!TypeOK, X!Pcs, X!PipesFail, X!Return
  <2>4. CASE X!Spawn
    BY <1>1, <2>4 DEF X!TypeOK, X!Pcs, X!Streams, X!Spawn, X!tally
  <2>5. CASE X!SpawnFails
    BY <1>1, <2>5 DEF X!TypeOK, X!Pcs, X!SpawnFails, X!Return, X!tally
  <2> QED
    BY <2>1, <2>2, <2>3, <2>4, <2>5
<1>3. X!ResultLast' /\ result' \notin {"exited", "killed"}
  BY <1>1, ExecutorAssumption
  DEF X!TypeOK, X!ResultLast, X!Check, X!Pipes, X!PipesFail, X!Spawn, X!SpawnFails, X!Return
<1>4. X!DescriptorsHeld' /\ X!DescriptorsClosed'
  <2>1. leaked = 2 * torn /\ torn \in Nat
    BY <1>1 DEF X!TypeOK, X!DescriptorsHeld, X!Check, X!Pipes, X!PipesFail, X!Spawn, X!SpawnFails
  <2>2. CASE X!Check
    <3>1. fds = {} /\ exec' \in {"pipes", "returned"}
      BY <1>1, <2>2 DEF X!DescriptorsHeld, X!Check, X!Return
    <3>2. fds' = fds /\ leaked' = leaked /\ torn' = torn
      BY <2>2 DEF X!Check, X!tally
    <3> QED
      BY <2>1, <3>1, <3>2, EndsCounted DEF X!DescriptorsHeld, X!DescriptorsClosed, X!Streams
  <2>3. CASE X!Pipes
    BY <1>1, <2>1, <2>3
    DEF X!DescriptorsHeld, X!DescriptorsClosed, X!Pipes, X!tally, X!Streams
  <2>4. CASE X!PipesFail
    BY <1>1, <2>1, <2>4, EndsCounted
    DEF X!DescriptorsHeld, X!DescriptorsClosed, X!PipesFail, X!Return, X!Streams
  <2>5. CASE X!Spawn
    <3>1. fds' = X!Streams \X {"r"}
      BY <1>1, <2>5 DEF X!DescriptorsHeld, X!Spawn, X!Ends, X!WriteEnds
    <3> QED
      BY <2>1, <2>5, <3>1
      DEF X!DescriptorsHeld, X!DescriptorsClosed, X!Spawn, X!tally, X!Streams
  <2>6. CASE X!SpawnFails
    <3>1. fds' = {}
      BY <1>1, <2>6 DEF X!DescriptorsHeld, X!SpawnFails, X!Ends, X!WriteEnds
    <3>2. exec' = "returned" /\ leaked' = leaked /\ torn' = torn
      BY <2>6 DEF X!SpawnFails, X!Return, X!tally
    <3> QED
      BY <2>1, <3>1, <3>2, EndsCounted DEF X!DescriptorsHeld, X!DescriptorsClosed, X!Streams
  <2> QED
    BY <2>2, <2>3, <2>4, <2>5, <2>6
<1>5. \A s \in X!Streams : X!NothingLost(s)'
  <2>1. text' = text /\ pipe' = pipe /\ wrote' = wrote
    BY DEF X!Check, X!Pipes, X!PipesFail, X!Spawn, X!SpawnFails
  <2> QED
    BY <2>1 DEF X!ExecInv, X!NothingLost
<1>6. \A s \in X!Streams : X!Drained(s)'
  <2>1. exec' \notin {"wait", "err"}
    BY DEF X!Check, X!Pipes, X!PipesFail, X!Spawn, X!SpawnFails, X!Return
  <2> QED
    BY <1>3, <2>1 DEF X!Drained, X!Past, X!Alive
<1> QED
  BY <1>2, <1>3, <1>4, <1>5, <1>6 DEF X!ExecInv

\* A sequence is given by its length and its elements.
LEMMA CountedUp ==
    ASSUME NEW n \in Nat, NEW t \in Seq(Nat), Len(t) = n, \A i \in 1 .. n : t[i] = i
    PROVE  t = [i \in 1 .. n |-> i]
  OBVIOUS

\* append(buf.data(), n): what is read goes from the front of the pipe to the
\* end of the text.
LEMMA ReadMoves ==
    ASSUME NEW s \in X!Streams, X!ExecInv, X!NothingLost(s), NEW m \in 1 .. Len(pipe[s]),
           text' = X!Taken(s, m),
           pipe' = [pipe EXCEPT ![s] = SubSeq(@, m + 1, Len(@))],
           wrote' = wrote
    PROVE  X!NothingLost(s)'
<1>1. PICK n \in 0 .. wrote[s] :
         /\ text[s] = [i \in 1 .. n |-> i]
         /\ pipe[s] = [i \in 1 .. wrote[s] - n |-> n + i]
  BY DEF X!NothingLost
<1>2. /\ wrote[s] \in Nat /\ text[s] \in Seq(Nat) /\ pipe[s] \in Seq(Nat)
      /\ text'[s] = text[s] \o SubSeq(pipe[s], 1, m)
      /\ pipe'[s] = SubSeq(pipe[s], m + 1, Len(pipe[s]))
  BY DEF X!ExecInv, X!TypeOK, X!Taken
<1> DEFINE w == wrote[s]
           t == text[s]
           q == pipe[s]
<1>3. Len(t) = n /\ Len(q) = w - n /\ (\A i \in 1 .. n : t[i] = i)
      /\ \A i \in 1 .. w - n : q[i] = n + i
  BY <1>1, <1>2
<1>4. w \in Nat /\ t \in Seq(Nat) /\ q \in Seq(Nat)
  BY <1>2
<1> HIDE DEF w, t, q
<1>5. m \in 1 .. w - n /\ n + m \in 0 .. w /\ m \in Nat /\ n \in Nat
  BY <1>3, <1>4 DEF q, w
<1> DEFINE a == SubSeq(q, 1, m)
           b == SubSeq(q, m + 1, Len(q))
<1>6. a \in Seq(Nat) /\ Len(a) = m /\ \A i \in 1 .. m : a[i] = n + i
  BY <1>3, <1>4, <1>5
<1>7. b \in Seq(Nat) /\ Len(b) = w - (n + m) /\ \A i \in 1 .. Len(b) : b[i] = n + m + i
  <2>1. m + 1 \in 1 .. Len(q) + 1 /\ Len(q) \in Nat
    BY <1>3, <1>4, <1>5
  <2>2. /\ b \in Seq(Nat) /\ Len(b) = Len(q) - m
        /\ \A i \in 1 .. Len(q) - m : b[i] = q[m + i]
    BY <1>4, <1>5, <2>1
  <2>3. Len(b) = w - (n + m)
    BY <1>3, <1>4, <1>5, <2>2
  <2>4. ASSUME NEW i \in 1 .. Len(b) PROVE b[i] = n + m + i
    <3>1. m + i \in 1 .. w - n
      BY <1>4, <1>5, <2>3
    <3> QED
      BY <1>3, <1>4, <1>5, <2>2, <2>3, <3>1
  <2> QED
    BY <2>2, <2>3, <2>4
<1> HIDE DEF a, b
<1>8. t \o a = [i \in 1 .. n + m |-> i]
  <2>1. t \o a \in Seq(Nat) /\ Len(t \o a) = Len(t) + Len(a)
    BY <1>4, <1>6, ConcatProperties
  <2>2. Len(t \o a) = n + m /\ n + m \in Nat
    BY <1>3, <1>5, <1>6, <2>1
  <2>3. ASSUME NEW i \in 1 .. n + m PROVE (t \o a)[i] = i
    <3>1. CASE i <= n
      BY <1>3, <1>4, <1>5, <1>6, <3>1
    <3>2. CASE i > n
      <4>1. i - n \in 1 .. m
        BY <1>5, <3>2
      <4>2. (t \o a)[i] = a[i - n]
        <5>1. t \in Seq(Nat) /\ a \in Seq(Nat)
          BY <1>4, <1>6
        <5>2. (t \o a)[i] = IF i <= Len(t) THEN t[i] ELSE a[i - Len(t)]
          <6>1. i \in 1 .. Len(t) + Len(a)
            BY <1>3, <1>5, <1>6
          <6> QED
            BY <5>1, <6>1, ConcatProperties
        <5> QED
          BY <1>3, <3>2, <5>2
      <4>3. a[i - n] = n + (i - n)
        BY <1>6, <4>1
      <4> QED
        BY <1>5, <4>2, <4>3
    <3>3. i <= n \/ i > n
      BY <1>5
    <3> QED
      BY <3>1, <3>2, <3>3
  <2> QED
    BY <2>1, <2>2, <2>3, CountedUp
<1>9. b = [i \in 1 .. w - (n + m) |-> n + m + i]
  BY <1>5, <1>7
<1>10. text'[s] = [i \in 1 .. n + m |-> i]
       /\ pipe'[s] = [i \in 1 .. w - (n + m) |-> n + m + i]
  BY <1>2, <1>8, <1>9 DEF a, b, t, q
<1> QED
  BY <1>5, <1>10 DEF X!NothingLost, w

\* A read moves output; the other stream is as it was.
LEMMA ExecRead ==
    ASSUME NEW s \in X!Streams, X!ExecInv, X!Read(s) PROVE X!ExecInv'
<1>1. PICK m \in 1 .. Len(pipe[s]) :
         /\ text' = X!Taken(s, m)
         /\ pipe' = [pipe EXCEPT ![s] = SubSeq(@, m + 1, Len(@))]
  BY DEF X!Read
<1>2. /\ exec = s /\ exec' = exec /\ fds' = fds /\ cut' = cut /\ result' = result
      /\ verdict' = verdict /\ child' = child /\ heir' = heir /\ wrote' = wrote
      /\ calls' = calls /\ leaked' = leaked /\ torn' = torn
  BY DEF X!Read, X!tally
<1>3. /\ pipe[s] \in Seq(Nat) /\ text[s] \in Seq(Nat)
      /\ text \in [X!Streams -> Seq(Nat)] /\ pipe \in [X!Streams -> Seq(Nat)]
  BY DEF X!ExecInv, X!TypeOK
<1>4. SubSeq(pipe[s], 1, m) \in Seq(Nat) /\ SubSeq(pipe[s], m + 1, Len(pipe[s])) \in Seq(Nat)
  BY <1>3, SubSeqProperties
<1>5. text' \in [X!Streams -> Seq(Nat)] /\ pipe' \in [X!Streams -> Seq(Nat)]
  BY <1>1, <1>3, <1>4 DEF X!Taken
<1>6. X!TypeOK'
  BY <1>2, <1>5 DEF X!ExecInv, X!TypeOK
<1>7. X!ResultLast' /\ X!DescriptorsHeld' /\ X!DescriptorsClosed'
  BY <1>2 DEF X!ExecInv, X!ResultLast, X!DescriptorsHeld, X!DescriptorsClosed
<1>8. ASSUME NEW r \in X!Streams PROVE X!NothingLost(r)' /\ X!Drained(r)'
  <2>1. CASE r = s
    <3>1. X!NothingLost(s)'
      BY <1>1, <1>2, ReadMoves DEF X!ExecInv
    <3>2. ~X!Past(s)'
      BY <1>2 DEF X!ExecInv, X!ResultLast, X!Past, X!Streams
    <3> QED
      BY <2>1, <3>1, <3>2 DEF X!Drained, X!Alive
  <2>2. CASE r # s
    <3>1. text'[r] = text[r] /\ pipe'[r] = pipe[r]
      BY <1>1, <1>3, <2>2 DEF X!Taken
    <3>2. X!NothingLost(r) /\ X!Drained(r)
      BY DEF X!ExecInv
    <3>3. X!NothingLost(r)'
      BY <1>2, <3>1, <3>2 DEF X!NothingLost
    <3>4. X!Drained(r)'
      BY <1>2, <3>1, <3>2 DEF X!Drained, X!Past, X!Alive
    <3> QED
      BY <3>3, <3>4
  <2> QED
    BY <2>1, <2>2
<1> QED
  BY <1>6, <1>7, <1>8 DEF X!ExecInv

\* The end of a loop, at the end of the stream or by an interruption.
LEMMA ExecOnward ==
    ASSUME NEW s \in X!Streams, X!ExecInv, X!ReadEnd(s) \/ X!ReadFails(s)
    PROVE  X!ExecInv'
<1>1. /\ exec = s /\ exec' = IF s = "out" THEN "err" ELSE "wait"
      /\ fds' = IF s = "out" THEN fds ELSE fds \ (X!Streams \X {"r"})
      /\ text' = text /\ pipe' = pipe /\ wrote' = wrote /\ result' = result
      /\ verdict' = verdict /\ child' = child /\ heir' = heir
      /\ calls' = calls /\ leaked' = leaked /\ torn' = torn
  BY DEF X!ReadEnd, X!ReadFails, X!Onward, X!tally
<1>2. \/ cut' = cut /\ pipe[s] = <<>> /\ child \notin {"runs", "hangs"}
      \/ cut' = cut \cup {s}
  BY DEF X!ReadEnd, X!ReadFails, X!Ended, X!Alive
<1>3. X!TypeOK'
  <2>1. exec' \in X!Pcs /\ fds' \subseteq X!Ends /\ cut' \subseteq X!Streams
    BY <1>1, <1>2 DEF X!ExecInv, X!TypeOK, X!Pcs, X!Streams
  <2> QED
    BY <1>1, <2>1 DEF X!ExecInv, X!TypeOK
<1>4. X!ResultLast' /\ result' = "none"
  BY <1>1 DEF X!ExecInv, X!ResultLast, X!Streams
<1>5. X!DescriptorsHeld' /\ X!DescriptorsClosed'
  <2>1. fds = X!Streams \X {"r"} /\ leaked = 2 * torn
    BY <1>1 DEF X!ExecInv, X!DescriptorsHeld, X!Streams
  <2>2. fds' = IF s = "out" THEN X!Streams \X {"r"} ELSE {}
    BY <1>1, <2>1
  <2> QED
    BY <1>1, <2>1, <2>2 DEF X!DescriptorsHeld, X!DescriptorsClosed, X!Streams
<1>6. ASSUME NEW r \in X!Streams PROVE X!NothingLost(r)' /\ X!Drained(r)'
  <2>1. X!NothingLost(r)'
    BY <1>1 DEF X!ExecInv, X!NothingLost
  <2>2. X!Past(r)' => r = s \/ X!Past(r)
    BY <1>1, <1>4 DEF X!Past, X!Streams
  <2>3. X!Drained(r)'
    BY <1>1, <1>2, <2>2 DEF X!ExecInv, X!Drained, X!Alive
  <2> QED
    BY <2>1, <2>3
<1> QED
  BY <1>3, <1>4, <1>5, <1>6 DEF X!ExecInv

\* waitpid: both streams have been read.
LEMMA ExecWait ==
    ASSUME X!ExecInv, X!Wait PROVE X!ExecInv'
<1>1. /\ exec = "wait" /\ exec' = "returned" /\ result' = child /\ child' = "reaped"
      /\ child \in {"exited", "killed"}
      /\ fds' = fds /\ text' = text /\ pipe' = pipe /\ wrote' = wrote /\ cut' = cut
      /\ verdict' = verdict /\ heir' = heir
      /\ calls' = calls /\ leaked' = leaked /\ torn' = torn
  BY DEF X!Wait, X!Return, X!tally
<1>2. X!TypeOK'
  BY <1>1 DEF X!ExecInv, X!TypeOK, X!Pcs
<1>3. X!ResultLast'
  BY <1>1 DEF X!ResultLast
<1>4. X!DescriptorsHeld' /\ X!DescriptorsClosed'
  <2>1. fds = {} /\ leaked = 2 * torn /\ torn \in Nat
    BY <1>1 DEF X!ExecInv, X!TypeOK, X!DescriptorsHeld
  <2> QED
    BY <1>1, <2>1, EndsCounted DEF X!DescriptorsHeld, X!DescriptorsClosed, X!Streams
<1>5. ASSUME NEW r \in X!Streams PROVE X!NothingLost(r)' /\ X!Drained(r)'
  <2>1. X!NothingLost(r)'
    BY <1>1 DEF X!ExecInv, X!NothingLost
  <2>2. X!Drained(r)'
    BY <1>1 DEF X!ExecInv, X!Drained, X!Past, X!Alive
  <2> QED
    BY <2>1, <2>2
<1> QED
  BY <1>2, <1>3, <1>4, <1>5 DEF X!ExecInv

\* The child writes the next chunk behind what is in the pipe.
LEMMA ExecWrite ==
    ASSUME NEW s \in X!Streams, X!ExecInv, X!Write(s) PROVE X!ExecInv'
<1>1. /\ child = "runs"
      /\ wrote' = [wrote EXCEPT ![s] = @ + 1]
      /\ pipe' = [pipe EXCEPT ![s] = Append(@, wrote[s] + 1)]
      /\ exec' = exec /\ fds' = fds /\ text' = text /\ cut' = cut /\ result' = result
      /\ verdict' = verdict /\ child' = child /\ heir' = heir
      /\ calls' = calls /\ leaked' = leaked /\ torn' = torn
  BY DEF X!Write, X!parent, X!tally
<1>2. /\ pipe \in [X!Streams -> Seq(Nat)] /\ wrote \in [X!Streams -> Nat]
      /\ pipe[s] \in Seq(Nat) /\ wrote[s] \in Nat
  BY DEF X!ExecInv, X!TypeOK
<1>3. pipe' \in [X!Streams -> Seq(Nat)] /\ wrote' \in [X!Streams -> Nat]
  BY <1>1, <1>2
<1>4. X!TypeOK'
  BY <1>1, <1>3 DEF X!ExecInv, X!TypeOK
<1>5. X!ResultLast' /\ X!DescriptorsHeld' /\ X!DescriptorsClosed'
  BY <1>1 DEF X!ExecInv, X!ResultLast, X!DescriptorsHeld, X!DescriptorsClosed
<1>6. X!NothingLost(s)'
  <2>1. PICK n \in 0 .. wrote[s] :
           /\ text[s] = [i \in 1 .. n |-> i]
           /\ pipe[s] = [i \in 1 .. wrote[s] - n |-> n + i]
    BY DEF X!ExecInv, X!NothingLost
  <2> DEFINE w == wrote[s]
             q == pipe[s]
             added == Append(q, w + 1)
             v == wrote'[s]
             new == [i \in 1 .. v - n |-> n + i]
  <2>2. w \in Nat /\ q \in Seq(Nat) /\ n \in 0 .. w
        /\ Len(q) = w - n /\ \A i \in 1 .. w - n : q[i] = n + i
    BY <1>2, <2>1
  <2>3. v = w + 1
    BY <1>1, <1>2
  <2>4. pipe'[s] = added
    BY <1>1, <1>2
  <2> HIDE DEF w, q, v
  <2>5. added = new
    <3>1. added \in Seq(Nat) /\ Len(added) = v - n
      BY <2>2, <2>3
    <3>2. new \in Seq(Nat) /\ Len(new) = v - n
      BY <2>2, <2>3
    <3>3. ASSUME NEW i \in 1 .. v - n PROVE added[i] = new[i]
      <4> DEFINE m == w - n
      <4>1. w \in Nat /\ n \in Nat /\ i \in Nat /\ m \in Nat /\ v - n = m + 1
        BY <2>2, <2>3
      <4> HIDE DEF m
      <4>2. i \in 1 .. m \/ i = m + 1
        BY <4>1
      <4>3. i = m + 1 => n + i = w + 1
        BY <4>1 DEF m
      <4>4. new[i] = n + i
        OBVIOUS
      <4>5. Len(q) = m /\ \A k \in 1 .. m : q[k] = n + k
        BY <2>2 DEF m
      <4> QED
        BY <2>2, <4>1, <4>2, <4>3, <4>4, <4>5
    <3> QED
      BY <3>1, <3>2, <3>3
  <2> HIDE DEF added
  <2>6. n \in 0 .. wrote'[s]
    BY <2>2, <2>3 DEF v
  <2>7. pipe'[s] = [i \in 1 .. wrote'[s] - n |-> n + i]
    BY <2>4, <2>5 DEF v
  <2>8. text'[s] = [i \in 1 .. n |-> i]
    BY <1>1, <2>1
  <2> QED
    BY <2>6, <2>7, <2>8 DEF X!NothingLost
<1>7. ASSUME NEW r \in X!Streams PROVE X!NothingLost(r)' /\ X!Drained(r)'
  <2>1. X!Drained(r)'
    BY <1>1 DEF X!ExecInv, X!Drained, X!Past, X!Alive
  <2>2. CASE r # s
    <3>1. pipe'[r] = pipe[r] /\ wrote'[r] = wrote[r] /\ text'[r] = text[r]
      BY <1>1, <1>2, <2>2
    <3>2. X!NothingLost(r)
      BY DEF X!ExecInv
    <3> QED
      BY <2>1, <3>1, <3>2 DEF X!NothingLost
  <2> QED
    BY <1>6, <2>1, <2>2
<1> QED
  BY <1>4, <1>5, <1>7 DEF X!ExecInv

\* The child ends or hangs, or another node's child comes and goes.
LEMMA ExecOthers ==
    ASSUME X!ExecInv, X!Hang \/ X!Exit \/ X!Killed \/ X!Heir PROVE X!ExecInv'
<1>1. /\ exec' = exec /\ fds' = fds /\ text' = text /\ cut' = cut /\ result' = result
      /\ verdict' = verdict /\ pipe' = pipe /\ wrote' = wrote
      /\ calls' = calls /\ leaked' = leaked /\ torn' = torn
  BY DEF X!Hang, X!Exit, X!Killed, X!Heir, X!Inherit, X!HeirEnds, X!parent, X!tally
<1>2. \/ child' = child
      \/ child \in {"runs", "hangs"} /\ child' \in {"hangs", "exited", "killed"}
  BY DEF X!Hang, X!Exit, X!Killed, X!Heir, X!Inherit, X!HeirEnds, X!Alive
<1>3. heir' \in BOOLEAN
  BY Zenon DEF X!ExecInv, X!TypeOK, X!Hang, X!Exit, X!Killed, X!Heir, X!Inherit, X!HeirEnds
<1>4. X!TypeOK'
  BY <1>1, <1>2, <1>3 DEF X!ExecInv, X!TypeOK
<1>5. X!ResultLast' /\ X!DescriptorsHeld' /\ X!DescriptorsClosed'
  BY <1>1, <1>2 DEF X!ExecInv, X!ResultLast, X!DescriptorsHeld, X!DescriptorsClosed
<1>6. ASSUME NEW r \in X!Streams PROVE X!NothingLost(r)' /\ X!Drained(r)'
  <2>1. X!NothingLost(r)'
    BY <1>1 DEF X!ExecInv, X!NothingLost
  <2>2. X!Drained(r)'
    BY <1>1, <1>2 DEF X!ExecInv, X!Drained, X!Past, X!Alive
  <2> QED
    BY <2>1, <2>2
<1> QED
  BY <1>4, <1>5, <1>6 DEF X!ExecInv

\* Every step of execute, of the child and of other nodes keeps the invariant.
LEMMA ExecKept ==
    ASSUME X!ExecInv,
           \/ X!Call \/ X!Proceeds \/ X!Fails \/ X!Child \/ X!Hang \/ X!Killed \/ X!Heir
           \/ UNCHANGED execVars
    PROVE  X!ExecInv'
<1>1. CASE UNCHANGED execVars
  <2>1. /\ exec' = exec /\ fds' = fds /\ text' = text /\ cut' = cut /\ result' = result
        /\ verdict' = verdict /\ pipe' = pipe /\ wrote' = wrote /\ child' = child
        /\ heir' = heir /\ calls' = calls /\ leaked' = leaked /\ torn' = torn
    BY <1>1 DEF execVars
  <2>2. \A s \in X!Streams : X!NothingLost(s)' /\ X!Drained(s)'
    BY <2>1 DEF X!ExecInv, X!NothingLost, X!Drained, X!Past, X!Alive
  <2>3. X!TypeOK' /\ X!ResultLast' /\ X!DescriptorsHeld' /\ X!DescriptorsClosed'
    BY <2>1 DEF X!ExecInv, X!TypeOK, X!ResultLast, X!DescriptorsHeld, X!DescriptorsClosed
  <2> QED
    BY <2>2, <2>3 DEF X!ExecInv
<1>2. CASE X!Child
  BY <1>2, ExecWrite, ExecOthers DEF X!Child, X!SigPipe
<1> QED
  BY <1>1, <1>2, ExecCall, ExecSetUp, ExecRead, ExecOnward, ExecWait, ExecOthers
  DEF X!Proceeds, X!Fails

\* A CmdExecNode calls execute again and again, one call at a time.
LEMMA CmdKept ==
    ASSUME X!ExecInv, CmdNext PROVE X!ExecInv'
<1>1. \/ X!Call \/ X!Proceeds \/ X!Fails \/ X!Child \/ X!Hang \/ X!Killed \/ X!Heir
      \/ UNCHANGED execVars
  BY DEF CmdNext, Caller, Push, LoopTest, RecvTimeout, Take, Reply, Execute
<1> QED
  BY <1>1, ExecKept

\* nodes.cpp: the invariant of what the nodes do with their messages, for a
\* node of any class under any number of callers, also when starts, stops and
\* reloads overlap.
THEOREM WorkInvariant == NodesSpec => []WorkInv
<1>1. NodesInit => WorkInv
  <2> SUFFICES ASSUME NodesInit PROVE WorkInv
    OBVIOUS
  <2>1. X!ExecInv
    BY ExecInitial DEF NodesInit, CmdInit
  <2>2. F!FileInv
    BY FileInitial DEF NodesInit
  <2> QED
    BY <2>1, <2>2 DEF WorkInv, NodesInit, F!FileInit
<1>2. WorkInv /\ [NodesNext]_nodeVars => WorkInv'
  <2> SUFFICES ASSUME WorkInv, [NodesNext]_nodeVars PROVE WorkInv'
    OBVIOUS
  <2>1. CASE CmdExec(CmdNext)
    <3>1. X!ExecInv'
      BY <2>1, CmdKept DEF CmdExec, WorkInv
    <3> QED
      BY <2>1, <3>1 DEF CmdExec, WorkInv, fileVars
  <2>2. CASE FileXfer(F!FileNext)
    <3>1. X!ExecInv'
      BY <2>2, ExecKept DEF FileXfer, WorkInv
    <3>2. F!FileInv'
      BY <2>2, FileKept DEF FileXfer, WorkInv
    <3> QED
      BY <2>2, <3>1, <3>2 DEF FileXfer, WorkInv
  <2>3. CASE NetInfo(N!NetNext)
    <3>1. X!ExecInv'
      BY <2>3, ExecKept DEF NetInfo, WorkInv
    <3> QED
      BY <2>3, <3>1 DEF NetInfo, WorkInv, fileVars
  <2>4. CASE UNCHANGED nodeVars
    <3>1. X!ExecInv'
      BY <2>4, ExecKept DEF nodeVars, cmdVars, WorkInv
    <3>2. F!FileInv => F!FileInv'
      BY <2>4 DEF nodeVars, cmdVars, fileVars, F!FileInv, F!StoredAsAcked, F!Cells
    <3> QED
      BY <2>4, <3>1, <3>2 DEF WorkInv, nodeVars, fileVars
  <2> QED
    BY <2>1, <2>2, <2>3, <2>4 DEF NodesNext
<1> QED
  BY <1>1, <1>2, PTL DEF NodesSpec

\* FileXferNode: a chunk answered with ok is in its file, or a later chunk
\* overwrote it, and no byte of a file is at a place no answered chunk named:
\* for any chunks, any order of them, and any failures of the disk.
THEOREM ChunksStored == NodesSpec => []StoredAsAcked
<1>1. WorkInv => StoredAsAcked
  <2> SUFFICES ASSUME WorkInv PROVE StoredAsAcked
    OBVIOUS
  <2>1. CASE kind = "file_xfer"
    BY <2>1 DEF WorkInv, F!FileInv, StoredAsAcked
  <2>2. CASE kind # "file_xfer"
    <3>1. oks = {} /\ \A p \in F!Paths : Len(file[p]) = 0
      BY <2>2 DEF WorkInv
    <3> QED
      BY <3>1 DEF StoredAsAcked, F!StoredAsAcked
  <2> QED
    BY <2>1, <2>2
<1> QED
  BY <1>1, WorkInvariant, PTL

\* ProcessExecutor::execute: a result with an exit status carries all that the
\* child wrote to each stream, in order, or its beginning if the reading was
\* interrupted: whatever the pipes hold and however the child's writes fall
\* between the reads.
THEOREM OutputIsComplete == NodesSpec => []OutputComplete
<1>1. WorkInv => OutputComplete
  <2> SUFFICES ASSUME WorkInv, result \in {"exited", "killed"}
               PROVE  /\ child = "reaped"
                      /\ \A s \in X!Streams :
                            \E n \in 0 .. wrote[s] :
                               /\ text[s] = [i \in 1 .. n |-> i]
                               /\ s \notin cut => n = wrote[s]
    BY DEF OutputComplete, X!OutputComplete
  <2>1. child = "reaped"
    BY DEF WorkInv, X!ExecInv, X!ResultLast
  <2>2. ASSUME NEW s \in X!Streams
        PROVE  \E n \in 0 .. wrote[s] :
                  text[s] = [i \in 1 .. n |-> i] /\ (s \notin cut => n = wrote[s])
    <3>1. PICK n \in 0 .. wrote[s] :
             /\ text[s] = [i \in 1 .. n |-> i]
             /\ pipe[s] = [i \in 1 .. wrote[s] - n |-> n + i]
      BY DEF WorkInv, X!ExecInv, X!NothingLost
    <3>2. s \notin cut => pipe[s] = <<>>
      BY DEF WorkInv, X!ExecInv, X!Drained, X!Past
    <3>3. wrote[s] \in Nat
      BY DEF WorkInv, X!ExecInv, X!TypeOK
    <3>4. Len(pipe[s]) = wrote[s] - n
      BY <3>1, <3>3
    <3>5. s \notin cut => n = wrote[s]
      BY <3>2, <3>3, <3>4
    <3> QED
      BY <3>1, <3>5
  <2> QED
    BY <2>1, <2>2
<1> QED
  BY <1>1, WorkInvariant, PTL

\* Over any number of calls, the pipe ends left open are those that a failing
\* second pipe() left behind.
THEOREM DescriptorsAreClosed == NodesSpec => []DescriptorsClosed
<1>1. WorkInv => DescriptorsClosed
  BY DEF WorkInv, X!ExecInv, DescriptorsClosed
<1> QED
  BY <1>1, WorkInvariant, PTL
=============================================================================
