----------------------------- MODULE WalProofs -----------------------------
(***************************************************************************)
(* Proofs about Wal for every configuration and every set of failures: the *)
(* types, and that what replay can read is numbered in increasing order,   *)
(* below the next sequence number, and never exceeds the limit.  Further   *)
(* that safe records survive crashes, and that without write errors and    *)
(* crashes the log is exact and implements DurableLog.                     *)
(***************************************************************************)
EXTENDS Wal, FiniteSetTheorems, TLAPS

Ordered(h, f) == \A i, j \in Readable(h, f) : i < j => f[i].seq < f[j].seq

(***************************************************************************)
(* The inductive strengthening.  PowerLoss can bring back the image of the *)
(* last fsync, so the image is ordered too; and ftruncate turns an "empty" *)
(* header into one the readers accept, so such a file must hold nothing.   *)
(***************************************************************************)
OrderInv ==
    /\ TypeOK
    /\ Ordered(hdr, file)
    /\ Ordered(disk.hdr, disk.file)
    /\ NextSeqAbove
    /\ hdr \in {"absent", "empty"} => file = <<>>
    /\ disk.hdr \in {"absent", "empty"} => disk.file = <<>>
    /\ up => hdr # "absent"

-----------------------------------------------------------------------------
(* Facts about sequences and enumerations.                                 *)

\* Sub-collections of the indices of a sequence are finite.
LEMMA IndexSetsFinite ==
    ASSUME NEW f \in Seq(Records), NEW S \in SUBSET DOMAIN f
    PROVE  IsFiniteSet(S) /\ Cardinality(S) \in Nat
  <1>1. DOMAIN f = 1..Len(f) /\ Len(f) \in Nat
    OBVIOUS
  <1>2. IsFiniteSet(1..Len(f))
    BY <1>1, FS_Interval
  <1>3. IsFiniteSet(S)
    BY <1>1, <1>2, FS_Subset
  <1> QED
    BY <1>3, FS_CardinalityType

\* What can be read is a record, and is seen when the file is reopened.
LEMMA ReadableFacts ==
    ASSUME NEW h, NEW f \in Seq(Records), NEW i \in Readable(h, f)
    PROVE  /\ i \in 1..Len(f) /\ f[i] \in Records
           /\ f[i].seq \in Nat /\ f[i].kind = "ok"
           /\ i \in Seen(h, f)
  <1>1. i \in DOMAIN f /\ DOMAIN f = 1..Len(f) /\ Len(f) \in Nat
    BY DEF Readable
  <1>2. f[i] \in Records /\ i \in Nat
    BY <1>1
  <1>3. \A j \in 1..i : f[j].kind = "ok"
    BY DEF Readable
  <1>4. f[i].kind = "ok" /\ \A j \in 1..(i-1) : f[j].kind = "ok"
    BY <1>1, <1>2, <1>3
  <1>5. i \in Seen(h, f)
    BY <1>1, <1>4 DEF Readable, Seen
  <1> QED
    BY <1>1, <1>2, <1>4, <1>5 DEF Records

\* Appending a torn or whole record yields a sequence of records in which
\* only the new record is new.
LEMMA AppendFacts ==
    ASSUME NEW f \in Seq(Records), NEW r \in Records
    PROVE  /\ Append(f, r) \in Seq(Records)
           /\ Len(Append(f, r)) = Len(f) + 1
           /\ DOMAIN Append(f, r) = 1..(Len(f) + 1)
           /\ \A i \in 1..Len(f) : Append(f, r)[i] = f[i]
           /\ Append(f, r)[Len(f) + 1] = r
  OBVIOUS

\* A record that is torn, or numbered above all that can be read, keeps the
\* readable entries in order when it is appended.
LEMMA OrderedAppend ==
    ASSUME NEW h, NEW f \in Seq(Records), NEW r \in Records, Ordered(h, f),
           r.kind = "ok" => \A i \in Readable(h, f) : f[i].seq < r.seq
    PROVE  /\ Ordered(h, Append(f, r))
           /\ \A i \in Readable(h, Append(f, r)) :
                 i \in Readable(h, f) \/ (i = Len(f) + 1 /\ r.kind = "ok")
  <1> DEFINE g == Append(f, r)
  <1>1. /\ DOMAIN g = 1..(Len(f) + 1) /\ DOMAIN f = 1..Len(f) /\ Len(f) \in Nat
        /\ \A i \in 1..Len(f) : g[i] = f[i]
        /\ g[Len(f) + 1] = r
    BY AppendFacts
  <1> HIDE DEF g
  <1>2. ASSUME NEW i \in Readable(h, g), i # Len(f) + 1
        PROVE  i \in Readable(h, f)
    BY <1>1, <1>2 DEF Readable
  <1>3. ASSUME NEW i \in Readable(h, g), i = Len(f) + 1
        PROVE  r.kind = "ok" /\ Readable(h, g) \ {i} \subseteq Readable(h, f)
    <2>1. r.kind = "ok"
      BY <1>1, <1>3 DEF Readable
    <2> QED
      BY <1>2, <1>3, <2>1
  <1>4. ASSUME NEW i \in Readable(h, g), NEW j \in Readable(h, g), i < j
        PROVE  g[i].seq < g[j].seq
    <2>1. i \in 1..(Len(f) + 1) /\ j \in 1..(Len(f) + 1)
      BY <1>1 DEF Readable
    <2>2. i # Len(f) + 1 /\ i \in Readable(h, f) /\ g[i] = f[i]
      BY <1>1, <1>2, <1>4, <2>1
    <2>3. CASE j = Len(f) + 1
      BY <1>1, <1>3, <2>2, <2>3
    <2>4. CASE j # Len(f) + 1
      <3>1. j \in Readable(h, f) /\ g[j] = f[j]
        BY <1>1, <1>2, <2>1, <2>4
      <3> QED
        BY <1>4, <2>2, <3>1 DEF Ordered
    <2> QED
      BY <2>3, <2>4
  <1> QED
    BY <1>2, <1>3, <1>4 DEF Ordered, g

\* A prefix of a file reads in the same order.
LEMMA OrderedPrefix ==
    ASSUME NEW h, NEW f \in Seq(Records), NEW n \in 0..Len(f), Ordered(h, f)
    PROVE  /\ SubSeq(f, 1, n) \in Seq(Records) /\ Len(SubSeq(f, 1, n)) = n
           /\ Ordered(h, SubSeq(f, 1, n))
  <1> DEFINE g == SubSeq(f, 1, n)
  <1>1. /\ g \in Seq(Records) /\ Len(g) = n
        /\ DOMAIN g = 1..n /\ DOMAIN f = 1..Len(f)
        /\ \A i \in 1..n : g[i] = f[i]
    OBVIOUS
  <1> HIDE DEF g
  <1>2. \A i \in Readable(h, g) : i \in Readable(h, f) /\ g[i] = f[i]
    BY <1>1 DEF Readable
  <1> QED
    BY <1>1, <1>2 DEF Ordered, g

\* An order-preserving selection of a completely readable file is in order.
LEMMA OrderedSelection ==
    ASSUME NEW h, NEW f \in Seq(Records), NEW S \in SUBSET DOMAIN f,
           NEW e \in InOrder(S), NEW n \in 0..Len(e),
           Ordered(h, f), Aligned(h), ReplayOk(h, f)
    PROVE  LET g == [i \in 1..n |-> f[e[i]]] IN
           /\ Len(e) = Cardinality(S) /\ Len(e) \in Nat /\ DOMAIN e = 1..Len(e)
           /\ g \in Seq(Records) /\ Len(g) = n
           /\ Ordered(h, g)
           /\ \A i \in 1..n : e[i] \in DOMAIN f /\ e[i] \in Readable(h, f)
  <1> DEFINE g == [i \in 1..n |-> f[e[i]]]
  <1>1. Cardinality(S) \in Nat
    BY IndexSetsFinite
  <1>2. /\ e \in [1..Cardinality(S) -> S]
        /\ \A i, j \in 1..Cardinality(S) : i < j => e[i] < e[j]
    BY DEF InOrder
  <1>3. Len(e) = Cardinality(S) /\ Len(e) \in Nat /\ DOMAIN e = 1..Len(e)
    BY <1>1, <1>2
  <1>4. \A i \in 1..n : e[i] \in DOMAIN f
    BY <1>2, <1>3
  <1>5. \A i \in DOMAIN f : i \in Readable(h, f)
    BY DEF Readable, ReplayOk
  <1>6. g \in Seq(Records) /\ Len(g) = n /\ DOMAIN g = 1..n
    BY <1>3, <1>4
  <1>7. Ordered(h, g)
    <2>1. ASSUME NEW i \in Readable(h, g), NEW j \in Readable(h, g), i < j
          PROVE  g[i].seq < g[j].seq
      <3>1. i \in 1..n /\ j \in 1..n
        BY <1>6 DEF Readable
      <3>2. e[i] < e[j] /\ e[i] \in Readable(h, f) /\ e[j] \in Readable(h, f)
        BY <1>2, <1>3, <1>4, <1>5, <2>1, <3>1
      <3> QED
        BY <3>1, <3>2 DEF Ordered
    <2> QED
      BY <2>1 DEF Ordered
  <1> QED
    BY <1>3, <1>4, <1>5, <1>6, <1>7

-----------------------------------------------------------------------------
(* The inductive step, one lemma per group of actions.                     *)

\* A fresh Wal has no file.
LEMMA OrderInit == Init => OrderInv
  <1> SUFFICES ASSUME Init PROVE OrderInv
    OBVIOUS
  <1>1. Readable(hdr, file) = {} /\ Readable(disk.hdr, disk.file) = {}
    BY DEF Init, Readable, Aligned
  <1>2. disk \in Images /\ file \in Seq(Records)
    BY DEF Init, Images, Headers
  <1> QED
    BY <1>1, <1>2 DEF Init, OrderInv, TypeOK, Ordered, Headers, NextSeqAbove

\* Records and images have their fields.
LEMMA RecordTypes ==
    ASSUME TypeOK
    PROVE  /\ \A kind \in Kinds : Entry(kind) \in Records
           /\ \A i \in DOMAIN file : file[i] \in Records
           /\ disk.hdr \in Headers /\ disk.file \in Seq(Records)
           /\ HeaderAfterWrite \in Headers /\ HeaderAfterCut \in Headers
  <1>1. \A kind \in Kinds : Entry(kind) \in Records
    BY DEF TypeOK, Entry, Records
  <1>2. \A i \in DOMAIN file : file[i] \in Records
    BY DEF TypeOK
  <1>3. disk.hdr \in Headers /\ disk.file \in Seq(Records)
    BY DEF TypeOK, Images
  <1>4. HeaderAfterWrite \in Headers /\ HeaderAfterCut \in Headers
    BY DEF TypeOK, HeaderAfterWrite, HeaderAfterCut, Headers
  <1> QED
    BY <1>1, <1>2, <1>3, <1>4

\* Reopening numbers the log above every header it can see, hence above every
\* entry it can read.
LEMMA CreateStep == OrderInv /\ Create => OrderInv'
  <1> SUFFICES ASSUME OrderInv, Create PROVE OrderInv'
    OBVIOUS
  <1> USE DEF OrderInv, Create
  <1>1. CASE write_file_header
    <2>1. file = <<>> /\ file' = <<>> /\ hdr' = "ok" /\ disk' = disk /\ up' = TRUE
          /\ next_seq' = 1 /\ entry_count' = 0 /\ size' = 1 /\ hist' = hist
      BY <1>1 DEF write_file_header
    <2>2. TypeOK'
      BY <2>1 DEF TypeOK, hist, Headers
    <2>3. Readable(hdr', file') = {}
      BY <2>1 DEF Readable
    <2> QED
      BY <2>1, <2>2, <2>3 DEF Ordered, NextSeqAbove, Readable
  <1>2. CASE read_file_header
    <2>1. /\ file' = file /\ hdr' = hdr /\ disk' = disk /\ up' = TRUE
          /\ hist' = hist /\ floor' = floor /\ hdr \in {"empty", "ok", "alias"}
      BY <1>2 DEF read_file_header
    <2>2. PICK max \in {0} \cup {file[i].seq : i \in Seen(hdr, file)} :
              /\ \A i \in Seen(hdr, file) : file[i].seq <= max
              /\ next_seq' = max + 1
      BY <1>2 DEF read_file_header
    <2>3. max \in Nat
      BY <2>2, RecordTypes DEF Seen, Records
    <2>4. entry_count' \in Nat
      <3>1. Seen(hdr, file) \in SUBSET DOMAIN file
        BY DEF Seen
      <3> QED
        BY <1>2, <3>1, IndexSetsFinite DEF read_file_header, TypeOK
    <2>5. size' \in Nat
      <3>1. \A k : OfKind(file, k) \in Nat
        BY IndexSetsFinite DEF OfKind, TypeOK
      <3>2. StSize(hdr, file) \in Nat
        BY <3>1 DEF StSize
      <3> QED
        BY <1>2, <3>2 DEF read_file_header
    <2>6. TypeOK'
      BY <2>1, <2>2, <2>3, <2>4, <2>5 DEF TypeOK, hist
    <2>7. ASSUME NEW i \in Readable(hdr, file)
          PROVE  file[i].seq < next_seq'
      <3>1. i \in Seen(hdr, file) /\ file[i].seq \in Nat
        BY ReadableFacts DEF TypeOK
      <3> QED
        BY <2>2, <2>3, <3>1
    <2> QED
      BY <2>1, <2>6, <2>7 DEF Ordered, NextSeqAbove
  <1> QED
    BY <1>1, <1>2

\* The header write failed: the file is there and empty.
LEMMA CreateFailsStep == OrderInv /\ CreateFails => OrderInv'
  BY DEF OrderInv, CreateFails, TypeOK, Ordered, Readable, Aligned, NextSeqAbove,
         Headers, mem, hist

\* A whole record is numbered next_seq, above everything that can be read.
LEMMA AppendOkStep == OrderInv /\ AppendOk => OrderInv'
  <1> SUFFICES ASSUME OrderInv, AppendOk PROVE OrderInv'
    OBVIOUS
  <1> USE DEF OrderInv
  <1> DEFINE r == Entry("ok")
  <1>1. /\ up /\ up' = up /\ hdr' = HeaderAfterWrite /\ file' = Append(file, r)
        /\ next_seq' = next_seq + 1
        /\ entry_count' = entry_count + 1 /\ size' = size + 3
        /\ attempts' = attempts + 1
    BY DEF AppendOk, Units
  <1>2. r \in Records /\ r.kind = "ok" /\ r.seq = next_seq /\ file \in Seq(Records)
    BY RecordTypes DEF Entry, Kinds, TypeOK
  <1> HIDE DEF r
  <1>3. hdr' \in Headers /\ hdr' \notin {"absent", "empty"}
    BY <1>1, RecordTypes DEF HeaderAfterWrite, TypeOK, Headers
  <1>4. Ordered(hdr', file) /\ \A i \in Readable(hdr', file) : file[i].seq < next_seq
    <2>1. CASE hdr = "empty"
      BY <1>1, <2>1 DEF HeaderAfterWrite, Ordered, Readable, Aligned
    <2>2. CASE hdr # "empty"
      BY <1>1, <2>2 DEF HeaderAfterWrite, NextSeqAbove
    <2> QED
      BY <2>1, <2>2
  <1>5. file' \in Seq(Records)
    BY <1>1, <1>2
  <1>6. /\ Ordered(hdr', file')
        /\ \A i \in Readable(hdr', file') :
              i \in Readable(hdr', file) \/ i = Len(file) + 1
    BY <1>1, <1>2, <1>4, OrderedAppend
  <1>7. NextSeqAbove'
    <2>1. ASSUME NEW i \in Readable(hdr', file')
          PROVE  file'[i].seq < next_seq + 1
      <3>1. /\ DOMAIN file' = 1..(Len(file) + 1)
            /\ \A k \in 1..Len(file) : file'[k] = file[k]
            /\ file'[Len(file) + 1] = r
        BY <1>1, <1>2, AppendFacts
      <3>2. CASE i = Len(file) + 1
        BY <1>2, <3>1, <3>2 DEF TypeOK
      <3>3. CASE i # Len(file) + 1
        <4>1. i \in Readable(hdr', file) /\ i \in 1..Len(file)
          BY <1>2, <1>6, <3>3 DEF Readable
        <4>2. file[i].seq \in Nat /\ file[i].seq < next_seq /\ file'[i] = file[i]
          BY <1>2, <1>4, <3>1, <4>1, ReadableFacts
        <4> QED
          BY <4>2 DEF TypeOK
      <3> QED
        BY <3>2, <3>3
    <2> QED
      BY <1>1, <2>1 DEF NextSeqAbove
  <1>8. /\ disk' \in Images /\ floor' \in Nat
        /\ Ordered(disk'.hdr, disk'.file)
        /\ disk'.hdr \in {"absent", "empty"} => disk'.file = <<>>
    <2>1. PICK ok : FsyncHere(hdr', file', ok)
      BY DEF AppendOk
    <2>2. CASE ok
      <3>1. disk' = [hdr |-> hdr', file |-> file'] /\ floor' = Len(file')
        BY <2>1, <2>2 DEF FsyncHere
      <3> QED
        BY <1>3, <1>5, <1>6, <3>1 DEF Images
    <2>3. CASE ~ok
      <3>1. disk' = disk /\ floor' = floor
        BY <2>1, <2>3 DEF FsyncHere
      <3> QED
        BY <3>1 DEF TypeOK
    <2> QED
      BY <2>2, <2>3
  <1>9. acked' \subseteq Acks /\ live' \subseteq acked' /\ safe' \subseteq live'
    BY DEF AppendOk, TypeOK, Acks
  <1> QED
    BY <1>1, <1>3, <1>5, <1>6, <1>7, <1>8, <1>9 DEF TypeOK

\* A failed append leaves the file, or the file and a torn record.
LEMMA AppendFailsStep == OrderInv /\ AppendFails => OrderInv'
  <1> SUFFICES ASSUME OrderInv, AppendFails PROVE OrderInv'
    OBVIOUS
  <1> USE DEF OrderInv
  <1>1. PICK kind \in TornKinds :
            /\ file' = WithTear(file, kind)
            /\ hdr' = IF kind = "none" THEN hdr ELSE HeaderAfterWrite
    BY DEF AppendFails
  <1>2. /\ up /\ up' \in BOOLEAN /\ attempts' = attempts + 1
        /\ UNCHANGED <<disk, floor, next_seq, entry_count, size, acked, live, safe>>
    BY DEF AppendFails, mem
  <1>3. CASE kind = "none"
    <2>1. file' = file /\ hdr' = hdr
      BY <1>1, <1>3 DEF WithTear
    <2> QED
      BY <1>2, <2>1 DEF TypeOK, Ordered, NextSeqAbove
  <1>4. CASE kind # "none"
    <2> DEFINE r == Entry(kind)
    <2>1. file' = Append(file, r) /\ hdr' = HeaderAfterWrite
      BY <1>1, <1>4 DEF WithTear
    <2>2. r \in Records /\ r.kind # "ok" /\ file \in Seq(Records)
      BY <1>1, <1>4, RecordTypes DEF TornKinds, Kinds, Entry, TypeOK
    <2> HIDE DEF r
    <2>3. hdr' \in Headers /\ hdr' \notin {"absent", "empty"}
      BY <1>2, <2>1, RecordTypes DEF HeaderAfterWrite, TypeOK, Headers
    <2>4. Ordered(hdr', file) /\ \A i \in Readable(hdr', file) : file[i].seq < next_seq
      <3>1. CASE hdr = "empty"
        BY <2>1, <3>1 DEF HeaderAfterWrite, Ordered, Readable, Aligned
      <3>2. CASE hdr # "empty"
        BY <1>2, <2>1, <3>2 DEF HeaderAfterWrite, NextSeqAbove
      <3> QED
        BY <3>1, <3>2
    <2>5. /\ Ordered(hdr', file')
          /\ \A i \in Readable(hdr', file') : i \in Readable(hdr', file)
      BY <2>1, <2>2, <2>4, OrderedAppend
    <2>6. \A i \in Readable(hdr', file') : file'[i].seq < next_seq
      <3>1. ASSUME NEW i \in Readable(hdr', file')
            PROVE  file'[i].seq < next_seq
        <4>1. i \in Readable(hdr', file) /\ i \in 1..Len(file)
          BY <2>2, <2>5 DEF Readable
        <4>2. file'[i] = file[i]
          BY <2>1, <2>2, <4>1, AppendFacts
        <4> QED
          BY <2>4, <4>1, <4>2
      <3> QED
        BY <3>1
    <2>7. file' \in Seq(Records)
      BY <2>1, <2>2
    <2> QED
      BY <1>2, <2>3, <2>5, <2>6, <2>7 DEF TypeOK, NextSeqAbove
  <1> QED
    BY <1>3, <1>4

\* fsync makes the current file the durable image.
LEMMA FsyncStep == OrderInv /\ Fsync => OrderInv'
  <1> SUFFICES ASSUME OrderInv, Fsync PROVE OrderInv'
    OBVIOUS
  <1>1. /\ disk' = [hdr |-> hdr, file |-> file] /\ floor' = Len(file)
        /\ hdr' = hdr /\ file' = file /\ up' = up /\ mem' = mem /\ hist' = hist
    BY DEF Fsync, FsyncHere
  <1>2. disk' \in Images /\ floor' \in Nat
    BY <1>1 DEF OrderInv, TypeOK, Images
  <1> QED
    BY <1>1, <1>2 DEF OrderInv, TypeOK, Ordered, NextSeqAbove, mem, hist

\* replay only corrects entry_count_; closing only forgets the memory.
LEMMA ReplayCloseStep == OrderInv /\ (Replay \/ Close) => OrderInv'
  <1> SUFFICES ASSUME OrderInv, Replay \/ Close PROVE OrderInv'
    OBVIOUS
  <1>1. /\ hdr' = hdr /\ file' = file /\ disk' = disk /\ floor' = floor
        /\ next_seq' = next_seq /\ size' = size /\ hist' = hist
        /\ up' \in BOOLEAN /\ (up' => up)
    BY DEF Replay, Close, mem, OrderInv, TypeOK
  <1>2. entry_count' \in Nat
    BY DEF Replay, Close, mem, OrderInv, TypeOK
  <1> QED
    BY <1>1, <1>2 DEF OrderInv, TypeOK, Ordered, NextSeqAbove, hist

\* A truncate rewrites, completely or up to some entry, an order-preserving
\* selection of a file that was read to its end.
LEMMA TruncateStep ==
    ASSUME OrderInv, NEW keep \in Nat, Truncate(keep) \/ TruncateFails(keep)
    PROVE  OrderInv'
  <1> USE DEF OrderInv
  <1> DEFINE S == Keep(file, keep)
  <1>1. /\ up /\ up' \in BOOLEAN /\ ReplayOk(hdr, file) /\ hdr' = HeaderAfterCut
        /\ floor' = 0 /\ Dropping(keep)
        /\ UNCHANGED <<disk, next_seq, attempts, acked>>
    BY DEF Truncate, TruncateFails, TypeOK
  <1>2. file \in Seq(Records) /\ S \in SUBSET DOMAIN file
    BY DEF TypeOK, Keep
  <1>3. hdr' \in Headers /\ hdr' \in {"ok", "bad"} /\ (hdr = "empty" \/ hdr' = hdr)
    BY <1>1, RecordTypes DEF HeaderAfterCut, ReplayOk, TypeOK, Headers
  <1>4. Aligned(hdr') /\ ReplayOk(hdr', file)
    BY <1>1, <1>3 DEF Aligned, ReplayOk
  <1>5. Ordered(hdr', file) /\ \A i \in Readable(hdr', file) : file[i].seq < next_seq
    <2>1. CASE hdr = "empty"
      BY <2>1 DEF Ordered, Readable
    <2>2. CASE hdr' = hdr
      BY <1>1, <2>2 DEF NextSeqAbove
    <2> QED
      BY <1>3, <2>1, <2>2
  <1>6. live' \subseteq acked' /\ safe' \subseteq live' /\ acked' \subseteq Acks
    BY <1>1 DEF Dropping, TypeOK
  <1>7. ASSUME NEW e \in InOrder(S), NEW n \in 0..Len(e)
        PROVE  /\ [i \in 1..n |-> file[e[i]]] \in Seq(Records)
               /\ Len([i \in 1..n |-> file[e[i]]]) = n
               /\ Ordered(hdr', [i \in 1..n |-> file[e[i]]])
               /\ \A i \in Readable(hdr', [j \in 1..n |-> file[e[j]]]) :
                     i \in 1..n /\ file[e[i]].seq < next_seq
               /\ Len(e) \in Nat /\ DOMAIN e = 1..Len(e)
               /\ \A i \in 1..n : e[i] \in DOMAIN file
    <2> DEFINE g == [i \in 1..n |-> file[e[i]]]
    <2>1. /\ Len(e) \in Nat /\ DOMAIN e = 1..Len(e)
          /\ g \in Seq(Records) /\ Len(g) = n
          /\ Ordered(hdr', g)
          /\ \A i \in 1..n : e[i] \in DOMAIN file /\ e[i] \in Readable(hdr', file)
      BY <1>2, <1>4, <1>5, OrderedSelection
    <2>2. \A i \in Readable(hdr', g) : i \in 1..n
      BY <2>1 DEF Readable
    <2>3. \A i \in 1..n : file[e[i]].seq < next_seq
      BY <1>5, <2>1
    <2> QED
      BY <2>1, <2>2, <2>3
  <1>8. /\ file' \in Seq(Records) /\ entry_count' \in Nat /\ size' \in Nat
        /\ Ordered(hdr', file')
        /\ \A i \in Readable(hdr', file') : file'[i].seq < next_seq
    <2>1. CASE Truncate(keep)
      <3>1. PICK e \in InOrder(S) :
                /\ file' = [i \in DOMAIN e |-> file[e[i]]]
                /\ entry_count' = Len(e) /\ size' = 1 + 3 * Len(e)
        BY <2>1 DEF Truncate
      <3>2. Len(e) \in Nat /\ DOMAIN e = 1..Len(e)
        <4>1. 0 \in 0..Len(e)
          <5>1. S \in SUBSET DOMAIN file /\ Cardinality(S) \in Nat
            BY <1>2, IndexSetsFinite
          <5>2. Len(e) = Cardinality(S)
            BY <5>1 DEF InOrder
          <5> QED
            BY <5>1, <5>2
        <4> QED
          BY <1>7, <4>1
      <3>3. Len(e) \in 0..Len(e)
        BY <3>2
      <3>4. /\ file' \in Seq(Records) /\ Ordered(hdr', file')
            /\ \A i \in Readable(hdr', file') : i \in 1..Len(e) /\ file[e[i]].seq < next_seq
        BY <1>7, <3>1, <3>2, <3>3
      <3> QED
        BY <3>1, <3>2, <3>4
    <2>2. CASE TruncateFails(keep)
      <3>0. PICK e \in InOrder(S) :
               \E n \in 1..Len(e), kind \in {"none", "stub", "body"} :
               LET done == [i \in 1..(n-1) |-> file[e[i]]] IN
               /\ file' = IF kind = "none" THEN done
                          ELSE Append(done, [file[e[n]] EXCEPT !.kind = kind])
               /\ entry_count' = entry_count + (n - 1)
               /\ size' = size + 3 * (n - 1)
        BY <2>2 DEF TruncateFails
      <3>1. PICK n \in 1..Len(e), kind \in {"none", "stub", "body"} :
               LET done == [i \in 1..(n-1) |-> file[e[i]]] IN
               /\ file' = IF kind = "none" THEN done
                          ELSE Append(done, [file[e[n]] EXCEPT !.kind = kind])
               /\ entry_count' = entry_count + (n - 1)
               /\ size' = size + 3 * (n - 1)
        BY <3>0
      <3> DEFINE done == [i \in 1..(n-1) |-> file[e[i]]]
                 r == [file[e[n]] EXCEPT !.kind = kind]
      <3>2. Len(e) \in Nat
        <4>1. S \in SUBSET DOMAIN file /\ Cardinality(S) \in Nat
          BY <1>2, IndexSetsFinite
        <4> QED
          BY <4>1 DEF InOrder
      <3>3. n \in Nat /\ n - 1 \in 0..Len(e) /\ n \in 0..Len(e) /\ n - 1 \in Nat
        BY <3>1, <3>2
      <3>4. /\ done \in Seq(Records) /\ Len(done) = n - 1 /\ Ordered(hdr', done)
            /\ \A i \in Readable(hdr', done) : i \in 1..(n-1) /\ done[i].seq < next_seq
        BY <1>7, <3>3
      <3>5. e[n] \in DOMAIN file /\ file[e[n]] \in Records
        <4>1. \A i \in 1..n : e[i] \in DOMAIN file
          BY <1>7, <3>3
        <4>2. n \in 1..n
          BY <3>1, <3>3
        <4> QED
          BY <1>2, <4>1, <4>2
      <3>8. entry_count' \in Nat /\ size' \in Nat
        <4>1. entry_count' = entry_count + (n - 1) /\ size' = size + 3 * (n - 1)
          BY <3>1
        <4>2. entry_count \in Nat /\ size \in Nat /\ 3 * (n - 1) \in Nat
          BY <3>3 DEF TypeOK
        <4> QED
          BY <3>3, <4>1, <4>2
      <3>6. CASE kind = "none"
        <4>1. file' = done
          BY <3>1, <3>6
        <4> HIDE DEF done
        <4> QED
          BY <3>4, <3>8, <4>1
      <3>7. CASE kind # "none"
        <4>1. r \in Records /\ r.kind # "ok"
          BY <3>1, <3>5, <3>7 DEF Records, Kinds
        <4>2. file' = Append(done, r)
          BY <3>1, <3>7
        <4> HIDE DEF done, r
        <4>3. /\ Ordered(hdr', file')
              /\ \A i \in Readable(hdr', file') : i \in Readable(hdr', done)
          BY <3>4, <4>1, <4>2, OrderedAppend
        <4>4. ASSUME NEW i \in Readable(hdr', file')
              PROVE  file'[i].seq < next_seq
          <5>1. i \in Readable(hdr', done) /\ i \in 1..Len(done)
            BY <3>4, <4>3
          <5>2. file'[i] = done[i]
            BY <3>4, <4>1, <4>2, <5>1, AppendFacts
          <5> QED
            BY <3>4, <5>1, <5>2
        <4>5. file' \in Seq(Records)
          BY <3>4, <4>1, <4>2
        <4> QED
          BY <3>8, <4>3, <4>4, <4>5
      <3> QED
        BY <3>6, <3>7
    <2> QED
      BY <2>1, <2>2
  <1> QED
    BY <1>1, <1>3, <1>6, <1>8 DEF TypeOK, NextSeqAbove

\* truncate_all leaves nothing to read.
LEMMA TruncateAllStep == OrderInv /\ TruncateAll => OrderInv'
  <1> SUFFICES ASSUME OrderInv, TruncateAll PROVE OrderInv'
    OBVIOUS
  <1>1. hdr' \in Headers /\ hdr' \in {"ok", "bad"} /\ file' = <<>>
    BY RecordTypes DEF TruncateAll, OrderInv, HeaderAfterCut, TypeOK, Headers
  <1>2. Readable(hdr', file') = {}
    BY <1>1 DEF Readable
  <1>3. TypeOK'
    BY <1>1 DEF TruncateAll, OrderInv, TypeOK
  <1> QED
    BY <1>1, <1>2, <1>3 DEF TruncateAll, OrderInv, Ordered, NextSeqAbove

\* A power loss brings back the fsynced image, or a prefix of the file whose
\* last record may be torn.
LEMMA PowerLossStep == OrderInv /\ PowerLoss => OrderInv'
  <1> SUFFICES ASSUME OrderInv, PowerLoss PROVE OrderInv'
    OBVIOUS
  <1> USE DEF OrderInv
  <1>1. PICK image \in Survivors :
            /\ hdr' = image.hdr /\ file' = image.file
            /\ disk' = image /\ floor' = Len(image.file)
    BY DEF PowerLoss
  <1>2. up' = FALSE /\ mem' = mem /\ hist' = hist
    BY DEF PowerLoss
  <1> DEFINE Fine(im) == /\ im \in Images /\ Ordered(im.hdr, im.file)
                         /\ im.hdr \in {"absent", "empty"} => im.file = <<>>
             h(n) == IF n = 0 /\ hdr = "alias" THEN "empty" ELSE hdr
             cut(n) == [hdr |-> h(n), file |-> SubSeq(file, 1, n)]
             torn(n) == [hdr |-> hdr,
                         file |-> Append(SubSeq(file, 1, n),
                                         [file[n+1] EXCEPT !.kind = "body"])]
  <1>3. file \in Seq(Records) /\ floor \in Nat /\ hdr \in Headers /\ disk \in Images
    BY DEF TypeOK
  <1>4. Fine(disk)
    BY <1>3
  <1>5. ASSUME NEW n \in floor..Len(file)
        PROVE  Fine(cut(n))
    <2>1. n \in 0..Len(file) /\ n \in Nat
      BY <1>3
    <2>2. /\ SubSeq(file, 1, n) \in Seq(Records) /\ Len(SubSeq(file, 1, n)) = n
          /\ Ordered(hdr, SubSeq(file, 1, n))
      BY <1>3, <2>1, OrderedPrefix
    <2>3. h(n) \in Headers
      BY <1>3 DEF Headers
    <2>4. Ordered(h(n), SubSeq(file, 1, n))
      BY <2>2 DEF Ordered, Readable, Aligned
    <2>5. h(n) \in {"absent", "empty"} => SubSeq(file, 1, n) = <<>>
      <3>1. CASE n = 0
        BY <2>2, <3>1
      <3>2. CASE n # 0
        BY <1>3, <2>1, <3>2
      <3> QED
        BY <3>1, <3>2
    <2> QED
      BY <2>2, <2>3, <2>4, <2>5 DEF Images
  <1>6. ASSUME NEW n \in floor..(Len(file)-1)
        PROVE  Fine(torn(n))
    <2> DEFINE r == [file[n+1] EXCEPT !.kind = "body"]
               g == SubSeq(file, 1, n)
    <2>1. n \in 0..Len(file) /\ n \in Nat /\ n + 1 \in 1..Len(file)
      BY <1>3
    <2>2. g \in Seq(Records) /\ Ordered(hdr, g)
      BY <1>3, <2>1, OrderedPrefix
    <2>3. r \in Records /\ r.kind # "ok"
      <3>1. file[n+1] \in Records
        BY <1>3, <2>1
      <3> QED
        BY <3>1 DEF Records, Kinds
    <2>4. hdr \notin {"absent", "empty"}
      BY <1>3, <2>1
    <2> HIDE DEF r, g
    <2>5. Ordered(hdr, Append(g, r)) /\ Append(g, r) \in Seq(Records)
      BY <2>2, <2>3, OrderedAppend
    <2>6. torn(n) = [hdr |-> hdr, file |-> Append(g, r)]
      BY DEF g, r
    <2> HIDE DEF torn
    <2> QED
      BY <1>3, <2>4, <2>5, <2>6 DEF Images
  <1>7. Fine([hdr |-> "empty", file |-> <<>>])
    BY DEF Images, Headers, Ordered, Readable
  <1>8. Fine(image)
    <2>1. \/ image = disk
          \/ \E n \in floor..Len(file) : image = cut(n)
          \/ \E n \in floor..(Len(file)-1) : image = torn(n)
          \/ image = [hdr |-> "empty", file |-> <<>>]
      BY DEF Survivors
    <2> HIDE DEF Fine, cut, torn
    <2> QED
      BY <1>4, <1>5, <1>6, <1>7, <2>1
  <1>9. image.hdr \in Headers /\ image.file \in Seq(Records)
    BY <1>8 DEF Images
  <1>10. TypeOK'
    <2>1. hdr' \in Headers /\ file' \in Seq(Records) /\ disk' \in Images
      BY <1>1, <1>8, <1>9
    <2>2. floor' \in Nat
      BY <1>1, <1>9
    <2> QED
      BY <1>2, <2>1, <2>2 DEF TypeOK, mem, hist
  <1> QED
    BY <1>1, <1>2, <1>8, <1>10 DEF NextSeqAbove

\* Doing nothing changes nothing.
LEMMA StutterStep == OrderInv /\ UNCHANGED vars => OrderInv'
  BY DEF OrderInv, TypeOK, Ordered, NextSeqAbove, vars, mem, hist

-----------------------------------------------------------------------------
\* The strengthened invariant holds in every reachable state, for every
\* configuration, every set of failures and any number of restarts.
THEOREM OrderInvariant == Spec => []OrderInv
  <1>1. OrderInv /\ [Next]_vars => OrderInv'
    <2> SUFFICES ASSUME OrderInv, [Next]_vars PROVE OrderInv'
      OBVIOUS
    <2>1. CASE Create
      BY <2>1, CreateStep
    <2>2. CASE CreateFails
      BY <2>2, CreateFailsStep
    <2>3. CASE Replay \/ Close
      BY <2>3, ReplayCloseStep
    <2>4. CASE AppendOk
      BY <2>4, AppendOkStep
    <2>5. CASE AppendFails
      BY <2>5, AppendFailsStep
    <2>6. CASE Fsync
      BY <2>6, FsyncStep
    <2>7. CASE \E keep \in 1..(MaxAttempts + 1) : Truncate(keep) \/ TruncateFails(keep)
      <3>1. PICK keep \in 1..(MaxAttempts + 1) : Truncate(keep) \/ TruncateFails(keep)
        BY <2>7
      <3>2. keep \in Nat
        BY WalAssumption
      <3> QED
        BY <3>1, <3>2, TruncateStep
    <2>8. CASE TruncateAll
      BY <2>8, TruncateAllStep
    <2>9. CASE PowerLoss
      BY <2>9, PowerLossStep
    <2>10. CASE UNCHANGED vars
      BY <2>10, StutterStep
    <2> QED
      BY <2>1, <2>2, <2>3, <2>4, <2>5, <2>6, <2>7, <2>8, <2>9, <2>10 DEF Next
  <1> QED
    BY <1>1, OrderInit, PTL DEF Spec

\* Every variable keeps its type: in particular the rollback of next_seq_ on
\* the error paths of append never takes it below zero.
THEOREM TypeCorrect == Spec => []TypeOK
  <1>1. OrderInv => TypeOK
    BY DEF OrderInv
  <1> QED
    BY <1>1, OrderInvariant, PTL

\* What replay returns is in strictly ascending order of sequence numbers,
\* after any mix of torn writes, rewrites, restarts and power losses.
THEOREM ReplayAscending == Spec => []SeqOrder
  <1>1. OrderInv => SeqOrder
    BY DEF OrderInv, Ordered, SeqOrder
  <1> QED
    BY <1>1, OrderInvariant, PTL

\* An open log never numbers an append at or below an entry it can read.
THEOREM NextIsFresh == Spec => []NextSeqAbove
  <1>1. OrderInv => NextSeqAbove
    BY DEF OrderInv
  <1> QED
    BY <1>1, OrderInvariant, PTL

-----------------------------------------------------------------------------
(* The limit on the entries.                                               *)

\* What can be read of a file after one more record was written to it.
LEMMA ReadableAppend ==
    ASSUME NEW h, NEW f \in Seq(Records), NEW r \in Records
    PROVE  /\ \A i \in Readable(h, f) : i \in Readable(h, Append(f, r))
           /\ \A i \in Readable(h, Append(f, r)) :
                 \/ i \in Readable(h, f)
                 \/ /\ i = Len(f) + 1 /\ r.kind = "ok"
                    /\ Len(f) = 0 \/ Len(f) \in Readable(h, f)
  <1> DEFINE g == Append(f, r)
  <1>1. /\ DOMAIN g = 1..(Len(f) + 1) /\ DOMAIN f = 1..Len(f) /\ Len(f) \in Nat
        /\ \A i \in 1..Len(f) : g[i] = f[i]
        /\ g[Len(f) + 1] = r
    BY AppendFacts
  <1> HIDE DEF g
  <1>2. ASSUME NEW i \in Readable(h, f) PROVE i \in Readable(h, g)
    BY <1>1 DEF Readable
  <1>3. ASSUME NEW i \in Readable(h, g), i # Len(f) + 1 PROVE i \in Readable(h, f)
    BY <1>1, <1>3 DEF Readable
  <1>4. ASSUME Len(f) + 1 \in Readable(h, g)
        PROVE  r.kind = "ok" /\ (Len(f) = 0 \/ Len(f) \in Readable(h, f))
    <2>1. Aligned(h) /\ \A j \in 1..(Len(f) + 1) : g[j].kind = "ok"
      BY <1>4 DEF Readable
    <2> QED
      BY <1>1, <2>1 DEF Readable
  <1> QED
    BY <1>2, <1>3, <1>4 DEF g

\* What can be read of the first records of a file.
LEMMA ReadablePrefix ==
    ASSUME NEW h, NEW f \in Seq(Records), NEW n \in 0..Len(f)
    PROVE  /\ SubSeq(f, 1, n) \in Seq(Records) /\ Len(SubSeq(f, 1, n)) = n
           /\ \A i \in 1..n : SubSeq(f, 1, n)[i] = f[i]
           /\ \A i : i \in Readable(h, SubSeq(f, 1, n)) <=> i \in Readable(h, f) /\ i <= n
  <1> DEFINE g == SubSeq(f, 1, n)
  <1>1. /\ g \in Seq(Records) /\ Len(g) = n
        /\ DOMAIN g = 1..n /\ DOMAIN f = 1..Len(f)
        /\ \A i \in 1..n : g[i] = f[i]
    OBVIOUS
  <1> HIDE DEF g
  <1>2. ASSUME NEW i \in Readable(h, g) PROVE i \in Readable(h, f) /\ i <= n
    BY <1>1 DEF Readable
  <1>3. ASSUME NEW i \in Readable(h, f), i <= n PROVE i \in Readable(h, g)
    BY <1>1, <1>3 DEF Readable
  <1> QED
    BY <1>1, <1>2, <1>3 DEF g

\* A record more is an entry more at most, and a torn one is none.
LEMMA FitsAppend ==
    ASSUME NEW h, NEW f \in Seq(Records), NEW r \in Records, NEW n \in Nat, Fits(h, f, n)
    PROVE  /\ Fits(h, Append(f, r), n + 1)
           /\ r.kind # "ok" => Fits(h, Append(f, r), n)
  <1>1. ASSUME NEW i \in Readable(h, Append(f, r))
        PROVE  i \in 1..(n + 1) /\ (r.kind # "ok" => i \in 1..n)
    <2>1. CASE i \in Readable(h, f)
      BY <2>1 DEF Fits
    <2>2. CASE i \notin Readable(h, f)
      <3>1. i = Len(f) + 1 /\ r.kind = "ok" /\ (Len(f) = 0 \/ Len(f) \in 1..n)
        BY <1>1, <2>2, ReadableAppend DEF Fits
      <3>2. Len(f) \in Nat
        OBVIOUS
      <3> QED
        BY <3>1, <3>2
    <2> QED
      BY <2>1, <2>2
  <1> QED
    BY <1>1 DEF Fits

\* Counting what can be read.
LEMMA FitsCount ==
    ASSUME NEW h, NEW f, NEW n \in Nat, Fits(h, f, n)
    PROVE  Cardinality(Readable(h, f)) <= n
  <1>1. IsFiniteSet(1..n) /\ Cardinality(1..n) = n
    BY FS_Interval
  <1> QED
    BY <1>1, FS_Subset DEF Fits

\* scan_entries_for_max_seq counts no less than what can be read.
LEMMA FitsSeen ==
    ASSUME NEW h, NEW f \in Seq(Records)
    PROVE  Fits(h, f, Cardinality(Seen(h, f)))
  <1> SUFFICES ASSUME NEW i \in Readable(h, f) PROVE i \in 1..Cardinality(Seen(h, f))
    BY DEF Fits
  <1>1. Seen(h, f) \in SUBSET DOMAIN f
    BY DEF Seen
  <1>2. IsFiniteSet(Seen(h, f)) /\ Cardinality(Seen(h, f)) \in Nat
    BY <1>1, IndexSetsFinite
  <1>3. i \in 1..Len(f) /\ DOMAIN f = 1..Len(f) /\ Len(f) \in Nat
    BY ReadableFacts
  <1>4. \A j \in 1..i : j \in Readable(h, f)
    BY <1>3 DEF Readable
  <1>5. 1..i \in SUBSET Seen(h, f)
    BY <1>4, ReadableFacts
  <1>6. Cardinality(1..i) = i
    BY <1>3, FS_Interval
  <1> QED
    BY <1>2, <1>3, <1>5, <1>6, FS_Subset

\* What a power loss leaves is the durable image, or else at least the floor
\* and at most the whole of what could be read.
LEMMA SurvivorReads ==
    ASSUME TypeOK, NEW image \in Survivors
    PROVE  \/ image = disk
           \/ disk.hdr = "absent" /\ Readable(image.hdr, image.file) = {}
           \/ /\ \A i \in Readable(image.hdr, image.file) : i \in Readable(hdr, file)
              /\ \A i \in Readable(hdr, file) : i <= floor =>
                    /\ i \in Readable(image.hdr, image.file) /\ image.file[i] = file[i]
                    /\ i <= Len(image.file)
  <1> DEFINE h(n) == IF n = 0 /\ hdr = "alias" THEN "empty" ELSE hdr
             cut(n) == [hdr |-> h(n), file |-> SubSeq(file, 1, n)]
             torn(n) == [hdr |-> hdr,
                         file |-> Append(SubSeq(file, 1, n),
                                         [file[n+1] EXCEPT !.kind = "body"])]
             Between(im) ==
                /\ \A i \in Readable(im.hdr, im.file) : i \in Readable(hdr, file)
                /\ \A i \in Readable(hdr, file) : i <= floor =>
                      /\ i \in Readable(im.hdr, im.file) /\ im.file[i] = file[i]
                      /\ i <= Len(im.file)
  <1>1. file \in Seq(Records) /\ floor \in Nat
    BY DEF TypeOK
  <1>2. \A i \in Readable(hdr, file) : i \in 1..Len(file)
    BY <1>1 DEF Readable
  <1>3. ASSUME NEW n \in floor..Len(file) PROVE Between(cut(n))
    <2> DEFINE g == SubSeq(file, 1, n)
    <2>1. n \in 0..Len(file) /\ floor <= n /\ n \in Nat
      BY <1>1
    <2>2. /\ Len(g) = n /\ \A i \in 1..n : g[i] = file[i]
      BY <1>1, <2>1, ReadablePrefix
    <2>3. \A i : i \in Readable(hdr, g) <=> i \in Readable(hdr, file) /\ i <= n
      BY <1>1, <2>1, ReadablePrefix
    <2> HIDE DEF g
    <2>4. Readable(h(n), g) = Readable(hdr, g)
      BY DEF Readable, Aligned
    <2>5. cut(n).hdr = h(n) /\ cut(n).file = g
      BY DEF g
    <2> HIDE DEF cut, h
    <2>6. \A i \in Readable(hdr, file) : i <= floor => i \in 1..n
      BY <1>1, <1>2, <2>1
    <2> QED
      BY <2>2, <2>3, <2>4, <2>5, <2>6
  <1>4. ASSUME NEW n \in floor..(Len(file)-1) PROVE Between(torn(n))
    <2> DEFINE r == [file[n+1] EXCEPT !.kind = "body"]
               g == SubSeq(file, 1, n)
    <2>1. n \in 0..Len(file) /\ n \in Nat /\ n + 1 \in 1..Len(file) /\ floor <= n
      BY <1>1
    <2>2. r \in Records /\ r.kind # "ok"
      <3>1. file[n+1] \in Records
        BY <1>1, <2>1
      <3> QED
        BY <3>1 DEF Records, Kinds
    <2>3. g \in Seq(Records) /\ Len(g) = n /\ \A i \in 1..n : g[i] = file[i]
      BY <1>1, <2>1, ReadablePrefix
    <2>4. \A i : i \in Readable(hdr, g) <=> i \in Readable(hdr, file) /\ i <= n
      BY <1>1, <2>1, ReadablePrefix
    <2>5. torn(n).hdr = hdr /\ torn(n).file = Append(g, r)
      OBVIOUS
    <2> HIDE DEF r, g, torn
    <2>6. \A i : i \in Readable(hdr, Append(g, r)) <=> i \in Readable(hdr, g)
      BY <2>2, <2>3, ReadableAppend
    <2>7. Len(Append(g, r)) = n + 1 /\ \A i \in 1..n : Append(g, r)[i] = file[i]
      BY <2>2, <2>3, AppendFacts
    <2>8. \A i \in Readable(hdr, file) : i <= floor => i \in 1..n /\ i <= n + 1
      BY <1>1, <1>2, <2>1
    <2> QED
      BY <2>4, <2>5, <2>6, <2>7, <2>8
  <1>5. \/ image = disk
        \/ \E n \in floor..Len(file) : image = cut(n)
        \/ \E n \in floor..(Len(file)-1) : image = torn(n)
        \/ disk.hdr = "absent" /\ image = [hdr |-> "empty", file |-> <<>>]
    BY DEF Survivors
  <1>6. Readable("empty", <<>>) = {}
    BY DEF Readable
  <1> HIDE DEF cut, torn
  <1> QED
    BY <1>3, <1>4, <1>5, <1>6

\* Every step keeps what can be read within the limit.
LEMMA BoundStep ==
    ASSUME OrderInv, BoundInv, Next PROVE BoundInv'
  <1> DEFINE max == env.max_entries
             Within(h, f) == max > 0 => Fits(h, f, max)
  <1>1. env' = env /\ env \in Settings /\ max \in Nat
    BY WalAssumption DEF Next, BoundInv
  <1>2. TypeOK /\ file \in Seq(Records) /\ entry_count \in Nat
    BY DEF OrderInv, TypeOK
  <1>3. Within(hdr, file) /\ Within(disk.hdr, disk.file) /\ (up => Fits(hdr, file, entry_count))
    BY DEF BoundInv
  <1> SUFFICES /\ up' => Fits(hdr', file', entry_count')
               /\ Within(hdr', file') /\ Within(disk'.hdr, disk'.file)
    BY <1>1 DEF BoundInv
  <1> HIDE DEF max
  <1>4. CASE Create
    <2>1. file' = file /\ disk' = disk
      BY <1>4 DEF Create
    <2>2. CASE write_file_header
      <3>1. file = <<>>
        BY <2>2 DEF OrderInv, write_file_header
      <3>2. \A n : Fits(hdr', file', n)
        BY <2>1, <3>1 DEF Fits, Readable
      <3> QED
        BY <1>3, <2>1, <3>2
    <2>3. CASE read_file_header
      <3>1. hdr' = hdr /\ entry_count' = Cardinality(Seen(hdr, file))
        BY <2>3 DEF read_file_header
      <3> QED
        BY <1>2, <1>3, <2>1, <3>1, FitsSeen
    <2> QED
      BY <1>4, <2>2, <2>3 DEF Create
  <1>5. CASE CreateFails
    <2>1. hdr' = "empty" /\ ~up' /\ disk' = disk
      BY <1>5 DEF CreateFails
    <2>2. \A f, n : Fits("empty", f, n)
      BY DEF Fits, Readable, Aligned
    <2> QED
      BY <1>3, <2>1, <2>2
  <1>6. CASE Close \/ Replay
    <2>1. hdr' = hdr /\ file' = file /\ disk' = disk
      BY <1>6 DEF Close, Replay
    <2>2. up' => up /\ (entry_count' = entry_count \/ entry_count' = Len(file))
      BY <1>6 DEF Close, Replay, mem
    <2>3. Fits(hdr, file, Len(file))
      BY <1>2 DEF Fits, Readable
    <2> QED
      BY <1>3, <2>1, <2>2, <2>3
  <1>7. CASE AppendOk
    <2> DEFINE r == Entry("ok")
    <2>1. /\ up /\ hdr' = HeaderAfterWrite /\ file' = Append(file, r)
          /\ entry_count' = entry_count + 1 /\ ~Full
      BY <1>7 DEF AppendOk
    <2>2. r \in Records
      BY <1>2, RecordTypes DEF Kinds
    <2> HIDE DEF r
    <2>3. Fits(hdr', file, entry_count)
      BY <1>3, <2>1 DEF HeaderAfterWrite, Fits, Readable, Aligned
    <2>4. Fits(hdr', file', entry_count + 1)
      BY <1>2, <2>1, <2>2, <2>3, FitsAppend
    <2>5. Within(hdr', file')
      <3>1. max > 0 => entry_count + 1 <= max
        BY <1>1, <1>2, <2>1 DEF Full, max
      <3>2. ASSUME entry_count + 1 <= max PROVE Fits(hdr', file', max)
        BY <1>1, <1>2, <2>4, <3>2 DEF Fits
      <3> QED
        BY <3>1, <3>2
    <2>6. \/ disk'.hdr = hdr' /\ disk'.file = file'
          \/ disk' = disk
      BY <1>7 DEF AppendOk, FsyncHere
    <2> QED
      BY <1>3, <2>1, <2>4, <2>5, <2>6
  <1>8. CASE AppendFails
    <2>1. PICK kind \in TornKinds :
              /\ file' = WithTear(file, kind)
              /\ hdr' = IF kind = "none" THEN hdr ELSE HeaderAfterWrite
      BY <1>8 DEF AppendFails
    <2>2. up /\ disk' = disk /\ entry_count' = entry_count
      BY <1>8 DEF AppendFails, mem
    <2>3. CASE kind = "none"
      BY <1>3, <2>1, <2>2, <2>3 DEF WithTear
    <2>4. CASE kind # "none"
      <3> DEFINE r == Entry(kind)
      <3>1. file' = Append(file, r) /\ hdr' = HeaderAfterWrite
        BY <2>1, <2>4 DEF WithTear
      <3>2. r \in Records /\ r.kind # "ok"
        BY <1>2, <2>1, <2>4, RecordTypes DEF TornKinds, Kinds, Entry
      <3> HIDE DEF r
      <3>3. \A n : Fits(hdr, file, n) => Fits(hdr', file, n)
        BY <3>1 DEF HeaderAfterWrite, Fits, Readable, Aligned
      <3>4. \A n \in Nat : Fits(hdr', file, n) => Fits(hdr', file', n)
        BY <1>2, <3>1, <3>2, FitsAppend
      <3> QED
        BY <1>1, <1>2, <1>3, <2>2, <3>3, <3>4
    <2> QED
      BY <2>3, <2>4
  <1>9. CASE Fsync
    <2>1. /\ hdr' = hdr /\ file' = file /\ up' = up /\ entry_count' = entry_count
          /\ disk'.hdr = hdr /\ disk'.file = file
      BY <1>9 DEF Fsync, FsyncHere, mem
    <2> QED
      BY <1>3, <2>1
  <1>10. CASE TruncateAll
    <2>1. file' = <<>> /\ disk' = disk
      BY <1>10 DEF TruncateAll
    <2>2. \A n : Fits(hdr', file', n)
      BY <2>1 DEF Fits, Readable
    <2> QED
      BY <1>3, <2>1, <2>2
  <1>11. CASE PowerLoss
    <2>1. PICK image \in Survivors :
              hdr' = image.hdr /\ file' = image.file /\ disk' = image
      BY <1>11 DEF PowerLoss
    <2>2. ~up'
      BY <1>11 DEF PowerLoss
    <2>3. Within(image.hdr, image.file)
      BY <1>2, <1>3, SurvivorReads DEF Fits
    <2> QED
      BY <2>1, <2>2, <2>3
  <1>12. ASSUME NEW keep \in 1..(MaxAttempts + 1), Truncate(keep) \/ TruncateFails(keep)
         PROVE  /\ up' => Fits(hdr', file', entry_count')
                /\ Within(hdr', file') /\ Within(disk'.hdr, disk'.file)
    <2> DEFINE S == Keep(file, keep)
    <2>1. up /\ ReplayOk(hdr, file) /\ disk' = disk
      BY <1>12 DEF Truncate, TruncateFails
    <2>2. S \in SUBSET DOMAIN file /\ DOMAIN file = 1..Len(file) /\ Len(file) \in Nat
      BY <1>2 DEF Keep
    <2>3. Cardinality(S) \in Nat /\ Cardinality(S) <= Len(file)
      <3> DEFINE len == Len(file)
      <3>1. len \in Nat /\ S \in SUBSET (1..len)
        BY <2>2
      <3> HIDE DEF len
      <3>2. IsFiniteSet(1..len) /\ Cardinality(1..len) = len
        BY <3>1, FS_Interval
      <3>3. Cardinality(S) <= len
        BY <3>1, <3>2, FS_Subset
      <3> QED
        BY <1>2, <2>2, <3>3, IndexSetsFinite DEF len
    <2> HIDE DEF S
    <2>4. \A e \in InOrder(S) : /\ e \in [1..Cardinality(S) -> S]
                                /\ Len(e) = Cardinality(S) /\ DOMAIN e = 1..Cardinality(S)
      BY <2>3 DEF InOrder
    <2>5. max > 0 => Len(file) <= max
      <3>1. CASE Aligned(hdr) /\ Len(file) > 0
        <4>1. Len(file) \in Readable(hdr, file)
          BY <2>1, <2>2, <3>1 DEF Readable, ReplayOk
        <4> QED
          BY <1>1, <1>3, <4>1 DEF Fits
      <3>2. CASE ~Aligned(hdr)
        <4>1. file = <<>>
          BY <1>2, <2>1, <3>2 DEF OrderInv, TypeOK, Headers, Aligned, ReplayOk
        <4> QED
          BY <1>1, <4>1
      <3>3. CASE Len(file) = 0
        BY <1>1, <3>3
      <3> QED
        BY <2>2, <3>1, <3>2, <3>3
    <2>6. PICK n \in Nat : /\ n <= Cardinality(S) /\ n <= entry_count'
                           /\ \A h : Fits(h, file', n)
      <3>1. CASE Truncate(keep)
        <4>1. PICK e \in InOrder(S) :
                  file' = [i \in DOMAIN e |-> file[e[i]]] /\ entry_count' = Len(e)
          BY <3>1 DEF Truncate, S
        <4>2. DOMAIN file' = 1..Cardinality(S) /\ entry_count' = Cardinality(S)
          BY <2>4, <4>1
        <4>3. \A h : Fits(h, file', Cardinality(S))
          BY <4>2 DEF Fits, Readable
        <4> QED
          BY <2>3, <4>2, <4>3
      <3>2. CASE TruncateFails(keep)
        <4>1. PICK e \in InOrder(S) :
              \E n \in 1..Len(e), kind \in {"none", "stub", "body"} :
                 LET done == [i \in 1..(n-1) |-> file[e[i]]] IN
                 /\ file' = IF kind = "none" THEN done
                            ELSE Append(done, [file[e[n]] EXCEPT !.kind = kind])
                 /\ entry_count' = entry_count + (n - 1)
          BY <3>2 DEF TruncateFails, S
        <4>2. PICK n \in 1..Len(e), kind \in {"none", "stub", "body"} :
                 LET done == [i \in 1..(n-1) |-> file[e[i]]] IN
                 /\ file' = IF kind = "none" THEN done
                            ELSE Append(done, [file[e[n]] EXCEPT !.kind = kind])
                 /\ entry_count' = entry_count + (n - 1)
          BY <4>1
        <4> DEFINE done == [i \in 1..(n-1) |-> file[e[i]]]
                   r == [file[e[n]] EXCEPT !.kind = kind]
        <4>3. n - 1 \in Nat /\ n - 1 <= Cardinality(S) /\ n - 1 <= entry_count'
          BY <1>2, <2>3, <2>4, <4>2
        <4>4. \A i \in 1..n : e[i] \in DOMAIN file
          <5>1. n \in Nat /\ n <= Len(e)
            BY <2>3, <2>4, <4>2
          <5>2. \A i \in 1..Len(e) : e[i] \in DOMAIN file
            BY <2>2, <2>4
          <5> QED
            BY <5>1, <5>2
        <4>5. \A i \in 1..(n-1) : file[e[i]] \in Records
          BY <1>2, <4>3, <4>4
        <4>6. done \in Seq(Records) /\ Len(done) = n - 1
          BY <4>3, <4>5
        <4>7. \A h : Fits(h, done, n - 1)
          BY <4>3 DEF Fits, Readable
        <4>8. file' = done \/ (kind # "none" /\ file' = Append(done, r))
          BY <4>2
        <4>9. kind # "none" => r \in Records /\ r.kind # "ok"
          <5>1. file[e[n]] \in Records
            BY <1>2, <4>3, <4>4
          <5> QED
            BY <5>1 DEF Records, Kinds
        <4> HIDE DEF done, r
        <4>10. \A h : Fits(h, file', n - 1)
          BY <4>3, <4>6, <4>7, <4>8, <4>9, FitsAppend
        <4> QED
          BY <4>3, <4>10
      <3> QED
        BY <1>12, <3>1, <3>2
    <2>7. entry_count' \in Nat
      BY <1>12, TruncateStep, WalAssumption DEF OrderInv, TypeOK
    <2>8. ASSUME NEW m \in Nat, n <= m PROVE Fits(hdr', file', m)
      BY <2>6, <2>8 DEF Fits
    <2>9. max > 0 => n <= max
      BY <1>1, <2>2, <2>3, <2>5, <2>6
    <2> QED
      BY <1>1, <1>3, <2>1, <2>6, <2>7, <2>8, <2>9
  <1> QED
    BY <1>4, <1>5, <1>6, <1>7, <1>8, <1>9, <1>10, <1>11, <1>12 DEF Next

\* append's check of max_entries_ stops in time: what replay has to load stays
\* within the limit and is never more than entry_count_, whatever failed.
THEOREM LimitHolds == Spec => []EntriesBounded
  <1>1. Init => BoundInv
    BY DEF Init, BoundInv, Fits, Readable, Aligned
  <1>2. OrderInv /\ BoundInv /\ [Next]_vars => BoundInv'
    <2>1. OrderInv /\ BoundInv /\ UNCHANGED vars => BoundInv'
      BY DEF BoundInv, vars, mem, Fits
    <2> QED
      BY <2>1, BoundStep
  <1>3. OrderInv /\ BoundInv => EntriesBounded
    <2> SUFFICES ASSUME OrderInv, BoundInv PROVE EntriesBounded
      OBVIOUS
    <2>1. env.max_entries \in Nat /\ entry_count \in Nat
      BY WalAssumption DEF BoundInv, OrderInv, TypeOK
    <2> QED
      BY <2>1, FitsCount DEF EntriesBounded, BoundInv
  <1> QED
    BY <1>1, <1>2, <1>3, OrderInvariant, PTL DEF Spec

-----------------------------------------------------------------------------
(* Durability.                                                             *)

\* What can be read is still there after one more record.
LEMMA HoldsAppend ==
    ASSUME NEW h, NEW f \in Seq(Records), NEW r \in Records, NEW n, NEW m, NEW a,
           \A i \in 1..Len(f) : i <= n => i <= m,
           Holds(h, f, n, a)
    PROVE  Holds(h, Append(f, r), m, a)
  <1>1. PICK i \in Readable(h, f) : i <= n /\ f[i].id = a.id /\ f[i].seq = a.seq
    BY DEF Holds
  <1>2. i \in 1..Len(f)
    BY ReadableFacts
  <1>3. i \in Readable(h, Append(f, r)) /\ Append(f, r)[i] = f[i]
    BY <1>2, ReadableAppend, AppendFacts
  <1> QED
    BY <1>1, <1>2, <1>3 DEF Holds

\* Every step keeps the safe entries in the durable image and in the part of
\* the file that survives.
LEMMA SafeStep ==
    ASSUME OrderInv, SafeInv, Next PROVE SafeInv'
  <1>1. env' = env
    BY DEF Next
  <1>2. TypeOK /\ file \in Seq(Records) /\ floor \in Nat /\ floor <= Len(file)
        /\ disk.file \in Seq(Records)
    BY RecordTypes DEF OrderInv, TypeOK, SafeInv
  <1> DEFINE Here(a) == Holds(hdr, file, floor, a)
             There(a) == Holds(disk.hdr, disk.file, Len(disk.file), a)
  <1>3. Synced' <=> Synced
    BY <1>1 DEF Synced
  <1>4. Synced => \A a \in safe : Here(a) /\ There(a)
    BY DEF SafeInv
  <1> SUFFICES /\ floor' <= Len(file')
               /\ Synced => \A a \in safe' :
                     /\ Holds(hdr', file', floor', a)
                     /\ Holds(disk'.hdr, disk'.file, Len(disk'.file), a)
    BY <1>3 DEF SafeInv
  <1>5. CASE Create \/ CreateFails
    <2>1. file' = file /\ disk' = disk /\ floor' = floor /\ safe' = safe
          /\ (hdr' = hdr \/ hdr = "absent")
      BY <1>5 DEF Create, CreateFails, write_file_header, read_file_header, hist
    <2>2. hdr = "absent" => \A a : ~Here(a)
      BY DEF Holds, Readable, Aligned
    <2> QED
      BY <1>2, <1>4, <2>1, <2>2
  <1>6. CASE Close \/ Replay
    <2>1. file' = file /\ disk' = disk /\ floor' = floor /\ safe' = safe /\ hdr' = hdr
      BY <1>6 DEF Close, Replay, hist
    <2> QED
      BY <1>2, <1>4, <2>1
  <1>7. CASE Fsync
    <2>1. /\ file' = file /\ hdr' = hdr /\ safe' = safe /\ floor' = Len(file)
          /\ disk'.hdr = hdr /\ disk'.file = file
      BY <1>7 DEF Fsync, FsyncHere, hist
    <2>2. \A a : Here(a) => Holds(hdr, file, Len(file), a)
      BY <1>2 DEF Holds, Readable
    <2> QED
      BY <1>2, <1>4, <2>1, <2>2
  <1>8. CASE AppendOk
    <2> DEFINE r == Entry("ok")
               ack == [id |-> attempts + 1, seq |-> next_seq]
    <2>1. /\ hdr' = HeaderAfterWrite /\ file' = Append(file, r)
          /\ safe' = IF Damaged THEN safe ELSE safe \cup {ack}
      BY <1>8 DEF AppendOk
    <2>2. r \in Records /\ r.kind = "ok" /\ r.id = ack.id /\ r.seq = ack.seq
      BY <1>2, RecordTypes DEF Kinds, Entry
    <2> HIDE DEF r, ack
    <2>3. file' \in Seq(Records) /\ Len(file') = Len(file) + 1 /\ Len(file) \in Nat
      BY <1>2, <2>1, <2>2, AppendFacts
    <2>4. PICK synced \in {env.fsync_on_append} \cup (IF "fsync" \in env.faults THEN {FALSE} ELSE {}) :
             FsyncHere(hdr', file', synced)
      BY <1>8 DEF AppendOk
    <2>5. floor' <= Len(file')
      <3>1. floor' = Len(file') \/ floor' = floor
        BY <2>4 DEF FsyncHere
      <3> QED
        BY <1>2, <2>3, <3>1
    <2>6. ASSUME Synced, NEW a \in safe'
          PROVE  /\ Holds(hdr', file', floor', a)
                 /\ Holds(disk'.hdr, disk'.file, Len(disk'.file), a)
      <3>1. synced = TRUE
        BY <2>4, <2>6 DEF Synced
      <3>2. disk'.hdr = hdr' /\ disk'.file = file' /\ floor' = Len(file')
        BY <2>4, <3>1 DEF FsyncHere
      <3>3. CASE a \in safe
        <4>1. Here(a)
          BY <1>4, <2>6, <3>3
        <4>2. hdr' = hdr
          BY <2>1, <4>1 DEF HeaderAfterWrite, Holds, Readable, Aligned
        <4>3. \A i \in 1..Len(file) : i <= floor => i <= Len(file')
          BY <2>3
        <4>4. Holds(hdr, file', Len(file'), a)
          BY <1>2, <2>1, <2>2, <4>1, <4>3, HoldsAppend
        <4> QED
          BY <3>2, <4>2, <4>4
      <3>4. CASE a \notin safe
        <4>1. ~Damaged /\ a = ack
          BY <2>1, <2>6, <3>4
        <4>2. hdr' = "ok" /\ \A i \in 1..Len(file) : file[i].kind = "ok"
          BY <1>2, <2>1, <4>1 DEF Damaged, HeaderAfterWrite
        <4>3. /\ DOMAIN file' = 1..(Len(file) + 1)
              /\ \A i \in 1..Len(file) : file'[i] = file[i]
              /\ file'[Len(file) + 1] = r
          BY <1>2, <2>1, <2>2, AppendFacts
        <4>4. \A i \in 1..(Len(file) + 1) : file'[i].kind = "ok"
          BY <2>2, <2>3, <4>2, <4>3
        <4>5. Len(file) + 1 \in Readable(hdr', file')
          BY <2>3, <4>2, <4>3, <4>4 DEF Readable, Aligned
        <4>6. Holds(hdr', file', Len(file'), a)
          BY <2>2, <2>3, <4>1, <4>3, <4>5 DEF Holds
        <4> QED
          BY <3>2, <4>6
      <3> QED
        BY <3>3, <3>4
    <2> QED
      BY <2>5, <2>6
  <1>9. CASE AppendFails
    <2>1. PICK kind \in TornKinds :
              /\ file' = WithTear(file, kind)
              /\ hdr' = IF kind = "none" THEN hdr ELSE HeaderAfterWrite
      BY <1>9 DEF AppendFails
    <2>2. disk' = disk /\ floor' = floor /\ safe' = safe
      BY <1>9 DEF AppendFails
    <2>3. CASE kind = "none"
      BY <1>2, <1>4, <2>1, <2>2, <2>3 DEF WithTear
    <2>4. CASE kind # "none"
      <3> DEFINE r == Entry(kind)
      <3>1. file' = Append(file, r) /\ hdr' = HeaderAfterWrite
        BY <2>1, <2>4 DEF WithTear
      <3>2. r \in Records
        BY <1>2, <2>1, <2>4, RecordTypes DEF TornKinds, Kinds
      <3> HIDE DEF r
      <3>3. Len(file') = Len(file) + 1 /\ Len(file) \in Nat
        BY <1>2, <3>1, <3>2, AppendFacts
      <3>4. \A a : Here(a) => Holds(hdr, file', floor, a)
        BY <1>2, <3>1, <3>2, HoldsAppend
      <3>5. \A a : Here(a) => hdr' = hdr
        BY <3>1 DEF HeaderAfterWrite, Holds, Readable, Aligned
      <3>6. floor' <= Len(file')
        BY <1>2, <2>2, <3>3
      <3> QED
        BY <1>4, <2>2, <3>4, <3>5, <3>6
    <2> QED
      BY <2>3, <2>4
  <1>10. CASE TruncateAll
    <2>1. file' = <<>> /\ floor' = 0 /\ safe' = {}
      BY <1>10 DEF TruncateAll
    <2> QED
      BY <2>1
  <1>11. ASSUME NEW keep \in 1..(MaxAttempts + 1), Truncate(keep) \/ TruncateFails(keep)
         PROVE  floor' <= Len(file') /\ ~Synced
    <2>1. floor' = 0 /\ ~Synced
      BY <1>11 DEF Truncate, TruncateFails, Synced
    <2>2. file' \in Seq(Records)
      BY <1>11, TruncateStep, WalAssumption DEF OrderInv, TypeOK
    <2> QED
      BY <2>1, <2>2
  <1>12. CASE PowerLoss
    <2>1. PICK image \in Survivors :
              /\ hdr' = image.hdr /\ file' = image.file /\ disk' = image
              /\ floor' = Len(image.file)
      BY <1>12 DEF PowerLoss
    <2>2. safe' = safe
      BY <1>12 DEF PowerLoss, hist
    <2>3. OrderInv'
      BY <1>12, PowerLossStep
    <2>4. floor' <= Len(file')
      BY <2>1, <2>3 DEF OrderInv, TypeOK
    <2>5. ASSUME NEW a, Here(a), There(a)
          PROVE  Holds(image.hdr, image.file, Len(image.file), a)
      <3>1. CASE image = disk
        BY <2>5, <3>1
      <3>2. CASE disk.hdr = "absent"
        BY <2>5, <3>2 DEF Holds, Readable, Aligned
      <3>3. CASE \A i \in Readable(hdr, file) : i <= floor =>
                    /\ i \in Readable(image.hdr, image.file) /\ image.file[i] = file[i]
                    /\ i <= Len(image.file)
        BY <2>5, <3>3 DEF Holds
      <3> QED
        BY <1>2, <3>1, <3>2, <3>3, SurvivorReads
    <2> QED
      BY <1>4, <2>1, <2>2, <2>4, <2>5
  <1> QED
    BY <1>5, <1>6, <1>7, <1>8, <1>9, <1>10, <1>11, <1>12 DEF Next

\* With fsync_on_append_ and an fsync that works, what append acknowledged over
\* an undamaged file is there for replay after every failed append, kill and
\* power loss, and any number of restarts.
THEOREM AcksAreDurable == Spec => []SafeReadable
  <1>1. Init => SafeInv
    BY DEF Init, SafeInv
  <1>2. OrderInv /\ SafeInv /\ [Next]_vars => SafeInv'
    <2>1. OrderInv /\ SafeInv /\ UNCHANGED vars => SafeInv'
      BY DEF SafeInv, vars, mem, hist, Synced, Holds
    <2> QED
      BY <2>1, SafeStep
  <1>3. OrderInv /\ SafeInv => SafeReadable
    <2> SUFFICES ASSUME OrderInv, SafeInv, Synced, NEW a \in safe PROVE a \in ReadableAcks
      BY DEF SafeReadable
    <2>1. PICK i \in Readable(hdr, file) : file[i].id = a.id /\ file[i].seq = a.seq
      BY DEF SafeInv, Holds
    <2>2. a \in Acks
      BY DEF OrderInv, TypeOK
    <2>3. a = [id |-> file[i].id, seq |-> file[i].seq]
      BY <2>1, <2>2 DEF Acks
    <2> QED
      BY <2>3 DEF ReadableAcks
  <1> QED
    BY <1>1, <1>2, <1>3, OrderInvariant, PTL DEF Spec

-----------------------------------------------------------------------------
(* The log of the interface.                                               *)

\* An order-preserving enumeration leaves nothing out.
LEMMA InOrderOnto ==
    ASSUME NEW f \in Seq(Records), NEW S \in SUBSET DOMAIN f, NEW e \in InOrder(S),
           NEW x \in S
    PROVE  \E i \in DOMAIN e : e[i] = x
  <1> DEFINE n == Cardinality(S)
  <1>1. IsFiniteSet(S) /\ n \in Nat
    BY IndexSetsFinite
  <1>2. e \in [1..n -> S] /\ \A i, j \in 1..n : i < j => e[i] < e[j]
    BY DEF InOrder
  <1>3. IsFiniteSet(S \ {x}) /\ Cardinality(S \ {x}) = n - 1
    BY <1>1, FS_RemoveElement
  <1> HIDE DEF n
  <1>4. IsFiniteSet(1..n) /\ Cardinality(1..n) = n
    BY <1>1, FS_Interval
  <1> SUFFICES ASSUME \A i \in 1..n : e[i] # x PROVE FALSE
    BY <1>2
  <1>5. e \in [1..n -> S \ {x}]
    BY <1>2
  <1> DEFINE D == 1..n
             T == S \ {x}
  <1>6. IsFiniteSet(D) /\ IsFiniteSet(T) /\ Cardinality(T) < Cardinality(D) /\ e \in [D -> T]
    BY <1>1, <1>3, <1>4, <1>5
  <1> HIDE DEF D, T
  <1>7. PICK i, j \in D : i # j /\ e[i] = e[j]
    BY <1>6, FS_PigeonHole
  <1> USE DEF D
  <1>8. \A k \in S : k \in Int
    OBVIOUS
  <1>9. e[i] \in Int /\ e[j] \in Int /\ (e[i] < e[j] \/ e[j] < e[i])
    BY <1>1, <1>2, <1>7, <1>8
  <1> QED
    BY <1>7, <1>9

\* The acknowledgements of all the records of a file.
AcksOf(f) == {[id |-> f[i].id, seq |-> f[i].seq] : i \in DOMAIN f}

\* If nothing is torn, replay returns all there is.
LEMMA AllReadable ==
    ASSUME NEW h, NEW f \in Seq(Records), h = "ok" \/ (h = "absent" /\ f = <<>>),
           \A i \in DOMAIN f : f[i].kind = "ok"
    PROVE  Readable(h, f) = DOMAIN f
  <1>1. CASE h = "ok"
    <2>1. DOMAIN f = 1..Len(f) /\ Len(f) \in Nat
      OBVIOUS
    <2>2. \A i \in DOMAIN f : \A j \in 1..i : j \in DOMAIN f
      BY <2>1
    <2> QED
      BY <1>1, <2>2 DEF Readable, Aligned
  <1>2. CASE f = <<>>
    BY <1>2 DEF Readable
  <1> QED
    BY <1>1, <1>2

\* What a step does to the log when at most an fsync fails.
LEMMA OrderlyStep ==
    ASSUME OrderInv, OrderlyInv, Orderly, Next
    PROVE  /\ OrderlyInv' /\ Orderly'
           /\ \/ live' = live
              \/ \E keep \in Nat : live' = {a \in live : a.seq >= keep}
              \/ live' = {}
              \/ /\ live' = live \cup {[id |-> attempts + 1, seq |-> next_seq]}
                 /\ \A a \in live : a.seq < next_seq /\ a.id <= attempts
  <1>1. env' = env /\ Orderly'
    BY DEF Next, Orderly
  <1>2. OrderInv'
    <2>1. OrderInv /\ Next => OrderInv'
      <3>1. \A keep \in 1..(MaxAttempts + 1) : keep \in Nat
        BY WalAssumption
      <3> QED
        BY <3>1, CreateStep, CreateFailsStep, ReplayCloseStep, AppendOkStep, AppendFailsStep,
           FsyncStep, TruncateStep, TruncateAllStep, PowerLossStep DEF Next
    <2> QED
      BY <2>1
  <1>3. /\ hdr \in {"absent", "ok"} /\ live = AcksOf(file)
        /\ \A i \in DOMAIN file : file[i].kind = "ok" /\ file[i].id <= attempts
    <2>1. Readable(hdr, file) = DOMAIN file
      BY AllReadable DEF OrderInv, TypeOK, OrderlyInv
    <2> QED
      BY <2>1 DEF OrderlyInv, ReadableAcks, AcksOf
  <1>4. env.faults \cap {"write", "kill", "power"} = {}
    BY DEF Orderly
  <1>5. TypeOK /\ file \in Seq(Records) /\ attempts \in Nat /\ next_seq \in Nat
    BY DEF OrderInv, TypeOK
  <1>6. ASSUME /\ hdr' \in {"absent", "ok"} /\ live' = AcksOf(file')
               /\ \A i \in DOMAIN file' : file'[i].kind = "ok" /\ file'[i].id <= attempts'
        PROVE  OrderlyInv'
    <2>1. ReadableAcks' = AcksOf(file')
      <3>1. Readable(hdr', file') = DOMAIN file'
        BY <1>2, <1>6, AllReadable DEF OrderInv, TypeOK
      <3> QED
        BY <3>1 DEF ReadableAcks, AcksOf
    <2> QED
      BY <1>6, <2>1 DEF OrderlyInv
  <1>7. CASE Create
    <2>1. hdr' \in {"absent", "ok"} /\ file' = file /\ live' = live /\ attempts' = attempts
      BY <1>3, <1>7 DEF Create, write_file_header, read_file_header, hist
    <2> QED
      BY <1>1, <1>3, <1>6, <2>1
  <1>8. CASE Close \/ Replay \/ Fsync
    <2>1. hdr' = hdr /\ file' = file /\ live' = live /\ attempts' = attempts
      BY <1>8 DEF Close, Replay, Fsync, hist
    <2> QED
      BY <1>1, <1>3, <1>6, <2>1
  <1>9. CASE AppendOk
    <2> DEFINE r == Entry("ok")
               ack == [id |-> attempts + 1, seq |-> next_seq]
    <2>1. /\ up /\ hdr' = HeaderAfterWrite /\ file' = Append(file, r)
          /\ live' = live \cup {ack} /\ attempts' = attempts + 1
      BY <1>9 DEF AppendOk
    <2>2. hdr = "ok" /\ hdr' = "ok"
      BY <1>3, <2>1 DEF OrderInv, HeaderAfterWrite
    <2>3. r \in Records /\ r.kind = "ok" /\ r.id = attempts + 1 /\ r.seq = next_seq
      BY <1>5, RecordTypes DEF Kinds, Entry
    <2> HIDE DEF r
    <2>4. /\ DOMAIN file' = 1..(Len(file) + 1) /\ DOMAIN file = 1..Len(file)
          /\ \A i \in 1..Len(file) : file'[i] = file[i]
          /\ file'[Len(file) + 1] = r /\ Len(file) \in Nat
      BY <1>5, <2>1, <2>3, AppendFacts
    <2>5. \A i \in DOMAIN file' : file'[i].kind = "ok" /\ file'[i].id <= attempts'
      <3>1. ASSUME NEW i \in DOMAIN file, file[i].id <= attempts
            PROVE  file[i].id <= attempts + 1
        <4>1. file[i] \in Records
          BY <1>5
        <4> QED
          BY <1>5, <3>1, <4>1 DEF Records
      <3>2. \A i \in DOMAIN file' : i \in DOMAIN file \/ i = Len(file) + 1
        BY <2>4
      <3> QED
        BY <1>3, <1>5, <2>1, <2>3, <2>4, <3>1, <3>2
    <2>6. live' = AcksOf(file')
      <3>1. ack = [id |-> r.id, seq |-> r.seq]
        BY <2>3
      <3>2. ASSUME NEW a PROVE a \in AcksOf(file') <=> a \in AcksOf(file) \/ a = ack
        <4>1. ASSUME a \in AcksOf(file') PROVE a \in AcksOf(file) \/ a = ack
          <5>1. PICK i \in DOMAIN file' : a = [id |-> file'[i].id, seq |-> file'[i].seq]
            BY <4>1 DEF AcksOf
          <5> QED
            BY <2>4, <3>1, <5>1 DEF AcksOf
        <4>2. ASSUME a \in AcksOf(file) PROVE a \in AcksOf(file')
          <5>1. PICK i \in DOMAIN file : a = [id |-> file[i].id, seq |-> file[i].seq]
            BY <4>2 DEF AcksOf
          <5>2. i \in DOMAIN file' /\ file'[i] = file[i]
            BY <2>4
          <5> QED
            BY <5>1, <5>2 DEF AcksOf
        <4>3. ack \in AcksOf(file')
          <5>1. Len(file) + 1 \in DOMAIN file'
            BY <2>4
          <5> QED
            BY <2>4, <3>1, <5>1 DEF AcksOf
        <4> QED
          BY <4>1, <4>2, <4>3
      <3> QED
        BY <1>3, <2>1, <3>2
    <2>7. ASSUME NEW a \in live PROVE a.seq < next_seq /\ a.id <= attempts
      <3>1. PICK i \in Readable(hdr, file) : a = [id |-> file[i].id, seq |-> file[i].seq]
        BY DEF OrderlyInv, ReadableAcks
      <3>2. file[i].seq < next_seq /\ i \in DOMAIN file
        BY <2>1 DEF OrderInv, NextSeqAbove, Readable
      <3> QED
        BY <1>3, <3>1, <3>2
    <2> QED
      BY <1>1, <1>6, <2>1, <2>2, <2>5, <2>6, <2>7
  <1>10. CASE TruncateAll
    <2>1. file' = <<>> /\ live' = {} /\ up /\ hdr' = HeaderAfterCut
      BY <1>10 DEF TruncateAll
    <2>2. hdr' = "ok"
      BY <1>3, <2>1 DEF OrderInv, HeaderAfterCut
    <2>3. AcksOf(file') = {} /\ DOMAIN file' = {}
      BY <2>1 DEF AcksOf
    <2> QED
      BY <1>1, <1>6, <2>1, <2>2, <2>3
  <1>11. ASSUME NEW keep \in 1..(MaxAttempts + 1), Truncate(keep)
         PROVE  OrderlyInv' /\ live' = {a \in live : a.seq >= keep}
    <2> DEFINE S == Keep(file, keep)
    <2>1. /\ up /\ hdr' = HeaderAfterCut /\ live' = {a \in live : a.seq >= keep}
          /\ attempts' = attempts
      BY <1>11 DEF Truncate, Dropping
    <2>2. hdr' = "ok"
      BY <1>3, <2>1 DEF OrderInv, HeaderAfterCut
    <2>3. PICK e \in InOrder(S) : file' = [i \in DOMAIN e |-> file[e[i]]]
      BY <1>11 DEF Truncate
    <2>4. S \in SUBSET DOMAIN file /\ \A i \in DOMAIN file : i \in S <=> file[i].seq >= keep
      BY DEF Keep
    <2> HIDE DEF S
    <2>5. \A i \in DOMAIN e : e[i] \in S
      BY DEF InOrder
    <2>6. \A x \in S : \E i \in DOMAIN e : e[i] = x
      BY <1>5, <2>4, InOrderOnto
    <2>7. DOMAIN file' = DOMAIN e /\ \A i \in DOMAIN e : file'[i] = file[e[i]]
      BY <2>3
    <2>8. \A i \in DOMAIN file' : file'[i].kind = "ok" /\ file'[i].id <= attempts'
      BY <1>3, <2>1, <2>4, <2>5, <2>7
    <2>9. ASSUME NEW a PROVE a \in AcksOf(file') <=> a \in AcksOf(file) /\ a.seq >= keep
      <3>1. ASSUME a \in AcksOf(file') PROVE a \in AcksOf(file) /\ a.seq >= keep
        <4>1. PICK i \in DOMAIN file' : a = [id |-> file'[i].id, seq |-> file'[i].seq]
          BY <3>1 DEF AcksOf
        <4>2. file'[i] = file[e[i]] /\ e[i] \in DOMAIN file /\ file[e[i]].seq >= keep
          BY <2>4, <2>5, <2>7, <4>1
        <4> QED
          BY <4>1, <4>2 DEF AcksOf
      <3>2. ASSUME a \in AcksOf(file), a.seq >= keep PROVE a \in AcksOf(file')
        <4>1. PICK k \in DOMAIN file : a = [id |-> file[k].id, seq |-> file[k].seq]
          BY <3>2 DEF AcksOf
        <4>2. k \in S
          BY <2>4, <3>2, <4>1
        <4>3. PICK i \in DOMAIN e : e[i] = k
          BY <2>6, <4>2
        <4>4. i \in DOMAIN file' /\ file'[i] = file[k]
          BY <2>7, <4>3
        <4> QED
          BY <4>1, <4>4 DEF AcksOf
      <3> QED
        BY <3>1, <3>2
    <2>10. live' = AcksOf(file')
      BY <1>3, <2>1, <2>9
    <2> QED
      BY <1>6, <2>1, <2>2, <2>8, <2>10
  <1>12. ~CreateFails /\ ~AppendFails /\ ~PowerLoss /\ \A keep : ~TruncateFails(keep)
    BY <1>4 DEF CreateFails, AppendFails, PowerLoss, TruncateFails
  <1>13. \A keep \in 1..(MaxAttempts + 1) : keep \in Nat
    BY WalAssumption
  <1> QED
    BY <1>1, <1>7, <1>8, <1>9, <1>10, <1>11, <1>12, <1>13 DEF Next

\* As long as writes succeed, nothing is torn and live is what replay returns.
LEMMA OrderlyInvariant == Spec => []OrderlyInv
  <1>1. Init => OrderlyInv
    BY DEF Init, OrderlyInv, ReadableAcks, Readable, Aligned
  <1>2. OrderInv /\ OrderlyInv /\ [Next]_vars => OrderlyInv'
    <2>1. OrderlyInv /\ UNCHANGED vars => OrderlyInv'
      BY DEF OrderlyInv, vars, mem, hist, Orderly, ReadableAcks
    <2>2. OrderInv /\ OrderlyInv /\ Next => OrderlyInv'
      <3>1. CASE Orderly
        BY <3>1, OrderlyStep
      <3>2. CASE ~Orderly
        BY <3>2 DEF Next, Orderly, OrderlyInv
      <3> QED
        BY <3>1, <3>2
    <2> QED
      BY <2>1, <2>2
  <1> QED
    BY <1>1, <1>2, OrderInvariant, PTL DEF Spec

\* Without write errors and crashes replay returns exactly what append
\* acknowledged and no truncate dropped, over any number of restarts and
\* rewrites of the file.
THEOREM ReplayIsExact == Spec => []LiveExact
  <1>1. OrderlyInv => LiveExact
    BY DEF OrderlyInv, LiveExact
  <1> QED
    BY <1>1, OrderlyInvariant, PTL

\* wal.hpp: as long as writes succeed, the Wal implements the log that its
\* interface promises, whatever the limits and however often it is reopened.
THEOREM WalImplementsLog == Spec => ImplementsDurableLog
  <1> DEFINE abs == IF Orderly THEN ReadableAcks ELSE {}
  <1>1. Init => Log!Init
    BY DEF Init, Log!Init, ReadableAcks, Readable, Aligned
  <1>2. OrderInv /\ OrderlyInv /\ OrderlyInv' /\ [Next]_vars => [Log!Next]_abs
    <2> SUFFICES ASSUME OrderInv, OrderlyInv, OrderlyInv', [Next]_vars,
                        abs' # abs
                 PROVE  Log!Next
      OBVIOUS
    <2>1. Next
      BY DEF vars, mem, hist, Orderly, ReadableAcks
    <2>2. Orderly /\ Orderly'
      BY <2>1 DEF Next, Orderly
    <2>3. abs = live /\ abs' = live' /\ live \subseteq Acks
      BY <2>2 DEF OrderlyInv, OrderInv, TypeOK
    <2>4. CASE \E keep \in Nat : live' = {a \in live : a.seq >= keep}
      <3>1. PICK keep \in Nat : live' = {a \in live : a.seq >= keep}
        BY <2>4
      <3>2. abs' \subseteq abs
        BY <2>3, <3>1
      <3>3. ASSUME NEW d \in abs \ abs', NEW a \in abs' PROVE d.seq < a.seq
        <4>1. d \in live /\ d.seq \in Nat /\ ~(d.seq >= keep)
          BY <2>3, <3>1 DEF Acks
        <4>2. a.seq \in Nat /\ a.seq >= keep
          BY <2>3, <3>1 DEF Acks
        <4> QED
          BY <4>1, <4>2
      <3>4. Log!truncate
        BY <3>2, <3>3 DEF Log!truncate
      <3> QED
        BY <3>4 DEF Log!Next
    <2>5. CASE live' = {}
      BY <2>3, <2>5 DEF Log!Next, Log!truncate
    <2>6. CASE /\ live' = live \cup {[id |-> attempts + 1, seq |-> next_seq]}
               /\ \A a \in live : a.seq < next_seq /\ a.id <= attempts
      <3> DEFINE ack == [id |-> attempts + 1, seq |-> next_seq]
      <3>1. ack.seq = next_seq /\ ack.id = attempts + 1 /\ attempts \in Nat
        BY DEF OrderInv, TypeOK
      <3> HIDE DEF ack
      <3>2. \A d \in live : d.seq < ack.seq /\ d.id # ack.id
        BY <2>3, <2>6, <3>1 DEF Acks
      <3>3. live' = live \cup {ack} /\ ack \in live' \ live
        BY <2>6, <3>2 DEF ack
      <3>4. Log!append
        BY <2>3, <3>2, <3>3 DEF Log!append
      <3> QED
        BY <3>4 DEF Log!Next
    <2> QED
      BY <2>1, <2>2, <2>3, <2>4, <2>5, <2>6, OrderlyStep
  <1> QED
    BY <1>1, <1>2, OrderInvariant, OrderlyInvariant, PTL
    DEF Spec, ImplementsDurableLog, Log!Spec
=============================================================================
