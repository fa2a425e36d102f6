----------------------------- MODULE RingBuffer -----------------------------
(***************************************************************************)
(* The single-producer single-consumer byte ring of src/src/core/buffer:   *)
(* RingBuffer<Capacity> (buffer.hpp) and DynamicRingBuffer (buffer.cpp).   *)
(*                                                                         *)
(* A byte of the storage is <<pos, i>>: byte i of the entry that was       *)
(* written at the position pos, the first HeaderBytes of an entry being    *)
(* its length field.  head_ and tail_ are unsigned counters that wrap      *)
(* round at Wrap (2^64 in the code).                                       *)
(* A memcpy is one step; that no other thread touches its bytes meanwhile  *)
(* is the invariant MemorySafe.                                            *)
(***************************************************************************)
EXTENDS Integers, Sequences

CONSTANTS
    Capacity,      \* a power of 2
    HeaderBytes,   \* kEntryHeaderBytes
    Wrap,          \* where head_ and tail_ wrap round
    Lengths,       \* sizes of the spans that are written
    OutSizes       \* sizes of the spans that are read into

ASSUME RingAssumption ==
    /\ Capacity \in Nat \ {0} /\ HeaderBytes \in 1 .. Capacity
    /\ Capacity % HeaderBytes = 0
    /\ Wrap \in Nat /\ Wrap > Capacity /\ Wrap % Capacity = 0
    /\ Lengths \subseteq Nat /\ OutSizes \subseteq Nat

\* The storage, and the bytes that follow it in memory.
Cells == 0 .. Capacity + HeaderBytes - 2
NoByte == <<0, Capacity>>

VARIABLES
    dynamic,      \* a DynamicRingBuffer, not a RingBuffer<Capacity>
    head, tail,   \* head_ and tail_
    storage,      \* storage_
    w,            \* the producer: [pc, len]
    r,            \* the consumer: [pc, len, out]
    pending,      \* history: [pos, len] of the entries published and not yet
                  \* consumed
    ragged        \* history: a span whose length is no multiple of HeaderBytes
                  \* was written to a DynamicRingBuffer

ringVars == <<dynamic, head, tail, storage, w, r, pending, ragged>>

RingInit ==
    /\ dynamic \in BOOLEAN
    /\ head = 0 /\ tail = 0
    /\ storage = [c \in Cells |-> NoByte]
    /\ w = [pc |-> "idle", len |-> 0] /\ r = [pc |-> "idle", len |-> 0, out |-> 0]
    /\ pending = <<>> /\ ragged = FALSE

-----------------------------------------------------------------------------
Plus(pos, n) == (pos + n) % Wrap

\* Bytes from tail_ to pos: h - t in unsigned arithmetic.
Dist(pos) == (pos + Wrap - tail) % Wrap
Used == Dist(head)

\* Mutated form of index: one byte is left out of the ring.
index_Short(pos) == pos % (Capacity - 1)

\* pos & (Capacity - 1)
index(pos) == pos % Capacity

\* Where a run of bytes starting at pos is put: write_at and read_at split it
\* at the end of the storage.
Span(pos, n) == [k \in 0 .. n - 1 |-> index(Plus(pos, k))]

\* Mutated form of HeaderSpan: RingBuffer copies it in one piece, too.
HeaderSpan_OnePiece(pos) == [k \in 0 .. HeaderBytes - 1 |-> index(pos) + k]

\* DynamicRingBuffer copies the length field in one piece.
HeaderSpan(pos) ==
    IF dynamic THEN [k \in 0 .. HeaderBytes - 1 |-> index(pos) + k]
               ELSE Span(pos, HeaderBytes)

DataSpan(pos, n) == Span(Plus(pos, HeaderBytes), n)

\* The storage with bytes from, from + 1, ... of the entry at pos put at the span.
Put(span, pos, from) ==
    [c \in Cells |->
        IF \E k \in DOMAIN span : span[k] = c
        THEN <<pos, from + CHOOSE k \in DOMAIN span : span[k] = c>>
        ELSE storage[c]]

\* The bytes at the span are those of the entry at pos, from on.
Holds(span, pos, from) == \A k \in DOMAIN span : storage[span[k]] = <<pos, from + k>>

-----------------------------------------------------------------------------
(* write().                                                                *)

\* Mutated form of Need: the length field is forgotten.
Need_DataOnly(n) == n

\* need
Need(n) == HeaderBytes + n

TooLarge(n) == n > Capacity - HeaderBytes

\* Entries that follow one of n bytes begin at a multiple of HeaderBytes, if
\* those before did.
Aligned(n) == n % HeaderBytes = 0

\* The producer reads its own head_ and the consumer's tail_.  A span that is
\* too large or does not fit is refused and nothing changes.
WriteBegin(n) ==
    /\ w.pc = "idle"
    /\ ~TooLarge(n) /\ Capacity - Used >= Need(n)
    /\ w' = [pc |-> "header", len |-> n]
    /\ ragged' = (ragged \/ (dynamic /\ ~Aligned(n)))
    /\ UNCHANGED <<head, tail, storage, r, pending>>

WriteHeader ==
    /\ w.pc = "header"
    /\ storage' = Put(HeaderSpan(head), head, 0)
    /\ w' = [w EXCEPT !.pc = "data"]
    /\ UNCHANGED <<head, tail, r, pending, ragged>>

WriteData ==
    /\ w.pc = "data"
    /\ storage' = Put(DataSpan(head, w.len), head, HeaderBytes)
    /\ w' = [w EXCEPT !.pc = "publish"]
    /\ UNCHANGED <<head, tail, r, pending, ragged>>

\* Mutated form of Ready: head_ is published before the data is copied.
Ready_Early == w.pc \in {"data", "publish"}

\* All of the entry is in the storage.
Ready == w.pc = "publish"

\* head_.store(h + need, release)
WritePublish ==
    /\ Ready
    /\ head' = Plus(head, HeaderBytes + w.len)
    /\ pending' = Append(pending, [pos |-> head, len |-> w.len])
    /\ w' = [w EXCEPT !.pc = "idle"]
    /\ UNCHANGED <<tail, storage, r, ragged>>

-----------------------------------------------------------------------------
(* read(); peek_size() is its first half and changes nothing.              *)

\* What the length field at tail_ may be read as: the length of the entry
\* whose field it is, or anything if it is not that of an entry.
LengthsRead ==
    LET there == {i \in DOMAIN pending : Holds(HeaderSpan(tail), pending[i].pos, 0)}
    IN  IF there = {} THEN 0 .. Capacity ELSE {pending[i].len : i \in there}

\* The length is read.  An empty ring, or an entry that does not fit out, is
\* refused and nothing changes.
ReadBegin(out) ==
    /\ r.pc = "idle" /\ head # tail
    /\ \E n \in LengthsRead :
          /\ n <= out
          /\ r' = [pc |-> "data", len |-> n, out |-> out]
    /\ UNCHANGED <<head, tail, storage, w, pending, ragged>>

ReadData ==
    /\ r.pc = "data"
    /\ r' = [r EXCEPT !.pc = "release"]
    /\ UNCHANGED <<head, tail, storage, w, pending, ragged>>

\* tail_.store(t + kEntryHeaderBytes + len, release)
ReleaseTo == Plus(tail, HeaderBytes + r.len)

ReadRelease ==
    /\ r.pc = "release"
    /\ tail' = ReleaseTo
    /\ pending' = Tail(pending)
    /\ r' = [r EXCEPT !.pc = "idle"]
    /\ UNCHANGED <<head, storage, w, ragged>>

RingNext ==
    /\ \/ \E n \in Lengths : WriteBegin(n)
       \/ WriteHeader \/ WriteData \/ WritePublish
       \/ \E out \in OutSizes : ReadBegin(out)
       \/ ReadData \/ ReadRelease
    /\ UNCHANGED dynamic

RingSpec == RingInit /\ [][RingNext]_ringVars

-----------------------------------------------------------------------------
(* Properties.                                                             *)

\* Bytes that the i-th entry that waits takes, and where the next one begins.
Size(i) == HeaderBytes + pending[i].len
Begin(i) == IF i > Len(pending) THEN head ELSE pending[i].pos

\* Every entry that was published lies complete in the storage, its length
\* field and its data, until it has been read; the entries lie one behind the
\* other from tail_ to head_, which are the same only if there is none; and what
\* the consumer copies out is the oldest one, whole: entries come out once
\* each, in the order in which they went in.  For a DynamicRingBuffer only as
\* long as it is not ragged: then see StorageKept.
EntriesInOrder ==
    ~ragged =>
        /\ Begin(1) = tail /\ (head = tail => pending = <<>>)
        /\ \A i \in DOMAIN pending :
              /\ Begin(i + 1) = Plus(Begin(i), Size(i))
              /\ Holds(HeaderSpan(Begin(i)), Begin(i), 0)
              /\ Holds(DataSpan(Begin(i), pending[i].len), Begin(i), HeaderBytes)
        /\ r.pc # "idle" =>
              /\ pending # <<>> /\ r.len = Head(pending).len
              /\ Holds(DataSpan(tail, r.len), tail, HeaderBytes)

SpanCells(span) == {span[k] : k \in DOMAIN span}

\* buffer.hpp, of DynamicRingBuffer: "the interface is equivalent to
\* RingBuffer<Capacity>" (line 166).  No byte behind the storage is written.
\* False of DynamicRingBuffer, which copies a length field in one piece: an
\* entry whose length is no multiple of the length field's lets a later one
\* begin in the last bytes of the storage.
StorageKept == \A c \in Cells : c >= Capacity => storage[c] = NoByte

\* No memcpy of the producer overlaps one of the consumer: the ring is free of
\* data races although neither side takes a lock.  And no byte behind the
\* storage is written: RingBuffer splits the length field of an entry that
\* begins in the last bytes of the storage, and in a DynamicRingBuffer none
\* begins there before it is ragged.
MemorySafe ==
    ~ragged =>
        /\ w.pc \in {"header", "data"} /\ r.pc = "data" =>
              SpanCells(Span(head, HeaderBytes + w.len)) \cap SpanCells(Span(tail, HeaderBytes + r.len)) = {}
        /\ StorageKept
=============================================================================
