-------------------------- MODULE StructureProofs --------------------------
(***************************************************************************)
(* The two data structures.  The byte ring, for every capacity, every      *)
(* header and entry length and wherever the counters wrap round: entries   *)
(* are held whole and read oldest first, and producer and consumer never   *)
(* touch the same byte.  The topology, for transactions of every length:   *)
(* of the items that concern a node or an edge, the last one decides, and  *)
(* has_cycle finds a cycle exactly when one can be reached, in whatever    *)
(* order the hash tables list the nodes.                                   *)
(***************************************************************************)
EXTENDS RingBuffer, TopologyCycle, FiniteSetTheorems, WellFoundedInduction, TLAPS

-----------------------------------------------------------------------------
(* Positions and cells.                                                    *)

Pos == 0 .. Wrap - 1

LEMMA ModUnique ==
    ASSUME NEW a \in Int, NEW m \in Nat \ {0}, NEW q \in Int, NEW s \in 0 .. m - 1,
           a = q * m + s
    PROVE  a % m = s
  OBVIOUS

LEMMA ModParts ==
    ASSUME NEW a \in Int, NEW m \in Nat \ {0}
    PROVE  a % m \in 0 .. m - 1 /\ \E q \in Int : a = q * m + (a % m)
<1>1. a % m \in 0 .. m - 1
  OBVIOUS
<1>2. a = (a \div m) * m + (a % m)
  OBVIOUS
<1>3. a \div m \in Int
  OBVIOUS
<1> QED
  BY <1>1, <1>2, <1>3

LEMMA ModOnce ==
    ASSUME NEW m \in Nat \ {0}, NEW a \in 0 .. 2 * m - 1
    PROVE  a % m = IF a < m THEN a ELSE a - m
  OBVIOUS

\* Adding a multiple of the modulus changes nothing.
LEMMA ModShift ==
    ASSUME NEW a \in Int, NEW m \in Nat \ {0}, NEW c \in Int
    PROVE  (a + c * m) % m = a % m
<1>1. PICK q \in Int : a = q * m + (a % m)
  BY ModParts
<1>2. a % m \in 0 .. m - 1
  BY ModParts
<1> DEFINE s == a % m
<1>3. a + c * m = (q + c) * m + s
  BY <1>1, <1>2
<1>4. q + c \in Int /\ a + c * m \in Int
  OBVIOUS
<1> HIDE DEF s
<1>5. (a + c * m) % m = s
  BY <1>2, <1>3, <1>4, ModUnique DEF s
<1> QED
  BY <1>5 DEF s

LEMMA PlusIs ==
    ASSUME NEW p \in Pos, NEW n \in 0 .. Wrap
    PROVE  /\ Plus(p, n) \in Pos
           /\ Plus(p, n) = IF p + n < Wrap THEN p + n ELSE p + n - Wrap
<1>1. Wrap \in Nat \ {0} /\ p + n \in 0 .. 2 * Wrap - 1
  BY RingAssumption DEF Pos
<1>2. (p + n) % Wrap = IF p + n < Wrap THEN p + n ELSE p + n - Wrap
  <2> DEFINE a == p + n
  <2>1. a \in 0 .. 2 * Wrap - 1
    BY <1>1
  <2> HIDE DEF a
  <2>2. a % Wrap = IF a < Wrap THEN a ELSE a - Wrap
    BY <1>1, <2>1, ModOnce
  <2> QED
    BY <2>2, <1>1 DEF a, Pos
<1> QED
  BY <1>1, <1>2 DEF Plus, Pos

LEMMA PlusPlus ==
    ASSUME NEW p \in Pos, NEW m \in Nat, NEW n \in Nat, m + n <= Wrap
    PROVE  Plus(Plus(p, m), n) = Plus(p, m + n)
<1>1. Wrap \in Nat /\ m \in 0 .. Wrap /\ n \in 0 .. Wrap /\ m + n \in 0 .. Wrap
  BY RingAssumption
<1>2. /\ Plus(p, m) \in Pos
      /\ Plus(p, m) = IF p + m < Wrap THEN p + m ELSE p + m - Wrap
  BY <1>1, PlusIs
<1>3. Plus(p, m + n) = IF p + (m + n) < Wrap THEN p + (m + n) ELSE p + (m + n) - Wrap
  BY <1>1, PlusIs
<1> DEFINE u == Plus(p, m)
<1>4. Plus(u, n) = IF u + n < Wrap THEN u + n ELSE u + n - Wrap
  BY <1>1, <1>2, PlusIs
<1>5. u = IF p + m < Wrap THEN p + m ELSE p + m - Wrap
  BY <1>2
<1>6. u \in Pos
  BY <1>2
<1> HIDE DEF u
<1>7. Plus(u, n) = Plus(p, m + n)
  BY <1>1, <1>3, <1>4, <1>5, <1>6 DEF Pos
<1> QED
  BY <1>7 DEF u

\* Bytes from t to p.
From(t, p) == (p + Wrap - t) % Wrap

LEMMA FromIs ==
    ASSUME NEW t \in Pos, NEW p \in Pos
    PROVE  /\ From(t, p) \in Pos
           /\ From(t, p) = IF p < t THEN p + Wrap - t ELSE p - t
<1>1. Wrap \in Nat \ {0} /\ p + Wrap - t \in 0 .. 2 * Wrap - 1
  BY RingAssumption DEF Pos
<1>2. (p + Wrap - t) % Wrap = IF p + Wrap - t < Wrap THEN p + Wrap - t ELSE p + Wrap - t - Wrap
  <2> DEFINE a == p + Wrap - t
  <2>1. a \in 0 .. 2 * Wrap - 1
    BY <1>1
  <2> HIDE DEF a
  <2>2. a % Wrap = IF a < Wrap THEN a ELSE a - Wrap
    BY <1>1, <2>1, ModOnce
  <2> QED
    BY <2>2, <1>1 DEF a, Pos
<1> QED
  BY <1>1, <1>2 DEF From, Pos

LEMMA FromNat ==
    ASSUME NEW t \in Pos, NEW p \in Pos
    PROVE  From(t, p) \in Nat
<1>1. From(t, p) \in Pos
  BY FromIs
<1>2. Pos \subseteq Nat
  BY RingAssumption DEF Pos
<1> QED
  BY <1>1, <1>2

\* The distance is what was gone, and going it arrives.
LEMMA FromPlus ==
    ASSUME NEW t \in Pos, NEW n \in 0 .. Wrap - 1
    PROVE  From(t, Plus(t, n)) = n
<1>1. /\ Plus(t, n) \in Pos
      /\ Plus(t, n) = IF t + n < Wrap THEN t + n ELSE t + n - Wrap
  BY RingAssumption, PlusIs
<1> DEFINE u == Plus(t, n)
<1>2. From(t, u) = IF u < t THEN u + Wrap - t ELSE u - t
  BY <1>1, FromIs
<1>3. u \in Pos /\ u = IF t + n < Wrap THEN t + n ELSE t + n - Wrap
  BY <1>1
<1> HIDE DEF u
<1>4. From(t, u) = n
  BY <1>2, <1>3, RingAssumption DEF Pos
<1> QED
  BY <1>4 DEF u

LEMMA PlusFrom ==
    ASSUME NEW t \in Pos, NEW p \in Pos
    PROVE  Plus(t, From(t, p)) = p
<1>1. /\ From(t, p) \in Pos
      /\ From(t, p) = IF p < t THEN p + Wrap - t ELSE p - t
  BY FromIs
<1> DEFINE d == From(t, p)
<1>2. d \in Pos /\ d \in 0 .. Wrap /\ d = IF p < t THEN p + Wrap - t ELSE p - t
  BY <1>1, RingAssumption DEF Pos
<1> HIDE DEF d
<1>3. Plus(t, d) = IF t + d < Wrap THEN t + d ELSE t + d - Wrap
  BY <1>2, PlusIs
<1>4. Plus(t, d) = p
  BY <1>2, <1>3, RingAssumption DEF Pos
<1> QED
  BY <1>4 DEF d

LEMMA IndexPlus ==
    ASSUME NEW p \in Pos, NEW k \in 0 .. Wrap
    PROVE  /\ index(Plus(p, k)) = (p + k) % Capacity
           /\ index(Plus(p, k)) \in 0 .. Capacity - 1
<1>1. /\ Plus(p, k) = p + k \/ Plus(p, k) = p + k - Wrap
      /\ p + k \in Int
  BY PlusIs, RingAssumption DEF Pos
<1>2. PICK c \in Int : Wrap = c * Capacity
  <2>1. Wrap \in Int /\ Capacity \in Nat \ {0} /\ Wrap % Capacity = 0
    BY RingAssumption
  <2>2. PICK q \in Int : Wrap = q * Capacity + (Wrap % Capacity)
    BY <2>1, ModParts
  <2>3. Wrap = q * Capacity
    BY <2>1, <2>2
  <2> QED
    BY <2>3
<1>3. (p + k - Wrap) % Capacity = (p + k) % Capacity
  <2>1. p + k - Wrap = (p + k) + (0 - c) * Capacity
    <3>1. (0 - c) * Capacity = 0 - c * Capacity
      BY RingAssumption
    <3> QED
      BY <3>1, <1>1, <1>2, RingAssumption DEF Pos
  <2>2. ((p + k) + (0 - c) * Capacity) % Capacity = (p + k) % Capacity
    BY <1>1, ModShift, RingAssumption, 0 - c \in Int
  <2> QED
    BY <2>1, <2>2
<1>4. index(Plus(p, k)) = (p + k) % Capacity
  BY <1>1, <1>3 DEF index
<1> QED
  BY <1>1, <1>4, ModParts, RingAssumption

\* Bytes less than a capacity away from t have different cells.
LEMMA SameCell ==
    ASSUME NEW t \in Pos, NEW j \in 0 .. Capacity - 1, NEW k \in 0 .. Capacity - 1,
           index(Plus(t, j)) = index(Plus(t, k))
    PROVE  j = k
<1>1. Capacity \in Nat \ {0} /\ j \in 0 .. Wrap /\ k \in 0 .. Wrap /\ t + j \in Int /\ t + k \in Int
  BY RingAssumption DEF Pos
<1>2. (t + j) % Capacity = (t + k) % Capacity
  BY <1>1, IndexPlus
<1>3. PICK a \in Int : t + j = a * Capacity + ((t + j) % Capacity)
  BY <1>1, ModParts
<1>4. PICK b \in Int : t + k = b * Capacity + ((t + k) % Capacity)
  BY <1>1, ModParts
<1>5. (t + j) % Capacity \in Int
  BY <1>1, ModParts
<1> DEFINE s == (t + j) % Capacity
<1>6. t + j = a * Capacity + s /\ t + k = b * Capacity + s /\ s \in Int
  BY <1>2, <1>3, <1>4, <1>5
<1> HIDE DEF s
<1>7. j - k = (a - b) * Capacity
  BY <1>1, <1>6, t \in Int DEF Pos
<1>8. CASE a = b
  BY <1>7, <1>8, <1>1
<1>9. CASE a > b
  <2>1. (a - b) * Capacity >= Capacity
    BY <1>9, <1>1
  <2> QED
    BY <2>1, <1>7, <1>1
<1>10. CASE a < b
  <2>1. (b - a) * Capacity >= Capacity
    BY <1>10, <1>1
  <2>2. k - j = (b - a) * Capacity
    BY <1>7, <1>1
  <2> QED
    BY <2>1, <2>2, <1>1
<1> QED
  BY <1>8, <1>9, <1>10

-----------------------------------------------------------------------------
(* The inductive invariant.                                                *)

\* The first n bytes of the entry at pos are in the storage.
Whole(pos, n) == \A k \in 0 .. n - 1 : storage[index(Plus(pos, k))] = <<pos, k>>

RingType ==
    /\ dynamic \in BOOLEAN /\ head \in Pos /\ tail \in Pos
    /\ storage \in [Cells -> Pos \X Nat]
    /\ w \in [pc : {"idle", "header", "data", "publish"}, len : Nat]
    /\ r \in [pc : {"idle", "data", "release"}, len : Nat, out : Nat]
    /\ pending \in Seq([pos : Pos, len : Nat])

\* The entries lie one behind the other from tail_ to head_,
InLine ==
    /\ Begin(1) = tail /\ (head = tail => pending = <<>>)
    /\ \A i \in DOMAIN pending : From(tail, Begin(i + 1)) = From(tail, Begin(i)) + Size(i)
    /\ \A i \in DOMAIN pending : \A j \in (i + 1) .. (Len(pending) + 1) :
          From(tail, Begin(i)) + Size(i) <= From(tail, Begin(j))

\* with room for the one that is being written,
Room ==
    /\ Used <= Capacity
    /\ w.pc # "idle" => Used + HeaderBytes + w.len <= Capacity

\* each of them whole,
Held == \A i \in DOMAIN pending : Whole(Begin(i), Size(i))

\* and the one that is being written as far as the producer has come.
Written ==
    /\ w.pc = "data" => Whole(head, HeaderBytes)
    /\ w.pc = "publish" => Whole(head, HeaderBytes + w.len)

Copied == r.pc # "idle" => pending # <<>> /\ r.len = pending[1].len

\* No entry of a DynamicRingBuffer begins in the last bytes of the storage, if
\* the lengths of all of them are multiples of HeaderBytes.
InStep ==
    dynamic =>
        /\ \A i \in 1 .. Len(pending) + 1 : Begin(i) % HeaderBytes = 0
        /\ w.pc # "idle" => w.len % HeaderBytes = 0

Fence == \A c \in Cells : c >= Capacity => storage[c] = NoByte

RingInv == RingType /\ InLine /\ Room /\ Held /\ Written /\ Copied /\ InStep /\ Fence

\* All of it holds until a DynamicRingBuffer is ragged, and then none of it need.
RaggedOrKept == ragged \in BOOLEAN /\ (~ragged => RingInv)

-----------------------------------------------------------------------------
(* Alignment.                                                              *)

LEMMA Multiple ==
    ASSUME NEW a \in Int, NEW m \in Nat \ {0}, a % m = 0
    PROVE  \E q \in Int : a = q * m
<1>1. PICK q \in Int : a = q * m + (a % m)
  BY ModParts
<1>2. a = q * m
  BY <1>1
<1> QED
  BY <1>2

LEMMA MultipleMod ==
    ASSUME NEW m \in Nat \ {0}, NEW q \in Int
    PROVE  (q * m) % m = 0
<1>1. q * m \in Int /\ q * m = q * m + 0 /\ 0 \in 0 .. m - 1
  OBVIOUS
<1> QED
  BY <1>1, ModUnique

\* An aligned length field does not reach behind the storage.
LEMMA AlignedHeader ==
    ASSUME NEW p \in Pos, p % HeaderBytes = 0, NEW k \in 0 .. HeaderBytes - 1
    PROVE  index(p) + k = index(Plus(p, k))
<1>1. /\ Capacity \in Nat \ {0} /\ HeaderBytes \in Nat \ {0} /\ p \in Nat
      /\ p \in Int /\ Capacity \in Int
      /\ k \in 0 .. Wrap /\ HeaderBytes <= Capacity
  BY RingAssumption DEF Pos
<1>2. PICK a \in Int : p = a * HeaderBytes
  BY <1>1, Multiple
<1>3. PICK c \in Int : Capacity = c * HeaderBytes
  BY <1>1, Multiple, RingAssumption
<1>4. PICK q \in Int : p = q * Capacity + (p % Capacity)
  BY <1>1, ModParts
<1>5. p % Capacity \in 0 .. Capacity - 1
  BY <1>1, ModParts
<1> DEFINE s == p % Capacity
           m == a - q * c
<1>6. s \in 0 .. Capacity - 1 /\ p = q * Capacity + s /\ m \in Int
  BY <1>4, <1>5
<1> HIDE DEF s
<1>7. s = m * HeaderBytes
  <2>1. q * Capacity = (q * c) * HeaderBytes
    BY <1>3, <1>1
  <2>2. (a - q * c) * HeaderBytes = a * HeaderBytes - (q * c) * HeaderBytes
    BY <1>1
  <2> QED
    BY <2>1, <2>2, <1>2, <1>6, <1>1
<1> HIDE DEF m
<1>8. s <= Capacity - HeaderBytes
  <2>1. m < c
    <3> SUFFICES ASSUME m >= c PROVE FALSE
      BY <1>6
    <3>1. (m - c) * HeaderBytes >= 0
      BY <1>6, <1>1
    <3>2. (m - c) * HeaderBytes = s - Capacity
      BY <1>3, <1>6, <1>7, <1>1
    <3> QED
      BY <3>1, <3>2, <1>6, <1>1
  <2>2. (c - 1 - m) * HeaderBytes >= 0
    BY <2>1, <1>6, <1>1
  <2>3. (c - 1 - m) * HeaderBytes = c * HeaderBytes - HeaderBytes - m * HeaderBytes
    BY <1>6, <1>1
  <2> QED
    BY <2>2, <2>3, <1>3, <1>6, <1>7, <1>1
<1>9. s + k \in 0 .. Capacity - 1 /\ p + k = q * Capacity + (s + k) /\ p + k \in Int
  BY <1>1, <1>6, <1>8
<1>10. (p + k) % Capacity = s + k
  BY <1>1, <1>9, ModUnique
<1>11. index(Plus(p, k)) = (p + k) % Capacity
  BY <1>1, IndexPlus
<1> QED
  BY <1>10, <1>11 DEF s, index

LEMMA AlignedPlus ==
    ASSUME NEW p \in Pos, p % HeaderBytes = 0, NEW n \in 0 .. Wrap, n % HeaderBytes = 0
    PROVE  Plus(p, n) % HeaderBytes = 0
<1>1. /\ HeaderBytes \in Nat \ {0} /\ Capacity \in Nat \ {0} /\ Wrap \in Int
      /\ p \in Int /\ n \in Int /\ Capacity \in Int
  BY RingAssumption DEF Pos
<1>2. PICK a \in Int : p = a * HeaderBytes
  BY <1>1, Multiple
<1>3. PICK b \in Int : n = b * HeaderBytes
  BY <1>1, Multiple
<1>4. PICK c \in Int : Capacity = c * HeaderBytes
  BY <1>1, Multiple, RingAssumption
<1>5. PICK d \in Int : Wrap = d * Capacity
  BY <1>1, Multiple, RingAssumption
<1>6. Wrap = (d * c) * HeaderBytes
  BY <1>4, <1>5, <1>1
<1>7. Plus(p, n) = p + n \/ Plus(p, n) = p + n - Wrap
  BY PlusIs, <1>1
<1>8. p + n = (a + b) * HeaderBytes
  BY <1>2, <1>3, <1>1
<1>9. p + n - Wrap = (a + b - d * c) * HeaderBytes
  BY <1>8, <1>6, <1>1
<1>10. a + b \in Int /\ a + b - d * c \in Int
  BY <1>1
<1> QED
  BY <1>1, <1>7, <1>8, <1>9, <1>10, MultipleMod

\* The same run of bytes in both variants.
LEMMA SameHeaderSpan ==
    ASSUME NEW p \in Pos, dynamic => p % HeaderBytes = 0
    PROVE  HeaderSpan(p) = [k \in 0 .. HeaderBytes - 1 |-> index(Plus(p, k))]
<1>1. CASE dynamic
  <2>1. \A k \in 0 .. HeaderBytes - 1 : index(p) + k = index(Plus(p, k))
    BY <1>1, AlignedHeader
  <2> QED
    BY <2>1, <1>1 DEF HeaderSpan
<1>2. CASE ~dynamic
  BY <1>2 DEF HeaderSpan, Span
<1> QED
  BY <1>1, <1>2

LEMMA SameDataSpan ==
    ASSUME NEW p \in Pos, NEW n \in Nat, HeaderBytes + n <= Capacity
    PROVE  DataSpan(p, n) = [k \in 0 .. n - 1 |-> index(Plus(p, HeaderBytes + k))]
<1>1. \A k \in 0 .. n - 1 : Plus(Plus(p, HeaderBytes), k) = Plus(p, HeaderBytes + k)
  <2> TAKE k \in 0 .. n - 1
  <2>1. k \in Nat /\ HeaderBytes \in Nat /\ HeaderBytes + k <= Wrap
    BY RingAssumption
  <2> QED
    BY <2>1, PlusPlus
<1> QED
  BY <1>1 DEF DataSpan, Span

-----------------------------------------------------------------------------
(* Where the entries are.                                                  *)

\* A byte counted from t instead of from the position it belongs to.
LEMMA CountFrom ==
    ASSUME NEW t \in Pos, NEW p \in Pos, NEW k \in Nat, From(t, p) + k <= Wrap
    PROVE  Plus(p, k) = Plus(t, From(t, p) + k)
<1>1. From(t, p) \in Nat /\ Plus(t, From(t, p)) = p
  BY FromIs, PlusFrom, RingAssumption DEF Pos
<1> DEFINE d == From(t, p)
<1>2. d \in Nat /\ d + k <= Wrap /\ Plus(t, d) = p
  BY <1>1
<1> HIDE DEF d
<1>3. Plus(Plus(t, d), k) = Plus(t, d + k)
  BY <1>2, PlusPlus
<1> QED
  BY <1>2, <1>3 DEF d

\* Bytes of one lap that share a cell are the same byte.
LEMMA OneCell ==
    ASSUME NEW t \in Pos, NEW p \in Pos, NEW q \in Pos, NEW j \in Nat, NEW k \in Nat,
           From(t, p) + j < Capacity, From(t, q) + k < Capacity,
           index(Plus(p, j)) = index(Plus(q, k))
    PROVE  From(t, p) + j = From(t, q) + k
<1>1. /\ From(t, p) \in Nat /\ From(t, q) \in Nat /\ Capacity \in Nat /\ Wrap \in Nat
      /\ Capacity < Wrap
  BY FromIs, RingAssumption DEF Pos
<1> DEFINE a == From(t, p) + j
           b == From(t, q) + k
<1>2. a \in 0 .. Capacity - 1 /\ b \in 0 .. Capacity - 1
  BY <1>1
<1>3. From(t, p) + j <= Wrap /\ From(t, q) + k <= Wrap
  BY <1>1
<1>4. Plus(p, j) = Plus(t, a) /\ Plus(q, k) = Plus(t, b)
  BY <1>3, CountFrom
<1> HIDE DEF a, b
<1>5. a = b
  BY <1>2, <1>4, SameCell
<1> QED
  BY <1>5 DEF a, b

LEMMA Element ==
    ASSUME NEW S, NEW s \in Seq(S), NEW i \in DOMAIN s
    PROVE  s[i] \in S
  OBVIOUS

LEMMA EntryType ==
    ASSUME RingInv
    PROVE  /\ \A i \in DOMAIN pending : Size(i) \in Nat /\ Size(i) >= HeaderBytes /\ pending[i].len \in Nat
           /\ \A i \in 1 .. Len(pending) + 1 : Begin(i) \in Pos
           /\ DOMAIN pending = 1 .. Len(pending) /\ Len(pending) \in Nat
           /\ HeaderBytes \in Nat /\ HeaderBytes >= 1 /\ Capacity \in Nat /\ Wrap \in Nat
           /\ Capacity < Wrap /\ Begin(Len(pending) + 1) = head /\ Used = From(tail, head)
<1>1. /\ HeaderBytes \in Nat /\ HeaderBytes >= 1 /\ Capacity \in Nat /\ Wrap \in Nat
      /\ Capacity < Wrap
  BY RingAssumption
<1>2. pending \in Seq([pos : Pos, len : Nat]) /\ head \in Pos
  BY DEF RingInv, RingType
<1>3. DOMAIN pending = 1 .. Len(pending) /\ Len(pending) \in Nat
  BY <1>2
<1>4. \A i \in DOMAIN pending : pending[i] \in [pos : Pos, len : Nat]
  BY <1>2, Element
<1>5. \A i \in DOMAIN pending : Size(i) \in Nat /\ Size(i) >= HeaderBytes /\ pending[i].len \in Nat
  BY <1>1, <1>4 DEF Size
<1>6. \A i \in 1 .. Len(pending) + 1 : Begin(i) \in Pos
  BY <1>2, <1>3, <1>4 DEF Begin
<1>7. Begin(Len(pending) + 1) = head
  BY <1>3 DEF Begin
<1>8. Used = From(tail, head)
  BY DEF Used, Dist, From
<1> QED
  BY <1>1, <1>3, <1>5, <1>6, <1>7, <1>8

\* An entry that waits ends before head_, and within the capacity.
LEMMA EntryPlace ==
    ASSUME RingInv, NEW i \in DOMAIN pending
    PROVE  /\ Begin(i) \in Pos /\ From(tail, Begin(i)) \in Nat /\ Used \in Nat
           /\ From(tail, Begin(i)) + Size(i) <= Used /\ Used <= Capacity
           /\ Begin(i) = pending[i].pos
<1>1. i \in 1 .. Len(pending) + 1 /\ Len(pending) + 1 \in (i + 1) .. (Len(pending) + 1)
  BY EntryType
<1>2. From(tail, Begin(i)) + Size(i) <= From(tail, Begin(Len(pending) + 1))
  BY <1>1 DEF RingInv, InLine
<1>3. tail \in Pos /\ head \in Pos /\ Begin(i) \in Pos
  BY <1>1, EntryType DEF RingInv, RingType
<1>4. From(tail, Begin(i)) \in Nat /\ From(tail, head) \in Nat
  BY <1>3, FromNat
<1>5. Begin(i) = pending[i].pos
  BY <1>1, EntryType DEF Begin
<1> QED
  BY <1>2, <1>3, <1>4, <1>5, EntryType DEF RingInv, Room

-----------------------------------------------------------------------------
(* A memcpy of the producer.                                               *)

Run(off, n) == [k \in 0 .. n - 1 |-> index(Plus(head, off + k))]

LEMMA PutRun ==
    ASSUME head \in Pos, NEW off \in Nat, NEW n \in Nat, off + n <= Capacity
    PROVE  /\ \A k \in 0 .. n - 1 :
                 Put(Run(off, n), head, off)[index(Plus(head, off + k))] = <<head, off + k>>
           /\ \A c \in Cells :
                 (\A k \in 0 .. n - 1 : index(Plus(head, off + k)) # c) =>
                     Put(Run(off, n), head, off)[c] = storage[c]
           /\ \A c \in Cells : c >= Capacity => Put(Run(off, n), head, off)[c] = storage[c]
           /\ storage \in [Cells -> Pos \X Nat] => Put(Run(off, n), head, off) \in [Cells -> Pos \X Nat]
<1> DEFINE S == Run(off, n)
<1>1. DOMAIN S = 0 .. n - 1 /\ \A k \in 0 .. n - 1 : S[k] = index(Plus(head, off + k))
  BY DEF Run
<1>2. \A k \in 0 .. n - 1 : off + k \in 0 .. Capacity - 1 /\ off + k \in 0 .. Wrap
  BY RingAssumption
<1>3. \A k \in 0 .. n - 1 : S[k] \in 0 .. Capacity - 1
  BY <1>1, <1>2, IndexPlus
<1>4. 0 .. Capacity - 1 \subseteq Cells
  BY RingAssumption DEF Cells
<1>5. \A j, k \in 0 .. n - 1 : S[j] = S[k] => j = k
  <2> SUFFICES ASSUME NEW j \in 0 .. n - 1, NEW k \in 0 .. n - 1, S[j] = S[k] PROVE j = k
    OBVIOUS
  <2>1. index(Plus(head, off + j)) = index(Plus(head, off + k))
    BY <1>1
  <2>2. off + j = off + k
    BY <1>2, <2>1, SameCell
  <2> QED
    BY <2>2
<1> HIDE DEF S
<1>6. \A k \in 0 .. n - 1 : (CHOOSE j \in DOMAIN S : S[j] = S[k]) = k
  BY <1>1, <1>5
<1>7. \A k \in 0 .. n - 1 : Put(S, head, off)[S[k]] = <<head, off + k>>
  BY <1>1, <1>3, <1>4, <1>6 DEF Put
<1>8. \A c \in Cells : (\A k \in 0 .. n - 1 : S[k] # c) => Put(S, head, off)[c] = storage[c]
  BY <1>1 DEF Put
<1>9. \A c \in Cells : c >= Capacity => Put(S, head, off)[c] = storage[c]
  <2> SUFFICES ASSUME NEW c \in Cells, c >= Capacity PROVE \A k \in 0 .. n - 1 : S[k] # c
    BY <1>8
  <2> QED
    BY <1>3, RingAssumption
<1>10. ASSUME storage \in [Cells -> Pos \X Nat]
       PROVE  Put(S, head, off) \in [Cells -> Pos \X Nat]
  <2>1. ASSUME NEW c \in Cells PROVE Put(S, head, off)[c] \in Pos \X Nat
    <3>1. CASE \E k \in 0 .. n - 1 : S[k] = c
      <4>1. PICK k \in 0 .. n - 1 : S[k] = c
        BY <3>1
      <4>2. Put(S, head, off)[c] = <<head, off + k>>
        BY <4>1, <1>7
      <4>3. off + k \in Nat
        OBVIOUS
      <4> QED
        BY <4>2, <4>3
    <3>2. CASE \A k \in 0 .. n - 1 : S[k] # c
      BY <3>2, <1>8, <1>10
    <3> QED
      BY <3>1, <3>2
  <2> QED
    BY <2>1 DEF Put
<1> QED
  BY <1>1, <1>7, <1>8, <1>9, <1>10 DEF S

\* It leaves every entry that waits alone, and what it wrote before.
LEMMA WriteStep ==
    ASSUME RingInv, w.pc # "idle", NEW off \in Nat, NEW n \in Nat,
           off + n <= HeaderBytes + w.len,
           storage' = Put(Run(off, n), head, off),
           UNCHANGED <<dynamic, head, tail, r, pending>>
    PROVE  /\ Held' /\ Fence' /\ storage' \in [Cells -> Pos \X Nat]
           /\ \A k \in 0 .. n - 1 : storage'[index(Plus(head, off + k))] = <<head, off + k>>
           /\ \A k \in 0 .. off - 1 :
                 storage'[index(Plus(head, k))] = storage[index(Plus(head, k))]
<1> DEFINE new == storage'
<1>1. head \in Pos /\ tail \in Pos /\ w.len \in Nat /\ storage \in [Cells -> Pos \X Nat]
  BY DEF RingInv, RingType
<1>2. From(tail, head) + HeaderBytes + w.len <= Capacity /\ From(tail, head) \in Nat
  BY <1>1, EntryType, FromIs, RingAssumption DEF RingInv, Room, Pos
<1>3. off + n <= Capacity
  BY <1>1, <1>2, RingAssumption
<1>4. /\ \A k \in 0 .. n - 1 : new[index(Plus(head, off + k))] = <<head, off + k>>
      /\ \A c \in Cells :
            (\A k \in 0 .. n - 1 : index(Plus(head, off + k)) # c) => new[c] = storage[c]
      /\ \A c \in Cells : c >= Capacity => new[c] = storage[c]
      /\ new \in [Cells -> Pos \X Nat]
  BY <1>1, <1>3, PutRun
<1> HIDE DEF new
<1>5. ASSUME NEW p \in Pos, NEW j \in Nat, From(tail, p) + j < From(tail, head) + off
      PROVE  new[index(Plus(p, j))] = storage[index(Plus(p, j))]
  <2>1. From(tail, p) \in Nat /\ Capacity \in Nat /\ Wrap \in Nat /\ Capacity < Wrap /\ HeaderBytes \in Nat
    BY <1>1, FromNat, RingAssumption
  <2>2. From(tail, p) + j < Capacity /\ j \in 0 .. Wrap
    BY <2>1, <1>1, <1>2, <1>5
  <2>3. index(Plus(p, j)) \in Cells
    BY <2>2, IndexPlus, RingAssumption DEF Cells
  <2>4. ASSUME NEW k \in 0 .. n - 1, index(Plus(head, off + k)) = index(Plus(p, j))
        PROVE  FALSE
    <3>1. off + k \in Nat /\ From(tail, head) + (off + k) < Capacity
      BY <1>1, <1>2, <2>1
    <3>2. From(tail, head) + (off + k) = From(tail, p) + j
      BY <1>1, <2>2, <2>4, <3>1, OneCell
    <3> QED
      BY <3>2, <1>5, <1>2, <2>1
  <2> QED
    BY <1>4, <2>3, <2>4
<1>6. ASSUME NEW i \in DOMAIN pending, NEW k \in 0 .. Size(i) - 1
      PROVE  new[index(Plus(Begin(i), k))] = <<Begin(i), k>>
  <2>1. storage[index(Plus(Begin(i), k))] = <<Begin(i), k>>
    BY DEF RingInv, Held, Whole
  <2>2. /\ Begin(i) \in Pos /\ k \in Nat
        /\ From(tail, Begin(i)) + k < From(tail, head) + off
    <3>1. /\ Begin(i) \in Pos /\ From(tail, Begin(i)) \in Nat
          /\ From(tail, Begin(i)) + Size(i) <= Used
      BY EntryPlace
    <3>2. Size(i) \in Nat /\ Used = From(tail, head)
      BY EntryType
    <3> QED
      BY <3>1, <3>2, <1>2
  <2> QED
    BY <1>5, <2>1, <2>2
<1>7. Held'
  <2>1. \A i \in DOMAIN pending : Begin(i)' = Begin(i) /\ Size(i)' = Size(i)
    BY DEF Begin, Size
  <2> SUFFICES ASSUME NEW i \in DOMAIN pending, NEW k \in 0 .. Size(i) - 1
               PROVE  new[index(Plus(Begin(i), k))] = <<Begin(i), k>>
    BY <2>1 DEF Held, Whole, new, index, Plus
  <2> QED
    BY <1>6
<1>8. Fence'
  BY <1>4 DEF RingInv, Fence, new
<1>9. ASSUME NEW k \in 0 .. off - 1
      PROVE  new[index(Plus(head, k))] = storage[index(Plus(head, k))]
  BY <1>1, <1>2, <1>5
<1> QED
  BY <1>4, <1>7, <1>8, <1>9 DEF new

-----------------------------------------------------------------------------
(* The steps.                                                              *)

LEMMA RingInitially ==
    ASSUME RingInit PROVE RingInv
<1>1. Capacity \in Nat \ {0} /\ HeaderBytes \in Nat \ {0} /\ Wrap \in Nat /\ Wrap > Capacity
  BY RingAssumption
<1>2. 0 \in Pos
  BY <1>1 DEF Pos
<1>3. NoByte \in Pos \X Nat
  BY <1>1, <1>2 DEF NoByte
<1>4. RingType
  BY <1>1, <1>2, <1>3 DEF RingInit, RingType
<1>5. Len(pending) = 0 /\ DOMAIN pending = {} /\ Begin(1) = head /\ head = 0 /\ tail = 0
  BY DEF RingInit, Begin
<1>6. InLine
  BY <1>5 DEF InLine, RingInit
<1>7. Used = 0
  BY <1>2, <1>5, FromIs DEF Used, Dist, From
<1>8. Room
  BY <1>7, <1>1 DEF Room, RingInit
<1>9. Held
  BY <1>5 DEF Held
<1>10. Written /\ Copied
  BY DEF Written, Copied, RingInit
<1>11. InStep
  <2>1. 0 % HeaderBytes = 0
    BY <1>1
  <2>2. \A i \in 1 .. Len(pending) + 1 : Begin(i) = 0
    BY <1>5
  <2> QED
    BY <2>1, <2>2 DEF InStep, RingInit
<1>12. Fence
  BY DEF Fence, RingInit
<1> QED
  BY <1>4, <1>6, <1>8, <1>9, <1>10, <1>11, <1>12 DEF RingInv

LEMMA WriteBeginStep ==
    ASSUME RingInv, NEW n \in Lengths, WriteBegin(n), UNCHANGED dynamic, ~ragged'
    PROVE  RingInv'
<1>1. n \in Nat /\ HeaderBytes \in Nat /\ Capacity \in Nat
  BY RingAssumption
<1>2. UNCHANGED <<dynamic, head, tail, storage, r, pending>> /\ w' = [pc |-> "header", len |-> n]
  BY DEF WriteBegin
<1>3. RingType'
  BY <1>1, <1>2 DEF RingInv, RingType
<1>4. InLine' /\ Held'
  <2>1. InLine'
    BY <1>2 DEF RingInv, InLine, Begin, Size, From
  <2>2. Held'
    BY <1>2 DEF RingInv, Held, Whole, Begin, Size, index, Plus
  <2> QED
    BY <2>1, <2>2
<1>5. Room'
  <2>1. Used \in Nat
    BY FromNat, EntryType DEF RingInv, RingType
  <2>2. Used' = Used
    BY <1>2 DEF Used, Dist
  <2>3. Used + HeaderBytes + n <= Capacity
    BY <2>1, <1>1 DEF WriteBegin, Need
  <2>4. w'.len = n
    BY <1>2
  <2> QED
    BY <1>1, <2>1, <2>2, <2>3, <2>4 DEF RingInv, Room
<1>6. Written' /\ Copied'
  BY <1>2 DEF RingInv, Written, Copied
<1>7. InStep'
  <2>1. dynamic => n % HeaderBytes = 0
    BY DEF WriteBegin, Aligned
  <2>2. w'.len = n
    BY <1>2
  <2> QED
    BY <1>2, <2>1, <2>2 DEF RingInv, InStep, Begin
<1>8. Fence'
  BY <1>2 DEF RingInv, Fence
<1> QED
  BY <1>3, <1>4, <1>5, <1>6, <1>7, <1>8 DEF RingInv

\* What the two steps that copy have in common.
LEMMA CopyStep ==
    ASSUME RingInv, w.pc # "idle", w'.pc # "idle", w'.len = w.len,
           w' \in [pc : {"idle", "header", "data", "publish"}, len : Nat],
           Held', Fence', storage' \in [Cells -> Pos \X Nat], Written',
           UNCHANGED <<dynamic, head, tail, r, pending>>
    PROVE  RingInv'
<1>1. RingType'
  BY DEF RingInv, RingType
<1>2. InLine'
  BY DEF RingInv, InLine, Begin, Size, From
<1>3. Room'
  BY DEF RingInv, Room, Used, Dist
<1>4. Copied'
  BY DEF RingInv, Copied
<1>5. InStep'
  BY DEF RingInv, InStep, Begin
<1> QED
  BY <1>1, <1>2, <1>3, <1>4, <1>5 DEF RingInv

LEMMA HeadAligned ==
    ASSUME RingInv, dynamic
    PROVE  head % HeaderBytes = 0
<1>1. Begin(Len(pending) + 1) = head /\ Len(pending) + 1 \in 1 .. Len(pending) + 1
  BY EntryType
<1>2. Begin(Len(pending) + 1) % HeaderBytes = 0
  BY <1>1 DEF RingInv, InStep
<1> QED
  BY <1>1, <1>2

LEMMA WriteHeaderStep ==
    ASSUME RingInv, WriteHeader, UNCHANGED dynamic
    PROVE  RingInv'
<1>1. /\ w.pc = "header" /\ w' = [w EXCEPT !.pc = "data"]
      /\ UNCHANGED <<dynamic, head, tail, r, pending>>
  BY DEF WriteHeader
<1>2. w.len \in Nat /\ head \in Pos /\ w \in [pc : {"idle", "header", "data", "publish"}, len : Nat]
  BY DEF RingInv, RingType
<1>3. /\ w'.pc = "data" /\ w'.len = w.len
      /\ w' \in [pc : {"idle", "header", "data", "publish"}, len : Nat]
  BY <1>1, <1>2
<1>4. HeaderSpan(head) = Run(0, HeaderBytes)
  <2>1. HeaderSpan(head) = [k \in 0 .. HeaderBytes - 1 |-> index(Plus(head, k))]
    BY <1>2, HeadAligned, SameHeaderSpan
  <2>2. \A k \in 0 .. HeaderBytes - 1 : 0 + k = k
    BY RingAssumption
  <2> QED
    BY <2>1, <2>2 DEF Run
<1>5. storage' = Put(Run(0, HeaderBytes), head, 0)
  BY <1>4 DEF WriteHeader
<1>6. 0 \in Nat /\ HeaderBytes \in Nat /\ 0 + HeaderBytes <= HeaderBytes + w.len
  BY <1>2, RingAssumption
<1>7. /\ Held' /\ Fence' /\ storage' \in [Cells -> Pos \X Nat]
      /\ \A k \in 0 .. HeaderBytes - 1 : storage'[index(Plus(head, 0 + k))] = <<head, 0 + k>>
  BY <1>1, <1>5, <1>6, WriteStep
<1>8. \A k \in 0 .. HeaderBytes - 1 : storage'[index(Plus(head, k))] = <<head, k>>
  <2>1. \A k \in 0 .. HeaderBytes - 1 : 0 + k = k
    BY RingAssumption
  <2> QED
    BY <1>7, <2>1
<1>9. Written'
  BY <1>1, <1>3, <1>8 DEF Written, Whole, index, Plus
<1> QED
  BY <1>1, <1>3, <1>7, <1>9, CopyStep

LEMMA WriteDataStep ==
    ASSUME RingInv, WriteData, UNCHANGED dynamic
    PROVE  RingInv'
<1>1. /\ w.pc = "data" /\ w' = [w EXCEPT !.pc = "publish"]
      /\ UNCHANGED <<dynamic, head, tail, r, pending>>
  BY DEF WriteData
<1>2. /\ w.len \in Nat /\ head \in Pos /\ tail \in Pos
      /\ w \in [pc : {"idle", "header", "data", "publish"}, len : Nat]
  BY DEF RingInv, RingType
<1>3. /\ w'.pc = "publish" /\ w'.len = w.len
      /\ w' \in [pc : {"idle", "header", "data", "publish"}, len : Nat]
  BY <1>1, <1>2
<1>4. HeaderBytes + w.len <= Capacity /\ HeaderBytes \in Nat
  <2>1. Used \in Nat
    BY <1>2, FromNat, EntryType
  <2> QED
    BY <1>1, <1>2, <2>1, RingAssumption DEF RingInv, Room
<1>5. storage' = Put(Run(HeaderBytes, w.len), head, HeaderBytes)
  <2>1. DataSpan(head, w.len) = Run(HeaderBytes, w.len)
    BY <1>2, <1>4, SameDataSpan DEF Run
  <2> QED
    BY <2>1 DEF WriteData
<1>6. HeaderBytes + w.len <= HeaderBytes + w.len
  BY <1>2, <1>4
<1>7. /\ Held' /\ Fence' /\ storage' \in [Cells -> Pos \X Nat]
      /\ \A k \in 0 .. w.len - 1 :
            storage'[index(Plus(head, HeaderBytes + k))] = <<head, HeaderBytes + k>>
      /\ \A k \in 0 .. HeaderBytes - 1 :
            storage'[index(Plus(head, k))] = storage[index(Plus(head, k))]
  BY <1>1, <1>2, <1>4, <1>5, <1>6, WriteStep
<1>8. ASSUME NEW k \in 0 .. HeaderBytes + w.len - 1
      PROVE  storage'[index(Plus(head, k))] = <<head, k>>
  <2>1. CASE k \in 0 .. HeaderBytes - 1
    BY <2>1, <1>1, <1>7 DEF RingInv, Written, Whole
  <2>2. CASE k \notin 0 .. HeaderBytes - 1
    <3>1. k - HeaderBytes \in 0 .. w.len - 1 /\ HeaderBytes + (k - HeaderBytes) = k
      BY <2>2, <1>2, <1>4
    <3> QED
      BY <3>1, <1>7
  <2> QED
    BY <2>1, <2>2
<1>9. Written'
  <2>1. \A k \in 0 .. HeaderBytes + w'.len - 1 : storage'[index(Plus(head', k))] = <<head', k>>
    BY <1>1, <1>3, <1>8
  <2>2. Whole(head, HeaderBytes + w.len)'
    BY <2>1, <1>1, <1>2, <1>3, <1>4, RingAssumption DEF Whole, index, Plus
  <2> QED
    BY <2>2, <1>3 DEF Written
<1> QED
  BY <1>1, <1>3, <1>7, <1>9, CopyStep

LEMMA WritePublishStep ==
    ASSUME RingInv, WritePublish, UNCHANGED dynamic
    PROVE  RingInv'
<1>0. PICK L, n : L = Len(pending) /\ n = HeaderBytes + w.len
  OBVIOUS
<1>1. /\ w.pc = "publish" /\ w' = [w EXCEPT !.pc = "idle"] /\ head' = Plus(head, n)
      /\ pending' = Append(pending, [pos |-> head, len |-> w.len])
      /\ UNCHANGED <<dynamic, tail, storage, r>>
  BY <1>0 DEF WritePublish, Ready
<1>2. /\ head \in Pos /\ tail \in Pos /\ w.len \in Nat
      /\ w \in [pc : {"idle", "header", "data", "publish"}, len : Nat]
      /\ pending \in Seq([pos : Pos, len : Nat]) /\ [pos |-> head, len |-> w.len] \in [pos : Pos, len : Nat]
  BY DEF RingInv, RingType
<1>3. /\ HeaderBytes \in Nat /\ HeaderBytes >= 1 /\ Capacity \in Nat /\ Wrap \in Nat /\ Capacity < Wrap
      /\ L \in Nat /\ DOMAIN pending = 1 .. L
  BY <1>0, EntryType
<1>4. n \in Nat /\ n >= 1
  BY <1>0, <1>2, <1>3
<1>5. From(tail, head) \in Nat /\ From(tail, head) + n <= Capacity
  BY <1>0, <1>1, <1>2, <1>3, FromNat, EntryType DEF RingInv, Room
<1>6. head' \in Pos
  BY <1>1, <1>2, <1>3, <1>4, <1>5, PlusIs
<1>7. From(tail, head') = From(tail, head) + n
  <2> DEFINE d == From(tail, head) + n
  <2>1. d \in 0 .. Wrap - 1 /\ From(tail, head) + n <= Wrap
    BY <1>3, <1>4, <1>5
  <2>2. Plus(head, n) = Plus(tail, d)
    BY <1>2, <1>4, <2>1, CountFrom
  <2> HIDE DEF d
  <2>3. From(tail, Plus(tail, d)) = d
    BY <1>2, <2>1, FromPlus
  <2> QED
    BY <1>1, <2>2, <2>3 DEF d
<1>8. /\ pending' \in Seq([pos : Pos, len : Nat]) /\ Len(pending') = L + 1
      /\ DOMAIN pending' = 1 .. L + 1
      /\ \A i \in 1 .. L : pending'[i] = pending[i]
      /\ pending'[L + 1] = [pos |-> head, len |-> w.len]
  BY <1>0, <1>1, <1>2, <1>3
<1>9. /\ \A i \in 1 .. L + 1 : Begin(i)' = Begin(i)
      /\ Begin(L + 2)' = head'
      /\ \A i \in 1 .. L : Size(i)' = Size(i)
      /\ Size(L + 1)' = n
  <2>1. \A i \in 1 .. L : Begin(i)' = Begin(i) /\ Size(i)' = Size(i)
    BY <1>0, <1>3, <1>8 DEF Begin, Size
  <2>2. Begin(L + 1) = head /\ Begin(L + 1)' = head
    BY <1>0, <1>3, <1>8 DEF Begin
  <2>3. Begin(L + 2)' = head' /\ Size(L + 1)' = n
    BY <1>0, <1>3, <1>8 DEF Begin, Size
  <2> QED
    BY <2>1, <2>2, <2>3, <1>3
<1>10. Begin(L + 1) = head /\ \A i \in 1 .. L : Size(i) \in Nat
  BY <1>0, EntryType
<1>11. RingType'
  <2>1. w' \in [pc : {"idle", "header", "data", "publish"}, len : Nat]
    BY <1>1, <1>2
  <2> QED
    BY <1>1, <1>6, <1>8, <2>1 DEF RingInv, RingType
<1>12. /\ \A i \in 1 .. L : From(tail, Begin(i + 1)) = From(tail, Begin(i)) + Size(i)
       /\ \A i \in 1 .. L : \A j \in (i + 1) .. (L + 1) :
             From(tail, Begin(i)) + Size(i) <= From(tail, Begin(j))
       /\ \A i \in 1 .. L + 1 : From(tail, Begin(i)) \in Nat
  <2>1. \A i \in 1 .. L + 1 : From(tail, Begin(i)) \in Nat
    BY <1>0, <1>2, FromNat, EntryType
  <2> QED
    BY <1>0, <2>1, <1>3 DEF RingInv, InLine
<1>13. InLine'
  <2>1. Begin(1)' = tail' /\ (head' = tail' => pending' = <<>>)
    <3>1. Begin(1)' = tail'
      BY <1>1, <1>3, <1>9 DEF RingInv, InLine
    <3>2. From(tail, tail) = 0
      BY <1>2, <1>3, FromIs DEF Pos
    <3>3. head' # tail
      BY <3>2, <1>4, <1>5, <1>7
    <3> QED
      BY <3>1, <3>3, <1>1
  <2>2. ASSUME NEW i \in 1 .. L + 1
        PROVE  From(tail, Begin(i + 1)') = From(tail, Begin(i)') + Size(i)'
    <3>1. CASE i \in 1 .. L
      <4>1. i + 1 \in 1 .. L + 1
        BY <3>1, <1>3
      <4> QED
        BY <3>1, <4>1, <1>9, <1>12
    <3>2. CASE i = L + 1
      <4>1. i + 1 = L + 2 /\ i \in 1 .. L + 1
        BY <3>2, <1>3
      <4> QED
        BY <3>2, <4>1, <1>7, <1>9, <1>10
    <3> QED
      BY <3>1, <3>2, <1>3
  <2>3. ASSUME NEW i \in 1 .. L + 1, NEW j \in (i + 1) .. (L + 2)
        PROVE  From(tail, Begin(i)') + Size(i)' <= From(tail, Begin(j)')
    <3>1. CASE i \in 1 .. L /\ j \in (i + 1) .. (L + 1)
      <4>1. j \in 1 .. L + 1
        BY <3>1, <1>3
      <4> QED
        BY <3>1, <4>1, <1>9, <1>12
    <3>2. CASE i \in 1 .. L /\ j = L + 2
      <4>1. L + 1 \in (i + 1) .. (L + 1)
        BY <3>2, <1>3
      <4>2. From(tail, Begin(i)) + Size(i) <= From(tail, head)
        BY <3>2, <4>1, <1>10, <1>12
      <4>3. From(tail, Begin(i)) \in Nat /\ Size(i) \in Nat
        BY <3>2, <1>10, <1>12
      <4>4. From(tail, Begin(i)) + Size(i) <= From(tail, head')
        BY <4>2, <4>3, <1>4, <1>5, <1>7
      <4> QED
        BY <3>2, <4>4, <1>9
    <3>3. CASE i = L + 1
      <4>1. j = L + 2
        BY <3>3, <1>3
      <4>2. From(tail, Begin(i)') + Size(i)' = From(tail, head) + n
        BY <3>3, <1>9, <1>10
      <4> QED
        BY <4>1, <4>2, <1>4, <1>5, <1>7, <1>9
    <3> QED
      BY <3>1, <3>2, <3>3, <1>3
  <2>4. Len(pending') + 1 = L + 2
    BY <1>3, <1>8
  <2> QED
    BY <2>1, <2>2, <2>3, <2>4, <1>1, <1>8 DEF InLine, From
<1>14. Room'
  <2>1. Used' = From(tail, head')
    BY <1>1 DEF Used, Dist, From
  <2>2. w'.pc = "idle"
    BY <1>1, <1>2
  <2> QED
    BY <2>1, <2>2, <1>5, <1>7 DEF Room
<1>15. Held'
  <2>1. ASSUME NEW i \in 1 .. L + 1
        PROVE  \A k \in 0 .. Size(i)' - 1 : storage[index(Plus(Begin(i)', k))] = <<Begin(i)', k>>
    <3>1. CASE i \in 1 .. L
      BY <3>1, <1>3, <1>9 DEF RingInv, Held, Whole
    <3>2. CASE i = L + 1
      <4>1. Whole(head, n)
        BY <1>0, <1>1 DEF RingInv, Written
      <4> QED
        BY <3>2, <4>1, <1>9, <1>10 DEF Whole
    <3> QED
      BY <3>1, <3>2, <1>3
  <2> QED
    BY <2>1, <1>1, <1>8 DEF Held, Whole, index, Plus
<1>16. Written'
  <2>1. w'.pc = "idle"
    BY <1>1, <1>2
  <2> QED
    BY <2>1 DEF Written
<1>17. Copied'
  <2>1. ASSUME r.pc # "idle" PROVE pending' # <<>> /\ r.len = pending'[1].len
    <3>1. pending # <<>> /\ r.len = pending[1].len
      BY <2>1 DEF RingInv, Copied
    <3>2. 1 \in 1 .. L
      BY <1>0, <3>1, <1>2, <1>3
    <3> QED
      BY <3>1, <3>2, <1>3, <1>8
  <2> QED
    BY <2>1, <1>1 DEF Copied
<1>18. InStep'
  <2> SUFFICES ASSUME dynamic
               PROVE  \A i \in 1 .. L + 2 : Begin(i)' % HeaderBytes = 0
    <3>1. w'.pc = "idle" /\ Len(pending') + 1 = L + 2
      BY <1>1, <1>2, <1>3, <1>8
    <3> QED
      BY <3>1, <1>1 DEF InStep
  <2>1. head' % HeaderBytes = 0
    <3>1. head % HeaderBytes = 0
      BY HeadAligned
    <3>2. n % HeaderBytes = 0
      <4>1. w.len % HeaderBytes = 0
        BY <1>1 DEF RingInv, InStep
      <4>2. n = w.len + 1 * HeaderBytes
        BY <1>0, <1>2, <1>3
      <4>3. HeaderBytes \in Nat \ {0} /\ w.len \in Int /\ 1 \in Int
        BY <1>2, <1>3
      <4>4. (w.len + 1 * HeaderBytes) % HeaderBytes = w.len % HeaderBytes
        BY <4>3, ModShift
      <4> QED
        BY <4>1, <4>2, <4>4
    <3>3. n \in 0 .. Wrap
      BY <1>3, <1>4, <1>5
    <3> QED
      BY <3>1, <3>2, <3>3, <1>1, <1>2, AlignedPlus
  <2>2. \A i \in 1 .. L + 1 : Begin(i)' % HeaderBytes = 0
    BY <1>0, <1>9 DEF RingInv, InStep
  <2>3. \A i \in 1 .. L + 2 : i \in 1 .. L + 1 \/ i = L + 2
    BY <1>3
  <2> QED
    BY <2>1, <2>2, <2>3, <1>9
<1>19. Fence'
  BY <1>1 DEF RingInv, Fence
<1> QED
  BY <1>11, <1>13, <1>14, <1>15, <1>16, <1>17, <1>18, <1>19 DEF RingInv

\* The consumer reads the length of the oldest entry and of no other.
LEMMA LengthIsOldest ==
    ASSUME RingInv, head # tail
    PROVE  pending # <<>> /\ LengthsRead = {pending[1].len}
<1>1. pending # <<>>
  BY DEF RingInv, InLine, Begin
<1>2. /\ Len(pending) \in Nat /\ DOMAIN pending = 1 .. Len(pending)
      /\ HeaderBytes \in Nat /\ HeaderBytes >= 1
  BY EntryType
<1>3. 1 \in DOMAIN pending
  BY <1>1, <1>2 DEF RingInv, RingType
<1>4. Begin(1) = tail /\ pending[1].pos = tail /\ tail \in Pos
  BY <1>3, EntryPlace DEF RingInv, InLine, RingType
<1>5. HeaderSpan(tail) = [k \in 0 .. HeaderBytes - 1 |-> index(Plus(tail, k))]
  <2>1. dynamic => tail % HeaderBytes = 0
    BY <1>2, <1>4 DEF RingInv, InStep
  <2> QED
    BY <2>1, <1>4, SameHeaderSpan
<1>6. /\ DOMAIN HeaderSpan(tail) = 0 .. HeaderBytes - 1
      /\ \A k \in 0 .. HeaderBytes - 1 : storage[HeaderSpan(tail)[k]] = <<tail, k>>
  <2>1. \A k \in 0 .. Size(1) - 1 : storage[index(Plus(tail, k))] = <<tail, k>>
    BY <1>3, <1>4 DEF RingInv, Held, Whole
  <2>2. Size(1) \in Nat /\ Size(1) >= HeaderBytes
    BY <1>3, EntryType
  <2>3. \A k \in 0 .. HeaderBytes - 1 : k \in 0 .. Size(1) - 1
    BY <2>2, <1>2
  <2>4. \A k \in 0 .. HeaderBytes - 1 : storage[index(Plus(tail, k))] = <<tail, k>>
    BY <2>1, <2>3
  <2> QED
    BY <2>4, <1>5
<1> DEFINE there == {i \in DOMAIN pending : Holds(HeaderSpan(tail), pending[i].pos, 0)}
<1>7. 1 \in there
  <2>1. \A k \in 0 .. HeaderBytes - 1 : 0 + k = k
    BY <1>2
  <2> QED
    BY <1>3, <1>4, <1>6, <2>1 DEF Holds
<1>8. ASSUME NEW i \in there PROVE i = 1
  <2>1. storage[HeaderSpan(tail)[0]] = <<tail, 0>> /\ 0 \in DOMAIN HeaderSpan(tail)
    BY <1>2, <1>6
  <2>2. i \in DOMAIN pending /\ Begin(i) = pending[i].pos
    BY EntryPlace
  <2>3. storage[HeaderSpan(tail)[0]] = <<pending[i].pos, 0 + 0>>
    BY <2>1 DEF Holds
  <2>4. Begin(i) = tail
    BY <2>1, <2>2, <2>3
  <2>5. From(tail, tail) = 0
    BY <1>4, FromIs, RingAssumption DEF Pos
  <2>6. CASE i # 1
    <3>1. i \in (1 + 1) .. (Len(pending) + 1)
      BY <2>2, <2>6, <1>2
    <3>2. From(tail, Begin(1)) + Size(1) <= From(tail, Begin(i))
      BY <3>1, <1>3 DEF RingInv, InLine
    <3>3. Size(1) \in Nat /\ Size(1) >= 1
      BY <1>2, <1>3, EntryType
    <3> QED
      BY <3>2, <3>3, <2>4, <2>5, <1>4
  <2> QED
    BY <2>6
<1>9. there = {1}
  BY <1>7, <1>8
<1> HIDE DEF there
<1>10. LengthsRead = {pending[i].len : i \in there}
  BY <1>9 DEF LengthsRead, there
<1> QED
  BY <1>1, <1>9, <1>10

LEMMA ReadBeginStep ==
    ASSUME RingInv, NEW out \in OutSizes, ReadBegin(out), UNCHANGED dynamic
    PROVE  RingInv'
<1>1. pending # <<>> /\ LengthsRead = {pending[1].len}
  BY LengthIsOldest DEF ReadBegin
<1>2. r' = [pc |-> "data", len |-> pending[1].len, out |-> out]
  BY <1>1 DEF ReadBegin
<1>3. UNCHANGED <<dynamic, head, tail, storage, w, pending>>
  BY DEF ReadBegin
<1>4. pending[1].len \in Nat /\ out \in Nat
  <2>1. 1 \in DOMAIN pending
    BY <1>1, EntryType DEF RingInv, RingType
  <2> QED
    BY <2>1, EntryType, RingAssumption
<1>5. RingType'
  BY <1>2, <1>3, <1>4 DEF RingInv, RingType
<1>6. InLine'
  BY <1>3 DEF RingInv, InLine, Begin, Size, From
<1>7. Held'
  BY <1>3 DEF RingInv, Held, Whole, Begin, Size, index, Plus
<1>8. Room' /\ Fence'
  BY <1>3 DEF RingInv, Room, Used, Dist, Fence
<1>9. Written'
  BY <1>3 DEF RingInv, Written, Whole, index, Plus
<1>10. Copied'
  BY <1>1, <1>2, <1>3 DEF Copied
<1>11. InStep'
  BY <1>3 DEF RingInv, InStep, Begin
<1> QED
  BY <1>5, <1>6, <1>7, <1>8, <1>9, <1>10, <1>11 DEF RingInv

LEMMA ReadDataStep ==
    ASSUME RingInv, ReadData, UNCHANGED dynamic
    PROVE  RingInv'
<1>1. /\ r.pc = "data" /\ r' = [r EXCEPT !.pc = "release"]
      /\ UNCHANGED <<dynamic, head, tail, storage, w, pending>>
  BY DEF ReadData
<1>2. r \in [pc : {"idle", "data", "release"}, len : Nat, out : Nat]
  BY DEF RingInv, RingType
<1>3. r' \in [pc : {"idle", "data", "release"}, len : Nat, out : Nat] /\ r'.len = r.len
  BY <1>1, <1>2
<1>5. RingType'
  BY <1>1, <1>3 DEF RingInv, RingType
<1>6. InLine'
  BY <1>1 DEF RingInv, InLine, Begin, Size, From
<1>7. Held'
  BY <1>1 DEF RingInv, Held, Whole, Begin, Size, index, Plus
<1>8. Room' /\ Fence'
  BY <1>1 DEF RingInv, Room, Used, Dist, Fence
<1>9. Written'
  BY <1>1 DEF RingInv, Written, Whole, index, Plus
<1>10. Copied'
  BY <1>1, <1>3 DEF RingInv, Copied
<1>11. InStep'
  BY <1>1 DEF RingInv, InStep, Begin
<1> QED
  BY <1>5, <1>6, <1>7, <1>8, <1>9, <1>10, <1>11 DEF RingInv

\* Counted from a later place there is so much less to go.
LEMMA FromLater ==
    ASSUME NEW t \in Pos, NEW p \in Pos, NEW n \in Nat, n <= From(t, p)
    PROVE  From(Plus(t, n), p) = From(t, p) - n
<1>1. /\ From(t, p) \in Pos
      /\ From(t, p) = IF p < t THEN p + Wrap - t ELSE p - t
  BY FromIs
<1> DEFINE d == From(t, p)
           u == Plus(t, n)
<1>2. d \in Pos /\ (d = IF p < t THEN p + Wrap - t ELSE p - t) /\ n <= d
  BY <1>1
<1> HIDE DEF d
<1>3. n \in 0 .. Wrap
  BY <1>2, RingAssumption DEF Pos
<1>4. u \in Pos /\ u = IF t + n < Wrap THEN t + n ELSE t + n - Wrap
  BY <1>3, PlusIs
<1> HIDE DEF u
<1>5. From(u, p) = IF p < u THEN p + Wrap - u ELSE p - u
  BY <1>4, FromIs
<1>6. From(u, p) = d - n
  BY <1>2, <1>4, <1>5, RingAssumption DEF Pos
<1> QED
  BY <1>6 DEF d, u

LEMMA ReadReleaseStep ==
    ASSUME RingInv, ReadRelease, UNCHANGED dynamic
    PROVE  RingInv'
<1>0. PICK L, n : L = Len(pending) /\ n = Size(1)
  OBVIOUS
<1>1. /\ r.pc = "release" /\ r' = [r EXCEPT !.pc = "idle"] /\ tail' = Plus(tail, HeaderBytes + r.len)
      /\ pending' = Tail(pending) /\ UNCHANGED <<dynamic, head, storage, w>>
  BY DEF ReadRelease, ReleaseTo
<1>2. pending # <<>> /\ HeaderBytes + r.len = n
  BY <1>0, <1>1 DEF RingInv, Copied, Size
<1>3. /\ HeaderBytes \in Nat /\ HeaderBytes >= 1 /\ Capacity \in Nat /\ Wrap \in Nat /\ Capacity < Wrap
      /\ L \in Nat /\ DOMAIN pending = 1 .. L /\ Begin(L + 1) = head /\ Used = From(tail, head)
      /\ \A i \in 1 .. L : Size(i) \in Nat /\ Size(i) >= HeaderBytes
      /\ \A i \in 1 .. L + 1 : Begin(i) \in Pos
  BY <1>0, EntryType
<1>4. /\ head \in Pos /\ tail \in Pos /\ pending \in Seq([pos : Pos, len : Nat])
      /\ r \in [pc : {"idle", "data", "release"}, len : Nat, out : Nat]
  BY DEF RingInv, RingType
<1>5. L >= 1
  BY <1>0, <1>2, <1>3, <1>4
<1>6. n \in Nat /\ n >= 1
  BY <1>0, <1>3, <1>5
<1>7. /\ pending' \in Seq([pos : Pos, len : Nat]) /\ Len(pending') = L - 1
      /\ DOMAIN pending' = 1 .. L - 1 /\ \A i \in 1 .. L - 1 : pending'[i] = pending[i + 1]
  BY <1>0, <1>1, <1>2, <1>3, <1>4, <1>5
<1>8. /\ \A i \in 1 .. L : Begin(i)' = Begin(i + 1)
      /\ \A i \in 1 .. L - 1 : Size(i)' = Size(i + 1)
  <2>1. \A i \in 1 .. L - 1 : Begin(i)' = Begin(i + 1) /\ Size(i)' = Size(i + 1)
    BY <1>0, <1>3, <1>7 DEF Begin, Size
  <2>2. Begin(L)' = Begin(L + 1)
    BY <1>0, <1>1, <1>3, <1>7 DEF Begin
  <2>3. ASSUME NEW i \in 1 .. L PROVE Begin(i)' = Begin(i + 1)
    <3>1. i \in 1 .. L - 1 \/ i = L
      BY <1>3
    <3> QED
      BY <3>1, <2>1, <2>2
  <2> QED
    BY <2>1, <2>3
<1>9. /\ Begin(1) = tail
      /\ \A i \in 1 .. L : From(tail, Begin(i + 1)) = From(tail, Begin(i)) + Size(i)
      /\ \A i \in 1 .. L : \A j \in (i + 1) .. (L + 1) :
            From(tail, Begin(i)) + Size(i) <= From(tail, Begin(j))
      /\ \A i \in 1 .. L + 1 : From(tail, Begin(i)) \in Nat
  <2>1. \A i \in 1 .. L + 1 : From(tail, Begin(i)) \in Nat
    BY <1>3, <1>4, FromNat
  <2> QED
    BY <2>1, <1>0, <1>3 DEF RingInv, InLine
<1>10. From(tail, tail) = 0
  BY <1>3, <1>4, FromIs DEF Pos
<1>11. \A j \in 2 .. L + 1 : n <= From(tail, Begin(j))
  <2> TAKE j \in 2 .. L + 1
  <2>1. 1 \in 1 .. L /\ j \in (1 + 1) .. (L + 1)
    BY <1>3, <1>5
  <2>2. From(tail, Begin(1)) + Size(1) <= From(tail, Begin(j))
    BY <2>1, <1>9
  <2> QED
    BY <2>2, <1>0, <1>6, <1>9, <1>10
<1>12. tail' \in Pos /\ \A j \in 2 .. L + 1 : From(tail', Begin(j)) = From(tail, Begin(j)) - n
  <2>1. tail' = Plus(tail, n)
    BY <1>1, <1>2
  <2>2. \A j \in 2 .. L + 1 : Begin(j) \in Pos
    BY <1>3
  <2>3. n \in 0 .. Wrap
    <3>1. 2 \in 2 .. L + 1 /\ Begin(2) \in Pos
      BY <1>3, <1>5
    <3>2. From(tail, Begin(2)) <= Wrap
      <4>1. From(tail, Begin(2)) \in Pos
        BY <3>1, <1>4, FromIs
      <4>2. \A x \in Pos : x <= Wrap
        BY <1>3 DEF Pos
      <4> QED
        BY <4>1, <4>2
    <3> QED
      BY <3>1, <3>2, <1>3, <1>6, <1>9, <1>11
  <2>4. Plus(tail, n) \in Pos
    BY <2>3, <1>4, PlusIs
  <2>5. \A j \in 2 .. L + 1 : From(Plus(tail, n), Begin(j)) = From(tail, Begin(j)) - n
    BY <2>2, <1>4, <1>6, <1>11, FromLater
  <2> QED
    BY <2>1, <2>4, <2>5
<1>13. tail' = Begin(2)
  <2>1. From(tail, Begin(2)) = n
    <3>1. 1 \in 1 .. L /\ 1 + 1 = 2
      BY <1>3, <1>5
    <3>2. From(tail, Begin(1 + 1)) = From(tail, Begin(1)) + Size(1)
      BY <3>1, <1>9
    <3> QED
      BY <3>1, <3>2, <1>0, <1>6, <1>9, <1>10
  <2>2. Begin(2) \in Pos
    BY <1>3, <1>5
  <2>3. Plus(tail, n) = Begin(2)
    BY <2>1, <2>2, <1>4, PlusFrom
  <2> QED
    BY <2>3, <1>1, <1>2
<1>14. RingType'
  <2>1. r' \in [pc : {"idle", "data", "release"}, len : Nat, out : Nat]
    BY <1>1, <1>4
  <2> QED
    BY <2>1, <1>1, <1>7, <1>12 DEF RingInv, RingType
<1>15. InLine'
  <2>1. Begin(1)' = tail'
    BY <1>3, <1>5, <1>8, <1>13
  <2>2. ASSUME head' = tail' PROVE pending' = <<>>
    <3> SUFFICES ASSUME L >= 2 PROVE FALSE
      BY <1>3, <1>5, <1>7
    <3>1. 2 \in 1 .. L /\ L + 1 \in (2 + 1) .. (L + 1)
      BY <1>3
    <3>2. From(tail, Begin(2)) + Size(2) <= From(tail, Begin(L + 1))
      BY <3>1, <1>9
    <3>3. Begin(2) = Begin(L + 1)
      BY <2>2, <1>1, <1>3, <1>13
    <3>4. Size(2) \in Nat /\ Size(2) >= 1 /\ From(tail, Begin(2)) \in Nat
      BY <3>1, <1>3, <1>9
    <3> QED
      BY <3>2, <3>3, <3>4
  <2>3. ASSUME NEW i \in 1 .. L - 1
        PROVE  From(tail', Begin(i + 1)') = From(tail', Begin(i)') + Size(i)'
    <3>1. i + 1 \in 1 .. L /\ i \in 1 .. L /\ i + 1 \in 2 .. L + 1 /\ (i + 1) + 1 \in 2 .. L + 1
      BY <1>3
    <3>2. From(tail, Begin((i + 1) + 1)) = From(tail, Begin(i + 1)) + Size(i + 1)
      BY <3>1, <1>9
    <3>3. From(tail, Begin(i + 1)) \in Nat /\ Size(i + 1) \in Nat
      BY <3>1, <1>3, <1>9
    <3>4. /\ From(tail', Begin((i + 1) + 1)) = From(tail, Begin((i + 1) + 1)) - n
          /\ From(tail', Begin(i + 1)) = From(tail, Begin(i + 1)) - n
      BY <3>1, <1>12
    <3>5. From(tail', Begin((i + 1) + 1)) = From(tail', Begin(i + 1)) + Size(i + 1)
      BY <3>2, <3>3, <3>4, <1>6
    <3> QED
      BY <3>1, <3>5, <1>8
  <2>4. ASSUME NEW i \in 1 .. L - 1, NEW j \in (i + 1) .. L
        PROVE  From(tail', Begin(i)') + Size(i)' <= From(tail', Begin(j)')
    <3>1. /\ i + 1 \in 1 .. L /\ i \in 1 .. L /\ j \in 1 .. L /\ i + 1 \in 2 .. L + 1
          /\ j + 1 \in ((i + 1) + 1) .. (L + 1) /\ j + 1 \in 2 .. L + 1 /\ j + 1 \in 1 .. L + 1
      BY <1>3
    <3>2. From(tail, Begin(i + 1)) + Size(i + 1) <= From(tail, Begin(j + 1))
      BY <3>1, <1>9
    <3>3. /\ From(tail, Begin(i + 1)) \in Nat /\ Size(i + 1) \in Nat
          /\ From(tail, Begin(j + 1)) \in Nat
      BY <3>1, <1>3, <1>9
    <3>4. /\ From(tail', Begin(j + 1)) = From(tail, Begin(j + 1)) - n
          /\ From(tail', Begin(i + 1)) = From(tail, Begin(i + 1)) - n
      BY <3>1, <1>12
    <3>5. From(tail', Begin(i + 1)) + Size(i + 1) <= From(tail', Begin(j + 1))
      BY <3>2, <3>3, <3>4, <1>6
    <3> QED
      BY <3>1, <3>5, <1>8
  <2>5. Len(pending') + 1 = L
    BY <1>3, <1>7
  <2> QED
    BY <2>1, <2>2, <2>3, <2>4, <2>5, <1>7 DEF InLine, From
<1>16. Room'
  <2>1. Used' = From(tail', head)
    BY <1>1 DEF Used, Dist, From
  <2>2. From(tail', head) = Used - n /\ Used \in Nat
    <3>1. L + 1 \in 2 .. L + 1 /\ L + 1 \in 1 .. L + 1
      BY <1>3, <1>5
    <3> QED
      BY <3>1, <1>3, <1>9, <1>12
  <2>3. w.len \in Nat
    BY DEF RingInv, RingType
  <2> QED
    BY <2>1, <2>2, <2>3, <1>1, <1>3, <1>6 DEF RingInv, Room
<1>17. Held'
  <2>1. ASSUME NEW i \in 1 .. L - 1
        PROVE  \A k \in 0 .. Size(i)' - 1 : storage[index(Plus(Begin(i)', k))] = <<Begin(i)', k>>
    <3>1. i \in 1 .. L /\ i + 1 \in 1 .. L
      BY <1>3
    <3> QED
      BY <3>1, <1>3, <1>8 DEF RingInv, Held, Whole
  <2> QED
    BY <2>1, <1>1, <1>7 DEF Held, Whole, index, Plus
<1>18. Written' /\ Fence'
  <2>1. Written'
    BY <1>1 DEF RingInv, Written, Whole, index, Plus
  <2>2. Fence'
    BY <1>1 DEF RingInv, Fence
  <2> QED
    BY <2>1, <2>2
<1>19. Copied'
  BY <1>1, <1>4 DEF Copied
<1>20. InStep'
  <2>1. Len(pending') + 1 = L
    BY <1>3, <1>7
  <2>2. ASSUME dynamic, NEW i \in 1 .. L PROVE Begin(i)' % HeaderBytes = 0
    <3>1. i + 1 \in 1 .. L + 1
      BY <1>3
    <3> QED
      BY <2>2, <3>1, <1>0, <1>8 DEF RingInv, InStep
  <2> QED
    BY <2>1, <2>2, <1>1 DEF RingInv, InStep
<1> QED
  BY <1>14, <1>15, <1>16, <1>17, <1>18, <1>19, <1>20 DEF RingInv

-----------------------------------------------------------------------------
(* The theorems.                                                           *)

\* The inductive invariant of the ring: where the entries lie between tail_ and
\* head_, what the storage holds of them, and how far write and read have come:
\* of a RingBuffer always, of a DynamicRingBuffer until a span was written whose
\* length is no multiple of the length field's (RingBuffer, DynamicRingBuffer).
THEOREM RingInvariant == RingSpec => []RaggedOrKept
<1>1. RingInit => RaggedOrKept
  BY RingInitially DEF RaggedOrKept, RingInit
<1>2. RaggedOrKept /\ [RingNext]_ringVars => RaggedOrKept'
  <2> SUFFICES ASSUME RaggedOrKept, [RingNext]_ringVars PROVE RaggedOrKept'
    OBVIOUS
  <2>a. ragged' \in BOOLEAN /\ (ragged => ragged')
    BY DEF RaggedOrKept, RingNext, ringVars, WriteBegin, WriteHeader, WriteData, WritePublish,
           ReadBegin, ReadData, ReadRelease
  <2> SUFFICES ASSUME ~ragged' PROVE RingInv'
    BY <2>a DEF RaggedOrKept
  <2>b. RingInv
    BY <2>a DEF RaggedOrKept
  <2>1. ASSUME NEW n \in Lengths, WriteBegin(n), UNCHANGED dynamic PROVE RingInv'
    BY <2>1, <2>b, WriteBeginStep
  <2>2. CASE WriteHeader /\ UNCHANGED dynamic
    BY <2>2, <2>b, WriteHeaderStep
  <2>3. CASE WriteData /\ UNCHANGED dynamic
    BY <2>3, <2>b, WriteDataStep
  <2>4. CASE WritePublish /\ UNCHANGED dynamic
    BY <2>4, <2>b, WritePublishStep
  <2>5. ASSUME NEW out \in OutSizes, ReadBegin(out), UNCHANGED dynamic PROVE RingInv'
    BY <2>5, <2>b, ReadBeginStep
  <2>6. CASE ReadData /\ UNCHANGED dynamic
    BY <2>6, <2>b, ReadDataStep
  <2>7. CASE ReadRelease /\ UNCHANGED dynamic
    BY <2>7, <2>b, ReadReleaseStep
  <2>8. CASE UNCHANGED ringVars
    <3>1. UNCHANGED <<dynamic, head, tail, storage, w, r, pending>>
      BY <2>8 DEF ringVars
    <3>2. RingType' /\ Room' /\ Copied' /\ Fence'
      BY <2>b, <3>1 DEF RingInv, RingType, Room, Used, Dist, Copied, Fence
    <3>3. InLine'
      BY <2>b, <3>1 DEF RingInv, InLine, Begin, Size, From
    <3>4. Held'
      BY <2>b, <3>1 DEF RingInv, Held, Whole, Begin, Size, index, Plus
    <3>5. Written'
      BY <2>b, <3>1 DEF RingInv, Written, Whole, index, Plus
    <3>6. InStep'
      BY <2>b, <3>1 DEF RingInv, InStep, Begin
    <3> QED
      BY <3>2, <3>3, <3>4, <3>5, <3>6 DEF RingInv
  <2> QED
    BY <2>1, <2>2, <2>3, <2>4, <2>5, <2>6, <2>7, <2>8 DEF RingNext
<1> QED
  BY <1>1, <1>2, PTL DEF RingSpec

LEMMA HeldWhole ==
    ASSUME RingInv, NEW i \in DOMAIN pending
    PROVE  /\ Begin(i + 1) = Plus(Begin(i), Size(i))
           /\ Holds(HeaderSpan(Begin(i)), Begin(i), 0)
           /\ Holds(DataSpan(Begin(i), pending[i].len), Begin(i), HeaderBytes)
<1>1. /\ HeaderBytes \in Nat /\ HeaderBytes >= 1 /\ Capacity \in Nat /\ Wrap \in Nat /\ Capacity < Wrap
      /\ Size(i) \in Nat /\ pending[i].len \in Nat /\ Size(i) = HeaderBytes + pending[i].len
  BY EntryType DEF Size
<1>2. i + 1 \in 1 .. Len(pending) + 1 /\ i \in 1 .. Len(pending) + 1
  BY EntryType
<1>3. Begin(i + 1) \in Pos /\ tail \in Pos
  BY <1>2, EntryType DEF RingInv, RingType
<1>4. /\ Begin(i) \in Pos /\ From(tail, Begin(i)) \in Nat
      /\ From(tail, Begin(i)) + Size(i) <= Capacity
  BY <1>1, EntryPlace
<1>5. Begin(i + 1) = Plus(Begin(i), Size(i))
  <2>1. From(tail, Begin(i)) + Size(i) <= Wrap
    BY <1>1, <1>4
  <2>2. Plus(Begin(i), Size(i)) = Plus(tail, From(tail, Begin(i)) + Size(i))
    BY <2>1, <1>1, <1>3, <1>4, CountFrom
  <2>3. From(tail, Begin(i + 1)) = From(tail, Begin(i)) + Size(i)
    BY DEF RingInv, InLine
  <2>4. Plus(tail, From(tail, Begin(i + 1))) = Begin(i + 1)
    BY <1>3, PlusFrom
  <2> QED
    BY <2>2, <2>3, <2>4
<1>6. \A k \in 0 .. Size(i) - 1 : storage[index(Plus(Begin(i), k))] = <<Begin(i), k>>
  BY DEF RingInv, Held, Whole
<1>7. Holds(HeaderSpan(Begin(i)), Begin(i), 0)
  <2>1. HeaderSpan(Begin(i)) = [k \in 0 .. HeaderBytes - 1 |-> index(Plus(Begin(i), k))]
    BY <1>2, <1>4, SameHeaderSpan DEF RingInv, InStep
  <2>2. \A k \in 0 .. HeaderBytes - 1 : k \in 0 .. Size(i) - 1 /\ 0 + k = k
    BY <1>1
  <2> QED
    BY <2>1, <2>2, <1>6 DEF Holds
<1>8. Holds(DataSpan(Begin(i), pending[i].len), Begin(i), HeaderBytes)
  <2>0. HeaderBytes + pending[i].len <= Capacity
    BY <1>1, <1>4
  <2>1. DataSpan(Begin(i), pending[i].len)
            = [k \in 0 .. pending[i].len - 1 |-> index(Plus(Begin(i), HeaderBytes + k))]
    BY <2>0, <1>1, <1>4, SameDataSpan
  <2>2. \A k \in 0 .. pending[i].len - 1 : HeaderBytes + k \in 0 .. Size(i) - 1
    BY <1>1
  <2> QED
    BY <2>1, <2>2, <1>6 DEF Holds
<1> QED
  BY <1>5, <1>7, <1>8

\* Entries come out whole, once each and in the order in which they went in,
\* across the ends of the storage and of the counters: of a RingBuffer always, of
\* a DynamicRingBuffer until it is ragged (write, read).
THEOREM EntriesAreInOrder == RingSpec => []EntriesInOrder
<1>1. RaggedOrKept => EntriesInOrder
  <2> SUFFICES ASSUME RingInv PROVE EntriesInOrder
    BY DEF RaggedOrKept, EntriesInOrder
  <2>1. Begin(1) = tail /\ (head = tail => pending = <<>>)
    BY DEF RingInv, InLine
  <2>2. ASSUME r.pc # "idle"
        PROVE  /\ pending # <<>> /\ r.len = Head(pending).len
               /\ Holds(DataSpan(tail, r.len), tail, HeaderBytes)
    <3>1. pending # <<>> /\ r.len = pending[1].len
      BY <2>2 DEF RingInv, Copied
    <3>2. 1 \in DOMAIN pending /\ Head(pending) = pending[1]
      BY <3>1 DEF RingInv, RingType
    <3>3. Holds(DataSpan(Begin(1), pending[1].len), Begin(1), HeaderBytes)
      BY <3>2, HeldWhole
    <3> QED
      BY <3>1, <3>2, <3>3, <2>1
  <2> QED
    BY <2>1, <2>2, HeldWhole DEF EntriesInOrder
<1> QED
  BY <1>1, RingInvariant, PTL

\* Producer and consumer never copy to or from the same byte at a time, and no
\* byte behind the storage is written: by a RingBuffer ever, by a
\* DynamicRingBuffer until a span was written whose length is no multiple of the
\* length field's (write_at, read_at, DynamicRingBuffer::write).
THEOREM MemoryIsSafe == RingSpec => []MemorySafe
<1>1. RaggedOrKept => MemorySafe
  <2> SUFFICES ASSUME RingInv PROVE MemorySafe
    BY DEF RaggedOrKept, MemorySafe
  <2>1. ASSUME w.pc \in {"header", "data"}, r.pc = "data"
        PROVE  SpanCells(Span(head, HeaderBytes + w.len)) \cap SpanCells(Span(tail, HeaderBytes + r.len)) = {}
    <3>1. /\ head \in Pos /\ tail \in Pos /\ w.len \in Nat /\ r.len \in Nat
          /\ HeaderBytes \in Nat /\ Capacity \in Nat /\ Wrap \in Nat
      BY RingAssumption DEF RingInv, RingType
    <3>2. 1 \in DOMAIN pending /\ Size(1) = HeaderBytes + r.len /\ Begin(1) = tail
      <4>1. pending # <<>> /\ r.len = pending[1].len
        BY <2>1 DEF RingInv, Copied
      <4> QED
        BY <4>1 DEF RingInv, RingType, InLine, Size
    <3>3. From(tail, tail) = 0 /\ From(tail, head) \in Nat
      BY <3>1, FromIs, FromNat DEF Pos
    <3>4. /\ HeaderBytes + r.len <= From(tail, head)
          /\ From(tail, head) + (HeaderBytes + w.len) <= Capacity
      <4>1. From(tail, Begin(1)) + Size(1) <= Used /\ Used = From(tail, head)
        BY <3>2, EntryPlace, EntryType
      <4>2. Used + HeaderBytes + w.len <= Capacity
        BY <2>1 DEF RingInv, Room
      <4> QED
        BY <4>1, <4>2, <3>1, <3>2, <3>3
    <3>5. ASSUME NEW j \in 0 .. (HeaderBytes + w.len) - 1, NEW k \in 0 .. (HeaderBytes + r.len) - 1,
                 index(Plus(head, j)) = index(Plus(tail, k))
          PROVE  FALSE
      <4>1. j \in Nat /\ k \in Nat /\ From(tail, head) + j < Capacity /\ From(tail, tail) + k < Capacity
        BY <3>1, <3>3, <3>4
      <4>2. From(tail, head) + j = From(tail, tail) + k
        BY <3>1, <3>5, <4>1, OneCell
      <4> QED
        BY <4>2, <3>1, <3>3, <3>4
    <3> QED
      BY <3>5 DEF SpanCells, Span
  <2> QED
    BY <2>1 DEF MemorySafe, StorageKept, RingInv, Fence
<1> QED
  BY <1>1, RingInvariant, PTL

-----------------------------------------------------------------------------
(* The topology.                                                           *)

\* A set of numbers that is not empty has a least one.
LEMMA LeastNumber ==
    ASSUME NEW S \in SUBSET Nat, S # {}
    PROVE  \E n \in S : \A k \in S : n <= k
<1> DEFINE R == OpToRel(<, Nat)
<1>1. PICK n \in S : \A k \in S : ~(<<k, n>> \in R)
  BY WFMin, NatLessThanWellFounded, Zenon
<1>2. \A k \in S : ~(k < n)
  BY <1>1 DEF OpToRel
<1> QED
  BY <1>2

\* What no step from k on changes is at L what it was at k.
LEMMA Settled ==
    ASSUME NEW L \in Nat, NEW k \in 0 .. L, NEW m,
           \A i \in (k + 1) .. L : m[i] = m[i - 1]
    PROVE  m[L] = m[k]
<1> DEFINE S == {i \in k .. L : m[i] # m[k]}
<1> SUFFICES ASSUME m[L] # m[k] PROVE FALSE
  OBVIOUS
<1>1. L \in S /\ S \subseteq Nat
  OBVIOUS
<1>2. PICK n \in S : \A i \in S : n <= i
  <2> HIDE DEF S
  <2> QED
    BY <1>1, LeastNumber
<1>3. n \in k .. L /\ m[n] # m[k]
  OBVIOUS
<1>4. n # k
  BY <1>3
<1>5. n - 1 \in k .. L /\ n \in (k + 1) .. L
  BY <1>3, <1>4
<1>6. n - 1 \notin S
  <2>1. ~(n <= n - 1)
    BY <1>3
  <2> HIDE DEF S
  <2> QED
    BY <1>2, <2>1
<1>7. m[n - 1] = m[k]
  BY <1>5, <1>6
<1>8. m[n] = m[n - 1]
  BY <1>5
<1> QED
  BY <1>3, <1>7, <1>8

\* The last step that decides is the last that counts.
LEMMA LastDecider ==
    ASSUME NEW L \in Nat, NEW D \in SUBSET (1 .. L), NEW m,
           \A i \in (1 .. L) \ D : m[i] = m[i - 1]
    PROVE  /\ D = {} => m[L] = m[0]
           /\ D # {} => LET k == CHOOSE i \in D : \A j \in D : j <= i
                        IN  k \in D /\ m[L] = m[k]
<1>1. ASSUME D = {} PROVE m[L] = m[0]
  <2>1. 0 \in 0 .. L /\ (0 + 1) .. L = 1 .. L
    OBVIOUS
  <2>2. \A i \in (0 + 1) .. L : m[i] = m[i - 1]
    BY <1>1, <2>1
  <2> QED
    BY <2>1, <2>2, Settled
<1>2. ASSUME D # {} PROVE \E k \in D : \A j \in D : j <= k
  <2> DEFINE B == {n \in Nat : \A j \in D : j <= n}
  <2>1. L \in B /\ B \subseteq Nat
    OBVIOUS
  <2>2. PICK k \in B : \A n \in B : k <= n
    <3> HIDE DEF B
    <3> QED
      BY <2>1, LeastNumber
  <2>3. k \in Nat /\ \A j \in D : j <= k
    OBVIOUS
  <2>4. k \in D
    <3> SUFFICES ASSUME k \notin D PROVE FALSE
      OBVIOUS
    <3>1. \A j \in D : j <= k - 1 /\ 1 <= j
      BY <2>3
    <3>2. k - 1 \in Nat
      <4>1. PICK j \in D : TRUE
        BY <1>2
      <4>2. j \in Nat /\ j <= k - 1 /\ 1 <= j
        BY <3>1
      <4> QED
        BY <2>3, <4>2
    <3>3. k - 1 \in B
      BY <3>1, <3>2
    <3>4. ~(k <= k - 1)
      BY <2>3
    <3> HIDE DEF B
    <3> QED
      BY <2>2, <3>3, <3>4
  <2> QED
    BY <2>3, <2>4
<1>3. ASSUME D # {}
      PROVE  LET k == CHOOSE i \in D : \A j \in D : j <= i
             IN  k \in D /\ m[L] = m[k]
  <2> DEFINE k == CHOOSE i \in D : \A j \in D : j <= i
  <2>1. k \in D /\ \A j \in D : j <= k
    BY <1>2, <1>3
  <2> HIDE DEF k
  <2>2. k \in 0 .. L /\ \A i \in (k + 1) .. L : i \in (1 .. L) \ D
    BY <2>1
  <2>3. \A i \in (k + 1) .. L : m[i] = m[i - 1]
    BY <2>2
  <2>4. m[L] = m[k]
    BY <2>2, <2>3, Settled
  <2> QED
    BY <2>1, <2>4 DEF k
<1> QED
  BY <1>1, <1>3

\* f is g and then the graph after each of the first n items.
Staged(f, g, items, n) ==
    f = [i \in 0 .. n |-> IF i = 0 THEN g ELSE ApplyItem(f[i - 1], items[i])]

\* The loop of commit is defined for every transaction.
LEMMA StagesExist ==
    ASSUME NEW g, NEW items \in Seq(Items)
    PROVE  Staged(Stages(g, items), g, items, Len(items))
<1> DEFINE S == {n \in Nat : ~ \E f : Staged(f, g, items, n)}
<1>1. S = {}
  <2> SUFFICES ASSUME S # {} PROVE FALSE
    OBVIOUS
  <2>1. S \subseteq Nat
    OBVIOUS
  <2>2. PICK n \in S : \A k \in S : n <= k
    <3> HIDE DEF S
    <3> QED
      BY <2>1, LeastNumber
  <2>3. n \in Nat /\ ~ \E f : Staged(f, g, items, n)
    OBVIOUS
  <2>4. n # 0
    <3> DEFINE f == [i \in 0 .. 0 |-> g]
    <3>1. Staged(f, g, items, 0)
      BY DEF Staged
    <3> QED
      BY <3>1, <2>3
  <2>5. n - 1 \in Nat
    BY <2>3, <2>4
  <2>6. n - 1 \notin S
    <3>1. ~(n <= n - 1)
      BY <2>3
    <3> HIDE DEF S
    <3> QED
      BY <2>2, <3>1
  <2>7. PICK f : Staged(f, g, items, n - 1)
    BY <2>5, <2>6
  <2> DEFINE h == [i \in 0 .. n |-> IF i = n THEN ApplyItem(f[n - 1], items[n]) ELSE f[i]]
  <2>8. /\ \A i \in 0 .. (n - 1) : h[i] = f[i]
        /\ h[n] = ApplyItem(f[n - 1], items[n])
    BY <2>3
  <2>9. \A i \in 0 .. (n - 1) : f[i] = IF i = 0 THEN g ELSE ApplyItem(f[i - 1], items[i])
    BY <2>7 DEF Staged
  <2>10. ASSUME NEW i \in 0 .. n
         PROVE  h[i] = IF i = 0 THEN g ELSE ApplyItem(h[i - 1], items[i])
    <3>1. CASE i = n
      <4>1. n - 1 \in 0 .. (n - 1)
        BY <2>5
      <4>2. h[n - 1] = f[n - 1]
        BY <2>8, <4>1
      <4> HIDE DEF h
      <4> QED
        BY <2>4, <2>8, <3>1, <4>2
    <3>2. CASE i = 0
      <4>1. 0 \in 0 .. (n - 1)
        BY <2>5
      <4> HIDE DEF h
      <4> QED
        BY <2>8, <2>9, <3>2, <4>1
    <3>3. CASE i # n /\ i # 0
      <4>1. i \in 0 .. (n - 1) /\ i - 1 \in 0 .. (n - 1)
        BY <2>3, <3>3
      <4>2. h[i] = f[i] /\ h[i - 1] = f[i - 1]
        BY <2>8, <4>1
      <4> HIDE DEF h
      <4> QED
        BY <2>9, <3>3, <4>1, <4>2
    <3> QED
      BY <3>1, <3>2, <3>3
  <2>11. h = [i \in 0 .. n |-> h[i]]
    OBVIOUS
  <2> HIDE DEF h
  <2>12. Staged(h, g, items, n)
    BY <2>10, <2>11, Zenon DEF Staged
  <2> QED
    BY <2>3, <2>12
<1>2. Len(items) \in Nat
  OBVIOUS
<1>3. \E f : Staged(f, g, items, Len(items))
  BY <1>1, <1>2
<1>4. Stages(g, items) = CHOOSE f : Staged(f, g, items, Len(items))
  BY DEF Stages, Staged
<1> QED
  BY <1>3, <1>4

\* What one item does to a node and to an edge.
LEMMA ItemOnNode ==
    ASSUME NEW N, NEW E, NEW g, g = Graph(N, E), NEW it \in Items, NEW n \in Names
    PROVE  LET h == ApplyItem(g, it) IN
           /\ h = Graph(h.nodes, h.edges)
           /\ ~(it.op \in {"AddNode", "RemoveNode"} /\ it.a = n) => (n \in h.nodes <=> n \in N)
           /\ it.op \in {"AddNode", "RemoveNode"} /\ it.a = n
                  => (n \in h.nodes <=> it.op \in {"AddNode", "AddEdge"})
  BY DEF ApplyItem, Graph, Items, NodeItems, EdgeItems

LEMMA ItemOnEdge ==
    ASSUME NEW N, NEW E, NEW g, g = Graph(N, E), NEW it \in Items, NEW e \in Names \X Names
    PROVE  LET h == ApplyItem(g, it)
               decides == \/ it \in EdgeItems /\ <<it.a, it.b>> = e
                          \/ it.op = "RemoveNode" /\ it.a \in {e[1], e[2]}
           IN  /\ ~decides => (e \in h.edges <=> e \in E)
               /\ decides => (e \in h.edges <=> it.op \in {"AddNode", "AddEdge"})
  BY DEF ApplyItem, Graph, Items, NodeItems, EdgeItems, EdgesOf

\* Every stage is a graph, and each item makes the next of it.
LEMMA StageSteps ==
    ASSUME NEW N, NEW E, NEW items \in Seq(Items)
    PROVE  LET f == Stages(Graph(N, E), items) IN
           /\ f[0] = Graph(N, E)
           /\ \A i \in 1 .. Len(items) :
                 /\ f[i] = ApplyItem(f[i - 1], items[i])
                 /\ f[i - 1] = Graph(f[i - 1].nodes, f[i - 1].edges)
<1> DEFINE g == Graph(N, E)
           L == Len(items)
<1>1. PICK f : f = Stages(g, items)
  OBVIOUS
<1>2. Staged(f, g, items, L)
  BY <1>1, StagesExist
<1>3. L \in Nat /\ \A i \in 1 .. L : items[i] \in Items
  OBVIOUS
<1>4. g = Graph(g.nodes, g.edges)
  BY DEF Graph
<1> HIDE DEF g, L
<1>5. f[0] = g
  BY <1>2, <1>3 DEF Staged
<1>6. ASSUME NEW i \in 1 .. L PROVE f[i] = ApplyItem(f[i - 1], items[i])
  <2>1. i \in 0 .. L /\ i # 0
    BY <1>3
  <2> QED
    BY <1>2, <2>1 DEF Staged
<1>7. ASSUME NEW N1, NEW E1, NEW it \in Items
      PROVE  LET h == ApplyItem(Graph(N1, E1), it) IN h = Graph(h.nodes, h.edges)
  BY DEF ApplyItem, Graph
<1> DEFINE IsGraph(x) == x = Graph(x.nodes, x.edges)
           S == {i \in 0 .. L : ~IsGraph(f[i])}
<1>8. S = {}
  <2> SUFFICES ASSUME S # {} PROVE FALSE
    OBVIOUS
  <2>1. S \subseteq Nat
    OBVIOUS
  <2>2. PICK n \in S : \A k \in S : n <= k
    <3> HIDE DEF S
    <3> QED
      BY <2>1, LeastNumber
  <2>3. n \in 0 .. L /\ ~IsGraph(f[n])
    OBVIOUS
  <2>4. n # 0
    BY <1>4, <1>5, <2>3
  <2>5. n \in 1 .. L /\ n - 1 \in 0 .. L
    BY <1>3, <2>3, <2>4
  <2>6. n - 1 \notin S
    <3>1. ~(n <= n - 1)
      BY <2>5
    <3> HIDE DEF S
    <3> QED
      BY <2>2, <3>1
  <2>7. IsGraph(f[n - 1])
    BY <2>5, <2>6
  <2>8. f[n] = ApplyItem(f[n - 1], items[n]) /\ items[n] \in Items
    BY <1>3, <1>6, <2>5
  <2>9. IsGraph(f[n])
    BY <1>7, <2>7, <2>8
  <2> QED
    BY <2>3, <2>9
<1>9. ASSUME NEW i \in 1 .. L PROVE IsGraph(f[i - 1])
  <2>1. i - 1 \in 0 .. L
    BY <1>3
  <2> QED
    BY <1>8, <2>1
<1> QED
  BY <1>1, <1>5, <1>6, <1>9 DEF g, L

\* What the last decider leaves is what stays.
LEMMA DecidedStays ==
    ASSUME NEW x, NEW m, NEW items \in Seq(Items), NEW D \in SUBSET (1 .. Len(items)),
           \A i \in (1 .. Len(items)) \ D : (x \in m[i] <=> x \in m[i - 1]),
           \A i \in D : (x \in m[i] <=> items[i].op \in {"AddNode", "AddEdge"})
    PROVE  x \in m[Len(items)] <=> Decided(items, D, x \in m[0])
<1> DEFINE L == Len(items)
           p == [i \in 0 .. L |-> m[i] \cap {x}]
<1>1. L \in Nat
  OBVIOUS
<1> HIDE DEF L
<1>2. \A i \in 0 .. L : x \in p[i] <=> x \in m[i]
  OBVIOUS
<1>3. ASSUME NEW i \in (1 .. L) \ D PROVE p[i] = p[i - 1]
  <2>1. i \in 0 .. L /\ i - 1 \in 0 .. L
    BY <1>1
  <2>2. x \in m[i] <=> x \in m[i - 1]
    BY DEF L
  <2>3. p[i] = m[i] \cap {x} /\ p[i - 1] = m[i - 1] \cap {x}
    BY <2>1
  <2> HIDE DEF p
  <2> QED
    BY <2>2, <2>3
<1>7. \A i \in (1 .. L) \ D : p[i] = p[i - 1]
  BY <1>3
<1> HIDE DEF p
<1>4. D \in SUBSET (1 .. L)
  BY DEF L
<1>5. CASE D = {}
  <2>1. p[L] = p[0]
    BY <1>1, <1>4, <1>5, <1>7, LastDecider, Zenon
  <2>2. x \in m[L] <=> x \in m[0]
    BY <1>1, <1>2, <2>1
  <2> QED
    BY <1>5, <2>2 DEF Decided, L
<1>6. CASE D # {}
  <2> DEFINE k == CHOOSE i \in D : \A j \in D : j <= i
  <2>1. k \in D /\ p[L] = p[k]
    BY <1>1, <1>4, <1>6, <1>7, LastDecider, Zenon
  <2>2. Decided(items, D, x \in m[0]) <=> items[k].op \in {"AddNode", "AddEdge"}
    BY <1>6 DEF Decided
  <2> HIDE DEF k
  <2>3. k \in 0 .. L /\ L \in 0 .. L
    BY <1>1, <1>4, <2>1
  <2>4. x \in m[L] <=> x \in m[k]
    BY <1>2, <2>1, <2>3
  <2>5. x \in m[k] <=> items[k].op \in {"AddNode", "AddEdge"}
    BY <2>1
  <2> QED
    BY <2>2, <2>4, <2>5 DEF L
<1> QED
  BY <1>5, <1>6

\* The loop of commit, for a transaction of any length.
LEMMA LoopMeaning ==
    ASSUME NEW N, NEW E, NEW items \in Seq(Items)
    PROVE  LastWins(Graph(N, E), Applied(Graph(N, E), items), items)
<1> DEFINE g == Graph(N, E)
           L == Len(items)
<1>1. PICK f : f = Stages(g, items)
  OBVIOUS
<1>2. L \in Nat /\ DOMAIN items = 1 .. L /\ \A i \in 1 .. L : items[i] \in Items
  OBVIOUS
<1>3. /\ f[0] = g /\ g.nodes = N /\ g.edges = E
      /\ \A i \in 1 .. L : /\ f[i] = ApplyItem(f[i - 1], items[i])
                           /\ f[i - 1] = Graph(f[i - 1].nodes, f[i - 1].edges)
  BY <1>1, StageSteps DEF Graph
<1>4. Applied(g, items) = f[L]
  BY <1>1 DEF Applied
<1>5. ASSUME NEW n \in Names
      PROVE  n \in f[L].nodes <=> Decided(items, NodeDeciders(items, n), n \in g.nodes)
  <2> DEFINE m == [i \in 0 .. L |-> f[i].nodes]
             D == NodeDeciders(items, n)
  <2>1. D \in SUBSET (1 .. L) 
    BY <1>2 DEF NodeDeciders
  <2>2. m[0] = g.nodes /\ m[L] = f[L].nodes
    BY <1>2, <1>3
  <2>3. ASSUME NEW i \in 1 .. L PROVE m[i] = f[i].nodes /\ m[i - 1] = f[i - 1].nodes
    BY <1>2
  <2>4. ASSUME NEW i \in (1 .. L) \ D PROVE n \in m[i] <=> n \in m[i - 1]
    <3>1. ~(items[i].op \in {"AddNode", "RemoveNode"} /\ items[i].a = n)
      BY <1>2 DEF NodeDeciders
    <3>2. n \in f[i].nodes <=> n \in f[i - 1].nodes
      BY <1>2, <1>3, <3>1, ItemOnNode
    <3> QED
      BY <2>3, <3>2
  <2>5. ASSUME NEW i \in D PROVE n \in m[i] <=> items[i].op \in {"AddNode", "AddEdge"}
    <3>1. i \in 1 .. L /\ items[i].op \in {"AddNode", "RemoveNode"} /\ items[i].a = n
      BY <1>2 DEF NodeDeciders
    <3>2. n \in f[i].nodes <=> items[i].op \in {"AddNode", "AddEdge"}
      BY <1>2, <1>3, <3>1, ItemOnNode
    <3> QED
      BY <2>3, <3>1, <3>2
  <2> HIDE DEF m, D
  <2>6. /\ \A i \in (1 .. L) \ D : (n \in m[i] <=> n \in m[i - 1])
        /\ \A i \in D : (n \in m[i] <=> items[i].op \in {"AddNode", "AddEdge"})
    BY <2>4, <2>5, Zenon
  <2>7. n \in m[L] <=> Decided(items, D, n \in m[0])
    BY <2>1, <2>6, DecidedStays, Zenon
  <2> QED
    BY <2>2, <2>7, Zenon DEF D
<1>6. ASSUME NEW e \in Names \X Names
      PROVE  e \in f[L].edges <=> Decided(items, EdgeDeciders(items, e), e \in g.edges)
  <2> DEFINE m == [i \in 0 .. L |-> f[i].edges]
             D == EdgeDeciders(items, e)
             Decides(it) == \/ it \in EdgeItems /\ <<it.a, it.b>> = e
                            \/ it.op = "RemoveNode" /\ it.a \in {e[1], e[2]}
  <2>1. D \in SUBSET (1 .. L) 
    BY <1>2 DEF EdgeDeciders
  <2>2. m[0] = g.edges /\ m[L] = f[L].edges
    BY <1>2, <1>3
  <2>3. ASSUME NEW i \in 1 .. L PROVE m[i] = f[i].edges /\ m[i - 1] = f[i - 1].edges
    BY <1>2
  <2>4. ASSUME NEW i \in (1 .. L) \ D PROVE e \in m[i] <=> e \in m[i - 1]
    <3>1. ~Decides(items[i])
      BY <1>2 DEF EdgeDeciders
    <3>2. e \in f[i].edges <=> e \in f[i - 1].edges
      BY <1>2, <1>3, <3>1, ItemOnEdge
    <3> QED
      BY <2>3, <3>2
  <2>5. ASSUME NEW i \in D PROVE e \in m[i] <=> items[i].op \in {"AddNode", "AddEdge"}
    <3>1. i \in 1 .. L /\ Decides(items[i])
      BY <1>2 DEF EdgeDeciders
    <3>2. e \in f[i].edges <=> items[i].op \in {"AddNode", "AddEdge"}
      BY <1>2, <1>3, <3>1, ItemOnEdge
    <3> QED
      BY <2>3, <3>1, <3>2
  <2> HIDE DEF m, D
  <2>6. /\ \A i \in (1 .. L) \ D : (e \in m[i] <=> e \in m[i - 1])
        /\ \A i \in D : (e \in m[i] <=> items[i].op \in {"AddNode", "AddEdge"})
    BY <2>4, <2>5, Zenon
  <2>7. e \in m[L] <=> Decided(items, D, e \in m[0])
    BY <2>1, <2>6, DecidedStays, Zenon
  <2> QED
    BY <2>2, <2>7, Zenon DEF D
<1> HIDE DEF g
<1>7. LastWins(g, f[L], items)
  BY <1>5, <1>6 DEF LastWins
<1> QED
  BY <1>4, <1>7 DEF g

\* The types of what clients hold.
TxType == tx \in [Clients -> Seq(Items)]

THEOREM TransactionsTyped == Spec => []TxType
<1>1. Init => TxType
  BY DEF Init, TxType
<1>2. TxType /\ [Next]_vars => TxType'
  <2> SUFFICES ASSUME TxType, [Next]_vars PROVE TxType'
    OBVIOUS
  <2>1. ASSUME NEW c \in Clients, begin_transaction(c) PROVE TxType'
    BY <2>1 DEF TxType, begin_transaction
  <2>2. ASSUME NEW c \in Clients, NEW it \in Items, AddItem(c, it) PROVE TxType'
    <3>1. tx' = [tx EXCEPT ![c] = Append(tx[c], it)]
      BY <2>2 DEF AddItem
    <3>2. Append(tx[c], it) \in Seq(Items)
      BY DEF TxType
    <3> QED
      BY <3>1, <3>2 DEF TxType
  <2>3. ASSUME NEW c \in Clients, commit(c) PROVE TxType'
    BY <2>3 DEF TxType, commit
  <2>4. CASE clear
    BY <2>4 DEF TxType, clear
  <2>5. CASE UNCHANGED vars
    BY <2>5 DEF TxType, vars
  <2> QED
    BY <2>1, <2>2, <2>3, <2>4, <2>5 DEF Next
<1> QED
  BY <1>1, <1>2, PTL DEF Spec

\* commit of Topology, for transactions of any length and any number of clients.
THEOREM CommitsMeanLastWins == Spec => CommitMeaning
<1>1. TxType /\ [Next]_vars
          => [\A c \in Clients : Committing(c) =>
                 LastWins(Graph(nodes, edges), Graph(nodes', edges'), tx[c])]_vars
  <2> SUFFICES ASSUME TxType, Next, NEW c \in Clients, Committing(c)
               PROVE  LastWins(Graph(nodes, edges), Graph(nodes', edges'), tx[c])
    OBVIOUS
  <2>1. PICK d \in Clients : commit(d)
    BY DEF Next, Committing, begin_transaction, AddItem, clear
  <2>2. c = d
    BY <2>1 DEF commit, Committing
  <2>3. PICK g : g = Graph(nodes, edges)
    OBVIOUS
  <2>4. nodes' = Applied(g, tx[c]).nodes /\ edges' = Applied(g, tx[c]).edges
    BY <2>1, <2>2, <2>3 DEF commit
  <2>5. tx[c] \in Seq(Items)
    BY DEF TxType
  <2>6. LastWins(g, Applied(g, tx[c]), tx[c])
    BY <2>3, <2>5, LoopMeaning
  <2>7. Graph(nodes', edges').nodes = nodes' /\ Graph(nodes', edges').edges = edges'
    BY DEF Graph
  <2>8. LastWins(g, Graph(nodes', edges'), tx[c])
    BY <2>4, <2>6, <2>7 DEF LastWins
  <2> QED
    BY <2>3, <2>8
<1> QED
  BY <1>1, TransactionsTyped, PTL DEF Spec, CommitMeaning

-----------------------------------------------------------------------------
(* The search for cycles.                                                  *)

LEMMA NumberOfNames == IsFiniteSet(Names) /\ Cardinality(Names) \in Nat
  BY NamesAssumption, FS_CardinalityType

\* f is s and then the search after each of n turns.
Looped(f, o, call, S, s, n) ==
    f = [i \in 0 .. n |-> IF i = 0 THEN s ELSE Turn(o, call, S, f[i - 1], i)]

\* A loop over any names has an end.
LEMMA LoopExists ==
    ASSUME NEW o, NEW call, NEW S, NEW s
    PROVE  Looped(Loop(o, call, S, s), o, call, S, s, Cardinality(Names))
<1> DEFINE T == {n \in Nat : ~ \E f : Looped(f, o, call, S, s, n)}
<1>1. T = {}
  <2> SUFFICES ASSUME T # {} PROVE FALSE
    OBVIOUS
  <2>1. T \subseteq Nat
    OBVIOUS
  <2>2. PICK n \in T : \A k \in T : n <= k
    <3> HIDE DEF T
    <3> QED
      BY <2>1, LeastNumber
  <2>3. n \in Nat /\ ~ \E f : Looped(f, o, call, S, s, n)
    OBVIOUS
  <2>4. n # 0
    <3> DEFINE f == [i \in 0 .. 0 |-> s]
    <3>1. Looped(f, o, call, S, s, 0)
      BY DEF Looped
    <3> QED
      BY <3>1, <2>3
  <2>5. n - 1 \in Nat
    BY <2>3, <2>4
  <2>6. n - 1 \notin T
    <3>1. ~(n <= n - 1)
      BY <2>3
    <3> HIDE DEF T
    <3> QED
      BY <2>2, <3>1
  <2>7. PICK f : Looped(f, o, call, S, s, n - 1)
    BY <2>5, <2>6
  <2> DEFINE h == [i \in 0 .. n |-> IF i = n THEN Turn(o, call, S, f[n - 1], n) ELSE f[i]]
  <2>8. /\ \A i \in 0 .. (n - 1) : h[i] = f[i]
        /\ h[n] = Turn(o, call, S, f[n - 1], n)
    BY <2>3
  <2>9. \A i \in 0 .. (n - 1) : f[i] = IF i = 0 THEN s ELSE Turn(o, call, S, f[i - 1], i)
    BY <2>7 DEF Looped
  <2>10. ASSUME NEW i \in 0 .. n
         PROVE  h[i] = IF i = 0 THEN s ELSE Turn(o, call, S, h[i - 1], i)
    <3>1. CASE i = n
      <4>1. n - 1 \in 0 .. (n - 1)
        BY <2>5
      <4>2. h[n - 1] = f[n - 1]
        BY <2>8, <4>1
      <4> HIDE DEF h
      <4> QED
        BY <2>4, <2>8, <3>1, <4>2
    <3>2. CASE i = 0
      <4>1. 0 \in 0 .. (n - 1)
        BY <2>5
      <4> HIDE DEF h
      <4> QED
        BY <2>8, <2>9, <3>2, <4>1
    <3>3. CASE i # n /\ i # 0
      <4>1. i \in 0 .. (n - 1) /\ i - 1 \in 0 .. (n - 1)
        BY <2>3, <3>3
      <4>2. h[i] = f[i] /\ h[i - 1] = f[i - 1]
        BY <2>8, <4>1
      <4> HIDE DEF h
      <4> QED
        BY <2>9, <3>3, <4>1, <4>2
    <3> QED
      BY <3>1, <3>2, <3>3
  <2>11. h = [i \in 0 .. n |-> h[i]]
    OBVIOUS
  <2> HIDE DEF h
  <2>12. Looped(h, o, call, S, s, n)
    BY <2>10, <2>11, Zenon DEF Looped
  <2> QED
    BY <2>3, <2>12
<1>2. \E f : Looped(f, o, call, S, s, Cardinality(Names))
  BY <1>1, NumberOfNames
<1>3. Loop(o, call, S, s) = CHOOSE f : Looped(f, o, call, S, s, Cardinality(Names))
  BY Zenon DEF Loop, Looped
<1> QED
  BY <1>2, <1>3

\* f is dfs with none, one, ... and n calls within each other.
IsNested(f, order, n) ==
    f = [d \in 0 .. n |-> IF d = 0 THEN <<>> ELSE Calls(order, f[d - 1])]

LEMMA NestedExists ==
    ASSUME NEW order
    PROVE  IsNested(Nested(order), order, Cardinality(Names) + 1)
<1> DEFINE T == {n \in Nat : ~ \E f : IsNested(f, order, n)}
<1>1. T = {}
  <2> SUFFICES ASSUME T # {} PROVE FALSE
    OBVIOUS
  <2>1. T \subseteq Nat
    OBVIOUS
  <2>2. PICK n \in T : \A k \in T : n <= k
    <3> HIDE DEF T
    <3> QED
      BY <2>1, LeastNumber
  <2>3. n \in Nat /\ ~ \E f : IsNested(f, order, n)
    OBVIOUS
  <2>4. n # 0
    <3> DEFINE f == [i \in 0 .. 0 |-> <<>>]
    <3>1. IsNested(f, order, 0)
      BY DEF IsNested
    <3> QED
      BY <3>1, <2>3
  <2>5. n - 1 \in Nat
    BY <2>3, <2>4
  <2>6. n - 1 \notin T
    <3>1. ~(n <= n - 1)
      BY <2>3
    <3> HIDE DEF T
    <3> QED
      BY <2>2, <3>1
  <2>7. PICK f : IsNested(f, order, n - 1)
    BY <2>5, <2>6
  <2> DEFINE h == [i \in 0 .. n |-> IF i = n THEN Calls(order, f[n - 1]) ELSE f[i]]
  <2>8. /\ \A i \in 0 .. (n - 1) : h[i] = f[i]
        /\ h[n] = Calls(order, f[n - 1])
    BY <2>3
  <2>9. \A i \in 0 .. (n - 1) : f[i] = IF i = 0 THEN <<>> ELSE Calls(order, f[i - 1])
    BY <2>7 DEF IsNested
  <2>10. ASSUME NEW i \in 0 .. n
         PROVE  h[i] = IF i = 0 THEN <<>> ELSE Calls(order, h[i - 1])
    <3>1. CASE i = n
      <4>1. n - 1 \in 0 .. (n - 1)
        BY <2>5
      <4>2. h[n - 1] = f[n - 1]
        BY <2>8, <4>1
      <4> HIDE DEF h
      <4> QED
        BY <2>4, <2>8, <3>1, <4>2
    <3>2. CASE i = 0
      <4>1. 0 \in 0 .. (n - 1)
        BY <2>5
      <4> HIDE DEF h
      <4> QED
        BY <2>8, <2>9, <3>2, <4>1
    <3>3. CASE i # n /\ i # 0
      <4>1. i \in 0 .. (n - 1) /\ i - 1 \in 0 .. (n - 1)
        BY <2>3, <3>3
      <4>2. h[i] = f[i] /\ h[i - 1] = f[i - 1]
        BY <2>8, <4>1
      <4> HIDE DEF h
      <4> QED
        BY <2>9, <3>3, <4>1, <4>2
    <3> QED
      BY <3>1, <3>2, <3>3
  <2>11. h = [i \in 0 .. n |-> h[i]]
    OBVIOUS
  <2> HIDE DEF h
  <2>12. IsNested(h, order, n)
    BY <2>10, <2>11, Zenon DEF IsNested
  <2> QED
    BY <2>3, <2>12
<1>2. Cardinality(Names) + 1 \in Nat
  BY NumberOfNames
<1>3. \E f : IsNested(f, order, Cardinality(Names) + 1)
  BY <1>1, <1>2
<1>4. Nested(order) = CHOOSE f : IsNested(f, order, Cardinality(Names) + 1)
  BY Zenon DEF Nested, IsNested
<1> QED
  BY <1>3, <1>4

\* The names that the search is done with.
Black(s) == s.visited \ s.stack

\* All that follows them is done with, too, and none is on a cycle.
Sound(s) ==
    /\ s \in Searches /\ s.stack \subseteq s.visited
    /\ \A m \in Black(s) : Successors(m) \subseteq Black(s) /\ ~Reaches(m, m)

\* A cycle can be reached from u.
Cyclic(u) == \E n \in Names : Reaches(n, n) /\ (u = n \/ Reaches(u, n))

\* dfs(u) may be called: a path leads to u from everything on the stack.
Callable(s, u) ==
    Sound(s) /\ s.has = FALSE /\ \A x \in s.stack : Reaches(x, u)

\* What it returns in t: there is a cycle, or it is done with S as well.
Returned(s, S, t) ==
    /\ t \in Searches
    /\ t.has = TRUE => \E v \in S : Cyclic(v)
    /\ t.has = FALSE => /\ Sound(t) /\ t.stack = s.stack /\ s.visited \subseteq t.visited
                        /\ S \subseteq Black(t)

\* The calls do that as long as fewer than d names are not visited.
Correct(call, d) ==
    \A s \in Searches, u \in Names :
        Callable(s, u) /\ Cardinality(Names \ s.visited) < d => Returned(s, {u}, call[s][u])

LEMMA EdgeReaches ==
    ASSUME NEW u, NEW v \in Successors(u)
    PROVE  Reaches(u, v)
  BY DEF Reaches

LEMMA ReachesOn ==
    ASSUME NEW x, NEW u \in Names, NEW v \in Successors(u), Reaches(x, u)
    PROVE  Reaches(x, v)
  BY DEF Reaches

LEMMA ReachesBefore ==
    ASSUME NEW u, NEW v \in Successors(u), NEW n, Reaches(v, n)
    PROVE  Reaches(u, n)
<1> SUFFICES ASSUME NEW C \in SUBSET Names, Successors(u) \subseteq C,
                    \A m \in C : Successors(m) \subseteq C
             PROVE  n \in C
  BY DEF Reaches
<1>1. v \in C
  OBVIOUS
<1> QED
  BY <1>1 DEF Reaches

\* What is reached from a name that the search is done with, it is done with.
LEMMA BlackReaches ==
    ASSUME NEW s, Sound(s), NEW u, Successors(u) \subseteq Black(s), NEW n, Reaches(u, n)
    PROVE  n \in Black(s)
<1>1. Black(s) \in SUBSET Names
  BY DEF Sound, Black, Searches
<1> QED
  BY <1>1 DEF Sound, Reaches

LEMMA FewerLeft ==
    ASSUME NEW s \in Searches, NEW t \in Searches, s.visited \subseteq t.visited
    PROVE  /\ Cardinality(Names \ s.visited) \in Nat /\ Cardinality(Names \ t.visited) \in Nat
           /\ Cardinality(Names \ t.visited) <= Cardinality(Names \ s.visited)
<1>1. Names \ t.visited \subseteq Names \ s.visited /\ Names \ s.visited \subseteq Names
  OBVIOUS
<1>2. IsFiniteSet(Names \ s.visited)
  BY <1>1, NumberOfNames, FS_Subset
<1> QED
  BY <1>1, <1>2, FS_Subset, FS_CardinalityType

\* A turn.
LEMMA TurnReturns ==
    ASSUME NEW o \in Orders, NEW call, NEW S \in SUBSET Names, NEW s, Sound(s), s.has = FALSE,
           \A x \in s.stack, v \in S : Reaches(x, v),
           NEW d \in Nat, Cardinality(Names \ s.visited) < d, Correct(call, d),
           NEW i \in 1 .. Cardinality(Names), NEW D \in SUBSET S, NEW t, Returned(s, D, t)
    PROVE  Returned(s, D \cup ({o[i]} \cap S), Turn(o, call, S, t, i))
<1> DEFINE v == o[i]
           y == Turn(o, call, S, t, i)
           E == D \cup ({v} \cap S)
<1>1. v \in Names
  BY DEF Orders
<1>2. t \in Searches /\ t.has \in BOOLEAN
  BY DEF Returned, Searches
<1>3. CASE t.has = TRUE
  <2>1. y = t
    BY <1>3 DEF Turn
  <2> QED
    BY <1>3, <2>1 DEF Returned
<1>4. CASE t.has = FALSE /\ v \notin S
  <2>1. y = t /\ E = D
    BY <1>4 DEF Turn
  <2> QED
    BY <2>1
<1>5. CASE t.has = FALSE /\ v \in S
  <2>1. y = call[t][v]
    BY <1>5 DEF Turn
  <2>2. Sound(t) /\ t.stack = s.stack /\ s.visited \subseteq t.visited /\ D \subseteq Black(t)
    BY <1>5 DEF Returned
  <2>3. Callable(t, v)
    BY <1>5, <2>2 DEF Callable
  <2>4. Cardinality(Names \ t.visited) < d
    <3>1. s \in Searches
      BY DEF Sound
    <3>2. /\ Cardinality(Names \ s.visited) \in Nat /\ Cardinality(Names \ t.visited) \in Nat
          /\ Cardinality(Names \ t.visited) <= Cardinality(Names \ s.visited)
      BY <3>1, <1>2, <2>2, FewerLeft
    <3> QED
      BY <3>2
  <2>5. Returned(t, {v}, y)
    BY <1>1, <1>2, <2>1, <2>3, <2>4 DEF Correct
  <2> HIDE DEF y, v
  <2>6. y \in Searches /\ (y.has = TRUE => \E x \in E : Cyclic(x))
    BY <1>5, <2>5 DEF Returned
  <2>7. ASSUME y.has = FALSE
        PROVE  /\ Sound(y) /\ y.stack = s.stack /\ s.visited \subseteq y.visited
               /\ E \subseteq Black(y)
    <3>1. Sound(y) /\ y.stack = t.stack /\ t.visited \subseteq y.visited /\ {v} \subseteq Black(y)
      BY <2>5, <2>7 DEF Returned
    <3>2. Black(t) \subseteq Black(y)
      BY <3>1 DEF Black
    <3> QED
      BY <2>2, <3>1, <3>2
  <2>8. Returned(s, E, y)
    BY <2>6, <2>7 DEF Returned
  <2> QED
    BY <2>8 DEF y, v
<1> QED
  BY <1>2, <1>3, <1>4, <1>5, Zenon

\* A loop over the names of S.
LEMMA LoopReturns ==
    ASSUME NEW o \in Orders, NEW call, NEW S \in SUBSET Names, NEW s, Sound(s), s.has = FALSE,
           \A x \in s.stack, v \in S : Reaches(x, v),
           NEW d \in Nat, Cardinality(Names \ s.visited) < d, Correct(call, d)
    PROVE  Returned(s, S, LoopEnd(o, call, S, s))
<1> DEFINE L == Cardinality(Names)
           Done(i) == {o[j] : j \in 1 .. i} \cap S
<1>1. PICK f : f = Loop(o, call, S, s)
  OBVIOUS
<1>2. Looped(f, o, call, S, s, L)
  BY <1>1, LoopExists
<1>3. L \in Nat
  BY NumberOfNames
<1> HIDE DEF L
<1>4. f[0] = s /\ \A i \in 1 .. L : f[i] = Turn(o, call, S, f[i - 1], i)
  <2>1. f[0] = s
    BY <1>2, <1>3 DEF Looped
  <2>2. ASSUME NEW i \in 1 .. L PROVE f[i] = Turn(o, call, S, f[i - 1], i)
    <3>1. i \in 0 .. L /\ i # 0
      BY <1>3
    <3> QED
      BY <1>2, <3>1 DEF Looped
  <2> QED
    BY <2>1, <2>2
<1>5. Returned(s, Done(0), f[0])
  <2>1. Done(0) = {}
    OBVIOUS
  <2>2. s \in Searches
    BY DEF Sound
  <2> QED
    BY <1>4, <2>1, <2>2 DEF Returned
<1>6. ASSUME NEW i \in 1 .. L, Returned(s, Done(i - 1), f[i - 1])
      PROVE  Returned(s, Done(i), f[i])
  <2>1. Done(i) = Done(i - 1) \cup ({o[i]} \cap S)
    <3>1. 1 .. i = 1 .. (i - 1) \cup {i}
      BY <1>3
    <3> QED
      BY <3>1
  <2>2. Done(i - 1) \in SUBSET S
    OBVIOUS
  <2>3. i \in 1 .. Cardinality(Names)
    BY DEF L
  <2>4. f[i] = Turn(o, call, S, f[i - 1], i)
    BY <1>4
  <2> HIDE DEF Done
  <2>5. Returned(s, Done(i - 1) \cup ({o[i]} \cap S), Turn(o, call, S, f[i - 1], i))
    BY <1>6, <2>2, <2>3, TurnReturns
  <2> QED
    BY <2>1, <2>4, <2>5
<1>7. Returned(s, Done(L), f[L])
  <2> DEFINE T == {i \in 0 .. L : ~Returned(s, Done(i), f[i])}
  <2>1. T = {}
    <3> SUFFICES ASSUME T # {} PROVE FALSE
      OBVIOUS
    <3>1. T \subseteq Nat
      BY <1>3
    <3>2. PICK n \in T : \A k \in T : n <= k
      <4> HIDE DEF T
      <4> QED
        BY <3>1, LeastNumber
    <3>3. n \in 0 .. L /\ ~Returned(s, Done(n), f[n])
      OBVIOUS
    <3> HIDE DEF Done
    <3>4. n # 0
      BY <1>5, <3>3
    <3>5. n \in 1 .. L /\ n - 1 \in 0 .. L /\ ~(n <= n - 1)
      BY <1>3, <3>3, <3>4
    <3>6. n - 1 \notin T
      <4> HIDE DEF T
      <4> QED
        BY <3>2, <3>5
    <3>7. Returned(s, Done(n - 1), f[n - 1])
      BY <3>5, <3>6
    <3> QED
      BY <1>6, <3>3, <3>5, <3>7
  <2>2. L \in 0 .. L
    BY <1>3
  <2> QED
    BY <2>1, <2>2
<1>8. Done(L) = S
  <2>1. ASSUME NEW v \in S PROVE \E j \in 1 .. L : o[j] = v
    BY DEF Orders, L
  <2> QED
    BY <2>1
<1>9. LoopEnd(o, call, S, s) = f[L]
  BY <1>1 DEF LoopEnd, L
<1> HIDE DEF Done
<1> QED
  BY <1>7, <1>8, <1>9

\* A call of dfs, if the calls that it makes are correct.
LEMMA VisitReturns ==
    ASSUME NEW order \in [Names -> Orders], NEW call, NEW d \in Nat, Correct(call, d),
           NEW s \in Searches, NEW u \in Names, Callable(s, u),
           Cardinality(Names \ s.visited) < d + 1
    PROVE  Returned(s, {u}, Visit(order, call, s, u))
<1> DEFINE enter == [s EXCEPT !.visited = s.visited \cup {u}, !.stack = s.stack \cup {u}]
           done  == LoopEnd(order[u], call, Successors(u), enter)
           y == Visit(order, call, s, u)
<1>0. Sound(s) /\ s.has = FALSE /\ (\A x \in s.stack : Reaches(x, u)) /\ s.stack \subseteq s.visited
  BY DEF Callable, Sound
<1>1. CASE u \in s.stack
  <2>1. y = [s EXCEPT !.has = TRUE]
    BY <1>1 DEF Visit
  <2>2. y \in Searches /\ y.has = TRUE
    BY <2>1 DEF Searches
  <2>3. Reaches(u, u)
    BY <1>0, <1>1
  <2>4. Cyclic(u)
    BY <2>3 DEF Cyclic
  <2> HIDE DEF y
  <2>5. Returned(s, {u}, y)
    BY <2>2, <2>4 DEF Returned
  <2> QED
    BY <2>5 DEF y
<1>2. CASE u \notin s.stack /\ u \in s.visited
  <2>1. y = s
    BY <1>2 DEF Visit
  <2>2. u \in Black(s)
    BY <1>2 DEF Black
  <2>3. Returned(s, {u}, s)
    BY <1>0, <2>2 DEF Returned
  <2> QED
    BY <2>1, <2>3
<1>3. CASE u \notin s.stack /\ u \notin s.visited
  <2>1. /\ enter \in Searches /\ enter.has = FALSE
        /\ enter.visited = s.visited \cup {u} /\ enter.stack = s.stack \cup {u}
    BY <1>0 DEF Searches
  <2>2. y = IF done.has THEN done ELSE Leave(done, u)
    BY <1>3 DEF Visit
  <2> HIDE DEF enter
  <2>3. Sound(enter)
    <3>1. Black(enter) = Black(s)
      BY <1>3, <2>1 DEF Black
    <3>2. enter.stack \subseteq enter.visited
      BY <1>0, <2>1
    <3> QED
      BY <1>0, <2>1, <3>1, <3>2 DEF Sound
  <2>4. ASSUME NEW x \in enter.stack, NEW v \in Successors(u) PROVE Reaches(x, v)
    <3>1. CASE x = u
      BY <3>1, EdgeReaches
    <3>2. CASE x \in s.stack
      BY <1>0, <3>2, ReachesOn
    <3> QED
      BY <2>1, <3>1, <3>2
  <2>5. Cardinality(Names \ enter.visited) < d
    <3>1. Names \ enter.visited = (Names \ s.visited) \ {u} /\ u \in Names \ s.visited
      BY <1>3, <2>1
    <3>2. IsFiniteSet(Names \ s.visited)
      BY NumberOfNames, FS_Subset
    <3>3. Cardinality((Names \ s.visited) \ {u}) = Cardinality(Names \ s.visited) - 1
      BY <3>1, <3>2, FS_RemoveElement
    <3>4. Cardinality(Names \ s.visited) \in Nat
      BY <3>2, FS_CardinalityType
    <3>5. Cardinality(Names \ enter.visited) = Cardinality(Names \ s.visited) - 1
      BY <3>1, <3>3, Zenon
    <3>6. PICK k \in Nat : k = Cardinality(Names \ s.visited)
      BY <3>4, Zenon
    <3>7. k < d + 1
      BY <3>6, Zenon
    <3>8. Cardinality(Names \ enter.visited) = k - 1
      BY <3>5, <3>6, Zenon
    <3>9. k - 1 < d
      BY <3>6, <3>7
    <3> QED
      BY <3>8, <3>9, Zenon
  <2>6. Successors(u) \in SUBSET Names /\ order[u] \in Orders
    BY DEF Successors
  <2>7. \A x \in enter.stack, v \in Successors(u) : Reaches(x, v)
    BY <2>4
  <2>8. Returned(enter, Successors(u), done)
    BY <2>1, <2>3, <2>5, <2>6, <2>7, LoopReturns
  <2> HIDE DEF done, y
  <2>9. done \in Searches /\ done.has \in BOOLEAN
    BY <2>8 DEF Returned, Searches
  <2>10. CASE done.has = TRUE
    <3>1. y = done
      BY <2>2, <2>10
    <3>2. PICK v \in Successors(u) : Cyclic(v)
      BY <2>8, <2>10 DEF Returned
    <3>3. PICK n \in Names : Reaches(n, n) /\ (v = n \/ Reaches(v, n))
      BY <3>2 DEF Cyclic
    <3>4. Reaches(u, n)
      BY <3>3, EdgeReaches, ReachesBefore
    <3>5. Cyclic(u)
      BY <3>3, <3>4 DEF Cyclic
    <3> QED
      BY <2>9, <2>10, <3>1, <3>5 DEF Returned, y
  <2>11. CASE done.has = FALSE
    <3>1. y = Leave(done, u)
      BY <2>2, <2>11
    <3>2. /\ Sound(done) /\ done.stack = enter.stack /\ enter.visited \subseteq done.visited
          /\ Successors(u) \subseteq Black(done)
      BY <2>8, <2>11 DEF Returned
    <3>3. /\ y \in Searches /\ y.has = FALSE /\ y.visited = done.visited
          /\ y.stack = done.stack \ {u}
      BY <2>9, <2>11, <3>1 DEF Leave, Searches
    <3>4. y.stack = s.stack /\ s.visited \subseteq y.visited /\ u \in y.visited
      BY <1>3, <2>1, <3>2, <3>3
    <3>5. u \in done.stack /\ u \notin Black(done)
      BY <2>1, <3>2 DEF Black
    <3>6. Black(y) = Black(done) \cup {u}
      BY <3>3, <3>4, <3>5 DEF Black
    <3>7. ~Reaches(u, u)
      BY <3>2, <3>5, BlackReaches
    <3>8. y.stack \subseteq y.visited
      BY <1>0, <3>4
    <3>9. \A m \in Black(y) : Successors(m) \subseteq Black(y) /\ ~Reaches(m, m)
      BY <3>2, <3>6, <3>7 DEF Sound
    <3>10. Sound(y)
      BY <3>3, <3>8, <3>9 DEF Sound
    <3>11. Returned(s, {u}, y)
      BY <3>3, <3>4, <3>6, <3>10 DEF Returned
    <3> QED
      BY <3>11 DEF y
  <2> QED
    BY <2>9, <2>10, <2>11
<1> QED
  BY <1>1, <1>2, <1>3

\* dfs, whatever the order of the successors.
LEMMA SearchCorrect ==
    ASSUME NEW order \in [Names -> Orders]
    PROVE  Correct(dfs(order), Cardinality(Names) + 1)
<1> DEFINE L == Cardinality(Names) + 1
<1>1. PICK f : f = Nested(order)
  OBVIOUS
<1>2. IsNested(f, order, L)
  BY <1>1, NestedExists
<1>3. L \in Nat
  BY NumberOfNames
<1>4. dfs(order) = f[L]
  BY <1>1 DEF dfs
<1> HIDE DEF L
<1>5. ASSUME NEW n \in 1 .. L, Correct(f[n - 1], n - 1)
      PROVE  Correct(f[n], n)
  <2>1. n \in 0 .. L /\ n # 0 /\ n - 1 \in Nat /\ (n - 1) + 1 = n
    BY <1>3
  <2>2. f[n] = Calls(order, f[n - 1])
    BY <1>2, <2>1 DEF IsNested
  <2> SUFFICES ASSUME NEW s \in Searches, NEW u \in Names, Callable(s, u),
                      Cardinality(Names \ s.visited) < n
               PROVE  Returned(s, {u}, f[n][s][u])
    BY DEF Correct
  <2>3. f[n][s][u] = Visit(order, f[n - 1], s, u)
    BY <2>2 DEF Calls
  <2>4. Cardinality(Names \ s.visited) < (n - 1) + 1
    BY <2>1
  <2>5. Returned(s, {u}, Visit(order, f[n - 1], s, u))
    BY <1>5, <2>1, <2>4, VisitReturns
  <2> QED
    BY <2>3, <2>5
<1>6. Correct(f[0], 0)
  <2> SUFFICES ASSUME NEW s \in Searches, Cardinality(Names \ s.visited) < 0 PROVE FALSE
    BY DEF Correct
  <2>1. Cardinality(Names \ s.visited) \in Nat
    BY FewerLeft
  <2> QED
    BY <2>1
<1> DEFINE T == {n \in 0 .. L : ~Correct(f[n], n)}
<1>7. T = {}
  <2> SUFFICES ASSUME T # {} PROVE FALSE
    OBVIOUS
  <2>1. T \subseteq Nat
    BY <1>3
  <2>2. PICK n \in T : \A k \in T : n <= k
    <3> HIDE DEF T
    <3> QED
      BY <2>1, LeastNumber
  <2>3. n \in 0 .. L /\ ~Correct(f[n], n)
    OBVIOUS
  <2>4. n # 0
    BY <1>6, <2>3
  <2>5. n \in 1 .. L /\ n - 1 \in 0 .. L /\ ~(n <= n - 1)
    BY <1>3, <2>3, <2>4
  <2>6. n - 1 \notin T
    <3> HIDE DEF T
    <3> QED
      BY <2>2, <2>5
  <2>7. Correct(f[n - 1], n - 1)
    BY <2>5, <2>6
  <2> QED
    BY <1>5, <2>3, <2>5, <2>7
<1>8. L \in 0 .. L
  BY <1>3
<1>9. Correct(f[L], L)
  BY <1>7, <1>8
<1> QED
  BY <1>4, <1>9 DEF L

\* has_cycle, for any graph and any orders of the hash tables.
LEMMA HasCycleExact ==
    ASSUME nodes \subseteq Names, Cardinality(nodes) >= 2,
           NEW roots \in Orders, NEW order \in [Names -> Orders]
    PROVE  has_cycle(roots, order) <=> CycleReachable
<1> DEFINE t == LoopEnd(roots, dfs(order), nodes, NewSearch)
           L == Cardinality(Names) + 1
<1>1. NewSearch \in Searches /\ NewSearch.has = FALSE /\ NewSearch.stack = {} /\ NewSearch.visited = {}
  BY DEF NewSearch, Searches
<1>2. Sound(NewSearch)
  BY <1>1 DEF Sound, Black
<1>3. L \in Nat /\ Cardinality(Names \ NewSearch.visited) < L
  <2>1. Names \ NewSearch.visited = Names
    BY <1>1
  <2> QED
    BY <2>1, NumberOfNames
<1>4. Correct(dfs(order), L)
  BY SearchCorrect
<1> HIDE DEF L
<1>5. \A x \in NewSearch.stack, v \in nodes : Reaches(x, v)
  BY <1>1
<1>6. Returned(NewSearch, nodes, t)
  BY <1>1, <1>2, <1>3, <1>4, <1>5, LoopReturns
<1>7. has_cycle(roots, order) <=> t.has
  BY DEF has_cycle
<1> HIDE DEF t
<1>8. t.has \in BOOLEAN
  BY <1>6 DEF Returned, Searches
<1>9. CASE t.has = TRUE
  <2>1. \E v \in nodes : Cyclic(v)
    BY <1>6, <1>9 DEF Returned
  <2>2. CycleReachable
    BY <2>1 DEF Cyclic, CycleReachable
  <2> QED
    BY <1>7, <1>9, <2>2, Zenon
<1>10. CASE t.has = FALSE
  <2>1. Sound(t) /\ nodes \subseteq Black(t)
    BY <1>6, <1>10 DEF Returned
  <2>2. ~CycleReachable
    <3> SUFFICES ASSUME NEW u \in nodes, NEW n \in Names, Reaches(n, n), u = n \/ Reaches(u, n)
                 PROVE  FALSE
      BY DEF CycleReachable
    <3>1. u \in Black(t) /\ Successors(u) \subseteq Black(t)
      BY <2>1 DEF Sound
    <3>2. n \in Black(t)
      BY <2>1, <3>1, BlackReaches
    <3> QED
      BY <2>1, <3>2 DEF Sound
  <2> QED
    BY <1>7, <1>10, <2>2, Zenon
<1> QED
  BY <1>8, <1>9, <1>10, Zenon

\* What a commit leaves are nodes of the given names.
LEMMA LoopNodes ==
    ASSUME NEW N \in SUBSET Names, NEW E, NEW items \in Seq(Items)
    PROVE  Applied(Graph(N, E), items).nodes \subseteq Names
<1> DEFINE L == Len(items)
<1>1. PICK f : f = Stages(Graph(N, E), items)
  OBVIOUS
<1>2. L \in Nat /\ \A i \in 1 .. L : items[i] \in Items
  OBVIOUS
<1>3. /\ f[0] = Graph(N, E)
      /\ \A i \in 1 .. L : /\ f[i] = ApplyItem(f[i - 1], items[i])
                           /\ f[i - 1] = Graph(f[i - 1].nodes, f[i - 1].edges)
  BY <1>1, StageSteps
<1>4. Applied(Graph(N, E), items) = f[L]
  BY <1>1 DEF Applied
<1> HIDE DEF L
<1>5. f[0].nodes \subseteq Names
  BY <1>3 DEF Graph
<1>6. ASSUME NEW M, NEW F, M \subseteq Names, NEW it \in Items
      PROVE  ApplyItem(Graph(M, F), it).nodes \subseteq Names
  BY <1>6 DEF ApplyItem, Graph, Items, NodeItems, EdgeItems
<1> DEFINE T == {n \in 0 .. L : ~(f[n].nodes \subseteq Names)}
<1>7. T = {}
  <2> SUFFICES ASSUME T # {} PROVE FALSE
    OBVIOUS
  <2>1. T \subseteq Nat
    BY <1>2
  <2>2. PICK n \in T : \A k \in T : n <= k
    <3> HIDE DEF T
    <3> QED
      BY <2>1, LeastNumber
  <2>3. n \in 0 .. L /\ ~(f[n].nodes \subseteq Names)
    OBVIOUS
  <2>4. n # 0
    BY <1>5, <2>3
  <2>5. n \in 1 .. L /\ n - 1 \in 0 .. L /\ ~(n <= n - 1)
    BY <1>2, <2>3, <2>4
  <2>6. n - 1 \notin T
    <3> HIDE DEF T
    <3> QED
      BY <2>2, <2>5
  <2>7. f[n - 1].nodes \subseteq Names
    BY <2>5, <2>6
  <2>8. /\ f[n] = ApplyItem(f[n - 1], items[n]) /\ items[n] \in Items
        /\ f[n - 1] = Graph(f[n - 1].nodes, f[n - 1].edges)
    BY <1>2, <1>3, <2>5
  <2>9. f[n].nodes \subseteq Names
    BY <1>6, <2>7, <2>8
  <2> QED
    BY <2>3, <2>9
<1>8. L \in 0 .. L
  BY <1>2
<1> QED
  BY <1>4, <1>7, <1>8

NodesType == nodes \subseteq Names

\* The nodes of the committed graph are names that addNode or addEdge was given.
THEOREM NodesAreNames == Spec => []NodesType
<1>1. Init => NodesType
  BY DEF Init, NodesType
<1>2. TxType /\ NodesType /\ [Next]_vars => NodesType'
  <2> SUFFICES ASSUME TxType, nodes \subseteq Names, [Next]_vars PROVE nodes' \subseteq Names
    BY DEF NodesType
  <2>1. ASSUME NEW c \in Clients, commit(c) PROVE nodes' \subseteq Names
    <3>1. tx[c] \in Seq(Items)
      BY DEF TxType
    <3>2. nodes' = Applied(Graph(nodes, edges), tx[c]).nodes
      BY <2>1 DEF commit
    <3> QED
      BY <3>1, <3>2, LoopNodes
  <2>2. CASE clear
    BY <2>2 DEF clear
  <2>3. CASE nodes' = nodes
    BY <2>3
  <2> QED
    BY <2>1, <2>2, <2>3 DEF Next, vars, begin_transaction, AddItem
<1> QED
  BY <1>1, <1>2, TransactionsTyped, PTL DEF Spec

\* has_cycle on every graph that transactions build, with one order for all.
THEOREM CyclesAreExact == Spec => []CycleExact
<1>1. NodesType => CycleExact
  <2> SUFFICES ASSUME nodes \subseteq Names, Cardinality(nodes) >= 2, NEW o \in Orders
               PROVE  has_cycle(o, [n \in Names |-> o]) <=> CycleReachable
    BY DEF CycleExact, NodesType
  <2>1. [n \in Names |-> o] \in [Names -> Orders]
    OBVIOUS
  <2> QED
    BY <2>1, HasCycleExact
<1> QED
  BY <1>1, NodesAreNames, PTL

\* The same, with each node's successors in an order of their own.
THEOREM CyclesInAnyOrder ==
    Spec => [](\A roots \in Orders, order \in [Names -> Orders] :
                  Cardinality(nodes) >= 2 => (has_cycle(roots, order) <=> CycleReachable))
<1>1. NodesType =>
          \A roots \in Orders, order \in [Names -> Orders] :
              Cardinality(nodes) >= 2 => (has_cycle(roots, order) <=> CycleReachable)
  BY HasCycleExact DEF NodesType
<1> QED
  BY <1>1, NodesAreNames, PTL
=============================================================================
