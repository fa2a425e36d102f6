--------------------------- MODULE ChannelProofs ---------------------------
(***************************************************************************)
(* The channels, for any number of threads, any capacity and any number of *)
(* frames.  In process: every frame accepted is in a queue, returned or    *)
(* lost, once; frames of one priority are returned in the order they were  *)
(* accepted; and no wakeup is lost.  Over TCP: a closed channel stays      *)
(* closed, a receiver waits with its own timeout, frames come out of the   *)
(* wire as they were encoded, and are numbered in each sender's order.     *)
(***************************************************************************)
EXTENDS Channel, FiniteSetTheorems, SequenceTheorems, TLAPS

-----------------------------------------------------------------------------
(* The queues.                                                             *)

\* What is in the queues once the head of one is taken.
LEMMA PoppedQueues ==
    ASSUME NEW qs \in [Prio -> Seq(Messages)], NEW p \in Prio, qs[p] # <<>>
    PROVE  /\ Popped(qs, p) \in [Prio -> Seq(Messages)]
           /\ Head(qs[p]) \in Messages /\ Head(qs[p]) = qs[p][1]
           /\ DOMAIN qs[p] = 1 .. Len(qs[p]) /\ Len(qs[p]) \in Nat \ {0}
           /\ DOMAIN Popped(qs, p)[p] = 1 .. (Len(qs[p]) - 1)
           /\ \A i \in 1 .. (Len(qs[p]) - 1) : Popped(qs, p)[p][i] = qs[p][i + 1]
           /\ \A o \in Prio \ {p} : Popped(qs, p)[o] = qs[o]
           /\ Total(Popped(qs, p)) = Total(qs) - 1 /\ Total(qs) \in Nat
<1>1. qs[p] \in Seq(Messages)
  OBVIOUS
<1>2. /\ Head(qs[p]) \in Messages /\ Tail(qs[p]) \in Seq(Messages)
      /\ Len(Tail(qs[p])) = Len(qs[p]) - 1
      /\ \A i \in 1 .. Len(Tail(qs[p])) : Tail(qs[p])[i] = qs[p][i + 1]
  BY <1>1, HeadTailProperties
<1>3. Len(qs[p]) \in Nat \ {0} /\ DOMAIN qs[p] = 1 .. Len(qs[p])
  BY <1>1, EmptySeq, LenProperties
<1>4. Head(qs[p]) = qs[p][1]
  BY <1>1
<1>5. Popped(qs, p)[p] = Tail(qs[p]) /\ \A o \in Prio \ {p} : Popped(qs, p)[o] = qs[o]
  BY DEF Popped
<1>6. DOMAIN Tail(qs[p]) = 1 .. (Len(qs[p]) - 1)
  BY <1>2, LenProperties
<1>7. Popped(qs, p) \in [Prio -> Seq(Messages)]
  BY <1>2 DEF Popped
<1>8. Heartbeat \in Prio /\ Control \in Prio /\ Data \in Prio
      /\ Heartbeat # Control /\ Control # Data /\ Heartbeat # Data
  BY DEF Prio, Heartbeat, Control, Data
<1>9. \A o \in Prio : Len(qs[o]) \in Nat
  BY LenProperties
<1>10. p = Heartbeat \/ p = Control \/ p = Data
  BY DEF Prio
<1>11. Total(Popped(qs, p)) = Total(qs) - 1 /\ Total(qs) \in Nat
  <2> DEFINE len(o) == Len(qs[o])
             left(o) == Len(Popped(qs, p)[o])
  <2>1. left(p) = len(p) - 1 /\ \A o \in Prio \ {p} : left(o) = len(o)
    BY <1>2, <1>5
  <2>2. /\ Total(qs) = len(Heartbeat) + len(Control) + len(Data)
        /\ Total(Popped(qs, p)) = left(Heartbeat) + left(Control) + left(Data)
    BY DEF Total
  <2>3. len(Heartbeat) \in Nat /\ len(Control) \in Nat /\ len(Data) \in Nat
    BY <1>8, <1>9
  <2> HIDE DEF len, left
  <2>4. CASE p = Heartbeat
    <3>1. left(Heartbeat) = len(Heartbeat) - 1 /\ left(Control) = len(Control) /\ left(Data) = len(Data)
      BY <2>1, <2>4, <1>8
    <3> QED
      BY <2>2, <2>3, <3>1
  <2>5. CASE p = Control
    <3>1. left(Heartbeat) = len(Heartbeat) /\ left(Control) = len(Control) - 1 /\ left(Data) = len(Data)
      BY <2>1, <2>5, <1>8
    <3> QED
      BY <2>2, <2>3, <3>1
  <2>6. CASE p = Data
    <3>1. left(Heartbeat) = len(Heartbeat) /\ left(Control) = len(Control) /\ left(Data) = len(Data) - 1
      BY <2>1, <2>6, <1>8
    <3> QED
      BY <2>2, <2>3, <3>1
  <2> QED
    BY <1>10, <2>4, <2>5, <2>6
<1> QED
  BY <1>2, <1>3, <1>4, <1>5, <1>6, <1>7, <1>11

\* Taking the head leaves the rest in order and behind everything taken so far.
LEMMA PoppedBefore ==
    ASSUME NEW qs \in [Prio -> Seq(Messages)], NEW n \in Nat, QueuesAscend(qs, n),
           NEW p \in Prio, qs[p] # <<>>
    PROVE  /\ QueuesAscend(Popped(qs, p), n)
           /\ Head(qs[p]).prio = p /\ Head(qs[p]).seq \in 1 .. n
           /\ Before(Head(qs[p]), Popped(qs, p), n)
           /\ \A m \in Messages : Before(m, qs, n) => Before(m, Popped(qs, p), n)
           /\ \A m \in Messages : Before(m, qs, n) => m # Head(qs[p])
           /\ \A m \in Messages : Before(m, qs, n) /\ m.prio = p => m.seq < Head(qs[p]).seq
<1> DEFINE rest == Popped(qs, p)
<1>1. /\ Head(qs[p]) \in Messages /\ Head(qs[p]) = qs[p][1]
      /\ DOMAIN qs[p] = 1 .. Len(qs[p]) /\ Len(qs[p]) \in Nat \ {0}
      /\ DOMAIN rest[p] = 1 .. (Len(qs[p]) - 1)
      /\ \A i \in 1 .. (Len(qs[p]) - 1) : rest[p][i] = qs[p][i + 1]
      /\ \A o \in Prio \ {p} : rest[o] = qs[o]
  BY PoppedQueues
<1>2. \A i \in DOMAIN rest[p] : i + 1 \in DOMAIN qs[p] /\ rest[p][i] = qs[p][i + 1]
  BY <1>1
<1>3. 1 \in DOMAIN qs[p]
  BY <1>1
<1>4. Head(qs[p]).prio = p /\ Head(qs[p]).seq \in 1 .. n
  BY <1>1, <1>3 DEF QueuesAscend
<1>5. QueuesAscend(rest, n)
  <2> SUFFICES ASSUME NEW o \in Prio
               PROVE  /\ \A i \in DOMAIN rest[o] : rest[o][i].prio = o /\ rest[o][i].seq \in 1 .. n
                      /\ \A i, j \in DOMAIN rest[o] : i < j => rest[o][i].seq < rest[o][j].seq
    BY DEF QueuesAscend
  <2>1. CASE o # p
    BY <2>1, <1>1 DEF QueuesAscend
  <2>2. CASE o = p
    <3>1. \A i \in DOMAIN rest[p] : rest[p][i].prio = p /\ rest[p][i].seq \in 1 .. n
      BY <1>2 DEF QueuesAscend
    <3>2. ASSUME NEW i \in DOMAIN rest[p], NEW j \in DOMAIN rest[p], i < j
          PROVE  rest[p][i].seq < rest[p][j].seq
      <4>1. i + 1 \in DOMAIN qs[p] /\ j + 1 \in DOMAIN qs[p] /\ i + 1 < j + 1
        BY <3>2, <1>1, <1>2
      <4> QED
        BY <4>1, <1>2 DEF QueuesAscend
    <3> QED
      BY <2>2, <3>1, <3>2
  <2> QED
    BY <2>1, <2>2
<1>6. Before(Head(qs[p]), rest, n)
  <2>1. ASSUME NEW i \in DOMAIN rest[p] PROVE qs[p][1].seq < rest[p][i].seq
    <3>1. i + 1 \in DOMAIN qs[p] /\ 1 < i + 1
      BY <1>1, <1>2
    <3> QED
      BY <3>1, <1>2, <1>3 DEF QueuesAscend
  <2> QED
    BY <2>1, <1>1, <1>4 DEF Before
<1>7. ASSUME NEW m \in Messages, Before(m, qs, n)
      PROVE  /\ Before(m, rest, n)
             /\ m.prio = p => m.seq < Head(qs[p]).seq
             /\ m # Head(qs[p])
  <2>0. m.prio \in Prio /\ m.seq \in Nat
    BY DEF Messages
  <2>1. Before(m, rest, n)
    <3>1. m.seq \in 1 .. n /\ \A i \in DOMAIN qs[m.prio] : m.seq < qs[m.prio][i].seq
      BY <1>7 DEF Before
    <3>2. CASE m.prio = p
      BY <3>1, <3>2, <1>2 DEF Before
    <3>3. CASE m.prio # p
      BY <3>1, <3>3, <1>1, <2>0 DEF Before
    <3> QED
      BY <3>2, <3>3
  <2>2. m.prio = p => m.seq < Head(qs[p]).seq
    BY <1>1, <1>3, <1>7 DEF Before
  <2>3. m # Head(qs[p])
    BY <2>0, <2>2, <1>4
  <2> QED
    BY <2>1, <2>2, <2>3
<1> QED
  BY <1>4, <1>5, <1>6, <1>7

\* A frame that had its number somewhere still has it once the head is taken,
\* if the head is kept with those returned or those lost.
LEMMA PoppedSomewhere ==
    ASSUME NEW qs \in [Prio -> Seq(Messages)], NEW p \in Prio, qs[p] # <<>>,
           NEW del, NEW lst, NEW del2, NEW lst2, NEW k,
           Somewhere(k, qs, del, lst), lst \subseteq lst2,
           \A i \in DOMAIN del : i \in DOMAIN del2 /\ del2[i] = del[i],
           Head(qs[p]) \in lst2 \/ \E i \in DOMAIN del2 : del2[i] = Head(qs[p])
    PROVE  Somewhere(k, Popped(qs, p), del2, lst2)
<1> DEFINE rest == Popped(qs, p)
<1>1. CASE \E o \in Prio : \E i \in DOMAIN qs[o] : qs[o][i].seq = k
  <2>0. PICK o \in Prio : \E i \in DOMAIN qs[o] : qs[o][i].seq = k
    BY <1>1
  <2>1. PICK i \in DOMAIN qs[o] : qs[o][i].seq = k
    BY <2>0
  <2>2. CASE o # p
    <3>1. rest[o] = qs[o]
      BY <2>2, PoppedQueues
    <3> QED
      BY <2>1, <3>1 DEF Somewhere
  <2>3. CASE o = p /\ i = 1
    <3>1. Head(qs[p]).seq = k
      BY <2>1, <2>3, PoppedQueues
    <3> QED
      BY <3>1 DEF Somewhere
  <2>4. CASE o = p /\ i # 1
    <3>1. i - 1 \in DOMAIN rest[p] /\ rest[p][i - 1] = qs[p][i]
      BY <2>4, PoppedQueues
    <3> QED
      BY <2>1, <2>4, <3>1 DEF Somewhere
  <2> QED
    BY <2>2, <2>3, <2>4
<1>2. CASE \E i \in DOMAIN del : del[i].seq = k
  BY <1>2 DEF Somewhere
<1>3. CASE \E m \in lst : m.seq = k
  BY <1>3 DEF Somewhere
<1> QED
  BY <1>1, <1>2, <1>3 DEF Somewhere

\* The head is returned.
LEMMA PopDelivered ==
    ASSUME NEW qs, NEW del, NEW lst, NEW n, FrameInv(qs, del, lst, n),
           NEW p \in Prio, qs[p] # <<>>
    PROVE  FrameInv(Popped(qs, p), Append(del, Head(qs[p])), lst, n)
<1> DEFINE head == Head(qs[p])
           rest == Popped(qs, p)
           del2 == Append(del, head)
<1>0. /\ qs \in [Prio -> Seq(Messages)] /\ del \in Seq(Messages) /\ lst \subseteq Messages
      /\ n \in Nat /\ IsFiniteSet(lst) /\ QueuesAscend(qs, n) /\ Ascending(del)
  BY DEF FrameInv
<1>1. rest \in [Prio -> Seq(Messages)] /\ head \in Messages
      /\ Total(rest) = Total(qs) - 1 /\ Total(qs) \in Nat
  BY <1>0, PoppedQueues
<1>2. /\ del2 \in Seq(Messages) /\ Len(del2) = Len(del) + 1 /\ Len(del) \in Nat
      /\ \A i \in 1 .. Len(del) : del2[i] = del[i]
      /\ del2[Len(del) + 1] = head
  BY <1>0, <1>1, AppendProperties, LenProperties
<1>3. DOMAIN del = 1 .. Len(del) /\ DOMAIN del2 = 1 .. (Len(del) + 1)
  BY <1>0, <1>2, LenProperties
<1>4. \A i \in DOMAIN del : del[i] \in Messages
  BY <1>0, <1>3, ElementOfSeq
<1>5. \A i \in DOMAIN del2 : Before(del2[i], rest, n)
  <2> SUFFICES ASSUME NEW i \in DOMAIN del2 PROVE Before(del2[i], rest, n)
    OBVIOUS
  <2>1. CASE i = Len(del) + 1
    BY <2>1, <1>0, <1>2, PoppedBefore
  <2>2. CASE i # Len(del) + 1
    <3>1. i \in DOMAIN del /\ del2[i] = del[i]
      BY <2>2, <1>2, <1>3
    <3> QED
      BY <3>1, <1>0, <1>4, PoppedBefore DEF FrameInv
  <2> QED
    BY <2>1, <2>2
<1>6. QueuesAscend(rest, n) /\ \A m \in lst : Before(m, rest, n)
  BY <1>0, PoppedBefore DEF FrameInv
<1>7. Ascending(del2)
  <2> SUFFICES ASSUME NEW i \in DOMAIN del2, NEW j \in DOMAIN del2,
                      i < j, del2[i].prio = del2[j].prio
               PROVE  del2[i].seq < del2[j].seq
    BY DEF Ascending
  <2>1. i \in DOMAIN del /\ del2[i] = del[i]
    BY <1>2, <1>3
  <2>2. CASE j = Len(del) + 1
    <3>1. del2[j] = head /\ head.prio = p
      BY <2>2, <1>0, <1>2, PoppedBefore
    <3> QED
      BY <2>1, <3>1, <1>0, <1>4, PoppedBefore DEF FrameInv
  <2>3. CASE j # Len(del) + 1
    BY <2>1, <2>3, <1>0, <1>2, <1>3 DEF Ascending
  <2> QED
    BY <2>2, <2>3
<1>8. \A k \in 1 .. n : Somewhere(k, rest, del2, lst)
  <2>1. \A i \in DOMAIN del : i \in DOMAIN del2 /\ del2[i] = del[i]
    BY <1>2, <1>3
  <2>2. \E i \in DOMAIN del2 : del2[i] = head
    BY <1>2, <1>3
  <2>3. \A k \in 1 .. n : Somewhere(k, qs, del, lst)
    BY DEF FrameInv
  <2> QED
    BY <2>1, <2>2, <2>3, <1>0, PoppedSomewhere
<1>9. n = Len(del2) + Cardinality(lst) + Total(rest)
  <2>1. Cardinality(lst) \in Nat
    BY <1>0, FS_CardinalityType
  <2> QED
    BY <2>1, <1>1, <1>2 DEF FrameInv
<1> QED
  BY <1>0, <1>1, <1>2, <1>5, <1>6, <1>7, <1>8, <1>9 DEF FrameInv

\* The head is popped by the predicate of the wait, and is lost.
LEMMA PopLost ==
    ASSUME NEW qs, NEW del, NEW lst, NEW n, FrameInv(qs, del, lst, n),
           NEW p \in Prio, qs[p] # <<>>
    PROVE  FrameInv(Popped(qs, p), del, lst \cup {Head(qs[p])}, n)
<1> DEFINE head == Head(qs[p])
           rest == Popped(qs, p)
           lst2 == lst \cup {head}
<1>0. /\ qs \in [Prio -> Seq(Messages)] /\ del \in Seq(Messages) /\ lst \subseteq Messages
      /\ n \in Nat /\ IsFiniteSet(lst) /\ QueuesAscend(qs, n) /\ Ascending(del)
  BY DEF FrameInv
<1>1. rest \in [Prio -> Seq(Messages)] /\ head \in Messages
      /\ Total(rest) = Total(qs) - 1 /\ Total(qs) \in Nat
  BY <1>0, PoppedQueues
<1>2. \A i \in DOMAIN del : del[i] \in Messages
  BY <1>0, LenProperties, ElementOfSeq
<1>3. \A i \in DOMAIN del : Before(del[i], rest, n)
  BY <1>0, <1>2, PoppedBefore DEF FrameInv
<1>4. QueuesAscend(rest, n) /\ \A m \in lst2 : Before(m, rest, n)
  BY <1>0, PoppedBefore DEF FrameInv
<1>5. head \notin lst
  BY <1>0, PoppedBefore DEF FrameInv
<1>6. IsFiniteSet(lst2) /\ Cardinality(lst2) = Cardinality(lst) + 1 /\ Cardinality(lst) \in Nat
  BY <1>0, <1>5, FS_AddElement, FS_CardinalityType
<1>7. \A k \in 1 .. n : Somewhere(k, rest, del, lst2)
  <2>1. \A k \in 1 .. n : Somewhere(k, qs, del, lst)
    BY DEF FrameInv
  <2>2. head \in lst2 /\ lst \subseteq lst2
    OBVIOUS
  <2> QED
    BY <2>1, <2>2, <1>0, PoppedSomewhere
<1>8. n = Len(del) + Cardinality(lst2) + Total(rest)
  BY <1>0, <1>1, <1>6, LenProperties DEF FrameInv
<1> QED
  BY <1>0, <1>1, <1>3, <1>4, <1>6, <1>7, <1>8 DEF FrameInv

\* A frame with the next number goes to the back of its queue.
LEMMA PushFrame ==
    ASSUME NEW qs, NEW del, NEW lst, NEW n, FrameInv(qs, del, lst, n), NEW p \in Prio,
           NEW qs2 \in [Prio -> Seq(Messages)],
           qs2[p] = Append(qs[p], [prio |-> p, seq |-> n + 1]),
           \A o \in Prio \ {p} : qs2[o] = qs[o]
    PROVE  FrameInv(qs2, del, lst, n + 1) /\ Total(qs2) = Total(qs) + 1
<1> DEFINE new == [prio |-> p, seq |-> n + 1]
           back == Append(qs[p], new)
<1>0. /\ qs \in [Prio -> Seq(Messages)] /\ del \in Seq(Messages) /\ lst \subseteq Messages
      /\ n \in Nat /\ IsFiniteSet(lst) /\ QueuesAscend(qs, n) /\ Ascending(del)
  BY DEF FrameInv
<1>1. new \in Messages /\ new.prio = p /\ new.seq = n + 1
  BY <1>0 DEF Messages
<1>2. /\ back \in Seq(Messages) /\ Len(back) = Len(qs[p]) + 1 /\ Len(qs[p]) \in Nat
      /\ \A i \in 1 .. Len(qs[p]) : back[i] = qs[p][i]
      /\ back[Len(qs[p]) + 1] = new
  BY <1>0, <1>1, AppendProperties, LenProperties
<1>3. DOMAIN qs[p] = 1 .. Len(qs[p]) /\ DOMAIN back = 1 .. (Len(qs[p]) + 1)
  BY <1>0, <1>2, LenProperties
<1>4. qs2 \in [Prio -> Seq(Messages)] /\ qs2[p] = back /\ \A o \in Prio \ {p} : qs2[o] = qs[o]
  OBVIOUS
<1>5. \A i \in DOMAIN back : \/ i = Len(qs[p]) + 1 /\ back[i] = new
                             \/ i \in DOMAIN qs[p] /\ back[i] = qs[p][i]
  BY <1>2, <1>3
<1> HIDE DEF new, back
<1>6. QueuesAscend(qs2, n + 1)
  <2> SUFFICES ASSUME NEW o \in Prio
               PROVE  /\ \A i \in DOMAIN qs2[o] :
                             qs2[o][i].prio = o /\ qs2[o][i].seq \in 1 .. (n + 1)
                      /\ \A i, j \in DOMAIN qs2[o] : i < j => qs2[o][i].seq < qs2[o][j].seq
    BY DEF QueuesAscend
  <2>1. \A i \in DOMAIN qs[o] : qs[o][i].prio = o /\ qs[o][i].seq \in 1 .. n
    BY <1>0 DEF QueuesAscend
  <2>2. CASE o # p
    <3>1. \A i \in DOMAIN qs[o] : qs[o][i].seq \in 1 .. (n + 1)
      BY <2>1, <1>0
    <3> QED
      BY <2>1, <2>2, <3>1, <1>0, <1>4 DEF QueuesAscend
  <2>3. CASE o = p
    <3>1. \A i \in DOMAIN back : back[i].prio = p /\ back[i].seq \in 1 .. (n + 1)
      BY <2>1, <2>3, <1>0, <1>1, <1>5
    <3>2. ASSUME NEW i \in DOMAIN back, NEW j \in DOMAIN back, i < j
          PROVE  back[i].seq < back[j].seq
      <4>1. i \in DOMAIN qs[p] /\ back[i] = qs[p][i] /\ qs[p][i].seq \in 1 .. n
        BY <2>1, <2>3, <3>2, <1>2, <1>3, <1>5
      <4>2. CASE j = Len(qs[p]) + 1 /\ back[j] = new
        BY <4>1, <4>2, <1>0, <1>1
      <4>3. CASE j \in DOMAIN qs[p] /\ back[j] = qs[p][j]
        BY <4>1, <4>3, <3>2, <1>0 DEF QueuesAscend
      <4> QED
        BY <4>2, <4>3, <1>5
    <3> QED
      BY <2>3, <3>1, <3>2, <1>4
  <2> QED
    BY <2>2, <2>3
<1>7. ASSUME NEW m \in Messages, Before(m, qs, n) PROVE Before(m, qs2, n + 1)
  <2>1. m.seq \in 1 .. n /\ \A i \in DOMAIN qs[m.prio] : m.seq < qs[m.prio][i].seq
    BY <1>7 DEF Before
  <2>2. m.seq \in 1 .. (n + 1) /\ m.seq < n + 1 /\ m.prio \in Prio
    BY <2>1, <1>0 DEF Messages
  <2>3. CASE m.prio = p
    BY <2>1, <2>2, <2>3, <1>1, <1>4, <1>5 DEF Before
  <2>4. CASE m.prio # p
    BY <2>1, <2>2, <2>4, <1>4 DEF Before
  <2> QED
    BY <2>3, <2>4
<1>8. \A i \in DOMAIN del : del[i] \in Messages
  BY <1>0, LenProperties, ElementOfSeq
<1>9. /\ \A i \in DOMAIN del : Before(del[i], qs2, n + 1)
      /\ \A m \in lst : Before(m, qs2, n + 1)
  BY <1>0, <1>7, <1>8 DEF FrameInv
<1>10. ASSUME NEW k \in 1 .. (n + 1) PROVE Somewhere(k, qs2, del, lst)
  <2>1. CASE k = n + 1
    <3>1. Len(qs[p]) + 1 \in DOMAIN qs2[p] /\ qs2[p][Len(qs[p]) + 1] = new
      BY <1>2, <1>3, <1>4
    <3> QED
      BY <2>1, <3>1, <1>1 DEF Somewhere
  <2>2. CASE k # n + 1
    <3>1. Somewhere(k, qs, del, lst)
      <4>1. k \in 1 .. n
        BY <2>2, <1>0
      <4> QED
        BY <4>1 DEF FrameInv
    <3>2. \A o \in Prio : \A i \in DOMAIN qs[o] : i \in DOMAIN qs2[o] /\ qs2[o][i] = qs[o][i]
      <4>1. \A i \in DOMAIN qs[p] : i \in DOMAIN back /\ back[i] = qs[p][i]
        BY <1>2, <1>3
      <4> QED
        BY <4>1, <1>4
    <3> QED
      BY <3>1, <3>2 DEF Somewhere
  <2> QED
    BY <2>1, <2>2
<1>11. Total(qs2) = Total(qs) + 1 /\ Total(qs) \in Nat
  <2> DEFINE len(o) == Len(qs[o])
             more(o) == Len(qs2[o])
  <2>1. more(p) = len(p) + 1 /\ \A o \in Prio \ {p} : more(o) = len(o)
    BY <1>2, <1>4
  <2>2. /\ Total(qs) = len(Heartbeat) + len(Control) + len(Data)
        /\ Total(qs2) = more(Heartbeat) + more(Control) + more(Data)
    BY DEF Total
  <2>3. \A o \in Prio : len(o) \in Nat
    BY <1>0, LenProperties
  <2> HIDE DEF len, more
  <2> QED
    BY <2>1, <2>2, <2>3 DEF Prio, Heartbeat, Control, Data
<1>12. n + 1 = Len(del) + Cardinality(lst) + Total(qs2)
  <2>1. Cardinality(lst) \in Nat /\ Len(del) \in Nat
    BY <1>0, FS_CardinalityType, LenProperties
  <2> QED
    BY <2>1, <1>11 DEF FrameInv
<1>13. n + 1 \in Nat
  BY <1>0
<1>14. FrameInv(qs2, del, lst, n + 1)
  BY <1>0, <1>4, <1>6, <1>9, <1>10, <1>12, <1>13 DEF FrameInv
<1> QED
  BY <1>11, <1>14

LEMMA TotalType ==
    ASSUME NEW qs \in [Prio -> Seq(Messages)]
    PROVE  Total(qs) \in Nat /\ (Empty(qs) <=> Total(qs) = 0)
<1>1. \A o \in Prio : Len(qs[o]) \in Nat /\ (qs[o] = <<>> <=> Len(qs[o]) = 0)
  BY EmptySeq, LenProperties
<1>2. Heartbeat \in Prio /\ Control \in Prio /\ Data \in Prio
      /\ \A o \in Prio : o = Heartbeat \/ o = Control \/ o = Data
  BY DEF Prio
<1>3. Empty(qs) <=> Len(qs[Heartbeat]) = 0 /\ Len(qs[Control]) = 0 /\ Len(qs[Data]) = 0
  BY <1>1, <1>2 DEF Empty
<1> QED
  BY <1>1, <1>2, <1>3 DEF Total

-----------------------------------------------------------------------------
(* The steps of the in-process channel.                                    *)

LEMMA Finite ==
    ASSUME TypeOK
    PROVE  /\ IsFiniteSet(Waiting) /\ IsFiniteSet(notified) /\ IsFiniteSet(Pushed)
           /\ Cardinality(notified) \in Nat /\ Cardinality(Pushed) \in Nat
           /\ notified \subseteq Waiting
<1>1. Waiting \in SUBSET Receivers /\ notified \in SUBSET Receivers /\ Pushed \in SUBSET Senders
  BY DEF TypeOK, Waiting, Pushed
<1>2. IsFiniteSet(Waiting) /\ IsFiniteSet(notified) /\ IsFiniteSet(Pushed)
  BY <1>1, ChannelAssumption, FS_Subset
<1> QED
  BY <1>2, FS_CardinalityType DEF TypeOK, Waiting

\* The channel as constructed.
LEMMA InprocInit ==
    ASSUME Init PROVE InprocInv
<1>1. <<>> \in Seq(Messages) /\ Len(<<>>) = 0
  BY EmptySeq
<1>2. closed \in BOOLEAN
  BY Zenon DEF Init
<1>3. TypeOK
  BY <1>1, <1>2 DEF Init, TypeOK, TimeoutKinds, Prio, Data
<1>4. FrameInv(queues, delivered, lost, next_seq)
  <2>1. IsFiniteSet(lost) /\ Cardinality(lost) = 0
    BY FS_EmptySet DEF Init
  <2>2. \A p \in Prio : queues[p] = <<>> /\ DOMAIN queues[p] = {}
    BY DEF Init
  <2>3. Empty(queues)
    BY <2>2 DEF Empty
  <2>4. queues \in [Prio -> Seq(Messages)] /\ next_seq \in Nat /\ delivered \in Seq(Messages)
        /\ lost \subseteq Messages
    BY <1>3 DEF TypeOK
  <2>5. Total(queues) = 0
    BY <2>3, <2>4, TotalType
  <2>6. DOMAIN delivered = {} /\ Len(delivered) = 0 /\ lost = {} /\ next_seq = 0
    BY <1>1 DEF Init
  <2>7. QueuesAscend(queues, next_seq) /\ Ascending(delivered)
    BY <2>2, <2>6 DEF QueuesAscend, Ascending
  <2>8. next_seq = Len(delivered) + Cardinality(lost) + Total(queues)
    BY <2>1, <2>5, <2>6
  <2>9. 1 .. next_seq = {}
    BY <2>6
  <2> QED
    BY <2>1, <2>4, <2>6, <2>7, <2>8, <2>9 DEF FrameInv
<1>5. EnoughNotified
  BY DEF Init, EnoughNotified, Waiting
<1> QED
  BY <1>3, <1>4, <1>5 DEF InprocInv

LEMMA SendBeginStep ==
    ASSUME InprocInv, NEW s \in Senders, SendBegin(s)
    PROVE  InprocInv'
<1>1. /\ UNCHANGED <<queues, closed, next_seq, rpc, rwait, notified, cpc, delivered, lost>>
      /\ spc[s] = "idle" /\ spc' = [spc EXCEPT ![s] = "open"]
  BY DEF SendBegin, receivers
<1>2. sprio' \in [Senders -> Prio]
  BY DEF InprocInv, TypeOK, SendBegin
<1>3. TypeOK'
  BY <1>1, <1>2 DEF InprocInv, TypeOK
<1>4. Pushed' = Pushed /\ Waiting' = Waiting
  BY <1>1 DEF InprocInv, TypeOK, Pushed, Waiting
<1> QED
  BY <1>1, <1>3, <1>4 DEF InprocInv, EnoughNotified

LEMMA SendPushStep ==
    ASSUME InprocInv, NEW s \in Senders, SendPush(s)
    PROVE  InprocInv'
<1> TypeOK
  BY DEF InprocInv
<1>1. /\ UNCHANGED <<closed, sprio, rpc, rwait, notified, cpc, delivered, lost>>
      /\ spc[s] = "open" /\ spc' = [spc EXCEPT ![s] = "pushed"]
      /\ next_seq' = next_seq + 1
  BY DEF SendPush, receivers
<1>2. sprio[s] \in Prio
  BY DEF TypeOK
<1>3. /\ FrameInv(queues', delivered, lost, next_seq + 1)
      /\ Total(queues') = Total(queues) + 1
  <2> DEFINE back == Append(queues[sprio[s]], [prio |-> sprio[s], seq |-> next_seq + 1])
  <2>1. FrameInv(queues, delivered, lost, next_seq)
    BY DEF InprocInv
  <2>2. back \in Seq(Messages)
    <3>1. [prio |-> sprio[s], seq |-> next_seq + 1] \in Messages
      BY <1>2 DEF Messages, TypeOK
    <3> QED
      BY <1>2, <3>1, AppendProperties DEF TypeOK
  <2>3. /\ queues' \in [Prio -> Seq(Messages)] /\ queues'[sprio[s]] = back
        /\ \A o \in Prio \ {sprio[s]} : queues'[o] = queues[o]
    BY <1>2, <2>2 DEF SendPush, TypeOK
  <2> QED
    BY <2>1, <2>3, <1>2, PushFrame
<1>4. queues' \in [Prio -> Seq(Messages)] /\ next_seq' \in Nat
  BY <1>1, <1>3 DEF FrameInv
<1>5. TypeOK'
  BY <1>1, <1>4 DEF TypeOK
<1>6. Pushed' = Pushed \cup {s} /\ s \notin Pushed /\ Waiting' = Waiting
  BY <1>1 DEF TypeOK, Pushed, Waiting
<1>7. Cardinality(Pushed') = Cardinality(Pushed) + 1
  BY <1>6, Finite, FS_AddElement
<1>8. Total(queues) \in Nat
  BY TotalType DEF TypeOK
<1>9. EnoughNotified'
  <2>1. CASE Waiting \subseteq notified
    BY <2>1, <1>1, <1>6 DEF EnoughNotified
  <2>2. CASE Total(queues) <= Cardinality(notified) + Cardinality(Pushed)
    <3>1. Total(queues') <= Cardinality(notified) + Cardinality(Pushed')
      BY <2>2, <1>3, <1>7, <1>8, Finite
    <3> QED
      BY <3>1, <1>1 DEF EnoughNotified
  <2> QED
    BY <2>1, <2>2 DEF InprocInv, EnoughNotified
<1> QED
  BY <1>1, <1>3, <1>5, <1>9 DEF InprocInv

LEMMA SendFullStep ==
    ASSUME InprocInv, NEW s \in Senders, SendFull(s)
    PROVE  InprocInv'
<1>1. /\ UNCHANGED <<queues, closed, next_seq, rpc, rwait, notified, cpc, delivered, lost>>
      /\ spc[s] = "open" /\ spc' = [spc EXCEPT ![s] = "idle"]
      /\ sprio' = [sprio EXCEPT ![s] = Data]
  BY DEF SendFull, SendReturn, receivers
<1>2. TypeOK'
  BY <1>1 DEF InprocInv, TypeOK, Prio
<1>3. Pushed' = Pushed /\ Waiting' = Waiting
  BY <1>1 DEF InprocInv, TypeOK, Pushed, Waiting
<1> QED
  BY <1>1, <1>2, <1>3 DEF InprocInv, EnoughNotified

\* notify_one reaches a receiver that no other notify has reached, or there is
\* none.
LEMMA SendNotifyStep ==
    ASSUME InprocInv, NEW s \in Senders, SendNotify(s)
    PROVE  InprocInv'
<1> TypeOK
  BY DEF InprocInv
<1>1. /\ UNCHANGED <<queues, closed, next_seq, rpc, rwait, cpc, delivered, lost>>
      /\ spc[s] = "pushed" /\ spc' = [spc EXCEPT ![s] = "idle"]
      /\ sprio' = [sprio EXCEPT ![s] = Data] /\ NotifyOne
  BY DEF SendNotify, SendReturn, receivers
<1>2. notified' \subseteq Waiting /\ Waiting' = Waiting
  BY <1>1 DEF TypeOK, NotifyOne, Waiting
<1>3. TypeOK'
  BY <1>1, <1>2 DEF TypeOK, Prio, Waiting
<1>4. Pushed' = Pushed \ {s} /\ s \in Pushed
  BY <1>1 DEF TypeOK, Pushed
<1>5. Cardinality(Pushed') = Cardinality(Pushed) - 1
  BY <1>4, Finite, FS_RemoveElement
<1>6. Total(queues) \in Nat
  BY TotalType DEF TypeOK
<1>7. EnoughNotified'
  <2>1. CASE Waiting \subseteq notified
    BY <2>1, <1>1, <1>2 DEF EnoughNotified, NotifyOne
  <2>2. CASE ~(Waiting \subseteq notified)
    <3>1. PICK r \in Waiting \ notified : notified' = notified \cup {r}
      BY <2>2, <1>1 DEF NotifyOne
    <3>2. Cardinality(notified') = Cardinality(notified) + 1
      BY <3>1, Finite, FS_AddElement
    <3>3. Total(queues) <= Cardinality(notified) + Cardinality(Pushed)
      BY <2>2 DEF InprocInv, EnoughNotified
    <3>4. Total(queues) <= Cardinality(notified') + Cardinality(Pushed')
      BY <3>2, <3>3, <1>5, <1>6, Finite
    <3> QED
      BY <3>4, <1>1 DEF EnoughNotified
  <2> QED
    BY <2>1, <2>2
<1> QED
  BY <1>1, <1>3, <1>7 DEF InprocInv

\* The first pick() of recv_base: frames fewer, nobody's waiting disturbed.
LEMMA RecvNowStep ==
    ASSUME InprocInv, NEW r \in Receivers, RecvNow(r)
    PROVE  InprocInv'
<1> TypeOK
  BY DEF InprocInv
<1>1. UNCHANGED <<closed, next_seq, spc, sprio, rpc, rwait, notified, cpc, lost>>
  BY DEF RecvNow, senders, receivers
<1>2. PICK p \in Prio : /\ Top(queues, p)
                        /\ delivered' = Append(delivered, Head(queues[p]))
                        /\ queues' = Popped(queues, p)
  BY DEF RecvNow
<1>3. queues[p] # <<>> /\ queues \in [Prio -> Seq(Messages)]
  BY <1>2 DEF Top, TypeOK
<1>4. FrameInv(queues', delivered', lost, next_seq)
  BY <1>2, <1>3, PopDelivered DEF InprocInv
<1>5. Total(queues') = Total(queues) - 1 /\ Total(queues) \in Nat
  BY <1>2, <1>3, PoppedQueues
<1>6. queues' \in [Prio -> Seq(Messages)] /\ delivered' \in Seq(Messages)
  BY <1>4 DEF FrameInv
<1>7. TypeOK'
  BY <1>1, <1>6 DEF TypeOK
<1>8. Pushed' = Pushed /\ Waiting' = Waiting /\ notified' = notified
  BY <1>1 DEF Pushed, Waiting
<1>9. EnoughNotified'
  BY <1>5, <1>8, Finite DEF InprocInv, EnoughNotified
<1> QED
  BY <1>1, <1>4, <1>7, <1>9 DEF InprocInv

\* A receiver waits only when there is no frame.
LEMMA RecvWaitStep ==
    ASSUME InprocInv, NEW r \in Receivers, RecvWait(r)
    PROVE  InprocInv'
<1> TypeOK
  BY DEF InprocInv
<1>1. /\ UNCHANGED <<queues, closed, next_seq, spc, sprio, notified, cpc, delivered, lost>>
      /\ rpc' = [rpc EXCEPT ![r] = "waiting"] /\ Empty(queues)
  BY DEF RecvWait, senders
<1>2. rwait' \in [Receivers -> TimeoutKinds]
  BY ChannelAssumption DEF RecvWait, TypeOK
<1>3. notified \subseteq {q \in Receivers : rpc'[q] = "waiting"}
  BY <1>1 DEF TypeOK
<1>4. TypeOK'
  BY <1>1, <1>2, <1>3 DEF TypeOK
<1>5. Total(queues) = 0
  BY <1>1, TotalType DEF TypeOK
<1>6. Pushed' = Pushed
  BY <1>1 DEF Pushed
<1>7. EnoughNotified'
  BY <1>1, <1>5, <1>6, Finite DEF EnoughNotified
<1> QED
  BY <1>1, <1>4, <1>7 DEF InprocInv

\* A receiver that stops waiting takes its notify with it, and a frame unless
\* there is none.
LEMMA ReturnStep ==
    ASSUME InprocInv, NEW r \in Receivers, rpc[r] = "waiting", Return(r),
           FrameInv(queues', delivered', lost', next_seq),
           Total(queues') = 0 \/ Total(queues') < Total(queues)
    PROVE  InprocInv'
<1> TypeOK
  BY DEF InprocInv
<1>1. /\ rpc' = [rpc EXCEPT ![r] = "idle"] /\ rwait' = [rwait EXCEPT ![r] = "zero"]
      /\ notified' = notified \ {r} /\ UNCHANGED <<closed, next_seq, spc, sprio, cpc>>
  BY DEF Return, senders
<1>2. /\ queues' \in [Prio -> Seq(Messages)] /\ delivered' \in Seq(Messages)
      /\ lost' \subseteq Messages
  BY DEF FrameInv
<1>3. notified' \subseteq {q \in Receivers : rpc'[q] = "waiting"}
  BY <1>1 DEF TypeOK
<1>4. TypeOK'
  BY <1>1, <1>2, <1>3 DEF TypeOK, TimeoutKinds
<1>5. Waiting' = Waiting \ {r} /\ Pushed' = Pushed
  BY <1>1 DEF Waiting, Pushed, TypeOK
<1>6. Cardinality(notified') >= Cardinality(notified) - 1 /\ Cardinality(notified') \in Nat
  <2>1. /\ IsFiniteSet(notified')
        /\ Cardinality(notified') = IF r \in notified THEN Cardinality(notified) - 1
                                    ELSE Cardinality(notified)
    BY <1>1, Finite, FS_RemoveElement
  <2>2. Cardinality(notified') \in Nat
    BY <2>1, FS_CardinalityType
  <2> QED
    BY <2>1, <2>2, Finite
<1>7. Total(queues) \in Nat /\ Total(queues') \in Nat
  BY <1>2, TotalType DEF TypeOK
<1>8. EnoughNotified'
  <2>1. CASE Waiting \subseteq notified
    BY <2>1, <1>1, <1>5 DEF EnoughNotified
  <2>2. CASE Total(queues) <= Cardinality(notified) + Cardinality(Pushed)
    <3>1. Total(queues') <= Cardinality(notified') + Cardinality(Pushed)
      BY <2>2, <1>6, <1>7, Finite
    <3> QED
      BY <3>1, <1>5 DEF EnoughNotified
  <2> QED
    BY <2>1, <2>2 DEF InprocInv, EnoughNotified
<1> QED
  BY <1>1, <1>4, <1>8 DEF InprocInv

LEMMA WakeClosedStep ==
    ASSUME InprocInv, NEW r \in Receivers, WakeClosed(r)
    PROVE  InprocInv'
<1>1. rpc[r] = "waiting" /\ Return(r) /\ lost' = lost /\ queues \in [Prio -> Seq(Messages)]
  BY DEF WakeClosed, InprocInv, TypeOK
<1>2. CASE Empty(queues) /\ UNCHANGED <<queues, delivered>>
  <2>1. Total(queues') = 0
    BY <1>1, <1>2, TotalType
  <2> QED
    BY <1>1, <1>2, <2>1, ReturnStep DEF InprocInv
<1>3. CASE \E p \in Prio : /\ Top(queues, p)
                           /\ delivered' = Append(delivered, Head(queues[p]))
                           /\ queues' = Popped(queues, p)
  <2>1. PICK p \in Prio : /\ Top(queues, p)
                          /\ delivered' = Append(delivered, Head(queues[p]))
                          /\ queues' = Popped(queues, p)
    BY <1>3
  <2>2. queues[p] # <<>>
    BY <2>1 DEF Top
  <2>3. FrameInv(queues', delivered', lost', next_seq)
    BY <1>1, <2>1, <2>2, PopDelivered DEF InprocInv
  <2>4. Total(queues') < Total(queues)
    BY <1>1, <2>1, <2>2, PoppedQueues
  <2> QED
    BY <1>1, <2>3, <2>4, ReturnStep
<1> QED
  BY <1>2, <1>3 DEF WakeClosed

\* The predicate pops a frame that is lost, and the second pick() the next one.
LEMMA WakeMessageStep ==
    ASSUME InprocInv, NEW r \in Receivers, WakeMessage(r)
    PROVE  InprocInv'
<1>1. rpc[r] = "waiting" /\ Return(r) /\ queues \in [Prio -> Seq(Messages)]
  BY DEF WakeMessage, InprocInv, TypeOK
<1>2. PICK p \in Prio :
          /\ Top(queues, p)
          /\ lost' = lost \cup {Head(queues[p])}
          /\ LET rest == Popped(queues, p) IN
             \/ Empty(rest) /\ queues' = rest /\ UNCHANGED delivered
             \/ \E p2 \in Prio : /\ Top(rest, p2)
                                 /\ delivered' = Append(delivered, Head(rest[p2]))
                                 /\ queues' = Popped(rest, p2)
  BY DEF WakeMessage
<1> DEFINE rest == Popped(queues, p)
<1>3. queues[p] # <<>>
  BY <1>2 DEF Top
<1>4. FrameInv(rest, delivered, lost', next_seq)
  BY <1>2, <1>3, PopLost DEF InprocInv
<1>5. /\ rest \in [Prio -> Seq(Messages)]
      /\ Total(rest) = Total(queues) - 1 /\ Total(queues) \in Nat
  BY <1>1, <1>3, PoppedQueues
<1> HIDE DEF rest
<1>6. CASE queues' = rest /\ UNCHANGED delivered
  <2>1. Total(queues') < Total(queues)
    BY <1>5, <1>6
  <2> QED
    BY <1>1, <1>4, <1>6, <2>1, ReturnStep
<1>7. CASE \E p2 \in Prio : /\ Top(rest, p2)
                            /\ delivered' = Append(delivered, Head(rest[p2]))
                            /\ queues' = Popped(rest, p2)
  <2>1. PICK p2 \in Prio : /\ Top(rest, p2)
                           /\ delivered' = Append(delivered, Head(rest[p2]))
                           /\ queues' = Popped(rest, p2)
    BY <1>7
  <2>2. rest[p2] # <<>>
    BY <2>1 DEF Top
  <2>3. FrameInv(queues', delivered', lost', next_seq)
    BY <1>4, <2>1, <2>2, PopDelivered
  <2>4. Total(queues') = Total(rest) - 1
    BY <1>5, <2>1, <2>2, PoppedQueues
  <2>5. Total(queues') < Total(queues)
    BY <1>5, <2>4
  <2> QED
    BY <1>1, <2>3, <2>5, ReturnStep
<1> QED
  BY <1>2, <1>6, <1>7 DEF rest

LEMMA WakeNothingStep ==
    ASSUME InprocInv, NEW r \in Receivers, WakeNothing(r)
    PROVE  InprocInv'
<1> TypeOK
  BY DEF InprocInv
<1>1. rpc[r] = "waiting" /\ Empty(queues) /\ UNCHANGED <<queues, delivered, lost>>
  BY DEF WakeNothing
<1>2. Total(queues) = 0 /\ Total(queues') = 0
  BY <1>1, TotalType DEF TypeOK
<1>3. CASE Return(r)
  BY <1>1, <1>2, <1>3, ReturnStep DEF InprocInv
<1>4. CASE /\ notified' = notified \ {r}
           /\ UNCHANGED <<closed, next_seq, senders, receivers, cpc>>
  <2>1. UNCHANGED <<closed, next_seq, spc, sprio, rpc, rwait, cpc>>
    BY <1>4 DEF senders, receivers
  <2>2. TypeOK'
    BY <1>1, <1>4, <2>1 DEF TypeOK
  <2>3. Pushed' = Pushed /\ IsFiniteSet(notified') /\ Cardinality(notified') \in Nat
    BY <1>4, <2>1, Finite, FS_RemoveElement, FS_CardinalityType DEF Pushed
  <2>4. EnoughNotified'
    BY <1>2, <2>3, Finite DEF EnoughNotified
  <2> QED
    BY <1>1, <2>1, <2>2, <2>4 DEF InprocInv
<1> QED
  BY <1>3, <1>4 DEF WakeNothing

\* close() sets the flag, and later notifies all.
LEMMA CloseStep ==
    ASSUME InprocInv, CloseFlag \/ CloseNotify
    PROVE  InprocInv'
<1> TypeOK
  BY DEF InprocInv
<1>1. UNCHANGED <<queues, next_seq, spc, sprio, rpc, rwait, delivered, lost>>
  BY DEF CloseFlag, CloseNotify, senders, receivers
<1>2. closed' \in BOOLEAN
  BY Zenon DEF CloseFlag, CloseNotify, TypeOK
<1>3. cpc' \in {"idle", "flagged", "done"} /\ (notified' = notified \/ notified' = Waiting)
  BY DEF CloseFlag, CloseNotify
<1>4. TypeOK'
  BY <1>1, <1>2, <1>3 DEF TypeOK, Waiting
<1>5. Pushed' = Pushed /\ Waiting' = Waiting
  BY <1>1 DEF Pushed, Waiting
<1>6. EnoughNotified'
  BY <1>1, <1>3, <1>5 DEF InprocInv, EnoughNotified
<1> QED
  BY <1>1, <1>4, <1>6 DEF InprocInv

LEMMA InprocStep ==
    ASSUME InprocInv, [Next]_vars PROVE InprocInv'
<1>1. ASSUME NEW s \in Senders, SendStep(s) PROVE InprocInv'
  BY <1>1, SendBeginStep, SendPushStep, SendFullStep, SendNotifyStep DEF SendStep
<1>2. ASSUME NEW r \in Receivers, RecvStep(r) PROVE InprocInv'
  BY <1>2, RecvNowStep, RecvWaitStep, WakeClosedStep, WakeMessageStep, WakeNothingStep
  DEF RecvStep, Wake
<1>3. CASE CloseFlag \/ CloseNotify
  BY <1>3, CloseStep
<1>4. CASE UNCHANGED vars
  BY <1>4
  DEF vars, senders, receivers, InprocInv, TypeOK, EnoughNotified, Waiting, Pushed
<1> QED
  BY <1>1, <1>2, <1>3, <1>4 DEF Next

\* A behaviour of the channel is, to the in-process transport, one of its own.
LEMMA ChannelImpliesInproc == ChannelSpec => Init /\ [][Next]_vars
<1>1. ChannelInit => Init
  BY DEF ChannelInit
<1>2. [ChannelNext]_channelVars => [Next]_vars
  BY DEF ChannelNext, channelVars
<1> QED
  BY <1>1, <1>2, PTL DEF ChannelSpec

\* The in-process transport's invariant: where every frame is, and that there
\* are notifies for those that are queued.
THEOREM InprocInvariant == ChannelSpec => []InprocInv
<1>1. Init => InprocInv
  BY InprocInit
<1>2. InprocInv /\ [Next]_vars => InprocInv'
  BY InprocStep
<1> QED
  BY <1>1, <1>2, ChannelImpliesInproc, PTL

\* Every accepted frame is in a queue, returned or lost, and only once
\* (send_base and recv_base of InprocChannel).
THEOREM FramesAccounted == ChannelSpec => []Accounted
<1>1. InprocInv => Accounted
  <2> SUFFICES ASSUME InprocInv PROVE Accounted
    OBVIOUS
  <2> DEFINE queued == UNION {{queues[p][i] : i \in DOMAIN queues[p]} : p \in Prio}
             back == {delivered[i] : i \in DOMAIN delivered}
             all == queued \cup back \cup lost
  <2>1. FrameInv(queues, delivered, lost, next_seq)
    BY DEF InprocInv
  <2>2. \A k \in 1 .. next_seq : \E m \in all : m.seq = k
    BY <2>1 DEF FrameInv, Somewhere
  <2>3. \A m \in all : m.seq \in 1 .. next_seq
    BY <2>1 DEF FrameInv, QueuesAscend, Before
  <2>4. {m.seq : m \in all} = 1 .. next_seq
    BY <2>2, <2>3
  <2>5. next_seq = Len(delivered) + Cardinality(lost)
                     + Len(queues[Heartbeat]) + Len(queues[Control]) + Len(queues[Data])
    <3>1. /\ Len(delivered) \in Nat /\ Cardinality(lost) \in Nat
          /\ \A p \in Prio : Len(queues[p]) \in Nat
      BY <2>1, LenProperties, FS_CardinalityType DEF FrameInv
    <3>2. /\ Len(queues[Heartbeat]) \in Nat /\ Len(queues[Control]) \in Nat
          /\ Len(queues[Data]) \in Nat
      BY <3>1 DEF Prio
    <3>3. next_seq = Len(delivered) + Cardinality(lost) + Total(queues)
      BY <2>1 DEF FrameInv
    <3>4. Total(queues) = Len(queues[Heartbeat]) + Len(queues[Control]) + Len(queues[Data])
      BY DEF Total
    <3> QED
      <4> DEFINE a == Len(delivered)
                 b == Cardinality(lost)
                 h == Len(queues[Heartbeat])
                 c == Len(queues[Control])
                 d == Len(queues[Data])
      <4>1. a \in Nat /\ b \in Nat /\ h \in Nat /\ c \in Nat /\ d \in Nat
        BY <3>1, <3>2
      <4>2. next_seq = a + b + (h + c + d)
        BY <3>3, <3>4
      <4> HIDE DEF a, b, h, c, d
      <4>3. next_seq = a + b + h + c + d
        BY <4>1, <4>2
      <4> QED
        BY <4>3 DEF a, b, h, c, d
  <2> QED
    BY <2>4, <2>5 DEF Accounted
<1> QED
  BY <1>1, InprocInvariant, PTL

\* Frames of one priority come out in the order they went in.
THEOREM FramesInOrder == ChannelSpec => []DeliveredInOrder
<1>1. InprocInv => DeliveredInOrder
  BY DEF InprocInv, FrameInv, Ascending, DeliveredInOrder
<1> QED
  BY <1>1, InprocInvariant, PTL

\* No receiver sleeps beside a queued frame unnotified.
THEOREM WakeupsNotLost == ChannelSpec => []NoLostWakeup
<1>1. InprocInv => NoLostWakeup
  <2> SUFFICES ASSUME InprocInv, ~Empty(queues), \A s \in Senders : spc[s] # "pushed",
                      Waiting # {}
               PROVE  Waiting \cap notified # {}
    BY DEF NoLostWakeup
  <2>1. TypeOK /\ Pushed = {}
    BY DEF InprocInv, Pushed
  <2>2. CASE Waiting \subseteq notified
    BY <2>2
  <2>3. CASE Total(queues) <= Cardinality(notified) + Cardinality(Pushed)
    <3>1. Total(queues) \in Nat /\ Total(queues) # 0
      BY <2>1, TotalType DEF TypeOK
    <3>2. Cardinality(Pushed) = 0 /\ Cardinality(notified) \in Nat
      BY <2>1, Finite, FS_EmptySet
    <3>3. Cardinality(notified) # 0
      BY <2>3, <3>1, <3>2
    <3>4. notified # {} /\ notified \subseteq Waiting
      BY <2>1, <3>3, Finite, FS_EmptySet
    <3> QED
      BY <3>4
  <2> QED
    BY <2>2, <2>3 DEF InprocInv, EnoughNotified
<1> QED
  BY <1>1, InprocInvariant, PTL

-----------------------------------------------------------------------------
(* The steps over TCP.                                                     *)

\* The library's record, one field set.
LEMMA LibraryUpdate ==
    ASSUME NEW z, DOMAIN z = {"linked", "rcvtimeo", "outq", "inq"}, NEW v
    PROVE  /\ LET y == [z EXCEPT !.linked = v]
              IN  DOMAIN y = DOMAIN z /\ y.rcvtimeo = z.rcvtimeo /\ y.inq = z.inq
           /\ LET y == [z EXCEPT !.outq = v]
              IN  DOMAIN y = DOMAIN z /\ y.rcvtimeo = z.rcvtimeo /\ y.inq = z.inq
           /\ LET y == [z EXCEPT !.inq = v]
              IN  DOMAIN y = DOMAIN z /\ y.rcvtimeo = z.rcvtimeo /\ y.inq = v
           /\ LET y == [z EXCEPT !.rcvtimeo = v]
              IN  DOMAIN y = DOMAIN z /\ y.rcvtimeo = v /\ y.inq = z.inq
           /\ LET y == [z EXCEPT !.linked = FALSE, !.outq = <<>>, !.inq = <<>>]
              IN  DOMAIN y = DOMAIN z /\ y.rcvtimeo = z.rcvtimeo /\ y.inq = <<>>
  OBVIOUS

LEMMA TouchNotStray ==
    ASSUME NEW call, call.late = FALSE, stray = FALSE, T!Touch(call)
    PROVE  stray' = FALSE
  BY Zenon DEF T!Touch

\* The channel as constructed, with or without a socket and a connection.
LEMMA TcpConstructed ==
    ASSUME NEW threads, NEW socket \in {"open", "null"}, NEW auto \in BOOLEAN,
           T!Constructed(threads, socket, auto)
    PROVE  T!TcpInv
<1>2. /\ sock = socket /\ tcpClosed = FALSE /\ tcpSeq = 0 /\ tcpClose = "idle"
      /\ zmq = [linked |-> auto, rcvtimeo |-> T!Default, outq |-> <<>>, inq |-> <<>>]
      /\ snd = [s \in Senders |-> T!NoSend] /\ rcv = [r \in Receivers |-> T!NoRecv]
      /\ stray = FALSE /\ overlapped = FALSE
  BY DEF T!Constructed
<1>3. T!NoSend \in T!SendCalls /\ T!NoRecv \in T!RecvCalls
  BY DEF T!NoSend, T!SendCalls, T!NoRecv, T!RecvCalls, T!Prio, T!RecvPcs, T!Limits
<1>4. DOMAIN zmq = {"linked", "rcvtimeo", "outq", "inq"} /\ zmq.rcvtimeo = T!Default /\ zmq.inq = <<>>
  BY <1>2
<1>5. T!TypeOK
  <2>1. overlapped \in BOOLEAN
    BY <1>2, Zenon
  <2> QED
    BY <2>1, <1>2, <1>3, <1>4 DEF T!TypeOK, T!Limits
<1>6. T!NoSend.late = FALSE /\ T!NoRecv.late = FALSE /\ T!NoRecv.pc = "idle"
  BY DEF T!NoSend, T!NoRecv
<1>7. T!NoneLate
  BY <1>2, <1>6 DEF T!NoneLate
<1>8. T!DownWhenFreed
  BY <1>2 DEF T!DownWhenFreed
<1>9. T!OneReceives /\ T!TimeoutInPlace
  BY <1>2, <1>4, <1>6 DEF T!OneReceives, T!TimeoutInPlace, T!Receiving
<1> QED
  BY <1>5, <1>7, <1>8, <1>9 DEF T!TcpInv

LEMMA TcpInit ==
    ASSUME T!Absent \/ T!Init PROVE T!TcpInv
<1>1. CASE T!Absent
  BY <1>1, TcpConstructed DEF T!Absent
<1>2. CASE T!Init
  BY <1>2, TcpConstructed DEF T!Init
<1> QED
  BY <1>1, <1>2

\* Steps that leave the receivers and the library's timeout alone.
LEMMA ReceiversAlone ==
    ASSUME T!TcpInv, rcv' = rcv, overlapped' = overlapped, zmq'.rcvtimeo = zmq.rcvtimeo,
           sock' = "open" => sock = "open"
    PROVE  T!OneReceives' /\ T!TimeoutInPlace'
<1>1. T!OneReceives'
  BY DEF T!TcpInv, T!OneReceives, T!Receiving
<1>2. T!TimeoutInPlace'
  BY DEF T!TcpInv, T!TimeoutInPlace, T!Receiving
<1> QED
  BY <1>1, <1>2

\* A call with its number drawn.
LEMMA CallNumbered ==
    ASSUME NEW call \in T!SendCalls, NEW n \in Nat
    PROVE  /\ [call EXCEPT !.pc = "send", !.seq = n] \in T!SendCalls
           /\ [call EXCEPT !.pc = "send", !.seq = n].late = call.late
  BY DEF T!SendCalls

LEMMA TcpSendStep ==
    ASSUME T!TcpInv, NEW s \in Senders, T!Send(s)
    PROVE  T!TcpInv'
<1>0. /\ T!TypeOK /\ T!NoneLate /\ T!DownWhenFreed
      /\ snd[s] \in T!SendCalls /\ snd[s].late = FALSE /\ stray = FALSE
      /\ DOMAIN zmq = {"linked", "rcvtimeo", "outq", "inq"}
  BY DEF T!TcpInv, T!TypeOK, T!NoneLate
<1>1. UNCHANGED <<tcpClosed, rcv, tcpClose, overlapped>> /\ sock' = sock
  BY DEF T!Send, T!SendBegin, T!SendNumber, T!SendMsg
<1>2. ASSUME T!SendBegin(s)
      PROVE  /\ snd' \in [Senders -> T!SendCalls] /\ \A q \in Senders : snd'[q].late = FALSE
             /\ UNCHANGED <<zmq, connected, tcpSeq, stray>>
  <2>1. tcpClose = "idle"
    BY <1>0, <1>2, Zenon DEF T!SendBegin, T!Usable, T!NoneLate
  <2>2. T!Late = FALSE
    BY <2>1 DEF T!Late
  <2>3. PICK p \in T!Prio :
           snd' = [snd EXCEPT ![s] = [pc |-> "number", late |-> FALSE, prio |-> p, seq |-> 0]]
    BY <1>2, <2>2 DEF T!SendBegin
  <2>4. [pc |-> "number", late |-> FALSE, prio |-> p, seq |-> 0] \in T!SendCalls
    BY DEF T!SendCalls
  <2>5. snd' \in [Senders -> T!SendCalls] /\ \A q \in Senders : snd'[q].late = FALSE
    BY <2>3, <2>4, <1>0 DEF T!TypeOK, T!NoneLate
  <2> QED
    BY <1>2, <2>5 DEF T!SendBegin
<1>3. ASSUME T!SendNumber(s)
      PROVE  /\ snd' \in [Senders -> T!SendCalls] /\ \A q \in Senders : snd'[q].late = FALSE
             /\ UNCHANGED <<zmq, connected>> /\ tcpSeq' \in Nat /\ stray' = FALSE
  <2>1. snd' = [snd EXCEPT ![s] = [snd[s] EXCEPT !.pc = "send", !.seq = tcpSeq + 1]]
    BY <1>3 DEF T!SendNumber
  <2>2. /\ [snd[s] EXCEPT !.pc = "send", !.seq = tcpSeq + 1] \in T!SendCalls
        /\ [snd[s] EXCEPT !.pc = "send", !.seq = tcpSeq + 1].late = FALSE
    <3>1. tcpSeq + 1 \in Nat
      BY <1>0 DEF T!TypeOK
    <3> QED
      BY <1>0, <3>1, CallNumbered
  <2>3. snd' \in [Senders -> T!SendCalls] /\ \A q \in Senders : snd'[q].late = FALSE
    BY <2>1, <2>2, <1>0 DEF T!TypeOK, T!NoneLate
  <2>4. stray' = FALSE
    <3>1. stray' = stray \/ T!Touch(snd[s])
      BY <1>3 DEF T!SendNumber
    <3> QED
      BY <3>1, <1>0, TouchNotStray
  <2>5. tcpSeq' \in Nat
    BY <1>3, <1>0 DEF T!SendNumber, T!Numbered, T!TypeOK
  <2> QED
    BY <2>3, <2>4, <2>5, <1>3 DEF T!SendNumber
<1>4. ASSUME T!SendMsg(s)
      PROVE  /\ snd' \in [Senders -> T!SendCalls] /\ \A q \in Senders : snd'[q].late = FALSE
             /\ DOMAIN zmq' = DOMAIN zmq /\ zmq'.rcvtimeo = zmq.rcvtimeo /\ zmq'.inq = zmq.inq
             /\ (connected' = connected \/ connected' = FALSE)
             /\ tcpSeq' = tcpSeq /\ stray' = FALSE
  <2>1. T!NoSend \in T!SendCalls /\ T!NoSend.late = FALSE
    BY DEF T!NoSend, T!SendCalls, T!Prio
  <2>2. snd' \in [Senders -> T!SendCalls] /\ \A q \in Senders : snd'[q].late = FALSE
    BY <1>4, <2>1, <1>0 DEF T!SendMsg, T!TypeOK, T!NoneLate
  <2>3. stray' = FALSE
    BY <1>4, <1>0, TouchNotStray DEF T!SendMsg
  <2>4. DOMAIN zmq' = DOMAIN zmq /\ zmq'.rcvtimeo = zmq.rcvtimeo /\ zmq'.inq = zmq.inq
    <3>1. CASE T!SendOk(s)
      BY <3>1, <1>0, LibraryUpdate DEF T!SendOk
    <3>2. CASE T!SendFull \/ T!SendError
      BY <3>2 DEF T!SendFull, T!SendError
    <3> QED
      BY <1>4, <3>1, <3>2 DEF T!SendMsg
  <2>5. connected' = connected \/ connected' = FALSE
    BY <1>4 DEF T!SendMsg, T!SendOk, T!SendFull, T!SendError
  <2> QED
    BY <2>2, <2>3, <2>4, <2>5, <1>4 DEF T!SendMsg
<1>5. /\ snd' \in [Senders -> T!SendCalls] /\ \A q \in Senders : snd'[q].late = FALSE
      /\ DOMAIN zmq' = DOMAIN zmq /\ zmq'.rcvtimeo = zmq.rcvtimeo /\ zmq'.inq = zmq.inq
      /\ (connected' = connected \/ connected' = FALSE)
      /\ tcpSeq' \in Nat /\ stray' = FALSE
  BY <1>0, <1>2, <1>3, <1>4 DEF T!Send, T!TypeOK
<1>6. T!TypeOK'
  BY <1>0, <1>1, <1>5 DEF T!TypeOK
<1>7. T!NoneLate'
  BY <1>0, <1>1, <1>5 DEF T!NoneLate
<1>8. T!DownWhenFreed'
  BY <1>0, <1>1, <1>5 DEF T!DownWhenFreed
<1> QED
  BY <1>1, <1>5, <1>6, <1>7, <1>8, ReceiversAlone DEF T!TcpInv

LEMMA TcpConnectStep ==
    ASSUME T!TcpInv, NEW c \in Connectors, T!Connect(c)
    PROVE  T!TcpInv'
<1>0. /\ T!TypeOK /\ T!NoneLate /\ T!DownWhenFreed
      /\ DOMAIN zmq = {"linked", "rcvtimeo", "outq", "inq"}
  BY DEF T!TcpInv, T!TypeOK
<1>1. UNCHANGED <<sock, tcpClosed, tcpSeq, snd, rcv, tcpClose, stray, overlapped>>
  BY DEF T!Connect
<1>2. /\ DOMAIN zmq' = DOMAIN zmq /\ zmq'.rcvtimeo = zmq.rcvtimeo /\ zmq'.inq = zmq.inq
      /\ sock # "open" => connected' = connected
  <2>1. CASE UNCHANGED <<zmq, connected>>
    BY <2>1
  <2>2. CASE ~T!Refused /\ zmq' = [zmq EXCEPT !.linked = TRUE] /\ connected' = TRUE
    BY <2>2, <1>0, LibraryUpdate DEF T!Refused
  <2> QED
    BY <2>1, <2>2 DEF T!Connect, T!ConnectBegin, T!ConnectLocked
<1>3. T!TypeOK'
  BY <1>0, <1>1, <1>2 DEF T!TypeOK
<1>4. T!NoneLate'
  BY <1>0, <1>1 DEF T!NoneLate
<1>5. T!DownWhenFreed'
  BY <1>0, <1>1, <1>2 DEF T!DownWhenFreed
<1> QED
  BY <1>1, <1>2, <1>3, <1>4, <1>5, ReceiversAlone DEF T!TcpInv

\* close() and the peer.
LEMMA TcpCloseStep ==
    ASSUME T!TcpInv, T!Close
    PROVE  T!TcpInv'
<1>0. /\ T!TypeOK /\ T!NoneLate /\ T!DownWhenFreed
      /\ DOMAIN zmq = {"linked", "rcvtimeo", "outq", "inq"}
  BY DEF T!TcpInv, T!TypeOK
<1>1. UNCHANGED <<tcpSeq, snd, rcv, stray, overlapped>>
  BY DEF T!Close
<1>2. /\ DOMAIN zmq' = DOMAIN zmq /\ zmq'.rcvtimeo = zmq.rcvtimeo
      /\ zmq'.inq = zmq.inq \/ zmq'.inq = <<>>
  <2>1. CASE T!CloseFlag \/ T!CloseClear
    BY <2>1 DEF T!CloseFlag, T!CloseClear
  <2>2. CASE T!CloseFree
    BY <2>2, <1>0, LibraryUpdate DEF T!CloseFree
  <2> QED
    BY <2>1, <2>2 DEF T!Close
<1>3. /\ sock' = sock \/ sock' \in {"freed", "null"}
      /\ tcpClose' \in {"flagged", "freed", "done"}
      /\ tcpClosed' = TRUE
  <2>1. CASE T!CloseFlag
    BY <2>1 DEF T!CloseFlag
  <2>2. CASE T!CloseFree
    BY <2>2, <1>0 DEF T!CloseFree, T!NoneLate
  <2>3. CASE T!CloseClear
    BY <2>3, <1>0 DEF T!CloseClear, T!NoneLate
  <2> QED
    BY <2>1, <2>2, <2>3 DEF T!Close
<1>4. T!TypeOK'
  <2>1. <<>> \in Seq(T!PeerFrames)
    BY EmptySeq
  <2> QED
    BY <2>1, <1>0, <1>1, <1>2, <1>3 DEF T!TypeOK
<1>5. T!NoneLate'
  BY <1>0, <1>1, <1>3 DEF T!NoneLate
<1>6. T!DownWhenFreed'
  <2>1. CASE T!CloseFlag
    BY <2>1 DEF T!CloseFlag, T!DownWhenFreed
  <2>2. CASE T!CloseFree
    BY <2>2 DEF T!CloseFree, T!DownWhenFreed
  <2>3. CASE T!CloseClear
    BY <2>3, <1>0 DEF T!CloseClear, T!DownWhenFreed
  <2> QED
    BY <2>1, <2>2, <2>3 DEF T!Close
<1>7. sock' = "open" => sock = "open"
  BY <1>3
<1> QED
  BY <1>1, <1>2, <1>4, <1>5, <1>6, <1>7, ReceiversAlone DEF T!TcpInv

LEMMA TcpPeerStep ==
    ASSUME T!TcpInv, T!Peer
    PROVE  T!TcpInv'
<1>0. /\ T!TypeOK /\ T!NoneLate /\ T!DownWhenFreed
      /\ DOMAIN zmq = {"linked", "rcvtimeo", "outq", "inq"}
  BY DEF T!TcpInv, T!TypeOK
<1>1. UNCHANGED <<sock, tcpClosed, connected, tcpSeq, snd, rcv, tcpClose, stray, overlapped>>
  BY DEF T!Peer, T!calls
<1>2. DOMAIN zmq' = DOMAIN zmq /\ zmq'.rcvtimeo = zmq.rcvtimeo /\ zmq'.inq \in Seq(T!PeerFrames)
  <2>1. CASE T!PeerReceives
    BY <2>1, <1>0, LibraryUpdate DEF T!PeerReceives, T!TypeOK
  <2>2. CASE T!PeerSends
    <3>1. PICK b \in T!PeerFrames : zmq' = [zmq EXCEPT !.inq = Append(zmq.inq, b)]
      BY <2>2 DEF T!PeerSends
    <3>2. Append(zmq.inq, b) \in Seq(T!PeerFrames)
      BY <1>0, AppendProperties DEF T!TypeOK
    <3> QED
      BY <3>1, <3>2, <1>0, LibraryUpdate
  <2> QED
    BY <2>1, <2>2 DEF T!Peer
<1>3. T!TypeOK'
  BY <1>0, <1>1, <1>2 DEF T!TypeOK
<1>4. T!NoneLate' /\ T!DownWhenFreed'
  BY <1>0, <1>1 DEF T!NoneLate, T!DownWhenFreed
<1> QED
  BY <1>1, <1>2, <1>3, <1>4, ReceiversAlone DEF T!TcpInv

\* What the library's timeout has to be beside a call y of recv_base.
InPlace(y, t) ==
    /\ y.pc \in {"idle", "save", "set"} => t = T!Default
    /\ y.pc \in {"set", "recv", "wait", "restore"} => y.old = T!Default
    /\ y.pc = "recv" => t = y.asked
    /\ y.pc = "wait" => y.limit = y.asked

\* One call of recv_base goes on to y and the others are not under way, unless
\* calls overlap.
LEMMA OneAdvances ==
    ASSUME T!TcpInv, NEW r \in Receivers, NEW y \in T!RecvCalls,
           rcv' = [rcv EXCEPT ![r] = y], y.late = FALSE, stray' = FALSE,
           overlapped' \in BOOLEAN,
           UNCHANGED <<sock, tcpClosed, connected, tcpSeq, snd, tcpClose>>,
           DOMAIN zmq' = DOMAIN zmq, zmq'.rcvtimeo \in T!Limits,
           zmq'.inq \in Seq(T!PeerFrames),
           overlapped' = FALSE => \A o \in Receivers \ {r} : ~T!Receiving(o),
           sock = "open" /\ overlapped' = FALSE => InPlace(y, zmq'.rcvtimeo)
    PROVE  T!TcpInv'
<1>0. T!TypeOK /\ T!NoneLate /\ T!DownWhenFreed
  BY DEF T!TcpInv
<1>1. rcv'[r] = y /\ \A o \in Receivers \ {r} : rcv'[o] = rcv[o]
  BY <1>0 DEF T!TypeOK
<1>2. T!TypeOK'
  BY <1>0 DEF T!TypeOK
<1>3. T!NoneLate'
  BY <1>0, <1>1 DEF T!NoneLate
<1>4. T!DownWhenFreed'
  BY <1>0 DEF T!DownWhenFreed
<1>5. ASSUME overlapped' = FALSE
      PROVE  \A o \in Receivers \ {r} : rcv'[o].pc = "idle"
  BY <1>1, <1>5 DEF T!Receiving
<1>6. T!OneReceives'
  BY <1>5 DEF T!OneReceives, T!Receiving
<1>7. T!TimeoutInPlace'
  <2> SUFFICES ASSUME sock = "open", overlapped' = FALSE
               PROVE  /\ (\A o \in Receivers : rcv'[o].pc = "idle") => zmq'.rcvtimeo = T!Default
                      /\ \A o \in Receivers :
                            /\ rcv'[o].pc \in {"save", "set"} => zmq'.rcvtimeo = T!Default
                            /\ rcv'[o].pc \in {"set", "recv", "wait", "restore"}
                                 => rcv'[o].old = T!Default
                            /\ rcv'[o].pc = "recv" => zmq'.rcvtimeo = rcv'[o].asked
                            /\ rcv'[o].pc = "wait" => rcv'[o].limit = rcv'[o].asked
    BY DEF T!TimeoutInPlace, T!Receiving
  <2> QED
    BY <1>1, <1>5 DEF InPlace
<1> QED
  BY <1>2, <1>3, <1>4, <1>6, <1>7 DEF T!TcpInv

LEMMA TcpRecvStep ==
    ASSUME T!TcpInv, NEW r \in Receivers, T!Recv(r)
    PROVE  T!TcpInv'
<1> DEFINE call == rcv[r]
<1>0. /\ T!TypeOK /\ T!NoneLate /\ T!OneReceives /\ T!TimeoutInPlace
      /\ call \in T!RecvCalls /\ call.late = FALSE /\ stray = FALSE /\ overlapped \in BOOLEAN
      /\ DOMAIN zmq = {"linked", "rcvtimeo", "outq", "inq"}
      /\ zmq.rcvtimeo \in T!Limits /\ zmq.inq \in Seq(T!PeerFrames)
  BY DEF T!TcpInv, T!TypeOK, T!NoneLate
<1>1. UNCHANGED <<sock, tcpClosed, connected, tcpSeq, snd, tcpClose>>
  BY DEF T!Recv
<1>2. call.asked \in T!Limits /\ call.old \in T!Limits
  BY <1>0 DEF T!RecvCalls
<1>3. ASSUME T!Receiving(r), overlapped = FALSE
      PROVE  \A o \in Receivers \ {r} : ~T!Receiving(o)
  BY <1>0, <1>3 DEF T!OneReceives
<1>4. ASSUME sock = "open", overlapped = FALSE
      PROVE  /\ (\A o \in Receivers : ~T!Receiving(o)) => zmq.rcvtimeo = T!Default
             /\ call.pc \in {"save", "set"} => zmq.rcvtimeo = T!Default
             /\ call.pc \in {"set", "recv", "wait", "restore"} => call.old = T!Default
             /\ call.pc = "recv" => zmq.rcvtimeo = call.asked
             /\ call.pc = "wait" => call.limit = call.asked
  BY <1>0, <1>4 DEF T!TimeoutInPlace
<1>5. ASSUME NEW t \in T!Limits, T!SetTimeout(t)
      PROVE  /\ DOMAIN zmq' = DOMAIN zmq /\ zmq'.inq = zmq.inq /\ zmq'.rcvtimeo \in T!Limits
             /\ sock = "open" => zmq'.rcvtimeo = t
  BY <1>0, <1>5, LibraryUpdate DEF T!SetTimeout
<1>6. CASE T!RecvBegin(r)
  <2>1. tcpClose = "idle"
    BY <1>0, <1>6, Zenon DEF T!RecvBegin, T!Usable, T!NoneLate
  <2>2. T!Late = FALSE
    BY <2>1 DEF T!Late
  <2>3. PICK t \in Timeouts \ {"zero"} :
           rcv' = [rcv EXCEPT ![r] = [call EXCEPT !.pc = "save", !.late = FALSE, !.asked = t]]
    BY <1>6, <2>2 DEF T!RecvBegin
  <2>4. t \in T!Limits
    BY ChannelAssumption DEF T!Limits, TimeoutKinds
  <2> DEFINE y == [call EXCEPT !.pc = "save", !.late = FALSE, !.asked = t]
  <2>5. y \in T!RecvCalls /\ y.pc = "save" /\ y.late = FALSE
    BY <1>0, <2>4 DEF T!RecvCalls, T!RecvPcs
  <2> HIDE DEF y
  <2>6. /\ overlapped' \in BOOLEAN
        /\ overlapped' = FALSE => overlapped = FALSE /\ \A o \in Receivers : ~T!Receiving(o)
    BY <1>0, <1>6, Zenon DEF T!RecvBegin
  <2>7. zmq' = zmq /\ stray' = FALSE
    BY <1>0, <1>6 DEF T!RecvBegin
  <2>8. rcv' = [rcv EXCEPT ![r] = y]
    BY <2>3 DEF y
  <2>9. sock = "open" /\ overlapped' = FALSE => InPlace(y, zmq'.rcvtimeo)
    BY <1>4, <2>5, <2>6, <2>7 DEF InPlace
  <2> QED
    BY <1>0, <1>1, <2>5, <2>6, <2>7, <2>8, <2>9, OneAdvances
<1>7. CASE T!RecvSave(r)
  <2> DEFINE t == IF sock = "open" THEN zmq.rcvtimeo ELSE "zero"
             y == [call EXCEPT !.pc = "set", !.old = t]
  <2>1. call.pc = "save" /\ rcv' = [rcv EXCEPT ![r] = y] /\ zmq' = zmq /\ overlapped' = overlapped
    BY <1>7 DEF T!RecvSave
  <2>2. t \in T!Limits
    BY <1>0 DEF T!Limits
  <2>3. y \in T!RecvCalls /\ y.pc = "set" /\ y.old = t /\ y.late = FALSE
    BY <1>0, <2>2 DEF T!RecvCalls, T!RecvPcs
  <2>4. stray' = FALSE
    BY <1>0, <1>7, TouchNotStray DEF T!RecvSave
  <2>5. T!Receiving(r) /\ (sock = "open" => t = zmq.rcvtimeo)
    BY <2>1 DEF T!Receiving
  <2> HIDE DEF y, t
  <2>6. overlapped' = FALSE => \A o \in Receivers \ {r} : ~T!Receiving(o)
    BY <1>3, <2>1, <2>5
  <2>7. sock = "open" /\ overlapped' = FALSE => InPlace(y, zmq'.rcvtimeo)
    BY <1>4, <2>1, <2>3, <2>5 DEF InPlace
  <2> QED
    BY <1>0, <1>1, <2>1, <2>3, <2>4, <2>6, <2>7, OneAdvances
<1>8. CASE T!RecvSet(r)
  <2> DEFINE y == [call EXCEPT !.pc = "recv"]
  <2>1. call.pc = "set" /\ rcv' = [rcv EXCEPT ![r] = y] /\ overlapped' = overlapped
        /\ T!SetTimeout(call.asked)
    BY <1>8 DEF T!RecvSet
  <2>2. /\ y \in T!RecvCalls /\ y.pc = "recv" /\ y.old = call.old
        /\ y.asked = call.asked /\ y.late = FALSE
    BY <1>0, <1>2 DEF T!RecvCalls, T!RecvPcs
  <2>3. stray' = FALSE
    BY <1>0, <1>8, TouchNotStray DEF T!RecvSet
  <2>4. T!Receiving(r)
    BY <2>1 DEF T!Receiving
  <2>5. /\ DOMAIN zmq' = DOMAIN zmq /\ zmq'.inq = zmq.inq /\ zmq'.rcvtimeo \in T!Limits
        /\ sock = "open" => zmq'.rcvtimeo = call.asked
    BY <2>1, <1>2, <1>5
  <2> HIDE DEF y
  <2>6. overlapped' = FALSE => \A o \in Receivers \ {r} : ~T!Receiving(o)
    BY <1>3, <2>1, <2>4
  <2>7. sock = "open" /\ overlapped' = FALSE => InPlace(y, zmq'.rcvtimeo)
    BY <1>4, <2>1, <2>2, <2>5 DEF InPlace
  <2> QED
    BY <1>0, <1>1, <2>1, <2>2, <2>3, <2>5, <2>6, <2>7, OneAdvances
<1>9. CASE T!RecvEnter(r)
  <2> DEFINE y == [call EXCEPT !.pc = "wait", !.limit = zmq.rcvtimeo]
  <2>1. call.pc = "recv" /\ rcv' = [rcv EXCEPT ![r] = y] /\ zmq' = zmq /\ overlapped' = overlapped
    BY <1>9 DEF T!RecvEnter
  <2>2. /\ y \in T!RecvCalls /\ y.pc = "wait" /\ y.old = call.old
        /\ y.asked = call.asked /\ y.limit = zmq.rcvtimeo /\ y.late = FALSE
    BY <1>0 DEF T!RecvCalls, T!RecvPcs
  <2>3. stray' = FALSE
    BY <1>0, <1>9, TouchNotStray DEF T!RecvEnter
  <2>4. T!Receiving(r)
    BY <2>1 DEF T!Receiving
  <2> HIDE DEF y
  <2>5. overlapped' = FALSE => \A o \in Receivers \ {r} : ~T!Receiving(o)
    BY <1>3, <2>1, <2>4
  <2>6. sock = "open" /\ overlapped' = FALSE => InPlace(y, zmq'.rcvtimeo)
    BY <1>4, <2>1, <2>2 DEF InPlace
  <2> QED
    BY <1>0, <1>1, <2>1, <2>2, <2>3, <2>5, <2>6, OneAdvances
<1>10. CASE T!RecvMsg(r)
  <2>1. call.pc = "wait" /\ T!Receiving(r) /\ overlapped' = overlapped
    BY <1>10 DEF T!RecvMsg, T!Receiving
  <2>2. stray' = FALSE
    BY <1>0, <1>10, TouchNotStray DEF T!RecvMsg
  <2>3. CASE T!RecvTake(r)
    <3> DEFINE y == [call EXCEPT !.pc = "restore", !.bytes = Head(zmq.inq)]
    <3>1. rcv' = [rcv EXCEPT ![r] = y] /\ zmq.inq # <<>> /\ zmq' = [zmq EXCEPT !.inq = Tail(zmq.inq)]
      BY <2>3 DEF T!RecvTake
    <3>2. Head(zmq.inq) \in T!PeerFrames /\ Tail(zmq.inq) \in Seq(T!PeerFrames)
      BY <1>0, <3>1, HeadTailProperties
    <3>3. y \in T!RecvCalls /\ y.pc = "restore" /\ y.old = call.old /\ y.late = FALSE
      BY <1>0, <3>2 DEF T!RecvCalls, T!RecvPcs
    <3>4. DOMAIN zmq' = DOMAIN zmq /\ zmq'.rcvtimeo = zmq.rcvtimeo /\ zmq'.inq \in Seq(T!PeerFrames)
      BY <1>0, <3>1, <3>2, LibraryUpdate
    <3> HIDE DEF y
    <3>5. overlapped' = FALSE => \A o \in Receivers \ {r} : ~T!Receiving(o)
      BY <1>3, <2>1
    <3>6. sock = "open" /\ overlapped' = FALSE => InPlace(y, zmq'.rcvtimeo)
      BY <1>4, <2>1, <3>3 DEF InPlace
    <3> QED
      BY <1>0, <1>1, <2>1, <2>2, <3>1, <3>3, <3>4, <3>5, <3>6, OneAdvances
  <2>4. CASE T!RecvNothing(r)
    <3> DEFINE y == [call EXCEPT !.pc = "restore"]
    <3>1. rcv' = [rcv EXCEPT ![r] = y] /\ zmq' = zmq
      BY <2>4 DEF T!RecvNothing
    <3>2. y \in T!RecvCalls /\ y.pc = "restore" /\ y.old = call.old /\ y.late = FALSE
      BY <1>0, <1>2 DEF T!RecvCalls, T!RecvPcs
    <3> HIDE DEF y
    <3>3. overlapped' = FALSE => \A o \in Receivers \ {r} : ~T!Receiving(o)
      BY <1>3, <2>1
    <3>4. sock = "open" /\ overlapped' = FALSE => InPlace(y, zmq'.rcvtimeo)
      BY <1>4, <2>1, <3>2 DEF InPlace
    <3> QED
      BY <1>0, <1>1, <2>1, <2>2, <3>1, <3>2, <3>3, <3>4, OneAdvances
  <2> QED
    BY <1>10, <2>3, <2>4 DEF T!RecvMsg
<1>11. CASE T!RecvReturn(r)
  <2>1. call.pc = "restore" /\ rcv' = [rcv EXCEPT ![r] = T!NoRecv] /\ overlapped' = overlapped
        /\ T!SetTimeout(call.old)
    BY <1>11 DEF T!RecvReturn, T!Restored
  <2>2. T!NoRecv \in T!RecvCalls /\ T!NoRecv.pc = "idle" /\ T!NoRecv.late = FALSE
    BY DEF T!NoRecv, T!RecvCalls, T!RecvPcs, T!Limits
  <2>3. stray' = FALSE
    BY <1>0, <1>11, TouchNotStray DEF T!RecvReturn
  <2>4. T!Receiving(r)
    BY <2>1 DEF T!Receiving
  <2>5. /\ DOMAIN zmq' = DOMAIN zmq /\ zmq'.inq = zmq.inq /\ zmq'.rcvtimeo \in T!Limits
        /\ sock = "open" => zmq'.rcvtimeo = call.old
    BY <2>1, <1>2, <1>5
  <2>6. overlapped' = FALSE => \A o \in Receivers \ {r} : ~T!Receiving(o)
    BY <1>3, <2>1, <2>4
  <2>7. sock = "open" /\ overlapped' = FALSE => InPlace(T!NoRecv, zmq'.rcvtimeo)
    BY <1>4, <2>1, <2>2, <2>5 DEF InPlace
  <2> QED
    BY <1>0, <1>1, <2>1, <2>2, <2>3, <2>5, <2>6, <2>7, OneAdvances
<1> QED
  BY <1>6, <1>7, <1>8, <1>9, <1>10, <1>11 DEF T!Recv

\* A behaviour of the channel is, to the TCP transport, one of its own.
LEMMA ChannelImpliesTcp == ChannelSpec => (T!Absent \/ T!Init) /\ [][T!Next]_tcpVars
<1>1. ChannelInit => T!Absent \/ T!Init
  BY DEF ChannelInit
<1>2. [ChannelNext]_channelVars => [T!Next]_tcpVars
  BY DEF ChannelNext, channelVars
<1> QED
  BY <1>1, <1>2, PTL DEF ChannelSpec

\* The TCP transport's invariant: no call that begins late gets to the socket,
\* and the library's timeout is the one of the call under way.
THEOREM TcpInvariant == ChannelSpec => []T!TcpInv
<1>1. T!Absent \/ T!Init => T!TcpInv
  BY TcpInit
<1>2. T!TcpInv /\ [T!Next]_tcpVars => T!TcpInv'
  <2> SUFFICES ASSUME T!TcpInv, [T!Next]_tcpVars PROVE T!TcpInv'
    OBVIOUS
  <2>1. CASE T!Next
    BY <2>1, TcpSendStep, TcpRecvStep, TcpConnectStep, TcpCloseStep, TcpPeerStep DEF T!Next
  <2>2. CASE UNCHANGED tcpVars
    BY <2>2
    DEF tcpVars, T!TcpInv, T!TypeOK, T!NoneLate, T!DownWhenFreed, T!OneReceives,
        T!TimeoutInPlace, T!Receiving
  <2> QED
    BY <2>1, <2>2
<1> QED
  BY <1>1, <1>2, ChannelImpliesTcp, PTL

\* connect(), send_base and recv_base of TcpChannel against close().
THEOREM ClosedChannelStaysDown == ChannelSpec => []ClosedStaysDown
<1>1. T!TcpInv => ClosedStaysDown
  BY DEF ClosedStaysDown, T!ClosedStaysDown, T!TcpInv, T!NoneLate, T!DownWhenFreed
<1> QED
  BY <1>1, TcpInvariant, PTL

\* recv_base of TcpChannel saves, sets and restores ZMQ_RCVTIMEO.
THEOREM TimeoutsAreOwn == ChannelSpec => []TimeoutIsOwn
<1>1. T!TcpInv => TimeoutIsOwn
  <2> SUFFICES ASSUME T!TcpInv, sock = "open", ~overlapped
               PROVE  /\ \A r \in Receivers : rcv[r].pc = "wait" => rcv[r].limit = rcv[r].asked
                      /\ (\A r \in Receivers : ~T!Receiving(r)) => zmq.rcvtimeo = T!Default
    BY DEF TimeoutIsOwn, T!TimeoutIsOwn
  <2> QED
    BY DEF T!TcpInv, T!TimeoutInPlace
<1> QED
  BY <1>1, TcpInvariant, PTL

-----------------------------------------------------------------------------
(* Frames on the wire.                                                     *)

LEMMA LowFirstBack ==
    ASSUME NEW n \in Nat
    PROVE  /\ T!LowFirst(n) \in Seq(Nat) /\ Len(T!LowFirst(n)) = 4 /\ T!Above(n) \in Nat
           /\ n = T!FromLowFirst(T!LowFirst(n), 1, T!Above(n))
<1> DEFINE n1 == n \div 256
           n2 == n1 \div 256
           n3 == n2 \div 256
           n4 == n3 \div 256
<1>1. n1 \in Nat /\ n % 256 \in Nat /\ n = (n % 256) + 256 * n1
  OBVIOUS
<1> HIDE DEF n1
<1>2. n2 \in Nat /\ n1 % 256 \in Nat /\ n1 = (n1 % 256) + 256 * n2
  BY <1>1
<1> HIDE DEF n2
<1>3. n3 \in Nat /\ n2 % 256 \in Nat /\ n2 = (n2 % 256) + 256 * n3
  BY <1>2
<1> HIDE DEF n3
<1>4. n4 \in Nat /\ n3 % 256 \in Nat /\ n3 = (n3 % 256) + 256 * n4
  BY <1>3
<1> HIDE DEF n4
<1>5. T!LowFirst(n) = <<n % 256, n1 % 256, n2 % 256, n3 % 256>> /\ T!Above(n) = n4
  BY DEF T!LowFirst, T!Above, n1, n2, n3, n4
<1>6. n = (n % 256) + 256 * ((n1 % 256) + 256 * ((n2 % 256) + 256 * ((n3 % 256) + 256 * n4)))
  BY <1>1, <1>2, <1>3, <1>4
<1> DEFINE b == T!LowFirst(n)
<1>7. /\ b[1] = n % 256 /\ b[1 + 1] = n1 % 256 /\ b[1 + 2] = n2 % 256 /\ b[1 + 3] = n3 % 256
      /\ b \in Seq(Nat) /\ Len(b) = 4
  BY <1>1, <1>2, <1>3, <1>4, <1>5
<1> HIDE DEF b
<1>8. n = T!FromLowFirst(b, 1, n4)
  BY <1>6, <1>7 DEF T!FromLowFirst
<1> QED
  BY <1>4, <1>5, <1>7, <1>8 DEF b

\* The bytes of b from i on are those of c.
Carries(b, i, c) == \A j \in 1 .. Len(c) : b[i + j] = c[j]

LEMMA NumberCarried ==
    ASSUME NEW b, NEW i \in Nat, NEW n \in Nat, Carries(b, i, T!LowFirst(n))
    PROVE  T!FromLowFirst(b, i + 1, T!Above(n)) = n
<1> DEFINE c == T!LowFirst(n)
           h == T!Above(n)
<1>1. c \in Seq(Nat) /\ Len(c) = 4 /\ h \in Nat /\ n = T!FromLowFirst(c, 1, h)
  BY LowFirstBack
<1>2. Carries(b, i, c)
  OBVIOUS
<1> HIDE DEF c, h
<1>3. b[i + 1] = c[1] /\ b[i + 2] = c[2] /\ b[i + 3] = c[3] /\ b[i + 4] = c[4]
  BY <1>1, <1>2 DEF Carries
<1>4. /\ (i + 1) + 1 = i + 2 /\ (i + 1) + 2 = i + 3 /\ (i + 1) + 3 = i + 4
      /\ 1 + 1 = 2 /\ 1 + 2 = 3 /\ 1 + 3 = 4
  OBVIOUS
<1>5. T!FromLowFirst(b, i + 1, h) = T!FromLowFirst(c, 1, h)
  BY <1>3, <1>4 DEF T!FromLowFirst
<1> QED
  BY <1>1, <1>5 DEF c, h

\* A sequence that is put together carries its parts.
LEMMA ConcatEnd ==
    ASSUME NEW S, NEW b \in Seq(S), NEW c \in Seq(S), NEW n \in Nat, Len(b) = n
    PROVE  /\ b \o c \in Seq(S) /\ Len(b \o c) = n + Len(c)
           /\ Carries(b \o c, n, c)
  BY DEF Carries

LEMMA ConcatFront ==
    ASSUME NEW S, NEW b \in Seq(S), NEW c \in Seq(S), NEW i \in Nat, NEW d,
           Carries(b, i, d), Len(d) \in Nat, i + Len(d) <= Len(b)
    PROVE  Carries(b \o c, i, d)
<1>1. /\ Len(b) \in Nat
      /\ \A j \in 1 .. Len(b) : (b \o c)[j] = b[j]
  OBVIOUS
<1> SUFFICES ASSUME NEW j \in 1 .. Len(d) PROVE (b \o c)[i + j] = d[j]
  BY DEF Carries
<1>2. i + j \in 1 .. Len(b)
  BY <1>1
<1> QED
  BY <1>1, <1>2 DEF Carries

\* Numbers that 8 and 4 bytes hold.
Fits8(n) == n \in Nat /\ T!Above(T!Above(n)) = 0
Fits4(n) == n \in Nat /\ T!Above(n) = 0

\* The bytes of a frame, of which those of the payload are from S.
Layout(b, S, priority, seq, payload) ==
    /\ b \in Seq(S) /\ Len(b) = 13 + Len(payload) /\ b[1] = priority
    /\ Carries(b, 1, T!LowFirst(seq)) /\ Carries(b, 5, T!LowFirst(T!Above(seq)))
    /\ Carries(b, 9, T!LowFirst(Len(payload))) /\ Carries(b, 13, payload)

LEMMA FrameLayout ==
    ASSUME NEW S, NEW priority \in S, NEW seq \in Nat, NEW payload \in Seq(S), Nat \subseteq S
    PROVE  Layout(T!encode_frame([priority |-> priority, seq |-> seq, payload |-> payload]),
                  S, priority, seq, payload)
<1> DEFINE p == <<priority>>
           c == T!LowFirst(seq)
           d == T!LowFirst(T!Above(seq))
           e == T!LowFirst(Len(payload))
<1>1. Len(payload) \in Nat /\ T!Above(seq) \in Nat
  BY LowFirstBack
<1>2. c \in Seq(Nat) /\ d \in Seq(Nat) /\ e \in Seq(Nat) /\ Len(c) = 4 /\ Len(d) = 4 /\ Len(e) = 4
  BY <1>1, LowFirstBack
<1>3. c \in Seq(S) /\ d \in Seq(S) /\ e \in Seq(S)
  BY <1>2
<1>4. p \in Seq(S) /\ Len(p) = 1 /\ Carries(p, 0, p) /\ p[1] = priority
  BY DEF Carries
<1>0. /\ 0 \in Nat /\ 1 \in Nat /\ 5 \in Nat /\ 9 \in Nat /\ 13 \in Nat
      /\ Len(p) \in Nat /\ Len(c) \in Nat /\ Len(d) \in Nat /\ Len(e) \in Nat
      /\ 1 + Len(c) = 5 /\ 5 + Len(d) = 9 /\ 9 + Len(e) = 13 /\ 0 + Len(p) = 1
  BY <1>2, <1>4
<1> DEFINE pc == p \o c
           pcd == pc \o d
           pcde == pcd \o e
           b == pcde \o payload
<1>5. T!encode_frame([priority |-> priority, seq |-> seq, payload |-> payload]) = b
  BY DEF T!encode_frame
<1> HIDE DEF p, c, d, e
<1>6. pc \in Seq(S) /\ Len(pc) = 5 /\ Carries(pc, 1, c) /\ Carries(pc, 0, p)
  <2>1. pc \in Seq(S) /\ Len(pc) = 5 /\ Carries(pc, 1, c)
    <3>1. pc \in Seq(S) /\ Len(pc) = 1 + Len(c) /\ Carries(pc, 1, c)
      BY <1>0, <1>3, <1>4, ConcatEnd DEF pc
    <3> QED
      BY <3>1, <1>0
  <2>2. Carries(pc, 0, p)
    <3>1. 0 + Len(p) <= Len(p)
      BY <1>4, <1>4
    <3> QED
      BY <3>1, <1>0, <1>3, <1>4, ConcatFront DEF pc
  <2> QED
    BY <2>1, <2>2
<1> HIDE DEF pc
<1>7. pcd \in Seq(S) /\ Len(pcd) = 9 /\ Carries(pcd, 1, c) /\ Carries(pcd, 0, p) /\ Carries(pcd, 5, d)
  <2>1. pcd \in Seq(S) /\ Len(pcd) = 9 /\ Carries(pcd, 5, d)
    <3>1. pcd \in Seq(S) /\ Len(pcd) = 5 + Len(d) /\ Carries(pcd, 5, d)
      BY <1>0, <1>3, <1>6, ConcatEnd DEF pcd
    <3> QED
      BY <3>1, <1>0
  <2>2. Carries(pcd, 0, p)
    <3>1. 0 + Len(p) <= Len(pc)
      BY <1>4, <1>6
    <3> QED
      BY <3>1, <1>0, <1>3, <1>6, ConcatFront DEF pcd
  <2>3. Carries(pcd, 1, c)
    <3>1. 1 + Len(c) <= Len(pc)
      BY <1>0, <1>6
    <3> QED
      BY <3>1, <1>0, <1>3, <1>6, ConcatFront DEF pcd
  <2> QED
    BY <2>1, <2>2, <2>3
<1> HIDE DEF pcd
<1>8. /\ pcde \in Seq(S) /\ Len(pcde) = 13 /\ Carries(pcde, 1, c) /\ Carries(pcde, 0, p)
      /\ Carries(pcde, 5, d) /\ Carries(pcde, 9, e)
  <2>1. pcde \in Seq(S) /\ Len(pcde) = 13 /\ Carries(pcde, 9, e)
    <3>1. pcde \in Seq(S) /\ Len(pcde) = 9 + Len(e) /\ Carries(pcde, 9, e)
      BY <1>0, <1>3, <1>7, ConcatEnd DEF pcde
    <3> QED
      BY <3>1, <1>0
  <2>2. Carries(pcde, 0, p)
    <3>1. 0 + Len(p) <= Len(pcd)
      BY <1>4, <1>7
    <3> QED
      BY <3>1, <1>0, <1>3, <1>7, ConcatFront DEF pcde
  <2>3. Carries(pcde, 1, c)
    <3>1. 1 + Len(c) <= Len(pcd)
      BY <1>0, <1>7
    <3> QED
      BY <3>1, <1>0, <1>3, <1>7, ConcatFront DEF pcde
  <2>4. Carries(pcde, 5, d)
    <3>1. 5 + Len(d) <= Len(pcd)
      BY <1>0, <1>7
    <3> QED
      BY <3>1, <1>0, <1>3, <1>7, ConcatFront DEF pcde
  <2> QED
    BY <2>1, <2>2, <2>3, <2>4
<1> HIDE DEF pcde
<1>9. /\ b \in Seq(S) /\ Len(b) = 13 + Len(payload) /\ Carries(b, 1, c) /\ Carries(b, 0, p)
      /\ Carries(b, 5, d) /\ Carries(b, 9, e) /\ Carries(b, 13, payload)
  <2>1. b \in Seq(S) /\ Len(b) = 13 + Len(payload) /\ Carries(b, 13, payload)
    BY <1>8, ConcatEnd
  <2>2. Carries(b, 0, p)
    <3>1. 0 + Len(p) <= Len(pcde)
      BY <1>4, <1>8
    <3> QED
      BY <3>1, <1>0, <1>3, <1>8, ConcatFront DEF b
  <2>3. Carries(b, 1, c)
    <3>1. 1 + Len(c) <= Len(pcde)
      BY <1>0, <1>8
    <3> QED
      BY <3>1, <1>0, <1>3, <1>8, ConcatFront DEF b
  <2>4. Carries(b, 5, d)
    <3>1. 5 + Len(d) <= Len(pcde)
      BY <1>0, <1>8
    <3> QED
      BY <3>1, <1>0, <1>3, <1>8, ConcatFront DEF b
  <2>5. Carries(b, 9, e)
    <3>1. 9 + Len(e) <= Len(pcde)
      BY <1>0, <1>8
    <3> QED
      BY <3>1, <1>0, <1>3, <1>8, ConcatFront DEF b
  <2> QED
    BY <2>1, <2>2, <2>3, <2>4, <2>5
<1> HIDE DEF b
<1>10. b[1] = priority
  BY <1>4, <1>9 DEF Carries
<1> QED
  BY <1>5, <1>9, <1>10 DEF Layout, c, d, e

\* decode_frame gives back what encode_frame was given, whatever follows it.
THEOREM FrameRoundTrip ==
    ASSUME NEW S, NEW priority \in S, NEW seq, Fits8(seq), NEW payload \in Seq(S),
           Fits4(Len(payload)), Nat \subseteq S, NEW rest \in Seq(S)
    PROVE  LET m == [priority |-> priority, seq |-> seq, payload |-> payload]
           IN  T!decode_frame(T!encode_frame(m) \o rest) = m
<1> DEFINE m == [priority |-> priority, seq |-> seq, payload |-> payload]
           f == T!encode_frame(m)
           b == f \o rest
<1>1. seq \in Nat /\ T!Above(seq) \in Nat /\ T!Above(T!Above(seq)) = 0
      /\ Len(payload) \in Nat /\ T!Above(Len(payload)) = 0
  BY LowFirstBack DEF Fits8, Fits4
<1>2. /\ f \in Seq(S) /\ Len(f) = 13 + Len(payload) /\ f[1] = priority
      /\ Carries(f, 1, T!LowFirst(seq)) /\ Carries(f, 5, T!LowFirst(T!Above(seq)))
      /\ Carries(f, 9, T!LowFirst(Len(payload))) /\ Carries(f, 13, payload)
  BY <1>1, FrameLayout DEF Layout
<1>3. /\ Len(T!LowFirst(seq)) = 4 /\ Len(T!LowFirst(T!Above(seq))) = 4
      /\ Len(T!LowFirst(Len(payload))) = 4
  BY <1>1, LowFirstBack
<1> HIDE DEF f
<1>4. /\ b \in Seq(S) /\ Len(b) = 13 + Len(payload) + Len(rest) /\ Len(rest) \in Nat
      /\ Carries(b, 1, T!LowFirst(seq)) /\ Carries(b, 5, T!LowFirst(T!Above(seq)))
      /\ Carries(b, 9, T!LowFirst(Len(payload))) /\ Carries(b, 13, payload)
  <2> DEFINE n == 13 + Len(payload)
  <2>1. n \in Nat /\ Len(f) = n
    BY <1>1, <1>2
  <2> HIDE DEF n
  <2>2. b \in Seq(S) /\ Len(b) = n + Len(rest) /\ Len(rest) \in Nat
    BY <1>2, <2>1, ConcatEnd
  <2>3. Carries(b, 1, T!LowFirst(seq))
    <3>1. /\ 1 \in Nat /\ Len(T!LowFirst(seq)) \in Nat
          /\ 1 + Len(T!LowFirst(seq)) <= Len(f)
      BY <1>1, <1>2, <1>3
    <3> QED
      BY <3>1, <1>2, ConcatFront DEF b
  <2>4. Carries(b, 5, T!LowFirst(T!Above(seq)))
    <3>1. /\ 5 \in Nat /\ Len(T!LowFirst(T!Above(seq))) \in Nat
          /\ 5 + Len(T!LowFirst(T!Above(seq))) <= Len(f)
      BY <1>1, <1>2, <1>3
    <3> QED
      BY <3>1, <1>2, ConcatFront DEF b
  <2>5. Carries(b, 9, T!LowFirst(Len(payload)))
    <3>1. /\ 9 \in Nat /\ Len(T!LowFirst(Len(payload))) \in Nat
          /\ 9 + Len(T!LowFirst(Len(payload))) <= Len(f)
      BY <1>1, <1>2, <1>3
    <3> QED
      BY <3>1, <1>2, ConcatFront DEF b
  <2>6. Carries(b, 13, payload)
    BY <1>1, <1>2, <1>3, ConcatFront
  <2> QED
    BY <2>2, <2>3, <2>4, <2>5, <2>6 DEF n
<1>5. b[1] = priority
  BY <1>1, <1>2
<1> HIDE DEF b
<1>6. T!FromLowFirst(b, 6, 0) = T!Above(seq)
  BY <1>1, <1>4, NumberCarried, 5 + 1 = 6
<1>7. T!FromLowFirst(b, 2, T!Above(seq)) = seq
  BY <1>1, <1>4, NumberCarried, 1 + 1 = 2
<1>8. T!PayloadLength(b) = Len(payload)
  BY <1>1, <1>4, NumberCarried, 9 + 1 = 10 DEF T!PayloadLength
<1>9. T!HeaderBytes = 13
  BY DEF T!HeaderBytes
<1>10. T!Complete(b)
  BY <1>1, <1>4, <1>8, <1>9 DEF T!Complete
<1>11. SubSeq(b, 14, 13 + Len(payload)) = payload
  <2>1. /\ SubSeq(b, 14, 13 + Len(payload)) \in Seq(S)
        /\ Len(SubSeq(b, 14, 13 + Len(payload))) = Len(payload)
        /\ \A j \in 1 .. Len(payload) : SubSeq(b, 14, 13 + Len(payload))[j] = b[13 + j]
    BY <1>1, <1>4
  <2> QED
    BY <2>1, <1>4, SeqEqual DEF Carries
<1>12. T!decode_frame(b) = [priority |-> b[1], seq |-> T!FromLowFirst(b, 2, T!FromLowFirst(b, 6, 0)),
                            payload |-> SubSeq(b, 14, 13 + Len(payload))]
  BY <1>8, <1>9, <1>10, 13 + 1 = 14 DEF T!decode_frame
<1> QED
  BY <1>5, <1>6, <1>7, <1>11, <1>12 DEF b, f

\* What becomes of the frames a peer sends.
Exact(b, f) ==
    LET whole == {m \in T!PeerMessages : T!IsPrefix(T!encode_frame(m), b)}
    IN  IF whole = {} THEN f = T!Malformed ELSE f \in whole

Beat == [priority |-> T!Heartbeat, seq |-> 1, payload |-> <<>>]

LEMMA SmallNumbers ==
    /\ Fits8(258) /\ Fits8(1) /\ Fits4(2) /\ Fits4(0) /\ Fits4(1)
<1>1. 258 \div 256 = 1 /\ 1 \div 256 = 0 /\ 0 \div 256 = 0 /\ 2 \div 256 = 0
  OBVIOUS
<1> QED
  BY <1>1 DEF Fits8, Fits4, T!Above

LEMMA PrefixOfItself ==
    ASSUME NEW S, NEW f \in Seq(S), NEW rest \in Seq(S)
    PROVE  T!IsPrefix(f, f \o rest)
<1>1. Len(f) \in Nat /\ Len(f) <= Len(f \o rest)
  OBVIOUS
<1>2. SubSeq(f, 1, Len(f)) = f
  BY SubSeqFull
<1>3. SubSeq(f \o rest, 1, Len(f)) = f
  <2>1. /\ SubSeq(f \o rest, 1, Len(f)) \in Seq(S) /\ Len(SubSeq(f \o rest, 1, Len(f))) = Len(f)
        /\ \A i \in 1 .. Len(f) : SubSeq(f \o rest, 1, Len(f))[i] = f[i]
    BY <1>1
  <2> QED
    BY <2>1, SeqEqual
<1> QED
  BY <1>1, <1>2, <1>3 DEF T!IsPrefix

\* A frame's priority, length and the place of its length.
Laid(b, priority, payload) ==
    /\ b \in Seq(Nat) /\ Len(b) = 13 + Len(payload) /\ b[1] = priority
    /\ Carries(b, 9, T!LowFirst(Len(payload)))

LEMMA PeerLayout ==
    /\ Laid(T!encode_frame(T!Greeting), 2, <<7, 8>>)
    /\ Laid(T!encode_frame(Beat), 0, <<>>)
<1>1. ASSUME NEW priority \in Nat, NEW seq \in Nat, NEW payload \in Seq(Nat), NEW m,
             m = [priority |-> priority, seq |-> seq, payload |-> payload]
      PROVE  Laid(T!encode_frame(m), priority, payload)
  <2>1. Layout(T!encode_frame(m), Nat, priority, seq, payload)
    BY <1>1, FrameLayout
  <2> QED
    BY <2>1 DEF Layout, Laid
<1>2. PICK p : p = <<7, 8>>
  OBVIOUS
<1>3. PICK e : e = <<>>
  OBVIOUS
<1>4. p \in Seq(Nat) /\ e \in Seq(Nat) /\ 2 \in Nat /\ 258 \in Nat /\ 0 \in Nat /\ 1 \in Nat
  BY <1>2, <1>3
<1>5. T!Greeting = [priority |-> 2, seq |-> 258, payload |-> p]
  BY <1>2 DEF T!Greeting, T!Data
<1>6. Beat = [priority |-> 0, seq |-> 1, payload |-> e]
  BY <1>3 DEF Beat, T!Heartbeat
<1>7. Laid(T!encode_frame(T!Greeting), 2, p)
  BY <1>1, <1>4, <1>5, Zenon
<1>8. Laid(T!encode_frame(Beat), 0, e)
  BY <1>1, <1>4, <1>6, Zenon
<1> QED
  BY <1>2, <1>3, <1>7, <1>8

\* A frame that begins with one the peer encoded.
LEMMA WholeExact ==
    ASSUME NEW m \in T!PeerMessages, NEW rest \in Seq(Nat)
    PROVE  Exact(T!encode_frame(m) \o rest, T!decode_frame(T!encode_frame(m) \o rest))
<1> DEFINE b == T!encode_frame(m) \o rest
<1>1. /\ m = [priority |-> m.priority, seq |-> m.seq, payload |-> m.payload]
      /\ m.priority \in Nat /\ Fits8(m.seq) /\ m.payload \in Seq(Nat) /\ Fits4(Len(m.payload))
  <2>1. CASE m = T!Greeting
    <3>1. <<7, 8>> \in Seq(Nat) /\ Len(<<7, 8>>) = 2
      OBVIOUS
    <3> QED
      BY <2>1, <3>1, SmallNumbers DEF T!Greeting, T!Data
  <2>2. CASE m = Beat
    <3>1. <<>> \in Seq(Nat) /\ Len(<<>>) = 0
      OBVIOUS
    <3> QED
      BY <2>2, <3>1, SmallNumbers DEF Beat, T!Heartbeat
  <2> QED
    BY <2>1, <2>2 DEF T!PeerMessages, Beat
<1>2. T!decode_frame(b) = m
  BY <1>1, FrameRoundTrip
<1>3. T!encode_frame(m) \in Seq(Nat)
  <2>1. m.seq \in Nat
    BY <1>1 DEF Fits8
  <2> QED
    BY <1>1, <2>1, FrameLayout DEF Layout
<1>4. T!IsPrefix(T!encode_frame(m), b)
  BY <1>3, PrefixOfItself
<1> HIDE DEF b
<1>5. Exact(b, m)
  BY <1>4 DEF Exact
<1> QED
  BY <1>2, <1>5 DEF b

\* A frame that is cut short.
LEMMA CutExact ==
    ASSUME NEW n \in {12, 14}, NEW b, b = SubSeq(T!encode_frame(T!Greeting), 1, n)
    PROVE  Exact(b, T!decode_frame(b))
<1> DEFINE g == T!encode_frame(T!Greeting)
           h == T!encode_frame(Beat)
<1>1. Len(<<7, 8>>) = 2 /\ Len(<<>>) = 0
  OBVIOUS
<1>2. g \in Seq(Nat) /\ Len(g) = 15 /\ g[1] = 2 /\ Carries(g, 9, T!LowFirst(2))
  BY PeerLayout, <1>1 DEF Laid
<1>3. h \in Seq(Nat) /\ Len(h) = 13 /\ h[1] = 0
  BY PeerLayout, <1>1 DEF Laid
<1> HIDE DEF g, h
<1>4. b \in Seq(Nat) /\ Len(b) = n /\ \A i \in 1 .. n : b[i] = g[i]
  <2>1. b = SubSeq(g, 1, n) /\ n \in 1 .. 15
    BY DEF g
  <2>2. b \in Seq(Nat) /\ Len(b) = n
    <3>1. \A i \in 1 .. n : g[i] \in Nat
      <4>1. \A i \in 1 .. 15 : g[i] \in Nat
        <5>1. g \in Seq(Nat) /\ Len(g) = 15
          BY <1>2
        <5> QED
          BY <5>1, ElementOfSeq
      <4>2. 1 .. n \subseteq 1 .. 15
        OBVIOUS
      <4> QED
        BY <4>1, <4>2, Zenon
    <3>2. 1 \in Int /\ n \in Int /\ 1 <= n /\ n - 1 + 1 = n
      OBVIOUS
    <3>3. SubSeq(g, 1, n) \in Seq(Nat) /\ Len(SubSeq(g, 1, n)) = IF 1 <= n THEN n - 1 + 1 ELSE 0
      BY <3>1, <3>2, SubSeqProperties
    <3> QED
      BY <3>2, <3>3, <2>1, Zenon
  <2>3. ASSUME NEW i \in 1 .. n PROVE b[i] = g[i]
    BY <1>2, <2>1
  <2> QED
    BY <2>2, <2>3
<1>5. ~T!Complete(b)
  <2>1. CASE n = 12
    BY <2>1, <1>4 DEF T!Complete, T!HeaderBytes
  <2>2. CASE n = 14
    <3>1. Len(T!LowFirst(2)) = 4
      BY LowFirstBack
    <3>2. Carries(b, 9, T!LowFirst(2))
      <4>1. ASSUME NEW j \in 1 .. 4 PROVE b[9 + j] = g[9 + j]
        <5>1. 9 + j \in 1 .. n
          BY <2>2
        <5> QED
          BY <5>1, <1>4
      <4> QED
        BY <4>1, <3>1, <1>2 DEF Carries
    <3>3. T!Above(2) = 0
      BY SmallNumbers DEF Fits4
    <3>4. T!PayloadLength(b) = 2
      BY <3>2, <3>3, NumberCarried, 9 + 1 = 10, 9 \in Nat, 2 \in Nat DEF T!PayloadLength
    <3> QED
      BY <3>4, <2>2, <1>4 DEF T!Complete, T!HeaderBytes
  <2> QED
    BY <2>1, <2>2
<1>6. T!decode_frame(b) = T!Malformed
  BY <1>5 DEF T!decode_frame
<1>7. ~T!IsPrefix(g, b)
  BY <1>2, <1>4 DEF T!IsPrefix
<1>8. ~T!IsPrefix(h, b)
  <2> SUFFICES ASSUME T!IsPrefix(h, b) PROVE FALSE
    OBVIOUS
  <2>1. 13 <= Len(b) /\ SubSeq(h, 1, 13) = SubSeq(b, 1, 13)
    BY <1>3 DEF T!IsPrefix
  <2>2. SubSeq(h, 1, 13)[1] = h[1] /\ SubSeq(b, 1, 13)[1] = b[1]
    BY <2>1, <1>3, <1>4
  <2> QED
    <3>1. b[1] = g[1]
      <4>1. 1 \in 1 .. n
        OBVIOUS
      <4> QED
        BY <4>1, <1>4
    <3> QED
      BY <3>1, <2>1, <2>2, <1>2, <1>3
<1>9. {m \in T!PeerMessages : T!IsPrefix(T!encode_frame(m), b)} = {}
  BY <1>7, <1>8 DEF T!PeerMessages, Beat, g, h
<1> QED
  BY <1>6, <1>9 DEF Exact

LEMMA PeerFramesExact ==
    ASSUME NEW b \in T!PeerFrames
    PROVE  Exact(b, T!decode_frame(b))
<1> DEFINE g == T!encode_frame(T!Greeting)
<1>1. g \in Seq(Nat) /\ Len(g) = 15
  <2>1. Len(<<7, 8>>) = 2
    OBVIOUS
  <2> QED
    BY <2>1, PeerLayout DEF Laid
<1>2. T!HeaderBytes - 1 = 12 /\ Len(g) - 1 = 14
  BY <1>1 DEF T!HeaderBytes
<1>3. \/ \E m \in T!PeerMessages : b = T!encode_frame(m)
      \/ b = SubSeq(g, 1, 12) \/ b = SubSeq(g, 1, 14) \/ b = Append(g, 0)
  BY <1>2 DEF T!PeerFrames
<1>4. ASSUME NEW m \in T!PeerMessages, b = T!encode_frame(m)
      PROVE  Exact(b, T!decode_frame(b))
  <2>1. T!encode_frame(m) \in Seq(Nat)
    <3>1. CASE m = T!Greeting
      BY <1>1, <3>1
    <3>2. CASE m = Beat
      BY <3>2, PeerLayout DEF Laid
    <3> QED
      BY <3>1, <3>2 DEF T!PeerMessages, Beat
  <2>2. <<>> \in Seq(Nat) /\ T!encode_frame(m) \o <<>> = T!encode_frame(m)
    BY <2>1
  <2>3. Exact(T!encode_frame(m) \o <<>>, T!decode_frame(T!encode_frame(m) \o <<>>))
    BY <2>2, WholeExact
  <2> QED
    BY <2>2, <2>3, <1>4
<1>5. CASE b = Append(g, 0)
  <2>1. Append(g, 0) = g \o <<0>> /\ <<0>> \in Seq(Nat)
    BY <1>1
  <2>2. T!Greeting \in T!PeerMessages
    BY DEF T!PeerMessages
  <2>3. Exact(g \o <<0>>, T!decode_frame(g \o <<0>>))
    BY <2>1, <2>2, WholeExact
  <2> QED
    BY <2>1, <2>3, <1>5
<1>6. CASE b = SubSeq(g, 1, 12)
  BY <1>6, CutExact
<1>7. CASE b = SubSeq(g, 1, 14)
  BY <1>7, CutExact
<1> QED
  BY <1>3, <1>4, <1>5, <1>6, <1>7

-----------------------------------------------------------------------------
(* The numbers of the frames that are sent.                                *)

\* The largest there can be, and the frames that carry them.
LastNumber == TcpSeq + Cardinality(Senders)
Wire(p, q, s) == T!encode_frame([priority |-> p, seq |-> q, payload |-> <<s>>])
WireFrames == {Wire(p, q, s) : p \in T!Prio, q \in 0 .. LastNumber, s \in Senders}

NumberOf(f) == T!decode_frame(f).seq
SenderOf(f) == T!decode_frame(f).payload

LEMMA LastNumberType == LastNumber \in Nat /\ IsFiniteSet(Senders)
  BY TransportAssumption, ChannelAssumption, FS_CardinalityType DEF LastNumber

LEMMA AboveMonotone ==
    ASSUME NEW m \in Nat, NEW n \in Nat, m <= n
    PROVE  T!Above(m) \in Nat /\ T!Above(n) \in Nat /\ T!Above(m) <= T!Above(n)
<1>1. ASSUME NEW j \in Nat, NEW k \in Nat, j <= k
      PROVE  j \div 256 \in Nat /\ k \div 256 \in Nat /\ j \div 256 <= k \div 256
  BY <1>1
<1> DEFINE m1 == m \div 256
           n1 == n \div 256
           m2 == m1 \div 256
           n2 == n1 \div 256
           m3 == m2 \div 256
           n3 == n2 \div 256
           m4 == m3 \div 256
           n4 == n3 \div 256
<1>2. m1 \in Nat /\ n1 \in Nat /\ m1 <= n1
  BY <1>1
<1> HIDE DEF m1, n1
<1>3. m2 \in Nat /\ n2 \in Nat /\ m2 <= n2
  BY <1>1, <1>2
<1> HIDE DEF m2, n2
<1>4. m3 \in Nat /\ n3 \in Nat /\ m3 <= n3
  BY <1>1, <1>3
<1> HIDE DEF m3, n3
<1>5. m4 \in Nat /\ n4 \in Nat /\ m4 <= n4
  BY <1>1, <1>4
<1> QED
  BY <1>5 DEF T!Above, m1, n1, m2, n2, m3, n3, m4, n4

LEMMA NumbersFit ==
    ASSUME NEW q \in 0 .. LastNumber
    PROVE  Fits8(q)
<1>1. q \in Nat /\ q <= LastNumber /\ LastNumber \in Nat
  BY LastNumberType
<1> DEFINE a == T!Above(q)
           z == T!Above(LastNumber)
<1>2. a \in Nat /\ z \in Nat /\ a <= z
  BY <1>1, AboveMonotone
<1> HIDE DEF a, z
<1>3. T!Above(a) \in Nat /\ T!Above(z) \in Nat /\ T!Above(a) <= T!Above(z)
  BY <1>2, AboveMonotone
<1>4. T!Above(z) = 0
  BY NumbersAssumption DEF z, LastNumber
<1>5. T!Above(a) = 0
  BY <1>3, <1>4
<1> QED
  BY <1>1, <1>5 DEF Fits8, a

\* What the peer reads from a frame.
LEMMA WireMeaning ==
    ASSUME NEW p \in T!Prio, NEW q \in 0 .. LastNumber, NEW s \in Senders
    PROVE  /\ Wire(p, q, s) \in WireFrames
           /\ NumberOf(Wire(p, q, s)) = q /\ SenderOf(Wire(p, q, s)) = <<s>>
<1>0. PICK S : S = Nat \cup Senders
  OBVIOUS
<1>1. p \in S /\ Nat \subseteq S
  BY <1>0 DEF T!Prio, T!Heartbeat, T!Data
<1>2. PICK c : c = <<s>>
  OBVIOUS
<1>3. c \in Seq(S) /\ Len(c) = 1 /\ <<>> \in Seq(S)
  BY <1>0, <1>2
<1>4. Fits8(q) /\ Fits4(Len(c)) /\ q \in Nat
  BY <1>3, NumbersFit, SmallNumbers DEF Fits8
<1>5. PICK m : m = [priority |-> p, seq |-> q, payload |-> c]
  OBVIOUS
<1>6. T!encode_frame(m) \in Seq(S)
  BY <1>1, <1>3, <1>4, <1>5, FrameLayout DEF Layout
<1>7. PICK e : e = <<>>
  OBVIOUS
<1>8. T!decode_frame(T!encode_frame(m) \o e) = m
  <2>1. e \in Seq(S)
    BY <1>3, <1>7
  <2>2. T!decode_frame(T!encode_frame([priority |-> p, seq |-> q, payload |-> c]) \o e)
            = [priority |-> p, seq |-> q, payload |-> c]
    <3>1. p \in S /\ c \in Seq(S) /\ Nat \subseteq S /\ Fits8(q) /\ Fits4(Len(c))
      BY <1>1, <1>3, <1>4
    <3> QED
      BY <2>1, <3>1, FrameRoundTrip, SMT
  <2> QED
    BY <2>2, <1>5
<1>9. T!encode_frame(m) \o e = T!encode_frame(m)
  BY <1>6, <1>7
<1>10. Wire(p, q, s) = T!encode_frame(m)
  BY <1>2, <1>5 DEF Wire
<1>11. T!decode_frame(Wire(p, q, s)) = m
  BY <1>8, <1>10, <1>9
<1>12. m.seq = q /\ m.payload = <<s>>
  BY <1>2, <1>5
<1>13. Wire(p, q, s) \in WireFrames
  BY DEF WireFrames
<1> QED
  BY <1>11, <1>12, <1>13 DEF NumberOf, SenderOf

LEMMA WireNumber ==
    ASSUME NEW f \in WireFrames
    PROVE  NumberOf(f) \in Nat
<1>1. PICK p \in T!Prio, q \in 0 .. LastNumber, s \in Senders : f = Wire(p, q, s)
  BY DEF WireFrames
<1> QED
  BY <1>1, WireMeaning, LastNumberType

\* The frames of F are numbered as NumbersAscend says;
Ascends(F) ==
    \A i, j \in DOMAIN F :
        i < j => /\ NumberOf(F[i]) # NumberOf(F[j])
                 /\ SenderOf(F[i]) = SenderOf(F[j]) => NumberOf(F[i]) < NumberOf(F[j])

\* and still are once s sends one with the number n behind them.
Ahead(F, s, n) ==
    \A i \in DOMAIN F :
        NumberOf(F[i]) # n /\ (SenderOf(F[i]) = <<s>> => NumberOf(F[i]) < n)

Drawing(c) == {s \in Senders : c[s].pc = "number"}

\* F is sent or on its way, n the last number drawn, and c the senders' calls.
Orderly(F, n, c) ==
    /\ Ascends(F)
    /\ \A i \in DOMAIN F : NumberOf(F[i]) <= n
    /\ \A s \in Senders : c[s].pc = "send" => Ahead(F, s, c[s].seq) /\ c[s].seq \in 1 .. n
    /\ \A s, t \in Senders :
          c[s].pc = "send" /\ c[t].pc = "send" /\ s # t => c[s].seq # c[t].seq
    /\ n + Cardinality(Drawing(c)) <= LastNumber

LEMMA OrderlyCut ==
    ASSUME NEW F \in Seq(WireFrames), NEW G \in Seq(WireFrames), NEW n \in Nat,
           NEW c \in [Senders -> T!SendCalls], Orderly(F \o G, n, c)
    PROVE  Orderly(F, n, c)
<1>1. /\ DOMAIN F \subseteq DOMAIN (F \o G)
      /\ \A i \in DOMAIN F : (F \o G)[i] = F[i]
  OBVIOUS
<1> DEFINE H == F \o G
<1> HIDE DEF H
<1>2. Orderly(H, n, c) /\ DOMAIN F \subseteq DOMAIN H /\ \A i \in DOMAIN F : H[i] = F[i]
  BY <1>1 DEF H
<1>3. Ascends(F)
  BY <1>2 DEF Orderly, Ascends
<1>4. \A i \in DOMAIN F : NumberOf(F[i]) <= n
  BY <1>2 DEF Orderly
<1>5. \A s \in Senders : c[s].pc = "send" => Ahead(F, s, c[s].seq)
  BY <1>2 DEF Orderly, Ahead
<1> QED
  BY <1>2, <1>3, <1>4, <1>5 DEF Orderly

LEMMA OrderlyBegin ==
    ASSUME NEW F \in Seq(WireFrames), NEW n \in Nat, NEW c \in [Senders -> T!SendCalls],
           Orderly(F, n, c), NEW s \in Senders, NEW y \in T!SendCalls, y.pc = "number",
           n < TcpSeq
    PROVE  Orderly(F, n, [c EXCEPT ![s] = y])
<1> DEFINE d == [c EXCEPT ![s] = y]
<1>1. d[s].pc = "number" /\ \A t \in Senders \ {s} : d[t] = c[t]
  OBVIOUS
<1>2. Drawing(d) \subseteq Senders
  BY DEF Drawing
<1>3. Cardinality(Drawing(d)) \in Nat /\ Cardinality(Senders) \in Nat
      /\ Cardinality(Drawing(d)) <= Cardinality(Senders)
  BY <1>2, LastNumberType, FS_Subset, FS_CardinalityType
<1>4. TcpSeq \in Nat
  BY TransportAssumption
<1> HIDE DEF d
<1>5. n + Cardinality(Drawing(d)) <= LastNumber
  BY <1>3, <1>4 DEF LastNumber
<1>6. \A t \in Senders : d[t].pc = "send" => d[t] = c[t]
  BY <1>1
<1>7. Orderly(F, n, d)
  BY <1>5, <1>6 DEF Orderly
<1> QED
  BY <1>7 DEF d

LEMMA OrderlyNumber ==
    ASSUME NEW F \in Seq(WireFrames), NEW n \in Nat, NEW c \in [Senders -> T!SendCalls],
           Orderly(F, n, c), NEW s \in Senders, c[s].pc = "number",
           NEW y \in T!SendCalls, y.pc = "send", y.seq = n + 1
    PROVE  Orderly(F, n + 1, [c EXCEPT ![s] = y])
<1> DEFINE d == [c EXCEPT ![s] = y]
<1>1. d[s] = y /\ \A t \in Senders \ {s} : d[t] = c[t]
  OBVIOUS
<1> HIDE DEF d
<1>2. Drawing(d) = Drawing(c) \ {s} /\ s \in Drawing(c) /\ Drawing(c) \subseteq Senders
  BY <1>1 DEF Drawing
<1>3. IsFiniteSet(Drawing(c))
  BY <1>2, LastNumberType, FS_Subset
<1>4. Cardinality(Drawing(c)) \in Nat /\ Cardinality(Drawing(d)) = Cardinality(Drawing(c)) - 1
  <2>1. Cardinality(Drawing(c)) \in Nat
    BY <1>3, FS_CardinalityType
  <2>2. Cardinality(Drawing(c) \ {s}) = Cardinality(Drawing(c)) - 1
    BY <1>2, <1>3, FS_RemoveElement
  <2> QED
    BY <2>1, <2>2, <1>2
<1>5. n + Cardinality(Drawing(c)) <= LastNumber
  BY DEF Orderly
<1>6. (n + 1) + Cardinality(Drawing(d)) <= LastNumber
  BY <1>4, <1>5, LastNumberType
<1>7. \A i \in DOMAIN F : NumberOf(F[i]) \in Nat /\ NumberOf(F[i]) <= n
  BY WireNumber DEF Orderly
<1>8. \A i \in DOMAIN F : NumberOf(F[i]) <= n + 1 /\ NumberOf(F[i]) < n + 1 /\ NumberOf(F[i]) # n + 1
  BY <1>7
<1>9. ASSUME NEW t \in Senders, d[t].pc = "send"
      PROVE  Ahead(F, t, d[t].seq) /\ d[t].seq \in 1 .. (n + 1)
  <2>1. CASE t = s
    BY <2>1, <1>1, <1>8 DEF Ahead
  <2>2. CASE t # s
    BY <2>2, <1>1, <1>9 DEF Orderly
  <2> QED
    BY <2>1, <2>2
<1>10. ASSUME NEW t \in Senders, NEW u \in Senders, d[t].pc = "send", d[u].pc = "send", t # u
       PROVE  d[t].seq # d[u].seq
  <2>1. \A v \in Senders \ {s} : d[v].pc = "send" => d[v].seq \in 1 .. n
    BY <1>1 DEF Orderly
  <2>2. CASE t = s
    BY <2>1, <2>2, <1>1, <1>10
  <2>3. CASE u = s
    BY <2>1, <2>3, <1>1, <1>10
  <2>4. CASE t # s /\ u # s
    BY <2>4, <1>1, <1>10 DEF Orderly
  <2> QED
    BY <2>2, <2>3, <2>4
<1>11. Ascends(F)
  BY DEF Orderly
<1>12. Orderly(F, n + 1, d)
  BY <1>6, <1>8, <1>9, <1>10, <1>11 DEF Orderly
<1> QED
  BY <1>12 DEF d

LEMMA OrderlyReturn ==
    ASSUME NEW F \in Seq(WireFrames), NEW n \in Nat, NEW c \in [Senders -> T!SendCalls],
           Orderly(F, n, c), NEW s \in Senders, c[s].pc = "send",
           NEW y \in T!SendCalls, y.pc = "idle"
    PROVE  Orderly(F, n, [c EXCEPT ![s] = y])
<1> DEFINE d == [c EXCEPT ![s] = y]
<1>1. d[s] = y /\ \A t \in Senders \ {s} : d[t] = c[t]
  OBVIOUS
<1> HIDE DEF d
<1>2. Drawing(d) = Drawing(c)
  BY <1>1 DEF Drawing
<1>3. \A t \in Senders : d[t].pc = "send" => d[t] = c[t]
  BY <1>1
<1>4. Orderly(F, n, d)
  BY <1>2, <1>3 DEF Orderly
<1> QED
  BY <1>4 DEF d

LEMMA OrderlySent ==
    ASSUME NEW F \in Seq(WireFrames), NEW n \in Nat, NEW c \in [Senders -> T!SendCalls],
           Orderly(F, n, c), NEW s \in Senders, c[s].pc = "send",
           NEW y \in T!SendCalls, y.pc = "idle",
           NEW f \in WireFrames, NumberOf(f) = c[s].seq, SenderOf(f) = <<s>>
    PROVE  Orderly(Append(F, f), n, [c EXCEPT ![s] = y])
<1> DEFINE d == [c EXCEPT ![s] = y]
           G == Append(F, f)
<1>1. d[s] = y /\ \A t \in Senders \ {s} : d[t] = c[t]
  OBVIOUS
<1>2. Orderly(F, n, d)
  BY OrderlyReturn
<1>3. Len(F) \in Nat /\ DOMAIN F = 1 .. Len(F) /\ DOMAIN G = 1 .. (Len(F) + 1)
  OBVIOUS
<1>4. G[Len(F) + 1] = f /\ \A i \in DOMAIN F : G[i] = F[i]
  OBVIOUS
<1> HIDE DEF d, G
<1>5. \A i \in DOMAIN G : i \in DOMAIN F \/ (i = Len(F) + 1 /\ G[i] = f)
  BY <1>3, <1>4
<1>6. Ahead(F, s, NumberOf(f)) /\ NumberOf(f) \in 1 .. n
  BY DEF Orderly
<1>7. Ascends(G)
  <2> SUFFICES ASSUME NEW i \in DOMAIN G, NEW j \in DOMAIN G, i < j
               PROVE  /\ NumberOf(G[i]) # NumberOf(G[j])
                      /\ SenderOf(G[i]) = SenderOf(G[j]) => NumberOf(G[i]) < NumberOf(G[j])
    BY DEF Ascends
  <2>1. i \in DOMAIN F
    BY <1>3
  <2>2. CASE j \in DOMAIN F
    BY <1>2, <1>4, <2>1, <2>2 DEF Orderly, Ascends
  <2>3. CASE j = Len(F) + 1 /\ G[j] = f
    BY <1>4, <1>6, <2>1, <2>3 DEF Ahead
  <2> QED
    BY <1>5, <2>2, <2>3
<1>8. \A i \in DOMAIN G : NumberOf(G[i]) <= n
  BY <1>2, <1>4, <1>5, <1>6 DEF Orderly
<1>9. ASSUME NEW t \in Senders, d[t].pc = "send"
      PROVE  Ahead(G, t, d[t].seq)
  <2>1. t # s /\ d[t] = c[t]
    BY <1>1, <1>9
  <2>2. c[t].seq # c[s].seq
    BY <2>1, <1>9 DEF Orderly
  <2>3. <<s>> # <<t>>
    BY <2>1
  <2>4. Ahead(F, t, d[t].seq)
    BY <1>2, <1>9 DEF Orderly
  <2> SUFFICES ASSUME NEW i \in DOMAIN G
               PROVE  /\ NumberOf(G[i]) # d[t].seq
                      /\ SenderOf(G[i]) = <<t>> => NumberOf(G[i]) < d[t].seq
    BY DEF Ahead
  <2>5. CASE i \in DOMAIN F
    BY <1>4, <2>4, <2>5 DEF Ahead
  <2>6. CASE G[i] = f
    BY <2>1, <2>2, <2>3, <2>6
  <2> QED
    BY <1>5, <2>5, <2>6
<1>10. Orderly(G, n, d)
  BY <1>2, <1>7, <1>8, <1>9 DEF Orderly
<1> QED
  BY <1>10 DEF d, G

\* What recv_base makes of the frames a peer sends.
Taken == {[bytes |-> b, frame |-> T!decode_frame(b)] : b \in T!PeerFrames}

\* The frames on the wire: those taken are decoded, and those sent orderly.
WireInv ==
    /\ got \in Seq(Taken)
    /\ seen \in Seq(WireFrames) /\ zmq.outq \in Seq(WireFrames)
    /\ Orderly(seen \o zmq.outq, tcpSeq, snd)

LEMMA LibraryQueue ==
    ASSUME NEW z, DOMAIN z = {"linked", "rcvtimeo", "outq", "inq"}, NEW v
    PROVE  /\ [z EXCEPT !.linked = v].outq = z.outq
           /\ [z EXCEPT !.inq = v].outq = z.outq
           /\ [z EXCEPT !.rcvtimeo = v].outq = z.outq
           /\ [z EXCEPT !.outq = v].outq = v
           /\ [z EXCEPT !.linked = FALSE, !.outq = <<>>, !.inq = <<>>].outq = <<>>
  OBVIOUS

LEMMA NoneDrawing ==
    ASSUME NEW c \in [Senders -> T!SendCalls], \A s \in Senders : c[s].pc = "idle"
    PROVE  Orderly(<<>>, 0, c)
<1>1. Drawing(c) = {}
  BY DEF Drawing
<1>2. Cardinality(Drawing(c)) = 0
  BY <1>1, FS_EmptySet
<1>3. 0 + Cardinality(Drawing(c)) <= LastNumber
  BY <1>2, LastNumberType
<1>4. DOMAIN <<>> = {}
  OBVIOUS
<1>5. Ascends(<<>>)
  BY <1>4 DEF Ascends
<1> QED
  BY <1>3, <1>4, <1>5 DEF Orderly

LEMMA WireConstructed ==
    ASSUME NEW threads, NEW socket, NEW auto, T!Constructed(threads, socket, auto)
    PROVE  WireInv
<1>1. /\ tcpSeq = 0 /\ seen = <<>> /\ got = <<>>
      /\ zmq = [linked |-> auto, rcvtimeo |-> T!Default, outq |-> <<>>, inq |-> <<>>]
      /\ snd = [s \in Senders |-> T!NoSend]
  BY DEF T!Constructed
<1>2. T!NoSend \in T!SendCalls /\ T!NoSend.pc = "idle"
  BY DEF T!NoSend, T!SendCalls, T!Prio
<1>3. snd \in [Senders -> T!SendCalls] /\ \A s \in Senders : snd[s].pc = "idle"
  BY <1>1, <1>2
<1>4. zmq.outq = <<>>
  BY <1>1
<1>5. seen \o zmq.outq = <<>>
  BY <1>1, <1>4
<1>6. Orderly(seen \o zmq.outq, tcpSeq, snd)
  BY <1>1, <1>3, <1>5, NoneDrawing
<1> QED
  BY <1>1, <1>4, <1>6 DEF WireInv

LEMMA WireInit ==
    ASSUME T!Absent \/ T!Init PROVE WireInv
  BY WireConstructed DEF T!Absent, T!Init

\* A step that leaves what was sent, and its senders, alone.
LEMMA WireSame ==
    ASSUME WireInv, seen' = seen, zmq'.outq = zmq.outq, tcpSeq' = tcpSeq, snd' = snd,
           got' \in Seq(Taken)
    PROVE  WireInv'
  BY DEF WireInv

LEMMA WireSendStep ==
    ASSUME T!TypeOK, WireInv, NEW s \in Senders, T!Send(s)
    PROVE  WireInv'
<1>0. /\ got' = got /\ seen' = seen
      /\ DOMAIN zmq = {"linked", "rcvtimeo", "outq", "inq"}
      /\ tcpSeq \in Nat /\ snd \in [Senders -> T!SendCalls]
  BY DEF T!TypeOK, T!Send, T!SendBegin, T!SendNumber, T!SendMsg, T!peer
<1>1. PICK F : F = seen \o zmq.outq
  OBVIOUS
<1>2. PICK n : n = tcpSeq
  OBVIOUS
<1>3. PICK c : c = snd
  OBVIOUS
<1>4. /\ got \in Seq(Taken) /\ seen \in Seq(WireFrames) /\ zmq.outq \in Seq(WireFrames)
      /\ Orderly(F, n, c)
  BY <1>1, <1>2, <1>3 DEF WireInv
<1>5. F \in Seq(WireFrames) /\ n \in Nat /\ c \in [Senders -> T!SendCalls]
  BY <1>0, <1>1, <1>2, <1>3, <1>4
<1>6. ASSUME zmq'.outq = zmq.outq, Orderly(F, tcpSeq', snd')
      PROVE  WireInv'
  <2>1. seen' \o zmq'.outq = F
    BY <1>0, <1>1, <1>6
  <2> QED
    BY <1>0, <1>4, <1>6, <2>1 DEF WireInv
<1>7. CASE T!SendBegin(s)
  <2>1. PICK p \in T!Prio :
           snd' = [snd EXCEPT ![s] = [pc |-> "number", late |-> T!Late, prio |-> p, seq |-> 0]]
    BY <1>7 DEF T!SendBegin
  <2>2. PICK y : y = [pc |-> "number", late |-> T!Late, prio |-> p, seq |-> 0]
    OBVIOUS
  <2>3. T!Late \in BOOLEAN
    BY Zenon DEF T!Late
  <2>4. y \in T!SendCalls /\ y.pc = "number"
    BY <2>2, <2>3 DEF T!SendCalls
  <2>5. zmq' = zmq /\ tcpSeq' = n /\ n < TcpSeq /\ snd' = [c EXCEPT ![s] = y]
    BY <1>2, <1>3, <1>7, <2>1, <2>2 DEF T!SendBegin
  <2>6. Orderly(F, n, [c EXCEPT ![s] = y])
    BY <1>4, <1>5, <2>4, <2>5, OrderlyBegin
  <2> QED
    BY <1>6, <2>5, <2>6
<1>8. CASE T!SendNumber(s)
  <2>1. PICK y : y = [snd[s] EXCEPT !.pc = "send", !.seq = tcpSeq + 1]
    OBVIOUS
  <2>2. snd[s] \in T!SendCalls
    BY <1>0
  <2>3. y \in T!SendCalls /\ y.pc = "send" /\ y.seq = n + 1
    <3>1. y \in T!SendCalls
      <4>1. tcpSeq + 1 \in Nat
        BY <1>0
      <4>2. [snd[s] EXCEPT !.pc = "send", !.seq = tcpSeq + 1] \in T!SendCalls
        BY <4>1, <2>2, CallNumbered
      <4> QED
        BY <4>2, <2>1
    <3>2. y.pc = "send" /\ y.seq = tcpSeq + 1
      BY <2>1, <2>2 DEF T!SendCalls
    <3> QED
      BY <3>1, <3>2, <1>2
  <2>4. zmq' = zmq /\ tcpSeq' = n + 1 /\ c[s].pc = "number" /\ snd' = [c EXCEPT ![s] = y]
    BY <1>2, <1>3, <1>8, <2>1 DEF T!SendNumber, T!Numbered
  <2>5. Orderly(F, n + 1, [c EXCEPT ![s] = y])
    BY <1>4, <1>5, <2>3, <2>4, OrderlyNumber
  <2> QED
    BY <1>6, <2>4, <2>5
<1>9. CASE T!SendMsg(s)
  <2>1. PICK y : y = T!NoSend
    OBVIOUS
  <2>2. y \in T!SendCalls /\ y.pc = "idle"
    BY <2>1 DEF T!NoSend, T!SendCalls, T!Prio
  <2>3. tcpSeq' = n /\ c[s].pc = "send" /\ snd' = [c EXCEPT ![s] = y]
    BY <1>2, <1>3, <1>9, <2>1 DEF T!SendMsg
  <2>4. CASE zmq' = zmq
    <3>1. Orderly(F, n, [c EXCEPT ![s] = y])
      BY <1>4, <1>5, <2>2, <2>3, OrderlyReturn
    <3> QED
      BY <1>6, <2>3, <2>4, <3>1
  <2>5. CASE T!SendOk(s)
    <3>1. PICK p : p = snd[s].prio
      OBVIOUS
    <3>2. PICK q : q = snd[s].seq
      OBVIOUS
    <3>3. q = c[s].seq /\ p \in T!Prio
      BY <1>0, <1>3, <3>1, <3>2 DEF T!SendCalls
    <3>4. q \in 0 .. LastNumber
      <4>1. q \in 1 .. n /\ n + Cardinality(Drawing(c)) <= LastNumber
        BY <1>4, <2>3, <3>3 DEF Orderly
      <4>2. Drawing(c) \subseteq Senders
        BY DEF Drawing
      <4>3. Cardinality(Drawing(c)) \in Nat
        BY <4>2, LastNumberType, FS_Subset, FS_CardinalityType
      <4> QED
        BY <4>1, <4>3, <1>5, LastNumberType
    <3>5. PICK f : f = Wire(p, q, s)
      OBVIOUS
    <3>6. f \in WireFrames /\ NumberOf(f) = c[s].seq /\ SenderOf(f) = <<s>>
      BY <3>3, <3>4, <3>5, WireMeaning
    <3>7. zmq' = [zmq EXCEPT !.outq = Append(zmq.outq, f)]
      BY <2>5, <3>1, <3>2, <3>5 DEF T!SendOk, Wire
    <3>8. zmq'.outq = Append(zmq.outq, f)
      BY <1>0, <3>7, LibraryQueue
    <3>9. zmq'.outq \in Seq(WireFrames)
      BY <1>4, <3>6, <3>8
    <3>10. seen' \o zmq'.outq = Append(F, f)
      BY <1>0, <1>1, <1>4, <3>6, <3>8
    <3>11. Orderly(Append(F, f), n, [c EXCEPT ![s] = y])
      BY <1>4, <1>5, <2>2, <2>3, <3>6, OrderlySent
    <3>12. Orderly(seen' \o zmq'.outq, tcpSeq', snd')
      BY <2>3, <3>10, <3>11
    <3> QED
      BY <1>0, <1>4, <3>9, <3>12 DEF WireInv
  <2> QED
    BY <1>9, <2>4, <2>5 DEF T!SendMsg, T!SendFull, T!SendError
<1> QED
  BY <1>7, <1>8, <1>9 DEF T!Send

LEMMA WireRecvStep ==
    ASSUME T!TypeOK, WireInv, NEW r \in Receivers, T!Recv(r)
    PROVE  WireInv'
<1>0. /\ seen' = seen /\ tcpSeq' = tcpSeq /\ snd' = snd
      /\ DOMAIN zmq = {"linked", "rcvtimeo", "outq", "inq"}
      /\ got \in Seq(Taken) /\ rcv[r] \in T!RecvCalls
  BY DEF T!TypeOK, T!Recv, WireInv, T!peer
<1>1. zmq' = zmq => zmq'.outq = zmq.outq
  OBVIOUS
<1>2. ASSUME NEW t, T!SetTimeout(t) PROVE zmq'.outq = zmq.outq
  BY <1>0, <1>2, LibraryQueue DEF T!SetTimeout
<1>3. ASSUME T!RecvTake(r) PROVE zmq'.outq = zmq.outq
  BY <1>0, <1>3, LibraryQueue DEF T!RecvTake
<1>4. zmq'.outq = zmq.outq
  BY <1>1, <1>2, <1>3
  DEF T!Recv, T!RecvBegin, T!RecvSave, T!RecvSet, T!RecvEnter, T!RecvMsg, T!RecvNothing,
      T!RecvReturn
<1>5. got' \in Seq(Taken)
  <2>1. CASE T!RecvReturn(r)
    <3>1. PICK b : b = rcv[r].bytes
      OBVIOUS
    <3>2. CASE b = <<>>
      BY <1>0, <2>1, <3>1, <3>2 DEF T!RecvReturn
    <3>3. CASE b # <<>>
      <4>1. b \in T!PeerFrames
        BY <1>0, <3>1, <3>3 DEF T!RecvCalls
      <4>2. [bytes |-> b, frame |-> T!decode_frame(b)] \in Taken
        BY <4>1 DEF Taken
      <4>3. got' = Append(got, [bytes |-> b, frame |-> T!decode_frame(b)])
        BY <2>1, <3>1, <3>3 DEF T!RecvReturn
      <4> QED
        BY <1>0, <4>2, <4>3
    <3> QED
      BY <3>2, <3>3
  <2>2. CASE got' = got
    BY <1>0, <2>2
  <2> QED
    BY <2>1, <2>2
    DEF T!Recv, T!RecvBegin, T!RecvSave, T!RecvSet, T!RecvEnter, T!RecvMsg
<1> QED
  BY <1>0, <1>4, <1>5, WireSame

LEMMA WireConnectStep ==
    ASSUME T!TypeOK, WireInv, NEW k \in Connectors, T!Connect(k)
    PROVE  WireInv'
<1>1. /\ seen' = seen /\ tcpSeq' = tcpSeq /\ snd' = snd /\ got' = got
      /\ DOMAIN zmq = {"linked", "rcvtimeo", "outq", "inq"} /\ got \in Seq(Taken)
  BY DEF T!TypeOK, T!Connect, WireInv, T!peer
<1>2. zmq' = zmq \/ zmq' = [zmq EXCEPT !.linked = TRUE]
  BY DEF T!Connect, T!ConnectBegin, T!ConnectLocked
<1>3. zmq'.outq = zmq.outq
  BY <1>1, <1>2, LibraryQueue
<1> QED
  BY <1>1, <1>3, WireSame

\* close() drops what is unsent.
LEMMA WireCloseStep ==
    ASSUME T!TypeOK, WireInv, T!Close
    PROVE  WireInv'
<1>1. /\ seen' = seen /\ tcpSeq' = tcpSeq /\ snd' = snd /\ got' = got
      /\ DOMAIN zmq = {"linked", "rcvtimeo", "outq", "inq"} /\ got \in Seq(Taken)
      /\ seen \in Seq(WireFrames) /\ zmq.outq \in Seq(WireFrames)
      /\ Orderly(seen \o zmq.outq, tcpSeq, snd)
      /\ tcpSeq \in Nat /\ snd \in [Senders -> T!SendCalls]
  BY DEF T!TypeOK, T!Close, WireInv, T!peer
<1>2. CASE zmq' = zmq
  BY <1>1, <1>2, WireSame
<1>3. CASE zmq' = [zmq EXCEPT !.linked = FALSE, !.outq = <<>>, !.inq = <<>>]
  <2>1. zmq'.outq = <<>>
    BY <1>1, <1>3, LibraryQueue
  <2>2. seen' \o zmq'.outq = seen
    BY <1>1, <2>1
  <2>3. Orderly(seen, tcpSeq, snd)
    BY <1>1, OrderlyCut
  <2>4. Orderly(seen' \o zmq'.outq, tcpSeq', snd')
    BY <1>1, <2>2, <2>3
  <2> QED
    BY <1>1, <2>1, <2>4 DEF WireInv
<1> QED
  BY <1>2, <1>3 DEF T!Close, T!CloseFlag, T!CloseFree, T!CloseClear

\* The peer takes the frames as they were put in.
LEMMA WirePeerStep ==
    ASSUME T!TypeOK, WireInv, T!Peer
    PROVE  WireInv'
<1>1. /\ tcpSeq' = tcpSeq /\ snd' = snd /\ got' = got
      /\ DOMAIN zmq = {"linked", "rcvtimeo", "outq", "inq"} /\ got \in Seq(Taken)
      /\ seen \in Seq(WireFrames) /\ zmq.outq \in Seq(WireFrames)
      /\ Orderly(seen \o zmq.outq, tcpSeq, snd)
  BY DEF T!TypeOK, T!Peer, WireInv, T!calls
<1>2. CASE T!PeerSends
  <2>1. seen' = seen /\ \E b : zmq' = [zmq EXCEPT !.inq = b]
    BY <1>2 DEF T!PeerSends
  <2>2. zmq'.outq = zmq.outq
    BY <1>1, <2>1, LibraryQueue
  <2> QED
    BY <1>1, <2>1, <2>2, WireSame
<1>3. CASE T!PeerReceives
  <2>1. PICK o : o = zmq.outq
    OBVIOUS
  <2>2. /\ o # <<>> /\ o \in Seq(WireFrames)
        /\ seen' = Append(seen, Head(o)) /\ zmq' = [zmq EXCEPT !.outq = Tail(o)]
    BY <1>1, <1>3, <2>1 DEF T!PeerReceives
  <2>3. zmq'.outq = Tail(o)
    BY <1>1, <2>2, LibraryQueue
  <2>4. /\ Head(o) \in WireFrames /\ Tail(o) \in Seq(WireFrames)
        /\ o = <<Head(o)>> \o Tail(o)
    BY <2>2, HeadTailProperties
  <2>5. seen' \in Seq(WireFrames) /\ zmq'.outq \in Seq(WireFrames)
    BY <1>1, <2>2, <2>3, <2>4
  <2>6. seen' \o zmq'.outq = seen \o zmq.outq
    <3>1. Append(seen, Head(o)) \o Tail(o) = seen \o (<<Head(o)>> \o Tail(o))
      BY <1>1, <2>4
    <3> QED
      BY <2>1, <2>2, <2>3, <2>4, <3>1
  <2>7. Orderly(seen' \o zmq'.outq, tcpSeq', snd')
    BY <1>1, <2>6
  <2> QED
    BY <1>1, <2>5, <2>7 DEF WireInv
<1> QED
  BY <1>2, <1>3 DEF T!Peer

LEMMA WireFrameExact == WireInv => FramesExact
<1> SUFFICES ASSUME WireInv, NEW i \in DOMAIN got
             PROVE  Exact(got[i].bytes, got[i].frame)
  BY DEF FramesExact, T!FramesExact, Exact
<1>1. got[i] \in Taken
  BY DEF WireInv
<1>2. PICK b \in T!PeerFrames : got[i] = [bytes |-> b, frame |-> T!decode_frame(b)]
  BY <1>1 DEF Taken
<1>3. got[i].bytes = b /\ got[i].frame = T!decode_frame(b)
  BY <1>2
<1> QED
  BY <1>3, PeerFramesExact

LEMMA WireNumbersAscend == T!TypeOK /\ WireInv => NumbersAscend
<1> SUFFICES ASSUME T!TypeOK, WireInv PROVE NumbersAscend
  OBVIOUS
<1>1. Orderly(seen, tcpSeq, snd)
  BY OrderlyCut DEF T!TypeOK, WireInv
<1>2. Ascends(seen)
  BY <1>1 DEF Orderly
<1> QED
  BY <1>2 DEF NumbersAscend, T!NumbersAscend, Ascends, NumberOf, SenderOf

\* A step of the TCP transport keeps the wire's invariant.
LEMMA WireStep ==
    ASSUME T!TypeOK, WireInv, [T!Next]_tcpVars
    PROVE  WireInv'
<1>1. CASE T!Next
  BY <1>1, WireSendStep, WireRecvStep, WireConnectStep, WireCloseStep, WirePeerStep DEF T!Next
<1>2. CASE UNCHANGED tcpVars
  BY <1>2 DEF tcpVars, WireInv
<1> QED
  BY <1>1, <1>2

\* encode_frame, decode_frame and the counter next_seq_ on all behaviours: the
\* frames sent, and those still with the library, are numbered in order.
THEOREM WireInvariant == ChannelSpec => []WireInv
<1>1. T!Absent \/ T!Init => WireInv
  BY WireInit
<1>2. T!TcpInv /\ WireInv /\ [T!Next]_tcpVars => WireInv'
  BY WireStep DEF T!TcpInv
<1> QED
  BY <1>1, <1>2, ChannelImpliesTcp, TcpInvariant, PTL

\* What recv_base returns is what the peer encoded, and nothing cut short is.
THEOREM FramesAreExact == ChannelSpec => []FramesExact
<1>1. WireInv => FramesExact
  BY WireFrameExact
<1> QED
  BY <1>1, WireInvariant, PTL

\* send_base numbers frames once, and each sender's in the order of its calls.
THEOREM NumbersAreAscending == ChannelSpec => []NumbersAscend
<1>1. T!TcpInv /\ WireInv => NumbersAscend
  BY WireNumbersAscend DEF T!TcpInv
<1> QED
  BY <1>1, TcpInvariant, WireInvariant, PTL
=============================================================================
