----------------------------- MODULE SdkProofs -----------------------------
(***************************************************************************)
(* The audit log and the client that writes it, for any number of threads, *)
(* peers, restarts and faults: what the chain proves about the records,    *)
(* and what the records say about the whitelist.                           *)
(***************************************************************************)
EXTENDS SdkClient, WellFoundedInduction, TLAPS

Terms == Nat \cup {<<"garbled">>} \cup (Hashed \X (1 .. MaxSeq) \X Actions)

-----------------------------------------------------------------------------
(* Numbers, hashes and lines.                                              *)

\* Digits written in front of a number make a larger one.
LEMMA JoinedIsLarger ==
    ASSUME NEW d \in 1 .. MaxSeq, NEW s \in 1 .. MaxSeq
    PROVE  Joined(d, s) \in Nat /\ Joined(d, s) > s /\ Joined(d, s) > d
<1> DEFINE m == Magnitude(s)
<1>1. m \in Nat /\ s < m
  <2>1. \E k \in Tens : s < k /\ k <= 10 * s
    BY AuditAssumption
  <2>2. m \in Tens /\ s < m
    BY <2>1 DEF Magnitude
  <2> QED
    BY <2>2, AuditAssumption
<1> HIDE DEF m
<1>2. d \in Nat /\ s \in Nat /\ d >= 1 /\ s >= 1
  BY AuditAssumption
<1>3. d * m \in Nat /\ d * m >= m /\ d * m >= d
  BY <1>1, <1>2
<1>4. Joined(d, s) = d * m + s
  BY DEF Joined, m
<1> QED
  BY <1>1, <1>2, <1>3, <1>4

\* The first digits of a number are no larger than it.
LEMMA LeadingSmaller ==
    ASSUME NEW s \in 1 .. MaxSeq
    PROVE  Leading(s) \subseteq 1 .. MaxSeq
<1> SUFFICES ASSUME NEW m \in Tens \cup {1}, s \div m # 0
             PROVE  s \div m \in 1 .. MaxSeq
  BY DEF Leading
<1>1. m \in Nat /\ m >= 1 /\ s \in Nat /\ MaxSeq \in Nat /\ s <= MaxSeq
  BY AuditAssumption
<1>2. s \div m \in Nat /\ s \div m <= s
  BY <1>1
<1> HIDE DEF Leading
<1> QED
  BY <1>1, <1>2

\* A line is of one of five kinds, and its kind says which.
LEMMA LineKinds ==
    ASSUME NEW l \in Lines
    PROVE  /\ l.kind \in {"event", "stub", "genesis", "digits", "junk"} /\ l.nl \in BOOLEAN
           /\ l.kind = "event" => l \in Events
           /\ l.kind = "stub" => l \in Stubs
           /\ l.kind = "genesis" => l \in Geneses
           /\ l.kind = "digits" => l \in [kind : {"digits"}, seq : 1 .. MaxSeq, nl : {FALSE}]
           /\ l.kind = "junk" => l \in [kind : {"junk"}, nl : BOOLEAN]
  BY DEF Lines, Events, Stubs, Geneses, Rests

\* Hashing an event makes a hash one term longer than the one before.
LEMMA HashGrows ==
    ASSUME NEW h \in Hashes, NEW s \in 1 .. MaxSeq, NEW a \in Actions, NEW p \in Hashed
    PROVE  /\ NextHash(h, s, a, p) \in Hashes
           /\ Len(NextHash(h, s, a, p)) = Len(h) + 1
           /\ NextHash(h, s, a, p)[Len(h) + 1] = <<p, s, a>>
<1>1. <<p, s, a>> \in Terms
  BY DEF Terms
<1>2. Append(h, <<p, s, a>>) \in Seq(Terms)
  BY <1>1 DEF Hashes, Terms
<1>3. Len(Append(h, <<p, s, a>>)) = Len(h) + 1
      /\ Append(h, <<p, s, a>>)[Len(h) + 1] = <<p, s, a>>
  BY DEF Hashes
<1> QED
  BY <1>2, <1>3 DEF Hashes, Terms, NextHash

\* The hash after a line that verify_chain can go on from.
LEMMA AfterType ==
    ASSUME NEW l \in Events \cup Geneses
    PROVE  After(l) \in Hashes
<1>1. CASE l \in Events
  <2>1. After(l) = NextHash(l.prev, l.seq, l.action, l.params_hash)
    BY <1>1 DEF After, Events
  <2>2. l.prev \in Hashes /\ l.seq \in 1 .. MaxSeq /\ l.action \in Actions
        /\ l.params_hash \in Hashed
    BY <1>1 DEF Events
  <2> QED
    BY <2>1, <2>2, HashGrows
<1>2. CASE l \in Geneses
  BY <1>2 DEF After, Geneses
<1> QED
  BY <1>1, <1>2

\* What writing an event, or failing to, can put behind a file.
Pieces(s, c, h) ==
    {Junk, Clipped(s, c, h), Event(s, c, h)} \cup
    {Unfinished(Junk), Unfinished(Clipped(s, c, h)), Stub(s, c, h), Unfinished(Event(s, c, h))} \cup
    {Digits(d) : d \in Leading(s)}

\* They are lines; and those with the right params_hash are of the event.
LEMMA PieceTypes ==
    ASSUME NEW c \in Calls, NEW s \in 1 .. MaxSeq, NEW h \in Hashes, NEW x \in Pieces(s, c, h)
    PROVE  /\ x \in Lines /\ x.kind # "genesis"
           /\ x.kind = "event" => /\ x.seq = s /\ x.prev = h /\ x.action = c.action
                                  /\ x.target = c.target /\ x.params_hash = c.params
                                  /\ x.params \in {c.params, Garbled}
                                  /\ x.params = Garbled \/ x \in {Event(s, c, h), Unfinished(Event(s, c, h))}
<1>1. c.action \in Actions /\ c.target \in Targets /\ c.params \in Params
  BY DEF Calls
<1>2. CASE x \in {Event(s, c, h), Unfinished(Event(s, c, h))}
  <2> DEFINE e == Event(s, c, h)
  <2>1. e \in Events /\ e.kind = "event" /\ e.seq = s /\ e.prev = h /\ e.action = c.action
        /\ e.target = c.target /\ e.params_hash = c.params /\ e.params = c.params
    BY <1>1 DEF Event, Events, Hashed
  <2>2. x = e \/ x = [e EXCEPT !.nl = FALSE]
    BY <1>2 DEF Unfinished
  <2> HIDE DEF e
  <2>3. x \in Events /\ x.kind = "event" /\ x.seq = s /\ x.prev = h /\ x.action = c.action
        /\ x.target = c.target /\ x.params_hash = c.params /\ x.params = c.params
    BY <2>1, <2>2 DEF Events
  <2> QED
    BY <1>2, <2>3 DEF Lines
<1>3. CASE x \in {Clipped(s, c, h), Unfinished(Clipped(s, c, h))}
  BY <1>1, <1>3 DEF Event, Clipped, Unfinished, Lines, Events, Hashed
<1>4. CASE x = Stub(s, c, h)
  BY <1>1, <1>4 DEF Event, Clipped, Stub, Lines, Stubs
<1>5. CASE x \in {Junk, Unfinished(Junk)}
  <2>1. Junk \in [kind : {"junk"}, nl : BOOLEAN] /\ Junk.kind = "junk"
    BY DEF Junk
  <2>2. Unfinished(Junk) \in [kind : {"junk"}, nl : BOOLEAN] /\ Unfinished(Junk).kind = "junk"
    BY <2>1 DEF Unfinished
  <2>3. x \in [kind : {"junk"}, nl : BOOLEAN] /\ x.kind = "junk"
    BY <1>5, <2>1, <2>2
  <2> QED
    BY <2>3 DEF Lines, Rests
<1>6. CASE x \in {Digits(d) : d \in Leading(s)}
  <2>1. PICK d \in 1 .. MaxSeq : x = Digits(d)
    BY <1>6, LeadingSmaller
  <2> QED
    BY <2>1 DEF Digits, Lines, Rests
<1> QED
  BY <1>2, <1>3, <1>4, <1>5, <1>6 DEF Pieces

\* Line y is GENESIS only if a was, and then another hash; it is an event with
\* the right params_hash only if a was digits and x such an event, and then has
\* a larger number.
Reads(a, x, y) ==
    /\ y \in Lines /\ y.nl = x.nl
    /\ y.kind = "genesis" => a.kind = "genesis" /\ y.prev = Append(a.prev, <<"garbled">>)
    /\ y.kind = "digits" => a.kind = "digits"
    /\ y.kind = "event" /\ y.params = y.params_hash =>
          /\ a.kind = "digits" /\ x.kind = "event"
          /\ y = [x EXCEPT !.seq = Joined(a.seq, x.seq)]
          /\ a.seq \in 1 .. MaxSeq /\ Joined(a.seq, x.seq) \in 1 .. MaxSeq

\* This is what an unfinished line a reads as with x behind it.
LEMMA JoinMeans ==
    ASSUME NEW a \in Lines, NEW x \in Lines
    PROVE  Reads(a, x, Join(a, x))
<1> USE DEF Reads
<1> DEFINE y == Join(a, x)
<1>0. x.nl \in BOOLEAN /\ (x.kind = "digits" => x.nl = FALSE)
  BY LineKinds
<1>n. Garbled \notin Hashed
  BY SdkAssumption DEF Hashed
<1>1. CASE a.kind = "genesis"
  <2>1. a \in Geneses
    BY <1>1, LineKinds
  <2>2. y = [a EXCEPT !.prev = Append(a.prev, <<"garbled">>), !.nl = x.nl]
    BY <1>1 DEF Join
  <2>3. Append(a.prev, <<"garbled">>) \in Hashes
    <3>1. a.prev \in Seq(Terms)
      BY <2>1 DEF Geneses, Hashes, Terms
    <3>2. <<"garbled">> \in Terms
      BY DEF Terms
    <3>3. Append(a.prev, <<"garbled">>) \in Seq(Terms)
      BY <3>1, <3>2
    <3> QED
      BY <3>3 DEF Hashes, Terms
  <2>4. y \in Geneses /\ y.prev = Append(a.prev, <<"garbled">>) /\ y.nl = x.nl
        /\ y.kind = "genesis"
    BY <1>0, <2>1, <2>2, <2>3 DEF Geneses
  <2> QED
    BY <1>1, <2>4 DEF Lines
<1>2. CASE a.kind = "event"
  <2>1. a \in Events /\ y = [a EXCEPT !.params = Garbled, !.nl = x.nl]
    BY <1>2, LineKinds DEF Join
  <2>2. y \in Events /\ y.params = Garbled /\ y.kind = "event" /\ y.nl = x.nl
        /\ y.params_hash \in Hashed
    BY <1>0, <2>1 DEF Events
  <2> QED
    BY <1>n, <2>2 DEF Lines
<1>3. CASE a.kind = "stub"
  <2>1. a \in Stubs
        /\ y = [a EXCEPT !.kind = IF x.kind = "digits" THEN "stub" ELSE "event", !.nl = x.nl]
    BY <1>3, LineKinds DEF Join
  <2>2. y.params = Garbled /\ y.params_hash = CutShort /\ y.nl = x.nl
        /\ y.kind \in {"event", "stub"}
    BY <2>1 DEF Stubs
  <2>3. CASE x.kind = "digits"
    <3>1. y \in Stubs
      BY <1>0, <2>1, <2>3 DEF Stubs
    <3> QED
      BY <2>2, <3>1 DEF Lines, Stubs
  <2>4. CASE x.kind # "digits"
    <3>1. y \in Events
      BY <1>0, <2>1, <2>4 DEF Stubs, Events, Hashed
    <3> QED
      BY <2>2, <3>1, SdkAssumption DEF Lines
  <2> QED
    BY <2>3, <2>4
<1>4. CASE a.kind = "junk"
  <2>1. a \in [kind : {"junk"}, nl : BOOLEAN] /\ y = [a EXCEPT !.nl = x.nl]
    BY <1>4, LineKinds DEF Join
  <2>2. y \in [kind : {"junk"}, nl : BOOLEAN] /\ y.nl = x.nl /\ y.kind = "junk"
    BY <1>0, <2>1
  <2> QED
    BY <2>2 DEF Lines, Rests
<1>5. CASE /\ a.kind = "digits"
           /\ x.kind \in {"event", "stub", "digits"} /\ Joined(a.seq, x.seq) <= MaxSeq
  <2>1. a.seq \in 1 .. MaxSeq /\ y = [x EXCEPT !.seq = Joined(a.seq, x.seq)]
    BY <1>5, LineKinds DEF Join
  <2>2. x.seq \in 1 .. MaxSeq
    BY <1>5, LineKinds DEF Events, Stubs
  <2>3. Joined(a.seq, x.seq) \in 1 .. MaxSeq
    <3>1. \A j \in Nat : j > x.seq /\ j <= MaxSeq => j \in 1 .. MaxSeq
      BY <2>2, AuditAssumption
    <3> QED
      BY <1>5, <2>1, <2>2, <3>1, JoinedIsLarger
  <2> HIDE DEF Joined
  <2>4. CASE x.kind = "event"
    <3>1. x \in Events
      BY <2>4, LineKinds
    <3>2. y \in Events /\ y.kind = "event" /\ y.nl = x.nl
      BY <2>1, <2>3, <3>1 DEF Events
    <3> QED
      BY <1>5, <2>1, <2>3, <2>4, <3>2 DEF Lines
  <2>5. CASE x.kind = "stub"
    <3>1. x \in Stubs
      BY <2>5, LineKinds
    <3>2. y \in Stubs /\ y.kind = "stub" /\ y.nl = x.nl
      BY <2>1, <2>3, <3>1 DEF Stubs
    <3> QED
      BY <3>2 DEF Lines
  <2>6. CASE x.kind = "digits"
    <3>1. x \in [kind : {"digits"}, seq : 1 .. MaxSeq, nl : {FALSE}]
      BY <2>6, LineKinds
    <3>2. y \in [kind : {"digits"}, seq : 1 .. MaxSeq, nl : {FALSE}] /\ y.kind = "digits"
          /\ y.nl = x.nl
      BY <2>1, <2>3, <3>1
    <3> QED
      BY <1>5, <3>2 DEF Lines, Rests
  <2> QED
    BY <1>5, <2>4, <2>5, <2>6
<1>6. CASE /\ a.kind = "digits"
           /\ ~(x.kind \in {"event", "stub", "digits"} /\ Joined(a.seq, x.seq) <= MaxSeq)
  <2>1. y = [Junk EXCEPT !.nl = x.nl]
    BY <1>6 DEF Join
  <2>2. y \in [kind : {"junk"}, nl : BOOLEAN] /\ y.nl = x.nl /\ y.kind = "junk"
    BY <1>0, <2>1 DEF Junk
  <2> QED
    BY <2>2 DEF Lines, Rests
<1> QED
  BY <1>1, <1>2, <1>3, <1>4, <1>5, <1>6, LineKinds

-----------------------------------------------------------------------------
(* Files.                                                                  *)

\* Only the last line of a file can lack its newline.
Ended(f) == \A i \in 1 .. Len(f) - 1 : f[i].nl

\* verify_chain is true of a GENESIS line and events that continue the chain.
LEMMA VerifiedMeans ==
    ASSUME NEW f
    PROVE  verify_chain(f) = "true" <=>
               /\ f # <<>> /\ f[1].kind = "genesis"
               /\ \A i \in 2 .. Len(f) : Linked(f, i) /\ f[i].params = f[i].params_hash
  BY DEF verify_chain, HasGenesis

\* The last line of a log that verifies has a hash behind it.
LEMMA LastHash ==
    ASSUME NEW f \in Seq(Lines), verify_chain(f) = "true"
    PROVE  /\ Len(f) \in Nat /\ Len(f) >= 1 /\ f[Len(f)] \in Events \cup Geneses
           /\ f[Len(f)].kind \in {"event", "genesis"}
           /\ Len(f) > 1 => f[Len(f)] \in Events
           /\ After(f[Len(f)]) \in Hashes
<1>1. Len(f) \in Nat /\ Len(f) >= 1 /\ f[Len(f)] \in Lines
  BY VerifiedMeans
<1>2. Len(f) > 1 => f[Len(f)].kind = "event"
  <2>1. Len(f) > 1 => Len(f) \in 2 .. Len(f)
    BY <1>1
  <2> QED
    BY <2>1, VerifiedMeans DEF Linked
<1>3. Len(f) = 1 => f[Len(f)].kind = "genesis"
  BY VerifiedMeans
<1>4. f[Len(f)] \in Events \cup Geneses /\ f[Len(f)].kind \in {"event", "genesis"}
      /\ (Len(f) > 1 => f[Len(f)] \in Events)
  <2>1. Len(f) = 1 \/ Len(f) > 1
    BY <1>1
  <2>2. f[Len(f)].kind = "event" => f[Len(f)] \in Events
    BY <1>1, LineKinds
  <2>3. f[Len(f)].kind = "genesis" => f[Len(f)] \in Geneses
    BY <1>1, LineKinds
  <2> QED
    BY <1>2, <1>3, <2>1, <2>2, <2>3
<1> QED
  BY <1>1, <1>4, AfterType

\* The file without digits at its end.
LEMMA BaseMeans ==
    ASSUME NEW f \in Seq(Lines)
    PROVE  /\ Base(f) \in Seq(Lines) /\ Len(Base(f)) \in Nat
           /\ \A i \in 1 .. Len(Base(f)) : i \in 1 .. Len(f) /\ Base(f)[i] = f[i]
           /\ \/ Base(f) = f /\ (f # <<>> => f[Len(f)].kind # "digits")
              \/ /\ f # <<>> /\ f[Len(f)].kind = "digits" /\ ~f[Len(f)].nl
                 /\ Len(Base(f)) = Len(f) - 1
<1>1. CASE f # <<>> /\ f[Len(f)].kind = "digits"
  <2> DEFINE n == Len(f)
             b == SubSeq(f, 1, n - 1)
  <2>1. n \in Nat /\ n >= 1 /\ f[n] \in Lines
    BY <1>1
  <2>2. b \in Seq(Lines) /\ Len(b) = n - 1 /\ \A i \in 1 .. n - 1 : b[i] = f[i]
    <3>1. \A i \in 1 .. n - 1 : f[i] \in Lines
      BY <2>1
    <3>2. b = [i \in 1 .. n - 1 |-> f[i]]
      <4>1. b = [i \in 1 .. ((n - 1) - 1 + 1) |-> f[i + 1 - 1]]
        BY <2>1
      <4>2. (n - 1) - 1 + 1 = n - 1 /\ \A i \in 1 .. n - 1 : i + 1 - 1 = i
        BY <2>1
      <4> HIDE DEF n
      <4> QED
        BY <4>1, <4>2
    <3>3. n - 1 \in Nat
      BY <2>1
    <3> HIDE DEF b, n
    <3> QED
      BY <3>1, <3>2, <3>3
  <2>3. Base(f) = b
    BY <1>1 DEF Base
  <2>4. ~f[n].nl
    BY <1>1, <2>1, LineKinds
  <2> HIDE DEF b
  <2>5. \A i \in 1 .. Len(b) : i \in 1 .. n /\ b[i] = f[i]
    BY <2>1, <2>2
  <2> QED
    BY <1>1, <2>1, <2>2, <2>3, <2>4, <2>5
<1>2. CASE ~(f # <<>> /\ f[Len(f)].kind = "digits")
  BY <1>2 DEF Base
<1> QED
  BY <1>1, <1>2

\* A log that verifies, or ends in a newline, has none.
LEMMA BaseIsFile ==
    ASSUME NEW f \in Seq(Lines),
           verify_chain(f) = "true" \/ f = <<>> \/ f[Len(f)].nl
    PROVE  Base(f) = f
<1>1. CASE verify_chain(f) = "true"
  <2>1. f[Len(f)].kind # "digits"
    BY <1>1, LastHash
  <2> QED
    BY <2>1 DEF Base
<1>2. CASE f = <<>> \/ f[Len(f)].nl
  BY <1>2, BaseMeans
<1> QED
  BY <1>1, <1>2

\* g is file f with line x behind it: a line of its own, or a part of the last.
Wrote(f, g, x) ==
    LET n == Len(f)
    IN  \/ /\ g = Append(f, x) /\ (f # <<>> => f[n].nl)
           /\ Len(g) = n + 1 /\ g[n + 1] = x /\ \A i \in 1 .. n : g[i] = f[i]
        \/ /\ f # <<>> /\ ~f[n].nl /\ f[n] \in Lines /\ n >= 1
           /\ Len(g) = n /\ g[n] = Join(f[n], x)
           /\ \A i \in 1 .. n - 1 : g[i] = f[i]

\* What writing line x does to a file.
LEMMA WithLineMeans ==
    ASSUME NEW f \in Seq(Lines), NEW x \in Lines
    PROVE  LET g == WithLine(f, x)
           IN  /\ g \in Seq(Lines) /\ Len(f) <= Len(g) /\ g # <<>>
               /\ g[Len(g)].nl = x.nl
               /\ Ended(f) => Ended(g)
               /\ Wrote(f, g, x)
<1> DEFINE g == WithLine(f, x)
           n == Len(f)
<1>1. CASE Unended(f)
  <2>1. f # <<>> /\ ~f[n].nl /\ n \in Nat /\ n >= 1 /\ n \in 1 .. n /\ f[n] \in Lines
    BY <1>1 DEF Unended
  <2> DEFINE y == Join(f[n], x)
  <2>2. y \in Lines /\ y.nl = x.nl
    <3>1. Reads(f[n], x, y)
      BY <2>1, JoinMeans
    <3> HIDE DEF y
    <3> QED
      BY <3>1 DEF Reads
  <2>3. g = [f EXCEPT ![n] = y]
    BY <1>1 DEF WithLine
  <2> HIDE DEF y, g
  <2>4. g \in Seq(Lines) /\ Len(g) = n /\ g[n] = y /\ \A i \in 1 .. n - 1 : g[i] = f[i]
    BY <2>1, <2>2, <2>3
  <2>5. g # <<>> /\ g[Len(g)].nl = x.nl
    BY <2>1, <2>2, <2>4
  <2>6. Ended(f) => Ended(g)
    BY <2>4 DEF Ended
  <2> QED
    BY <2>1, <2>4, <2>5, <2>6 DEF y, g, Wrote
<1>2. CASE ~Unended(f)
  <2>1. f # <<>> => f[n].nl
    BY <1>2, Zenon DEF Unended
  <2>2. g = Append(f, x)
    BY <1>2 DEF WithLine
  <2> HIDE DEF g
  <2>3. g \in Seq(Lines) /\ n \in Nat /\ Len(g) = n + 1 /\ g[n + 1] = x
        /\ \A i \in 1 .. n : g[i] = f[i]
    BY <2>2
  <2>4. g # <<>> /\ g[Len(g)].nl = x.nl /\ n <= Len(g)
    BY <2>3
  <2>5. Ended(f) => Ended(g)
    <3> SUFFICES ASSUME Ended(f), NEW i \in 1 .. Len(g) - 1 PROVE g[i].nl
      BY DEF Ended
    <3>1. i \in 1 .. n /\ g[i] = f[i]
      BY <2>3
    <3>2. i \in 1 .. n - 1 \/ (i = n /\ f # <<>>)
      BY <2>3, <3>1
    <3> QED
      BY <2>1, <3>1, <3>2 DEF Ended
  <2> QED
    BY <2>1, <2>2, <2>3, <2>4, <2>5 DEF g, Wrote
<1> QED
  BY <1>1, <1>2

\* Line x at the end of log F makes it log G.
Extends(F, G, x) ==
    /\ F[Len(F)].nl /\ x.kind = "event"
    /\ \E y \in Events :
          /\ G = Append(F, y)
          /\ y.prev = After(F[Len(F)]) /\ y.params = y.params_hash
          /\ \/ y = x
             \/ \E d \in 1 .. MaxSeq : /\ Joined(d, x.seq) \in 1 .. MaxSeq
                                       /\ y = [x EXCEPT !.seq = Joined(d, x.seq)]

\* The one line of F was not whole, and what is behind it makes its hash another.
RunInto(F, G) ==
    /\ Len(F) = 1 /\ Len(G) = 1 /\ ~F[1].nl
    /\ After(G[1]) = Append(After(F[1]), <<"garbled">>)

\* A file that verifies, but for digits at its end, did so before a line other
\* than GENESIS was written behind it; and is what it was, a GENESIS line that
\* was run into, or one with an event more.
LEMMA VerifiedAfterLine ==
    ASSUME NEW f \in Seq(Lines), Ended(f), NEW x \in Lines, x.kind # "genesis",
           verify_chain(Base(WithLine(f, x))) = "true"
    PROVE  /\ verify_chain(Base(f)) = "true"
           /\ \/ x.kind = "digits" /\ Base(WithLine(f, x)) = Base(f)
              \/ RunInto(Base(f), Base(WithLine(f, x)))
              \/ Extends(Base(f), Base(WithLine(f, x)), x)
<1> DEFINE g == WithLine(f, x)
           n == Len(f)
           F == Base(f)
           G == Base(g)
<1>1. /\ g \in Seq(Lines) /\ n <= Len(g) /\ g # <<>> /\ n \in Nat /\ Len(g) \in Nat
      /\ \/ /\ g = Append(f, x) /\ (f # <<>> => f[n].nl)
            /\ Len(g) = n + 1 /\ g[n + 1] = x /\ \A i \in 1 .. n : g[i] = f[i]
         \/ /\ f # <<>> /\ ~f[n].nl /\ f[n] \in Lines /\ n >= 1
            /\ Len(g) = n /\ g[n] = Join(f[n], x)
            /\ \A i \in 1 .. n - 1 : g[i] = f[i]
  <2>1. g \in Seq(Lines) /\ f \in Seq(Lines)
    BY WithLineMeans
  <2>2. n \in Nat /\ Len(g) \in Nat
    <3> HIDE DEF g
    <3> QED
      BY <2>1
  <2> QED
    <3>1. n <= Len(g) /\ g # <<>> /\ Wrote(f, g, x)
      BY WithLineMeans
    <3> HIDE DEF g
    <3> QED
      BY <2>1, <2>2, <3>1 DEF Wrote
<1>2. /\ F \in Seq(Lines) /\ Len(F) \in Nat
      /\ \A i \in 1 .. Len(F) : i \in 1 .. n /\ F[i] = f[i]
      /\ \/ F = f /\ (f # <<>> => f[n].kind # "digits")
         \/ f # <<>> /\ f[n].kind = "digits" /\ ~f[n].nl /\ Len(F) = n - 1
  BY BaseMeans
<1> HIDE DEF g
<1>3. /\ G \in Seq(Lines) /\ Len(G) \in Nat
      /\ \A i \in 1 .. Len(G) : i \in 1 .. Len(g) /\ G[i] = g[i]
      /\ \/ G = g /\ g[Len(g)].kind # "digits"
         \/ g[Len(g)].kind = "digits" /\ Len(G) = Len(g) - 1
  BY <1>1, BaseMeans
<1>4. verify_chain(G) = "true"
  BY DEF g
<1> HIDE DEF F, G, n
<1>5. /\ Len(G) >= 1 /\ G[1].kind = "genesis"
      /\ \A i \in 2 .. Len(G) : Linked(G, i) /\ G[i].params = G[i].params_hash
  BY <1>3, <1>4, VerifiedMeans
<1>6. ASSUME Len(F) >= 1, Len(F) <= Len(G), \A i \in 1 .. Len(F) : F[i] = G[i]
      PROVE  verify_chain(F) = "true"
  <2>1. \A i \in 2 .. Len(F) : Linked(F, i) /\ F[i].params = F[i].params_hash
    <3> TAKE i \in 2 .. Len(F)
    <3>1. i \in 2 .. Len(G) /\ i \in 1 .. Len(F) /\ i - 1 \in 1 .. Len(F)
      BY <1>2, <1>3, <1>6
    <3> QED
      BY <1>5, <1>6, <3>1 DEF Linked
  <2>2. F # <<>> /\ F[1].kind = "genesis"
    <3>1. 1 \in 1 .. Len(F)
      BY <1>2, <1>6
    <3> QED
      BY <1>2, <1>5, <1>6, <3>1
  <2> QED
    BY <2>1, <2>2, VerifiedMeans
<1>7. ASSUME Len(G) = Len(F) + 1, \A i \in 1 .. Len(F) : F[i] = G[i],
             F # <<>> => F[Len(F)].nl, NEW y \in Lines, G[Len(G)] = y, y.kind # "genesis",
             \/ y = x
             \/ y.kind = "event" /\ y.params = y.params_hash =>
                   /\ x.kind = "event"
                   /\ \E d \in 1 .. MaxSeq : /\ Joined(d, x.seq) \in 1 .. MaxSeq
                                             /\ y = [x EXCEPT !.seq = Joined(d, x.seq)]
      PROVE  verify_chain(F) = "true" /\ Extends(F, G, x)
  <2> DEFINE m == Len(F)
  <2>1. m >= 1
    BY <1>2, <1>5, <1>7
  <2>2. m \in Nat /\ F # <<>>
    BY <1>2, <2>1
  <2>3. m + 1 \in 2 .. Len(G) /\ (m + 1) - 1 = m /\ G[m + 1] = y /\ m \in 1 .. m
    BY <1>7, <2>1, <2>2
  <2>4. y.kind = "event" /\ y.prev = After(F[m]) /\ y.params = y.params_hash
    <3>1. Linked(G, m + 1) /\ y.params = y.params_hash
      BY <1>5, <2>3
    <3>2. G[(m + 1) - 1] = F[m]
      BY <1>7, <2>3
    <3> QED
      BY <2>3, <3>1, <3>2 DEF Linked
  <2>5. y \in Events
    BY <2>4, <1>7, LineKinds
  <2>6. G = Append(F, y)
    <3> DEFINE A == Append(F, y)
    <3>1. A \in Seq(Lines) /\ Len(A) = m + 1 /\ A[m + 1] = y /\ \A i \in 1 .. m : A[i] = F[i]
      BY <1>2, <1>7
    <3> HIDE DEF A
    <3>2. \A i \in 1 .. m + 1 : G[i] = A[i]
      <4>1. \A i \in 1 .. m + 1 : i \in 1 .. m \/ i = m + 1
        BY <2>2
      <4> QED
        BY <1>7, <2>3, <3>1, <4>1
    <3>3. G = A
      <4>1. G = [i \in 1 .. m + 1 |-> G[i]] /\ A = [i \in 1 .. m + 1 |-> A[i]]
        BY <1>3, <1>7, <3>1
      <4> QED
        BY <3>2, <4>1
    <3> QED
      BY <3>3 DEF A
  <2>7. verify_chain(F) = "true"
    BY <1>2, <1>6, <1>7, <2>1
  <2> QED
    BY <1>7, <2>2, <2>4, <2>5, <2>6, <2>7 DEF Extends
<1>8. CASE /\ g = Append(f, x) /\ (f # <<>> => f[n].nl)
           /\ Len(g) = n + 1 /\ g[n + 1] = x /\ \A i \in 1 .. n : g[i] = f[i]
  <2>1. F = f
    BY <1>2, <1>8
  <2>2. CASE x.kind = "digits"
    <3>1. Len(G) = n
      BY <1>1, <1>3, <1>8, <2>2
    <3>2. Len(F) = n
      BY <2>1 DEF n
    <3>3. \A i \in 1 .. n : G[i] = F[i]
      BY <1>3, <1>8, <2>1, <3>1
    <3>4. G = F
      <4>1. G = [i \in 1 .. n |-> G[i]] /\ F = [i \in 1 .. n |-> F[i]]
        BY <1>2, <1>3, <3>1, <3>2
      <4> QED
        BY <3>3, <4>1
    <3> QED
      BY <1>4, <2>2, <3>4 DEF F, G, g
  <2>3. CASE x.kind # "digits"
    <3>1. G = g
      BY <1>3, <1>8, <2>3
    <3>2. Len(F) = n
      BY <2>1 DEF n
    <3>3. Len(G) = Len(F) + 1 /\ \A i \in 1 .. Len(F) : F[i] = G[i]
      BY <1>8, <2>1, <3>1, <3>2
    <3>4. G[Len(G)] = x /\ (F # <<>> => F[Len(F)].nl)
      BY <1>8, <2>1, <3>1, <3>2, <3>3
    <3>5. verify_chain(F) = "true" /\ Extends(F, G, x)
      BY <1>7, <3>3, <3>4
    <3> QED
      BY <3>5 DEF F, G, g
  <2> QED
    BY <2>2, <2>3
<1>9. CASE /\ f # <<>> /\ ~f[n].nl /\ f[n] \in Lines /\ n >= 1
           /\ Len(g) = n /\ g[n] = Join(f[n], x)
           /\ \A i \in 1 .. n - 1 : g[i] = f[i]
  <2> DEFINE a == f[n]
             y == Join(a, x)
  <2>1. /\ y \in Lines
        /\ y.kind = "genesis" => a.kind = "genesis" /\ y.prev = Append(a.prev, <<"garbled">>)
        /\ y.kind = "digits" => a.kind = "digits"
        /\ y.kind = "event" /\ y.params = y.params_hash =>
              /\ a.kind = "digits" /\ x.kind = "event"
              /\ y = [x EXCEPT !.seq = Joined(a.seq, x.seq)]
              /\ a.seq \in 1 .. MaxSeq /\ Joined(a.seq, x.seq) \in 1 .. MaxSeq
    <3>1. a \in Lines
      BY <1>9
    <3> HIDE DEF a
    <3>2. Reads(a, x, y)
      BY <3>1, JoinMeans
    <3> HIDE DEF y
    <3> QED
      BY <3>2 DEF Reads
  <2>2. g[n] = y /\ a = f[n]
    BY <1>9
  <2> HIDE DEF y
  <2>3. CASE a.kind = "digits"
    <3>1. Len(F) = n - 1
      BY <1>2, <1>9, <2>3
    <3>2. CASE y.kind = "digits"
      <4>0. x.kind = "digits"
        <5>1. x.kind # "digits" => Join(a, x).kind # "digits"
          BY <2>3 DEF Join, Junk
        <5> QED
          BY <3>2, <5>1 DEF y
      <4>1. Len(G) = n - 1
        BY <1>3, <1>9, <2>2, <3>2
      <4>2. \A i \in 1 .. n - 1 : G[i] = F[i]
        BY <1>2, <1>3, <1>9, <3>1, <4>1
      <4>3. G = F
        <5>1. G = [i \in 1 .. n - 1 |-> G[i]] /\ F = [i \in 1 .. n - 1 |-> F[i]]
          BY <1>2, <1>3, <3>1, <4>1
        <5> QED
          BY <4>2, <5>1
      <4> QED
        BY <1>4, <4>0, <4>3 DEF F, G, g
    <3>3. CASE y.kind # "digits"
      <4>1. G = g
        BY <1>3, <1>9, <2>2, <3>3
      <4>2. Len(G) = Len(F) + 1
        BY <1>1, <1>9, <3>1, <4>1
      <4>3. \A i \in 1 .. Len(F) : F[i] = G[i]
        BY <1>2, <1>9, <3>1, <4>1
      <4>4. G[Len(G)] = y
        BY <1>9, <2>2, <4>1
      <4>5. F # <<>> => F[Len(F)].nl
        <5>1. SUFFICES ASSUME F # <<>> PROVE F[Len(F)].nl
          OBVIOUS
        <5>2. Len(F) \in 1 .. Len(F) /\ Len(F) \in 1 .. n - 1
          BY <1>1, <1>2, <3>1, <5>1
        <5> QED
          BY <1>2, <5>2 DEF Ended, n
      <4>6. y.kind # "genesis"
        BY <2>1, <2>3
      <4>7. y.kind = "event" /\ y.params = y.params_hash =>
               /\ x.kind = "event"
               /\ \E d \in 1 .. MaxSeq : /\ Joined(d, x.seq) \in 1 .. MaxSeq
                                         /\ y = [x EXCEPT !.seq = Joined(d, x.seq)]
        BY <2>1
      <4>8. verify_chain(F) = "true" /\ Extends(F, G, x)
        BY <1>7, <2>1, <4>2, <4>3, <4>4, <4>5, <4>6, <4>7
      <4> QED
        BY <4>8 DEF F, G, g
    <3> QED
      BY <3>2, <3>3
  <2>4. CASE a.kind # "digits"
    <3>1. F = f /\ G = g
      BY <1>2, <1>3, <1>9, <2>1, <2>2, <2>4
    <3>2. Len(F) = n /\ Len(G) = n
      BY <1>9, <3>1 DEF n
    <3>3. n = 1
      <4>1. SUFFICES ASSUME n # 1 PROVE FALSE
        OBVIOUS
      <4>2. n \in 2 .. Len(G)
        BY <1>1, <1>9, <3>2, <4>1
      <4>3. y.kind = "event" /\ y.params = y.params_hash
        BY <1>5, <2>2, <3>1, <4>2 DEF Linked
      <4> QED
        BY <2>1, <2>4, <4>3
    <3>4. y.kind = "genesis" /\ G[1] = y /\ F[1] = a
      BY <1>5, <2>2, <3>1, <3>3
    <3>5. a.kind = "genesis" /\ y.prev = Append(a.prev, <<"garbled">>)
      BY <2>1, <3>4
    <3>6. verify_chain(F) = "true"
      <4>1. 2 .. Len(F) = {} /\ F # <<>>
        BY <1>9, <3>1, <3>2, <3>3
      <4> QED
        BY <3>4, <3>5, <4>1, VerifiedMeans
    <3>7. RunInto(F, G)
      BY <1>9, <3>1, <3>2, <3>3, <3>4, <3>5 DEF RunInto, After
    <3> QED
      BY <3>6, <3>7 DEF F, G, g
  <2> QED
    BY <2>3, <2>4
<1> QED
  BY <1>1, <1>8, <1>9

\* File f, but for digits at its end, verifies, and so does g, which is f, a
\* GENESIS line that was run into, or f with event s of call c at its end, under
\* that number or one that ends in it; it has a newline only if b.
Continues(f, g, s, c, h, b) ==
    LET F == Base(f)
        G == Base(g)
    IN  /\ verify_chain(F) = "true"
        /\ \/ G = F
           \/ RunInto(F, G)
           \/ /\ F[Len(F)].nl /\ h = After(F[Len(F)])
              /\ \E y \in Events :
                    /\ G = Append(F, y) /\ y.seq >= s /\ EndsIn(y.seq, s)
                    /\ Acked(s, y) = Acked(s, c)
                    /\ After(y) = NextHash(h, y.seq, c.action, c.params)
                    /\ y.nl => b

\* What g, a file that comes of writing to f, has of it.
Grown(f, g) == g \in Seq(Lines) /\ Len(f) <= Len(g) /\ Ended(g)

\* A piece of an event behind file f.
LEMMA PieceContinues ==
    ASSUME NEW f \in Seq(Lines), Ended(f), NEW c \in Calls, NEW s \in 1 .. MaxSeq,
           NEW h \in Hashes, NEW x \in Pieces(s, c, h), NEW b \in BOOLEAN, x.nl => b
    PROVE  /\ Grown(f, WithLine(f, x))
           /\ verify_chain(Base(WithLine(f, x))) = "true" =>
                 Continues(f, WithLine(f, x), s, c, h, b)
<1>1. /\ x \in Lines /\ x.kind # "genesis"
      /\ x.kind = "event" => /\ x.seq = s /\ x.prev = h /\ x.action = c.action
                             /\ x.target = c.target /\ x.params_hash = c.params
  BY PieceTypes
<1>2. Grown(f, WithLine(f, x))
  BY <1>1, WithLineMeans DEF Grown
<1>3. ASSUME verify_chain(Base(WithLine(f, x))) = "true"
      PROVE  Continues(f, WithLine(f, x), s, c, h, b)
  <2> DEFINE F == Base(f)
             G == Base(WithLine(f, x))
  <2>1. /\ verify_chain(F) = "true"
        /\ G = F \/ RunInto(F, G) \/ Extends(F, G, x)
    BY <1>1, <1>3, VerifiedAfterLine
  <2> HIDE DEF F, G
  <2>2. CASE G = F \/ RunInto(F, G)
    BY <2>1, <2>2 DEF Continues, F, G
  <2>3. CASE Extends(F, G, x)
    <3>1. x.kind = "event" /\ x \in Events /\ F[Len(F)].nl
      BY <1>1, <2>3, LineKinds DEF Extends
    <3>2. PICK y \in Events :
             /\ G = Append(F, y)
             /\ y.prev = After(F[Len(F)]) /\ y.params = y.params_hash
             /\ \/ y = x
                \/ \E d \in 1 .. MaxSeq : /\ Joined(d, x.seq) \in 1 .. MaxSeq
                                          /\ y = [x EXCEPT !.seq = Joined(d, x.seq)]
      BY <2>3 DEF Extends
    <3>3. y.action = c.action /\ y.target = c.target /\ y.params_hash = c.params /\ y.prev = h
          /\ y.nl = x.nl /\ y.kind = "event" /\ y.params = c.params
      BY <1>1, <3>1, <3>2 DEF Events
    <3>4. y.seq >= s /\ EndsIn(y.seq, s)
      <4>1. CASE y = x
        BY <1>1, <3>1, <4>1 DEF EndsIn, Events
      <4>2. ASSUME NEW d \in 1 .. MaxSeq, y = [x EXCEPT !.seq = Joined(d, x.seq)]
            PROVE  y.seq >= s /\ EndsIn(y.seq, s)
        <5>1. y.seq = Joined(d, s)
          BY <1>1, <3>1, <4>2 DEF Events
        <5>2. Joined(d, s) \in Nat /\ Joined(d, s) > s /\ Joined(d, s) > d
          BY JoinedIsLarger
        <5> DEFINE j == Joined(d, s)
        <5> HIDE DEF j
        <5>3. d \in 1 .. j
          <6>1. j \in Nat /\ j > d
            BY <5>2 DEF j
          <6> QED
            BY <6>1
        <5>4. y.seq >= s
          <6>1. j \in Nat /\ j > s /\ y.seq = j
            BY <5>1, <5>2 DEF j
          <6> QED
            BY <6>1
        <5> QED
          BY <5>1, <5>3, <5>4 DEF EndsIn, j
      <4> QED
        BY <3>2, <4>1, <4>2
    <3>5. Acked(s, y) = Acked(s, c)
      BY <3>3 DEF Acked
    <3>6. After(y) = NextHash(h, y.seq, c.action, c.params)
      BY <3>3 DEF After
    <3>7. h = After(F[Len(F)]) /\ (y.nl => b)
      BY <3>2, <3>3
    <3> QED
      BY <2>1, <3>1, <3>2, <3>4, <3>5, <3>6, <3>7 DEF Continues, F, G
  <2> QED
    BY <2>1, <2>2, <2>3
<1> QED
  BY <1>2, <1>3

\* A file whose last line cannot be read does not verify.
LEMMA JunkBehind ==
    ASSUME NEW f \in Seq(Lines), Ended(f), NEW x \in Lines, x.nl = TRUE,
           NEW j \in {Junk, Unfinished(Junk)}
    PROVE  LET g == WithLine(WithLine(f, x), j)
           IN  Grown(f, g) /\ verify_chain(Base(g)) # "true"
<1> DEFINE e == WithLine(f, x)
           g == WithLine(e, j)
<1>1. e \in Seq(Lines) /\ Len(f) <= Len(e) /\ e # <<>> /\ e[Len(e)].nl = TRUE /\ Ended(e)
  BY WithLineMeans
<1>2. j \in Lines /\ j.kind = "junk"
  <2>1. Junk \in [kind : {"junk"}, nl : BOOLEAN] /\ Junk.kind = "junk"
    BY DEF Junk
  <2>2. Unfinished(Junk) \in [kind : {"junk"}, nl : BOOLEAN] /\ Unfinished(Junk).kind = "junk"
    BY <2>1 DEF Unfinished
  <2> QED
    BY <2>1, <2>2 DEF Lines, Rests
<1> HIDE DEF e
<1>3. Grown(f, g)
  <2>1. g \in Seq(Lines) /\ Len(e) <= Len(g) /\ Ended(g)
    BY <1>1, <1>2, WithLineMeans
  <2>2. Len(e) \in Nat /\ Len(f) \in Nat
    BY <1>1
  <2> HIDE DEF g
  <2>3. Len(g) \in Nat
    BY <2>1
  <2> QED
    BY <1>1, <2>1, <2>2, <2>3 DEF Grown
<1>4. ASSUME verify_chain(Base(g)) = "true" PROVE FALSE
  <2>1. RunInto(Base(e), Base(g))
    BY <1>1, <1>2, <1>4, VerifiedAfterLine DEF Extends
  <2>2. Base(e) = e
    BY <1>1, BaseIsFile
  <2> QED
    BY <1>1, <2>1, <2>2 DEF RunInto
<1> QED
  BY <1>3, <1>4 DEF e

\* Writing an event.
LEMMA WrittenContinues ==
    ASSUME NEW f \in Seq(Lines), Ended(f), NEW c \in Calls, NEW s \in 1 .. MaxSeq,
           NEW h \in Hashes, NEW g \in Written(f, s, c, h)
    PROVE  Grown(f, g) /\ (verify_chain(Base(g)) = "true" => Continues(f, g, s, c, h, TRUE))
<1>1. Clipped(s, c, h) \in Pieces(s, c, h)
  BY DEF Pieces
<1>2. ASSUME NEW x \in Pieces(s, c, h), g = WithLine(f, x)
      PROVE  Grown(f, g) /\ (verify_chain(Base(g)) = "true" => Continues(f, g, s, c, h, TRUE))
  BY <1>2, PieceContinues
<1>3. ASSUME g = WithLine(WithLine(f, Clipped(s, c, h)), Junk)
      PROVE  Grown(f, g) /\ verify_chain(Base(g)) # "true"
  <2>1. Clipped(s, c, h) \in Lines /\ Clipped(s, c, h).nl = TRUE
    BY <1>1, PieceTypes DEF Clipped, Event
  <2> HIDE DEF Clipped
  <2> QED
    BY <1>3, <2>1, JunkBehind
<1>4. \/ \E x \in Pieces(s, c, h) : g = WithLine(f, x)
      \/ g = WithLine(WithLine(f, Clipped(s, c, h)), Junk)
  BY DEF Written, Pieces
<1> QED
  BY <1>2, <1>3, <1>4

\* Failing to.
LEMMA FailedContinues ==
    ASSUME NEW f \in Seq(Lines), Ended(f), NEW c \in Calls, NEW s \in 1 .. MaxSeq,
           NEW h \in Hashes, NEW g \in AfterFailedWrite(f, s, c, h)
    PROVE  Grown(f, g) /\ (verify_chain(Base(g)) = "true" => Continues(f, g, s, c, h, FALSE))
<1> DEFINE Goal == /\ Grown(f, g)
                   /\ verify_chain(Base(g)) = "true" => Continues(f, g, s, c, h, FALSE)
           k == Clipped(s, c, h)
<1>1. CASE g = f
  <2>1. Len(f) <= Len(f)
    <3>1. Len(f) \in Nat
      OBVIOUS
    <3> QED
      BY <3>1
  <2> QED
    BY <1>1, <2>1 DEF Grown, Continues
<1>2. ASSUME NEW x \in Pieces(s, c, h), x.nl = FALSE, g = WithLine(f, x)
      PROVE  Goal
  BY <1>2, PieceContinues
<1>3. k \in Pieces(s, c, h) /\ k \in Lines /\ k.nl = TRUE /\ k.params = Garbled
      /\ k.kind = "event" /\ k.params_hash # Garbled
  <2>1. k \in Pieces(s, c, h)
    BY DEF Pieces
  <2>2. k.nl = TRUE /\ k.params = Garbled /\ k.kind = "event" /\ k.params_hash = c.params
    BY DEF Clipped, Event
  <2>3. c.params # Garbled
    BY SdkAssumption DEF Calls
  <2> HIDE DEF k
  <2> QED
    BY <2>1, <2>2, <2>3, PieceTypes
<1> HIDE DEF k
<1>4. CASE g = WithLine(f, k)
  <2>1. Grown(f, g)
    BY <1>3, <1>4, PieceContinues
  <2>2. ASSUME verify_chain(Base(g)) = "true" PROVE Continues(f, g, s, c, h, FALSE)
    <3> DEFINE F == Base(f)
               G == Base(g)
    <3>1. /\ verify_chain(F) = "true"
          /\ G = F \/ RunInto(F, G) \/ Extends(F, G, k)
      BY <1>3, <1>4, <2>2, VerifiedAfterLine
    <3> HIDE DEF F, G
    <3>2. ~Extends(F, G, k)
      <4>1. k \in Events
        BY <1>3, LineKinds
      <4> QED
        BY <1>3, <4>1 DEF Extends, Events
    <3> QED
      BY <3>1, <3>2 DEF Continues, F, G
  <2> QED
    BY <2>1, <2>2
<1>5. CASE g = WithLine(WithLine(f, k), Unfinished(Junk))
  BY <1>3, <1>5, JunkBehind
<1>6. ASSUME NEW x \in Parts(s, c, h)
      PROVE  x \in Pieces(s, c, h) /\ x.nl = FALSE
  <2>1. Event(s, c, h).nl = TRUE /\ Clipped(s, c, h).nl = TRUE /\ Junk.nl = TRUE
    BY DEF Event, Clipped, Junk
  <2>2. Unfinished(Event(s, c, h)).nl = FALSE /\ Unfinished(Clipped(s, c, h)).nl = FALSE
        /\ Unfinished(Junk).nl = FALSE
    BY DEF Unfinished, Event, Clipped, Junk
  <2>3. Stub(s, c, h).nl = FALSE
    BY DEF Stub, Event, Clipped
  <2>4. \A d : Digits(d).nl = FALSE
    BY DEF Digits
  <2>5. \/ x \in {Unfinished(Junk), Unfinished(Clipped(s, c, h)), Stub(s, c, h),
                  Unfinished(Event(s, c, h))}
        \/ x \in {Digits(d) : d \in Leading(s)}
    BY DEF Parts
  <2> QED
    BY <2>2, <2>3, <2>4, <2>5 DEF Pieces
<1>7. \/ g = f \/ (\E x \in Parts(s, c, h) : g = WithLine(f, x)) \/ g = WithLine(f, k)
      \/ g = WithLine(WithLine(f, k), Unfinished(Junk))
  BY DEF AfterFailedWrite, k
<1> QED
  BY <1>1, <1>2, <1>4, <1>5, <1>6, <1>7

\* The constructor's loop stops somewhere, at a line with a hash; in a log that
\* verifies but for digits at its end, before them.
LEMMA ChainEndExists ==
    ASSUME NEW f \in Seq(Lines), HasGenesis(f)
    PROVE  /\ ChainEnd(f) \in 1 .. Len(f)
           /\ f[ChainEnd(f)] \in Events \cup Geneses
           /\ ChainEnd(f) > 1 => f[ChainEnd(f)] \in Events
           /\ verify_chain(Base(f)) = "true" => ChainEnd(f) = Len(Base(f))
<1> DEFINE Stop(i) == /\ \A j \in 2 .. i : Linked(f, j)
                      /\ i < Len(f) => ~Linked(f, i + 1)
           T == {i \in 1 .. Len(f) : i < Len(f) => ~Linked(f, i + 1)}
           R == OpToRel(<, Nat)
<1>1. Len(f) \in Nat /\ Len(f) >= 1
  BY DEF HasGenesis
<1>2. T \subseteq Nat /\ T # {}
  <2>1. Len(f) \in T
    BY <1>1
  <2> QED
    BY <2>1
<1>3. \E i \in T : \A k \in T : ~(<<k, i>> \in R)
  <2> HIDE DEF T
  <2> QED
    BY <1>2, WFMin, NatLessThanWellFounded
<1>4. PICK i \in T : \A k \in T : ~(<<k, i>> \in R)
  BY <1>3
<1>5. \A k \in T : ~(k < i)
  BY <1>2, <1>4 DEF OpToRel
<1>6. Stop(i)
  <2>1. ASSUME NEW j \in 2 .. i PROVE Linked(f, j)
    <3>1. j - 1 \in 1 .. Len(f) /\ j - 1 < i /\ (j - 1) + 1 = j /\ j - 1 < Len(f)
      BY <1>1
    <3>2. j - 1 \notin T
      BY <3>1, <1>5
    <3> QED
      BY <3>1, <3>2
  <2> QED
    BY <2>1
<1>7. ChainEnd(f) \in 1 .. Len(f) /\ Stop(ChainEnd(f))
  BY <1>6 DEF ChainEnd
<1>8. f[ChainEnd(f)] \in Lines
  BY <1>1, <1>7
<1>9. ChainEnd(f) > 1 => f[ChainEnd(f)] \in Events
  <2>1. ChainEnd(f) > 1 => Linked(f, ChainEnd(f))
    <3> DEFINE e == ChainEnd(f)
    <3>1. e \in 1 .. Len(f) /\ Stop(e)
      BY <1>7
    <3> HIDE DEF e
    <3>2. e > 1 => Linked(f, e)
      BY <3>1, <1>1
    <3> QED
      BY <3>2 DEF e
  <2> QED
    BY <2>1, <1>8, LineKinds DEF Linked
<1>10. ChainEnd(f) = 1 => f[ChainEnd(f)] \in Geneses
  BY <1>8, LineKinds DEF HasGenesis
<1>11. ASSUME verify_chain(Base(f)) = "true" PROVE ChainEnd(f) = Len(Base(f))
  <2> DEFINE e == ChainEnd(f)
             F == Base(f)
             m == Len(F)
  <2>1. e \in 1 .. Len(f) /\ Stop(e)
    BY <1>7
  <2>2. /\ m \in Nat /\ \A k \in 1 .. m : k \in 1 .. Len(f) /\ F[k] = f[k]
        /\ m = Len(f) \/ (m = Len(f) - 1 /\ f[Len(f)].kind = "digits")
    BY BaseMeans
  <2>3. m >= 1 /\ \A k \in 2 .. m : Linked(F, k)
    BY <1>11, VerifiedMeans, LastHash, BaseMeans
  <2> HIDE DEF e, F, m
  <2>4. \A k \in 2 .. m : Linked(f, k)
    <3> TAKE k \in 2 .. m
    <3>1. k \in 1 .. m /\ k - 1 \in 1 .. m
      BY <2>2
    <3> QED
      BY <2>2, <2>3, <3>1 DEF Linked
  <2>5. e >= m
    <3>1. SUFFICES ASSUME e < m PROVE FALSE
      BY <1>1, <2>1, <2>2
    <3>2. e + 1 \in 2 .. m /\ e < Len(f)
      BY <1>1, <2>1, <2>2, <3>1
    <3> QED
      BY <2>1, <2>4, <3>2
  <2>6. e <= m
    <3>1. SUFFICES ASSUME e > m PROVE FALSE
      BY <1>1, <2>1, <2>2
    <3>2. m = Len(f) - 1 /\ f[Len(f)].kind = "digits" /\ e = Len(f)
      BY <1>1, <2>1, <2>2, <3>1
    <3>3. e \in 2 .. e
      <4>1. m \in Nat /\ m >= 1 /\ e = m + 1
        BY <1>1, <2>2, <2>3, <3>2
      <4> QED
        BY <4>1
    <3>4. Linked(f, e)
      BY <2>1, <3>3
    <3> QED
      BY <3>2, <3>4 DEF Linked
  <2>7. e = m
    BY <1>1, <2>1, <2>2, <2>5, <2>6
  <2> QED
    BY <2>7 DEF e, m, F
<1> QED
  BY <1>7, <1>9, <1>10, <1>11

\* What may become of the GENESIS line.
Beginnings(h) == {Genesis(h)} \cup {Unfinished(l) : l \in {Junk, Genesis(<<0>>), Genesis(h)}}

\* Beginning a log: behind a file that has no GENESIS line, none begins one.
LEMMA BegunMeans ==
    ASSUME NEW f \in Seq(Lines), Ended(f), ~HasGenesis(f), NEW k \in Nat,
           NEW g \in {WithLine(f, Genesis(<<k>>))} \cup AfterFailedGenesis(f, <<k>>)
    PROVE  /\ Grown(f, g) /\ <<k>> \in Hashes
           /\ verify_chain(Base(g)) = "true" =>
                 Len(Base(g)) = 1 /\ Len(After(Base(g)[1])) = 1
<1>1. ASSUME NEW i \in Nat PROVE <<i>> \in Hashes
  <2>1. <<i>> \in Seq(Terms)
    BY DEF Terms
  <2> QED
    BY <2>1 DEF Hashes, Terms
<1>2. ASSUME NEW x \in Beginnings(<<k>>)
      PROVE  /\ x \in Lines /\ x.kind \in {"genesis", "junk"}
             /\ x.kind = "genesis" => Len(After(x)) = 1
  <2>1. ASSUME NEW i \in Nat, NEW y \in {Genesis(<<i>>), Unfinished(Genesis(<<i>>))}
        PROVE  y \in Lines /\ y.kind = "genesis" /\ Len(After(y)) = 1
    <3>1. Genesis(<<i>>) \in Geneses /\ Genesis(<<i>>).kind = "genesis"
          /\ Genesis(<<i>>).prev = <<i>>
      BY <1>1 DEF Genesis, Geneses
    <3>2. Unfinished(Genesis(<<i>>)) \in Geneses /\ Unfinished(Genesis(<<i>>)).kind = "genesis"
          /\ Unfinished(Genesis(<<i>>)).prev = <<i>>
      BY <3>1 DEF Unfinished, Geneses
    <3>3. y \in Geneses /\ y.kind = "genesis" /\ y.prev = <<i>>
      BY <3>1, <3>2
    <3>4. Len(<<i>>) = 1
      OBVIOUS
    <3> QED
      BY <3>3, <3>4 DEF Lines, After
  <2>2. Unfinished(Junk) \in Lines /\ Unfinished(Junk).kind = "junk"
    <3>1. Junk \in [kind : {"junk"}, nl : BOOLEAN]
      BY DEF Junk
    <3>2. Unfinished(Junk) \in [kind : {"junk"}, nl : BOOLEAN]
      BY <3>1 DEF Unfinished
    <3> QED
      BY <3>2 DEF Lines, Rests
  <2>3. 0 \in Nat
    OBVIOUS
  <2>4. \/ x \in {Genesis(<<k>>), Unfinished(Genesis(<<k>>))} \/ x = Unfinished(Junk)
        \/ x \in {Genesis(<<0>>), Unfinished(Genesis(<<0>>))}
    BY DEF Beginnings
  <2> QED
    BY <2>1, <2>2, <2>3, <2>4
<1>3. g = f \/ \E x \in Beginnings(<<k>>) : g = WithLine(f, x)
  BY DEF AfterFailedGenesis, Beginnings
<1>4. CASE g = f
  <2>1. Len(f) \in Nat
    OBVIOUS
  <2>2. Len(f) <= Len(f)
    BY <2>1
  <2>3. verify_chain(Base(f)) # "true"
    <3>1. SUFFICES ASSUME verify_chain(Base(f)) = "true" PROVE FALSE
      OBVIOUS
    <3>2. 1 \in 1 .. Len(Base(f)) /\ Base(f)[1].kind = "genesis"
      BY <3>1, LastHash, BaseMeans, VerifiedMeans
    <3>3. f[1].kind = "genesis" /\ 1 \in 1 .. Len(f)
      BY <3>2, BaseMeans
    <3>4. f # <<>>
      BY <3>3
    <3> QED
      BY <3>3, <3>4 DEF HasGenesis
  <2> QED
    BY <1>1, <1>4, <2>2, <2>3 DEF Grown
<1>5. ASSUME NEW x \in Beginnings(<<k>>), g = WithLine(f, x)
      PROVE  /\ Grown(f, g)
             /\ verify_chain(Base(g)) = "true" =>
                   Len(Base(g)) = 1 /\ Len(After(Base(g)[1])) = 1
  <2>1. Grown(f, g)
    BY <1>2, <1>5, WithLineMeans DEF Grown
  <2>2. Wrote(f, g, x)
    BY <1>2, <1>5, WithLineMeans
  <2>3. ASSUME verify_chain(Base(g)) = "true"
        PROVE  Len(Base(g)) = 1 /\ Len(After(Base(g)[1])) = 1
    <3> DEFINE G == Base(g)
    <3>1. Len(G) \in Nat /\ Len(G) >= 1 /\ G[1].kind = "genesis"
          /\ \A i \in 1 .. Len(G) : i \in 1 .. Len(g) /\ G[i] = g[i]
      BY <2>1, <2>3, LastHash, BaseMeans, VerifiedMeans DEF Grown
    <3>2. g[1].kind = "genesis" /\ G[1] = g[1]
      BY <3>1
    <3>3. f = <<>>
      <4>1. SUFFICES ASSUME f # <<>> PROVE FALSE
        OBVIOUS
      <4>2. f[1].kind # "genesis" /\ Len(f) \in Nat /\ Len(f) >= 1 /\ f[1] \in Lines
        BY <4>1 DEF HasGenesis
      <4>3. g[1] = f[1] \/ (Len(f) = 1 /\ g[1] = Join(f[1], x))
        BY <2>2, <4>2 DEF Wrote
      <4> QED
        <5>1. x \in Lines /\ Join(f[1], x).kind = "genesis"
          BY <1>2, <3>2, <4>2, <4>3
        <5> QED
          <6>1. Reads(f[1], x, Join(f[1], x))
            BY <4>2, <5>1, JoinMeans
          <6> QED
            BY <4>2, <5>1, <6>1 DEF Reads
    <3>4. Len(g) = 1 /\ g[1] = x
      BY <2>2, <3>3 DEF Wrote
    <3>5. Len(G) = 1
      <4> HIDE DEF G
      <4>1. Len(G) \in 1 .. Len(G)
        BY <3>1
      <4>2. Len(G) \in 1 .. Len(g)
        BY <3>1, <4>1
      <4> QED
        BY <3>4, <4>2
    <3> QED
      BY <1>2, <3>2, <3>4, <3>5
  <2> QED
    BY <2>1, <2>3
<1> QED
  BY <1>1, <1>3, <1>4, <1>5

-----------------------------------------------------------------------------
(* The logger, whoever calls it.                                           *)

LogType ==
    /\ file \in Seq(Lines) /\ up \in BOOLEAN
    /\ seq \in 0 .. MaxSeq /\ prev \in Hashes /\ genesis \in Nat
    /\ acked \in Seq([seq : 1 .. MaxSeq, action : Actions, target : Targets, params : Params])
    /\ harmed \in BOOLEAN
    /\ appends \in 0 .. MaxAppends /\ opens \in 0 .. MaxOpens /\ faults \in 0 .. MaxFaults

LogInv == LogType /\ RecordsExact /\ ExactInv /\ HonestBase /\ InStep

LogStep ==
    \/ OpenExisting \/ OpenNew \/ Close \/ UNCHANGED logger
    \/ \E c \in Calls : AppendOk(c) \/ AppendLost(c) \/ AppendFails(c)
    \/ AppendNoOpen

\* The three ways of append that reach the file.
Puts(c) == AppendOk(c) \/ AppendLost(c) \/ AppendFails(c)

\* What they have in common.
LEMMA PutMeans ==
    ASSUME LogType, NEW c \in Calls, Puts(c)
    PROVE  /\ up /\ up' = up /\ seq \in Nat /\ seq + 1 \in 1 .. MaxSeq
           /\ prev' = NextHash(prev, seq + 1, c.action, c.params)
           /\ \/ /\ file' \in Written(file, seq + 1, c, prev)
                 /\ seq' = seq + 1 /\ acked' = Append(acked, Acked(seq + 1, c))
              \/ /\ file' \in AfterFailedWrite(file, seq + 1, c, prev)
                 /\ \/ seq' = seq + 1 /\ acked' = Append(acked, Acked(seq + 1, c))
                    \/ seq' = seq /\ acked' = acked
<1>0. seq < MaxSeq => seq \in Nat /\ seq + 1 \in 1 .. MaxSeq
  BY AuditAssumption DEF LogType
<1>1. CASE AppendOk(c)
  BY <1>0, <1>1 DEF AppendOk, Appending
<1>2. CASE AppendLost(c)
  BY <1>0, <1>2 DEF AppendLost, Appending
<1>3. CASE AppendFails(c)
  BY <1>0, <1>3 DEF AppendFails, Appending
<1> QED
  BY <1>1, <1>2, <1>3 DEF Puts

\* What append writes has a place in the file's type; and a file that verifies
\* after it, but for digits, continues one that did before.
LEMMA PutType ==
    ASSUME LogType, Ended(file), NEW c \in Calls, Puts(c)
    PROVE  /\ Grown(file, file')
           /\ seq' \in 0 .. MaxSeq /\ prev' \in Hashes
           /\ acked' \in Seq([seq : 1 .. MaxSeq, action : Actions, target : Targets, params : Params])
           /\ \A k \in 1 .. Len(acked) : k \in 1 .. Len(acked') /\ acked'[k] = acked[k]
           /\ verify_chain(Base(file')) = "true" =>
                 \E b \in BOOLEAN :
                    /\ b => /\ seq' = seq + 1
                            /\ Len(acked) + 1 \in 1 .. Len(acked')
                            /\ acked'[Len(acked) + 1] = Acked(seq + 1, c)
                    /\ Continues(file, file', seq + 1, c, prev, b)
<1> DEFINE Rec == [seq : 1 .. MaxSeq, action : Actions, target : Targets, params : Params]
           s == seq + 1
           a == Acked(s, c)
           g == file'
<1>1. file \in Seq(Lines) /\ prev \in Hashes /\ acked \in Seq(Rec) /\ seq \in 0 .. MaxSeq
  BY DEF LogType
<1>2. /\ s \in 1 .. MaxSeq
      /\ prev' = NextHash(prev, s, c.action, c.params)
      /\ \/ /\ g \in Written(file, s, c, prev)
            /\ seq' = s /\ acked' = Append(acked, a)
         \/ /\ g \in AfterFailedWrite(file, s, c, prev)
            /\ \/ seq' = s /\ acked' = Append(acked, a)
               \/ seq' = seq /\ acked' = acked
  BY PutMeans
<1>3. c.action \in Actions /\ c.params \in Params /\ c.params \in Hashed /\ c.target \in Targets
  BY DEF Calls, Hashed
<1>4. a \in Rec
  BY <1>2, <1>3 DEF Acked
<1> HIDE DEF s, a, g, Rec
<1>5. prev' \in Hashes
  BY <1>1, <1>2, <1>3, HashGrows
<1>6. Grown(file, g)
  BY <1>1, <1>2, WrittenContinues, FailedContinues
<1>7. acked' = Append(acked, a) =>
         /\ acked' \in Seq(Rec)
         /\ \A k \in 1 .. Len(acked) : k \in 1 .. Len(acked') /\ acked'[k] = acked[k]
         /\ Len(acked) + 1 \in 1 .. Len(acked') /\ acked'[Len(acked) + 1] = a
  BY <1>1, <1>4
<1>8. seq' \in 0 .. MaxSeq
  <2>1. s \in 0 .. MaxSeq
    BY <1>2, AuditAssumption
  <2> QED
    BY <1>1, <1>2, <2>1
<1>9. ASSUME verify_chain(Base(g)) = "true"
      PROVE  \E b \in BOOLEAN :
                /\ b => /\ seq' = s
                        /\ Len(acked) + 1 \in 1 .. Len(acked')
                        /\ acked'[Len(acked) + 1] = a
                /\ Continues(file, g, s, c, prev, b)
  <2>1. CASE /\ g \in Written(file, s, c, prev)
             /\ seq' = s /\ acked' = Append(acked, a)
    <3>1. Continues(file, g, s, c, prev, TRUE)
      BY <1>1, <1>2, <1>9, <2>1, WrittenContinues
    <3> QED
      BY <1>7, <2>1, <3>1
  <2>2. CASE g \in AfterFailedWrite(file, s, c, prev)
    <3>1. Continues(file, g, s, c, prev, FALSE)
      BY <1>1, <1>2, <1>9, <2>2, FailedContinues
    <3> QED
      BY <3>1
  <2> QED
    BY <1>2, <2>1, <2>2
<1>10. acked' \in Seq(Rec) /\ \A k \in 1 .. Len(acked) : k \in 1 .. Len(acked') /\ acked'[k] = acked[k]
  <2>1. CASE acked' = acked
    BY <1>1, <2>1
  <2> QED
    BY <1>2, <1>7, <2>1
<1> QED
  BY <1>5, <1>6, <1>8, <1>9, <1>10 DEF s, a, g, Rec

\* The logger's variables keep their types, and the file never gets shorter.
LEMMA LogTypeStep ==
    ASSUME LogType, Ended(file), LogStep
    PROVE  LogType' /\ Len(file) <= Len(file') /\ Ended(file')
<1> USE DEF LogType
<1>0. Len(file) \in Nat /\ Len(file) <= Len(file)
  OBVIOUS
<1>1. CASE OpenExisting
  <2>1. ChainEnd(file) \in 1 .. Len(file) /\ file[ChainEnd(file)] \in Events \cup Geneses
        /\ (ChainEnd(file) > 1 => file[ChainEnd(file)] \in Events)
    BY <1>1, ChainEndExists DEF OpenExisting
  <2>2. prev' \in Hashes
    BY <1>1, <2>1, AfterType DEF OpenExisting, OpenPrev
  <2>3. seq' \in 0 .. MaxSeq
    <3> DEFINE e == ChainEnd(file)
    <3>1. seq' = IF e = 1 THEN 0 ELSE file[e].seq
      BY <1>1 DEF OpenExisting, OpenSeq
    <3>2. e \in 1 .. Len(file) /\ (e > 1 => file[e] \in Events)
      BY <2>1
    <3> HIDE DEF e
    <3>3. e # 1 => e > 1
      BY <3>2
    <3>4. e # 1 => file[e].seq \in 1 .. MaxSeq
      BY <3>2, <3>3 DEF Events
    <3>5. MaxSeq \in Nat /\ \A i \in 1 .. MaxSeq : i \in 0 .. MaxSeq
      BY AuditAssumption
    <3>6. 0 \in 0 .. MaxSeq
      BY <3>5
    <3> QED
      BY <3>1, <3>4, <3>5, <3>6
  <2>4. opens' \in 0 .. MaxOpens
    BY <1>1, AuditAssumption DEF OpenExisting
  <2>5. up' \in BOOLEAN
    BY <1>1, Zenon DEF OpenExisting
  <2> QED
    BY <1>0, <1>1, <2>2, <2>3, <2>4, <2>5 DEF OpenExisting
<1>2. CASE OpenNew
  <2>1. genesis' \in Nat /\ seq' \in 0 .. MaxSeq
    BY <1>2, AuditAssumption DEF OpenNew
  <2> DEFINE k == genesis + 1
             g == file'
  <2>3. g \in {WithLine(file, Genesis(<<k>>))} \cup AfterFailedGenesis(file, <<k>>)
        /\ prev' = <<k>> /\ k \in Nat /\ ~HasGenesis(file)
    BY <1>2 DEF OpenNew
  <2> HIDE DEF k, g
  <2>5. Grown(file, g) /\ <<k>> \in Hashes
    BY <2>3, BegunMeans
  <2>6. prev' \in Hashes
    BY <2>3, <2>5
  <2>7. opens' \in 0 .. MaxOpens /\ faults' \in 0 .. MaxFaults
    BY <1>2, AuditAssumption DEF OpenNew, Fault
  <2>8. up' \in BOOLEAN /\ harmed' \in BOOLEAN
    BY <1>2, Zenon DEF OpenNew
  <2> QED
    BY <1>2, <2>1, <2>5, <2>6, <2>7, <2>8 DEF OpenNew, g, Grown
<1>3. CASE Close
  <2>1. up' \in BOOLEAN
    BY <1>3, Zenon DEF Close
  <2>2. prev' \in Hashes /\ seq' \in 0 .. MaxSeq
    BY <1>3, AuditAssumption DEF Close, Hashes
  <2> QED
    BY <1>0, <1>3, <2>1, <2>2 DEF Close, counts
<1>4. CASE UNCHANGED logger
  BY <1>0, <1>4 DEF logger, counts
<1>5. ASSUME NEW c \in Calls, Puts(c) PROVE LogType' /\ Len(file) <= Len(file') /\ Ended(file')
  <2>1. appends' \in 0 .. MaxAppends /\ faults' \in 0 .. MaxFaults
        /\ up' = up /\ genesis' = genesis /\ opens' = opens
    BY <1>5, AuditAssumption DEF Puts, AppendOk, AppendLost, AppendFails, Appending, Fault
  <2>2. harmed' \in BOOLEAN
    BY <1>5, Zenon DEF Puts, AppendOk, AppendLost, AppendFails
  <2> QED
    BY <1>5, <2>1, <2>2, PutType DEF Grown
<1>6. CASE AppendNoOpen
  BY <1>0, <1>6, AuditAssumption DEF AppendNoOpen, Appending, Fault
<1> QED
  BY <1>1, <1>2, <1>3, <1>4, <1>5, <1>6 DEF LogStep, Puts

\* An append that reaches the file, well or not: a log that verifies after it
\* is honest, and the hash in memory is in step.
LEMMA PutChain ==
    ASSUME LogInv, NEW c \in Calls, Puts(c), verify_chain(Base(file')) = "true"
    PROVE  Honest(Base(file))' /\ InStep'
<1> DEFINE F == Base(file)
           G == Base(file')
           m == Len(F)
           h == After(F[m])
           s == seq + 1
<1>1. file \in Seq(Lines) /\ seq \in Nat /\ s \in 1 .. MaxSeq /\ prev \in Hashes
      /\ c.action \in Actions /\ c.params \in Hashed /\ up
      /\ prev' = NextHash(prev, s, c.action, c.params)
  BY PutMeans DEF LogInv, LogType, Calls, Hashed
<1>2. /\ file' \in Seq(Lines)
      /\ \A k \in 1 .. Len(acked) : k \in 1 .. Len(acked') /\ acked'[k] = acked[k]
      /\ \E b \in BOOLEAN :
            /\ b => /\ seq' = s
                    /\ Len(acked) + 1 \in 1 .. Len(acked')
                    /\ acked'[Len(acked) + 1] = Acked(s, c)
            /\ Continues(file, file', s, c, prev, b)
  BY PutType DEF LogInv, HonestBase, Ended, Grown
<1>3. Len(prev') = Len(prev) + 1 /\ prev'[Len(prev) + 1] = <<c.params, s, c.action>>
      /\ Len(prev) \in Nat
  BY <1>1, HashGrows DEF Hashes
<1>4. PICK b \in BOOLEAN :
         /\ b => /\ seq' = s
                 /\ Len(acked) + 1 \in 1 .. Len(acked')
                 /\ acked'[Len(acked) + 1] = Acked(s, c)
         /\ Continues(file, file', s, c, prev, b)
  BY <1>2
<1>5. /\ verify_chain(F) = "true"
      /\ \/ G = F
         \/ RunInto(F, G)
         \/ /\ F[m].nl /\ prev = h
            /\ \E y \in Events :
                  /\ G = Append(F, y) /\ y.seq >= s /\ EndsIn(y.seq, s)
                  /\ Acked(s, y) = Acked(s, c)
                  /\ After(y) = NextHash(prev, y.seq, c.action, c.params)
                  /\ y.nl => b
  BY <1>4 DEF Continues
<1>6. F \in Seq(Lines) /\ m \in Nat /\ m >= 1 /\ h \in Hashes /\ Len(h) \in Nat
      /\ (m > 1 => F[m] \in Events)
  <2>1. F \in Seq(Lines)
    BY <1>1, BaseMeans
  <2> HIDE DEF F
  <2>2. m \in Nat /\ m >= 1 /\ h \in Hashes /\ (m > 1 => F[m] \in Events)
    BY <1>5, <2>1, LastHash
  <2> HIDE DEF h
  <2>3. Len(h) \in Nat
    BY <2>2 DEF Hashes
  <2> QED
    BY <2>1, <2>2, <2>3
<1>7. /\ \A i \in 2 .. m - 1 : F[i].seq < F[i + 1].seq
      /\ \A i \in 2 .. m : F[i].nl =>
            \E k \in 1 .. Len(acked) :
               EndsIn(F[i].seq, acked[k].seq) /\ Acked(acked[k].seq, F[i]) = acked[k]
  BY <1>5 DEF LogInv, HonestBase, Honest
<1>8. Len(h) <= Len(prev) /\ (h = prev /\ F[m].nl => seq = LastSeq(F))
  BY <1>1, <1>5 DEF LogInv, InStep
<1> DEFINE Good(i) == G[i].nl => \E k \in 1 .. Len(acked') :
                         EndsIn(G[i].seq, acked'[k].seq) /\ Acked(acked'[k].seq, G[i]) = acked'[k]
<1>9. SUFFICES /\ \A i \in 2 .. Len(G) - 1 : G[i].seq < G[i + 1].seq
               /\ \A i \in 2 .. Len(G) : Good(i)
               /\ Len(After(G[Len(G)])) <= Len(prev')
               /\ After(G[Len(G)]) = prev' /\ G[Len(G)].nl => seq' = LastSeq(G)
  BY DEF Honest, InStep
<1> HIDE DEF F, G, h, s
<1>10. ASSUME NEW i \in 2 .. m, G[i] = F[i] PROVE Good(i)
  <2>1. SUFFICES ASSUME F[i].nl PROVE Good(i)
    BY <1>10
  <2>2. PICK k \in 1 .. Len(acked) :
           EndsIn(F[i].seq, acked[k].seq) /\ Acked(acked[k].seq, F[i]) = acked[k]
    BY <1>7, <2>1
  <2>3. k \in 1 .. Len(acked') /\ acked'[k] = acked[k]
    BY <1>2, <2>2
  <2> QED
    BY <1>10, <2>2, <2>3
<1>11. CASE G = F
  <2>1. Len(h) <= Len(prev') /\ h # prev'
    <3>1. Len(h) < Len(prev')
      BY <1>3, <1>6, <1>8
    <3>2. \A x : x = prev' => Len(x) = Len(prev')
      OBVIOUS
    <3> QED
      BY <1>3, <1>6, <3>1, <3>2
  <2>2. \A i \in 2 .. m : Good(i)
    BY <1>10, <1>11
  <2>3. After(G[Len(G)]) = h /\ Len(G) = m
    BY <1>11 DEF h
  <2> HIDE DEF Good, m
  <2> QED
    BY <1>7, <1>11, <2>1, <2>2, <2>3
<1>12. CASE RunInto(F, G)
  <2> DEFINE g == After(G[1])
  <2>1. g = Append(h, <<"garbled">>) /\ Len(G) = 1
    BY <1>12 DEF RunInto, h
  <2>2. Len(g) = Len(h) + 1 /\ g[Len(h) + 1] = <<"garbled">>
    BY <1>6, <2>1 DEF Hashes
  <2> HIDE DEF g
  <2>3. Len(g) <= Len(prev')
    BY <1>3, <1>6, <1>8, <2>2
  <2>4. g # prev'
    <3>1. SUFFICES ASSUME g = prev' PROVE FALSE
      OBVIOUS
    <3>2. Len(h) = Len(prev)
      BY <3>1, <2>2, <1>3, <1>6
    <3>3. <<"garbled">> = <<c.params, s, c.action>>
      BY <3>1, <3>2, <2>2, <1>3
    <3> QED
      BY <3>3
  <2>5. 2 .. Len(G) = {} /\ 2 .. Len(G) - 1 = {}
    BY <2>1
  <2> QED
    BY <2>1, <2>3, <2>4, <2>5 DEF g
<1>13. ASSUME F[m].nl, prev = h, NEW y \in Events,
              G = Append(F, y), y.seq >= s, EndsIn(y.seq, s), Acked(s, y) = Acked(s, c),
              After(y) = NextHash(prev, y.seq, c.action, c.params), y.nl => b
       PROVE  /\ \A i \in 2 .. Len(G) - 1 : G[i].seq < G[i + 1].seq
              /\ \A i \in 2 .. Len(G) : Good(i)
              /\ Len(After(G[Len(G)])) <= Len(prev')
              /\ After(G[Len(G)]) = prev' /\ G[Len(G)].nl => seq' = LastSeq(G)
  <2>1. Len(G) = m + 1 /\ G[m + 1] = y /\ \A i \in 1 .. m : G[i] = F[i]
    BY <1>6, <1>13
  <2>2. seq = LastSeq(F) /\ y.seq \in 1 .. MaxSeq /\ y.seq \in Nat /\ s = seq + 1
    BY <1>8, <1>13 DEF Events, s
  <2>3. m > 1 => F[m].seq < y.seq
    <3>1. m > 1 => seq = F[m].seq
      BY <1>6, <2>2 DEF LastSeq
    <3> QED
      BY <1>1, <1>13, <2>2, <3>1
  <2>4. \A i \in 2 .. Len(G) - 1 : G[i].seq < G[i + 1].seq
    <3> TAKE i \in 2 .. Len(G) - 1
    <3> HIDE DEF m
    <3>1. CASE i \in 2 .. m - 1
      <4>1. i \in 1 .. m /\ i + 1 \in 1 .. m
        BY <1>6, <3>1
      <4> QED
        BY <1>7, <2>1, <3>1, <4>1
    <3>2. CASE i = m
      <4>1. m \in 1 .. m /\ m > 1
        BY <1>6, <3>2
      <4> QED
        BY <2>1, <2>3, <3>2, <4>1
    <3> QED
      BY <1>6, <2>1, <3>1, <3>2
  <2>5. \A i \in 2 .. Len(G) : Good(i)
    <3> TAKE i \in 2 .. Len(G)
    <3>1. CASE i \in 2 .. m
      <4>1. G[i] = F[i]
        BY <1>6, <2>1, <3>1
      <4> QED
        BY <1>10, <3>1, <4>1
    <3>2. CASE i = m + 1
      <4>1. SUFFICES ASSUME y.nl PROVE Good(i)
        BY <2>1, <3>2
      <4> DEFINE k == Len(acked) + 1
      <4>2. k \in 1 .. Len(acked') /\ acked'[k] = Acked(s, c)
        BY <1>4, <1>13, <4>1
      <4>3. acked'[k].seq = s
        BY <4>2 DEF Acked
      <4> HIDE DEF k
      <4> QED
        BY <1>13, <2>1, <3>2, <4>2, <4>3
    <3> HIDE DEF m, Good
    <3>3. i \in 2 .. m \/ i = m + 1
      BY <1>6, <2>1
    <3> QED
      BY <3>1, <3>2, <3>3
  <2>6. Len(After(y)) = Len(prev) + 1 /\ After(y)[Len(prev) + 1] = <<c.params, y.seq, c.action>>
    <3> DEFINE q == y.seq
               n == NextHash(prev, q, c.action, c.params)
    <3>1. q \in 1 .. MaxSeq /\ prev \in Hashes /\ c.action \in Actions /\ c.params \in Hashed
      BY <1>1, <2>2
    <3>2. After(y) = n
      BY <1>13
    <3> HIDE DEF q
    <3>3. Len(n) = Len(prev) + 1 /\ n[Len(prev) + 1] = <<c.params, q, c.action>>
      BY <3>1, HashGrows
    <3> QED
      BY <3>2, <3>3 DEF q
  <2>7. After(y) = prev' /\ y.nl => seq' = LastSeq(G)
    <3>1. SUFFICES ASSUME After(y) = prev', y.nl PROVE seq' = LastSeq(G)
      OBVIOUS
    <3>2. <<c.params, y.seq, c.action>> = <<c.params, s, c.action>>
      BY <1>3, <2>6, <3>1
    <3>3. y.seq = s
      BY <3>2
    <3>4. seq' = s
      BY <1>4, <1>13, <3>1
    <3>5. LastSeq(G) = y.seq
      BY <1>6, <2>1 DEF LastSeq
    <3> QED
      BY <3>3, <3>4, <3>5
  <2>8. G[Len(G)] = y
    BY <2>1
  <2>9. Len(After(y)) <= Len(prev')
    BY <1>3, <2>6
  <2> HIDE DEF Good, m
  <2> QED
    BY <2>4, <2>5, <2>7, <2>8, <2>9
<1> HIDE DEF Good, m
<1> QED
  BY <1>5, <1>11, <1>12, <1>13

\* Whatever the logger does, and whatever fails: a log that verifies is honest.
LEMMA ChainStep ==
    ASSUME LogInv, LogStep
    PROVE  HonestBase' /\ InStep'
<1>1. LogType /\ LogType' /\ Ended(file')
  BY LogTypeStep DEF LogInv, HonestBase, Ended
<1>0. Honest(Base(file))' => HonestBase'
  BY <1>1 DEF HonestBase, Ended
<1>2. CASE OpenExisting
  <2>1. file' = file /\ acked' = acked
    BY <1>2 DEF OpenExisting
  <2>2. HonestBase'
    BY <2>1 DEF LogInv, HonestBase, Honest
  <2>3. ASSUME verify_chain(Base(file)) = "true"
        PROVE  /\ prev' = After(Base(file)[Len(Base(file))])
               /\ seq' = LastSeq(Base(file))
    <3> DEFINE F == Base(file)
               m == Len(F)
    <3>1. ChainEnd(file) = m
      BY <1>1, <1>2, <2>3, ChainEndExists DEF LogType, OpenExisting
    <3>2. F \in Seq(Lines) /\ m \in Nat /\ m >= 1
      BY <1>1, <2>3, BaseMeans, LastHash DEF LogType
    <3>3. F[m] = file[m]
      <4>1. m \in 1 .. m
        BY <3>2
      <4> QED
        BY <1>1, <4>1, BaseMeans DEF LogType
    <3>4. prev' = After(file[m]) /\ seq' = IF m = 1 THEN 0 ELSE file[m].seq
      BY <1>2, <3>1 DEF OpenExisting, OpenPrev, OpenSeq
    <3> HIDE DEF F
    <3> QED
      BY <3>3, <3>4 DEF LastSeq, F
  <2>4. InStep'
    <3>1. prev' \in Hashes /\ Len(prev') \in Nat
      BY <1>1 DEF LogType, Hashes
    <3>2. verify_chain(Base(file')) = "true" =>
             /\ After(Base(file')[Len(Base(file'))]) = prev'
             /\ Len(After(Base(file')[Len(Base(file'))])) <= Len(prev')
             /\ seq' = LastSeq(Base(file'))
      BY <2>1, <2>3, <3>1
    <3> QED
      BY <3>2 DEF InStep
  <2> QED
    BY <2>2, <2>4
<1>3. CASE OpenNew
  <2>1. SUFFICES ASSUME verify_chain(Base(file')) = "true" PROVE Honest(Base(file))' /\ InStep'
    BY <1>0 DEF Honest, InStep
  <2> DEFINE k == genesis + 1
             g == file'
             G == Base(g)
  <2>2. g \in {WithLine(file, Genesis(<<k>>))} \cup AfterFailedGenesis(file, <<k>>)
        /\ prev' = <<k>> /\ k \in Nat /\ ~HasGenesis(file) /\ seq' = 0
    BY <1>1, <1>3 DEF OpenNew, LogType
  <2>3. Len(G) = 1 /\ Len(After(G[1])) = 1
    <3> HIDE DEF g, k
    <3>1. verify_chain(Base(g)) = "true"
      BY <2>1 DEF g
    <3>2. file \in Seq(Lines) /\ Ended(file)
      BY <1>1 DEF LogType, LogInv, HonestBase, Ended
    <3> QED
      BY <2>2, <3>1, <3>2, BegunMeans
  <2>4. Len(prev') = 1
    <3> HIDE DEF k
    <3> QED
      BY <2>2
  <2>5. Len(After(G[Len(G)])) <= Len(prev') /\ seq' = LastSeq(G)
    BY <2>2, <2>3, <2>4 DEF LastSeq
  <2>6. 2 .. Len(G) = {} /\ 2 .. Len(G) - 1 = {}
    BY <2>3
  <2> QED
    BY <2>5, <2>6 DEF Honest, InStep
<1>4. CASE Close
  <2>1. file' = file /\ acked' = acked /\ ~up'
    BY <1>4 DEF Close
  <2> QED
    BY <2>1 DEF LogInv, HonestBase, Honest, InStep
<1>5. CASE UNCHANGED logger
  BY <1>5 DEF logger, LogInv, HonestBase, Honest, InStep
<1>6. ASSUME NEW c \in Calls, Puts(c) PROVE Honest(Base(file))' /\ InStep'
  <2>1. CASE verify_chain(Base(file')) = "true"
    BY <1>6, <2>1, PutChain
  <2>2. CASE verify_chain(Base(file')) # "true"
    BY <2>2 DEF Honest, InStep
  <2> QED
    BY <2>1, <2>2
<1>7. CASE AppendNoOpen
  BY <1>7 DEF AppendNoOpen, Appending, LogInv, HonestBase, Honest, InStep
<1> QED
  BY <1>0, <1>2, <1>3, <1>4, <1>5, <1>6, <1>7 DEF LogStep, Puts

\* A file that verifies has no digits at its end.
LEMMA HonestFile ==
    ASSUME file \in Seq(Lines), HonestBase
    PROVE  VerifiedIsHonest
<1>1. verify_chain(file) = "true" => Base(file) = file
  BY BaseIsFile
<1> QED
  BY <1>1 DEF HonestBase, VerifiedIsHonest, Honest

\* An append that succeeds while nothing has failed: the file gets the event.
LEMMA PutExact ==
    ASSUME LogInv, NEW c \in Calls, AppendOk(c), ~harmed'
    PROVE  /\ file # <<>> /\ file' = Append(file, Event(seq + 1, c, prev))
           /\ Event(seq + 1, c, prev) \in Events
           /\ prev = After(file[Len(file)]) /\ seq = Len(file) - 1
           /\ verify_chain(file) = "true" /\ Len(file) = Len(acked) + 1
<1>1. ~harmed /\ c.target \notin Barred /\ c.params \notin Multiline /\ up
  BY DEF AppendOk, Appending
<1>2. file # <<>> /\ Len(file) = Len(acked) + 1 /\ prev = After(file[Len(file)])
      /\ \A i \in 1 .. Len(file) : file[i].nl
  BY <1>1 DEF LogInv, ExactInv
<1>3. verify_chain(file) = "true"
  BY <1>1, <1>2 DEF LogInv, RecordsExact
<1>4. file[Len(file)].nl
  <2>1. Len(file) \in 1 .. Len(file)
    BY <1>2 DEF LogInv, LogType
  <2> QED
    BY <1>2, <2>1
<1>5. seq = Len(file) - 1
  <2>1. Base(file) = file /\ Len(file) \in Nat /\ Len(file) >= 1
    BY <1>3, BaseIsFile, LastHash DEF LogInv, LogType
  <2>2. seq = LastSeq(file)
    BY <1>1, <1>2, <1>3, <1>4, <2>1 DEF LogInv, InStep
  <2>3. Len(file) > 1 => file[Len(file)].seq = Len(file) - 1
    <3>1. Len(file) > 1 => Len(file) \in 2 .. Len(file)
      BY <2>1
    <3> QED
      BY <1>1, <3>1 DEF LogInv, RecordsExact
  <2> QED
    <3> DEFINE n == Len(file)
    <3>1. seq = IF n = 1 THEN 0 ELSE file[n].seq
      BY <2>2 DEF LastSeq
    <3>2. n \in Nat /\ n >= 1 /\ (n > 1 => file[n].seq = n - 1)
      BY <2>1, <2>3
    <3> HIDE DEF n
    <3>3. seq = n - 1
      BY <3>1, <3>2
    <3> QED
      BY <3>3 DEF n
<1>6. file' = Append(file, Event(seq + 1, c, prev))
  <2>1. file' \in Written(file, seq + 1, c, prev)
    BY DEF AppendOk
  <2> QED
    BY <1>1, <1>4, <2>1 DEF WithLine, Unended, Written
<1>7. Event(seq + 1, c, prev) \in Events
  <2>1. seq + 1 \in 1 .. MaxSeq /\ prev \in Hashes
    BY PutMeans DEF LogInv, LogType, Puts
  <2>2. Event(seq + 1, c, prev).kind = "event"
    BY DEF Event
  <2>3. Event(seq + 1, c, prev) \in Pieces(seq + 1, c, prev)
    BY DEF Pieces
  <2> QED
    BY <2>1, <2>2, <2>3, PieceTypes, LineKinds
<1> QED
  BY <1>2, <1>3, <1>5, <1>6, <1>7

\* As long as nothing fails, the file holds the acknowledged events.
LEMMA ExactStep ==
    ASSUME LogInv, LogStep
    PROVE  RecordsExact' /\ ExactInv'
<1>1. LogType /\ RecordsExact /\ ExactInv
  BY DEF LogInv
<1>2. CASE OpenExisting
  <2>1. file' = file /\ acked' = acked /\ harmed' = harmed /\ file # <<>>
    BY <1>2 DEF OpenExisting, HasGenesis
  <2>2. RecordsExact'
    BY <1>1, <2>1 DEF RecordsExact, Recorded
  <2>3. ~harmed => prev' = After(file[Len(file)])
    <3>1. ~harmed => verify_chain(file) = "true"
      BY <1>1, <2>1 DEF RecordsExact
    <3>2. ~harmed => ChainEnd(file) = Len(file)
      BY <1>1, <1>2, <3>1, BaseIsFile, ChainEndExists DEF LogType, OpenExisting
    <3> QED
      BY <1>2, <3>2 DEF OpenExisting, OpenPrev
  <2> QED
    BY <1>1, <2>1, <2>2, <2>3 DEF ExactInv
<1>3. CASE OpenNew
  <2>1. SUFFICES ASSUME ~harmed' PROVE RecordsExact' /\ ExactInv'
    BY DEF RecordsExact, ExactInv
  <2>2. ~harmed /\ file' = WithLine(file, Genesis(prev')) /\ acked' = acked
    BY <1>3, <2>1 DEF OpenNew
  <2>3. file = <<>>
    BY <1>1, <1>3, <2>2, VerifiedMeans DEF RecordsExact, OpenNew, HasGenesis
  <2>4. file' = <<Genesis(prev')>> /\ acked' = <<>>
    BY <1>1, <2>2, <2>3 DEF WithLine, Unended, ExactInv
  <2>5. Len(file') = 1 /\ file'[1] = Genesis(prev') /\ file' # <<>>
    BY <2>4
  <2>6. file'[1].kind = "genesis" /\ file'[1].nl /\ After(file'[1]) = prev'
    BY <2>5 DEF Genesis, After
  <2>7. 2 .. Len(file') = {}
    BY <2>5
  <2>8. verify_chain(file') = "true"
    BY <2>5, <2>6, <2>7, VerifiedMeans
  <2>9. Len(acked') = 0
    BY <2>4
  <2> QED
    BY <2>4, <2>5, <2>6, <2>7, <2>8, <2>9 DEF RecordsExact, ExactInv
<1>4. CASE Close
  <2>1. file' = file /\ acked' = acked /\ harmed' = harmed /\ ~up'
    BY <1>4 DEF Close
  <2> QED
    BY <1>1, <2>1 DEF RecordsExact, ExactInv, Recorded
<1>5. CASE UNCHANGED logger
  BY <1>1, <1>5 DEF logger, RecordsExact, ExactInv, Recorded
<1>6. ASSUME NEW c \in Calls, AppendOk(c) PROVE RecordsExact' /\ ExactInv'
  <2>1. SUFFICES ASSUME ~harmed' PROVE RecordsExact' /\ ExactInv'
    BY DEF RecordsExact, ExactInv
  <2> DEFINE n == Len(file)
             e == Event(seq + 1, c, prev)
  <2>2. file # <<>> /\ file' = Append(file, e) /\ prev = After(file[n]) /\ seq = n - 1
        /\ verify_chain(file) = "true" /\ n = Len(acked) + 1
    BY <1>6, <2>1, PutExact
  <2>3. ~harmed /\ acked' = Append(acked, Acked(seq + 1, c))
        /\ prev' = NextHash(prev, seq + 1, c.action, c.params)
    BY <1>6, <2>1 DEF AppendOk
  <2>4. e.prev = prev /\ e.nl = TRUE /\ e.seq = seq + 1 /\ e.kind = "event"
        /\ e.params = e.params_hash /\ After(e) = prev' /\ Acked(e.seq, e) = Acked(seq + 1, c)
    BY <2>3 DEF Event, After, Acked
  <2> HIDE DEF e
  <2>5. n \in Nat /\ n >= 1 /\ file \in Seq(Lines) /\ Len(acked) \in Nat
        /\ acked \in Seq([seq : 1 .. MaxSeq, action : Actions, target : Targets, params : Params])
    BY <1>1, <2>2 DEF LogType
  <2>6. Len(file') = n + 1 /\ file'[n + 1] = e /\ \A i \in 1 .. n : file'[i] = file[i]
    BY <2>2, <2>5
  <2>7. Len(acked') = n /\ acked'[n] = Acked(seq + 1, c)
        /\ \A k \in 1 .. n - 1 : acked'[k] = acked[k]
    BY <2>2, <2>3, <2>5
  <2> HIDE DEF n
  <2>8. ASSUME NEW i \in 2 .. Len(file')
        PROVE  /\ Acked(file'[i].seq, file'[i]) = acked'[i - 1] /\ file'[i].seq = i - 1
               /\ file'[i].kind = "event" /\ file'[i].prev = After(file'[i - 1])
               /\ file'[i].params = file'[i].params_hash
    <3>1. CASE i \in 2 .. n
      <4>1. file'[i] = file[i] /\ file'[i - 1] = file[i - 1] /\ i - 1 \in 1 .. n - 1
        BY <3>1, <2>5, <2>6
      <4>2. Acked(file[i].seq, file[i]) = acked[i - 1] /\ file[i].seq = i - 1
        BY <1>1, <2>3, <3>1 DEF RecordsExact, Recorded, n
      <4>3. Linked(file, i) /\ file[i].params = file[i].params_hash
        BY <2>2, <3>1, VerifiedMeans DEF n
      <4> QED
        BY <4>1, <4>2, <4>3, <2>7 DEF Linked
    <3>2. CASE i = n + 1
      <4>1. file'[i] = e /\ i - 1 = n /\ file'[i - 1] = file[n]
        BY <3>2, <2>5, <2>6
      <4>2. seq + 1 = n
        BY <2>2, <2>5
      <4> QED
        BY <4>1, <4>2, <2>2, <2>4, <2>7
    <3>3. i \in 2 .. n \/ i = n + 1
      BY <2>5, <2>6
    <3> QED
      BY <3>1, <3>2, <3>3
  <2>9. verify_chain(file') = "true"
    <3>1. file'[1] = file[1] /\ file' # <<>>
      BY <2>5, <2>6
    <3>2. file[1].kind = "genesis"
      BY <2>2, VerifiedMeans
    <3>3. \A i \in 2 .. Len(file') : Linked(file', i)
      BY <2>8 DEF Linked
    <3> QED
      BY <2>8, <3>1, <3>2, <3>3, VerifiedMeans
  <2>10. RecordsExact'
    <3>1. Len(file') = Len(acked') + 1
      BY <2>6, <2>7
    <3> QED
      BY <2>8, <2>9, <3>1 DEF RecordsExact, Recorded
  <2>11. ExactInv'
    <3>1. \A i \in 1 .. Len(file') : file'[i].nl
      <4> TAKE i \in 1 .. Len(file')
      <4>1. CASE i \in 1 .. n
        <5>1. file[i].nl
          BY <1>1, <2>3, <4>1 DEF ExactInv, n
        <5> QED
          BY <4>1, <5>1, <2>6
      <4>2. CASE i = n + 1
        BY <4>2, <2>4, <2>6
      <4> QED
        BY <4>1, <4>2, <2>5, <2>6
    <3>2. file' # <<>>
      BY <2>6, <2>5
    <3>3. After(file'[Len(file')]) = prev'
      BY <2>4, <2>6
    <3>4. Len(file') = Len(acked') + 1
      BY <2>6, <2>7
    <3> QED
      BY <3>1, <3>2, <3>3, <3>4 DEF ExactInv
  <2> QED
    BY <2>10, <2>11
<1>7. ASSUME NEW c \in Calls, AppendLost(c) \/ AppendFails(c) PROVE RecordsExact' /\ ExactInv'
  BY <1>7 DEF AppendLost, AppendFails, RecordsExact, ExactInv
<1>8. CASE AppendNoOpen
  BY <1>1, <1>8 DEF AppendNoOpen, Appending, RecordsExact, ExactInv, Recorded
<1> QED
  BY <1>2, <1>3, <1>4, <1>5, <1>6, <1>7, <1>8 DEF LogStep

\* The chain shows a record that is missing, and two that changed places.
LEMMA GapsShow ==
    ASSUME file \in Seq(Lines)
    PROVE  GapsDetected
<1> SUFFICES ASSUME verify_chain(file) = "true", NEW i \in 2 .. Len(file) - 1
             PROVE  /\ verify_chain(Without(file, i)) = "false"
                    /\ verify_chain(Swapped(file, i)) = "false"
  BY DEF GapsDetected
<1> DEFINE n == Len(file)
<1>1. n \in Nat /\ i \in Nat /\ i >= 2 /\ i + 1 <= n
  OBVIOUS
<1>2. /\ file # <<>> /\ file[1].kind = "genesis"
      /\ \A k \in 2 .. n : Linked(file, k) /\ file[k].params = file[k].params_hash
  BY VerifiedMeans
<1>3. file[i - 1] \in Events \cup Geneses
  <2>1. file[i - 1] \in Lines
    BY <1>1
  <2>2. file[i - 1].kind \in {"event", "genesis"}
    <3>1. CASE i = 2
      BY <1>2, <3>1
    <3>2. CASE i > 2
      <4>1. i - 1 \in 2 .. n
        BY <1>1, <3>2
      <4> QED
        BY <1>2, <4>1 DEF Linked
    <3> QED
      BY <1>1, <3>1, <3>2
  <2> QED
    BY <2>1, <2>2, LineKinds
<1>4. After(file[i - 1]) \in Hashes
  BY <1>3, AfterType
<1>5. file[i].prev = After(file[i - 1]) /\ file[i].kind = "event" /\ file[i] \in Lines
  BY <1>1, <1>2 DEF Linked
<1>6. file[i + 1].prev = After(file[i])
  <2>1. i + 1 \in 2 .. n /\ (i + 1) - 1 = i
    BY <1>1
  <2> QED
    BY <1>2, <2>1 DEF Linked
<1>7. file[i] \in Events
  BY <1>5, LineKinds
<1>8. After(file[i]) # After(file[i - 1])
  <2> DEFINE h == After(file[i - 1])
             x == file[i]
  <2>1. After(x) = NextHash(h, x.seq, x.action, x.params_hash)
    BY <1>5 DEF After
  <2>2. x.seq \in 1 .. MaxSeq /\ x.action \in Actions /\ x.params_hash \in Hashed /\ h \in Hashes
    BY <1>4, <1>7 DEF Events
  <2> HIDE DEF h, x
  <2>3. Len(After(x)) = Len(h) + 1 /\ Len(h) \in Nat
    BY <2>1, <2>2, HashGrows DEF Hashes
  <2>4. After(x) # h
    BY <2>3
  <2> QED
    BY <2>4 DEF h, x
<1>9. ASSUME NEW g, g # <<>>, g[1] = file[1], g[i - 1] = file[i - 1], g[i] = file[i + 1],
             i \in 2 .. Len(g)
      PROVE  verify_chain(g) = "false"
  <2>1. ~Linked(g, i)
    BY <1>6, <1>8, <1>9 DEF Linked
  <2> QED
    BY <1>2, <1>9, <2>1 DEF verify_chain, HasGenesis
<1>10. verify_chain(Without(file, i)) = "false"
  <2> DEFINE a == SubSeq(file, 1, i - 1)
             b == SubSeq(file, i + 1, n)
             g == Without(file, i)
  <2>1. a \in Seq(Lines) /\ Len(a) = i - 1 /\ \A k \in 1 .. i - 1 : a[k] = file[k]
    BY <1>1
  <2>2. b \in Seq(Lines) /\ Len(b) = n - i /\ b[1] = file[i + 1]
    BY <1>1
  <2>3. g = a \o b
    BY DEF Without
  <2> HIDE DEF a, b, g
  <2>4. g \in Seq(Lines) /\ Len(g) = n - 1 /\ \A k \in 1 .. i - 1 : g[k] = file[k]
    <3>1. a \o b \in Seq(Lines)
      BY <2>1, <2>2
    <3>2. a \in Seq(Lines) /\ b \in Seq(Lines)
      BY <2>1, <2>2
    <3>3. Len(a \o b) = Len(a) + Len(b) /\ \A k \in 1 .. Len(a) : (a \o b)[k] = a[k]
      BY <3>2
    <3> HIDE DEF n
    <3> QED
      BY <1>1, <2>1, <2>2, <2>3, <3>1, <3>2, <3>3
  <2>5. g[i] = b[1]
    BY <1>1, <2>1, <2>2, <2>3
  <2>6. g # <<>> /\ g[1] = file[1] /\ g[i - 1] = file[i - 1] /\ i \in 2 .. Len(g)
    BY <1>1, <2>4
  <2> QED
    BY <1>9, <2>2, <2>5, <2>6 DEF g
<1>11. verify_chain(Swapped(file, i)) = "false"
  <2> DEFINE g == Swapped(file, i)
  <2>1. i \in DOMAIN file /\ i + 1 \in DOMAIN file
    BY <1>1
  <2>2. file[i] \in Lines /\ file[i + 1] \in Lines
    BY <2>1
  <2>3. g = [[file EXCEPT ![i] = file[i + 1]] EXCEPT ![i + 1] = file[i]]
    BY DEF Swapped
  <2>4. g \in Seq(Lines) /\ Len(g) = n
    BY <2>1, <2>2, <2>3
  <2>5. g[i] = file[i + 1] /\ g[i - 1] = file[i - 1] /\ g[1] = file[1]
    BY <1>1, <2>1, <2>3
  <2> HIDE DEF g
  <2>6. g # <<>> /\ i \in 2 .. Len(g)
    BY <1>1, <2>4
  <2> QED
    BY <1>9, <2>5, <2>6 DEF g
<1> QED
  BY <1>10, <1>11

-----------------------------------------------------------------------------
(* The client.                                                             *)

\* A call is not "no call".
LEMMA CallIsCall ==
    ASSUME NEW c \in Calls
    PROVE  c # <<>>
<1>1. "action" \in DOMAIN c
  BY DEF Calls
<1>2. "action" \notin DOMAIN <<>>
  OBVIOUS
<1> QED
  BY <1>1, <1>2

\* Of the logger, a step of the client is a step of the logger.
LEMMA NextIsLogStep ==
    ASSUME TypeOK, Next
    PROVE  LogStep
<1>1. CASE MakeAudited
  BY <1>1 DEF MakeAudited, LogStep
<1>2. CASE MakePlain
  BY <1>2 DEF MakePlain, LogStep
<1>3. CASE Drop
  BY <1>3 DEF Drop, LogStep
<1>4. ASSUME NEW t \in Threads, NEW n \in Nodes, trust_add(t, n) \/ trust_remove(t, n)
      PROVE  LogStep
  BY <1>4 DEF trust_add, trust_remove, LogStep
<1>5. ASSUME NEW t \in Threads, NEW n \in Nodes, NEW a \in Uses, Use(t, a, n)
      PROVE  LogStep
  BY <1>5 DEF Use, LogStep
<1>6. ASSUME NEW t \in Threads, NEW a \in Notes, Note(t, a)
      PROVE  LogStep
  BY <1>6 DEF Note, LogStep
<1>8. ASSUME NEW t \in Threads, NEW c \in Audits, Audit(t, c)
      PROVE  LogStep
  BY <1>8 DEF Audit, LogStep
<1>7. ASSUME NEW t \in Threads, Record(t)
      PROVE  LogStep
  <2>1. due[t] \in Calls
    BY <1>7 DEF Record, TypeOK
  <2>2. \/ AppendOk(due[t]) \/ AppendLost(due[t]) \/ AppendFails(due[t])
        \/ AppendNoOpen
    BY <1>7 DEF Record
  <2> QED
    BY <2>1, <2>2 DEF LogStep
<1> QED
  BY <1>1, <1>2, <1>3, <1>4, <1>5, <1>6, <1>7, <1>8 DEF Next

\* A failure of the file is never forgotten.
LEMMA HarmStays ==
    ASSUME LogStep, harmed
    PROVE  harmed'
  BY DEF LogStep, OpenExisting, OpenNew, Close, AppendOk, AppendLost, AppendFails,
         AppendNoOpen, logger

\* The calls that the operations leave to be recorded.
LEMMA CallTypes ==
    /\ \A n \in Nodes, p \in {"add", "remove"} :
          [action |-> "WhitelistUpdate", target |-> n, params |-> p] \in Calls
    /\ \A n \in Nodes, a \in Uses, p \in Texts :
          [action |-> a, target |-> n, params |-> p] \in Calls
    /\ \A a \in Notes, p \in Texts : [action |-> a, target |-> "self", params |-> p] \in Calls
    /\ \A c \in Audits :
          c \in Calls /\ c = [action |-> c.action, target |-> c.target, params |-> c.params]
<1>1. "WhitelistUpdate" \notin Uses \cup Notes
  BY SdkAssumption
<1>2. ASSUME NEW c \in Audits
      PROVE  c \in Calls /\ c = [action |-> c.action, target |-> c.target, params |-> c.params]
  <2>1. c \in Calls
    BY SdkAssumption
  <2> QED
    BY <2>1 DEF Calls
<1> QED
  BY <1>1, <1>2 DEF Calls, Actions, Targets, Params

\* Whether a record is about a change of trust is what its call says.
LEMMA EventSays ==
    ASSUME NEW c \in Calls, NEW s, NEW h, NEW p, NEW n
    PROVE  Says(Event(s, c, h), p, n) <=> Says(c, p, n)
<1>1. "action" \in DOMAIN Event(s, c, h)
  BY DEF Event
<1>2. "action" \notin DOMAIN <<>>
  OBVIOUS
<1>3. Event(s, c, h) # <<>> /\ c # <<>>
  BY <1>1, <1>2, CallIsCall
<1>4. Event(s, c, h).action = c.action /\ Event(s, c, h).params = c.params
      /\ Event(s, c, h).target = c.target
  BY DEF Event
<1> QED
  BY <1>3, <1>4 DEF Says, ChangesTrust

\* A thread's next call, and everybody else's.
LEMMA DueMeans ==
    ASSUME TypeOK, NEW t \in Threads, NEW a, NEW n, NEW p,
           [action |-> a, target |-> n, params |-> p] \in Calls, Due(t, a, n, p)
    PROVE  /\ due' \in [Threads -> Calls \cup {<<>>}]
           /\ ~up => due' = due
           /\ up => due'[t] = [action |-> a, target |-> n, params |-> p]
           /\ \A u \in Threads \ {t} : due'[u] = due[u]
  BY DEF TypeOK, Due

\* Operations that leave the whitelist as it is.
Quiet(t) ==
    \/ \E n \in Nodes, a \in Uses : Use(t, a, n)
    \/ \E a \in Notes : Note(t, a)
    \/ \E c \in Audits : Audit(t, c)

\* They leave a call to be made; if it says that trust changed, that is noted.
LEMMA QuietMeans ==
    ASSUME TypeOK, NEW t \in Threads, Quiet(t)
    PROVE  /\ due[t] = <<>> /\ due' \in [Threads -> Calls \cup {<<>>}]
           /\ ChangesTrust(due'[t]) /\ due'[t].target \in Nodes => due'[t].target \in unsure'
           /\ \A u \in Threads \ {t} : due'[u] = due[u]
           /\ unsure \subseteq unsure' /\ unsure' \subseteq Nodes
           /\ used' \subseteq used \cup whitelist
           /\ up /\ UNCHANGED <<logger, plain, whitelist, base, lost>>
<1> DEFINE Goal ==
           /\ due[t] = <<>> /\ due' \in [Threads -> Calls \cup {<<>>}]
           /\ ChangesTrust(due'[t]) /\ due'[t].target \in Nodes => due'[t].target \in unsure'
           /\ \A u \in Threads \ {t} : due'[u] = due[u]
           /\ unsure \subseteq unsure' /\ unsure' \subseteq Nodes
           /\ used' \subseteq used \cup whitelist
           /\ up /\ UNCHANGED <<logger, plain, whitelist, base, lost>>
<1>1. "WhitelistUpdate" \notin Uses \cup Notes
  BY SdkAssumption
<1>2. ASSUME NEW n \in Nodes, NEW a \in Uses, Use(t, a, n)
      PROVE  Goal
  <2>1. PICK p \in Texts : Due(t, a, n, p)
    BY <1>2 DEF Use
  <2>2. /\ due' \in [Threads -> Calls \cup {<<>>}]
        /\ up => due'[t] = [action |-> a, target |-> n, params |-> p]
        /\ \A u \in Threads \ {t} : due'[u] = due[u]
    BY <2>1, DueMeans, CallTypes
  <2>3. up /\ due[t] = <<>> /\ n \in whitelist /\ used' = used \cup {n}
        /\ UNCHANGED <<logger, plain, whitelist, base, unsure, lost>>
    BY <1>2 DEF Use, Ready, Trusted
  <2>4. ~ChangesTrust(due'[t])
    BY <1>1, <2>2, <2>3 DEF ChangesTrust
  <2> QED
    BY <2>2, <2>3, <2>4 DEF TypeOK
<1>3. ASSUME NEW a \in Notes, Note(t, a)
      PROVE  Goal
  <2>1. PICK p \in Texts : Due(t, a, "self", p)
    BY <1>3 DEF Note
  <2>2. /\ due' \in [Threads -> Calls \cup {<<>>}]
        /\ up => due'[t] = [action |-> a, target |-> "self", params |-> p]
        /\ \A u \in Threads \ {t} : due'[u] = due[u]
    BY <2>1, DueMeans, CallTypes
  <2>3. up /\ due[t] = <<>> /\ used' = used
        /\ UNCHANGED <<logger, plain, whitelist, base, unsure, lost>>
    BY <1>3 DEF Note, Ready
  <2>4. ~ChangesTrust(due'[t])
    BY <1>1, <2>2, <2>3 DEF ChangesTrust
  <2> QED
    BY <2>2, <2>3, <2>4 DEF TypeOK
<1>4. ASSUME NEW c \in Audits, Audit(t, c)
      PROVE  Goal
  <2>1. c \in Calls /\ c = [action |-> c.action, target |-> c.target, params |-> c.params]
    BY CallTypes
  <2>2. Due(t, c.action, c.target, c.params) /\ up /\ due[t] = <<>> /\ used' = used
        /\ unsure' = (IF ChangesTrust(c) THEN unsure \cup ({c.target} \cap Nodes) ELSE unsure)
        /\ UNCHANGED <<logger, plain, whitelist, base, lost>>
    BY <1>4 DEF Audit, Ready
  <2>3. [action |-> c.action, target |-> c.target, params |-> c.params] \in Calls
    BY <2>1
  <2>4. /\ due' \in [Threads -> Calls \cup {<<>>}]
        /\ up => due'[t] = [action |-> c.action, target |-> c.target, params |-> c.params]
        /\ \A u \in Threads \ {t} : due'[u] = due[u]
    BY <2>2, <2>3, DueMeans
  <2>5. due'[t] = c
    BY <2>1, <2>2, <2>4
  <2> QED
    BY <2>2, <2>4, <2>5 DEF TypeOK
<1> QED
  BY <1>2, <1>3, <1>4 DEF Quiet

\* The client's variables keep their types.
LEMMA TypeStep ==
    ASSUME TypeOK, HonestBase, Next
    PROVE  TypeOK'
<1>1. LogStep /\ LogType
  BY NextIsLogStep DEF TypeOK, LogType
<1>2. LogType' /\ Len(file) <= Len(file')
  BY <1>1, LogTypeStep DEF HonestBase, Ended
<1>3. Len(file) \in Nat /\ Len(file') \in Nat
  BY <1>1, <1>2 DEF LogType
<1>4. SUFFICES /\ plain' \in BOOLEAN
               /\ whitelist' \subseteq Nodes /\ unsure' \subseteq Nodes /\ lost' \subseteq Nodes
               /\ used' \subseteq Nodes
               /\ due' \in [Threads -> Calls \cup {<<>>}]
               /\ base' \in 0 .. Len(file')
  BY <1>2 DEF TypeOK, LogType
<1>5. base' = base => base' \in 0 .. Len(file')
  BY <1>2, <1>3 DEF TypeOK
<1>6. CASE MakeAudited
  BY <1>3, <1>6 DEF MakeAudited, TypeOK
<1>7. CASE MakePlain
  <2>1. plain' \in BOOLEAN
    BY <1>7, Zenon DEF MakePlain
  <2> QED
    BY <1>5, <1>7, <2>1 DEF MakePlain, TypeOK
<1>8. CASE Drop
  <2>1. plain' \in BOOLEAN
    BY <1>8, Zenon DEF Drop
  <2> QED
    BY <1>5, <1>8, <2>1 DEF Drop
<1>9. ASSUME NEW t \in Threads, NEW n \in Nodes, trust_add(t, n) \/ trust_remove(t, n)
      PROVE  <1>4!1
  <2>1. whitelist' \subseteq Nodes /\ unsure' \subseteq Nodes
    BY <1>9 DEF trust_add, trust_remove, Racing, TypeOK
  <2>2. due' \in [Threads -> Calls \cup {<<>>}]
    BY <1>9, DueMeans, CallTypes DEF trust_add, trust_remove
  <2> QED
    BY <1>5, <1>9, <2>1, <2>2 DEF trust_add, trust_remove, TypeOK
<1>10. ASSUME NEW t \in Threads, Quiet(t)
      PROVE  <1>4!1
  <2>1. due' \in [Threads -> Calls \cup {<<>>}] /\ unsure' \subseteq Nodes
        /\ used' \subseteq used \cup whitelist /\ UNCHANGED <<plain, whitelist, base, lost>>
    BY <1>10, QuietMeans
  <2> QED
    BY <1>5, <2>1 DEF TypeOK
<1>12. ASSUME NEW t \in Threads, Record(t)
      PROVE  <1>4!1
  <2>1. due[t] \in Calls
    BY <1>12 DEF Record, TypeOK
  <2>2. (IF ChangesTrust(due[t]) THEN {due[t].target} \cap Nodes ELSE {}) \subseteq Nodes
    OBVIOUS
  <2>3. unsure' \subseteq Nodes /\ lost' \subseteq Nodes
    BY <1>12, <2>2 DEF Record, TypeOK
  <2> QED
    BY <1>5, <1>12, <2>3 DEF Record, TypeOK
<1> QED
  BY <1>6, <1>7, <1>8, <1>9, <1>10, <1>12 DEF Next, Quiet

\* A new Client starts from nothing, and calls are made on one that exists.
LEMMA FreshStep ==
    ASSUME TypeOK, FreshClient, Next, ExactInv', TypeOK'
    PROVE  FreshClient'
<1>1. LogStep
  BY NextIsLogStep
<1>2. ~harmed' => ~harmed
  BY <1>1, HarmStays
<1>3. CASE MakeAudited
  <2>1. up' /\ ~plain' /\ base' = Len(file')
    BY <1>3 DEF MakeAudited, OpenExisting, OpenNew
  <2>2. ~harmed' => base' > 0
    <3>1. ~harmed' => file' # <<>>
      BY <2>1 DEF ExactInv
    <3>2. file' \in Seq(Lines)
      BY DEF TypeOK
    <3> QED
      BY <2>1, <3>1, <3>2
  <2> QED
    BY <2>1, <2>2 DEF FreshClient
<1>4. CASE MakePlain
  <2>1. ~up' /\ due' = due /\ plain' /\ used' = used
    BY <1>4 DEF MakePlain, logger
  <2>2. ~up
    BY <1>4 DEF MakePlain
  <2> QED
    BY <2>1, <2>2 DEF FreshClient
<1>5. CASE Drop
  <2>1. ~up' /\ ~plain' /\ whitelist' = {} /\ used' = {} /\ \A t \in Threads : due'[t] = <<>>
    BY <1>5 DEF Drop, Close, logger, FreshClient
  <2> QED
    BY <2>1 DEF FreshClient
<1>6. ASSUME NEW t \in Threads, NEW n \in Nodes, trust_add(t, n) \/ trust_remove(t, n)
      PROVE  FreshClient'
  <2>1. up' = up /\ plain' = plain /\ base' = base /\ (up \/ plain) /\ (~up => due' = due)
        /\ used' = used
    BY <1>6 DEF trust_add, trust_remove, Ready, Due, logger
  <2> QED
    BY <1>2, <2>1 DEF FreshClient
<1>7. ASSUME NEW t \in Threads, Quiet(t)
      PROVE  FreshClient'
  <2>1. up /\ UNCHANGED <<logger, plain, whitelist, base>>
    BY <1>7, QuietMeans
  <2> QED
    BY <1>2, <2>1 DEF FreshClient, logger
<1>9. ASSUME NEW t \in Threads, Record(t)
      PROVE  FreshClient'
  <2>1. up /\ up' = up /\ plain' = plain /\ base' = base
    BY <1>9 DEF Record, AppendOk, AppendLost, AppendFails, AppendNoOpen, Appending
  <2> QED
    BY <1>2, <2>1 DEF FreshClient
<1> QED
  BY <1>3, <1>4, <1>5, <1>6, <1>7, <1>9 DEF Next, Quiet

\* The two changes of trust: what thread t adds to or takes from the whitelist
\* is what it will record, and another's change of the same peer is remembered.
LEMMA ChangeMeans ==
    ASSUME TypeOK, NEW t \in Threads, NEW n \in Nodes, trust_add(t, n) \/ trust_remove(t, n), up
    PROVE  /\ due[t] = <<>> /\ ChangesTrust(due'[t]) /\ due'[t].target = n
           /\ due'[t] \in Calls /\ due'[t] # <<>>
           /\ due'[t].params \in {"add", "remove"}
           /\ (due'[t].params = "add") <=> n \in whitelist'
           /\ due'[t].params = "add" \/ whitelist' \subseteq whitelist
           /\ whitelist' \subseteq whitelist \cup {n}
           /\ \A u \in Threads \ {t} : due'[u] = due[u]
           /\ \A m \in Nodes \ {n} : /\ m \in whitelist' <=> m \in whitelist
                                     /\ m \in unsure' <=> m \in unsure
           /\ n \notin unsure' =>
                 \A u \in Threads \ {t} : ChangesTrust(due[u]) => due[u].target # n
<1>0. Racing(t, n) =>
        /\ \A m \in Nodes \ {n} : m \in unsure' <=> m \in unsure
        /\ n \notin unsure' => \A u \in Threads \ {t} : ChangesTrust(due[u]) => due[u].target # n
  BY DEF Racing
<1>1. CASE trust_add(t, n)
  <2>1. due'[t] = [action |-> "WhitelistUpdate", target |-> n, params |-> "add"]
        /\ due'[t] \in Calls /\ \A u \in Threads \ {t} : due'[u] = due[u]
    <3>1. [action |-> "WhitelistUpdate", target |-> n, params |-> "add"] \in Calls
      BY CallTypes
    <3>2. Due(t, "WhitelistUpdate", n, "add")
      BY <1>1 DEF trust_add
    <3> QED
      BY <3>1, <3>2, DueMeans
  <2>2. due'[t] # <<>>
    BY <2>1, CallIsCall
  <2>3. ChangesTrust(due'[t]) /\ due'[t].target = n /\ due'[t].params = "add"
    BY <2>1, <2>2 DEF ChangesTrust
  <2>4. due[t] = <<>> /\ whitelist' = whitelist \cup {n} /\ Racing(t, n)
    BY <1>1 DEF trust_add, Ready
  <2> QED
    BY <1>0, <2>1, <2>2, <2>3, <2>4
<1>2. CASE trust_remove(t, n)
  <2>1. due'[t] = [action |-> "WhitelistUpdate", target |-> n, params |-> "remove"]
        /\ due'[t] \in Calls /\ \A u \in Threads \ {t} : due'[u] = due[u]
    <3>1. [action |-> "WhitelistUpdate", target |-> n, params |-> "remove"] \in Calls
      BY CallTypes
    <3>2. Due(t, "WhitelistUpdate", n, "remove")
      BY <1>2 DEF trust_remove
    <3> QED
      BY <3>1, <3>2, DueMeans
  <2>2. due'[t] # <<>>
    BY <2>1, CallIsCall
  <2>3. ChangesTrust(due'[t]) /\ due'[t].target = n /\ due'[t].params = "remove"
    BY <2>1, <2>2 DEF ChangesTrust
  <2>4. due[t] = <<>> /\ whitelist' = whitelist \ {n} /\ Racing(t, n)
    BY <1>2 DEF trust_remove, Ready
  <2> QED
    BY <1>0, <2>1, <2>2, <2>3, <2>4
<1> QED
  BY <1>1, <1>2

\* A change that is due, and races with none, is what the whitelist shows.
LEMMA DueStep ==
    ASSUME TypeOK, FreshClient, DueAgrees, Next
    PROVE  DueAgrees'
<1>1. \A c : c = <<>> => ~ChangesTrust(c)
  BY DEF ChangesTrust
<1>2. CASE MakeAudited \/ MakePlain
  BY <1>2 DEF MakeAudited, MakePlain, DueAgrees, ChangesTrust
<1>3. CASE Drop
  <2>1. \A t \in Threads : due'[t] = <<>>
    BY <1>3 DEF Drop
  <2> QED
    BY <1>1, <2>1 DEF DueAgrees, ChangesTrust
<1>4. ASSUME NEW t \in Threads, NEW n \in Nodes, trust_add(t, n) \/ trust_remove(t, n)
      PROVE  DueAgrees'
  <2>1. CASE up
    <3>1. ASSUME NEW x \in Threads, ChangesTrust(due'[x]), due'[x].target \in Nodes \ unsure'
          PROVE  /\ due'[x].params \in {"add", "remove"}
                 /\ due'[x].params = "add" <=> due'[x].target \in whitelist'
                 /\ \A u \in Threads \ {x} : ChangesTrust(due'[u]) => due'[u].target # due'[x].target
      <4>1. CASE x = t
        BY <1>4, <2>1, <3>1, <4>1, ChangeMeans
      <4>2. CASE x # t
        <5>1. due'[x] = due[x] /\ due[x].target # n
          BY <1>4, <2>1, <3>1, <4>2, ChangeMeans
        <5>2. due[x].target \in Nodes
          BY <3>1, <5>1
        <5>3. due[x].target \notin unsure
              /\ (due[x].target \in whitelist' <=> due[x].target \in whitelist)
          BY <1>4, <2>1, <3>1, <5>1, <5>2, ChangeMeans
        <5>4. /\ due[x].params \in {"add", "remove"}
              /\ due[x].params = "add" <=> due[x].target \in whitelist
              /\ \A u \in Threads \ {x} : ChangesTrust(due[u]) => due[u].target # due[x].target
          BY <3>1, <5>1, <5>2, <5>3 DEF DueAgrees
        <5>5. \A u \in Threads \ {x} : ChangesTrust(due'[u]) => due'[u].target # due'[x].target
          BY <1>4, <2>1, <5>1, <5>4, ChangeMeans
        <5> QED
          BY <5>1, <5>3, <5>4, <5>5
      <4> QED
        BY <4>1, <4>2
    <3> QED
      BY <3>1 DEF DueAgrees, ChangesTrust
  <2>2. CASE ~up
    <3>1. due' = due /\ \A u \in Threads : due[u] = <<>>
      BY <1>4, <2>2 DEF trust_add, trust_remove, Due, FreshClient
    <3> QED
      BY <3>1, <1>1 DEF DueAgrees, ChangesTrust
  <2> QED
    BY <2>1, <2>2
<1>5. ASSUME NEW t \in Threads, Quiet(t)
      PROVE  DueAgrees'
  <2>1. /\ due[t] = <<>> /\ unsure \subseteq unsure' /\ whitelist' = whitelist
        /\ ChangesTrust(due'[t]) /\ due'[t].target \in Nodes => due'[t].target \in unsure'
        /\ \A u \in Threads \ {t} : due'[u] = due[u]
    BY <1>5, QuietMeans
  <2>2. ASSUME NEW x \in Threads, ChangesTrust(due'[x]), due'[x].target \in Nodes \ unsure'
        PROVE  /\ due'[x].params \in {"add", "remove"}
               /\ due'[x].params = "add" <=> due'[x].target \in whitelist'
               /\ \A u \in Threads \ {x} : ChangesTrust(due'[u]) => due'[u].target # due'[x].target
    <3>1. x # t /\ due'[x] = due[x] /\ due[x].target \in Nodes \ unsure
      BY <2>1, <2>2
    <3>2. /\ due[x].params \in {"add", "remove"}
          /\ due[x].params = "add" <=> due[x].target \in whitelist
          /\ \A u \in Threads \ {x} : ChangesTrust(due[u]) => due[u].target # due[x].target
      BY <2>2, <3>1 DEF DueAgrees
    <3>3. ASSUME NEW u \in Threads \ {x}, ChangesTrust(due'[u])
          PROVE  due'[u].target # due'[x].target
      <4>1. CASE u = t
        <5>1. due'[t].target \in Nodes => due'[t].target \in unsure'
          BY <2>1, <3>3, <4>1
        <5> QED
          BY <2>2, <4>1, <5>1
      <4>2. CASE u # t
        BY <2>1, <3>1, <3>2, <3>3, <4>2
      <4> QED
        BY <4>1, <4>2
    <3> QED
      BY <2>1, <3>1, <3>2, <3>3
  <2> QED
    BY <2>2 DEF DueAgrees, ChangesTrust
<1>6. ASSUME NEW t \in Threads, Record(t)
      PROVE  DueAgrees'
  <2>1. due'[t] = <<>> /\ \A u \in Threads \ {t} : due'[u] = due[u]
    BY <1>6 DEF Record, TypeOK
  <2>2. unsure \subseteq unsure' /\ whitelist' = whitelist
    BY <1>6 DEF Record
  <2> QED
    BY <1>1, <2>1, <2>2 DEF DueAgrees, ChangesTrust
<1> QED
  BY <1>2, <1>3, <1>4, <1>5, <1>6 DEF Next, Quiet

\* The records since the Client was made, after one more.
LEMMA SinceGrows ==
    ASSUME TypeOK, NEW e, file' = Append(file, e), base' = base
    PROVE  \E k \in Nat : /\ DOMAIN Since = 1 .. k /\ DOMAIN Since' = 1 .. (k + 1)
                          /\ Since'[k + 1] = e
                          /\ \A i \in 1 .. k : Since'[i] = Since[i]
<1> DEFINE n == Len(file)
           k == n - base
<1>1. n \in Nat /\ base \in 0 .. n /\ file \in Seq(Lines)
  BY DEF TypeOK
<1>2. k \in Nat
  BY <1>1
<1>3. Since = [i \in 1 .. k |-> file[base + i]]
  <2>1. Since = [i \in 1 .. (n - (base + 1) + 1) |-> file[i + (base + 1) - 1]]
    BY <1>1 DEF Since
  <2>2. n - (base + 1) + 1 = k /\ \A i \in 1 .. k : i + (base + 1) - 1 = base + i
    BY <1>1
  <2> HIDE DEF k
  <2> QED
    BY <2>1, <2>2
<1>4. Len(file') = n + 1 /\ file'[n + 1] = e /\ \A i \in 1 .. n : file'[i] = file[i]
  BY <1>1
<1>5. Since' = [i \in 1 .. (k + 1) |-> file'[base + i]]
  <2>1. Since' = [i \in 1 .. ((n + 1) - (base + 1) + 1) |-> file'[i + (base + 1) - 1]]
    BY <1>1, <1>4 DEF Since
  <2>2. (n + 1) - (base + 1) + 1 = k + 1 /\ \A i \in 1 .. (k + 1) : i + (base + 1) - 1 = base + i
    BY <1>1
  <2> HIDE DEF k
  <2> QED
    BY <2>1, <2>2
<1>6. \A i \in 1 .. k : base + i \in 1 .. n
  BY <1>1
<1>7. base + (k + 1) = n + 1
  BY <1>1
<1> HIDE DEF k, n
<1>8. DOMAIN Since = 1 .. k /\ DOMAIN Since' = 1 .. (k + 1)
  BY <1>3, <1>5
<1>9. Since'[k + 1] = e
  BY <1>2, <1>4, <1>5, <1>7
<1>10. \A i \in 1 .. k : Since'[i] = Since[i]
  <2> TAKE i \in 1 .. k
  <2>1. i \in 1 .. (k + 1)
    BY <1>2
  <2> QED
    BY <1>3, <1>4, <1>5, <1>6, <2>1
<1> QED
  BY <1>2, <1>8, <1>9, <1>10

\* The calls under way before a record was appended, and after.
LEMMA RecordMeans ==
    ASSUME LogInv, TypeOK, NEW t \in Threads, Record(t), ~harmed'
    PROVE  /\ due[t] \in Calls /\ due[t] # <<>> /\ due'[t] = <<>>
           /\ \A u \in Threads \ {t} : due'[u] = due[u]
           /\ up /\ base' = base /\ whitelist' = whitelist
           /\ \/ /\ AppendOk(due[t]) /\ unsure' = unsure /\ lost' = lost
                 /\ file' = Append(file, Event(seq + 1, due[t], prev))
              \/ /\ file' = file
                 /\ ChangesTrust(due[t]) /\ due[t].target \in Nodes => due[t].target \in unsure'
                 /\ \A n \in Nodes : Says(due[t], "add", n) => n \in lost'
                 /\ unsure \subseteq unsure' /\ lost \subseteq lost'
<1>1. due[t] \in Calls /\ due[t] # <<>>
  BY DEF Record, TypeOK
<1>2. due'[t] = <<>> /\ \A u \in Threads \ {t} : due'[u] = due[u]
  BY DEF Record, TypeOK
<1>3. up /\ base' = base /\ whitelist' = whitelist
  BY DEF Record, AppendOk, AppendLost, AppendFails, AppendNoOpen, Appending
<1>4. ~AppendLost(due[t]) /\ ~AppendFails(due[t])
  BY DEF AppendLost, AppendFails
<1>5. CASE AppendOk(due[t]) /\ unsure' = unsure /\ lost' = lost
  <2>1. file' = Append(file, Event(seq + 1, due[t], prev))
    BY <1>1, <1>5, PutExact
  <2> QED
    BY <1>1, <1>2, <1>3, <1>5, <2>1
<1>6. CASE ~(AppendOk(due[t]) /\ unsure' = unsure /\ lost' = lost)
  <2> DEFINE n == IF ChangesTrust(due[t]) THEN {due[t].target} \cap Nodes ELSE {}
  <2>1. AppendNoOpen /\ unsure' = unsure \cup n
        /\ lost' = IF due[t].params = "add" THEN lost \cup n ELSE lost
    BY <1>4, <1>6 DEF Record
  <2>2. file' = file
    BY <2>1 DEF AppendNoOpen
  <2>5. \A m \in Nodes : Says(due[t], "add", m) => m \in lost'
    BY <2>1 DEF Says
  <2>6. ChangesTrust(due[t]) /\ due[t].target \in Nodes => due[t].target \in unsure'
    BY <2>1
  <2>7. unsure \subseteq unsure' /\ lost \subseteq lost'
    BY <2>1
  <2> QED
    BY <1>1, <1>2, <1>3, <2>2, <2>5, <2>6, <2>7
<1> QED
  BY <1>5, <1>6

\* Without one more record, the log says the same.
LEMMA SinceSame ==
    ASSUME file' = file, base' = base
    PROVE  Since' = Since /\ TrustLogged' = TrustLogged
  BY DEF Since, TrustLogged

\* A new Client's log says nothing yet.
LEMMA SinceFresh ==
    ASSUME TypeOK', base' = Len(file')
    PROVE  DOMAIN Since' = {} /\ TrustLogged' = {}
<1>1. Len(file') \in Nat /\ file' \in Seq(Lines)
  BY DEF TypeOK
<1>2. Since' = <<>>
  BY <1>1 DEF Since
<1>3. DOMAIN Since' = {}
  BY <1>2
<1> QED
  BY <1>3 DEF TrustLogged

\* What one more record does to what the log says of peer n.
LEMMA LoggedGrows ==
    ASSUME TypeOK, NEW c \in Calls, NEW n \in Nodes,
           file' = Append(file, Event(seq + 1, c, prev)), base' = base
    PROVE  /\ Says(c, "add", n) => n \in TrustLogged'
           /\ Says(c, "remove", n) => n \notin TrustLogged'
           /\ ~(ChangesTrust(c) /\ c.target = n) => (n \in TrustLogged' <=> n \in TrustLogged)
<1> DEFINE e == Event(seq + 1, c, prev)
           S == Since
           T == Since'
           Adds(s, i) == Says(s[i], "add", n)
           Takes(s, j) == Says(s[j], "remove", n)
<1>1. \A p : Says(e, p, n) <=> Says(c, p, n)
  BY EventSays
<1> HIDE DEF e
<1>2. PICK k \in Nat : /\ DOMAIN S = 1 .. k /\ DOMAIN T = 1 .. (k + 1)
                       /\ T[k + 1] = e /\ \A i \in 1 .. k : T[i] = S[i]
  <2>1. file' = Append(file, e)
    BY DEF e
  <2> QED
    BY <2>1, SinceGrows
<1>3. n \in TrustLogged <=> \E i \in DOMAIN S : Adds(S, i) /\ \A j \in DOMAIN S : j > i => ~Takes(S, j)
  BY DEF TrustLogged
<1>4. n \in TrustLogged' <=> \E i \in DOMAIN T : Adds(T, i) /\ \A j \in DOMAIN T : j > i => ~Takes(T, j)
  BY DEF TrustLogged, Says, ChangesTrust
<1>5. Says(c, "add", n) => ~Says(c, "remove", n)
  BY DEF Says
<1> HIDE DEF S, T
<1>6. k + 1 \in 1 .. (k + 1) /\ \A i \in 1 .. k : i \in 1 .. (k + 1) /\ k + 1 > i
  BY <1>2
<1>7. \A j \in 1 .. (k + 1) : j \in 1 .. k \/ j = k + 1
  BY <1>2
<1>8. ASSUME Says(c, "add", n) PROVE n \in TrustLogged'
  <2>1. Adds(T, k + 1)
    BY <1>1, <1>2, <1>8
  <2>2. \A j \in 1 .. (k + 1) : ~(j > k + 1)
    BY <1>2
  <2> QED
    BY <1>2, <1>4, <1>6, <2>1, <2>2
<1>9. ASSUME Says(c, "remove", n) PROVE n \notin TrustLogged'
  <2>1. Takes(T, k + 1) /\ ~Adds(T, k + 1)
    BY <1>1, <1>2, <1>5, <1>9
  <2> QED
    BY <1>2, <1>4, <1>6, <1>7, <2>1
<1>10. ASSUME ~(ChangesTrust(c) /\ c.target = n) PROVE n \in TrustLogged' <=> n \in TrustLogged
  <2>1. ~Takes(T, k + 1) /\ ~Adds(T, k + 1)
    <3>1. \A p : ~Says(c, p, n)
      BY <1>10 DEF Says
    <3> QED
      BY <1>1, <1>2, <3>1
  <2>2. \A i \in 1 .. k : (Adds(T, i) <=> Adds(S, i)) /\ (Takes(T, i) <=> Takes(S, i))
    BY <1>2
  <2> HIDE DEF Adds, Takes
  <2> QED
    BY <1>2, <1>3, <1>4, <1>6, <1>7, <2>1, <2>2
<1> QED
  BY <1>8, <1>9, <1>10

\* The log accounts for the whitelist.
LEMMA TrustStep ==
    ASSUME LogInv, TypeOK, FreshClient, DueAgrees, WhitelistRecorded, Next, TypeOK'
    PROVE  WhitelistRecorded'
<1> SUFFICES ASSUME up', ~harmed', NEW n \in Nodes \ unsure',
                    \A t \in Threads : ChangesTrust(due'[t]) => due'[t].target # n
             PROVE  n \in whitelist' <=> n \in TrustLogged'
  BY DEF WhitelistRecorded, ChangesTrust
<1>1. ~harmed
  BY NextIsLogStep, HarmStays
<1>2. \A c : c = <<>> => ~ChangesTrust(c)
  BY DEF ChangesTrust
<1>3. up /\ n \notin unsure /\ (\A t \in Threads : ChangesTrust(due[t]) => due[t].target # n)
      => (n \in whitelist <=> n \in TrustLogged)
  BY <1>1 DEF WhitelistRecorded
<1>4. CASE MakeAudited
  <2>1. whitelist' = {} /\ base' = Len(file')
    BY <1>4 DEF MakeAudited, OpenExisting, OpenNew, FreshClient
  <2> QED
    BY <2>1, SinceFresh
<1>5. CASE MakePlain
  BY <1>5 DEF MakePlain, logger
<1>6. CASE Drop
  BY <1>6 DEF Drop, Close, logger, FreshClient
<1>7. ASSUME NEW t \in Threads, NEW m \in Nodes, trust_add(t, m) \/ trust_remove(t, m)
      PROVE  n \in whitelist' <=> n \in TrustLogged'
  <2>1. file' = file /\ base' = base /\ up
    BY <1>7 DEF trust_add, trust_remove, logger
  <2>2. m # n
    BY <1>7, <2>1, ChangeMeans
  <2>3. n \notin unsure /\ (n \in whitelist' <=> n \in whitelist)
    BY <1>7, <2>1, <2>2, ChangeMeans
  <2>4. \A u \in Threads : ChangesTrust(due[u]) => due[u].target # n
    BY <1>2, <1>7, <2>1, ChangeMeans
  <2> QED
    BY <1>3, <2>1, <2>3, <2>4, SinceSame
<1>8. ASSUME NEW t \in Threads, Quiet(t)
      PROVE  n \in whitelist' <=> n \in TrustLogged'
  <2>1. up /\ UNCHANGED <<logger, whitelist, base>> /\ due[t] = <<>> /\ unsure \subseteq unsure'
        /\ \A u \in Threads \ {t} : due'[u] = due[u]
    BY <1>8, QuietMeans
  <2>2. file' = file
    BY <2>1 DEF logger
  <2>3. \A u \in Threads : ChangesTrust(due[u]) => due[u].target # n
    BY <1>2, <2>1
  <2> QED
    BY <1>3, <2>1, <2>2, <2>3, SinceSame
<1>9. ASSUME NEW t \in Threads, Record(t)
      PROVE  n \in whitelist' <=> n \in TrustLogged'
  <2>1. due[t] \in Calls /\ up /\ base' = base /\ whitelist' = whitelist
        /\ \A u \in Threads \ {t} : due'[u] = due[u]
    BY <1>9, RecordMeans
  <2>2. \A u \in Threads \ {t} : ChangesTrust(due[u]) => due[u].target # n
    BY <2>1
  <2>3. CASE unsure' = unsure /\ file' = Append(file, Event(seq + 1, due[t], prev))
    <3>1. CASE ChangesTrust(due[t]) /\ due[t].target = n
      <4>1. /\ due[t].params \in {"add", "remove"}
            /\ due[t].params = "add" <=> n \in whitelist
        BY <2>3, <3>1 DEF DueAgrees
      <4>2. n \in TrustLogged' <=> due[t].params = "add"
        BY <2>1, <2>3, <3>1, <4>1, LoggedGrows DEF Says
      <4> QED
        BY <2>1, <4>1, <4>2
    <3>2. CASE ~(ChangesTrust(due[t]) /\ due[t].target = n)
      <4>1. n \in TrustLogged' <=> n \in TrustLogged
        BY <2>1, <2>3, <3>2, LoggedGrows
      <4> QED
        BY <1>3, <2>1, <2>2, <2>3, <3>2, <4>1
    <3> QED
      BY <3>1, <3>2
  <2>4. CASE /\ file' = file /\ unsure \subseteq unsure'
             /\ ChangesTrust(due[t]) /\ due[t].target \in Nodes => due[t].target \in unsure'
    BY <1>3, <2>1, <2>2, <2>4, SinceSame
  <2> QED
    BY <1>9, <2>3, <2>4, RecordMeans
<1> QED
  BY <1>4, <1>5, <1>6, <1>7, <1>8, <1>9 DEF Next, Quiet

\* A peer that was added stays accounted for while the Client lives.
LEMMA AddedStays ==
    ASSUME LogInv, TypeOK, FreshClient, Next, ~MakeAudited,
           up', ~harmed', NEW n, n \in Added
    PROVE  n \in Added'
<1>1. \/ n \in Nodes /\ \E i \in DOMAIN Since' : Says(Since'[i], "add", n)
      \/ n \in Nodes /\ \E t \in Threads : Says(due'[t], "add", n)
      \/ n \in lost'
      => n \in Added'
  BY DEF Added, Says, ChangesTrust
<1>2. \/ n \in Nodes /\ \E i \in DOMAIN Since : Says(Since[i], "add", n)
      \/ n \in Nodes /\ \E t \in Threads : Says(due[t], "add", n)
      \/ n \in lost
  BY DEF Added
<1>3. \A c : c = <<>> => ~Says(c, "add", n)
  BY DEF Says, ChangesTrust
<1>4. ASSUME Since' = Since, lost \subseteq lost',
             \A t \in Threads : due[t] # <<>> => due'[t] = due[t]
      PROVE  n \in Added'
  BY <1>1, <1>2, <1>3, <1>4
<1>5. CASE MakePlain
  BY <1>4, <1>5, SinceSame DEF MakePlain, logger
<1>6. ~Drop
  BY DEF Drop, Close, logger, FreshClient
<1>7. ASSUME NEW t \in Threads, NEW m \in Nodes, trust_add(t, m) \/ trust_remove(t, m)
      PROVE  n \in Added'
  <2>1. file' = file /\ base' = base /\ lost' = lost /\ up
    BY <1>7 DEF trust_add, trust_remove, logger
  <2>2. \A u \in Threads : due[u] # <<>> => due'[u] = due[u]
    BY <1>7, <2>1, ChangeMeans
  <2> QED
    BY <1>4, <2>1, <2>2, SinceSame
<1>8. ASSUME NEW t \in Threads, Quiet(t)
      PROVE  n \in Added'
  <2>1. UNCHANGED <<logger, base, lost>>
        /\ \A u \in Threads : due[u] # <<>> => due'[u] = due[u]
    BY <1>8, QuietMeans
  <2> QED
    BY <1>4, <2>1, SinceSame DEF logger
<1>9. ASSUME NEW t \in Threads, Record(t)
      PROVE  n \in Added'
  <2>1. due[t] \in Calls /\ base' = base /\ \A u \in Threads \ {t} : due'[u] = due[u]
    BY <1>9, RecordMeans
  <2>2. CASE lost' = lost /\ file' = Append(file, Event(seq + 1, due[t], prev))
    <3> DEFINE e == Event(seq + 1, due[t], prev)
    <3>1. Says(e, "add", n) <=> Says(due[t], "add", n)
      BY <2>1, EventSays
    <3> HIDE DEF e
    <3>2. PICK k \in Nat : /\ DOMAIN Since = 1 .. k /\ DOMAIN Since' = 1 .. (k + 1)
                           /\ Since'[k + 1] = e /\ \A i \in 1 .. k : Since'[i] = Since[i]
      <4>1. file' = Append(file, e)
        BY <2>2 DEF e
      <4> QED
        BY <2>1, <4>1, SinceGrows
    <3>3. k + 1 \in 1 .. (k + 1) /\ \A i \in 1 .. k : i \in 1 .. (k + 1)
      BY <3>2
    <3>4. CASE n \in Nodes /\ \E i \in DOMAIN Since : Says(Since[i], "add", n)
      BY <1>1, <3>2, <3>3, <3>4
    <3>5. CASE n \in Nodes /\ \E u \in Threads : Says(due[u], "add", n)
      <4>1. PICK u \in Threads : Says(due[u], "add", n)
        BY <3>5
      <4>2. CASE u = t
        BY <1>1, <3>1, <3>2, <3>3, <3>5, <4>1, <4>2
      <4>3. CASE u # t
        BY <1>1, <2>1, <3>5, <4>1, <4>3
      <4> QED
        BY <4>2, <4>3
    <3>6. CASE n \in lost
      BY <1>1, <2>2, <3>6
    <3> QED
      BY <1>2, <3>4, <3>5, <3>6
  <2>3. CASE /\ file' = file /\ lost \subseteq lost'
             /\ \A m \in Nodes : Says(due[t], "add", m) => m \in lost'
    <3>1. Since' = Since
      BY <2>1, <2>3, SinceSame
    <3>2. ASSUME n \in Nodes, NEW u \in Threads, Says(due[u], "add", n) PROVE n \in Added'
      <4>1. CASE u = t
        BY <1>1, <2>3, <3>2, <4>1
      <4>2. CASE u # t
        BY <1>1, <2>1, <3>2, <4>2
      <4> QED
        BY <4>1, <4>2
    <3> QED
      BY <1>1, <1>2, <2>3, <3>1, <3>2
  <2> QED
    BY <1>9, <2>2, <2>3, RecordMeans
<1> QED
  BY <1>5, <1>6, <1>7, <1>8, <1>9 DEF Next, Quiet

\* Peers that may be used, or were, were added.
LEMMA AddStep ==
    ASSUME LogInv, TypeOK, FreshClient, UsableAdded, Next
    PROVE  UsableAdded'
<1> SUFFICES ASSUME up', ~harmed'
             PROVE  whitelist' \cup used' \subseteq Added'
  BY DEF UsableAdded
<1>1. CASE MakeAudited
  BY <1>1 DEF MakeAudited, OpenExisting, OpenNew, FreshClient
<1>2. ASSUME ~MakeAudited PROVE whitelist' \cup used' \subseteq Added'
  <2>1. ~harmed
    BY NextIsLogStep, HarmStays
  <2>2. \A n : n \in Added => n \in Added'
    BY <1>2, AddedStays
  <2>3. up => whitelist \cup used \subseteq Added
    BY <2>1 DEF UsableAdded
  <2>4. CASE MakePlain
    BY <2>4 DEF MakePlain, logger
  <2>5. CASE Drop
    BY <2>5 DEF Drop, Close, logger, FreshClient
  <2>6. ASSUME NEW t \in Threads, NEW m \in Nodes, trust_add(t, m) \/ trust_remove(t, m)
        PROVE  whitelist' \cup used' \subseteq Added'
    <3>1. up /\ used' = used
      BY <2>6 DEF trust_add, trust_remove, logger
    <3>2. due'[t].target = m /\ ChangesTrust(due'[t])
          /\ (due'[t].params = "add" \/ whitelist' \subseteq whitelist)
          /\ whitelist' \subseteq whitelist \cup {m}
      BY <2>6, <3>1, ChangeMeans
    <3>3. due'[t].params = "add" => m \in Added'
      BY <2>6, <3>2 DEF Added, Says, ChangesTrust
    <3> QED
      BY <2>2, <2>3, <3>1, <3>2, <3>3
  <2>7. ASSUME NEW t \in Threads, Quiet(t)
        PROVE  whitelist' \cup used' \subseteq Added'
    <3>1. up /\ whitelist' = whitelist /\ used' \subseteq used \cup whitelist
      BY <2>7, QuietMeans
    <3> QED
      BY <2>2, <2>3, <3>1
  <2>8. ASSUME NEW t \in Threads, Record(t)
        PROVE  whitelist' \cup used' \subseteq Added'
    <3>1. up /\ whitelist' = whitelist /\ used' = used
      BY <2>8, RecordMeans DEF Record
    <3> QED
      BY <2>2, <2>3, <3>1
  <2> QED
    BY <1>2, <2>4, <2>5, <2>6, <2>7, <2>8 DEF Next, Quiet
<1> QED
  BY <1>1, <1>2

-----------------------------------------------------------------------------
(* The invariant and what follows from it.                                 *)

\* Nothing has been logged, nobody is trusted.
LEMMA ClientInit ==
    ASSUME SdkInit PROVE ClientInv
<1>1. TypeOK
  <2>1. up \in BOOLEAN /\ harmed \in BOOLEAN /\ plain \in BOOLEAN
    BY Zenon DEF SdkInit, Init
  <2>2. file = <<>> /\ seq = 0 /\ prev = <<>> /\ genesis = 0 /\ acked = <<>> /\ base = 0
        /\ appends = 0 /\ opens = 0 /\ faults = 0
    BY DEF SdkInit, Init
  <2>3. prev \in Hashes /\ base \in 0 .. Len(file)
    BY <2>2 DEF Hashes
  <2>4. due \in [Threads -> Calls \cup {<<>>}]
    BY DEF SdkInit
  <2> QED
    BY <2>1, <2>2, <2>3, <2>4, AuditAssumption DEF SdkInit, TypeOK
<1>2. file = <<>> /\ ~up /\ acked = <<>> /\ \A t \in Threads : due[t] = <<>>
  BY DEF SdkInit, Init
<1>3. verify_chain(file) # "true" /\ 2 .. Len(file) = {} /\ 1 .. Len(file) = {}
  BY <1>2 DEF verify_chain
<1>4. RecordsExact /\ ExactInv /\ HonestBase /\ InStep
  <2>1. Base(file) = file /\ 1 .. Len(file) - 1 = {}
    BY <1>2 DEF Base
  <2> QED
    BY <1>2, <1>3, <2>1 DEF RecordsExact, ExactInv, HonestBase, Honest, InStep
<1>5. FreshClient /\ DueAgrees
  BY <1>2 DEF SdkInit, FreshClient, DueAgrees, ChangesTrust
<1>6. WhitelistRecorded /\ UsableAdded
  BY <1>2 DEF WhitelistRecorded, UsableAdded
<1> QED
  BY <1>1, <1>4, <1>5, <1>6 DEF ClientInv

\* Every step of the client keeps the invariant.
LEMMA ClientStep ==
    ASSUME ClientInv, [Next]_vars PROVE ClientInv'
<1>1. CASE Next
  <2>1. LogInv /\ LogStep
    BY <1>1, NextIsLogStep DEF ClientInv, LogInv, TypeOK, LogType
  <2>2. TypeOK'
    BY <1>1, TypeStep DEF ClientInv
  <2>3. HonestBase' /\ InStep'
    BY <2>1, ChainStep
  <2>4. RecordsExact' /\ ExactInv'
    BY <2>1, ExactStep
  <2>5. FreshClient'
    BY <1>1, <2>2, <2>4, FreshStep DEF ClientInv
  <2>6. DueAgrees'
    BY <1>1, DueStep DEF ClientInv
  <2>7. WhitelistRecorded'
    BY <1>1, <2>1, <2>2, TrustStep DEF ClientInv
  <2>8. UsableAdded'
    BY <1>1, <2>1, AddStep DEF ClientInv
  <2> QED
    BY <2>2, <2>3, <2>4, <2>5, <2>6, <2>7, <2>8 DEF ClientInv
<1>2. CASE UNCHANGED vars
  <2>1. UNCHANGED <<file, up, seq, prev, genesis, acked, harmed, appends, opens, faults>>
    BY <1>2 DEF vars, logger, counts
  <2>2. UNCHANGED <<plain, whitelist, due, base, unsure, lost, used>>
    BY <1>2 DEF vars
  <2>3. TypeOK'
    BY <2>1, <2>2 DEF ClientInv, TypeOK
  <2>4. (RecordsExact /\ ExactInv /\ HonestBase /\ InStep)'
    BY <2>1, <2>2 DEF ClientInv, RecordsExact, ExactInv, HonestBase, Honest, InStep, Recorded
  <2>5. (FreshClient /\ DueAgrees)'
    BY <2>1, <2>2 DEF ClientInv, FreshClient, DueAgrees, ChangesTrust
  <2>6. Since' = Since /\ TrustLogged' = TrustLogged
    BY <2>1, <2>2, SinceSame
  <2>7. Added' = Added
    BY <2>2, <2>6 DEF Added, Says, ChangesTrust
  <2>8. WhitelistRecorded'
    BY <2>1, <2>2, <2>6 DEF ClientInv, WhitelistRecorded, ChangesTrust
  <2>9. UsableAdded'
    BY <2>1, <2>2, <2>7 DEF ClientInv, UsableAdded
  <2> QED
    BY <2>3, <2>4, <2>5, <2>8, <2>9 DEF ClientInv
<1> QED
  BY <1>1, <1>2

\* Log, logger, whitelist and the records that are due agree at every step, for
\* any number of threads and peers, any restarts and any failures of the file.
THEOREM ClientInvariant == Spec => []ClientInv
<1>1. SdkInit => ClientInv
  BY ClientInit
<1>2. ClientInv /\ [Next]_vars => ClientInv'
  BY ClientStep
<1> QED
  BY <1>1, <1>2, PTL DEF Spec

\* As long as no write fails and no field is barred or of several lines, the
\* file holds the acknowledged events, each once and in order, and verify_chain
\* accepts it, over any number of restarts.
THEOREM LogIsExact == Spec => []RecordsExact
<1>1. ClientInv => RecordsExact
  BY DEF ClientInv
<1> QED
  BY <1>1, ClientInvariant, PTL

\* Whatever fails: a log that verify_chain accepts numbers its events in
\* ascending order and holds none that append did not acknowledge, under its
\* number or one with digits in front.
THEOREM ChainIsHonest == Spec => []VerifiedIsHonest
<1>1. ClientInv => VerifiedIsHonest
  BY HonestFile DEF ClientInv, TypeOK
<1> QED
  BY <1>1, ClientInvariant, PTL

\* verify_chain notices a missing record and two exchanged ones.
THEOREM ChainShowsGaps == Spec => []GapsDetected
<1>1. ClientInv => GapsDetected
  BY GapsShow DEF ClientInv, TypeOK
<1> QED
  BY <1>1, ClientInvariant, PTL

\* As long as the log's writes succeed, the records lead to the whitelist, for
\* every peer whose last change is recorded, did not race with another one, and
\* was not followed by one that a caller of Client::audit made up.
THEOREM WhitelistIsRecorded == Spec => []WhitelistRecorded
<1>1. ClientInv => WhitelistRecorded
  BY DEF ClientInv
<1> QED
  BY <1>1, ClientInvariant, PTL

\* As long as the log's writes succeed, whoever the Client let be used was added
\* by a call that is recorded, about to be, or whose append failed.
THEOREM UsedPeersWereAdded == Spec => []UsesAccounted
<1>1. ClientInv => UsesAccounted
  BY DEF ClientInv, UsableAdded, UsesAccounted
<1> QED
  BY <1>1, ClientInvariant, PTL
=============================================================================
