-------------------------- MODULE DiscoveryProofs --------------------------
(***************************************************************************)
(* Discovery, for any number of hosts, nonces and frames under way and any *)
(* window, gap and period: the registry is authentic, and a frame          *)
(* registers once per window.                                              *)
(*                                                                         *)
(* And the life cycle of Scanner and Advertiser, for any number of calling *)
(* threads and both orders of closing and joining: while start() and       *)
(* stop() do not overlap, neither assigns over a joinable thread, joins    *)
(* one twice, or returns too early.                                        *)
(***************************************************************************)
EXTENDS Discovery, DiscoveryLifecycle, TLAPS

-----------------------------------------------------------------------------
(* The protocol.                                                           *)

\* Ages advance to their limit; one that has reached it stays.
LEMMA OlderAge ==
    ASSUME NEW max \in Nat, NEW age \in {None} \cup 0 .. max, None \notin 0 .. max
    PROVE  /\ Older(age, max) \in {None} \cup 0 .. max
           /\ Older(age, max) = None <=> age = None
           /\ age \in 0 .. max => Older(age, max) \in 0 .. max
           /\ age = max => Older(age, max) = max
           /\ Older(age, max) = 0 => age = max
<1>1. CASE age = None
  BY <1>1 DEF Older
<1>2. CASE age \in 0 .. max
  <2>1. Older(age, max) = IF age < max THEN age + 1 ELSE max
    BY <1>2 DEF Older
  <2>2. Older(age, max) \in 0 .. max
    BY <1>2, <2>1
  <2> QED
    BY <1>2, <2>1, <2>2
<1> QED
  BY <1>1, <1>2

\* Nobody has announced anything.
LEMMA DiscoveryInit ==
    ASSUME Init PROVE DiscoveryInv
<1>1. TypeOK
  BY DiscoveryAssumption DEF Init, TypeOK, Ages, LongAgo
<1>2. FramesTrue /\ RegistryAuthentic /\ Remembered
  BY DEF Init, FramesTrue, RegistryAuthentic, Remembered
<1> QED
  BY <1>1, <1>2 DEF DiscoveryInv

\* What the limiter's variables may hold.
LimiterOK ==
    /\ since \in [Hosts -> 0 .. LongAgo] /\ sleep \in [Hosts -> 0 .. Period]
    /\ reading \in [Hosts -> [Callers -> {None} \cup 0 .. MaxDelay]]
    /\ passed \subseteq {x \in Hosts \X Callers : reading[x[1]][x[2]] # None}
    /\ recent \in [Hosts -> [0 .. MinGap - 1 -> Nat]]

\* Reading the clock, testing and storing keep to the types.
LEMMA LimiterStep ==
    ASSUME TypeOK, NEW h \in Hosts, NEW c \in Callers, Broadcast(h, c)
    PROVE  LimiterOK'
<1>1. LimiterOK /\ 0 \in 0 .. MaxDelay /\ Period \in 0 .. Period /\ None \notin 0 .. MaxDelay
      /\ MaxDelay \in Nat /\ MinGap \in Nat
  BY DiscoveryAssumption DEF TypeOK, LimiterOK
<1>2. CASE Called(h, c)
  <2>1. UNCHANGED <<since, sleep, passed, recent>> /\ reading' = [reading EXCEPT ![h][c] = 0]
    BY <1>2 DEF Called
  <2> QED
    BY <1>1, <2>1 DEF LimiterOK
<1>3. CASE RateCheck(h, c)
  <2>1. UNCHANGED <<since, sleep, reading>> /\ passed' = passed \cup {<<h, c>>}
        /\ reading[h][c] # None
    BY <1>3 DEF RateCheck, Tests
  <2>2. recent' \in [Hosts -> [0 .. MinGap - 1 -> Nat]]
    <3>1. CASE reading[h][c] < MinGap
      <4>1. reading[h][c] \in 0 .. MinGap - 1
        BY <1>1, <2>1, <3>1 DEF LimiterOK
      <4>2. recent' = [recent EXCEPT ![h][reading[h][c]] = recent[h][reading[h][c]] + 1]
        BY <1>3, <3>1 DEF RateCheck
      <4>3. recent[h][reading[h][c]] + 1 \in Nat
        BY <1>1, <4>1 DEF LimiterOK
      <4> QED
        BY <1>1, <4>1, <4>2, <4>3 DEF LimiterOK
    <3>2. CASE ~(reading[h][c] < MinGap)
      BY <1>1, <1>3, <3>2 DEF RateCheck, LimiterOK
    <3> QED
      BY <3>1, <3>2
  <2> QED
    BY <1>1, <2>1, <2>2 DEF LimiterOK
<1>4. CASE RateLimited(h, c)
  <2>1. UNCHANGED <<since, passed, recent>> /\ reading' = [reading EXCEPT ![h][c] = None]
        /\ <<h, c>> \notin passed /\ sleep' \in {sleep, [sleep EXCEPT ![h] = Period]}
    BY <1>4 DEF RateLimited, Tests, Slept
  <2>2. reading' \in [Hosts -> [Callers -> {None} \cup 0 .. MaxDelay]]
    BY <1>1, <2>1 DEF LimiterOK
  <2>3. passed' \subseteq {x \in Hosts \X Callers : reading'[x[1]][x[2]] # None}
    <3> SUFFICES ASSUME NEW x \in passed
                 PROVE  x \in Hosts \X Callers /\ reading'[x[1]][x[2]] # None
      BY <2>1
    <3>1. /\ x \in Hosts \X Callers /\ reading[x[1]][x[2]] # None
          /\ x = <<x[1], x[2]>> /\ x[1] \in Hosts /\ x[2] \in Callers
      BY <1>1 DEF LimiterOK
    <3>2. x[1] # h \/ x[2] # c
      BY <2>1, <3>1
    <3>3. reading'[x[1]][x[2]] = reading[x[1]][x[2]]
      BY <1>1, <2>1, <3>1, <3>2 DEF LimiterOK
    <3> QED
      BY <3>1, <3>3
  <2>4. sleep' \in [Hosts -> 0 .. Period]
    BY <1>1, <2>1 DEF LimiterOK
  <2> QED
    BY <1>1, <2>1, <2>2, <2>3, <2>4 DEF LimiterOK
<1>5. CASE Send(h, c)
  <2>1. /\ <<h, c>> \in passed /\ passed' = passed \ {<<h, c>>} /\ recent' = recent
        /\ since' = [since EXCEPT ![h] = reading[h][c]]
        /\ reading' = [reading EXCEPT ![h][c] = None]
        /\ sleep' \in {sleep, [sleep EXCEPT ![h] = Period]}
    BY <1>5 DEF Send, Slept
  <2>2. reading[h][c] \in 0 .. MaxDelay
    BY <1>1, <2>1 DEF LimiterOK
  <2>3. reading[h][c] \in 0 .. LongAgo
    BY <1>1, <2>2 DEF LongAgo
  <2> QED
    BY <1>1, <2>1, <2>3 DEF LimiterOK
<1> QED
  BY <1>2, <1>3, <1>4, <1>5 DEF Broadcast, SendOk, SendLost

\* broadcast_once: the limiter's clock reading and test, and the send behind it.
LEMMA BroadcastStep ==
    ASSUME DiscoveryInv, UNCHANGED setup, NEW h \in Hosts, NEW c \in Callers, Broadcast(h, c)
    PROVE  DiscoveryInv'
<1> USE DEF DiscoveryInv
<1>1. UNCHANGED <<peers, named, ver, seen, registry>>
  BY DEF setup, Broadcast, Called, RateCheck, RateLimited, SendOk, SendLost, Send
<1>2. RegistryAuthentic' /\ LimiterOK'
  BY <1>1, LimiterStep DEF RegistryAuthentic
<1>3. CASE UNCHANGED <<net, applied>>
  BY <1>1, <1>2, <1>3 DEF TypeOK, LimiterOK, FramesTrue, Remembered
<1>4. CASE SendOk(h, c)
  <2>1. PICK n \in Fresh :
            /\ net' = net \cup {[host |-> h, ver |-> ver[h], nonce |-> n, intact |-> TRUE]}
            /\ applied' = [applied EXCEPT ![n] = None]
    BY <1>4 DEF SendOk
  <2>2. n \in Nonces
    BY <2>1 DEF Fresh
  <2> DEFINE f == [host |-> h, ver |-> ver[h], nonce |-> n, intact |-> TRUE]
  <2>3. f \in Frames /\ f.host = h /\ f.ver = ver[h] /\ ver[h] \in 0 .. ver[h]
    BY <2>2 DEF Frames, TypeOK
  <2> HIDE DEF f
  <2>4. net' = net \cup {f}
    BY <2>1 DEF f
  <2>5. TypeOK'
    BY <1>1, <1>2, <2>1, <2>2, <2>3, <2>4 DEF TypeOK, LimiterOK, Ages
  <2>6. FramesTrue'
    BY <1>1, <2>3, <2>4 DEF FramesTrue
  <2>7. Remembered'
    BY <1>1, <2>1, <2>2 DEF Remembered, TypeOK
  <2> QED
    BY <1>2, <2>5, <2>6, <2>7
<1> QED
  BY <1>3, <1>4 DEF Broadcast, Called, RateCheck, RateLimited, SendLost

\* handle_frame: purge, look the nonce up, check the MAC, register.
LEMMA ReceiveStep ==
    ASSUME DiscoveryInv, UNCHANGED setup, NEW f \in net, Receive(f)
    PROVE  /\ DiscoveryInv'
           /\ \A n \in Nonces : applied'[n] = 0 /\ applied[n] # 0 => applied[n] \in {None, Window + 1}
<1> USE DEF DiscoveryInv
<1>1. UNCHANGED <<peers, named, ver, since, sleep, reading, passed, recent>> /\ net' \subseteq net
  BY DEF setup, calls, limiter, Receive, ReceiveRepeated, ReceiveNew, Taken
<1>2. f \in Frames /\ f.host \in Hosts /\ f.nonce \in Nonces
  BY DEF TypeOK, Frames
<1>3. FramesTrue'
  BY <1>1 DEF FramesTrue
<1>4. Purged \in [Nonces -> Ages]
  BY DEF Purged, TypeOK, Ages
<1>5. \A n \in Nonces : applied[n] \in {None, Window + 1} \/ Purged[n] = applied[n]
  <2> TAKE n \in Nonces
  <2>1. CASE applied[n] \notin {None, Window + 1}
    <3>1. seen[n] = applied[n] /\ seen[n] \in 0 .. Window
      BY <2>1, DiscoveryAssumption DEF Remembered, TypeOK, Ages
    <3>2. ~Expired(seen[n])
      BY <3>1, DiscoveryAssumption DEF Expired
    <3> QED
      BY <3>1, <3>2 DEF Purged
  <2> QED
    BY <2>1
<1>6. CASE ReceiveRepeated(f)
  <2>1. seen' = Purged /\ registry' = registry /\ applied' = applied
    BY <1>6 DEF ReceiveRepeated
  <2> QED
    BY <1>1, <1>3, <1>4, <1>5, <2>1 DEF TypeOK, RegistryAuthentic, Remembered
<1>7. CASE ReceiveNew(f)
  <2>1. seen' = [Purged EXCEPT ![f.nonce] = 0] /\ Purged[f.nonce] = None
    BY <1>7 DEF ReceiveNew
  <2>2. 0 \in Ages
    BY DiscoveryAssumption DEF Ages
  <2>3. seen' \in [Nonces -> Ages]
    BY <1>2, <1>4, <2>1, <2>2
  <2>4. applied[f.nonce] \in {None, Window + 1}
    BY <1>2, <1>5, <2>1
  <2>5. CASE Authentic(f) /\ f.host \in named
    <3>1. registry' = [registry EXCEPT ![f.host] = f.ver] /\ applied' = [applied EXCEPT ![f.nonce] = 0]
      BY <1>7, <2>5 DEF ReceiveNew
    <3>2. f.ver \in 0 .. ver[f.host] /\ f.host \in peers \cap named
      BY <2>5 DEF Authentic, FramesTrue
    <3>3. f.ver \in 0 .. MaxVer
      BY <1>2, <3>2, DiscoveryAssumption DEF TypeOK
    <3>4. TypeOK'
      BY <1>1, <1>2, <2>2, <2>3, <3>1, <3>3 DEF TypeOK
    <3>5. RegistryAuthentic'
      BY <1>1, <1>2, <3>1, <3>2 DEF RegistryAuthentic, TypeOK
    <3>6. Remembered'
      BY <1>2, <1>4, <1>5, <2>1, <3>1 DEF Remembered, TypeOK
    <3>7. \A n \in Nonces : applied'[n] = 0 /\ applied[n] # 0 => applied[n] \in {None, Window + 1}
      BY <1>2, <2>4, <3>1 DEF TypeOK
    <3> QED
      BY <1>3, <3>4, <3>5, <3>6, <3>7
  <2>6. CASE ~(Authentic(f) /\ f.host \in named)
    <3>1. registry' = registry /\ applied' = applied
      BY <1>7, <2>6 DEF ReceiveNew
    <3>2. Remembered'
      BY <1>2, <1>4, <1>5, <2>1, <2>4, <3>1 DEF Remembered
    <3> QED
      BY <1>1, <1>3, <2>3, <3>1, <3>2 DEF TypeOK, RegistryAuthentic
  <2> QED
    BY <2>5, <2>6
<1> QED
  BY <1>6, <1>7 DEF Receive

\* Time passes: the cache forgets a nonce no earlier than its registration ages.
LEMMA TickStep ==
    ASSUME DiscoveryInv, UNCHANGED setup, Tick
    PROVE  /\ DiscoveryInv'
           /\ \A n \in Nonces : applied'[n] = 0 => applied[n] = Window + 1
<1> USE DEF DiscoveryInv
<1>1. UNCHANGED <<peers, named, ver, passed, net, registry>>
  BY DEF setup, Tick
<1>2. /\ Window + 1 \in Nat /\ MinGap \in Nat /\ Period \in Nat /\ MaxDelay \in Nat
      /\ LongAgo \in Nat /\ None \notin 0 .. MaxDelay
  BY DiscoveryAssumption DEF LongAgo
<1>3. LimiterOK'
  <2>1. \A h \in Hosts : since'[h] \in 0 .. LongAgo
    <3> TAKE h \in Hosts
    <3>1. since[h] \in 0 .. LongAgo /\ since'[h] = Older(since[h], LongAgo)
      BY DEF Tick, TypeOK
    <3>2. CASE since[h] = None
      BY <3>1, <3>2 DEF Older
    <3>3. CASE since[h] # None
      BY <1>2, <3>1, <3>3 DEF Older
    <3> QED
      BY <3>2, <3>3
  <2>2. \A h \in Hosts, c \in Callers :
            /\ reading'[h][c] \in {None} \cup 0 .. MaxDelay
            /\ reading[h][c] # None => reading'[h][c] # None
    <3> TAKE h \in Hosts, c \in Callers
    <3>1. reading[h][c] \in {None} \cup 0 .. MaxDelay /\ reading'[h][c] = Older(reading[h][c], MaxDelay)
      BY DEF Tick, TypeOK
    <3> QED
      BY <1>2, <3>1, OlderAge
  <2>3. reading' \in [Hosts -> [Callers -> {None} \cup 0 .. MaxDelay]]
        /\ since' \in [Hosts -> 0 .. LongAgo]
    BY <2>1, <2>2 DEF Tick
  <2>4. passed' \subseteq {x \in Hosts \X Callers : reading'[x[1]][x[2]] # None}
    BY <1>1, <2>2 DEF TypeOK
  <2>5. sleep' \in [Hosts -> 0 .. Period]
    BY <1>2 DEF Tick, TypeOK
  <2>6. recent' \in [Hosts -> [0 .. MinGap - 1 -> Nat]]
    <3>1. \A h \in Hosts : \A a \in 0 .. MinGap - 1 : a # 0 => recent[h][a - 1] \in Nat
      BY <1>2 DEF TypeOK
    <3> QED
      BY <3>1 DEF Tick
  <2> QED
    BY <2>3, <2>4, <2>5, <2>6 DEF LimiterOK
<1>4. \A n \in Nonces :
          /\ seen'[n] = Older(seen[n], Window + 1) /\ applied'[n] = Older(applied[n], Window + 1)
          /\ seen[n] \in {None} \cup 0 .. Window + 1 /\ applied[n] \in {None} \cup 0 .. Window + 1
  BY DEF Tick, TypeOK, Ages
<1>5. \A n \in Nonces : /\ seen'[n] \in Ages /\ applied'[n] \in Ages
                        /\ applied[n] = None => applied'[n] = None
                        /\ applied[n] = Window + 1 => applied'[n] = Window + 1
                        /\ applied'[n] = 0 => applied[n] = Window + 1
  BY <1>2, <1>4, OlderAge, DiscoveryAssumption DEF Ages
<1>7. TypeOK'
  <2>1. seen' \in [Nonces -> Ages] /\ applied' \in [Nonces -> Ages]
    BY <1>5 DEF Tick
  <2> QED
    BY <1>1, <1>3, <2>1 DEF TypeOK, LimiterOK
<1>8. FramesTrue' /\ RegistryAuthentic'
  BY <1>1 DEF FramesTrue, RegistryAuthentic
<1>9. Remembered'
  BY <1>4, <1>5 DEF Remembered
<1> QED
  BY <1>5, <1>7, <1>8, <1>9

\* The host's new Advertiser, and what the network does to a frame.
LEMMA OtherStep ==
    ASSUME DiscoveryInv, UNCHANGED setup,
           \/ \E h \in Hosts : NewAdvertiser(h)
           \/ \E f \in net : Lose(f) \/ Damage(f)
    PROVE  DiscoveryInv' /\ applied' = applied
<1> USE DEF DiscoveryInv
<1>1. UNCHANGED <<peers, named, seen, registry, applied>>
  BY DEF setup, NewAdvertiser, Lose, Damage
<1>2. Remembered'
  BY <1>1 DEF Remembered
<1>3. ASSUME NEW h \in Hosts, NewAdvertiser(h) PROVE DiscoveryInv'
  <2>1. /\ ver[h] < MaxVer /\ ver' = [ver EXCEPT ![h] = ver[h] + 1]
        /\ since' = [since EXCEPT ![h] = LongAgo] /\ sleep' = [sleep EXCEPT ![h] = 0]
        /\ reading' = [reading EXCEPT ![h] = [c \in Callers |-> None]]
        /\ passed' = {x \in passed : x[1] # h} /\ net' = net
        /\ recent' = [recent EXCEPT ![h] = [a \in 0 .. MinGap - 1 |-> 0]]
    BY <1>3 DEF NewAdvertiser
  <2>2. ver' \in [Hosts -> 0 .. MaxVer]
    BY <2>1, DiscoveryAssumption DEF TypeOK
  <2>3. TypeOK'
    <3>1. LimiterOK'
      <4>0. LimiterOK
        BY DEF TypeOK, LimiterOK
      <4>1. LimiterOK /\ MinGap + MaxDelay \in 0 .. MinGap + MaxDelay /\ 0 \in 0 .. Period
        BY <4>0, DiscoveryAssumption
      <4>2. since' \in [Hosts -> 0 .. LongAgo] /\ sleep' \in [Hosts -> 0 .. Period]
        BY <2>1, <4>1 DEF LimiterOK, LongAgo
      <4>3. reading' \in [Hosts -> [Callers -> {None} \cup 0 .. MaxDelay]]
        BY <2>1, <4>1 DEF LimiterOK
      <4>4. \A x \in passed' : x \in passed /\ x[1] \in Hosts \ {h} /\ reading'[x[1]] = reading[x[1]]
        <5> SUFFICES ASSUME NEW x \in passed'
                     PROVE  x \in passed /\ x[1] \in Hosts \ {h} /\ reading'[x[1]] = reading[x[1]]
          OBVIOUS
        <5>1. x \in passed /\ x[1] # h
          BY <2>1
        <5>2. x[1] \in Hosts
          BY <4>1, <5>1 DEF LimiterOK
        <5> QED
          BY <2>1, <4>1, <5>1, <5>2 DEF LimiterOK
      <4>5. passed' \subseteq {x \in Hosts \X Callers : reading'[x[1]][x[2]] # None}
        BY <4>1, <4>4 DEF LimiterOK
      <4>6. recent' \in [Hosts -> [0 .. MinGap - 1 -> Nat]]
        BY <2>1, <4>1 DEF LimiterOK
      <4> QED
        BY <4>2, <4>3, <4>5, <4>6 DEF LimiterOK
    <3> QED
      BY <1>1, <2>1, <2>2, <3>1 DEF TypeOK, LimiterOK
  <2>4. \A g \in Hosts : \A v : v \in 0 .. ver[g] => v \in 0 .. ver'[g]
    <3> TAKE g \in Hosts
    <3>1. ver[g] \in Nat /\ ver'[g] \in Nat /\ ver[g] <= ver'[g]
      BY <2>1, <2>2, DiscoveryAssumption DEF TypeOK
    <3> QED
      BY <3>1
  <2>5. FramesTrue'
    BY <2>1, <2>4 DEF FramesTrue, TypeOK, Frames
  <2>6. RegistryAuthentic'
    BY <1>1, <2>4 DEF RegistryAuthentic
  <2> QED
    BY <1>2, <2>3, <2>5, <2>6
<1>4. ASSUME NEW f \in net, Lose(f) \/ Damage(f) PROVE DiscoveryInv'
  <2>1. UNCHANGED <<ver, since, sleep, reading, passed, recent>>
    BY <1>4 DEF Lose, Damage, calls, limiter
  <2>2. [f EXCEPT !.ver = Damaged, !.intact = FALSE] \in Frames
        /\ [f EXCEPT !.ver = Damaged, !.intact = FALSE].intact = FALSE
    BY DEF TypeOK, Frames
  <2>3. \A g \in net' : g \in net \/ g = [f EXCEPT !.ver = Damaged, !.intact = FALSE]
    BY <1>4 DEF Lose, Damage
  <2>4. net' \subseteq Frames /\ FramesTrue'
    BY <2>1, <2>2, <2>3 DEF TypeOK, FramesTrue
  <2> QED
    BY <1>1, <1>2, <2>1, <2>4 DEF TypeOK, RegistryAuthentic
<1> QED
  BY <1>1, <1>3, <1>4

\* Every step keeps the invariant and registers a nonce again only behind the
\* window.
LEMMA DiscoveryStep ==
    ASSUME DiscoveryInv, [Next]_vars
    PROVE  /\ DiscoveryInv'
           /\ \A n \in Nonces : applied'[n] = 0 /\ applied[n] # 0 => applied[n] \in {None, Window + 1}
<1>1. CASE UNCHANGED vars
  <2>1. UNCHANGED <<peers, named, ver, since, sleep, reading, passed, recent, net, seen, registry,
                    applied>>
    BY <1>1 DEF vars, setup, calls, limiter
  <2> QED
    BY <2>1 DEF DiscoveryInv, TypeOK, FramesTrue, RegistryAuthentic, Remembered
<1>2. ASSUME UNCHANGED setup, NEW h \in Hosts, NEW c \in Callers, Broadcast(h, c)
      PROVE  \A n \in Nonces : applied'[n] = 0 => applied[n] = 0
  <2>1. 0 # None
    BY DiscoveryAssumption
  <2> QED
    BY <1>2, <2>1 DEF DiscoveryInv, TypeOK, Broadcast, Called, RateCheck, RateLimited, SendOk, SendLost, Send
<1> QED
  BY <1>1, <1>2, BroadcastStep, ReceiveStep, TickStep, OtherStep DEF Next

\* The inductive invariant, for any number of hosts, nonces and frames.
THEOREM DiscoveryInvariant == Spec => []DiscoveryInv
<1>1. Init => DiscoveryInv
  BY DiscoveryInit
<1>2. DiscoveryInv /\ [Next]_vars => DiscoveryInv'
  BY DiscoveryStep
<1> QED
  BY <1>1, <1>2, PTL DEF Spec

\* scanner.cpp, handle_frame: what is registered for a host was announced by
\* it, with the scanner's PSK, and arrived unharmed.
THEOREM RegisteredIsAuthentic == Spec => []RegistryAuthentic
<1>1. DiscoveryInv => RegistryAuthentic
  BY DEF DiscoveryInv
<1> QED
  BY <1>1, DiscoveryInvariant, PTL

\* scanner.cpp, the nonce cache: a frame registers at most once per window.
THEOREM RegisteredOncePerWindow == Spec => OncePerWindow
<1>1. DiscoveryInv /\ [Next]_vars =>
         [\A n \in Nonces : applied'[n] = 0 /\ applied[n] # 0 => applied[n] \in {None, Window + 1}]_vars
  BY DiscoveryStep
<1> QED
  BY <1>1, DiscoveryInvariant, PTL DEF Spec, OncePerWindow

-----------------------------------------------------------------------------
(* The life cycle.                                                         *)

Serial == Overlap = FALSE

\* The object as constructed: stopped, with an open socket.
LEMMA SerialInit ==
    ASSUME LifeInit PROVE SerialInv
<1>1. LifeTypeOK
  <2>1. starts \in 0 .. MaxStarts
    BY LifecycleAssumption DEF LifeInit
  <2>2. pc \in [Threads -> {"idle"} \cup StartPcs \cup StopPcs]
    BY DEF LifeInit, StartPcs, StopPcs
  <2>3. sock \in BOOLEAN /\ dead \in BOOLEAN
    BY Zenon DEF LifeInit
  <2> QED
    BY <2>1, <2>2, <2>3, Zenon DEF LifeInit, LifeTypeOK
<1>2. \A c \in Threads : pc[c] = "idle"
  BY DEF LifeInit
<1>3. NoTerminate /\ QuietConsistent
  BY DEF LifeInit, NoTerminate, QuietConsistent
<1>4. OneKind /\ Alone(StartPcs) /\ Alone(StopPcs) /\ StartStage /\ StopStage
  BY <1>2 DEF OneKind, Alone, StartStage, StopStage, StartPcs, StopPcs
<1>5. SockStage
  BY <1>2 DEF LifeInit, SockStage, Quiet
<1> QED
  BY <1>1, <1>3, <1>4, <1>5 DEF SerialInv

\* Every step of start(), stop() and the thread keeps the invariant.
LEMMA SerialStep ==
    ASSUME Serial, SerialInv, [LifeNext]_lifeVars PROVE SerialInv'
<1>0. class' = class
  BY DEF LifeNext, lifeVars
<1> USE LifecycleAssumption
    DEF Serial, SerialInv, LifeTypeOK, NoTerminate, QuietConsistent, Quiet, OneKind, Alone,
        StartStage, StopStage, SockStage, StartPcs, StopPcs, MayEnter, Goto, AfterExchange,
        AfterJoin, CloseFirst
<1>1. ASSUME NEW c \in Threads, StartCas(c) PROVE SerialInv'
  BY <1>0, <1>1 DEF StartCas
<1>2. ASSUME NEW c \in Threads, StartSpawn(c) PROVE SerialInv'
  BY <1>0, <1>2 DEF StartSpawn
<1>3. ASSUME NEW c \in Threads, StartSpin(c) PROVE SerialInv'
  BY <1>0, <1>3 DEF StartSpin
<1>4. ASSUME NEW c \in Threads, StopExchange(c) PROVE SerialInv'
  BY <1>0, <1>4 DEF StopExchange
<1>5. ASSUME NEW c \in Threads, StopClose(c) PROVE SerialInv'
  <2>1. LifeTypeOK'
    BY <1>0, <1>5 DEF StopClose
  <2>2. NoTerminate' /\ OneKind' /\ Alone(StartPcs)'
    BY <1>5 DEF StopClose
  <2>3. Alone(StopPcs)'
    BY <1>5 DEF StopClose
  <2>4. StartStage' /\ StopStage'
    BY <1>0, <1>5 DEF StopClose
  <2>5. SockStage' /\ QuietConsistent'
    BY <1>0, <1>5 DEF StopClose
  <2> QED
    BY <2>1, <2>2, <2>3, <2>4, <2>5
<1>6. ASSUME NEW c \in Threads, StopProbe(c) PROVE SerialInv'
  BY <1>0, <1>6 DEF StopProbe
<1>7. ASSUME NEW c \in Threads, StopJoin(c) PROVE SerialInv'
  BY <1>0, <1>7 DEF StopJoin
<1>8. CASE WorkerBegin
  BY <1>0, <1>8 DEF WorkerBegin
<1>9. CASE WorkerEnd
  BY <1>0, <1>9 DEF WorkerEnd
<1>10. CASE UNCHANGED lifeVars
  BY <1>10 DEF lifeVars
<1> QED
  BY <1>1, <1>2, <1>3, <1>4, <1>5, <1>6, <1>7, <1>8, <1>9, <1>10 DEF LifeNext, Start, Stop

\* scanner.cpp and advertiser.cpp: whatever the number of threads, start() and
\* stop() that do not overlap keep the whole invariant.
THEOREM SerialInvariant ==
    ASSUME Serial PROVE LifeSpec => []SerialInv
<1>1. LifeInit => SerialInv
  BY SerialInit
<1>2. SerialInv /\ [LifeNext]_lifeVars => SerialInv'
  BY SerialStep
<1> QED
  BY <1>1, <1>2, PTL DEF LifeSpec

\* In particular the process is not terminated, and between calls the object
\* is either running with its thread in the loop or stopped without one.
COROLLARY SafeLifecycle ==
    ASSUME Serial PROVE LifeSpec => [](NoTerminate /\ QuietConsistent)
<1>1. SerialInv => NoTerminate /\ QuietConsistent
  BY DEF SerialInv
<1> QED
  BY <1>1, SerialInvariant, PTL
=============================================================================
