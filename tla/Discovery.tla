----------------------------- MODULE Discovery -----------------------------
(***************************************************************************)
(* Peer discovery: the broadcasting loop of advertiser.cpp, the broadcast  *)
(* rate limit of udp_socket.cpp, a network that loses, duplicates, delays, *)
(* reorders and damages frames, and Scanner::handle_frame with its cache   *)
(* of nonces, which feeds the registry.                                    *)
(*                                                                         *)
(* Time is discrete and every clock is an age that stops counting just     *)
(* above the largest bound it is compared with, so the model has finitely  *)
(* many states without a bound on time.  A frame is what its fields say: a *)
(* MAC verifies if and only if the frame is intact and was made with the   *)
(* scanner's key.                                                          *)
(***************************************************************************)
EXTENDS Integers, FiniteSets

CONSTANTS
    Hosts,        \* advertisers
    Nonces,       \* 8 random bytes; one still about is not drawn again
    Window,       \* cfg_.replay_window
    MinGap,       \* kBroadcastPeriod
    Period,       \* cfg_.period of the advertisers
    Callers,      \* who calls broadcast_once: "run", "manual"
    Faults,       \* what the network does: "duplicate", "damage"
    None,
    MaxDelay,     \* bound: time from reading the clock to storing the reading
    MaxNet,       \* bound: frames under way at a time
    MaxVer        \* bound: payloads of a host, each in a new Advertiser

ASSUME DiscoveryAssumption ==
    /\ Window \in Nat /\ MinGap \in Nat /\ Period \in Nat
    /\ Callers \subseteq {"run", "manual"}
    /\ Faults \subseteq {"duplicate", "damage"}
    /\ MaxNet \in Nat /\ MaxVer \in Nat /\ MaxDelay \in Nat
    /\ None \notin 0 .. Window + 1 /\ None \notin 0 .. MaxDelay

\* How old last_broadcast_at_ has to be for every reading to pass.
LongAgo == MinGap + MaxDelay

Damaged == -1     \* the version a damaged payload reads as

VARIABLES
    peers,      \* the hosts that have the scanner's PSK
    named,      \* the hosts whose configured node_id is not empty
    ver,        \* the payload each host announces
    since,      \* age of last_broadcast_at_, LongAgo if that is 0
    sleep,      \* time until the loop of run() broadcasts again
    reading,    \* age of the clock reading `now` of each caller's call of
                \* check_broadcast_rate, None if it is not in it
    passed,     \* [host, caller] pairs past its test
    recent,     \* history: of calls that passed, how many readings there are
                \* of each age
    net,        \* frames under way
    seen,       \* seen_nonces_: the age of each entry, None if there is none
    registry,   \* what the scanner registered for each host
    applied     \* history: age of the last registration from each nonce

setup == <<peers, named>>
limiter == <<since, reading, passed, recent>>
calls == <<limiter, sleep>>
vars == <<setup, ver, calls, net, seen, registry, applied>>


Init ==
    /\ peers \in SUBSET Hosts /\ named \in SUBSET Hosts
    /\ ver = [h \in Hosts |-> 0]
    /\ since = [h \in Hosts |-> LongAgo] /\ sleep = [h \in Hosts |-> 0]
    /\ reading = [h \in Hosts |-> [c \in Callers |-> None]] /\ passed = {}
    /\ recent = [h \in Hosts |-> [a \in 0 .. MinGap - 1 |-> 0]]
    /\ net = {}
    /\ seen = [n \in Nonces |-> None] /\ applied = [n \in Nonces |-> None]
    /\ registry = [h \in Hosts |-> None]

-----------------------------------------------------------------------------
(* Advertiser::broadcast_once and UdpSocket::send, whose                   *)
(* check_broadcast_rate reads the clock, reads last_broadcast_at_ and      *)
(* stores the reading there, all without a lock.                           *)

\* The loop calls it when it has slept; anybody else may at any time.
MayCall(h, c) == reading[h][c] = None /\ (c = "run" => sleep[h] = 0)

\* run() sleeps for the period after each call, whatever its result.
Slept(h, c) == sleep' = IF c = "run" THEN [sleep EXCEPT ![h] = Period] ELSE sleep

\* The clock is read.
Called(h, c) ==
    /\ MayCall(h, c)
    /\ reading' = [reading EXCEPT ![h][c] = 0]
    /\ UNCHANGED <<ver, since, sleep, passed, recent, net, seen, registry, applied>>

\* Mutated form of RateOk: the limit is not looked at.
RateOk_Always(h, c) == TRUE

\* Mutated form of RateOk: the comparison is the wrong way round.
RateOk_Inverted(h, c) == since[h] - reading[h][c] < MinGap

\* now - last_broadcast_at_ >= kBroadcastPeriod.
RateOk(h, c) == since[h] - reading[h][c] >= MinGap

Tests(h, c) == reading[h][c] # None /\ <<h, c>> \notin passed

RateCheck(h, c) ==
    /\ Tests(h, c) /\ RateOk(h, c)
    /\ passed' = passed \cup {<<h, c>>}
    /\ recent' = IF reading[h][c] < MinGap
                 THEN [recent EXCEPT ![h][reading[h][c]] = @ + 1] ELSE recent
    /\ UNCHANGED <<ver, since, sleep, reading, net, seen, registry, applied>>

\* NET_RATE_LIMITED.
RateLimited(h, c) ==
    /\ Tests(h, c) /\ ~RateOk(h, c)
    /\ reading' = [reading EXCEPT ![h][c] = None]
    /\ Slept(h, c)
    /\ UNCHANGED <<ver, since, passed, recent, net, seen, registry, applied>>

\* RAND_bytes: a nonce nobody remembers.
Fresh == {n \in Nonces : /\ \A f \in net : f.nonce # n
                         /\ seen[n] \in {None, Window + 1}}

\* last_broadcast_at_ is set to what the clock said before the test, and the
\* frame sent; sendto may fail, and the frame may be lost at once.
Send(h, c) ==
    /\ <<h, c>> \in passed
    /\ passed' = passed \ {<<h, c>>}
    /\ since' = [since EXCEPT ![h] = reading[h][c]]
    /\ reading' = [reading EXCEPT ![h][c] = None]
    /\ Slept(h, c)
    /\ UNCHANGED <<ver, recent, seen, registry>>

SendOk(h, c) ==
    /\ Send(h, c)
    /\ Cardinality(net) < MaxNet
    /\ \E n \in Fresh :
          /\ net' = net \cup {[host |-> h, ver |-> ver[h], nonce |-> n, intact |-> TRUE]}
          /\ applied' = [applied EXCEPT ![n] = None]

SendLost(h, c) == Send(h, c) /\ UNCHANGED <<net, applied>>

\* The host comes back with another payload, in a new Advertiser whose socket
\* has not sent yet.
NewAdvertiser(h) ==
    /\ ver[h] < MaxVer
    /\ ver' = [ver EXCEPT ![h] = @ + 1]
    /\ since' = [since EXCEPT ![h] = LongAgo]
    /\ sleep' = [sleep EXCEPT ![h] = 0]
    /\ reading' = [reading EXCEPT ![h] = [c \in Callers |-> None]]
    /\ passed' = {x \in passed : x[1] # h}
    /\ recent' = [recent EXCEPT ![h] = [a \in 0 .. MinGap - 1 |-> 0]]
    /\ UNCHANGED <<net, seen, registry, applied>>

-----------------------------------------------------------------------------
(* The network.                                                            *)

Lose(f) ==
    /\ net' = net \ {f}
    /\ UNCHANGED <<ver, calls, seen, registry, applied>>

Damage(f) ==
    /\ "damage" \in Faults
    /\ f.intact
    /\ net' = (net \ {f}) \cup {[f EXCEPT !.ver = Damaged, !.intact = FALSE]}
    /\ UNCHANGED <<ver, calls, seen, registry, applied>>

-----------------------------------------------------------------------------
(* Scanner::poll_once and handle_frame.  A frame that is too short, or has *)
(* another magic or version, is rejected before anything is touched.       *)

\* recv takes the frame; a duplicate may still be under way.
Taken(f) == net' = net \ {f} \/ ("duplicate" \in Faults /\ net' = net)

\* Mutated form of Expired: >= instead of >.
Expired_AtWindow(age) == age # None /\ age >= Window

\* Entries older than the window are purged before the nonce is looked up.
Expired(age) == age # None /\ age > Window

Purged == [n \in Nonces |-> IF Expired(seen[n]) THEN None ELSE seen[n]]

\* Mutated form of Authentic: the MAC is not checked.
Authentic_Unchecked(f) == TRUE

\* hmac_sha256_verify.
Authentic(f) == f.intact /\ f.host \in peers

\* A nonce in the cache: ignored.
ReceiveRepeated(f) ==
    /\ Purged[f.nonce] # None
    /\ Taken(f)
    /\ seen' = Purged
    /\ UNCHANGED <<ver, calls, registry, applied>>

\* The nonce enters the cache before the MAC is checked; a frame whose MAC is
\* wrong or whose node_id is empty is dropped after that.
ReceiveNew(f) ==
    /\ Purged[f.nonce] = None
    /\ Taken(f)
    /\ seen' = [Purged EXCEPT ![f.nonce] = 0]
    /\ IF Authentic(f) /\ f.host \in named
       THEN /\ registry' = [registry EXCEPT ![f.host] = f.ver]
            /\ applied' = [applied EXCEPT ![f.nonce] = 0]
       ELSE UNCHANGED <<registry, applied>>
    /\ UNCHANGED <<ver, calls>>

Older(age, max) == IF age = None THEN None ELSE IF age < max THEN age + 1 ELSE max

\* No call has read the clock so long ago that it must go on first.
Prompt == \A h \in Hosts, c \in Callers : reading[h][c] # MaxDelay

Tick ==
    /\ Prompt
    /\ since' = [h \in Hosts |-> Older(since[h], LongAgo)]
    /\ reading' = [h \in Hosts |-> [c \in Callers |-> Older(reading[h][c], MaxDelay)]]
    /\ recent' = [h \in Hosts |->
                     [a \in 0 .. MinGap - 1 |-> IF a = 0 THEN 0 ELSE recent[h][a - 1]]]
    /\ sleep' = [h \in Hosts |-> IF sleep[h] > 0 THEN sleep[h] - 1 ELSE 0]
    /\ seen' = [n \in Nonces |-> Older(seen[n], Window + 1)]
    /\ applied' = [n \in Nonces |-> Older(applied[n], Window + 1)]
    /\ UNCHANGED <<ver, passed, net, registry>>

Broadcast(h, c) ==
    Called(h, c) \/ RateCheck(h, c) \/ RateLimited(h, c) \/ SendOk(h, c) \/ SendLost(h, c)
Receive(f) == ReceiveRepeated(f) \/ ReceiveNew(f)

Next ==
    /\ \/ \E h \in Hosts, c \in Callers : Broadcast(h, c)
       \/ \E h \in Hosts : NewAdvertiser(h)
       \/ \E f \in net : Lose(f)
       \/ \E f \in net : Damage(f)
       \/ \E f \in net : Receive(f)
       \/ Tick
    /\ UNCHANGED setup

Spec == Init /\ [][Next]_vars

\* Time passes, the thread of run() runs and a call of broadcast_once, once
\* begun, ends.  Of the network it is assumed
\* that no frame stays under way for ever and that, of a host that goes on
\* broadcasting, some frame gets through.
Heard(h) == \E f \in net : f.host = h /\ f.intact /\ ReceiveNew(f)

Fairness ==
    /\ WF_vars(Tick /\ UNCHANGED setup)
    /\ WF_vars((\E f \in net : Lose(f)) /\ UNCHANGED setup)
    /\ \A h \in Hosts :
          /\ WF_vars(Broadcast(h, "run") /\ UNCHANGED setup)
          /\ \A c \in Callers : WF_vars(reading[h][c] # None /\ Broadcast(h, c) /\ UNCHANGED setup)
          /\ SF_vars((\E c \in Callers : SendOk(h, c)) /\ UNCHANGED setup)
          /\ SF_vars(Heard(h) /\ UNCHANGED setup)

FairSpec == Spec /\ Fairness

-----------------------------------------------------------------------------
(* Properties.                                                             *)

\* The calls of broadcast_once that passed the limiter on a clock reading not
\* older than kBroadcastPeriod.
Let(h) == {x \in (0 .. MinGap - 1) \X (1 .. 10) : x[2] <= recent[h][x[1]]}

\* The limiter without a lock still limits: however the loop of run() and one
\* thread that calls broadcast_once get in each other's way, of the calls that
\* read the clock within one kBroadcastPeriod at most three are let through.
\* (One is promised by udp_socket.hpp.  The two may pass the test side by side;
\* and one that is held up after it stores an old reading over a newer one, which
\* lets both pass again.  But neither can do so twice.)
BroadcastBound == \A h \in Hosts : Cardinality(Let(h)) <= 3

\* A frame is registered at most once within the replay window, however often
\* and however late the network delivers it.
OncePerWindow ==
    [][\A n \in Nonces : applied'[n] = 0 /\ applied[n] # 0 => applied[n] \in {None, Window + 1}]_vars

\* What the registry holds for a host was announced by that host, the host
\* has the scanner's PSK, and the payload arrived unharmed.
RegistryAuthentic ==
    \A h \in Hosts : registry[h] # None =>
        registry[h] \in 0 .. ver[h] /\ h \in peers \cap named

\* Every host that shares the PSK and has a name is registered in the end,
\* although the nonce of a damaged or repeated frame blocks its good copy.
Discovered == \A h \in Hosts : <>(registry[h] # None \/ h \notin peers \cap named)

-----------------------------------------------------------------------------
(* The inductive invariant behind RegistryAuthentic and OncePerWindow.     *)

Frames == [host : Hosts, ver : {Damaged} \cup 0 .. MaxVer, nonce : Nonces, intact : BOOLEAN]
Ages   == {None} \cup 0 .. Window + 1

TypeOK ==
    /\ peers \subseteq Hosts /\ named \subseteq Hosts
    /\ ver \in [Hosts -> 0 .. MaxVer]
    /\ since \in [Hosts -> 0 .. LongAgo] /\ sleep \in [Hosts -> 0 .. Period]
    /\ reading \in [Hosts -> [Callers -> {None} \cup 0 .. MaxDelay]]
    /\ passed \subseteq {x \in Hosts \X Callers : reading[x[1]][x[2]] # None}
    /\ recent \in [Hosts -> [0 .. MinGap - 1 -> Nat]] /\ net \subseteq Frames
    /\ seen \in [Nonces -> Ages] /\ applied \in [Nonces -> Ages]
    /\ registry \in [Hosts -> {None} \cup 0 .. MaxVer]

\* An intact frame says what its host announces, or did before.
FramesTrue == \A f \in net : f.intact => f.ver \in 0 .. ver[f.host]

\* A nonce that registered something is in the cache, at the same age, until
\* the window has passed.
Remembered == \A n \in Nonces : applied[n] \in {None, Window + 1} \/ seen[n] = applied[n]

DiscoveryInv ==
    TypeOK /\ FramesTrue /\ RegistryAuthentic /\ Remembered
=============================================================================
