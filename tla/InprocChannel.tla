--------------------------- MODULE InprocChannel ---------------------------
(***************************************************************************)
(* The in-process message channel of                                       *)
(* src/src/ability_b/transport/inproc_channel.cpp: three priority queues   *)
(* under one mutex, and a condition variable on which receivers wait.      *)
(*                                                                         *)
(* What runs under the mutex is one step.  Steps of other threads come     *)
(* between the unlocked read of closed_ and the push, between the push and *)
(* notify_one, between setting closed_ and notify_all, and while a         *)
(* receiver waits.                                                         *)
(***************************************************************************)
EXTENDS Naturals, Sequences, FiniteSets

CONSTANTS
    Senders, Receivers,
    Capacity,       \* capacity_, of each priority queue
    Timeouts,       \* the kinds of timeout_ms receivers pass, see TimeoutKinds
    MaxSeq          \* bound: messages accepted

TimeoutKinds == {"zero", "finite", "forever"}   \* = 0, > 0, < 0

ASSUME ChannelAssumption ==
    /\ Capacity \in Nat /\ MaxSeq \in Nat
    /\ Timeouts \subseteq TimeoutKinds
    /\ Senders \cap Receivers = {}
    /\ IsFiniteSet(Senders) /\ IsFiniteSet(Receivers)

Heartbeat == 0
Control   == 1
Data      == 2
Prio      == {Heartbeat, Control, Data}

VARIABLES
    queues,      \* queues_, one sequence of messages per priority
    closed,      \* closed_
    next_seq,    \* next_seq_
    spc,         \* where each sender is in send_base
    sprio,       \* the priority of the frame it sends
    rpc,         \* where each receiver is in recv_base
    rwait,       \* the timeout it waits with, "zero" when it does not
    notified,    \* waiting receivers that a notify has reached
    cpc,         \* the thread that calls close()
    delivered,   \* history: messages returned with RecvStatus::Ok, in order
    lost         \* history: messages popped and returned to nobody

senders   == <<spc, sprio>>
receivers == <<rpc, rwait>>
vars == <<queues, closed, next_seq, senders, receivers, notified, cpc, delivered, lost>>

Messages == [prio : Prio, seq : Nat]

TypeOK ==
    /\ queues \in [Prio -> Seq(Messages)]
    /\ closed \in BOOLEAN
    /\ next_seq \in Nat
    /\ spc \in [Senders -> {"idle", "open", "pushed"}]
    /\ sprio \in [Senders -> Prio]
    /\ rpc \in [Receivers -> {"idle", "waiting"}]
    /\ rwait \in [Receivers -> TimeoutKinds]
    /\ notified \subseteq {r \in Receivers : rpc[r] = "waiting"}
    /\ cpc \in {"idle", "flagged", "done"}
    /\ delivered \in Seq(Messages)
    /\ lost \subseteq Messages

Waiting == {r \in Receivers : rpc[r] = "waiting"}

Init ==
    /\ queues = [p \in Prio |-> <<>>]
    /\ closed = FALSE
    /\ next_seq = 0
    /\ spc = [s \in Senders |-> "idle"] /\ sprio = [s \in Senders |-> Data]
    /\ rpc = [r \in Receivers |-> "idle"] /\ rwait = [r \in Receivers |-> "zero"]
    /\ notified = {}
    /\ cpc = "idle"
    /\ delivered = <<>> /\ lost = {}

-----------------------------------------------------------------------------
(* send_base.                                                              *)

\* The unlocked read of closed_ finds it unset; a set one returns Closed.
SendBegin(s) ==
    /\ spc[s] = "idle" /\ next_seq < MaxSeq
    /\ ~closed
    /\ \E p \in Prio : sprio' = [sprio EXCEPT ![s] = p]
    /\ spc' = [spc EXCEPT ![s] = "open"]
    /\ UNCHANGED <<queues, closed, next_seq, receivers, notified, cpc, delivered, lost>>

HasRoom(p) == p = Heartbeat \/ Len(queues[p]) < Capacity

SendPush(s) ==
    /\ spc[s] = "open"
    /\ HasRoom(sprio[s])
    /\ next_seq' = next_seq + 1
    /\ queues' = [queues EXCEPT ![sprio[s]] =
                     Append(@, [prio |-> sprio[s], seq |-> next_seq + 1])]
    /\ spc' = [spc EXCEPT ![s] = "pushed"]
    /\ UNCHANGED <<closed, sprio, receivers, notified, cpc, delivered, lost>>

\* send_base returns; what it was sending is forgotten.
SendReturn(s) ==
    /\ spc' = [spc EXCEPT ![s] = "idle"]
    /\ sprio' = [sprio EXCEPT ![s] = Data]

SendFull(s) ==
    /\ spc[s] = "open"
    /\ ~HasRoom(sprio[s])
    /\ SendReturn(s)
    /\ UNCHANGED <<queues, closed, next_seq, receivers, notified, cpc, delivered, lost>>

\* notify_one: a waiting receiver that no earlier notify has reached, if any.
NotifyOne ==
    IF Waiting \subseteq notified
    THEN UNCHANGED notified
    ELSE \E r \in Waiting \ notified : notified' = notified \cup {r}

\* Mutated form of SendNotify: the notify is skipped when the queue holds more
\* than the message just pushed.
SendNotify_OnlyFirst(s) ==
    /\ spc[s] = "pushed"
    /\ SendReturn(s)
    /\ IF Len(queues[sprio[s]]) > 1 THEN UNCHANGED notified ELSE NotifyOne
    /\ UNCHANGED <<queues, closed, next_seq, receivers, cpc, delivered, lost>>

SendNotify(s) ==
    /\ spc[s] = "pushed"
    /\ SendReturn(s)
    /\ NotifyOne
    /\ UNCHANGED <<queues, closed, next_seq, receivers, cpc, delivered, lost>>

-----------------------------------------------------------------------------
(* recv_base.                                                              *)

Empty(qs) == \A p \in Prio : qs[p] = <<>>

\* pick() takes the head of the first queue that is not empty.
Top(qs, p) == qs[p] # <<>> /\ \A o \in Prio : o < p => qs[o] = <<>>

\* Mutated forms of Popped: pop_front is forgotten; pop_back instead.
Popped_Kept(qs, p) == qs
Popped_Back(qs, p) == [qs EXCEPT ![p] = SubSeq(@, 1, Len(@) - 1)]

Popped(qs, p) == [qs EXCEPT ![p] = Tail(@)]

\* The first pick() succeeds.
RecvNow(r) ==
    /\ rpc[r] = "idle"
    /\ \E p \in Prio :
          /\ Top(queues, p)
          /\ delivered' = Append(delivered, Head(queues[p]))
          /\ queues' = Popped(queues, p)
    /\ UNCHANGED <<closed, next_seq, senders, receivers, notified, cpc, lost>>

\* It fails, the timeout is not 0 and the channel is open: cv_.wait[_for].
\* (With timeout 0 or a closed channel recv_base returns with no effect.)
RecvWait(r) ==
    /\ rpc[r] = "idle"
    /\ Empty(queues) /\ ~closed
    /\ \E t \in Timeouts \ {"zero"} : rwait' = [rwait EXCEPT ![r] = t]
    /\ rpc' = [rpc EXCEPT ![r] = "waiting"]
    /\ UNCHANGED <<queues, closed, next_seq, senders, notified, cpc, delivered, lost>>

Return(r) ==
    /\ rpc' = [rpc EXCEPT ![r] = "idle"]
    /\ rwait' = [rwait EXCEPT ![r] = "zero"]
    /\ notified' = notified \ {r}
    /\ UNCHANGED <<closed, next_seq, senders, cpc>>

(***************************************************************************)
(* A waiting receiver runs again: it was notified, its time is up, or it   *)
(* woke spuriously.  The predicate is closed_ || pick(), and after it the  *)
(* code picks a second time: a message the predicate has popped is gone.   *)
(***************************************************************************)
\* closed_ short-circuits the predicate, so the second pick() is the first.
WakeClosed(r) ==
    /\ rpc[r] = "waiting" /\ closed
    /\ \/ /\ Empty(queues)                       \* RecvStatus::Closed
          /\ UNCHANGED <<queues, delivered>>
       \/ \E p \in Prio :                        \* RecvStatus::Ok
             /\ Top(queues, p)
             /\ delivered' = Append(delivered, Head(queues[p]))
             /\ queues' = Popped(queues, p)
    /\ UNCHANGED lost
    /\ Return(r)

WakeMessage(r) ==
    /\ rpc[r] = "waiting" /\ ~closed
    /\ \E p \in Prio :
          /\ Top(queues, p)
          /\ lost' = lost \cup {Head(queues[p])}
          /\ LET rest == Popped(queues, p) IN
             \/ /\ Empty(rest)                   \* RecvStatus::Timeout
                /\ queues' = rest
                /\ UNCHANGED delivered
             \/ \E p2 \in Prio :                 \* RecvStatus::Ok
                   /\ Top(rest, p2)
                   /\ delivered' = Append(delivered, Head(rest[p2]))
                   /\ queues' = Popped(rest, p2)
    /\ Return(r)

\* Nothing there: wait again, or give up if the timeout has passed.
WakeNothing(r) ==
    /\ rpc[r] = "waiting" /\ ~closed /\ Empty(queues)
    /\ UNCHANGED <<queues, delivered, lost>>
    /\ \/ rwait[r] = "finite" /\ Return(r)
       \/ /\ r \in notified
          /\ notified' = notified \ {r}
          /\ UNCHANGED <<closed, next_seq, senders, receivers, cpc>>

Wake(r) == WakeClosed(r) \/ WakeMessage(r) \/ WakeNothing(r)

-----------------------------------------------------------------------------
(* close(), also called by the destructor.                                 *)

CloseFlag ==
    /\ cpc = "idle"
    /\ closed' = TRUE
    /\ cpc' = "flagged"
    /\ UNCHANGED <<queues, next_seq, senders, receivers, notified, delivered, lost>>

\* Mutated form of CloseNotify: notify_one instead of notify_all.
CloseNotify_One ==
    /\ cpc = "flagged"
    /\ NotifyOne
    /\ cpc' = "done"
    /\ UNCHANGED <<queues, closed, next_seq, senders, receivers, delivered, lost>>

CloseNotify ==
    /\ cpc = "flagged"
    /\ notified' = Waiting
    /\ cpc' = "done"
    /\ UNCHANGED <<queues, closed, next_seq, senders, receivers, delivered, lost>>

-----------------------------------------------------------------------------
SendStep(s) == SendBegin(s) \/ SendPush(s) \/ SendFull(s) \/ SendNotify(s)
RecvStep(r) == RecvNow(r) \/ RecvWait(r) \/ Wake(r)

Next ==
    \/ \E s \in Senders : SendStep(s)
    \/ \E r \in Receivers : RecvStep(r)
    \/ CloseFlag \/ CloseNotify

Spec == Init /\ [][Next]_vars

(***************************************************************************)
(* Fairness: a thread inside send_base or close() runs to the end of the   *)
(* call, and a receiver the condition variable was notified for, or whose  *)
(* timeout passes, runs again.  Nobody is obliged to call, and nothing is  *)
(* assumed of spurious wakeups.                                            *)
(***************************************************************************)
Resume(r) == (r \in notified \/ rwait[r] = "finite") /\ Wake(r)

Fairness ==
    /\ \A s \in Senders : WF_vars(SendPush(s) \/ SendFull(s) \/ SendNotify(s))
    /\ \A r \in Receivers : WF_vars(Resume(r))
    /\ WF_vars(CloseNotify)

FairSpec == Spec /\ Fairness

-----------------------------------------------------------------------------
(* Properties.                                                             *)

\* Every accepted frame is numbered 1..next_seq exactly once and is in a queue,
\* was returned, or is known to be lost: push and pop neither duplicate nor
\* misplace one, whatever the interleaving of sends and wakeups.
Accounted ==
    LET queued == UNION {{queues[p][i] : i \in DOMAIN queues[p]} : p \in Prio}
        got == {delivered[i] : i \in DOMAIN delivered}
        all == queued \cup got \cup lost
    IN  /\ {m.seq : m \in all} = 1..next_seq
        /\ next_seq = Len(delivered) + Cardinality(lost)
                        + Len(queues[Heartbeat]) + Len(queues[Control]) + Len(queues[Data])

\* Frames of one priority are returned in the order send_base accepted them
\* (docs/02-architecture.md:32, strict order), also with several receivers
\* and frames lost in between.
DeliveredInOrder ==
    \A i, j \in DOMAIN delivered :
        i < j /\ delivered[i].prio = delivered[j].prio
          => delivered[i].seq < delivered[j].seq

\* No lost wakeup: while a frame is queued and every sender has done its
\* notify, a receiver that waits has been notified or another one has.
NoLostWakeup ==
    (~Empty(queues) /\ \A s \in Senders : spc[s] # "pushed") =>
        (Waiting = {} \/ Waiting \cap notified # {})

\* After close() no recv_base stays blocked, whatever its timeout.
CloseUnblocks ==
    \A r \in Receivers : (closed /\ rpc[r] = "waiting") ~> (rpc[r] = "idle")

\* inproc_channel.cpp:25: "HEARTBEAT is never dropped (architecture 5.6)".
HeartbeatNeverDropped == \A m \in lost : m.prio # Heartbeat

-----------------------------------------------------------------------------
(* The inductive invariant of ChannelProofs.  FrameInv speaks of queues,   *)
(* frames returned and lost, and frames numbered, as parameters: a wakeup  *)
(* pops twice.                                                             *)

Total(qs) == Len(qs[Heartbeat]) + Len(qs[Control]) + Len(qs[Data])

\* A frame lies in the queue of its priority, behind those with lower numbers.
QueuesAscend(qs, n) ==
    \A p \in Prio :
        /\ \A i \in DOMAIN qs[p] : qs[p][i].prio = p /\ qs[p][i].seq \in 1 .. n
        /\ \A i, j \in DOMAIN qs[p] : i < j => qs[p][i].seq < qs[p][j].seq

\* Frame m was taken out before all that are still in the queue it was in.
Before(m, qs, n) ==
    m.seq \in 1 .. n /\ \A i \in DOMAIN qs[m.prio] : m.seq < qs[m.prio][i].seq

Ascending(del) ==
    \A i, j \in DOMAIN del : i < j /\ del[i].prio = del[j].prio => del[i].seq < del[j].seq

\* Number k is that of a frame in a queue, of one returned or of one lost.
Somewhere(k, qs, del, lst) ==
    \/ \E p \in Prio : \E i \in DOMAIN qs[p] : qs[p][i].seq = k
    \/ \E i \in DOMAIN del : del[i].seq = k
    \/ \E m \in lst : m.seq = k

FrameInv(qs, del, lst, n) ==
    /\ qs \in [Prio -> Seq(Messages)] /\ del \in Seq(Messages) /\ lst \subseteq Messages
    /\ n \in Nat /\ IsFiniteSet(lst)
    /\ QueuesAscend(qs, n)
    /\ \A i \in DOMAIN del : Before(del[i], qs, n)
    /\ \A m \in lst : Before(m, qs, n)
    /\ Ascending(del)
    /\ \A k \in 1 .. n : Somewhere(k, qs, del, lst)
    /\ n = Len(del) + Cardinality(lst) + Total(qs)

Pushed == {s \in Senders : spc[s] = "pushed"}

\* There is a notified receiver, or a notify to come, for every queued frame,
\* unless all that wait are notified.
EnoughNotified ==
    \/ Waiting \subseteq notified
    \/ Total(queues) <= Cardinality(notified) + Cardinality(Pushed)

InprocInv == TypeOK /\ FrameInv(queues, delivered, lost, next_seq) /\ EnoughNotified
=============================================================================
