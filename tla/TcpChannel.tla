----------------------------- MODULE TcpChannel -----------------------------
(***************************************************************************)
(* The channel over a ZeroMQ DEALER socket of                              *)
(* src/src/ability_b/transport/tcp_channel.cpp.  connect and close take a  *)
(* mutex; send_base and recv_base use the socket without it, so every use  *)
(* of the socket is a step of its own, between which close may free it.    *)
(*                                                                         *)
(* libzmq and the peer are external: a call of the library is one step, a  *)
(* call with a null socket fails, and a call with a freed one is undefined *)
(* (the model has it fail, too).                                           *)
(***************************************************************************)
EXTENDS Naturals, Sequences, SequencesExt

CONSTANTS
    Senders, Receivers, Connectors,   \* threads
    Casts,          \* bound: the threads that call in one behaviour, beside the
                    \* one that calls close(), are one of these sets
    Capacity,       \* send_hwm
    Timeouts,       \* the kinds of timeout_ms: "zero", "finite", "forever"
    Faults,         \* "uri", "unreachable", "network": library calls that may fail
    MaxSeq,         \* bound: frames numbered when send_base is called
    MaxIn           \* bound: frames the peer sends

Heartbeat == 0
Data      == 2
Prio      == {Heartbeat, Data}    \* Control is sent as Data is
Default   == "io_timeout"         \* the ZMQ_RCVTIMEO the constructor sets

VARIABLES
    cast,        \* the threads that call
    sock,        \* impl_->socket: "open", "freed" (closed, not yet null), "null"
    zmq,         \* the library: [linked (it has the endpoint), rcvtimeo, outq, inq]
    closed, connected, next_seq,      \* closed_, connected_, next_seq_
    snd,         \* each sender's call: [pc, late, prio, seq]
    rcv,         \* each receiver's: [pc, late, asked, old, limit, bytes]
    con, cpc,    \* where each connector and close() is
    seen, sent,  \* history: the frames the peer received, how many it sent
    got,         \* history: what recv_base made of each frame it took
    stray,       \* history: a call that began after close() was called has
                 \* used the socket once it was freed
    overlapped   \* history: two calls of recv_base were under way at a time

peer == <<seen, sent>>
calls == <<snd, rcv, con, cpc>>
vars == <<cast, sock, zmq, closed, connected, next_seq, calls, peer, got, stray, overlapped>>

-----------------------------------------------------------------------------
(* encode_frame and decode_frame: priority, seq and length, low byte first,*)
(* and the payload.                                                        *)

HeaderBytes == 1 + 8 + 4

\* n without its four low bytes; and those, low byte first.
Above(n) == (((n \div 256) \div 256) \div 256) \div 256
LowFirst(n) ==
    LET n1 == n \div 256    n2 == n1 \div 256    n3 == n2 \div 256
    IN  <<n % 256, n1 % 256, n2 % 256, n3 % 256>>

\* The number with the four bytes of b from i on below high.
FromLowFirst(b, i, high) ==
    b[i] + 256 * (b[i + 1] + 256 * (b[i + 2] + 256 * (b[i + 3] + 256 * high)))

encode_frame(m) ==
    <<m.priority>> \o LowFirst(m.seq) \o LowFirst(Above(m.seq))
                   \o LowFirst(Len(m.payload)) \o m.payload

Malformed == [priority |-> 255, seq |-> 0, payload |-> <<>>]

PayloadLength(b) == FromLowFirst(b, 10, 0)

\* Mutated form of Complete: a frame that ends with its payload is refused.
Complete_Strict(b) == Len(b) >= HeaderBytes /\ PayloadLength(b) < Len(b) - HeaderBytes

Complete(b) == Len(b) >= HeaderBytes /\ PayloadLength(b) <= Len(b) - HeaderBytes

decode_frame(b) ==
    IF Complete(b)
    THEN [priority |-> b[1], seq |-> FromLowFirst(b, 2, FromLowFirst(b, 6, 0)),
          payload |-> SubSeq(b, HeaderBytes + 1, HeaderBytes + PayloadLength(b))]
    ELSE Malformed

\* What the peer sends: frames, one cut in its header, one in its payload, and
\* one with a byte too many.
Greeting == [priority |-> Data, seq |-> 258, payload |-> <<7, 8>>]
PeerMessages == {Greeting, [priority |-> Heartbeat, seq |-> 1, payload |-> <<>>]}
PeerFrames ==
    LET b == encode_frame(Greeting)
    IN  {encode_frame(m) : m \in PeerMessages}
          \cup {SubSeq(b, 1, HeaderBytes - 1), SubSeq(b, 1, Len(b) - 1), Append(b, 0)}

-----------------------------------------------------------------------------
NoSend == [pc |-> "idle", late |-> FALSE, prio |-> Data, seq |-> 0]
NoRecv == [pc |-> "idle", late |-> FALSE, asked |-> "zero", old |-> "zero",
           limit |-> "zero", bytes |-> <<>>]

Constructed(threads, socket, auto_connect) ==
    /\ cast = threads /\ sock = socket
    /\ zmq = [linked |-> auto_connect, rcvtimeo |-> Default, outq |-> <<>>, inq |-> <<>>]
    /\ closed = FALSE /\ connected = auto_connect /\ next_seq = 0
    /\ snd = [s \in Senders |-> NoSend] /\ rcv = [r \in Receivers |-> NoRecv]
    /\ con = [c \in Connectors |-> "idle"] /\ cpc = "idle"
    /\ seen = <<>> /\ sent = 0 /\ got = <<>> /\ stray = FALSE /\ overlapped = FALSE

\* The constructor: the library may have no socket to give, and connect() is
\* called or not.
Init ==
    \E threads \in Casts :
        \/ Constructed(threads, "null", FALSE)
        \/ \E auto_connect \in BOOLEAN : Constructed(threads, "open", auto_connect)

\* There is no such channel.
Absent == Constructed({}, "null", FALSE)

\* The checks every call begins with: closed_, and a socket that is not null.
Usable == ~closed /\ sock # "null"

\* A call that begins now is late: close() has been called.
Late == cpc # "idle"

\* A call uses the socket, which may have been freed.
Touch(call) == stray' = (stray \/ (call.late /\ sock = "freed"))

-----------------------------------------------------------------------------
(* send_base.                                                              *)

SendBegin(s) ==
    /\ snd[s].pc = "idle" /\ Usable /\ next_seq < MaxSeq
    /\ \E p \in Prio :
          snd' = [snd EXCEPT ![s] = [pc |-> "number", late |-> Late, prio |-> p, seq |-> 0]]
    /\ UNCHANGED <<sock, zmq, connected, next_seq, peer, stray>>

\* Mutated form of Numbered: next_seq_ is read and not counted up.
Numbered_NotCounted == next_seq

\* next_seq_.fetch_add(1) + 1
Numbered == next_seq + 1

\* The look at ZMQ_SNDHWM (a heartbeat skips it), and the number.
SendNumber(s) ==
    /\ snd[s].pc = "number"
    /\ next_seq' = Numbered
    /\ snd' = [snd EXCEPT ![s].pc = "send", ![s].seq = next_seq + 1]
    /\ IF snd[s].prio = Heartbeat THEN UNCHANGED stray ELSE Touch(snd[s])
    /\ UNCHANGED <<sock, zmq, connected, peer>>

\* SendResult::Ok.  The payload tells the senders apart.
SendOk(s) ==
    /\ sock = "open" /\ zmq.linked /\ Len(zmq.outq) < Capacity
    /\ zmq' = [zmq EXCEPT !.outq =
                  Append(@, encode_frame([priority |-> snd[s].prio, seq |-> snd[s].seq,
                                          payload |-> <<s>>]))]
    /\ UNCHANGED connected

\* SendResult::Full: EAGAIN, at once or after ZMQ_SNDTIMEO.
SendFull ==
    /\ sock = "open" /\ (zmq.linked => Len(zmq.outq) >= Capacity)
    /\ UNCHANGED <<zmq, connected>>

\* SendResult::Error: the host cannot be reached, or there is no socket.
SendError ==
    /\ \/ sock = "open" /\ "unreachable" \in Faults /\ connected' = FALSE
       \/ sock # "open" /\ UNCHANGED connected
    /\ UNCHANGED zmq

\* zmq_msg_send, and the call returns.
SendMsg(s) ==
    /\ snd[s].pc = "send"
    /\ SendOk(s) \/ SendFull \/ SendError
    /\ Touch(snd[s])
    /\ snd' = [snd EXCEPT ![s] = NoSend]
    /\ UNCHANGED <<sock, next_seq, peer>>

-----------------------------------------------------------------------------
(* recv_base: ZMQ_RCVTIMEO is saved, set, and after zmq_msg_recv restored. *)

Receiving(r) == rcv[r].pc # "idle"

RecvBegin(r) ==
    /\ rcv[r].pc = "idle" /\ Usable
    /\ \E t \in Timeouts :
          rcv' = [rcv EXCEPT ![r].pc = "save", ![r].late = Late, ![r].asked = t]
    /\ overlapped' = (overlapped \/ \E o \in Receivers : Receiving(o))
    /\ UNCHANGED <<zmq, got, stray>>

\* zmq_getsockopt; one that fails leaves old_to = 0.
RecvSave(r) ==
    /\ rcv[r].pc = "save"
    /\ rcv' = [rcv EXCEPT ![r].pc = "set",
                          ![r].old = IF sock = "open" THEN zmq.rcvtimeo ELSE "zero"]
    /\ Touch(rcv[r])
    /\ UNCHANGED <<zmq, got, overlapped>>

SetTimeout(t) == zmq' = IF sock = "open" THEN [zmq EXCEPT !.rcvtimeo = t] ELSE zmq

RecvSet(r) ==
    /\ rcv[r].pc = "set"
    /\ SetTimeout(rcv[r].asked)
    /\ rcv' = [rcv EXCEPT ![r].pc = "recv"]
    /\ Touch(rcv[r])
    /\ UNCHANGED <<got, overlapped>>

\* zmq_msg_recv looks at ZMQ_RCVTIMEO when it is called.
RecvEnter(r) ==
    /\ rcv[r].pc = "recv"
    /\ rcv' = [rcv EXCEPT ![r].pc = "wait", ![r].limit = zmq.rcvtimeo]
    /\ Touch(rcv[r])
    /\ UNCHANGED <<zmq, got, overlapped>>

RecvTake(r) ==
    /\ sock = "open" /\ zmq.inq # <<>>
    /\ rcv' = [rcv EXCEPT ![r].pc = "restore", ![r].bytes = Head(zmq.inq)]
    /\ zmq' = [zmq EXCEPT !.inq = Tail(@)]

\* RecvStatus::Timeout, or Error: a failing network, or no socket (any more).
RecvNothing(r) ==
    /\ \/ sock = "open" /\ rcv[r].limit # "forever" /\ zmq.inq = <<>>
       \/ sock # "open" \/ "network" \in Faults
    /\ rcv' = [rcv EXCEPT ![r].pc = "restore"]
    /\ UNCHANGED zmq

RecvMsg(r) ==
    /\ rcv[r].pc = "wait"
    /\ RecvTake(r) \/ RecvNothing(r)
    /\ Touch(rcv[r])
    /\ UNCHANGED <<got, overlapped>>

\* Mutated form of Restored: only a call that took a frame restores.
Restored_OnlyOk(r) == IF rcv[r].bytes = <<>> THEN zmq.rcvtimeo ELSE rcv[r].old

\* What ZMQ_RCVTIMEO is set to before recv_base returns.
Restored(r) == rcv[r].old

\* A frame is decoded: RecvStatus::Ok, or Error for one that is malformed.
RecvReturn(r) ==
    /\ rcv[r].pc = "restore"
    /\ SetTimeout(Restored(r))
    /\ LET b == rcv[r].bytes IN
          got' = IF b = <<>> THEN got
                 ELSE Append(got, [bytes |-> b, frame |-> decode_frame(b)])
    /\ rcv' = [rcv EXCEPT ![r] = NoRecv]
    /\ Touch(rcv[r])
    /\ UNCHANGED overlapped

-----------------------------------------------------------------------------
(* connect: the checks are made before the mutex is taken.                 *)

ConnectBegin(c) ==
    /\ con[c] = "idle" /\ Usable
    /\ con' = [con EXCEPT ![c] = "checked"]
    /\ UNCHANGED <<zmq, connected>>

\* Mutated form of Refused: a socket that close() has taken goes unnoticed.
Refused_NotLooked == FALSE

\* zmq_connect finds no socket.
Refused == sock # "open"

\* Under the mutex: zmq_connect (which does nothing about an endpoint that the
\* library has) and connected_; or it fails, also for an invalid URI.
ConnectLocked(c) ==
    /\ con[c] = "checked" /\ cpc # "freed"
    /\ \/ ~Refused /\ zmq' = [zmq EXCEPT !.linked = TRUE] /\ connected' = TRUE
       \/ (Refused \/ "uri" \in Faults) /\ UNCHANGED <<zmq, connected>>
    /\ con' = [con EXCEPT ![c] = "idle"]

-----------------------------------------------------------------------------
(* close, also called by the destructor.  A second call finds closed_ set. *)

\* Mutated form of CloseFlag: closed_ is left as it was.
CloseFlag_Unset == cpc = "idle" /\ cpc' = "flagged" /\ UNCHANGED <<sock, zmq, closed, connected>>

CloseFlag ==
    /\ cpc = "idle"
    /\ closed' = TRUE /\ cpc' = "flagged"
    /\ UNCHANGED <<sock, zmq, connected>>

\* With the mutex: connected_, and zmq_close, which drops what is unsent.
CloseFree ==
    /\ cpc = "flagged"
    /\ connected' = FALSE
    /\ sock' = IF sock = "open" THEN "freed" ELSE sock
    /\ zmq' = [zmq EXCEPT !.linked = FALSE, !.outq = <<>>, !.inq = <<>>]
    /\ cpc' = "freed"
    /\ UNCHANGED closed

\* impl_->socket = nullptr, and the mutex is released.
CloseClear ==
    /\ cpc = "freed"
    /\ sock' = "null" /\ cpc' = "done"
    /\ UNCHANGED <<zmq, closed, connected>>

-----------------------------------------------------------------------------
(* The peer.                                                               *)

PeerReceives ==
    /\ zmq.outq # <<>>
    /\ seen' = Append(seen, Head(zmq.outq)) /\ zmq' = [zmq EXCEPT !.outq = Tail(@)]
    /\ UNCHANGED sent

PeerSends ==
    /\ zmq.linked /\ sent < MaxIn
    /\ \E b \in PeerFrames : zmq' = [zmq EXCEPT !.inq = Append(@, b)]
    /\ sent' = sent + 1
    /\ UNCHANGED seen

-----------------------------------------------------------------------------
Send(s) ==
    /\ SendBegin(s) \/ SendNumber(s) \/ SendMsg(s)
    /\ UNCHANGED <<closed, rcv, con, cpc, got, overlapped>>

Recv(r) ==
    /\ \/ RecvBegin(r) \/ RecvSave(r) \/ RecvSet(r) \/ RecvEnter(r)
       \/ RecvMsg(r) \/ RecvReturn(r)
    /\ UNCHANGED <<sock, closed, connected, next_seq, snd, con, cpc, peer>>

Connect(c) ==
    /\ ConnectBegin(c) \/ ConnectLocked(c)
    /\ UNCHANGED <<sock, closed, next_seq, snd, rcv, cpc, peer, got, stray, overlapped>>

Close ==
    /\ CloseFlag \/ CloseFree \/ CloseClear
    /\ UNCHANGED <<next_seq, snd, rcv, con, peer, got, stray, overlapped>>

Peer ==
    /\ PeerReceives \/ PeerSends
    /\ UNCHANGED <<sock, closed, connected, next_seq, calls, got, stray, overlapped>>

Next ==
    /\ \/ \E s \in Senders \cap cast : Send(s)
       \/ \E r \in Receivers \cap cast : Recv(r)
       \/ \E c \in Connectors \cap cast : Connect(c)
       \/ Close \/ Peer
    /\ UNCHANGED cast

Spec == Init /\ [][Next]_vars

-----------------------------------------------------------------------------
(* Properties; Channel checks them.                                        *)

\* Once close() has returned, is_connected() stays false: a connect() that
\* made its checks before close() and gets the mutex after it must find out.
\* And the freed socket is used only by calls that were under way when close()
\* was called: one that begins later returns before it gets that far, although
\* neither send_base nor recv_base takes the mutex.
ClosedStaysDown == (cpc = "done" => ~connected) /\ ~stray

\* What recv_base returns as a frame is one the peer encoded, field for field
\* (bytes behind the payload are not looked at), and it is returned; a frame
\* that is cut short is an error.
FramesExact ==
    \A i \in DOMAIN got :
        LET whole == {m \in PeerMessages : IsPrefix(encode_frame(m), got[i].bytes)}
        IN  IF whole = {} THEN got[i].frame = Malformed ELSE got[i].frame \in whole

\* Whatever the senders' interleaving, no two frames carry one number, and the
\* peer gets those of one sender in the order of its calls.  (Across senders
\* the numbers may arrive out of order: they are drawn before the send.)
NumbersAscend ==
    \A i, j \in DOMAIN seen :
        i < j => LET m == decode_frame(seen[i])
                     n == decode_frame(seen[j])
                 IN  m.seq # n.seq /\ (m.payload = n.payload => m.seq < n.seq)

\* As long as no two calls of recv_base overlap, each waits with the timeout it
\* was given, and none leaves it behind, whichever way it returns.
TimeoutIsOwn ==
    sock = "open" /\ ~overlapped =>
        /\ \A r \in Receivers : rcv[r].pc = "wait" => rcv[r].limit = rcv[r].asked
        /\ (\A r \in Receivers : ~Receiving(r)) => zmq.rcvtimeo = Default

-----------------------------------------------------------------------------
(* The inductive invariant of ChannelProofs.                               *)

Limits == {"zero", "finite", "forever", Default}
RecvPcs == {"idle", "save", "set", "recv", "wait", "restore"}
SendCalls == [pc : {"idle", "number", "send"}, late : BOOLEAN, prio : Prio, seq : Nat]
RecvCalls == [pc : RecvPcs, late : BOOLEAN, asked : Limits, old : Limits, limit : Limits,
              bytes : PeerFrames \cup {<<>>}]

TypeOK ==
    /\ sock \in {"open", "freed", "null"} /\ cpc \in {"idle", "flagged", "freed", "done"}
    /\ DOMAIN zmq = {"linked", "rcvtimeo", "outq", "inq"}
    /\ zmq.rcvtimeo \in Limits /\ zmq.inq \in Seq(PeerFrames)
    /\ next_seq \in Nat /\ overlapped \in BOOLEAN
    /\ snd \in [Senders -> SendCalls] /\ rcv \in [Receivers -> RecvCalls]

\* A call that got past the check of closed_ began before close() was called.
NoneLate ==
    /\ cpc # "idle" => closed = TRUE
    /\ \A s \in Senders : snd[s].late = FALSE
    /\ \A r \in Receivers : rcv[r].late = FALSE
    /\ stray = FALSE

\* From zmq_close on there is no connection and no socket to make one with.
DownWhenFreed == cpc \in {"freed", "done"} => connected = FALSE /\ sock # "open"

\* While calls of recv_base do not overlap there is one at most,
OneReceives ==
    overlapped = FALSE => \A r, o \in Receivers : Receiving(r) /\ Receiving(o) => r = o

\* and at every point of it the library has the timeout that belongs there.
TimeoutInPlace ==
    sock = "open" /\ overlapped = FALSE =>
        /\ (\A r \in Receivers : ~Receiving(r)) => zmq.rcvtimeo = Default
        /\ \A r \in Receivers :
              /\ rcv[r].pc \in {"save", "set"} => zmq.rcvtimeo = Default
              /\ rcv[r].pc \in {"set", "recv", "wait", "restore"} => rcv[r].old = Default
              /\ rcv[r].pc = "recv" => zmq.rcvtimeo = rcv[r].asked
              /\ rcv[r].pc = "wait" => rcv[r].limit = rcv[r].asked

TcpInv == TypeOK /\ NoneLate /\ DownWhenFreed /\ OneReceives /\ TimeoutInPlace
=============================================================================
