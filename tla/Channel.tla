------------------------------ MODULE Channel ------------------------------
(***************************************************************************)
(* Channel<T> (src/src/ability_b/transport/channel.hpp): the channel a     *)
(* user sees forwards send, recv and close to the one transport it was     *)
(* given, an InprocChannel or a TcpChannel.                                *)
(***************************************************************************)
EXTENDS InprocChannel, SequencesExt

CONSTANTS
    Connectors, Casts, Faults, TcpSeq, MaxIn    \* see TcpChannel

ASSUME TransportAssumption ==
    /\ Connectors \cap (Senders \cup Receivers) = {}
    /\ Casts \subseteq SUBSET (Senders \cup Receivers \cup Connectors)
    /\ Faults \subseteq {"uri", "unreachable", "network"}
    /\ TcpSeq \in Nat /\ MaxIn \in Nat

VARIABLES
    transport,   \* inner_->transport(); the rest are TcpChannel's variables
    cast, sock, zmq, tcpClosed, connected, tcpSeq, snd, rcv, con, tcpClose,
    seen, sent, got, stray, overlapped

T == INSTANCE TcpChannel WITH
        Timeouts <- Timeouts \ {"zero"}, MaxSeq <- TcpSeq, closed <- tcpClosed, next_seq <- tcpSeq, cpc <- tcpClose

\* The numbers of the frames that are sent fit the 8 bytes they have on the wire.
ASSUME NumbersAssumption == T!Above(T!Above(TcpSeq + Cardinality(Senders))) = 0

tcpVars == <<cast, sock, zmq, tcpClosed, connected, tcpSeq, snd, rcv, con, tcpClose,
             seen, sent, got, stray, overlapped>>
channelVars == <<transport, vars, tcpVars>>

ChannelInit ==
    /\ Init
    /\ \/ transport = "Inproc" /\ T!Absent
       \/ transport = "Tcp" /\ T!Init

ChannelNext ==
    /\ \/ transport = "Inproc" /\ Next /\ UNCHANGED tcpVars
       \/ transport = "Tcp" /\ T!Next /\ UNCHANGED vars
    /\ UNCHANGED transport

ChannelSpec == ChannelInit /\ [][ChannelNext]_channelVars /\ Fairness

-----------------------------------------------------------------------------
(* Properties, beside those of InprocChannel.                              *)

\* No connect() outlives close(), see TcpChannel.
ClosedStaysDown == T!ClosedStaysDown

\* Frames come out of recv_base as the peer encoded them, see TcpChannel.
FramesExact == T!FramesExact

\* Frames are numbered once, and in order for each sender, see TcpChannel.
NumbersAscend == T!NumbersAscend

\* A receiver waits with its own timeout, see TcpChannel.
TimeoutIsOwn == T!TimeoutIsOwn
=============================================================================
