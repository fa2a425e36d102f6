---------------------------- MODULE PskHandshake ----------------------------
(***************************************************************************)
(* The PSK handshake and the session after it: PskAuthenticator            *)
(* (src/src/crypto/psk_authenticator.cpp) for a client and a server, with  *)
(* the functions of psk.cpp under it, over a network that loses,           *)
(* duplicates, reorders and damages messages.                              *)
(*                                                                         *)
(* Cryptography is symbolic.  A key pair is determined by the PSK and the  *)
(* salt it was derived from.  A MAC or an AEAD tag verifies if and only if *)
(* it was made with the same key over the same fields, so a response is    *)
(* the record of what its MAC covers, and an encrypted message the record  *)
(* of the keys and of whether it arrived unharmed.                         *)
(***************************************************************************)
EXTENDS Naturals, FiniteSets

CONSTANTS
    Psks, ClientPsk,        \* keys, and the one the client was created with
    Faults,                 \* "duplicate", "damageRequest", "damageResponse",
                            \* "damageData": what the network may do
    MaxBegin,               \* bound: calls of begin_handshake
    MaxNet,                 \* bound: messages under way at a time
    None

ASSUME PskAssumption ==
    /\ ClientPsk \in Psks
    /\ Faults \subseteq {"duplicate", "damageRequest", "damageResponse",
                           "damageData"}
    /\ MaxBegin \in Nat /\ MaxNet \in Nat

\* Values of client_random and salt: number n of the n-th begin_handshake,
\* and one no client drew, which a damaged field reads as.
Drawn == 1 .. MaxBegin
Values == 0 .. MaxBegin

Requests  == [type : {"request"}, random : Values, salt : Values]

\* The salt, random and PSK that its MAC was computed with; whether the fields
\* the MAC covers arrived unharmed (the response's own salt is not one of them).
Responses == [type : {"response"}, psk : Psks, random : Values,
              salt : Values, intact : BOOLEAN]
Cut == [type |-> "cut"]     \* too short to be parsed

DerivedKeys(psk, salt) == [psk |-> psk, salt |-> salt]
KeyPairs == {DerivedKeys(p, s) : p \in Psks, s \in Values}

\* What encrypt returns: nonce, ciphertext and tag.
Data == [type : {"data"}, from : {"client", "server"}, keys : KeyPairs,
         intact : BOOLEAN]

ASSUME NoneAssumption == None \notin Requests \cup KeyPairs

VARIABLES
    serverPsk, \* the key the server was created with
    begun,     \* number of begin_handshake calls
    request,   \* client_request_, None before the first
    client,    \* the client: [done, keys]
    server,    \* the server: [done, keys]
    net,       \* messages under way
    derived,   \* history: every key pair the server derived
    unread     \* history: a party that was done could not decrypt what the
               \* other had encrypted and the network had not damaged

vars == <<serverPsk, begun, request, client, server, net, derived, unread>>

Parties == [done : BOOLEAN, keys : KeyPairs \cup {None}]

TypeOK ==
    /\ serverPsk \in Psks
    /\ begun \in 0 .. MaxBegin
    /\ request \in Requests \cup {None}
    /\ client \in Parties /\ server \in Parties
    /\ client.done <=> client.keys # None
    /\ server.done <=> server.keys # None
    /\ net \subseteq Requests \cup Responses \cup Data \cup {Cut}
    /\ derived \subseteq KeyPairs /\ unread \in BOOLEAN

Init ==
    /\ serverPsk \in Psks
    /\ begun = 0 /\ request = None
    /\ client = [done |-> FALSE, keys |-> None]
    /\ server = [done |-> FALSE, keys |-> None]
    /\ net = {} /\ derived = {} /\ unread = FALSE

-----------------------------------------------------------------------------
(* The network.                                                            *)

Send(m, rest) == /\ Cardinality(rest) < MaxNet
                 /\ net' = rest \cup {m}

Lose(m) ==
    /\ net' = net \ {m}
    /\ UNCHANGED <<begun, request, client, server, derived, unread>>

\* A random or a salt that is damaged is one nobody drew.
DamageRequest(m) ==
    /\ "damageRequest" \in Faults /\ m.type = "request"
    /\ \E bad \in {[m EXCEPT !.random = 0], [m EXCEPT !.salt = 0], Cut} :
          net' = (net \ {m}) \cup {bad}
    /\ UNCHANGED <<begun, request, client, server, derived, unread>>

DamageResponse(m) ==
    /\ "damageResponse" \in Faults /\ m.type = "response"
    /\ \E bad \in {[m EXCEPT !.intact = FALSE], Cut} : net' = (net \ {m}) \cup {bad}
    /\ UNCHANGED <<begun, request, client, server, derived, unread>>

DamageData(m) ==
    /\ "damageData" \in Faults /\ m.type = "data"
    /\ \E bad \in {[m EXCEPT !.intact = FALSE], Cut} : net' = (net \ {m}) \cup {bad}
    /\ UNCHANGED <<begun, request, client, server, derived, unread>>

\* What is left under way when m is delivered: a duplicate may still be.
Left(m) == IF "duplicate" \in Faults THEN {net, net \ {m}} ELSE {net \ {m}}

-----------------------------------------------------------------------------
(* PskAuthenticator.                                                       *)

\* Client.  A new random and salt replace the last request; done_ and keys_
\* stay as they are.
begin_handshake ==
    /\ begun < MaxBegin
    /\ begun' = begun + 1
    /\ request' = [type |-> "request", random |-> begun', salt |-> begun']
    /\ Send(request', net)
    /\ UNCHANGED <<client, server, derived, unread>>

\* Mutated form of ServerSalt: the keys come from the server's own salt.
ServerSalt_Own(m) == MaxBegin + 1

\* The salt psk_derive_session_keys gets: the request's.
ServerSalt(m) == m.salt

\* Server: psk_handshake_server_respond, keys_ and done_.
ServerProcess(m) ==
    /\ m.type = "request"
    /\ \E rest \in Left(m) :
          Send([type |-> "response", psk |-> serverPsk, random |-> m.random,
                salt |-> m.salt, intact |-> TRUE], rest)
    /\ server' = [done |-> TRUE, keys |-> DerivedKeys(serverPsk, ServerSalt(m))]
    /\ derived' = derived \cup {server'.keys}
    /\ UNCHANGED <<begun, request, client, unread>>

\* Mutated form of MacOk: a response made with another PSK is accepted.
MacOk_AnyPsk(m) == m.intact /\ request # None /\ m.random = request.random

\* hmac_sha256_verify and the AEAD tag, for the request of the last begin.
MacOk(m) ==
    /\ m.psk = ClientPsk /\ m.intact
    /\ request # None /\ m.random = request.random /\ m.salt = request.salt

\* psk_handshake_client_finalize: keys_ and done_ change only if all verifies.
ClientKeys(m) ==
    IF MacOk(m) THEN [done |-> TRUE, keys |-> DerivedKeys(ClientPsk, request.salt)]
    ELSE client

ClientProcess(m) ==
    /\ m.type = "response"
    /\ net' \in Left(m)
    /\ client' = ClientKeys(m)
    /\ UNCHANGED <<begun, request, server, derived, unread>>

\* Either side: a message that does not parse.
ProcessCut ==
    /\ Cut \in net
    /\ net' \in Left(Cut)
    /\ UNCHANGED <<begun, request, client, server, derived, unread>>

Party(side) == IF side = "client" THEN client ELSE server

\* NOT_IMPLEMENTED before the handshake is done.
encrypt(side) ==
    /\ Party(side).done
    /\ Send([type |-> "data", from |-> side, keys |-> Party(side).keys,
             intact |-> TRUE], net)
    /\ UNCHANGED <<begun, request, client, server, derived, unread>>

\* psk_aead_decrypt: the tag verifies under enc_key.
Opens(party, m) == m.intact /\ m.keys = party.keys

\* The other side decrypts; it is refused before the handshake is done.
decrypt(m) ==
    /\ m.type = "data"
    /\ net' \in Left(m)
    /\ LET party == Party(IF m.from = "client" THEN "server" ELSE "client")
       IN  unread' = (unread \/ (party.done /\ m.intact /\ ~Opens(party, m)))
    /\ UNCHANGED <<begun, request, client, server, derived>>

Next ==
    /\ \/ begin_handshake
       \/ \E side \in {"client", "server"} : encrypt(side)
       \/ \E m \in net : Lose(m) \/ DamageRequest(m) \/ DamageResponse(m) \/ DamageData(m)
       \/ \E m \in net : ServerProcess(m) \/ ClientProcess(m) \/ decrypt(m)
       \/ ProcessCut
    /\ UNCHANGED serverPsk

Spec == Init /\ [][Next]_vars

-----------------------------------------------------------------------------
(* Properties.                                                             *)

\* The client's handshake is done only with keys that the server derived
\* before, whatever the network did and however often it was begun; so with
\* different PSKs it is never done.
ServerHadKeys == client.done => client.keys \in derived

\* Once both sides are done each reads whatever the other sends, however often
\* and late the messages of the handshake and of the session are delivered, for
\* as long as begin_handshake was called once and no request with a damaged
\* salt came through: both make the server take other keys without the client.
SessionReadable ==
    unread => begun > 1 \/ DerivedKeys(serverPsk, 0) \in derived

\* Why: the server derived the keys of every response under way, of every
\* encrypted message and of either side, from its PSK and the salt of a request
\* that the client began or that was damaged.
ResponsesMade ==
    \A m \in net : m.type = "response" => DerivedKeys(m.psk, m.salt) \in derived

KeysMade ==
    /\ \A m \in net : m.type = "data" => m.keys \in derived
    /\ client.done => client.keys \in derived
    /\ server.done => server.keys \in derived

SaltsBegun ==
    /\ \A m \in net : m.type = "request" => m.salt \in 0 .. begun
    /\ \A k \in derived : k.psk = serverPsk /\ k.salt \in 0 .. begun

SessionInv ==
    /\ TypeOK /\ ServerHadKeys /\ SessionReadable
    /\ ResponsesMade /\ KeysMade /\ SaltsBegun
=============================================================================
