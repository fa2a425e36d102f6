---------------------------- MODULE CryptoProofs ----------------------------
(***************************************************************************)
(* The key file, for any number of savers and keys, and whichever of them  *)
(* are killed at whatever point: a file that no two savers got in each     *)
(* other's way over always loads as a whole key.                           *)
(*                                                                         *)
(* The PSK handshake and its session, for any PSKs, any number of          *)
(* handshakes and messages, and any faults of the network: the client      *)
(* accepts only keys that its server derived, and each side reads what the *)
(* other encrypts as long as there was one handshake.                      *)
(***************************************************************************)
EXTENDS KeyStore, PskHandshake, TLAPS

-----------------------------------------------------------------------------
(* The key file.                                                           *)


\* A saver is idle, and then has no inode, or it holds a key and an inode.
LEMMA SaverType ==
    ASSUME KeyTypeOK, NEW p \in Savers
    PROVE  /\ saver[p] = Idle => saver[p].pc = "idle" /\ saver[p].fd = Nil
           /\ saver[p].fd \in Inodes => saver[p] # Idle
           /\ saver[p] # Idle => /\ saver[p].pc \in {"open", "closed"}
                                 /\ saver[p].key \in Keys /\ saver[p].fd \in Inodes
                                 /\ saver[p] \in [pc : {"open", "closed"}, key : Keys, fd : Inodes]
<1>1. Idle.pc = "idle" /\ Idle.fd = Nil
  BY DEF Idle
<1>2. saver[p] = Idle \/ saver[p] \in [pc : {"open", "closed"}, key : Keys, fd : Inodes]
  BY DEF KeyTypeOK
<1> QED
  BY <1>1, <1>2, KeyStoreAssumption

\* What closing a stream makes of a saver.
LEMMA ClosedSaver ==
    ASSUME NEW r \in [pc : {"open", "closed"}, key : Keys, fd : Inodes]
    PROVE  [r EXCEPT !.pc = "closed"] = [pc |-> "closed", key |-> r.key, fd |-> r.fd]
  OBVIOUS

\* No file, nobody saving.
LEMMA KeyInitially ==
    ASSUME KeyInit PROVE KeyInv
<1>1. KeyTypeOK
  BY DEF KeyInit, KeyTypeOK
<1>2. file \notin Inodes /\ \A p \in Savers : saver[p].pc = "idle" /\ saver[p].fd \notin Inodes
  BY KeyStoreAssumption DEF KeyInit, Idle
<1> QED
  BY <1>1, <1>2 DEF KeyInit, KeyInv, OneHolder, ClosedIsWhole, FileIsFinal, AckedIsHeld

\* A saver opens path.tmp, which is never the file: whoever has that inode
\* open already makes it a spoilt one.
LEMMA OpenStep ==
    ASSUME KeyInv, NEW p \in Savers, NEW k \in Keys, Open(p, k)
    PROVE  KeyInv'
<1> KeyTypeOK
  BY DEF KeyInv
<1> PICK i \in Target :
        /\ tmp' = i
        /\ data' = [data EXCEPT ![i] = Short]
        /\ saver' = [saver EXCEPT ![p] = [pc |-> "open", key |-> k, fd |-> i]]
        /\ spoilt' = IF \E q \in Savers : saver[q].fd = i
                     THEN spoilt \cup {i} ELSE spoilt \ {i}
  BY DEF Open
<1>1. i \in Inodes /\ i # file
  BY DEF Target, Free, KeyTypeOK
<1>2. acked' = Nil /\ file' = file /\ saver[p] = Idle
  BY DEF Open
<1>3. /\ saver'[p].pc = "open" /\ saver'[p].fd = i
      /\ \A q \in Savers \ {p} : saver'[q] = saver[q]
  BY DEF KeyTypeOK
<1>4. KeyTypeOK'
  BY <1>1, <1>2 DEF KeyTypeOK
<1>5. \A j \in Inodes \ {i} : data'[j] = data[j] /\ (j \in spoilt' <=> j \in spoilt)
  BY DEF KeyTypeOK
<1>6. i \notin spoilt' => \A q \in Savers : saver[q].fd # i
  OBVIOUS
<1>7. OneHolder'
  <2> SUFFICES ASSUME NEW q \in Savers, NEW r \in Savers, saver'[q].fd = saver'[r].fd,
                      saver'[q].fd \in Inodes, saver'[q].fd \notin spoilt'
               PROVE  q = r
    BY DEF OneHolder
  <2>1. CASE saver'[q].fd = i
    BY <2>1, <1>3, <1>6
  <2>2. CASE saver'[q].fd # i
    BY <2>2, <1>3, <1>5 DEF KeyInv, OneHolder
  <2> QED
    BY <2>1, <2>2
<1>8. ClosedIsWhole'
  <2> SUFFICES ASSUME NEW q \in Savers, saver'[q].pc = "closed", saver'[q].fd \notin spoilt'
               PROVE  data'[saver'[q].fd] = saver'[q].key
    BY DEF ClosedIsWhole
  <2>1. q # p /\ saver'[q] = saver[q]
    BY <1>3
  <2>2. saver[q].fd \in Inodes /\ saver[q].fd # i
    BY <2>1, <1>6, SaverType
  <2> QED
    BY <2>1, <2>2, <1>5 DEF KeyInv, ClosedIsWhole
<1>9. FileIsFinal'
  BY <1>1, <1>2, <1>3, <1>5 DEF KeyInv, FileIsFinal
<1> QED
  BY <1>2, <1>4, <1>7, <1>8, <1>9 DEF KeyInv, AckedIsHeld

\* The bytes arrive: the inode is nobody else's, or it is a spoilt one.
LEMMA CloseStep ==
    ASSUME KeyInv, NEW p \in Savers, Close(p)
    PROVE  KeyInv'
<1> KeyTypeOK
  BY DEF KeyInv
<1> DEFINE i == saver[p].fd
<1>1. saver[p].pc = "open" /\ saver[p] # Idle
  BY DEF Close, Idle
<1>2. i \in Inodes /\ saver[p].key \in Keys
  BY <1>1, SaverType
<1>3. /\ saver' = [saver EXCEPT ![p] = [pc |-> "closed", key |-> saver[p].key, fd |-> i]]
      /\ data' = [data EXCEPT ![i] = saver[p].key]
      /\ UNCHANGED <<file, tmp, acked, spoilt>>
  <2>1. saver' = [saver EXCEPT ![p] = [saver[p] EXCEPT !.pc = "closed"]]
    BY DEF Close
  <2>2. [saver[p] EXCEPT !.pc = "closed"] = [pc |-> "closed", key |-> saver[p].key, fd |-> i]
    BY <1>1, SaverType, ClosedSaver
  <2> QED
    BY <2>1, <2>2 DEF Close
<1>4. KeyTypeOK'
  BY <1>2, <1>3 DEF KeyTypeOK
<1>5. /\ saver'[p].key = saver[p].key /\ data'[i] = saver[p].key
      /\ \A q \in Savers : saver'[q].fd = saver[q].fd
      /\ \A q \in Savers \ {p} : saver'[q] = saver[q]
  BY <1>2, <1>3 DEF KeyTypeOK
<1>6. OneHolder'
  BY <1>3, <1>5 DEF KeyInv, OneHolder
<1>7. ClosedIsWhole'
  <2> SUFFICES ASSUME NEW q \in Savers, saver'[q].pc = "closed", saver[q].fd \notin spoilt
               PROVE  data'[saver[q].fd] = saver'[q].key
    BY <1>3, <1>5 DEF ClosedIsWhole
  <2>1. CASE q = p
    BY <2>1, <1>5
  <2>2. CASE q # p
    <3>1. saver[q].pc = "closed" /\ saver[q].fd # i
      BY <2>2, <1>2, <1>5 DEF KeyInv, OneHolder
    <3> QED
      BY <2>2, <3>1, <1>3, <1>5, SaverType DEF KeyInv, ClosedIsWhole, KeyTypeOK, Idle
  <2> QED
    BY <2>1, <2>2
<1>8. file \in Inodes \ spoilt => data'[file] = data[file]
  BY <1>3 DEF KeyInv, FileIsFinal, KeyTypeOK
<1>9. FileIsFinal' /\ AckedIsHeld'
  BY <1>3, <1>5, <1>8 DEF KeyInv, FileIsFinal, AckedIsHeld
<1> QED
  BY <1>4, <1>6, <1>7, <1>9 DEF KeyInv

\* The write fails and nobody looks: the inode is spoilt.
LEMMA CloseFailsStep ==
    ASSUME KeyInv, NEW p \in Savers, CloseFails(p)
    PROVE  KeyInv'
<1> KeyTypeOK
  BY DEF KeyInv
<1>1. saver[p].pc = "open" /\ saver[p] # Idle
  BY DEF CloseFails, Idle
<1>2. saver[p].fd \in Inodes /\ saver[p].key \in Keys
  BY <1>1, SaverType
<1>3. /\ saver' = [saver EXCEPT ![p] = [pc |-> "closed", key |-> saver[p].key,
                                        fd |-> saver[p].fd]]
      /\ spoilt' = spoilt \cup {saver[p].fd} /\ UNCHANGED <<file, tmp, data, acked>>
  <2>1. saver' = [saver EXCEPT ![p] = [saver[p] EXCEPT !.pc = "closed"]]
    BY DEF CloseFails
  <2>2. [saver[p] EXCEPT !.pc = "closed"]
            = [pc |-> "closed", key |-> saver[p].key, fd |-> saver[p].fd]
    BY <1>1, SaverType, ClosedSaver
  <2> QED
    BY <2>1, <2>2 DEF CloseFails
<1>4. KeyTypeOK'
  BY <1>2, <1>3 DEF KeyTypeOK
<1>5. /\ \A q \in Savers : saver'[q].fd = saver[q].fd
      /\ \A q \in Savers \ {p} : saver'[q] = saver[q]
  BY <1>3 DEF KeyTypeOK
<1> QED
  BY <1>3, <1>4, <1>5 DEF KeyInv, OneHolder, ClosedIsWhole, FileIsFinal, AckedIsHeld

\* The saver lets go of its inode, whatever happened.
LEMMA SaverGone ==
    ASSUME KeyTypeOK, NEW p \in Savers, saver' = [saver EXCEPT ![p] = Idle]
    PROVE  /\ saver' \in [Savers -> {Idle} \cup [pc : {"open", "closed"}, key : Keys, fd : Inodes]]
           /\ saver'[p].pc = "idle" /\ saver'[p].fd \notin Inodes
           /\ \A q \in Savers \ {p} : saver'[q] = saver[q]
<1>1. Idle.pc = "idle" /\ Idle.fd = Nil
  BY DEF Idle
<1> QED
  BY <1>1, KeyStoreAssumption DEF KeyTypeOK

\* The temporary file becomes the file.  Only its one saver can have got here
\* with an inode that is not spoilt, and it has no other holder then.
LEMMA RenameStep ==
    ASSUME KeyInv, NEW p \in Savers, Rename(p)
    PROVE  KeyInv'
<1> KeyTypeOK
  BY DEF KeyInv
<1>1. saver[p].pc = "closed" /\ saver[p] # Idle /\ data' = data
      /\ saver' = [saver EXCEPT ![p] = Idle]
  BY DEF Rename, MayRename, Idle
<1>2. saver[p].fd \in Inodes /\ saver[p].key \in Keys
  BY <1>1, SaverType
<1>3. /\ saver'[p].pc = "idle" /\ saver'[p].fd \notin Inodes
      /\ \A q \in Savers \ {p} : saver'[q] = saver[q]
  BY <1>1, SaverGone
<1>4. spoilt \subseteq spoilt' /\ spoilt' \subseteq Inodes
  BY DEF Rename, KeyTypeOK
<1>5. OneHolder'
  BY <1>3, <1>4 DEF KeyInv, OneHolder
<1>6. ClosedIsWhole'
  BY <1>1, <1>3, <1>4 DEF KeyInv, ClosedIsWhole
<1>7. CASE tmp = Nil
  <2>1. UNCHANGED <<file, tmp>> /\ acked' = Nil
    BY <1>7 DEF Rename
  <2>2. KeyTypeOK'
    BY <2>1, <1>1, <1>4, SaverGone DEF KeyTypeOK
  <2>3. FileIsFinal'
    BY <2>1, <1>1, <1>3, <1>4 DEF KeyInv, FileIsFinal
  <2> QED
    BY <2>1, <2>2, <2>3, <1>5, <1>6 DEF KeyInv, AckedIsHeld
<1>8. CASE tmp # Nil
  <2>1. file' = tmp /\ tmp' = Nil /\ acked' = saver[p].key /\ tmp \in Inodes
    BY <1>8 DEF Rename, KeyTypeOK
  <2>2. KeyTypeOK'
    BY <2>1, <1>1, <1>2, <1>4, SaverGone, KeyStoreAssumption DEF KeyTypeOK
  <2>3. tmp \notin spoilt' => tmp = saver[p].fd /\ tmp \notin spoilt
    BY <1>8, <1>4 DEF Rename
  <2>4. tmp \notin spoilt' => data[tmp] = saver[p].key
    BY <2>3, <1>1 DEF KeyInv, ClosedIsWhole
  <2>5. tmp \notin spoilt' => \A q \in Savers : saver'[q].fd # tmp
    BY <2>1, <2>3, <1>3 DEF KeyInv, OneHolder
  <2> QED
    BY <2>1, <2>2, <2>4, <2>5, <1>1, <1>2, <1>5, <1>6 DEF KeyInv, FileIsFinal, AckedIsHeld
<1> QED
  BY <1>7, <1>8

LEMMA KillStep ==
    ASSUME KeyInv, NEW p \in Savers, Kill(p)
    PROVE  KeyInv'
<1> KeyTypeOK
  BY DEF KeyInv
<1>1. saver' = [saver EXCEPT ![p] = Idle] /\ UNCHANGED <<file, tmp, data, acked, spoilt>>
  BY DEF Kill
<1>2. KeyTypeOK'
  BY <1>1, SaverGone DEF KeyTypeOK
<1>3. /\ saver'[p].pc = "idle" /\ saver'[p].fd \notin Inodes
      /\ \A q \in Savers \ {p} : saver'[q] = saver[q]
  BY <1>1, SaverGone
<1>4. OneHolder'
  BY <1>1, <1>3 DEF KeyInv, OneHolder
<1>5. ClosedIsWhole'
  BY <1>1, <1>3 DEF KeyInv, ClosedIsWhole
<1>6. FileIsFinal' /\ AckedIsHeld'
  BY <1>1, <1>3 DEF KeyInv, FileIsFinal, AckedIsHeld
<1> QED
  BY <1>2, <1>4, <1>5, <1>6 DEF KeyInv

\* The invariant of the key file and of the inodes that savers have open.
THEOREM KeyInvariant == KeySpec => []KeyInv
<1>1. KeyInit => KeyInv
  BY KeyInitially
<1>2. KeyInv /\ [KeyNext]_keyVars => KeyInv'
  <2> SUFFICES ASSUME KeyInv, [KeyNext]_keyVars PROVE KeyInv'
    OBVIOUS
  <2>1. ASSUME NEW p \in Savers,
               \/ \E k \in Keys : Open(p, k)
               \/ Close(p) \/ CloseFails(p) \/ Rename(p) \/ Kill(p)
        PROVE  KeyInv'
    BY <2>1, OpenStep, CloseStep, CloseFailsStep, RenameStep, KillStep
  <2>2. CASE UNCHANGED keyVars
    BY <2>2 DEF keyVars, KeyInv, KeyTypeOK, OneHolder, ClosedIsWhole, FileIsFinal, AckedIsHeld
  <2> QED
    BY <2>1, <2>2 DEF KeyNext
<1> QED
  BY <1>1, <1>2, PTL DEF KeySpec

\* Loading a saved key gives a whole key at every moment, the acknowledged one
\* until another save begins (save_psk_to_file, load_psk_from_file).
THEOREM LoadsAreWhole == KeySpec => []LoadWhole
<1>1. KeyInv => LoadWhole
  <2> SUFFICES ASSUME KeyInv, file \notin spoilt
               PROVE  /\ load_psk_from_file # "TRUNCATED"
                      /\ acked # Nil => load_psk_from_file = acked
    BY DEF LoadWhole
  <2>1. CASE file = Nil
    BY <2>1, KeyStoreAssumption DEF KeyInv, AckedIsHeld, load_psk_from_file
  <2>2. CASE file # Nil
    <3>1. file \in Inodes /\ data[file] \in Keys
      BY <2>2 DEF KeyInv, KeyTypeOK, FileIsFinal
    <3>2. load_psk_from_file = data[file] /\ data[file] # "TRUNCATED"
      BY <3>1, <2>2, KeyStoreAssumption DEF load_psk_from_file
    <3> QED
      BY <3>2 DEF KeyInv, AckedIsHeld
  <2> QED
    BY <2>1, <2>2
<1> QED
  BY <1>1, KeyInvariant, PTL

-----------------------------------------------------------------------------
(* The handshake and its session.                                          *)


Messages == Requests \cup Responses \cup Data \cup {Cut}

\* The type of a message tells which of its kinds it is.
LEMMA KindByType ==
    ASSUME NEW m \in Messages
    PROVE  /\ m.type = "request"  => m \in Requests
           /\ m.type = "response" => m \in Responses
           /\ m.type = "data"     => m \in Data
  BY DEF Messages, Requests, Responses, Data, Cut

\* Keys are what they are derived from.
LEMMA KeysType ==
    ASSUME NEW p \in Psks, NEW s \in Values
    PROVE  /\ DerivedKeys(p, s) \in KeyPairs /\ DerivedKeys(p, s) # None
           /\ DerivedKeys(p, s).psk = p /\ DerivedKeys(p, s).salt = s
<1>1. DerivedKeys(p, s) \in KeyPairs
  BY DEF KeyPairs
<1> QED
  BY <1>1, NoneAssumption DEF DerivedKeys

LEMMA KeysExtensional ==
    ASSUME NEW k \in KeyPairs PROVE k = DerivedKeys(k.psk, k.salt)
  BY DEF KeyPairs, DerivedKeys

\* What is left when a message is delivered, and sending one.
LEMMA LeftSmaller ==
    ASSUME NEW m, NEW rest \in Left(m) PROVE rest \subseteq net
  BY DEF Left

\* Both parties as created, and nothing under way.
LEMMA SessionInit ==
    ASSUME Init PROVE SessionInv
<1>1. begun \in 0 .. MaxBegin
  BY PskAssumption DEF Init
<1>2. client \in Parties /\ server \in Parties
  BY DEF Init, Parties
<1>3. client.done = FALSE /\ client.keys = None /\ server.done = FALSE /\ server.keys = None
  BY DEF Init
<1>4. TypeOK
  BY <1>1, <1>2, <1>3 DEF Init, TypeOK
<1> QED
  BY <1>3, <1>4
  DEF Init, SessionInv, ServerHadKeys, SessionReadable, ResponsesMade, KeysMade, SaltsBegun

\* A message that is lost, repeated or does not parse changes nothing else.
LEMMA LessUnderWay ==
    ASSUME SessionInv, net' \subseteq net,
           UNCHANGED <<serverPsk, begun, request, client, server, derived, unread>>
    PROVE  SessionInv'
  BY DEF SessionInv, TypeOK, ServerHadKeys, SessionReadable, ResponsesMade, KeysMade,
         SaltsBegun

\* A message is sent, or takes the place of another, that agrees with the rest.
LEMMA OneUnderWay ==
    ASSUME SessionInv, NEW new \in Messages, net' \subseteq net \cup {new},
           new.type = "response" => DerivedKeys(new.psk, new.salt) \in derived,
           new.type = "data" => new.keys \in derived,
           new.type = "request" => new.salt \in 0 .. begun,
           UNCHANGED <<serverPsk, begun, request, client, server, derived, unread>>
    PROVE  SessionInv'
  BY DEF SessionInv, TypeOK, ServerHadKeys, SessionReadable, ResponsesMade, KeysMade,
         SaltsBegun, Messages

LEMMA DamageStep ==
    ASSUME SessionInv, UNCHANGED serverPsk, NEW m \in net,
           DamageRequest(m) \/ DamageResponse(m) \/ DamageData(m)
    PROVE  SessionInv'
<1>1. m \in Messages
  BY DEF SessionInv, TypeOK, Messages
<1>2. Cut \in Messages /\ Cut.type = "cut"
  BY DEF Messages, Cut
<1>3. begun \in Nat
  BY PskAssumption DEF SessionInv, TypeOK
<1>4. CASE DamageRequest(m)
  <2>1. m \in Requests
    BY <1>1, <1>4, KindByType DEF DamageRequest
  <2>2. PICK bad \in {[m EXCEPT !.random = 0], [m EXCEPT !.salt = 0], Cut} :
            net' = (net \ {m}) \cup {bad}
    BY <1>4 DEF DamageRequest
  <2>3. m.salt \in 0 .. begun
    BY <1>4 DEF DamageRequest, SessionInv, SaltsBegun
  <2>4. \/ bad = Cut
        \/ bad \in Requests /\ bad.type = "request" /\ bad.salt \in 0 .. begun
    BY <1>3, <2>1, <2>2, <2>3, PskAssumption DEF Requests, Values
  <2> QED
    BY <1>2, <1>4, <2>2, <2>4, OneUnderWay DEF DamageRequest, Messages
<1>5. CASE DamageResponse(m)
  <2>1. m \in Responses
    BY <1>1, <1>5, KindByType DEF DamageResponse
  <2>2. PICK bad \in {[m EXCEPT !.intact = FALSE], Cut} : net' = (net \ {m}) \cup {bad}
    BY <1>5 DEF DamageResponse
  <2>3. \/ bad = Cut
        \/ bad \in Responses /\ bad.type = "response" /\ bad.psk = m.psk /\ bad.salt = m.salt
    BY <2>1, <2>2 DEF Responses
  <2>4. DerivedKeys(m.psk, m.salt) \in derived
    BY <1>5 DEF DamageResponse, SessionInv, ResponsesMade
  <2> QED
    BY <1>2, <1>5, <2>2, <2>3, <2>4, OneUnderWay DEF DamageResponse, Messages
<1>6. CASE DamageData(m)
  <2>1. m \in Data
    BY <1>1, <1>6, KindByType DEF DamageData
  <2>2. PICK bad \in {[m EXCEPT !.intact = FALSE], Cut} : net' = (net \ {m}) \cup {bad}
    BY <1>6 DEF DamageData
  <2>3. \/ bad = Cut
        \/ bad \in Data /\ bad.type = "data" /\ bad.keys = m.keys
    BY <2>1, <2>2 DEF Data
  <2>4. m.keys \in derived
    BY <1>6 DEF DamageData, SessionInv, KeysMade
  <2> QED
    BY <1>2, <1>6, <2>2, <2>3, <2>4, OneUnderWay DEF DamageData, Messages
<1> QED
  BY <1>4, <1>5, <1>6

\* begin_handshake draws the next number, which the request carries as its salt.
LEMMA BeginStep ==
    ASSUME SessionInv, UNCHANGED serverPsk, begin_handshake PROVE SessionInv'
<1>1. begun \in 0 .. MaxBegin /\ begun < MaxBegin /\ begun' = begun + 1
  BY DEF begin_handshake, SessionInv, TypeOK
<1>2. begun \in Nat /\ begun' \in 0 .. MaxBegin /\ 0 .. begun \subseteq 0 .. begun'
  BY <1>1, PskAssumption
<1>3. /\ request' = [type |-> "request", random |-> begun', salt |-> begun']
      /\ net' = net \cup {request'}
      /\ UNCHANGED <<client, server, derived, unread>>
  BY DEF begin_handshake, Send
<1>4. /\ request' \in Requests /\ request'.type = "request"
      /\ request'.salt \in 0 .. begun'
  BY <1>1, <1>2, <1>3 DEF Requests, Values
<1>5. TypeOK'
  BY <1>2, <1>3, <1>4 DEF SessionInv, TypeOK
<1>6. ResponsesMade' /\ KeysMade'
  BY <1>3, <1>4 DEF SessionInv, ResponsesMade, KeysMade
<1>7. SaltsBegun'
  BY <1>2, <1>3, <1>4 DEF SessionInv, SaltsBegun
<1>8. ServerHadKeys' /\ SessionReadable'
  BY <1>1, <1>2, <1>3 DEF SessionInv, ServerHadKeys, SessionReadable
<1> QED
  BY <1>5, <1>6, <1>7, <1>8 DEF SessionInv

\* The server derives its keys before it responds.
LEMMA ServerStep ==
    ASSUME SessionInv, UNCHANGED serverPsk, NEW m \in net, ServerProcess(m)
    PROVE  SessionInv'
<1>1. m \in Requests /\ m.salt \in 0 .. begun
  BY KindByType DEF ServerProcess, SessionInv, TypeOK, Messages, SaltsBegun
<1>2. m.salt \in Values /\ m.random \in Values /\ serverPsk \in Psks
  BY <1>1 DEF Requests, SessionInv, TypeOK
<1> DEFINE made == DerivedKeys(serverPsk, m.salt)
           answer == [type |-> "response", psk |-> serverPsk, random |-> m.random,
                      salt |-> m.salt, intact |-> TRUE]
<1>3. /\ net' \subseteq net \cup {answer}
      /\ server' = [done |-> TRUE, keys |-> made]
      /\ derived' = derived \cup {made}
      /\ UNCHANGED <<begun, request, client, unread>>
  BY LeftSmaller DEF ServerProcess, Send, ServerSalt
<1>4. /\ answer \in Responses /\ answer.type = "response"
      /\ answer.psk = serverPsk /\ answer.salt = m.salt
  BY <1>2 DEF Responses
<1>5. /\ made \in KeyPairs /\ made # None
      /\ made.psk = serverPsk /\ made.salt = m.salt
  BY <1>2, KeysType
<1>6. server' \in Parties /\ server'.done = TRUE /\ server'.keys = made
  BY <1>3, <1>5 DEF Parties
<1> HIDE DEF made, answer
<1>7. TypeOK'
  BY <1>3, <1>4, <1>5, <1>6 DEF SessionInv, TypeOK
<1>8. ResponsesMade'
  BY <1>3, <1>4 DEF SessionInv, ResponsesMade, made
<1>9. KeysMade' /\ ServerHadKeys' /\ SessionReadable'
  BY <1>3, <1>4, <1>6 DEF SessionInv, KeysMade, ServerHadKeys, SessionReadable
<1>10. SaltsBegun'
  BY <1>1, <1>3, <1>4, <1>5 DEF SessionInv, SaltsBegun
<1> QED
  BY <1>7, <1>8, <1>9, <1>10 DEF SessionInv

\* The client takes the keys of a response that verifies: the server's.
LEMMA ClientStep ==
    ASSUME SessionInv, UNCHANGED serverPsk, NEW m \in net, ClientProcess(m)
    PROVE  SessionInv'
<1>1. /\ net' \subseteq net /\ client' = ClientKeys(m)
      /\ UNCHANGED <<begun, request, server, derived, unread>>
  BY LeftSmaller DEF ClientProcess
<1>2. DerivedKeys(m.psk, m.salt) \in derived
  BY DEF ClientProcess, SessionInv, ResponsesMade
<1>3. CASE ~MacOk(m)
  BY <1>1, <1>3, LessUnderWay DEF ClientKeys
<1>4. CASE MacOk(m)
  <2>1. client' = [done |-> TRUE, keys |-> DerivedKeys(m.psk, m.salt)]
    BY <1>1, <1>4 DEF ClientKeys, MacOk
  <2>2. m \in Responses
    BY KindByType DEF ClientProcess, SessionInv, TypeOK, Messages
  <2>3. DerivedKeys(m.psk, m.salt) \in KeyPairs /\ DerivedKeys(m.psk, m.salt) # None
    BY <2>2, KeysType DEF Responses
  <2>4. /\ client' \in Parties /\ client'.done = TRUE
        /\ client'.keys = DerivedKeys(m.psk, m.salt)
    BY <2>1, <2>3 DEF Parties
  <2>5. TypeOK'
    BY <1>1, <2>3, <2>4 DEF SessionInv, TypeOK
  <2>6. ResponsesMade' /\ KeysMade' /\ SaltsBegun' /\ ServerHadKeys' /\ SessionReadable'
    BY <1>1, <1>2, <2>4
    DEF SessionInv, ResponsesMade, KeysMade, SaltsBegun, ServerHadKeys, SessionReadable
  <2> QED
    BY <2>5, <2>6 DEF SessionInv
<1> QED
  BY <1>3, <1>4

\* A party encrypts with its keys, which the server derived.
LEMMA EncryptStep ==
    ASSUME SessionInv, UNCHANGED serverPsk, NEW side \in {"client", "server"}, encrypt(side)
    PROVE  SessionInv'
<1> DEFINE new == [type |-> "data", from |-> side, keys |-> Party(side).keys,
                   intact |-> TRUE]
<1>1. Party(side).keys \in KeyPairs /\ Party(side).keys \in derived
  BY DEF encrypt, Party, SessionInv, TypeOK, KeysMade
<1>2. new \in Data /\ new.type = "data" /\ new.keys = Party(side).keys
  BY <1>1 DEF Data
<1>3. /\ net' = net \cup {new}
      /\ UNCHANGED <<begun, request, client, server, derived, unread>>
  BY DEF encrypt, Send
<1> HIDE DEF new
<1> QED
  BY <1>1, <1>2, <1>3, OneUnderWay DEF Messages

\* While there was one handshake and no damaged salt came through, the server
\* derived one pair of keys, and nobody has others.
LEMMA OnePair ==
    ASSUME SessionInv, begun <= 1, DerivedKeys(serverPsk, 0) \notin derived,
           NEW j \in derived, NEW k \in derived
    PROVE  j = k
<1>1. \A l \in derived : l = DerivedKeys(serverPsk, 1)
  <2> TAKE l \in derived
  <2>1. l \in KeyPairs /\ l.psk = serverPsk /\ l.salt \in 0 .. begun
    BY DEF SessionInv, TypeOK, SaltsBegun
  <2>2. l = DerivedKeys(serverPsk, l.salt)
    BY <2>1, KeysExtensional
  <2>3. begun \in Nat
    BY PskAssumption DEF SessionInv, TypeOK
  <2>4. l.salt = 0 \/ l.salt = 1
    BY <2>1, <2>3
  <2> QED
    BY <2>2, <2>4
<1> QED
  BY <1>1

\* So what a party that is done cannot decrypt was encrypted after another
\* handshake or a damaged request.
LEMMA DecryptStep ==
    ASSUME SessionInv, UNCHANGED serverPsk, NEW m \in net, decrypt(m)
    PROVE  SessionInv'
<1> DEFINE party == Party(IF m.from = "client" THEN "server" ELSE "client")
<1>1. /\ net' \subseteq net /\ m.type = "data"
      /\ unread' = (unread \/ (party.done /\ m.intact /\ ~Opens(party, m)))
      /\ UNCHANGED <<begun, request, client, server, derived>>
  BY LeftSmaller DEF decrypt
<1>2. begun \in Nat
  BY PskAssumption DEF SessionInv, TypeOK
<1>3. party.done => party.keys \in derived
  BY DEF Party, SessionInv, KeysMade
<1>4. m.keys \in derived
  BY <1>1 DEF SessionInv, KeysMade
<1> HIDE DEF party
<1>5. SessionReadable'
  <2> SUFFICES ASSUME unread', ~(begun > 1), DerivedKeys(serverPsk, 0) \notin derived
               PROVE  FALSE
    BY <1>1 DEF SessionReadable
  <2>1. begun <= 1
    BY <1>2
  <2>2. ~unread
    BY <2>1, <1>2 DEF SessionInv, SessionReadable
  <2>3. party.done /\ m.intact /\ m.keys # party.keys
    BY <1>1, <2>2 DEF Opens
  <2> QED
    BY <1>3, <1>4, <2>1, <2>3, OnePair
<1>6. TypeOK'
  <2>1. unread' \in BOOLEAN
    BY <1>1, Zenon DEF SessionInv, TypeOK
  <2> QED
    BY <1>1, <2>1 DEF SessionInv, TypeOK
<1>7. ResponsesMade' /\ KeysMade' /\ SaltsBegun' /\ ServerHadKeys'
  BY <1>1 DEF SessionInv, ResponsesMade, KeysMade, SaltsBegun, ServerHadKeys
<1> QED
  BY <1>5, <1>6, <1>7 DEF SessionInv

\* Whatever the parties and the network do keeps the invariant.
LEMMA SessionStep ==
    ASSUME SessionInv, [Next]_vars PROVE SessionInv'
<1>1. CASE Next
  <2>1. UNCHANGED serverPsk
    BY <1>1 DEF Next
  <2>2. ASSUME NEW m \in net, Lose(m) PROVE SessionInv'
    BY <2>1, <2>2, LessUnderWay DEF Lose
  <2>3. ASSUME ProcessCut PROVE SessionInv'
    BY <2>1, <2>3, LeftSmaller, LessUnderWay DEF ProcessCut
  <2> QED
    BY <1>1, <2>1, <2>2, <2>3, BeginStep, EncryptStep, DamageStep, ServerStep, ClientStep,
       DecryptStep DEF Next
<1>2. CASE UNCHANGED vars
  BY <1>2, LessUnderWay DEF vars
<1> QED
  BY <1>1, <1>2

\* psk_authenticator.cpp: the invariant holds however messages are lost,
\* repeated, reordered or damaged.
THEOREM SessionInvariant == Spec => []SessionInv
<1>1. Init => SessionInv
  BY SessionInit
<1>2. SessionInv /\ [Next]_vars => SessionInv'
  BY SessionStep
<1> QED
  BY <1>1, <1>2, PTL DEF Spec

\* A client that is done has keys that its server derived before.
COROLLARY ClientKeysFromServer == Spec => []ServerHadKeys
<1>1. SessionInv => ServerHadKeys
  BY DEF SessionInv
<1> QED
  BY <1>1, SessionInvariant, PTL

\* Each side reads what the other encrypts, after one handshake.
COROLLARY SessionIsReadable == Spec => []SessionReadable
<1>1. SessionInv => SessionReadable
  BY DEF SessionInv
<1> QED
  BY <1>1, SessionInvariant, PTL
=============================================================================
