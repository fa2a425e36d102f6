------------------------------ MODULE KeyStore ------------------------------
(***************************************************************************)
(* save_psk_to_file and load_psk_from_file (src/src/crypto/keystore.cpp):  *)
(* a key file is written under a temporary name and renamed.  The file     *)
(* system is two directory entries, the file and its .tmp, that name       *)
(* inodes; a stream keeps its inode when the name moves.  An ofstream      *)
(* buffers the 36 bytes, so they reach the inode when it is closed, after  *)
(* the code has tested good().                                             *)
(***************************************************************************)
EXTENDS Naturals, FiniteSets

CONSTANTS
    Savers,    \* threads or processes that save to the same path
    Keys,      \* PSKs
    Inodes,
    FileFaults,    \* "flush": the write at close may fail; "kill": a saver may die
    Nil

Short == "short"    \* fewer bytes than a magic and a key

ASSUME KeyStoreAssumption ==
    /\ Nil \notin Keys \cup Inodes
    /\ Keys \cap {Short, "TRUNCATED", "BIZ_FILE_NOT_FOUND"} = {}
    /\ Cardinality(Inodes) >= Cardinality(Savers) + 2
    /\ FileFaults \subseteq {"flush", "kill"}

VARIABLES
    file, tmp,   \* the inodes that path and path.tmp name, or Nil
    data,        \* what each inode holds: a key, or Short
    saver,       \* [pc, key, fd] of each saver
    acked,       \* history: the key of the last save, if that returned ok
    spoilt       \* history: inodes that two savers wrote to at a time, that one
                 \* renamed for another, or that a failing close left short

keyVars == <<file, tmp, data, saver, acked, spoilt>>

Idle == [pc |-> "idle", key |-> Nil, fd |-> Nil]

KeyTypeOK ==
    /\ file \in Inodes \cup {Nil} /\ tmp \in Inodes \cup {Nil}
    /\ file = Nil \/ file # tmp
    /\ data \in [Inodes -> Keys \cup {Short}]
    /\ saver \in [Savers -> {Idle} \cup [pc : {"open", "closed"}, key : Keys, fd : Inodes]]
    /\ acked \in Keys \cup {Nil} /\ spoilt \subseteq Inodes

KeyInit ==
    /\ file = Nil /\ tmp = Nil
    /\ data = [i \in Inodes |-> Short]
    /\ saver = [p \in Savers |-> Idle]
    /\ acked = Nil /\ spoilt = {}

-----------------------------------------------------------------------------
(* save_psk_to_file.                                                       *)

Free == Inodes \ ({file, tmp} \cup {saver[p].fd : p \in Savers})

\* Mutated form of Target: the key is written in place.
Target_InPlace == IF file # Nil THEN {file} ELSE Free

\* The inode that opening path.tmp gives: the one it names, or a new one.
Target == IF tmp # Nil THEN {tmp} ELSE Free

\* ofstream(tmp, trunc), and both writes into its buffer.
Open(p, k) ==
    /\ saver[p] = Idle
    /\ \E i \in Target :
          /\ tmp' = i
          /\ data' = [data EXCEPT ![i] = Short]
          /\ saver' = [saver EXCEPT ![p] = [pc |-> "open", key |-> k, fd |-> i]]
          /\ spoilt' = IF \E q \in Savers : saver[q].fd = i
                       THEN spoilt \cup {i} ELSE spoilt \ {i}
    /\ acked' = Nil
    /\ UNCHANGED file

\* The stream is closed and its buffer written.  Nobody looks at the outcome.
Close(p) ==
    /\ saver[p].pc = "open"
    /\ data' = [data EXCEPT ![saver[p].fd] = saver[p].key]
    /\ saver' = [saver EXCEPT ![p].pc = "closed"]
    /\ UNCHANGED <<file, tmp, acked, spoilt>>

CloseFails(p) ==
    /\ "flush" \in FileFaults
    /\ saver[p].pc = "open"
    /\ saver' = [saver EXCEPT ![p].pc = "closed"]
    /\ spoilt' = spoilt \cup {saver[p].fd}
    /\ UNCHANGED <<file, tmp, data, acked>>

\* Mutated form of MayRename: the file is renamed before the stream closes.
MayRename_Open(p) == saver[p].pc = "open"

\* After the block that owns the stream.
MayRename(p) == saver[p].pc = "closed"

\* rename; it fails, with INTERNAL, if somebody has moved path.tmp away.
Rename(p) ==
    /\ MayRename(p)
    /\ IF tmp # Nil
       THEN file' = tmp /\ tmp' = Nil /\ acked' = saver[p].key
       ELSE acked' = Nil /\ UNCHANGED <<file, tmp>>
    /\ saver' = [saver EXCEPT ![p] = Idle]
    /\ spoilt' = IF tmp \in {Nil, saver[p].fd} THEN spoilt ELSE spoilt \cup {tmp}
    /\ UNCHANGED data

\* The process ends; path.tmp stays behind.
Kill(p) ==
    /\ "kill" \in FileFaults
    /\ saver[p] # Idle
    /\ saver' = [saver EXCEPT ![p] = Idle]
    /\ UNCHANGED <<file, tmp, data, acked, spoilt>>

KeyNext ==
    \E p \in Savers :
        \/ \E k \in Keys : Open(p, k)
        \/ Close(p) \/ CloseFails(p) \/ Rename(p) \/ Kill(p)

KeySpec == KeyInit /\ [][KeyNext]_keyVars

-----------------------------------------------------------------------------
(* load_psk_from_file: a missing file, a wrong magic, too few bytes, or    *)
(* the key.                                                                *)

load_psk_from_file ==
    IF file = Nil THEN "BIZ_FILE_NOT_FOUND"
    ELSE IF data[file] = Short THEN "TRUNCATED" ELSE data[file]

-----------------------------------------------------------------------------
(* Properties.                                                             *)

\* Once a key was saved, loading gives a key at every moment: while others
\* are being saved, and after savers were killed at any point; and until the
\* next save begins it is the key whose saving returned ok.  Other than that
\* only if two savers were in each other's way under the one temporary name
\* they share, or if the writing at the close, which nobody looks at, failed.
LoadWhole ==
    file \notin spoilt =>
        /\ load_psk_from_file # "TRUNCATED"
        /\ acked # Nil => load_psk_from_file = acked

-----------------------------------------------------------------------------
(* The inductive invariant of CryptoProofs: inodes that are not spoilt.    *)

\* At most one saver has such an inode open,
OneHolder ==
    \A p, q \in Savers :
        saver[p].fd = saver[q].fd /\ saver[p].fd \in Inodes \ spoilt => p = q

\* it holds the saver's key once the stream is closed,
ClosedIsWhole ==
    \A p \in Savers :
        saver[p].pc = "closed" /\ saver[p].fd \notin spoilt => data[saver[p].fd] = saver[p].key

\* and once it is the file nobody can write to it any more.
FileIsFinal ==
    file \in Inodes \ spoilt =>
        data[file] \in Keys /\ \A p \in Savers : saver[p].fd # file

AckedIsHeld ==
    acked # Nil => /\ file \in Inodes
                   /\ file \notin spoilt => data[file] = acked

KeyInv == KeyTypeOK /\ OneHolder /\ ClosedIsWhole /\ FileIsFinal /\ AckedIsHeld
=============================================================================
