-------------------------------- MODULE Wal --------------------------------
(***************************************************************************)
(* The write-ahead log of src/src/platform/fs/wal.cpp: one append-only     *)
(* file behind a mutex, reopened and scanned after every restart.          *)
(*                                                                         *)
(* The mutex makes every public call atomic with respect to the others, so *)
(* a call is one action.  What can come between the writes of one call is  *)
(* a failure: a short write, an fsync error, the death of the process or a *)
(* power loss.  Each is its own action, and env.faults says which of them  *)
(* a behaviour admits.                                                     *)
(*                                                                         *)
(* A record of the file is an entry (header, action, payload) or what a    *)
(* failed write left of one:                                               *)
(*   "ok"    the whole entry;                                              *)
(*   "stub"  fewer than the 8 bytes of magic and schema: no reader accepts *)
(*           it as a header, whatever follows it;                          *)
(*   "body"  the whole 40-byte header, sequence number included, and only  *)
(*           a part of action and payload.                                 *)
(* All entries of a model have the same length, so a reader that jumps     *)
(* over a "body" record into its successor never lands on a header.        *)
(***************************************************************************)
EXTENDS Naturals, Sequences, FiniteSets

CONSTANTS
    Settings,        \* the configurations and environments considered
    MaxAttempts      \* bound: number of appends attempted

ASSUME WalAssumption ==
    /\ MaxAttempts \in Nat
    /\ \A e \in Settings :
          /\ e.max_entries \in Nat /\ e.max_size \in Nat
          /\ e.fsync_on_append \in BOOLEAN
          /\ e.faults \subseteq {"write", "fsync", "kill", "power"}
          /\ e.calls \subseteq {"truncate", "truncate_all"}

VARIABLES
    env,          \* config_ (max_entries, max_size in the units below, 0: no
                  \* limit; fsync_on_append), the failures that may happen
                  \* and the maintenance calls the clients make
    hdr,          \* first 16 bytes of the file, see Headers
    file,         \* the records after them
    disk,         \* [hdr, file] at the last successful fsync
    floor,        \* leading records of file that no power loss takes away
    up,           \* a Wal object has the file open
    next_seq,     \* next_seq_
    entry_count,  \* entry_count_
    size,         \* size_bytes_
    attempts,     \* history: appends attempted; numbers the entries
    acked,        \* history: [id, seq] of every append that returned Ok
    live,         \* history: those of acked that no truncate was asked to drop
    safe          \* history: those of live appended to an undamaged file

mem  == <<next_seq, entry_count, size>>
hist == <<attempts, acked, live, safe>>
vars == <<env, hdr, file, disk, floor, up, mem, hist>>

(***************************************************************************)
(* What the first 16 bytes of the file are:                                *)
(*   "absent"  there is no file;                                           *)
(*   "empty"   open(O_CREAT) happened, write_file_header did not;          *)
(*   "ok"      the file header;                                            *)
(*   "alias"   the head of an entry that was appended to an "empty" file:  *)
(*             it has the magic and the schema of a file header;           *)
(*   "bad"     zeros, left by ftruncate of an "empty" file to 16 bytes.    *)
(***************************************************************************)
Headers == {"absent", "empty", "ok", "alias", "bad"}
Kinds   == {"ok", "stub", "body"}
Records == [id : Nat, seq : Nat, kind : Kinds]
Acks    == [id : Nat, seq : Nat]
Images  == [hdr : Headers, file : Seq(Records)]

TypeOK ==
    /\ hdr \in Headers /\ file \in Seq(Records) /\ disk \in Images
    /\ floor \in Nat /\ up \in BOOLEAN
    /\ next_seq \in Nat /\ entry_count \in Nat /\ size \in Nat
    /\ attempts \in Nat
    /\ acked \subseteq Acks /\ live \subseteq acked /\ safe \subseteq live

-----------------------------------------------------------------------------
(* Sizes, in units: the file header 1, a whole entry 3, less if torn.      *)

Units(kind) == IF kind = "ok" THEN 3 ELSE IF kind = "body" THEN 2 ELSE 1

OfKind(f, kind) == Cardinality({i \in DOMAIN f : f[i].kind = kind})

\* st_size: an "alias" file has no header, its entries begin at offset 0.
StSize(h, f) ==
    (IF h \in {"ok", "bad"} THEN 1 ELSE 0)
      + 3 * OfKind(f, "ok") + 2 * OfKind(f, "body") + OfKind(f, "stub")

-----------------------------------------------------------------------------
(* The readers.  All of them start at offset 16.                           *)

Aligned(h) == h \in {"ok", "bad"}

\* Indices read_entry accepts one after the other: up to the first tear.
Readable(h, f) ==
    {i \in DOMAIN f : Aligned(h) /\ \A j \in 1..i : f[j].kind = "ok"}

\* Indices scan_entries_for_max_seq counts: it checks no checksum, so it
\* also counts a whole header whose body is torn, and stops after it.
Seen(h, f) ==
    {i \in DOMAIN f : /\ Aligned(h)
                      /\ f[i].kind # "stub"
                      /\ \A j \in 1..(i-1) : f[j].kind = "ok"}

\* replay() and the reading loop of truncate() reach the end of the file.
ReplayOk(h, f) == h # "alias" /\ \A i \in DOMAIN f : f[i].kind = "ok"

Damaged == hdr # "ok" \/ \E i \in DOMAIN file : file[i].kind # "ok"

-----------------------------------------------------------------------------
(* write_entry at the end of the file, h and f being what is there.        *)

Entry(kind) == [id |-> attempts + 1, seq |-> next_seq, kind |-> kind]

HeaderAfterWrite == IF hdr = "empty" THEN "alias" ELSE hdr

\* What a write that did not complete may leave: nothing or a torn record.
\* (A stub at offset 0 of an empty file is left out: it stays shorter than
\* a file header and is overtaken by the next append.)
TornKinds == IF hdr = "empty" THEN {"none", "body"} ELSE {"none", "stub", "body"}

WithTear(f, kind) ==
    IF kind = "none" THEN f ELSE Append(f, Entry(kind))

\* Mutated form of FsyncHere: append forgets the fsync.
FsyncHere_Skipped(h, f, ok) == UNCHANGED <<disk, floor>>

FsyncHere(h, f, ok) ==
    IF ok THEN disk' = [hdr |-> h, file |-> f] /\ floor' = Len(f)
          ELSE UNCHANGED <<disk, floor>>

-----------------------------------------------------------------------------
Init ==
    /\ env \in Settings
    /\ hdr = "absent" /\ file = <<>>
    /\ disk = [hdr |-> "absent", file |-> <<>>] /\ floor = 0
    /\ up = FALSE
    /\ next_seq = 1 /\ entry_count = 0 /\ size = 0
    /\ attempts = 0 /\ acked = {} /\ live = {} /\ safe = {}

(***************************************************************************)
(* create(): a new file gets a header; an existing one is scanned.  A file *)
(* shorter than a header is accepted as it is and numbered from 1; on a    *)
(* "bad" one create returns Err and changes nothing.                       *)
(***************************************************************************)
write_file_header ==
    /\ hdr = "absent"
    /\ hdr' = "ok" /\ next_seq' = 1 /\ entry_count' = 0 /\ size' = 1

\* Mutated form of read_file_header: the largest seq itself is handed out next.
read_file_header_OffByOne ==
    /\ hdr \in {"empty", "ok", "alias"}
    /\ \E max \in {1} \cup {file[i].seq : i \in Seen(hdr, file)} :
          /\ \A i \in Seen(hdr, file) : file[i].seq <= max
          /\ next_seq' = max
    /\ entry_count' = Cardinality(Seen(hdr, file))
    /\ size' = IF hdr = "empty" THEN 0 ELSE StSize(hdr, file)
    /\ hdr' = hdr

read_file_header ==
    /\ hdr \in {"empty", "ok", "alias"}
    /\ \E max \in {0} \cup {file[i].seq : i \in Seen(hdr, file)} :
          /\ \A i \in Seen(hdr, file) : file[i].seq <= max
          /\ next_seq' = max + 1
    /\ entry_count' = Cardinality(Seen(hdr, file))
    /\ size' = IF hdr = "empty" THEN 0 ELSE StSize(hdr, file)
    /\ hdr' = hdr

Create ==
    /\ ~up /\ up' = TRUE
    /\ write_file_header \/ read_file_header
    /\ UNCHANGED <<file, disk, floor, hist>>

\* The header write fails, or the process dies before it: open(O_CREAT) has
\* already made the file.
CreateFails ==
    /\ env.faults \cap {"write", "kill"} # {}
    /\ ~up /\ hdr = "absent"
    /\ hdr' = "empty"
    /\ UNCHANGED <<file, disk, floor, up, mem, hist>>

(***************************************************************************)
(* append().  On every error path next_seq_ is decremented again, so it is *)
(* left as it was; what the failed write put in the file stays there.      *)
(***************************************************************************)
\* Mutated form of Full: one entry too many passes the check.
Full_OffByOne ==
    \/ env.max_entries > 0 /\ entry_count > env.max_entries
    \/ env.max_size > 0 /\ size + Units("ok") > env.max_size

Full ==
    \/ env.max_entries > 0 /\ entry_count >= env.max_entries
    \/ env.max_size > 0 /\ size + Units("ok") > env.max_size

AppendOk ==
    /\ up /\ ~Full /\ attempts < MaxAttempts
    /\ hdr' = HeaderAfterWrite
    /\ file' = Append(file, Entry("ok"))
    /\ next_seq' = next_seq + 1
    /\ entry_count' = entry_count + 1
    /\ size' = size + Units("ok")
    /\ \E synced \in {env.fsync_on_append} \cup (IF "fsync" \in env.faults THEN {FALSE} ELSE {}) :
          FsyncHere(hdr', file', synced)
    /\ attempts' = attempts + 1
    /\ LET ack == [id |-> attempts + 1, seq |-> next_seq] IN
          /\ acked' = acked \cup {ack}
          /\ live' = live \cup {ack}
          /\ safe' = IF Damaged THEN safe ELSE safe \cup {ack}
    /\ UNCHANGED up

\* write_entry fails and append returns Err, or the process dies in it.
AppendFails ==
    /\ up /\ ~Full /\ attempts < MaxAttempts
    /\ \E kind \in TornKinds :
          /\ file' = WithTear(file, kind)
          /\ hdr' = IF kind = "none" THEN hdr ELSE HeaderAfterWrite
    /\ \/ "write" \in env.faults /\ up' = TRUE
       \/ "kill" \in env.faults /\ up' = FALSE
    /\ attempts' = attempts + 1
    /\ UNCHANGED <<disk, floor, mem, acked, live, safe>>

Fsync ==
    /\ up
    /\ FsyncHere(hdr, file, TRUE)
    /\ UNCHANGED <<hdr, file, up, mem, hist>>

Replay ==
    /\ up /\ ReplayOk(hdr, file)
    /\ entry_count' = Len(file)
    /\ UNCHANGED <<hdr, file, disk, floor, up, next_seq, size, hist>>

(***************************************************************************)
(* truncate(keep): every entry is read, those with seq >= keep are kept in *)
(* memory, the file is cut to its header and the kept entries are written  *)
(* again with write_entry.  Nothing is fsynced.                            *)
(***************************************************************************)
\* The order-preserving enumerations of a set of indices (there is one).
InOrder(S) ==
    {e \in [1..Cardinality(S) -> S] :
        \A i, j \in 1..Cardinality(S) : i < j => e[i] < e[j]}

\* Mutated forms of Keep: the bound is exclusive; the comparison is inverted.
Keep_Exclusive(f, keep) == {i \in DOMAIN f : f[i].seq > keep}
Keep_Inverted(f, keep) == {i \in DOMAIN f : f[i].seq < keep}

Keep(f, keep) == {i \in DOMAIN f : f[i].seq >= keep}

\* ftruncate(16): an "empty" file grows to 16 zero bytes, an "alias" one
\* keeps the magic and the schema of its first entry.
HeaderAfterCut ==
    IF hdr = "empty" THEN "bad" ELSE IF hdr = "alias" THEN "ok" ELSE hdr

Dropping(keep) ==
    /\ live' = {a \in live : a.seq >= keep}
    /\ safe' = {a \in safe : a.seq >= keep}

Truncate(keep) ==
    /\ "truncate" \in env.calls
    /\ up /\ ReplayOk(hdr, file)
    /\ hdr' = HeaderAfterCut
    /\ \E e \in InOrder(Keep(file, keep)) :
          /\ file' = [i \in DOMAIN e |-> file[e[i]]]
          /\ entry_count' = Len(e)
          /\ size' = 1 + 3 * Len(e)
    /\ floor' = 0
    /\ Dropping(keep)
    /\ UNCHANGED <<disk, up, next_seq, attempts, acked>>

\* The n-th of the rewrites fails, or the process dies in it.  The counters
\* have been advanced by each completed write_entry and are not corrected.
TruncateFails(keep) ==
    /\ "truncate" \in env.calls
    /\ up /\ ReplayOk(hdr, file)
    /\ hdr' = HeaderAfterCut
    /\ \E e \in InOrder(Keep(file, keep)) :
       \E n \in 1..Len(e), kind \in {"none", "stub", "body"} :
          LET done == [i \in 1..(n-1) |-> file[e[i]]] IN
          /\ file' = IF kind = "none" THEN done
                     ELSE Append(done, [file[e[n]] EXCEPT !.kind = kind])
          /\ entry_count' = entry_count + (n - 1)
          /\ size' = size + 3 * (n - 1)
    /\ \/ "write" \in env.faults /\ up' = TRUE
       \/ "kill" \in env.faults /\ up' = FALSE
    /\ floor' = 0
    /\ Dropping(keep)
    /\ UNCHANGED <<disk, next_seq, attempts, acked>>

TruncateAll ==
    /\ "truncate_all" \in env.calls
    /\ up
    /\ hdr' = HeaderAfterCut /\ file' = <<>>
    /\ entry_count' = 0 /\ size' = 1
    /\ floor' = 0
    /\ live' = {} /\ safe' = {}
    /\ UNCHANGED <<disk, up, next_seq, attempts, acked>>

\* The Wal object is destroyed, or the process dies between two calls.
Close ==
    /\ up /\ up' = FALSE
    /\ UNCHANGED <<hdr, file, disk, floor, mem, hist>>

(***************************************************************************)
(* What a power loss may leave: the image of the last fsync, or a prefix   *)
(* of the current file that has at least the fsynced records, its last     *)
(* record possibly torn.                                                   *)
(***************************************************************************)
Survivors ==
    LET h(n) == IF n = 0 /\ hdr = "alias" THEN "empty" ELSE hdr
        cut(n) == [hdr |-> h(n), file |-> SubSeq(file, 1, n)]
        torn(n) == [hdr |-> hdr,
                    file |-> Append(SubSeq(file, 1, n),
                                    [file[n+1] EXCEPT !.kind = "body"])]
        whole(n) == file[n+1].kind = "ok"
    IN  {disk} \cup {cut(n) : n \in floor..Len(file)}
               \cup {torn(n) : n \in {m \in floor..(Len(file)-1) : whole(m)}}
               \cup (IF disk.hdr = "absent" /\ hdr # "absent"
                     THEN {[hdr |-> "empty", file |-> <<>>]} ELSE {})

PowerLoss ==
    /\ "power" \in env.faults
    /\ \E image \in Survivors :
          /\ hdr' = image.hdr /\ file' = image.file
          /\ disk' = image /\ floor' = Len(image.file)
    /\ up' = FALSE
    /\ UNCHANGED <<mem, hist>>

Next ==
    /\ UNCHANGED env
    /\ \/ Create \/ CreateFails \/ Close
       \/ AppendOk \/ AppendFails \/ Fsync \/ Replay
       \/ \E keep \in 1..(MaxAttempts + 1) : Truncate(keep) \/ TruncateFails(keep)
       \/ TruncateAll
       \/ PowerLoss

Spec == Init /\ [][Next]_vars

-----------------------------------------------------------------------------
(* Properties.                                                             *)

ReadableAcks == {[id |-> file[i].id, seq |-> file[i].seq] : i \in Readable(hdr, file)}

\* replay returns entries "by ascending seq" (wal.hpp): whatever was torn,
\* lost or rewritten before, the entries read_entry accepts are numbered in
\* strictly increasing order.
SeqOrder ==
    \A i, j \in Readable(hdr, file) : i < j => file[i].seq < file[j].seq

\* The next append of an open Wal is numbered above every entry it can read:
\* current_sequence() is "the largest written seq + 1" or more, also after
\* rolled back appends, failed truncates and reopening a damaged file.
NextSeqAbove ==
    up => \A i \in Readable(hdr, file) : file[i].seq < next_seq

\* max_entries_ bounds what replay has to load: entry_count_ may drift above
\* the number of readable entries after a failed truncate or over a torn
\* record, never below it, so the check in append always stops in time.
EntriesBounded ==
    /\ up => Cardinality(Readable(hdr, file)) <= entry_count
    /\ env.max_entries > 0 => Cardinality(Readable(hdr, file)) <= env.max_entries

\* Every append is made durable before it is acknowledged, and the file is
\* never rewritten.
Synced ==
    /\ env.fsync_on_append /\ "fsync" \notin env.faults
    /\ "truncate" \notin env.calls

\* With fsync_on_append_, a working fsync and no truncate: an append that was
\* acknowledged while the file was undamaged stays readable through every
\* later failed append, kill and power loss, until truncate_all drops it.
SafeReadable ==
    Synced => safe \subseteq ReadableAcks

\* At most an fsync fails.
Orderly == env.faults \subseteq {"fsync"}

\* Without write errors and crashes: every acknowledged entry that no
\* truncate dropped is what replay returns, and nothing else is.
LiveExact ==
    Orderly /\ hdr # "absent" => live = ReadableAcks

\* wal.hpp as the client sees it: as long as writes succeed, restarts,
\* truncations and refused appends make the log of DurableLog.
Log == INSTANCE DurableLog WITH log <- IF Orderly THEN ReadableAcks ELSE {}
ImplementsDurableLog == Log!Spec

-----------------------------------------------------------------------------
(* The invariants from which they follow.                                  *)

\* What can be read lies within the first n records.
Fits(h, f, n) == Readable(h, f) \subseteq 1..n

\* A power loss can bring the durable image back, so the limit holds of it too.
BoundInv ==
    /\ env \in Settings
    /\ up => Fits(hdr, file, entry_count)
    /\ env.max_entries > 0 =>
          Fits(hdr, file, env.max_entries) /\ Fits(disk.hdr, disk.file, env.max_entries)

\* The acknowledged entry a can be read within the first n records.
Holds(h, f, n, a) ==
    \E i \in Readable(h, f) : i <= n /\ f[i].id = a.id /\ f[i].seq = a.seq

\* A safe entry is in the durable image, and in that part of the file that
\* every image after a power loss contains.
SafeInv ==
    /\ floor <= Len(file)
    /\ Synced => \A a \in safe : /\ Holds(hdr, file, floor, a)
                                 /\ Holds(disk.hdr, disk.file, Len(disk.file), a)

\* Without write errors and crashes nothing is ever torn.
OrderlyInv ==
    Orderly =>
        /\ hdr \in {"absent", "ok"}
        /\ \A i \in DOMAIN file : file[i].kind = "ok" /\ file[i].id <= attempts
        /\ live = ReadableAcks
=============================================================================
