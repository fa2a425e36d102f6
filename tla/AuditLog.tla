----------------------------- MODULE AuditLog -----------------------------
(***************************************************************************)
(* The hash-chained audit log of src/src/audit/audit.cpp: a GENESIS line   *)
(* and one line per event, each carrying the hash of the chain before it.  *)
(*                                                                         *)
(* A hash is modelled by what was hashed (SHA-512 as an injection): the    *)
(* genesis hash is a sequence of one number, and hashing an event onto h   *)
(* appends the event to h.  The chain hash covers params_hash, the         *)
(* sequence and the action, as in the code.                                *)
(*                                                                         *)
(* Every public operation holds mtx_ throughout, so each is one step.      *)
(* Faults are those of the file: it cannot be opened, or a write stops     *)
(* part of the way.  The client that calls the logger is SdkClient.        *)
(***************************************************************************)
EXTENDS Naturals, Sequences, FiniteSets

CONSTANTS
    Barred,       \* the targets that contain a '|' or a newline; all targets,
                  \* if the actor does
    Multiline,    \* the params_json that contain a newline
    Faults,       \* the faults that may occur, see FaultKinds
    Garbled,      \* params_json cut short, or with another record run into it
    CutShort,     \* a params_hash likewise
    Tens,         \* 10, 100, ...
    MaxSeq,       \* the largest number: what std::stoull takes, and bound of seq_
    MaxAppends,   \* bound: calls of append
    MaxOpens,     \* bound: constructions of the logger on the file
    MaxFaults     \* bound: faults

FaultKinds == {"open",     \* append cannot open the file
               "write",    \* the write fails and out.good() shows it
               "lost",     \* the write fails later, when ~ofstream flushes
               "genesis"}  \* the GENESIS line is not, or not all, written

ASSUME AuditAssumption ==
    /\ Faults \subseteq FaultKinds
    /\ MaxSeq \in Nat /\ Tens \subseteq Nat \ {0}
    /\ \A s \in 1 .. MaxSeq : \E m \in Tens : s < m /\ m <= 10 * s
    /\ MaxAppends \in Nat /\ MaxOpens \in Nat /\ MaxFaults \in Nat

VARIABLES
    file,      \* the lines of the file
    up,        \* a logger exists
    seq,       \* seq_
    prev,      \* prev_hash_
    genesis,   \* genesis hashes drawn so far; the random seed never repeats
    acked,     \* history: events append returned Ok for, in order
    harmed,    \* history: a write failed, or a field was barred or of several lines
    appends, opens, faults   \* how often, for the bounds

counts == <<appends, opens, faults>>
logger == <<file, up, seq, prev, genesis, acked, harmed, counts>>

-----------------------------------------------------------------------------
(* Lines of the file.  nl says whether the line ends in a newline.         *)

Event(s, c, h) ==
    [kind |-> "event", seq |-> s, action |-> c.action, target |-> c.target,
     params |-> c.params, params_hash |-> c.params, prev |-> h, nl |-> TRUE]

Genesis(h) == [kind |-> "genesis", prev |-> h, nl |-> TRUE]
Junk       == [kind |-> "junk", nl |-> TRUE]

\* An event whose params_json stops short of what was hashed.
Clipped(s, c, h) == [Event(s, c, h) EXCEPT !.params = Garbled]

\* What is left of a line that is cut behind a digit of its number, or in its
\* params_hash.  The number is what the next write can still change.
Digits(d)     == [kind |-> "digits", seq |-> d, nl |-> FALSE]
Stub(s, c, h) ==
    [Clipped(s, c, h) EXCEPT !.kind = "stub", !.params_hash = CutShort, !.nl = FALSE]

Unfinished(l) == [l EXCEPT !.nl = FALSE]

\* The decimal digits of d followed by those of s.
Magnitude(s) == CHOOSE m \in Tens : s < m /\ m <= 10 * s
Joined(d, s) == d * Magnitude(s) + s

\* The numbers that the first digits of s spell.
Leading(s) == {s \div m : m \in Tens \cup {1}} \ {0}

\* What the unfinished line a reads as once x is written behind it.
\* parse_event_line takes what follows the seventh '|' for the params_json and
\* what precedes the first for the number, if it is not too large for one; a
\* hash is neither.
Join(a, x) ==
    CASE a.kind = "genesis" -> [a EXCEPT !.prev = Append(@, <<"garbled">>), !.nl = x.nl]
      [] a.kind = "event"   -> [a EXCEPT !.params = Garbled, !.nl = x.nl]
      [] a.kind = "stub"    -> [a EXCEPT !.kind = IF x.kind = "digits" THEN "stub" ELSE "event",
                                         !.nl = x.nl]
      [] a.kind = "junk"    -> [a EXCEPT !.nl = x.nl]
      [] a.kind = "digits"  -> IF /\ x.kind \in {"event", "stub", "digits"}
                                  /\ Joined(a.seq, x.seq) <= MaxSeq
                               THEN [x EXCEPT !.seq = Joined(a.seq, @)]
                               ELSE [Junk EXCEPT !.nl = x.nl]

Unended(f) == f # <<>> /\ ~f[Len(f)].nl

\* The file after line l is written at its end.
WithLine(f, l) ==
    IF Unended(f) THEN [f EXCEPT ![Len(f)] = Join(@, l)] ELSE Append(f, l)

\* The files that writing an event can lead to.  parse_event_line splits a line
\* at its '|': one more before the timestamp, or a newline, and no field is
\* what it should be.  Of params_json of several lines the event has the first;
\* the others do not parse.  (They are skipped if all are empty.)
Written(f, s, c, h) ==
    IF c.target \in Barred THEN {WithLine(f, Junk)}
    ELSE IF c.params \in Multiline
         THEN {WithLine(f, Clipped(s, c, h)), WithLine(WithLine(f, Clipped(s, c, h)), Junk)}
    ELSE {WithLine(f, Event(s, c, h))}

\* What a failing write of an event can leave unfinished: all but the newline,
\* an event without the end of its params_json, a stub, digits, or a part from
\* which no link of the chain can come any more.
Parts(s, c, h) ==
    {Unfinished(Junk)} \cup {Digits(d) : d \in Leading(s)} \cup
    (IF c.target \in Barred THEN {}
     ELSE {Unfinished(Clipped(s, c, h)), Stub(s, c, h)} \cup
          (IF c.params \in Multiline THEN {} ELSE {Unfinished(Event(s, c, h))}))

\* The files it can leave.
AfterFailedWrite(f, s, c, h) ==
    {f} \cup {WithLine(f, l) : l \in Parts(s, c, h)} \cup
    (IF c.target \notin Barred /\ c.params \in Multiline
     THEN {WithLine(f, Clipped(s, c, h)), WithLine(WithLine(f, Clipped(s, c, h)), Unfinished(Junk))}
     ELSE {})

\* A failing write of the GENESIS line leaves nothing, a part of the word, of
\* the hash, or all but the newline.
AfterFailedGenesis(f, h) ==
    {f} \cup {WithLine(f, Unfinished(l)) : l \in {Junk, Genesis(<<0>>), Genesis(h)}}

\* Mutated form of NextHash: only the event's own params and action.
NextHash_EventOnly(h, s, a, p) == <<0, <<p, a>>>>

\* SHA-512(prev || params_hash || seq || action).
NextHash(h, s, a, p) == Append(h, <<p, s, a>>)

\* The prev_hash the line after l must carry.
After(l) ==
    IF l.kind = "genesis" THEN l.prev
    ELSE NextHash(l.prev, l.seq, l.action, l.params_hash)

\* Line i parses as an event and continues the chain of the line before it.
Linked(f, i) == f[i].kind = "event" /\ f[i].prev = After(f[i - 1])

HasGenesis(f) == f # <<>> /\ f[1].kind = "genesis"

\* verify_chain, read by the properties.
verify_chain(f) ==
    IF f = <<>> THEN "INTERNAL"
    ELSE IF ~HasGenesis(f) THEN "PROTOCOL_VERSION_MISMATCH"
    ELSE IF \A i \in 2 .. Len(f) : Linked(f, i) /\ f[i].params = f[i].params_hash
         THEN "true" ELSE "false"

\* Where the constructor's loop over a file with a GENESIS line stops: the
\* last line before one that does not parse or does not link.
ChainEnd(f) ==
    CHOOSE i \in 1 .. Len(f) :
        /\ \A j \in 2 .. i : Linked(f, j)
        /\ i < Len(f) => ~Linked(f, i + 1)

-----------------------------------------------------------------------------
Init ==
    /\ file = <<>> /\ up = FALSE
    /\ seq = 0 /\ prev = <<>> /\ genesis = 0
    /\ acked = <<>> /\ harmed = FALSE
    /\ appends = 0 /\ opens = 0 /\ faults = 0

Fault(kind) ==
    /\ kind \in Faults
    /\ faults < MaxFaults
    /\ faults' = faults + 1

\* Mutated form of OpenSeq: seq_ starts again from 0.
OpenSeq_Zero == 0

\* seq_ after the constructor's loop: that of the last event that links.
OpenSeq == IF ChainEnd(file) = 1 THEN 0 ELSE file[ChainEnd(file)].seq

\* Mutated form of OpenPrev: prev_hash_ = cur_prev is missing.
OpenPrev_Genesis == file[1].prev

\* prev_hash_ after the loop: what the next event must carry.
OpenPrev == After(file[ChainEnd(file)])

\* AuditLogger(path) on a file that has a GENESIS line.
OpenExisting ==
    /\ ~up /\ HasGenesis(file)
    /\ opens < MaxOpens
    /\ up' = TRUE
    /\ seq' = OpenSeq
    /\ prev' = OpenPrev
    /\ opens' = opens + 1
    /\ UNCHANGED <<file, genesis, acked, harmed, appends, faults>>

\* AuditLogger(path) on any other file; whether the line gets written is not
\* looked at.
OpenNew ==
    /\ ~up /\ ~HasGenesis(file)
    /\ opens < MaxOpens
    /\ up' = TRUE
    /\ seq' = 0
    /\ genesis' = genesis + 1
    /\ prev' = <<genesis + 1>>
    /\ \/ /\ file' = WithLine(file, Genesis(prev'))
          /\ UNCHANGED <<faults, harmed>>
       \/ /\ file' \in AfterFailedGenesis(file, prev')
          /\ Fault("genesis")
          /\ harmed' = TRUE
    /\ opens' = opens + 1
    /\ UNCHANGED <<acked, appends>>

\* The logger is destroyed, or its process ends: nothing is kept in memory.
Close ==
    /\ up
    /\ up' = FALSE
    /\ seq' = 0 /\ prev' = <<>>
    /\ UNCHANGED <<file, genesis, acked, harmed, counts>>

Appending ==
    /\ up /\ seq < MaxSeq
    /\ appends < MaxAppends
    /\ appends' = appends + 1
    /\ UNCHANGED <<up, genesis, opens>>

\* What is known of an event afterwards.
Acked(s, c) == [seq |-> s, action |-> c.action, target |-> c.target, params |-> c.params]

\* append: seq_ and prev_hash_ advance, the line is written.
AppendOk(c) ==
    /\ Appending
    /\ seq' = seq + 1
    /\ prev' = NextHash(prev, seq', c.action, c.params)
    /\ file' \in Written(file, seq', c, prev)
    /\ acked' = Append(acked, Acked(seq', c))
    /\ harmed' = (harmed \/ c.target \in Barred \/ c.params \in Multiline)
    /\ UNCHANGED faults

\* The write fails after good() was asked, when ~ofstream flushes a line that
\* fitted the stream's buffer: append has returned Ok.
AppendLost(c) ==
    /\ Appending /\ Fault("lost")
    /\ seq' = seq + 1
    /\ prev' = NextHash(prev, seq', c.action, c.params)
    /\ file' \in AfterFailedWrite(file, seq', c, prev)
    /\ acked' = Append(acked, Acked(seq', c))
    /\ harmed' = TRUE

\* good() is false: the error path takes seq_ back, and prev_hash_ is left
\* advanced.
AppendFails(c) ==
    /\ Appending /\ Fault("write")
    /\ seq' = seq
    /\ prev' = NextHash(prev, seq + 1, c.action, c.params)
    /\ file' \in AfterFailedWrite(file, seq + 1, c, prev)
    /\ harmed' = TRUE
    /\ UNCHANGED acked

\* Mutated form of AppendNoOpen: seq_ is advanced before the file is opened.
AppendNoOpen_SeqFirst ==
    /\ Appending /\ Fault("open")
    /\ seq' = seq + 1
    /\ UNCHANGED <<file, prev, acked, harmed>>

\* The file does not open: nothing has been advanced yet.
AppendNoOpen ==
    /\ Appending /\ Fault("open")
    /\ UNCHANGED <<file, seq, prev, acked, harmed>>

-----------------------------------------------------------------------------
(* Properties.                                                             *)

Recorded(i) == Acked(file[i].seq, file[i])

\* As long as no write fails and no field is barred or of several lines, the
\* file holds the acknowledged events, each once and in the order of their
\* sequences, and the chain verifies at every moment, over any number of
\* restarts and of appends that could not open the file: the constructor picks
\* up seq_ and the hash where the file ends.
RecordsExact ==
    ~harmed =>
        /\ acked # <<>> => Len(file) = Len(acked) + 1
        /\ \A i \in 2 .. Len(file) : Recorded(i) = acked[i - 1] /\ file[i].seq = i - 1
        /\ file # <<>> => verify_chain(file) = "true"

\* n is written as s, or as more digits and s.
EndsIn(n, s) == n = s \/ \E d \in 1 .. n : n = Joined(d, s)

\* What a file that verifies says.
Honest(f) ==
    verify_chain(f) = "true" =>
        /\ \A i \in 2 .. Len(f) - 1 : f[i].seq < f[i + 1].seq
        /\ \A i \in 2 .. Len(f) : f[i].nl =>
              \E k \in 1 .. Len(acked) :
                  EndsIn(f[i].seq, acked[k].seq) /\ Acked(acked[k].seq, f[i]) = acked[k]

\* Whatever fails and however often the logger restarts: a log that verifies
\* numbers its events in ascending order, and holds no event that was not
\* acknowledged, except that the last may lack its newline.  An event may have
\* a larger number than it was acknowledged with: when the digits of a number
\* are all that a failed write left, the next number is written behind them,
\* and the chain still verifies.
VerifiedIsHonest == Honest(file)

\* Inductive with it.  The file without digits that the next write completes:
Base(f) ==
    IF f # <<>> /\ f[Len(f)].kind = "digits" THEN SubSeq(f, 1, Len(f) - 1) ELSE f

LastSeq(f) == IF Len(f) = 1 THEN 0 ELSE f[Len(f)].seq

HonestBase ==
    /\ Honest(Base(file))
    /\ \A i \in 1 .. Len(file) - 1 : file[i].nl

\* When that verifies, the hash in memory is never behind that of its last
\* line, and where they agree so do the numbers.  An append that failed leaves
\* it ahead until the logger restarts.
InStep ==
    verify_chain(Base(file)) = "true" /\ up =>
        LET f == Base(file)
            h == After(f[Len(f)])
        IN  /\ Len(h) <= Len(prev)
            /\ h = prev /\ f[Len(f)].nl => seq = LastSeq(f)

\* Inductive with RecordsExact: nothing is written halfway, and a logger is
\* where its file ends.
ExactInv ==
    ~harmed =>
        /\ file = <<>> => ~up /\ acked = <<>>
        /\ file # <<>> => Len(file) = Len(acked) + 1
        /\ \A i \in 1 .. Len(file) : file[i].nl
        /\ up => prev = After(file[Len(file)])

Without(f, i) == SubSeq(f, 1, i - 1) \o SubSeq(f, i + 1, Len(f))
Swapped(f, i) == [f EXCEPT ![i] = f[i + 1], ![i + 1] = f[i]]

\* verify_chain notices a record missing from the middle of a log, and two
\* records in the wrong order.
GapsDetected ==
    verify_chain(file) = "true" =>
        \A i \in 2 .. Len(file) - 1 :
            /\ verify_chain(Without(file, i)) = "false"
            /\ verify_chain(Swapped(file, i)) = "false"
=============================================================================
