-------------------------- MODULE ProcessExecutor --------------------------
(***************************************************************************)
(* ProcessExecutor::execute (src/src/ability_c/executor/                   *)
(* process_executor.cpp): a child process writes to two pipes of limited   *)
(* capacity while the parent reads stdout to its end, then stderr to its   *)
(* end, and then waits for the child.  What is written is counted in       *)
(* chunks; a chunk carries its number, so that a lost or reordered one     *)
(* shows.  Calls follow one another: the caller is the worker of           *)
(* CmdExecNode.  Nothing limits the time a child may take: timeout_ms of   *)
(* the options is not looked at.                                           *)
(***************************************************************************)
EXTENDS Naturals, Sequences, FiniteSets

CONSTANTS
    Verdicts,    \* what the checks of the options may say: "ok" or an error
    Capacity,    \* chunks a pipe holds (the operating system's, not the code's)
    MaxOut,      \* bound: chunks the child may write to stdout
    MaxErr,      \* bound: chunks the child may write to stderr
    Faults,      \* "pipe1", "pipe2", "spawn", "read": the calls that may fail;
                 \* "inherit": another thread of the process may spawn a child
    MaxCalls     \* bound: calls of execute

Streams == {"out", "err"}
Ends    == Streams \X {"r", "w"}

VARIABLES
    pc,        \* where execute is; "returned" also before the first call
    verdict,   \* what the checks say of this call's options
    fds,       \* the pipe ends the parent has open
    child,     \* "none", "runs", "hangs", "exited", "killed", "reaped"
    heir,      \* a child of another thread lives that inherited all four ends
    pipe,      \* what is in each pipe
    wrote,     \* number of chunks the child wrote to each
    text,      \* stdout_text and stderr_text
    cut,       \* history: streams whose reading ended with an error
    result,    \* "none", an error, or the exit status reported
    calls,     \* history: number of calls
    leaked,    \* history: pipe ends that earlier calls left open
    torn       \* history: calls whose second pipe() failed

parent == <<pc, fds, text, cut, result>>
tally == <<calls, leaked, torn>>
vars == <<parent, verdict, child, heir, pipe, wrote, tally>>

Volume == [s \in Streams |-> IF s = "out" THEN MaxOut ELSE MaxErr]

Init ==
    /\ pc = "returned" /\ verdict = "ok"
    /\ fds = {} /\ cut = {} /\ child = "none" /\ heir = FALSE
    /\ pipe = [s \in Streams |-> <<>>]
    /\ wrote = [s \in Streams |-> 0]
    /\ text = [s \in Streams |-> <<>>]
    /\ result = "none"
    /\ calls = 0 /\ leaked = 0 /\ torn = 0

-----------------------------------------------------------------------------
(* The parent.                                                             *)

Return(r) == pc' = "returned" /\ result' = r

\* execute is called, with fresh locals and pipes.
Call ==
    /\ pc = "returned" /\ calls < MaxCalls
    /\ calls' = calls + 1
    /\ leaked' = leaked + Cardinality(fds)
    /\ pc' = "check" /\ verdict' \in Verdicts
    /\ fds' = {} /\ cut' = {} /\ child' = "none" /\ result' = "none"
    /\ heir' = FALSE
    /\ pipe' = [s \in Streams |-> <<>>]
    /\ wrote' = [s \in Streams |-> 0]
    /\ text' = [s \in Streams |-> <<>>]
    /\ UNCHANGED torn

Check ==
    /\ pc = "check"
    /\ IF verdict = "ok" THEN pc' = "pipes" /\ UNCHANGED result
                         ELSE Return(verdict)
    /\ UNCHANGED <<fds, text, cut, verdict, child, heir, pipe, wrote, tally>>

Pipes ==
    /\ pc = "pipes"
    /\ fds' = Ends
    /\ pc' = "spawn"
    /\ UNCHANGED <<text, cut, result, verdict, child, heir, pipe, wrote, tally>>

\* Either pipe() fails; the ends of a first one that was made stay open.
PipesFail ==
    /\ pc = "pipes"
    /\ \/ "pipe1" \in Faults /\ UNCHANGED <<fds, torn>>
       \/ "pipe2" \in Faults /\ fds' = {"out"} \X {"r", "w"} /\ torn' = torn + 1
    /\ Return("INTERNAL")
    /\ UNCHANGED <<text, cut, verdict, child, heir, pipe, wrote, calls, leaked>>

\* Mutated form of WriteEnds: the write end of stderr stays open.
WriteEnds_OnlyOut == {<<"out", "w">>}

\* The ends closed after posix_spawnp, whatever it returned.
WriteEnds == Streams \X {"w"}

Spawn ==
    /\ pc = "spawn"
    /\ child' = "runs"
    /\ fds' = fds \ WriteEnds
    /\ pc' = "out"
    /\ UNCHANGED <<text, cut, result, verdict, heir, pipe, wrote, tally>>

SpawnFails ==
    /\ pc = "spawn" /\ "spawn" \in Faults
    /\ fds' = fds \ (WriteEnds \cup (Streams \X {"r"}))
    /\ Return("INTERNAL")
    /\ UNCHANGED <<text, cut, verdict, child, heir, pipe, wrote, tally>>

Alive == child \in {"runs", "hangs"}

\* Nobody can write to s any more.
Ended(s) == ~Alive /\ <<s, "w">> \notin fds /\ ~heir

\* Mutated form of Taken: what is read replaces what was read before.
Taken_Replaced(s, n) == [text EXCEPT ![s] = SubSeq(pipe[s], 1, n)]

\* append(buf.data(), n): the first n chunks in the pipe.
Taken(s, n) == [text EXCEPT ![s] = @ \o SubSeq(pipe[s], 1, n)]

\* A read of s returns some of what is there.
Read(s) ==
    /\ pc = s
    /\ \E n \in 1 .. Len(pipe[s]) :
          /\ text' = Taken(s, n)
          /\ pipe' = [pipe EXCEPT ![s] = SubSeq(@, n + 1, Len(@))]
    /\ UNCHANGED <<pc, fds, cut, result, verdict, child, heir, wrote, tally>>

\* Mutated form of Onward: only the read end of the last stream is closed.
Onward_OneClosed(s) ==
    /\ pc = s
    /\ pc' = IF s = "out" THEN "err" ELSE "wait"
    /\ fds' = IF s = "out" THEN fds ELSE fds \ {<<"err", "r">>}

\* After the loop over s: on to stderr, or both read ends are closed.
Onward(s) ==
    /\ pc = s
    /\ pc' = IF s = "out" THEN "err" ELSE "wait"
    /\ fds' = IF s = "out" THEN fds ELSE fds \ (Streams \X {"r"})

\* A read of s returns 0.
ReadEnd(s) ==
    /\ pipe[s] = <<>> /\ Ended(s)
    /\ Onward(s)
    /\ UNCHANGED <<text, cut, result, verdict, child, heir, pipe, wrote, tally>>

\* A read of s is interrupted: -1 ends the loop just as 0 does.
ReadFails(s) ==
    /\ "read" \in Faults
    /\ Onward(s)
    /\ cut' = cut \cup {s}
    /\ UNCHANGED <<text, result, verdict, child, heir, pipe, wrote, tally>>

\* waitpid and the exit code.
Wait ==
    /\ pc = "wait" /\ child \in {"exited", "killed"}
    /\ Return(child)
    /\ child' = "reaped"
    /\ UNCHANGED <<fds, text, cut, verdict, heir, pipe, wrote, tally>>

-----------------------------------------------------------------------------
(* The child: it writes, blocking on a full pipe, and ends, or does not.   *)

HasReader(s) == <<s, "r">> \in fds \/ heir

Write(s) ==
    /\ child = "runs" /\ HasReader(s)
    /\ wrote[s] < Volume[s] /\ Len(pipe[s]) < Capacity
    /\ wrote' = [wrote EXCEPT ![s] = @ + 1]
    /\ pipe' = [pipe EXCEPT ![s] = Append(@, wrote[s] + 1)]
    /\ UNCHANGED <<parent, verdict, child, heir, tally>>

\* It goes on for ever, as a server or a loop does, and says no more: the pipes
\* stay open.  Only a signal ends it.
Hang ==
    /\ child = "runs"
    /\ child' = "hangs"
    /\ UNCHANGED <<parent, verdict, heir, pipe, wrote, tally>>

\* It writes all it has to say before it ends.
Exit ==
    /\ child = "runs" /\ wrote = Volume
    /\ child' = "exited"
    /\ UNCHANGED <<parent, verdict, heir, pipe, wrote, tally>>

\* Killed from outside, or by SIGPIPE.
Killed ==
    /\ Alive
    /\ child' = "killed"
    /\ UNCHANGED <<parent, verdict, heir, pipe, wrote, tally>>

(***************************************************************************)
(* Another node's execute, in the same process, spawns its child while     *)
(* these pipes are open: it inherits them, as none is O_CLOEXEC, and keeps *)
(* them to its end.                                                        *)
(***************************************************************************)
Inherit ==
    /\ "inherit" \in Faults /\ pc = "spawn" /\ ~heir
    /\ heir' = TRUE
    /\ UNCHANGED <<parent, verdict, child, pipe, wrote, tally>>

HeirEnds ==
    /\ heir
    /\ heir' = FALSE
    /\ UNCHANGED <<parent, verdict, child, pipe, wrote, tally>>

Heir == Inherit \/ HeirEnds

\* The calls of the operating system that do what they are asked, and those
\* that fail.
Proceeds ==
    \/ Check \/ Pipes \/ Spawn \/ Wait
    \/ \E s \in Streams : Read(s) \/ ReadEnd(s)
Fails == PipesFail \/ SpawnFails \/ \E s \in Streams : ReadFails(s)

SigPipe ==
    /\ child = "runs"
    /\ \E s \in Streams : wrote[s] < Volume[s] /\ ~HasReader(s)
    /\ Killed

Child == (\E s \in Streams : Write(s)) \/ Exit \/ SigPipe

-----------------------------------------------------------------------------
(* Properties; CmdExecNode checks them.                                    *)

\* When execute has returned an exit status, the child is reaped, and the text
\* of a stream is what the child wrote to it, in order: all of it, or its
\* beginning if the reading was interrupted.
OutputComplete ==
    result \in {"exited", "killed"} =>
        /\ child = "reaped"
        /\ \A s \in Streams :
              \E n \in 0 .. wrote[s] :
                 /\ text[s] = [i \in 1 .. n |-> i]
                 /\ s \notin cut => n = wrote[s]

\* Over all calls, the only pipe ends left open are the two that a failing
\* second pipe() leaves behind.
DescriptorsClosed ==
    pc = "returned" => leaked + Cardinality(fds) = 2 * torn

-----------------------------------------------------------------------------
(* The invariant from which they follow.                                   *)

Pcs == {"returned", "check", "pipes", "spawn", "wait"} \cup Streams

TypeOK ==
    /\ pc \in Pcs /\ verdict \in Verdicts \cup {"ok"}
    /\ fds \subseteq Ends /\ cut \subseteq Streams
    /\ child \in {"none", "runs", "hangs", "exited", "killed", "reaped"} /\ heir \in BOOLEAN
    /\ pipe \in [Streams -> Seq(Nat)] /\ text \in [Streams -> Seq(Nat)]
    /\ wrote \in [Streams -> Nat]
    /\ result \in {"none", "INTERNAL", "exited", "killed"} \cup Verdicts
    /\ calls \in Nat /\ leaked \in Nat /\ torn \in Nat

\* What was read and what the pipe still holds are together all that the child
\* wrote to s.
NothingLost(s) ==
    \E n \in 0 .. wrote[s] :
        /\ text[s] = [i \in 1 .. n |-> i]
        /\ pipe[s] = [i \in 1 .. wrote[s] - n |-> n + i]

\* execute is done with reading s.
Past(s) ==
    \/ result \in {"exited", "killed"}
    \/ pc = "wait"
    \/ pc = "err" /\ s = "out"

\* What is read to its end is empty for good.
Drained(s) == Past(s) /\ s \notin cut => pipe[s] = <<>> /\ ~Alive

\* The descriptors of the call under way, and those of earlier calls.
DescriptorsHeld ==
    /\ pc \in {"check", "pipes", "wait"} => fds = {}
    /\ pc = "spawn" => fds = Ends
    /\ pc \in Streams => fds = Streams \X {"r"}
    /\ pc # "returned" => leaked = 2 * torn

\* A result is there when execute has returned, and an exit status only for a
\* child that was waited for.
ResultLast ==
    /\ pc # "returned" => result = "none"
    /\ result \in {"exited", "killed"} => child = "reaped"

ExecInv ==
    /\ TypeOK /\ ResultLast /\ DescriptorsHeld /\ DescriptorsClosed
    /\ \A s \in Streams : NothingLost(s) /\ Drained(s)
=============================================================================
