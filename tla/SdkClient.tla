----------------------------- MODULE SdkClient -----------------------------
(***************************************************************************)
(* udaf::sdk::Client (src/src/sdk/sdk/sdk.cpp) between the peer whitelist  *)
(* and the audit log, which is module AuditLog itself.  Whitelist and log  *)
(* have a lock each and Client has none, so an operation is two steps, one *)
(* per lock: it looks at or changes the whitelist, then it appends a       *)
(* record; other threads' steps come between.                              *)
(***************************************************************************)
EXTENDS AuditLog, SequencesExt

CONSTANTS
    Threads,
    Nodes,      \* node_id of peers
    Strangers,  \* other targets that callers of Client::audit name
    Uses,       \* actions that need a trusted peer
    Notes,      \* actions that are recorded and do nothing else
    Texts,      \* params_json that Client puts together from its arguments
    Audits      \* what callers of Client::audit have recorded

Actions == Uses \cup Notes \cup {"WhitelistUpdate"}
Targets == Nodes \cup Strangers \cup {"self"}
Params  == {"add", "remove"} \cup Texts \cup Multiline
Calls   == [action : Actions, target : Targets, params : Params]

ASSUME SdkAssumption ==
    /\ Uses \subseteq {"FileTransfer", "CmdExec", "PskHandshake"}
    /\ Notes \subseteq {"NodeRegister", "NodeUnregister", "CredentialRotate", "AuditExport"}
    /\ Barred \subseteq Targets /\ "self" \notin Nodes
    /\ (Texts \cup Multiline) \cap {"add", "remove"} = {}
    /\ Audits \subseteq Calls
    /\ Garbled \notin Params /\ CutShort \notin Params \cup {Garbled}

VARIABLES
    plain,       \* there is a Client whose cfg.audit_path is empty
    whitelist,   \* node ids in PeerWhitelist::entries_
    due,         \* the call of append a thread is about to make, <<>> if none
    base,        \* history: length of the log when the Client was made
    unsure,      \* history: nodes whose last change of trust raced with
                 \* another one, or was not recorded, or was made up
    lost,        \* history: nodes added without a record
    used         \* history: nodes that the Client let be used

vars == <<logger, plain, whitelist, due, base, unsure, lost, used>>

SdkInit ==
    /\ Init
    /\ plain = FALSE /\ whitelist = {} /\ base = 0
    /\ due = [t \in Threads |-> <<>>]
    /\ unsure = {} /\ lost = {} /\ used = {}

-----------------------------------------------------------------------------
\* Client(cfg) with an audit_path.
MakeAudited ==
    /\ ~plain
    /\ OpenExisting \/ OpenNew
    /\ base' = Len(file')
    /\ UNCHANGED <<plain, whitelist, due, unsure, lost, used>>

\* Client(cfg) without.
MakePlain ==
    /\ ~plain /\ ~up
    /\ plain' = TRUE
    /\ UNCHANGED <<logger, whitelist, due, base, unsure, lost, used>>

\* ~Client, or the end of the process: the whitelist is nowhere else.
Drop ==
    /\ IF plain THEN UNCHANGED logger ELSE Close
    /\ plain' = FALSE /\ whitelist' = {}
    /\ due' = [t \in Threads |-> <<>>]
    /\ unsure' = {} /\ lost' = {} /\ used' = {}
    /\ UNCHANGED base

Ready(t) == (up \/ plain) /\ due[t] = <<>>

\* `if (impl_->audit_logger)`: the second half of an operation.
Due(t, a, n, p) ==
    due' = IF up THEN [due EXCEPT ![t] = [action |-> a, target |-> n, params |-> p]]
                 ELSE due

ChangesTrust(c) == c # <<>> /\ c.action = "WhitelistUpdate"

\* Between the change of n and its record another thread's may be due, too.
Racing(t, n) ==
    unsure' = IF \E u \in Threads \ {t} : ChangesTrust(due[u]) /\ due[u].target = n
              THEN unsure \cup {n} ELSE unsure \ {n}

\* trust_add with a well-formed fingerprint, for a new peer or a known one;
\* PeerWhitelist::add.
trust_add(t, n) ==
    /\ Ready(t)
    /\ whitelist' = whitelist \cup {n}
    /\ Due(t, "WhitelistUpdate", n, "add")
    /\ Racing(t, n)
    /\ UNCHANGED <<logger, plain, base, lost, used>>

\* Mutated form of trust_remove: nothing is recorded.
trust_remove_Silent(t, n) ==
    /\ Ready(t) /\ n \in whitelist
    /\ whitelist' = whitelist \ {n}
    /\ Racing(t, n)
    /\ UNCHANGED <<logger, plain, due, base, lost, used>>

\* trust_remove; NODE_NOT_FOUND, and no record, if there is nothing to remove.
trust_remove(t, n) ==
    /\ Ready(t) /\ n \in whitelist
    /\ whitelist' = whitelist \ {n}
    /\ Due(t, "WhitelistUpdate", n, "remove")
    /\ Racing(t, n)
    /\ UNCHANGED <<logger, plain, base, lost, used>>

\* Mutated form of Trusted: the whitelist is not consulted.
Trusted_Any(n) == TRUE

\* PeerWhitelist::contains without a capability.
Trusted(n) == n \in whitelist

\* push_file, pull_file, run_remote, auth_psk: an error, and no record, if
\* the peer is not in the whitelist or there is no logger.
Use(t, a, n) ==
    /\ Ready(t) /\ up
    /\ Trusted(n)
    /\ \E p \in Texts : Due(t, a, n, p)
    /\ used' = used \cup {n}
    /\ UNCHANGED <<logger, plain, whitelist, base, unsure, lost>>

\* start, stop, psk_rotate, migrate: recorded and nothing else.
Note(t, a) ==
    /\ Ready(t) /\ up
    /\ \E p \in Texts : Due(t, a, "self", p)
    /\ UNCHANGED <<logger, plain, whitelist, base, unsure, lost, used>>

\* Client::audit records whatever its caller says, also of a peer that is not
\* in the whitelist, or a change of trust that never was.
Audit(t, c) ==
    /\ Ready(t) /\ up
    /\ Due(t, c.action, c.target, c.params)
    /\ unsure' = IF ChangesTrust(c) THEN unsure \cup ({c.target} \cap Nodes) ELSE unsure
    /\ UNCHANGED <<logger, plain, whitelist, base, lost, used>>

\* append returns.  trust_add, trust_remove, start and stop ignore what it says.
Record(t) ==
    /\ due[t] # <<>>
    /\ due' = [due EXCEPT ![t] = <<>>]
    /\ LET c == due[t]
           n == IF ChangesTrust(c) THEN {c.target} \cap Nodes ELSE {}
       IN  \/ (AppendOk(c) \/ AppendLost(c)) /\ UNCHANGED <<unsure, lost>>
           \/ /\ AppendFails(c) \/ AppendNoOpen
              /\ unsure' = unsure \cup n
              /\ lost' = IF c.params = "add" THEN lost \cup n ELSE lost
    /\ UNCHANGED <<plain, whitelist, base, used>>

Next ==
    \/ MakeAudited \/ MakePlain \/ Drop
    \/ \E t \in Threads :
        \/ \E n \in Nodes : trust_add(t, n) \/ trust_remove(t, n)
        \/ \E n \in Nodes, a \in Uses : Use(t, a, n)
        \/ \E a \in Notes : Note(t, a)
        \/ \E c \in Audits : Audit(t, c)
        \/ Record(t)

Spec == SdkInit /\ [][Next]_vars

-----------------------------------------------------------------------------
(* Properties, beside those of AuditLog.                                   *)

\* The log since the Client was made.
Since == SubSeq(file, base + 1, Len(file))

\* e, a record or a call of append, is about a change p of the trust in n.
Says(e, p, n) == ChangesTrust(e) /\ e.params = p /\ e.target = n

\* The whitelist that these records lead to: the last one about a peer added it.
TrustLogged ==
    {n \in Nodes : \E i \in DOMAIN Since :
        /\ Says(Since[i], "add", n)
        /\ \A j \in DOMAIN Since : j > i => ~Says(Since[j], "remove", n)}

\* 01-requirements.md: command executions, file transfers and configuration
\* changes are all recorded.  In a log whose writes succeeded, the records
\* account for the trust in every peer whose last change is recorded, did not
\* race with another, had its append succeed, and was not followed by a change
\* that a caller of Client::audit made up: whatever other threads do in
\* between, and whatever went wrong for that peer before.
WhitelistRecorded ==
    up /\ ~harmed =>
        \A n \in Nodes \ unsure :
            (\A t \in Threads : ChangesTrust(due[t]) => due[t].target # n) =>
                (n \in whitelist <=> n \in TrustLogged)

\* Peers added by a call whose record is in the log or about to be, or failed.
Added ==
    {n \in Nodes : \/ \E i \in DOMAIN Since : Says(Since[i], "add", n)
                   \/ \E t \in Threads : Says(due[t], "add", n)}
    \cup lost

\* A peer may be used on the strength of a check that another thread has made
\* stale, or before its addition is recorded; but whoever the Client let
\* be used was put into the whitelist by a call whose record is in the log or
\* about to be, unless its append failed.  (A record of a use may also come
\* from Client::audit, which asks nobody.)
UsesAccounted == up /\ ~harmed => used \subseteq Added

-----------------------------------------------------------------------------
(* The inductive invariant.                                                *)

Hashed == Params \cup {CutShort}
Hashes == Seq(Nat \cup {<<"garbled">>} \cup (Hashed \X (1 .. MaxSeq) \X Actions))

Events ==
    [kind : {"event"}, seq : 1 .. MaxSeq, action : Actions, target : Targets,
     params : Params \cup {Garbled}, params_hash : Hashed, prev : Hashes, nl : BOOLEAN]
Stubs ==
    [kind : {"stub"}, seq : 1 .. MaxSeq, action : Actions, target : Targets,
     params : {Garbled}, params_hash : {CutShort}, prev : Hashes, nl : {FALSE}]
Geneses == [kind : {"genesis"}, prev : Hashes, nl : BOOLEAN]
Rests   == [kind : {"digits"}, seq : 1 .. MaxSeq, nl : {FALSE}] \cup [kind : {"junk"}, nl : BOOLEAN]
Lines   == Events \cup Stubs \cup Geneses \cup Rests

TypeOK ==
    /\ file \in Seq(Lines) /\ up \in BOOLEAN
    /\ seq \in 0 .. MaxSeq /\ prev \in Hashes /\ genesis \in Nat
    /\ acked \in Seq([seq : 1 .. MaxSeq, action : Actions, target : Targets, params : Params])
    /\ harmed \in BOOLEAN /\ plain \in BOOLEAN
    /\ appends \in 0 .. MaxAppends /\ opens \in 0 .. MaxOpens /\ faults \in 0 .. MaxFaults
    /\ whitelist \subseteq Nodes /\ unsure \subseteq Nodes /\ lost \subseteq Nodes
    /\ used \subseteq Nodes
    /\ due \in [Threads -> Calls \cup {<<>>}]
    /\ base \in 0 .. Len(file)

\* A Client keeps nothing of the one before, and without a log owes no record.
FreshClient ==
    /\ plain => ~up
    /\ ~up => \A t \in Threads : due[t] = <<>>
    /\ ~up /\ ~plain => whitelist = {}
    /\ ~up => used = {}
    /\ up /\ ~harmed => base > 0

\* A change that is still to be recorded, and was neither made up nor races with
\* another, is what the whitelist shows.
DueAgrees ==
    \A t \in Threads : ChangesTrust(due[t]) /\ due[t].target \in Nodes \ unsure =>
        /\ due[t].params \in {"add", "remove"}
        /\ due[t].params = "add" <=> due[t].target \in whitelist
        /\ \A u \in Threads \ {t} :
              ChangesTrust(due[u]) => due[u].target # due[t].target

\* Peers that may be used, or were.
UsableAdded == up /\ ~harmed => whitelist \cup used \subseteq Added

ClientInv ==
    /\ TypeOK /\ RecordsExact /\ ExactInv /\ HonestBase /\ InStep
    /\ FreshClient /\ DueAgrees /\ WhitelistRecorded /\ UsableAdded
=============================================================================
