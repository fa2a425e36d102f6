---------------------------- MODULE MCSdkClient ----------------------------
(* SdkClient for TLC: threads are interchangeable model values.            *)
EXTENDS SdkClient

Symmetry == Permutations(Threads)

\* Callers of Client::audit: one records an addition that never was, another
\* the use of a peer, in several lines, and one names somebody with a separator.
MCAudits ==
    [action : {"WhitelistUpdate"}, target : Nodes, params : {"add"}]
    \cup [action : {"FileTransfer"}, target : Nodes, params : Multiline]
    \cup [action : {"FileTransfer"}, target : Strangers, params : {"json"}]
=============================================================================
