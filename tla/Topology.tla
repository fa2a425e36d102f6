----------------------------- MODULE Topology -----------------------------
(***************************************************************************)
(* The topology of src/src/ability_b/topology/topology.cpp: nodes, directed *)
(* edges, and transactions that clients fill without a lock and commit     *)
(* under mtx_, the whole list of operations at once.  Several clients hold *)
(* transactions at the same time (the SDK hands Topology to its callers,   *)
(* DiscoveryBridge commits from the discovery threads).                    *)
(*                                                                         *)
(* A node is its node_id: commit keeps nothing else of a PeerNode.  Names  *)
(* contain no '|', so an edge_key is the pair of its ends.  write_to_wal   *)
(* does nothing.                                                           *)
(***************************************************************************)
EXTENDS Naturals, Sequences

CONSTANTS
    Clients,
    Names,       \* node ids
    MaxItems,    \* bound: operations of a transaction
    MaxCommits,  \* bound: commits of a client
    MaxClears    \* bound: calls of clear()

ASSUME TopologyAssumption ==
    MaxItems \in Nat /\ MaxCommits \in Nat /\ MaxClears \in Nat

VARIABLES
    nodes,    \* the keys of nodes_
    edges,    \* edges_
    tx,       \* the items_ of each client's transaction
    commits,  \* number of commits of each client
    clears    \* number of calls of clear()

vars == <<nodes, edges, tx, commits, clears>>

NodeItems == [op : {"AddNode", "RemoveNode"}, a : Names]
EdgeItems == [op : {"AddEdge", "RemoveEdge"}, a : Names, b : Names]
Items     == NodeItems \cup EdgeItems

Init ==
    /\ nodes = {} /\ edges = {}
    /\ tx = [c \in Clients |-> <<>>]
    /\ commits = [c \in Clients |-> 0]
    /\ clears = 0

-----------------------------------------------------------------------------
(* commit.                                                                 *)

\* Mutated form of EdgesOf: only outgoing edges.
EdgesOf_Outgoing(E, n) == {e \in E : e[1] = n}

\* The edges that RemoveNode erases with the node.
EdgesOf(E, n) == {e \in E : n \in {e[1], e[2]}}

Graph(N, E) == [nodes |-> N, edges |-> E]

\* One case of the switch in commit.
ApplyItem(g, it) ==
    IF it.op = "AddNode" THEN [g EXCEPT !.nodes = @ \cup {it.a}]
    ELSE IF it.op = "RemoveNode"
         THEN Graph(g.nodes \ {it.a}, g.edges \ EdgesOf(g.edges, it.a))
    ELSE IF it.op = "AddEdge" THEN [g EXCEPT !.edges = @ \cup {<<it.a, it.b>>}]
    ELSE [g EXCEPT !.edges = @ \ {<<it.a, it.b>>}]

\* The loop over tx.items(): the graph g after i of them.
Stages(g, items) ==
    LET stage[i \in 0 .. Len(items)] ==
            IF i = 0 THEN g ELSE ApplyItem(stage[i - 1], items[i])
    IN  stage

Applied(g, items) == Stages(g, items)[Len(items)]

\* An empty transaction is refused and changes nothing.  The items stay in
\* the transaction: it may be committed again.
commit(c) ==
    /\ commits[c] < MaxCommits
    /\ tx[c] # <<>>
    /\ LET g == Applied(Graph(nodes, edges), tx[c])
       IN  nodes' = g.nodes /\ edges' = g.edges
    /\ commits' = [commits EXCEPT ![c] = @ + 1]
    /\ UNCHANGED <<tx, clears>>

-----------------------------------------------------------------------------
(* Transactions.                                                           *)

\* A client drops its transaction for a new one.
begin_transaction(c) ==
    /\ tx[c] # <<>>
    /\ tx' = [tx EXCEPT ![c] = <<>>]
    /\ UNCHANGED <<nodes, edges, commits, clears>>

\* add_node, remove_node, add_edge and remove_edge: none of them looks at the
\* topology, so an edge may name a node that is not there; nor at whether the
\* transaction has been committed.
AddItem(c, it) ==
    /\ Len(tx[c]) < MaxItems
    /\ tx' = [tx EXCEPT ![c] = Append(@, it)]
    /\ UNCHANGED <<nodes, edges, commits, clears>>

clear ==
    /\ clears < MaxClears
    /\ clears' = clears + 1
    /\ nodes' = {} /\ edges' = {}
    /\ UNCHANGED <<tx, commits>>

Next ==
    \/ \E c \in Clients : begin_transaction(c)
    \/ \E c \in Clients, it \in Items : AddItem(c, it)
    \/ \E c \in Clients : commit(c)
    \/ clear

Spec == Init /\ [][Next]_vars

-----------------------------------------------------------------------------
(* Properties.                                                             *)

\* The places of items that decide whether the node n is there, and whether
\* the edge e is.
NodeDeciders(items, n) ==
    {i \in DOMAIN items : items[i].op \in {"AddNode", "RemoveNode"} /\ items[i].a = n}
EdgeDeciders(items, e) ==
    {i \in DOMAIN items :
        \/ items[i] \in EdgeItems /\ <<items[i].a, items[i].b>> = e
        \/ items[i].op = "RemoveNode" /\ items[i].a \in {e[1], e[2]}}

\* The last of them adds it; with none of them it stays as it was.
Decided(items, deciders, was) ==
    IF deciders = {} THEN was
    ELSE items[CHOOSE i \in deciders : \A j \in deciders : j <= i].op \in {"AddNode", "AddEdge"}

LastWins(g, h, items) ==
    /\ \A n \in Names : n \in h.nodes <=> Decided(items, NodeDeciders(items, n), n \in g.nodes)
    /\ \A e \in Names \X Names :
          e \in h.edges <=> Decided(items, EdgeDeciders(items, e), e \in g.edges)

Committing(c) == commits'[c] # commits[c]

\* What a transaction means: for every node and edge the last operation that
\* concerns it decides, removing a node counting as removing its edges; what
\* no operation concerns is left alone.
CommitMeaning ==
    [][\A c \in Clients : Committing(c) =>
          LastWins(Graph(nodes, edges), Graph(nodes', edges'), tx[c])]_vars
=============================================================================
