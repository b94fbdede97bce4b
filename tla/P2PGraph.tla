------------------------------ MODULE P2PGraph -------------------------------
(***************************************************************************)
(* The overlay of aegis_router/graph.py that all routers share, with its   *)
(* live churn state, and the hops a solver of solvers.py may return.       *)
(*                                                                         *)
(* A solver family is the set of hops its members may choose: the score    *)
(* that picks one of them is abstracted.                                   *)
(***************************************************************************)
EXTENDS Naturals, FiniteSets

CONSTANTS
  Node,         \* node identifiers, naturals as in graph.py
  Adj,          \* Adj[n]: the neighbours of n
  Sybil,        \* graph.sybil_nodes
  Routing       \* solver family: "shortest" or "scored"

VARIABLE offline \* graph.offline_nodes, also the simulator's _down_nodes

ASSUME GraphAssumption ==
  /\ Node \subseteq Nat /\ IsFiniteSet(Node)
  /\ Adj \in [Node -> SUBSET Node]
  /\ \A n \in Node : n \notin Adj[n]
  /\ Sybil \subseteq Node
  /\ Routing \in {"shortest", "scored"}

ReachableNeighbors(n) == Adj[n] \ offline

\* Nodes at most k hops of online nodes away from n.
Within(n, k) ==
  LET ball[j \in Nat] ==
        IF j = 0 THEN {n}
        ELSE ball[j - 1] \cup UNION {ReachableNeighbors(m) : m \in ball[j - 1]}
  IN ball[k]

\* shortest_path_next_hop: the smallest of the first hops of the shortest paths
\* over online nodes; {} when there is none.
ShortestHop(n, dst) ==
  LET dist(m) == IF \E k \in 0..Cardinality(Node) : dst \in Within(m, k)
                 THEN CHOOSE k \in 0..Cardinality(Node) :
                        /\ dst \in Within(m, k)
                        /\ \A j \in 0..(k - 1) : dst \notin Within(m, j)
                 ELSE Cardinality(Node) + 1
      firsts == {m \in ReachableNeighbors(n) :
                   /\ dist(m) <= Cardinality(Node)
                   /\ \A o \in ReachableNeighbors(n) : dist(m) <= dist(o)}
  IN {m \in firsts : \A o \in firsts : m <= o}

\* Neighbours still to visit, or all of them when none is left.
PreferUnvisited(hops, visited) ==
  IF hops \ visited # {} THEN hops \ visited ELSE hops

\* What solver.next_hop may return at n: {} is None.  Every solver but the
\* shortest-path one scores the reachable neighbours it has not visited.
NextHops(n, dst, visited) ==
  CASE Routing = "shortest" -> ShortestHop(n, dst)
    [] Routing = "scored" -> PreferUnvisited(ReachableNeighbors(n), visited)
=============================================================================
