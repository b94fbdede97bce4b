------------------------------- MODULE MCDaemon -------------------------------
(***************************************************************************)
(* Small clusters for TLC.                                                 *)
(***************************************************************************)
EXTENDS DaemonRefinement

Undirected(nodes, links) ==
  [n \in nodes |-> {m \in nodes : {n, m} \in links}]

\* Two disjoint routes from 1 to 4.
DiamondNode == 1..4
DiamondAdj == Undirected(DiamondNode, {{1, 2}, {1, 3}, {2, 4}, {3, 4}})

\* Two routes from 1 that meet at 4, whose only way on is 5.
FunnelNode == 1..5
FunnelAdj == Undirected(FunnelNode, {{1, 2}, {1, 3}, {2, 4}, {3, 4}, {4, 5}})

\* A line with a dead end: 4 hangs off 2.
SpurNode == 1..4
SpurAdj == Undirected(SpurNode, {{1, 2}, {2, 3}, {2, 4}})

OneToFour == {<<1, 4>>}
OneToFive == {<<1, 5>>}
NearAndFar == {<<1, 3>>, <<2, 4>>}
SybilTwo == {2}
SybilTwoFour == {2, 4}
SybilTwoFive == {2, 5}
=============================================================================
