------------------------------ MODULE MCEventSim -----------------------------
(***************************************************************************)
(* Small overlays for TLC.                                                 *)
(***************************************************************************)
EXTENDS EventSimRefinement

Undirected(nodes, links) ==
  [n \in nodes |-> {m \in nodes : {n, m} \in links}]

\* A line with a dead end: 4 hangs off 2.
SpurNode == 1..4
SpurAdj == Undirected(SpurNode, {{1, 2}, {2, 3}, {2, 4}})

OneToThree == {<<1, 3>>}
SybilTwo == {2}

Fixed == {[latency |-> 1, service |-> 2]}
FastOrSlow == {[latency |-> 1, service |-> 1], [latency |-> 1, service |-> 2]}
=============================================================================
