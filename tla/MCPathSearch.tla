---------------------------- MODULE MCPathSearch -----------------------------
(***************************************************************************)
(* A small overlay for TLC, as generate_random_graph builds them: a ring   *)
(* and an extra link.                                                      *)
(***************************************************************************)
EXTENDS Episodes

RingNode == 0..4
RingLinks == {{0, 1}, {1, 2}, {2, 3}, {3, 4}, {4, 0}, {1, 3}}
RingAdj == [n \in RingNode |-> {m \in RingNode : {n, m} \in RingLinks}]

NegativeAndThree == {-2, 3}
=============================================================================
