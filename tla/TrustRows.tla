------------------------------ MODULE TrustRows ------------------------------
(***************************************************************************)
(* What the ledgers of EigenTrust (solvers.py) and RepuLink (repulink.py)  *)
(* share: first-hand evidence on directed links, the rows of local trust   *)
(* drawn from it, and greedy routing by the vector a ledger publishes.     *)
(*                                                                         *)
(* Evidence b is a record: how often each link delivered and dropped, how  *)
(* confident each node endorsed each other one (in percent, 0 for not at   *)
(* all), and which nodes EigenTrust takes as anchors.                      *)
(***************************************************************************)
EXTENDS P2PGraph, Integers, Functions

Link == {e \in Node \X Node : e[2] \in Adj[e[1]]}
Pair == {e \in Node \X Node : e[1] # e[2]}

Total(v) == SumFunctionOnSet(v, Node)

\* max(delivered - drops, 0), a row of local trust, and its sum.
NetScore(b, s, t) ==
  IF <<s, t>> \in Link /\ b.delivered[<<s, t>>] > b.drops[<<s, t>>]
  THEN b.delivered[<<s, t>>] - b.drops[<<s, t>>] ELSE 0
Scores(b, s) == [t \in Node |-> NetScore(b, s, t)]
ScoreTotal(b, s) == Total(Scores(b, s))

\* next_hop of the two solvers: the destination when it can be reached, else a
\* neighbour of the highest published score; which of equal ones is left open.
GreedyPool(p) == PreferUnvisited(ReachableNeighbors(p.node), p.visited)
GreedyHops(p, score) ==
  IF p.dst \in ReachableNeighbors(p.node) THEN {p.dst}
  ELSE {n \in GreedyPool(p) : \A m \in GreedyPool(p) : score[n] >= score[m]}
=============================================================================
