------------------------------- MODULE RepuLink ------------------------------
(***************************************************************************)
(* RepuLinkLedger (repulink.py): reputations from first-hand interactions  *)
(* and from endorsements, with the evidence on a node passed back to those *)
(* who endorsed it.                                                        *)
(*                                                                         *)
(* Reputations, signals and penalties are in units of 1/Scale, each        *)
(* quotient rounded down.                                                  *)
(***************************************************************************)
EXTENDS TrustRows

CONSTANTS
  MaxBackwardHops,      \* max_backward_hops
  Resolution            \* units in 1/10000

Scale == 10000 * Resolution

\* An even share still divides among all nodes. Up to a Resolution of a million a unit is
\* no less than the tolerance of _backward, 1e-10, below which the code passes nothing on.
ASSUME ResolutionAssumption ==
  /\ Resolution \in Nat \ {0}
  /\ Cardinality(Node) * Cardinality(Node) <= Scale

NonNegativeNot(x) == x                                    \* mutant
NonNegative(x) == IF x < 0 THEN 0 ELSE x

\* _project: a distribution, or the fallback when nothing is positive.
Zero == [n \in Node |-> 0]
Project(v, fallback) ==
  LET positive == [n \in Node |-> NonNegative(v[n])]
      total == Total(positive)
  IN IF positive = Zero THEN fallback
     ELSE [n \in Node |-> (positive[n] * Scale) \div total]

EvenShare == [n \in Node |-> Scale \div Cardinality(Node)]

\* endorsement_rows.
Endorsed(b, n, m) == IF n = m THEN 0 ELSE b.endorsed[<<n, m>>]
EndorsedTotal(b, n) == Total([m \in Node |-> Endorsed(b, n, m)])
Part(weight, total, x) == IF total = 0 THEN 0 ELSE (x * weight) \div total

\* cold_start.
ColdStart(b) ==
  Project([m \in Node |-> Total([n \in Node |->
             Part(Endorsed(b, n, m), EndorsedTotal(b, n), EvenShare[n])])],
          EvenShare)

\* _signal, of one target: 1 - exp(-n / 4) for n observations, constant from six on.
Saturating == <<2212, 3935, 5276, 6321, 7135, 7769>>
SignalOf(n) == IF n = 0 THEN 0 ELSE Resolution * Saturating[IF n > 6 THEN 6 ELSE n]
Against(evidence, t) ==
  Total([s \in Node |-> IF <<s, t>> \in Link THEN evidence[<<s, t>>] ELSE 0])
Signal(evidence) == [t \in Node |-> SignalOf(Against(evidence, t))]

\* _backward: half of the signal of those a node endorsed, a quarter of the signal of
\* those they endorsed, and so on, until nothing is left to pass back.
BackForwards(b, f, n) ==                                  \* mutant: blames endorsees
  Total([m \in Node |-> Part(Endorsed(b, m, n), 2 * EndorsedTotal(b, m), f[m])])
Back(b, f, n) ==
  Total([m \in Node |-> Part(Endorsed(b, n, m), 2 * EndorsedTotal(b, n), f[m])])
Backward(b, signal) ==
  LET frontier[hop \in Nat] ==
        IF hop = 0 THEN signal
        ELSE LET before == frontier[hop - 1] IN [n \in Node |-> Back(b, before, n)]
  IN [n \in Node |-> SumFunction([hop \in 1..MaxBackwardHops |-> frontier[hop][n]])]

\* recompute: where the iteration starts and what it restarts from.
SeedEven(b, penalty, reward) ==                           \* mutant: no cold start
  Project([n \in Node |-> Signal(b.delivered)[n] - Signal(b.drops)[n]], EvenShare)
Seed(b, penalty, reward) ==
  LET cold == ColdStart(b)
      drop == Signal(b.drops)
      good == Signal(b.delivered)
  IN Project([n \in Node |-> cold[n] - drop[n] + good[n] - penalty[n] + reward[n]], cold)

\* One iteration: half of a node's reputation goes along its interactions and half
\* along its endorsements, and stays with it where there are none.
Kept(n, m, x) == IF n = m THEN x ELSE 0
Layers(b, v) ==
  LET scored == [n \in Node |-> ScoreTotal(b, n)]
      endorsed == [n \in Node |-> EndorsedTotal(b, n)]
      byInteraction(n, m) == IF scored[n] = 0 THEN Kept(n, m, v[n] \div 2)
                             ELSE Part(NetScore(b, n, m), scored[n], v[n] \div 2)
      byEndorsement(n, m) == IF endorsed[n] = 0 THEN Kept(n, m, v[n] \div 2)
                             ELSE Part(Endorsed(b, n, m), endorsed[n], v[n] \div 2)
  IN [m \in Node |-> Total([n \in Node |-> byInteraction(n, m) + byEndorsement(n, m)])]
RepuStep(b, seed, v) ==
  LET layered == Layers(b, v)
  IN Project([n \in Node |-> (19 * layered[n] + seed[n]) \div 20], seed)
=============================================================================
