----------------------------- MODULE MCCampaign -----------------------------
(***************************************************************************)
(* Small campaigns for TLC.                                                *)
(***************************************************************************)
EXTENDS Campaign

\* A benchmark is launched, perhaps killed, and launched again; so is a search.  The
\* refinement shares its state files' code with the search and is launched once.
ShortSessions ==
  {<<"sim", "sim">>, <<"network", "network">>, <<"heavy", "heavy">>, <<"refine">>, <<"scalar">>}
SocketSession == {<<"daemon">>}

TwoScenarios == <<"baseline", "churn">>
BenchSolvers == [sim |-> <<"shortest", "risk-aware", "edge">>,
                 daemon |-> <<"edge">>, network |-> <<"shortest", "edge", "edge-light">>]
BenchSeeds == [sim |-> <<20000>>, daemon |-> <<20000>>, network |-> <<10000, 10001>>]

SearchCandidates == [heavy |-> <<1, 2, 3>>, refine |-> <<1, 2, 3>>, scalar |-> <<1, 2, 3>>]
Kinds == <<"edge", "edge", "risk">>

BenchOutcomes == {[delivery |-> 0, transit |-> 0, hops |-> 0],
                  [delivery |-> 1, transit |-> 0, hops |-> 2],
                  [delivery |-> 2, transit |-> 1, hops |-> 3]}

\* An all-rounder, a specialist, and one that ties with the first but for its delivery.
Strong == {{"robust_score", "min_score", "target_hits"}, {"max_sybil", "mean_delivery"},
           {"robust_score", "min_score", "mean_delivery"}}
SomeFigures == {[m \in Metric |-> IF m \in strong THEN 2 ELSE 1] : strong \in Strong}

\* The niches of longer lists, whose turns take two candidates.
Panel == [1..7 -> SomeFigures]
ASSUME \A f \in {g \in Panel : \A i \in 1..6 : g[i] # g[i + 1]}, limit \in {1, 6, 7, 13} :
         LET evaluated == [i \in 1..7 |-> [cand |-> i, figure |-> f[i]]]
         IN  NicheLeadersIn(evaluated, limit, DiverseElites(evaluated, limit))
=============================================================================
