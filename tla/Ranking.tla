------------------------------- MODULE Ranking -------------------------------
(***************************************************************************)
(* How the search scripts rank candidates and choose the survivors of a    *)
(* stage (heavy_secure_search.py, refine_edge_multiscenario.py), and how   *)
(* the adversarial benchmark finds the solvers nothing dominates.          *)
(*                                                                         *)
(* A row is the evaluation of one candidate, [cand, figure]; figure maps a *)
(* metric to an integer that is better when larger, so the metrics the     *)
(* scripts negate in their keys (max_sybil, score_std) are negated here.   *)
(***************************************************************************)
EXTENDS Integers, SequencesExt

\* The tuples the scripts compare: heavy's stage key, refine's best_key, and the
\* niches of diverse_elite_ids.
HeavyKey == <<"target_hits", "mean_score", "max_sybil", "mean_delivery">>
BestKey == <<"robust_score", "min_score", "max_sybil", "mean_delivery">>
Selectors == <<
  <<"robust_score", "min_score", "max_sybil">>,
  <<"min_score", "robust_score", "max_sybil">>,
  <<"max_sybil", "min_score", "robust_score">>,
  <<"mean_delivery", "min_delivery", "max_sybil">>,
  <<"target_hits", "robust_score", "min_score">>,
  <<"mean_score", "score_std", "min_score">> >>

Keys == ToSet(Selectors) \cup {HeavyKey, BestKey}
Metric == UNION {ToSet(key) : key \in Keys}

\* Tuples compare lexicographically.
Better(key, a, b) ==
  \E k \in DOMAIN key :
    /\ a.figure[key[k]] > b.figure[key[k]]
    /\ \A l \in 1..(k - 1) : a.figure[key[l]] = b.figure[key[l]]

\* sorted(rows, key, reverse=True) is stable: of equal rows the first collected leads.
Ordered(rows, key) ==
  LET before(i, j) == \/ Better(key, rows[i], rows[j])
                      \/ i < j /\ ~Better(key, rows[j], rows[i])
      rank(i) == Cardinality({j \in DOMAIN rows : before(j, i)})
  IN  [k \in DOMAIN rows |-> rows[CHOOSE i \in DOMAIN rows : rank(i) = k - 1]]

\* max(rows, key): the first of the best.
Best(rows, key) == Ordered(rows, key)[1]

\* The scalar selection: the limit best rows.
TopCands(rows, key, limit) ==
  LET ordered == Ordered(rows, key)
  IN  [i \in 1..(IF limit < Len(rows) THEN limit ELSE Len(rows)) |-> ordered[i].cand]

Quota(limit) == (limit + Len(Selectors) - 1) \div Len(Selectors)

\* Does a niche that has just added the last of chosen end its turn?
TurnOver(chosen, limit) ==
  Len(chosen) >= limit \/ Len(chosen) % Quota(limit) = 0

\* A loop over the ranking that appends the candidates not yet chosen until its end.  A
\* niche asks for the end of its turn after an append, the loop over the rest after
\* every row.
Chosen(rows, key, chosen, limit, loop) ==
  LET over(ids) == IF loop = "rest" THEN Len(ids) >= limit ELSE TurnOver(ids, limit)
      visit(acc, row) ==
        LET fresh == row.cand \notin ToSet(acc.ids)
            ids == IF fresh THEN Append(acc.ids, row.cand) ELSE acc.ids
            ends == (fresh \/ loop = "rest") /\ over(ids)
        IN  IF acc.at = "end" THEN acc
            ELSE [ids |-> ids, at |-> IF ends THEN "end" ELSE "row"]
  IN  FoldLeft(visit, [ids |-> chosen, at |-> "row"], Ordered(rows, key)).ids

\* diverse_elite_ids: every niche has a turn while there is room, then the best of the
\* rest.  The last loop tests the limit only after it has looked at a row, so it may
\* add one candidate to a full list.
DiverseElites(rows, limit) ==
  LET turn(chosen, key) ==
        IF Len(chosen) >= limit THEN chosen
        ELSE Chosen(rows, key, chosen, limit, "niche")
      niches == FoldLeft(turn, <<>>, Selectors)
  IN  Chosen(rows, BestKey, niches, limit, "rest")

\* The frontier of write_markdown: b dominates a when it is no worse in delivery and in
\* Sybil exposure and better in one.  The means are given as [delivery, transit, n], sums
\* over n runs.
DominatedBy(a, b) ==
  LET delivery == b.delivery * a.n - a.delivery * b.n
      transit == a.transit * b.n - b.transit * a.n
  IN  delivery >= 0 /\ transit >= 0 /\ (delivery > 0 \/ transit > 0)

Frontier(mean, solvers) ==
  {s \in solvers : ~ \E t \in solvers : DominatedBy(mean[s], mean[t])}
=============================================================================
