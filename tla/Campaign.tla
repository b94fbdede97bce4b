------------------------------- MODULE Campaign -------------------------------
(***************************************************************************)
(* The measurement campaigns of scripts/: the adversarial benchmark in its *)
(* simulator ("sim") and socket ("daemon") modes, the real network         *)
(* benchmark ("network"), the heavy secure search ("heavy") and the edge   *)
(* refinement with its diverse ("refine") or scalar ("scalar") selection.  *)
(*                                                                         *)
(* All of them evaluate cells, a solver in a scenario on a seed, and run a *)
(* learning solver several times on a cell with a state file between the   *)
(* runs.  A benchmark is one task that goes through all its cells; a search *)
(* gives every candidate to a pool of worker processes, as one task per    *)
(* stage, and keeps the best for the next stage.  The files outlive the    *)
(* scripts, which are launched one after the other and may be killed.      *)
(*                                                                         *)
(* What a solver has learned is modelled by the sequence of the runs its   *)
(* evidence comes from.  Abstracted: the figures a run ends with (any of   *)
(* Outcome or Figure), best.json as written in one step, and the state     *)
(* files of the nodes of one cluster, which are saved together, as one.    *)
(***************************************************************************)
EXTENDS Ranking

CONSTANTS
  Sessions,     \* the sequences of scripts an operator may launch
  Scenarios,    \* --scenarios
  Solvers,      \* --solvers of each benchmark
  Seeds,        \* the seeds of each benchmark
  SearchSeeds,  \* how many seeds each stage of a search evaluates
  Candidates,   \* the candidate ids of each search, in the order they are submitted
  KindOf,       \* the solver a candidate parametrises
  LearnRuns, TailRuns, Workers, TopK, FinalK,
  BestEvery,    \* stage 1 checkpoints its best every so many rows
  TargetHits,   \* and whenever a row hits so many targets
  Outcome,      \* what a benchmark run may measure: [delivery, transit, hops]
  Figure        \* what the evaluation of a candidate may measure

Benchmark == {"sim", "daemon", "network"}
Refine == {"refine", "scalar"}
Search == {"heavy"} \cup Refine
Learner == {"edge", "edge-light"}
RunStride == 10000          \* seed + run_idx * 10000 of run_daemon_benchmark

ASSUME CampaignAssumption ==
  /\ \A s \in Sessions : s \in Seq(Benchmark \cup Search)
  /\ LearnRuns \in Nat \ {0} /\ TailRuns \in 1..LearnRuns
  /\ Workers \in Nat \ {0} /\ TopK \in Nat \ {0} /\ FinalK \in Nat \ {0}
  /\ BestEvery \in Nat \ {0} /\ TargetHits \in Int
  /\ \A s \in Search : /\ Candidates[s] \in Seq(ToSet(Candidates[s]))
                       /\ Candidates[s] # <<>> /\ IsInjective(Candidates[s])
  /\ \A b \in Benchmark : Solvers[b] \in Seq(STRING) /\ Seeds[b] \in Seq(Int)
  /\ \A f \in Figure, m \in Metric : f[m] \in Int
  /\ \A o \in Outcome : o.delivery \in Nat /\ o.transit \in Nat /\ o.hops \in Nat

VARIABLES
  session,   \* the launches to come
  launch,    \* number of launches so far
  script,    \* the script of the last launch
  phase,     \* of that launch: "idle" (before or killed), "running", "done", "crashed"
  stage,     \* of a search
  queue,     \* tasks submitted and not started
  jobs,      \* the tasks at work
  finished,  \* tasks whose result nobody has taken yet
  rows,      \* of a search: the evaluations of this stage
  results,   \* of a benchmark: all_runs
  files,     \* the state files: [torn, runs]
  best       \* best.json: <<>> or the row it holds

memory == <<stage, queue, jobs, finished, rows, results>>
vars == <<session, launch, script, phase, memory, files, best>>
-----------------------------------------------------------------------------
(* Cells.                                                                  *)

\* Three nested loops.
Nested(as, bs, cs) ==
  [i \in 1..(Len(as) * Len(bs) * Len(cs)) |->
     <<as[1 + (i - 1) \div (Len(bs) * Len(cs))],
       bs[1 + (((i - 1) \div Len(cs)) % Len(bs))],
       cs[1 + ((i - 1) % Len(cs))]>>]

\* Seeds of the searches: the stages are 100000 apart, the scenarios 1000003.
SearchSeed(k, sc, cand) ==
  k + 100000 * (stage - 1) + IF script \in Refine THEN (sc - 1) * 1000003 + cand * 17 ELSE 0

Cell(scenario, solver, seed) == [scenario |-> scenario, solver |-> solver, seed |-> seed]

Positions(list) == [i \in DOMAIN list |-> i]

\* main_async of the adversarial benchmark: scenarios, solvers, seeds.  A scenario is a
\* position in the list of them.
AdversarialPlan ==
  LET loops == Nested(Positions(Scenarios), Solvers[script], Seeds[script])
  IN  [i \in DOMAIN loops |-> Cell(loops[i][1], loops[i][2], loops[i][3])]

\* main_async and _run_seed of the network benchmark: seeds, solvers.
NetworkPlan ==
  LET loops == Nested(<<1>>, Seeds["network"], Solvers["network"])
  IN  [i \in DOMAIN loops |-> Cell(loops[i][1], loops[i][3], loops[i][2])]

\* evaluate_candidate: the seeds of the stage.
HeavyPlan(cand) ==
  [k \in 1..SearchSeeds |-> Cell(1, KindOf[cand], SearchSeed(k, 1, cand))]

\* evaluate_multiscenario: scenarios, seeds; the refinement knows learning routers only.
RefinePlan(cand) ==
  LET loops == Nested(Positions(Scenarios), <<"edge">>, [k \in 1..SearchSeeds |-> k])
  IN  [i \in DOMAIN loops |->
         Cell(loops[i][1], "edge", SearchSeed(loops[i][3], loops[i][1], cand))]

Plan(task) ==
  IF script \in {"sim", "daemon"} THEN AdversarialPlan
  ELSE IF script = "network" THEN NetworkPlan
  ELSE IF script = "heavy" THEN HeavyPlan(task)
  ELSE RefinePlan(task)

\* The solvers whose runs the script means to build on each other.
Persistent(c) ==
  c.solver = "edge" \/ (script \in {"sim", "daemon"} /\ c.solver \in Learner)

\* How often a cell is run: a search evaluates once more than it trains.
Runs(c) ==
  IF ~Persistent(c) THEN 1 ELSE IF script \in Search THEN LearnRuns + 1 ELSE LearnRuns

Outdir == IF script \in Refine THEN "refine" ELSE script

\* The state file of a run.  The two cluster scripts leave it to _make_solver of the
\* daemon, which names it after the seed of the cluster.
ClusterFile(seed) == [dir |-> "cluster", solver |-> "any", cand |-> 0, seed |-> seed]
SimFile(c) == [dir |-> "sim", solver |-> c.solver, cand |-> 0, seed |-> c.seed]
SearchFileOfSeed(cand, c) ==            \* mutant: one name for all candidates
  [dir |-> Outdir, solver |-> "edge", cand |-> 0, seed |-> c.seed]
SearchFile(cand, c) == [dir |-> Outdir, solver |-> "edge", cand |-> cand, seed |-> c.seed]
FileOf(task, c, run) ==
  IF script = "sim" THEN SimFile(c)
  ELSE IF script = "daemon" THEN ClusterFile(c.seed + run * RunStride)
  ELSE IF script = "network" THEN ClusterFile(c.seed)
  ELSE SearchFile(task, c)

\* Is the file removed before the first run of the cell?
Resets(c) == script = "sim" \/ (script # "daemon" /\ c.solver = "edge")

Loads(c, run) == c.solver \in Learner /\ (script = "sim" => run > 0)
Saves(c, run) == c.solver \in Learner /\ (script \in Search => run < LearnRuns)
-----------------------------------------------------------------------------
(* Launching and killing.                                                  *)

Tasks(s) == IF s \in Search THEN Candidates[s] ELSE <<0>>
Pool == IF script \in Search THEN Workers ELSE 1

Forgotten ==
  /\ stage' = 1 /\ jobs' = <<>> /\ finished' = {} /\ rows' = <<>> /\ results' = <<>>

Init ==
  /\ session \in Sessions /\ launch = 0 /\ script = "sim" /\ phase = "idle"
  /\ stage = 1 /\ queue = <<>> /\ jobs = <<>> /\ finished = {}
  /\ rows = <<>> /\ results = <<>>
  /\ files = <<>> /\ best = <<>>

Launch ==
  /\ phase # "running" /\ session # <<>>
  /\ script' = Head(session) /\ session' = Tail(session)
  /\ launch' = launch + 1 /\ phase' = "running"
  /\ queue' = Tasks(script')
  /\ Forgotten
  /\ UNCHANGED <<files, best>>

\* The script and its workers are killed: only the files are left.
Kill ==
  /\ phase = "running" /\ session # <<>>
  /\ phase' = "idle" /\ queue' = <<>>
  /\ Forgotten
  /\ UNCHANGED <<session, launch, script, files, best>>
-----------------------------------------------------------------------------
(* One task.                                                               *)

\* A job is at a cell of its plan and at a run of that cell, which begins, has loaded its
\* state, is saving it, or has failed.
Job(cell, run, step, mind) == [cell |-> cell, run |-> run, step |-> step, mind |-> mind]

StartTask ==
  /\ phase = "running" /\ queue # <<>> /\ Cardinality(DOMAIN jobs) < Pool
  /\ jobs' = [t \in DOMAIN jobs \cup {Head(queue)} |->
                IF t \in DOMAIN jobs THEN jobs[t]
                ELSE Job(1, 0, "begin", <<>>)]
  /\ queue' = Tail(queue)
  /\ UNCHANGED <<session, launch, script, phase, stage, finished, rows, results, files, best>>

CellOf(t) == Plan(t)[jobs[t].cell]

RunId(t, cell, run) ==
  [launch |-> launch, stage |-> stage, task |-> t, cell |-> cell, run |-> run]

Without(f, x) == [y \in DOMAIN f \ {x} |-> f[y]]
With(f, x, v) == [y \in DOMAIN f \cup {x} |-> IF y = x THEN v ELSE f[y]]

\* A run begins: leftovers are removed, a solver is made and loads its state.  On half a
\* file json.loads raises, which ends the script.
BeginRun(t) ==
  LET j == jobs[t]
      c == CellOf(t)
      file == FileOf(t, c, j.run)
      kept == IF Resets(c) /\ j.run = 0 THEN Without(files, file) ELSE files
      found == Loads(c, j.run) /\ file \in DOMAIN kept
  IN  /\ phase = "running" /\ j.step = "begin"
      /\ files' = kept
      /\ IF found /\ kept[file].torn
         THEN /\ jobs' = [jobs EXCEPT ![t] = Job(j.cell, j.run, "failed", <<>>)]
              /\ phase' = "crashed"
         ELSE /\ jobs' = [jobs EXCEPT ![t] = Job(j.cell, j.run, "loaded",
                                                IF found THEN kept[file].runs ELSE <<>>)]
              /\ UNCHANGED phase
      /\ UNCHANGED <<session, launch, script, stage, queue, finished, rows, results, best>>

\* What a job does after a run: the next run, the next cell, or nothing.
Advance(t) ==
  LET j == jobs[t]
      next == IF j.run + 1 < Runs(CellOf(t)) THEN [cell |-> j.cell, run |-> j.run + 1]
              ELSE [cell |-> j.cell + 1, run |-> 0]
  IN  IF next.cell <= Len(Plan(t))
      THEN /\ jobs' = [jobs EXCEPT ![t] = Job(next.cell, next.run, "begin", <<>>)]
           /\ UNCHANGED finished
      ELSE /\ jobs' = Without(jobs, t)
           /\ finished' = finished \cup {t}

\* The run is over and its statistics are kept.  Saving opens the file for writing, which
\* empties it.
EndRun(t) ==
  LET j == jobs[t]
      c == CellOf(t)
  IN  /\ phase = "running" /\ j.step = "loaded"
      /\ IF script \in Benchmark
         THEN \E o \in Outcome :
                results' = Append(results, [scenario |-> c.scenario, solver |-> c.solver,
                                            seed |-> c.seed, run |-> j.run, outcome |-> o])
         ELSE UNCHANGED results
      /\ IF Saves(c, j.run)
         THEN /\ files' = With(files, FileOf(t, c, j.run), [torn |-> TRUE, runs |-> <<>>])
              /\ jobs' = [jobs EXCEPT ![t] = Job(j.cell, j.run, "saving", j.mind)]
              /\ UNCHANGED finished
         ELSE Advance(t) /\ UNCHANGED files
      /\ UNCHANGED <<session, launch, script, phase, stage, queue, rows, best>>

\* The rest of save: the file now holds what was loaded and this run.
Write(t) ==
  LET j == jobs[t]
  IN  /\ phase = "running" /\ j.step = "saving"
      /\ files' = With(files, FileOf(t, CellOf(t), j.run),
                       [torn |-> FALSE, runs |-> Append(j.mind, RunId(t, j.cell, j.run))])
      /\ Advance(t)
      /\ UNCHANGED <<session, launch, script, phase, stage, queue, rows, results, best>>
-----------------------------------------------------------------------------
(* The main process of a search.                                           *)

Key == IF script = "heavy" THEN HeavyKey ELSE BestKey
LastStage == IF script = "heavy" THEN 2 ELSE 3

\* Stage 1 writes best.json now and then, the later stages after every row.
Checkpoints(collected) ==
  \/ stage > 1
  \/ Len(collected) % BestEvery = 0
  \/ collected[Len(collected)].figure["target_hits"] >= TargetHits

LeaderLatest(collected) == collected[Len(collected)]       \* mutant: the row just taken
Leader(collected) == Best(collected, Key)

\* as_completed hands over the result of a task.
Collect(t) ==
  /\ phase = "running" /\ script \in Search /\ t \in finished
  /\ finished' = finished \ {t}
  /\ \E f \in Figure :
       rows' = Append(rows, [launch |-> launch, stage |-> stage, cand |-> t, figure |-> f])
  /\ best' = IF Checkpoints(rows') THEN <<Leader(rows')>> ELSE best
  /\ UNCHANGED <<session, launch, script, phase, stage, queue, jobs, results, files>>

Idle == queue = <<>> /\ jobs = <<>>

Limit == IF stage = 1 THEN TopK ELSE FinalK

SurvivorsScalar == {TopCands(rows, Key, Limit)}         \* mutant: --selection ignored
\* The candidates that go on to the next stage; heavy keeps them in a set.
Survivors ==
  CASE script = "refine" -> {DiverseElites(rows, Limit)}
    [] script = "scalar" -> {TopCands(rows, BestKey, Limit)}
    [] script = "heavy" -> SetToSeqs(ToSet(TopCands(rows, HeavyKey, Limit)))

EndStage ==
  /\ phase = "running" /\ script \in Search /\ Idle /\ finished = {}
  /\ stage < LastStage
  /\ queue' \in Survivors
  /\ stage' = stage + 1 /\ rows' = <<>>
  /\ UNCHANGED <<session, launch, script, phase, jobs, finished, results, files, best>>

\* The last stage is over: best.json receives its best row.  It has one, because no limit is
\* zero.  A benchmark writes its report.
Finish ==
  /\ phase = "running" /\ Idle
  /\ IF script \in Search
     THEN finished = {} /\ stage = LastStage /\ rows # <<>> /\ best' = <<Leader(rows)>>
     ELSE finished = {0} /\ UNCHANGED best
  /\ phase' = "done"
  /\ UNCHANGED <<session, launch, script, memory, files>>

\* Nothing is left to launch.
Rest == phase # "running" /\ session = <<>> /\ UNCHANGED vars

Next ==
  \/ Launch \/ Kill \/ StartTask \/ EndStage \/ Finish \/ Rest
  \/ \E t \in DOMAIN jobs : BeginRun(t) \/ EndRun(t) \/ Write(t)
  \/ \E t \in finished : Collect(t)

Spec == Init /\ [][Next]_vars
-----------------------------------------------------------------------------
(* The reports of the benchmarks.                                          *)

\* [x for x in list if x in wanted]
Kept(list, wanted) ==
  FoldLeft(LAMBDA kept, x : IF x \in wanted THEN Append(kept, x) ELSE kept, <<>>, list)

\* The last runs of a cell, all runs of a solver that does not learn.
LastRuns(scenario, solver, seed) ==
  LET own(r) == r.scenario = scenario /\ r.solver = solver /\ r.seed = seed
      mine == Kept(results, {r \in ToSet(results) : own(r)})
  IN  IF (script # "network" /\ solver \notin Learner) \/ Len(mine) <= TailRuns THEN mine
      ELSE SubSeq(mine, Len(mine) - TailRuns + 1, Len(mine))

Total(runs, field) == FoldLeft(LAMBDA sum, r : sum + r.outcome[field], 0, runs)

\* aggregate_results of the adversarial benchmark: sums over the kept runs of all seeds.
Mean(scenario, solver) ==
  LET runs == FoldLeft(LAMBDA trimmed, seed : trimmed \o LastRuns(scenario, solver, seed),
                       <<>>, Seeds[script])
  IN  [delivery |-> Total(runs, "delivery"), transit |-> Total(runs, "transit"),
       n |-> Len(runs)]

ParetoSolvers(scenario) ==
  LET mean == [s \in ToSet(Solvers[script]) |-> Mean(scenario, s)]
  IN  Frontier(mean, DOMAIN mean)

\* A run that delivers nothing has no mean of hops; _finite_metric_mean is None (n = 0)
\* when no run has one.
HopMean(solver, seed) ==
  LET last == LastRuns(1, solver, seed)
      runs == Kept(last, {r \in ToSet(last) : r.outcome.delivery > 0})
  IN  [sum |-> Total(runs, "hops"), n |-> Len(runs)]

PerSeedFinite(solver) ==                            \* mutant: None left out before pairing
  LET all == [i \in DOMAIN Seeds["network"] |-> HopMean(solver, Seeds["network"][i])]
  IN  Kept(all, {m \in ToSet(all) : m.n > 0})
PerSeed(solver) == [i \in DOMAIN Seeds["network"] |-> HopMean(solver, Seeds["network"][i])]

\* _paired_comparison with the shortest solver: the pairs that have both values.
HopPairs(solver) ==
  LET pairs == Zip(PerSeed(solver), PerSeed("shortest"))
  IN  Kept(pairs, {p \in ToSet(pairs) : p[1].n > 0 /\ p[2].n > 0})
-----------------------------------------------------------------------------
(* Properties *)

\* The runs of the present cell before the present one, in this launch.
OwnRuns(t) == [i \in 1..jobs[t].run |-> RunId(t, jobs[t].cell, i - 1)]

\* "Sequential learn_runs for a seed still share their saved state. Only leftovers from an
\* earlier benchmark invocation are removed, so rerunning a held-out seed cannot silently
\* inherit evidence gathered by a previous run" (real_network_benchmark.py 113-115): the
\* k-th run of a cell starts from the evidence of the runs before it on this cell in this
\* launch and of no other, and no script dies of a file that a killed one left half written.
BuildsOnOwnRuns ==
  \A t \in DOMAIN jobs :
    Persistent(CellOf(t)) =>
      /\ jobs[t].step # "failed"
      /\ jobs[t].step \in {"loaded", "saving"} => jobs[t].mind = OwnRuns(t)

\* Whatever the order in which the workers finish and whichever rows caused a checkpoint,
\* best.json never gets worse within a stage of a search (heavy_secure_search.py 298-301 and
\* 317-322, refine_edge_multiscenario.py 334-336 and 349-367).
BestNeverWorsens ==
  [][best # <<>> /\ best'[1].launch = best[1].launch /\ best'[1].stage = best[1].stage
       => ~Better(Key, best[1], best'[1])]_best

\* "keep elites from complementary niches" (refine_edge_multiscenario.py 266-269): the
\* leader of every niche that fits below the limit goes on, nobody goes on twice, and the
\* list is filled; it has at most one candidate too many.
NicheLeadersIn(evaluated, limit, chosen) ==
  /\ \A i \in DOMAIN Selectors :
       (i - 1) * Quota(limit) < limit => Best(evaluated, Selectors[i]).cand \in ToSet(chosen)
  /\ IsInjective(chosen)
  /\ Len(chosen) \in {Min({limit, Len(evaluated)}), Min({limit + 1, Len(evaluated)})}
NichesSurvive ==
  [][script = "refine" /\ stage' = stage + 1 => NicheLeadersIn(rows, Limit, queue')]_vars

\* Every delta is taken between two means of the same topology seed, and exactly the seeds
\* on which both solvers have a mean are compared (real_network_benchmark.py 240-247).
PairedBySeed ==
  phase = "done" /\ script = "network" =>
    \A s \in ToSet(Solvers["network"]) \ {"shortest"} :
      LET known(seed) == HopMean(s, seed).n > 0 /\ HopMean("shortest", seed).n > 0
          seeds == Kept(Seeds["network"], {seed \in ToSet(Seeds["network"]) : known(seed)})
      IN  HopPairs(s) = [i \in DOMAIN seeds |->
                           <<HopMean(s, seeds[i]), HopMean("shortest", seeds[i])>>]

\* A solver left out of the Pareto frontier is dominated by one that is on it
\* (adversarial_benchmark.py 688-700).
ParetoCovers ==
  phase = "done" /\ script \in {"sim", "daemon"} =>
    \A sc \in DOMAIN Scenarios :
      LET mean == [s \in ToSet(Solvers[script]) |-> Mean(sc, s)]
      IN  \A s \in DOMAIN mean \ ParetoSolvers(sc) :
            \E t \in ParetoSolvers(sc) : DominatedBy(mean[s], mean[t])

\* The reports the benchmarks end with compare what belongs together.
ReportsHold == PairedBySeed /\ ParetoCovers
=============================================================================
