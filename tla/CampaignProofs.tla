---------------------------- MODULE CampaignProofs ----------------------------
(***************************************************************************)
(* For any seeds, solvers, candidates, number of learning runs, workers,   *)
(* launches and kills: where no launch is of the socket mode of the        *)
(* adversarial benchmark, learning campaigns build on their own runs.      *)
(*                                                                         *)
(* The property speaks of solvers that have loaded.  Its strengthening     *)
(* InOrder says what the file holds between the runs of a cell, which      *)
(* needs two facts more: a benchmark has one job, and two jobs of a search *)
(* never share a file.                                                     *)
(*                                                                         *)
(* best.json never gets worse within a stage: it is one of the rows of the *)
(* stage, and the leader of more rows is no worse than any of them.        *)
(*                                                                         *)
(* The diverse selection keeps its promise for every list of rows and      *)
(* every limit (ElitesAre); that the lists the campaign gives it are not   *)
(* empty and name no candidate twice is the invariant Placed.              *)
(*                                                                         *)
(* What the reports compare follows from what the runs measured alone: a   *)
(* comprehension keeps the images of what it keeps (KeptMaps), and         *)
(* dominance is a strict order of fractions (FrontierCovers).              *)
(***************************************************************************)
EXTENDS Campaign, Foundations

NoSocketMode == \A s \in Sessions : \A i \in DOMAIN s : s[i] # "daemon"

Script == (Benchmark \cup Search) \ {"daemon"}
File(t) == FileOf(t, CellOf(t), jobs[t].run)

\* The launches to come are of the other scripts.
Launches == session \in Seq(Script) /\ script \in Script

\* A benchmark is one task.
OneTask ==
  script \in Benchmark => DOMAIN jobs \subseteq {0} /\ queue \in {<<>>, <<0>>}

\* Between two runs of a cell its file holds the runs so far, during a run the solver does.
InOrder(t) ==
  /\ jobs[t].run \in Nat
  /\ jobs[t].step \in {"begin", "loaded", "saving", "failed"}
  /\ Persistent(CellOf(t)) =>
       /\ jobs[t].step # "failed"
       /\ jobs[t].step = "begin" /\ jobs[t].run > 0 =>
            /\ File(t) \in DOMAIN files
            /\ files[File(t)] = [torn |-> FALSE, runs |-> OwnRuns(t)]
       /\ jobs[t].step \in {"loaded", "saving"} => jobs[t].mind = OwnRuns(t)

IInv == Launches /\ OneTask /\ \A t \in DOMAIN jobs : InOrder(t)

-----------------------------------------------------------------------------
\* Plans and what is done with a cell depend on the script and the stage only.
LEMMA SamePlan ==
  ASSUME UNCHANGED <<script, stage>>, NEW t PROVE Plan(t)' = Plan(t)
<1>1. AdversarialPlan' = AdversarialPlan
  BY DEF AdversarialPlan
<1>2. NetworkPlan' = NetworkPlan
  BY DEF NetworkPlan
<1>3. HeavyPlan(t)' = HeavyPlan(t)
  BY DEF HeavyPlan, SearchSeed
<1>4. RefinePlan(t)' = RefinePlan(t)
  BY DEF RefinePlan, SearchSeed
<1> QED
  BY <1>1, <1>2, <1>3, <1>4 DEF Plan

LEMMA SameRules ==
  ASSUME UNCHANGED script, NEW t, NEW c, NEW r
  PROVE  /\ Persistent(c)' = Persistent(c)
         /\ FileOf(t, c, r)' = FileOf(t, c, r)
<1>1. Persistent(c)' = Persistent(c)
  BY DEF Persistent
<1>2. FileOf(t, c, r)' = FileOf(t, c, r)
  BY DEF FileOf, SearchFile, Outdir
<1> QED
  BY <1>1, <1>2

\* Outside the socket mode the file of a cell does not depend on the run.
LEMMA SameFile ==
  ASSUME Launches, NEW t, NEW c, NEW a, NEW b
  PROVE  FileOf(t, c, a) = FileOf(t, c, b)
BY DEF Launches, Script, FileOf, Benchmark, Search, Refine

\* Two jobs use two files.
LEMMA DistinctFiles ==
  ASSUME Launches, OneTask, NEW t \in DOMAIN jobs, NEW u \in DOMAIN jobs, t # u,
         NEW c, NEW d, NEW a, NEW b
  PROVE  FileOf(t, c, a) # FileOf(u, d, b)
<1>1. script \in Search /\ script \notin {"sim", "daemon", "network"}
  BY DEF Launches, Script, OneTask, Benchmark, Search, Refine
<1>2. FileOf(t, c, a) = SearchFile(t, c) /\ FileOf(u, d, b) = SearchFile(u, d)
  BY <1>1 DEF FileOf
<1>3. SearchFile(t, c).cand = t /\ SearchFile(u, d).cand = u
  BY DEF SearchFile
<1> QED
  BY <1>2, <1>3
-----------------------------------------------------------------------------
(* Rules of a cell and a file.                                             *)

\* Without the socket mode a cell with runs that build on each other starts clean, its later
\* runs load, and the only run that saves nothing is the last of a search.
LEMMA RulesOfLearning ==
  ASSUME Launches, NEW c, Persistent(c), NEW r \in Nat
  PROVE  /\ Resets(c)
         /\ r > 0 => Loads(c, r)
         /\ r + 1 < Runs(c) => Saves(c, r)
<1>1. script # "daemon" /\ script \in {"sim", "network", "heavy", "refine", "scalar"}
  BY DEF Launches, Script, Benchmark, Search, Refine
<1>2. c.solver \in Learner /\ (script # "sim" => c.solver = "edge")
  BY <1>1 DEF Persistent, Learner
<1>3. Resets(c)
  BY <1>1, <1>2 DEF Resets
<1>4. r > 0 => Loads(c, r)
  BY <1>2 DEF Loads
<1>5. r + 1 < Runs(c) => Saves(c, r)
  <2>1. LearnRuns \in Nat
    BY CampaignAssumption
  <2> QED
    BY <1>2, <2>1 DEF Runs, Saves
<1> QED
  BY <1>3, <1>4, <1>5

\* Taking a place out of a function.
LEMMA WithoutIs ==
  ASSUME NEW f, NEW x
  PROVE  /\ DOMAIN Without(f, x) = DOMAIN f \ {x}
         /\ \A y \in DOMAIN f : y # x => Without(f, x)[y] = f[y]
BY DEF Without

\* A cell that has not been run has no runs; one more run is one more at the end.
LEMMA NoRuns ==
  ASSUME NEW t, jobs[t].run = 0 PROVE OwnRuns(t) = <<>>
BY DEF OwnRuns

LEMMA OneMoreRun ==
  ASSUME NEW t, jobs[t].run \in Nat, UNCHANGED <<launch, stage>>,
         jobs'[t].run = jobs[t].run + 1, jobs'[t].cell = jobs[t].cell
  PROVE  OwnRuns(t)' = Append(OwnRuns(t), RunId(t, jobs[t].cell, jobs[t].run))
<1> DEFINE n == jobs[t].run
           id(r) == [launch |-> launch, stage |-> stage, task |-> t,
                     cell |-> jobs[t].cell, run |-> r]
<1>1. OwnRuns(t)' = [i \in 1..(n + 1) |-> id(i - 1)]
  BY DEF OwnRuns, RunId
<1>2. OwnRuns(t) = [i \in 1..n |-> id(i - 1)] /\ RunId(t, jobs[t].cell, n) = id(n)
  BY DEF OwnRuns, RunId
<1> HIDE DEF id
<1>3. Append([i \in 1..n |-> id(i - 1)], id(n)) = [i \in 1..(n + 1) |-> id(i - 1)]
  <2> DEFINE s == [i \in 1..n |-> id(i - 1)]
  <2>1. n \in Nat /\ DOMAIN s = 1..n
    OBVIOUS
  <2>2. Len(s) = n
    BY <2>1
  <2> QED
    BY <2>1, <2>2
<1> QED
  BY <1>1, <1>2, <1>3
-----------------------------------------------------------------------------
(* The jobs a step leaves alone.                                           *)

\* A job keeps its order when neither it nor its file changes.
LEMMA Untouched ==
  ASSUME NEW u, InOrder(u), UNCHANGED <<script, stage, launch>>, jobs'[u] = jobs[u],
         File(u) \in DOMAIN files =>
           File(u) \in DOMAIN files' /\ files'[File(u)] = files[File(u)]
  PROVE  InOrder(u)'
<1>1. CellOf(u)' = CellOf(u)
  BY SamePlan DEF CellOf
<1>2. Persistent(CellOf(u))' = Persistent(CellOf(u))
  BY <1>1 DEF Persistent
<1>3. File(u)' = File(u)
  BY <1>1 DEF File, FileOf, SearchFile, Outdir
<1>4. OwnRuns(u)' = OwnRuns(u)
  BY DEF OwnRuns, RunId
<1> QED
  BY <1>1, <1>2, <1>3, <1>4 DEF InOrder

-----------------------------------------------------------------------------
(* The steps of a job.                                                     *)

\* The next run of the cell finds the file in order; a next cell has yet to be run.
LEMMA Advances ==
  ASSUME NEW t \in DOMAIN jobs, Launches, OneTask, \A u \in DOMAIN jobs : InOrder(u),
         UNCHANGED <<session, script, stage, launch, queue>>, Advance(t),
         \A u \in DOMAIN jobs : u # t /\ File(u) \in DOMAIN files =>
           File(u) \in DOMAIN files' /\ files'[File(u)] = files[File(u)],
         Persistent(CellOf(t)) /\ jobs[t].run + 1 < Runs(CellOf(t)) =>
           /\ File(t) \in DOMAIN files'
           /\ files'[File(t)] = [torn |-> FALSE,
                runs |-> Append(OwnRuns(t), RunId(t, jobs[t].cell, jobs[t].run))]
  PROVE  (\A u \in DOMAIN jobs : InOrder(u))' /\ OneTask' /\ Launches'
<1>1. /\ DOMAIN jobs' \subseteq DOMAIN jobs
      /\ \A u \in DOMAIN jobs' : u # t => jobs'[u] = jobs[u]
  BY DEF Advance, Without
<1>2. ASSUME NEW u \in DOMAIN jobs', u # t PROVE InOrder(u)'
  BY <1>1, <1>2, Untouched
<1>3. ASSUME t \in DOMAIN jobs' PROVE InOrder(t)'
  <2> DEFINE c == CellOf(t)
             j == jobs[t]
  <2>1. PICK next : /\ jobs'[t] = Job(next.cell, next.run, "begin", <<>>)
                    /\ next = IF j.run + 1 < Runs(c) THEN [cell |-> j.cell, run |-> j.run + 1]
                              ELSE [cell |-> j.cell + 1, run |-> 0]
    BY <1>3 DEF Advance, Without
  <2>2. j.run \in Nat
    BY DEF InOrder
  <2>3. CASE j.run + 1 < Runs(c)
    <3>1. jobs'[t] = Job(j.cell, j.run + 1, "begin", <<>>)
      BY <2>1, <2>3
    <3>2. /\ jobs'[t].run = j.run + 1 /\ jobs'[t].cell = j.cell /\ jobs'[t].step = "begin"
      BY <3>1 DEF Job
    <3>3. CellOf(t)' = c
      BY <3>2, SamePlan DEF CellOf
    <3>4. Persistent(CellOf(t))' = Persistent(c)
      BY <3>3 DEF Persistent
    <3>5. File(t)' = FileOf(t, c, j.run + 1)
      BY <3>2, <3>3 DEF File, FileOf, SearchFile, Outdir
    <3>6. File(t)' = File(t)
      BY <3>5, SameFile DEF File
    <3>7. OwnRuns(t)' = Append(OwnRuns(t), RunId(t, j.cell, j.run))
      BY <2>2, <3>2, OneMoreRun
    <3> QED
      BY <2>2, <2>3, <3>2, <3>4, <3>6, <3>7 DEF InOrder
  <2>4. CASE ~(j.run + 1 < Runs(c))
    <3>1. jobs'[t] = Job(j.cell + 1, 0, "begin", <<>>)
      BY <2>1, <2>4
    <3>2. jobs'[t].run = 0 /\ jobs'[t].step = "begin"
      BY <3>1 DEF Job
    <3> QED
      BY <3>2 DEF InOrder
  <2> QED
    BY <2>3, <2>4
<1>4. OneTask'
  BY <1>1 DEF OneTask
<1>5. Launches'
  BY DEF Launches
<1>6. \A u \in DOMAIN jobs' : InOrder(u)'
  BY <1>2, <1>3
<1> QED
  BY <1>4, <1>5, <1>6

LEMMA BeginRunOrder == 
  ASSUME NEW t \in DOMAIN jobs, IInv, BeginRun(t) PROVE IInv'
<1> DEFINE j == jobs[t]
           c == CellOf(t)
           file == FileOf(t, c, j.run)
           kept == IF Resets(c) /\ j.run = 0 THEN Without(files, file) ELSE files
           found == Loads(c, j.run) /\ file \in DOMAIN kept
<1>1. /\ j.step = "begin" /\ files' = kept
      /\ UNCHANGED <<session, launch, script, stage, queue>>
      /\ jobs' = [jobs EXCEPT ![t] =
                    IF found /\ kept[file].torn THEN Job(j.cell, j.run, "failed", <<>>)
                    ELSE Job(j.cell, j.run, "loaded", IF found THEN kept[file].runs ELSE <<>>)]
  BY DEF BeginRun
<1>2. j.run \in Nat /\ InOrder(t)
  BY DEF IInv, InOrder
<1>3. DOMAIN jobs' = DOMAIN jobs /\ \A u \in DOMAIN jobs : u # t => jobs'[u] = jobs[u]
  BY <1>1
<1>4. ASSUME NEW u \in DOMAIN jobs, u # t PROVE InOrder(u)'
  <2>1. File(u) # file
    BY <1>4, DistinctFiles DEF IInv, File
  <2>2. File(u) \in DOMAIN files =>
          File(u) \in DOMAIN files' /\ files'[File(u)] = files[File(u)]
    BY <1>1, <2>1, WithoutIs
  <2> QED
    BY <1>1, <1>3, <1>4, <2>2, Untouched DEF IInv
<1>5. InOrder(t)'
  <2>1. jobs'[t] = IF found /\ kept[file].torn THEN Job(j.cell, j.run, "failed", <<>>)
                   ELSE Job(j.cell, j.run, "loaded", IF found THEN kept[file].runs ELSE <<>>)
    BY <1>1
  <2>2. jobs'[t].run = j.run /\ jobs'[t].cell = j.cell /\ jobs'[t].step \in {"loaded", "failed"}
    BY <2>1 DEF Job
  <2>3. CellOf(t)' = c
    BY <1>1, <2>2, SamePlan DEF CellOf
  <2>4. Persistent(CellOf(t))' = Persistent(c)
    BY <1>1, <2>3 DEF Persistent
  <2>5. OwnRuns(t)' = OwnRuns(t)
    BY <1>1, <2>2 DEF OwnRuns, RunId
  <2>6. ASSUME Persistent(c) PROVE jobs'[t].step = "loaded" /\ jobs'[t].mind = OwnRuns(t)
    <3>1. Resets(c) /\ (j.run > 0 => Loads(c, j.run))
      BY <1>2, <2>6, RulesOfLearning DEF IInv
    <3>2. CASE j.run = 0
      <4>1. file \notin DOMAIN kept
        BY <3>1, <3>2, WithoutIs
      <4>2. jobs'[t] = Job(j.cell, j.run, "loaded", <<>>)
        BY <2>1, <4>1
      <4> QED
        BY <3>2, <4>2, NoRuns DEF Job
    <3>3. CASE j.run > 0
      <4>1. kept = files /\ file = File(t)
        BY <3>3 DEF File
      <4>2. file \in DOMAIN kept /\ kept[file] = [torn |-> FALSE, runs |-> OwnRuns(t)]
        BY <1>1, <1>2, <2>6, <3>3, <4>1 DEF InOrder
      <4>3. jobs'[t] = Job(j.cell, j.run, "loaded", OwnRuns(t))
        BY <2>1, <3>1, <3>3, <4>2
      <4> QED
        BY <4>3 DEF Job
    <3> QED
      BY <1>2, <3>2, <3>3
  <2> QED
    BY <1>2, <2>2, <2>4, <2>5, <2>6 DEF InOrder
<1>6. (\A u \in DOMAIN jobs : InOrder(u))'
  BY <1>3, <1>4, <1>5
<1>7. Launches' /\ OneTask'
  BY <1>1, <1>3 DEF IInv, Launches, OneTask
<1> QED
  BY <1>6, <1>7 DEF IInv

LEMMA EndRunOrder ==
  ASSUME NEW t \in DOMAIN jobs, IInv, EndRun(t) PROVE IInv'
<1> DEFINE j == jobs[t]
           c == CellOf(t)
<1>1. j.step = "loaded" /\ UNCHANGED <<session, launch, script, stage, queue>>
  BY DEF EndRun
<1>2. j.run \in Nat /\ InOrder(t)
  BY DEF IInv, InOrder
<1>3. CASE Saves(c, j.run)
  <2>1. /\ files' = With(files, File(t), [torn |-> TRUE, runs |-> <<>>])
        /\ jobs' = [jobs EXCEPT ![t] = Job(j.cell, j.run, "saving", j.mind)]
    BY <1>3 DEF EndRun, File
  <2>2. DOMAIN jobs' = DOMAIN jobs /\ \A u \in DOMAIN jobs : u # t => jobs'[u] = jobs[u]
    BY <2>1
  <2>3. ASSUME NEW u \in DOMAIN jobs, u # t PROVE InOrder(u)'
    <3>1. File(u) # File(t)
      BY <2>3, DistinctFiles DEF IInv, File
    <3>2. File(u) \in DOMAIN files =>
            File(u) \in DOMAIN files' /\ files'[File(u)] = files[File(u)]
      BY <2>1, <3>1 DEF With
    <3> QED
      BY <1>1, <2>2, <2>3, <3>2, Untouched DEF IInv
  <2>4. InOrder(t)'
    <3>1. /\ jobs'[t].run = j.run /\ jobs'[t].cell = j.cell /\ jobs'[t].step = "saving"
          /\ jobs'[t].mind = j.mind
      BY <2>1 DEF Job
    <3>2. CellOf(t)' = c
      BY <1>1, <3>1, SamePlan DEF CellOf
    <3>3. Persistent(CellOf(t))' = Persistent(c)
      BY <1>1, <3>2 DEF Persistent
    <3>4. OwnRuns(t)' = OwnRuns(t)
      BY <1>1, <3>1 DEF OwnRuns, RunId
    <3> QED
      BY <1>1, <1>2, <3>1, <3>3, <3>4 DEF InOrder
  <2>5. (\A u \in DOMAIN jobs : InOrder(u))'
    BY <2>2, <2>3, <2>4
  <2>6. Launches' /\ OneTask'
    BY <1>1, <2>2 DEF IInv, Launches, OneTask
  <2> QED
    BY <2>5, <2>6 DEF IInv
<1>4. CASE ~Saves(c, j.run)
  <2>1. Advance(t) /\ UNCHANGED files
    BY <1>4 DEF EndRun
  <2>2. ~(Persistent(c) /\ j.run + 1 < Runs(c))
    BY <1>2, <1>4, RulesOfLearning DEF IInv
  <2> QED
    BY <1>1, <2>1, <2>2, Advances DEF IInv
<1> QED
  BY <1>3, <1>4

LEMMA WriteOrder ==
  ASSUME NEW t \in DOMAIN jobs, IInv, Write(t) PROVE IInv'
<1> DEFINE j == jobs[t]
           v == [torn |-> FALSE, runs |-> Append(j.mind, RunId(t, j.cell, j.run))]
<1>1. /\ j.step = "saving" /\ files' = With(files, File(t), v) /\ Advance(t)
      /\ UNCHANGED <<session, launch, script, stage, queue>>
  BY DEF Write, File
<1>2. Persistent(CellOf(t)) => j.mind = OwnRuns(t)
  BY <1>1 DEF IInv, InOrder
<1>3. ASSUME NEW u \in DOMAIN jobs, u # t
      PROVE  File(u) \in DOMAIN files =>
               File(u) \in DOMAIN files' /\ files'[File(u)] = files[File(u)]
  <2>1. File(u) # File(t)
    BY <1>3, DistinctFiles DEF IInv, File
  <2> QED
    BY <1>1, <2>1 DEF With
<1>4. File(t) \in DOMAIN files' /\ files'[File(t)] = v
  BY <1>1 DEF With
<1> QED
  BY <1>1, <1>2, <1>3, <1>4, Advances DEF IInv
-----------------------------------------------------------------------------
(* The script and its launches.                                            *)

LEMMA LaunchOrder ==
  ASSUME IInv, Launch PROVE IInv'
<1>1. session' \in Seq(Script) /\ script' \in Script
  BY DEF IInv, Launches, Launch
<1>2. jobs' = <<>>
  BY DEF Launch, Forgotten
<1>3. DOMAIN jobs' = {}
  BY <1>2
<1>4. script' \in Benchmark => queue' = <<0>>
  BY DEF Launch, Tasks, Benchmark, Search, Refine
<1> QED
  BY <1>1, <1>3, <1>4 DEF IInv, Launches, OneTask

LEMMA KillOrder ==
  ASSUME IInv, Kill PROVE IInv'
<1>1. jobs' = <<>> /\ queue' = <<>> /\ UNCHANGED <<session, script>>
  BY DEF Kill, Forgotten
<1>2. DOMAIN jobs' = {}
  BY <1>1
<1> QED
  BY <1>1, <1>2 DEF IInv, Launches, OneTask

LEMMA StartTaskOrder ==
  ASSUME IInv, StartTask PROVE IInv'
<1> DEFINE new == Head(queue)
<1>1. /\ queue # <<>> /\ queue' = Tail(queue)
      /\ UNCHANGED <<session, launch, script, stage, files>>
      /\ jobs' = [t \in DOMAIN jobs \cup {new} |->
                    IF t \in DOMAIN jobs THEN jobs[t] ELSE Job(1, 0, "begin", <<>>)]
  BY DEF StartTask
<1>2. ASSUME NEW u \in DOMAIN jobs' PROVE InOrder(u)'
  <2>1. CASE u \in DOMAIN jobs
    <3>1. jobs'[u] = jobs[u]
      BY <1>1, <2>1
    <3> QED
      BY <1>1, <2>1, <3>1, Untouched DEF IInv
  <2>2. CASE u \notin DOMAIN jobs
    <3>1. jobs'[u] = Job(1, 0, "begin", <<>>)
      BY <1>1, <1>2, <2>2
    <3>2. jobs'[u].run = 0 /\ jobs'[u].step = "begin"
      BY <3>1 DEF Job
    <3> QED
      BY <3>2 DEF InOrder
  <2> QED
    BY <2>1, <2>2
<1>3. OneTask'
  <2> SUFFICES ASSUME script \in Benchmark PROVE DOMAIN jobs' \subseteq {0} /\ queue' = <<>>
    BY <1>1 DEF OneTask
  <2>1. queue = <<0>> /\ DOMAIN jobs \subseteq {0}
    BY <1>1 DEF IInv, OneTask
  <2>2. new = 0 /\ Tail(queue) = <<>>
    BY <2>1
  <2> QED
    BY <1>1, <2>1, <2>2
<1>4. Launches'
  BY <1>1 DEF IInv, Launches
<1> QED
  BY <1>2, <1>3, <1>4 DEF IInv

\* The main process of a search never touches a job or a file.
LEMMA MainOrder ==
  ASSUME IInv, EndStage \/ Finish \/ Rest \/ \E t \in finished : Collect(t) PROVE IInv'
<1>1. CASE EndStage
  <2>1. jobs = <<>> /\ jobs' = jobs /\ UNCHANGED <<session, script>> /\ script \in Search
    BY <1>1 DEF EndStage, Idle
  <2>2. DOMAIN jobs' = {}
    BY <2>1
  <2>3. script \notin Benchmark
    BY <2>1 DEF Benchmark, Search, Refine
  <2> QED
    BY <2>1, <2>2, <2>3 DEF IInv, Launches, OneTask
<1>2. CASE Finish \/ Rest \/ \E t \in finished : Collect(t)
  <2>1. UNCHANGED <<session, launch, script, stage, queue, jobs, files>>
    BY <1>2 DEF Finish, Rest, Collect, vars, memory
  <2>2. \A u \in DOMAIN jobs : InOrder(u)'
    BY <2>1, Untouched DEF IInv
  <2> QED
    BY <2>1, <2>2 DEF IInv, Launches, OneTask
<1> QED
  BY <1>1, <1>2

LEMMA InitOrder ==
  ASSUME NoSocketMode, Init PROVE IInv
<1>1. session \in Seq(Script)
  <2>1. session \in Seq(Benchmark \cup Search) /\ session \in Sessions
    BY CampaignAssumption DEF Init
  <2>2. \A i \in DOMAIN session : session[i] \in Script
    BY <2>1 DEF NoSocketMode, Script
  <2> QED
    BY <2>1, <2>2
<1>2. DOMAIN jobs = {} /\ queue = <<>> /\ script \in Script
  BY DEF Init, Script, Benchmark
<1> QED
  BY <1>1, <1>2 DEF IInv, Launches, OneTask

LEMMA StepOrder ==
  ASSUME IInv, [Next]_vars PROVE IInv'
<1>1. CASE UNCHANGED vars
  <2>1. Rest \/ UNCHANGED <<session, launch, script, stage, queue, jobs, files>>
    BY <1>1 DEF vars, memory
  <2>2. UNCHANGED <<session, launch, script, stage, queue, jobs, files>>
    BY <2>1 DEF Rest, vars, memory
  <2>3. \A u \in DOMAIN jobs : InOrder(u)'
    BY <2>2, Untouched DEF IInv
  <2> QED
    BY <2>2, <2>3 DEF IInv, Launches, OneTask
<1>2. CASE Launch
  BY <1>2, LaunchOrder
<1>3. CASE Kill
  BY <1>3, KillOrder
<1>4. CASE StartTask
  BY <1>4, StartTaskOrder
<1>5. ASSUME NEW t \in DOMAIN jobs, BeginRun(t) \/ EndRun(t) \/ Write(t) PROVE IInv'
  BY <1>5, BeginRunOrder, EndRunOrder, WriteOrder
<1>6. CASE EndStage \/ Finish \/ Rest \/ \E t \in finished : Collect(t)
  BY <1>6, MainOrder
<1> QED
  BY <1>1, <1>2, <1>3, <1>4, <1>5, <1>6 DEF Next

\* Learning campaigns start clean and build on their own runs, in every script but the
\* socket mode, however launches and kills leave the files of earlier ones behind
\* (real_network_benchmark.py 111-122, heavy_secure_search.py 98-133).
THEOREM BuildsOnOwnRunsHolds ==
  ASSUME NoSocketMode PROVE Spec => []BuildsOnOwnRuns
<1>1. Init => IInv
  BY InitOrder
<1>2. IInv /\ [Next]_vars => IInv'
  BY StepOrder
<1>3. IInv => BuildsOnOwnRuns
  BY DEF IInv, InOrder, BuildsOnOwnRuns
<1> QED
  BY <1>1, <1>2, <1>3, PTL DEF Spec
-----------------------------------------------------------------------------
(* The order of rows.                                                      *)

Measured(r) == \A m \in Metric : r.figure[m] \in Int
Ties(key, a, b) == \A k \in DOMAIN key : a.figure[key[k]] = b.figure[key[k]]

LEMMA KeyShape ==
  ASSUME NEW key \in Keys
  PROVE  /\ \E m \in Nat : DOMAIN key = 1..m
         /\ \A k \in DOMAIN key : key[k] \in Metric
<1>1. DOMAIN Selectors = 1..6
  BY DEF Selectors
<1>2. ASSUME NEW i \in 1..6 PROVE DOMAIN Selectors[i] = 1..3
  <2>1. i = 1 \/ i = 2 \/ i = 3 \/ i = 4 \/ i = 5 \/ i = 6
    OBVIOUS
  <2> QED
    BY <2>1 DEF Selectors
<1>3. DOMAIN HeavyKey = 1..4 /\ DOMAIN BestKey = 1..4
  BY DEF HeavyKey, BestKey
<1>4. \E m \in Nat : DOMAIN key = 1..m
  <2>1. key = HeavyKey \/ key = BestKey \/ \E i \in 1..6 : key = Selectors[i]
    BY <1>1 DEF Keys, ToSet
  <2> QED
    BY <1>2, <1>3, <2>1
<1>5. \A k \in DOMAIN key : key[k] \in Metric
  BY DEF Metric, ToSet
<1> QED
  BY <1>4, <1>5

\* Of two rows that do not tie one is better: the first metric in which they differ decides.
LEMMA BetterTotal ==
  ASSUME NEW key \in Keys, NEW a, NEW b, Measured(a), Measured(b)
  PROVE  Better(key, a, b) \/ Better(key, b, a) \/ Ties(key, a, b)
<1> SUFFICES ASSUME ~Ties(key, a, b) PROVE Better(key, a, b) \/ Better(key, b, a)
  OBVIOUS
<1> DEFINE differ == {k \in DOMAIN key : a.figure[key[k]] # b.figure[key[k]]}
<1>1. differ \in SUBSET Nat /\ differ # {}
  <2>1. DOMAIN key \subseteq Nat
    BY KeyShape
  <2>2. differ # {}
    BY DEF Ties
  <2> QED
    BY <2>1, <2>2
<1> HIDE DEF differ
<1>2. PICK k \in differ : \A l \in differ : k <= l
  BY <1>1, LeastNatural
<1>3. k \in DOMAIN key /\ a.figure[key[k]] # b.figure[key[k]]
  BY <1>2 DEF differ
<1>4. \A l \in 1..(k - 1) : a.figure[key[l]] = b.figure[key[l]]
  <2> SUFFICES ASSUME NEW l \in 1..(k - 1) PROVE a.figure[key[l]] = b.figure[key[l]]
    OBVIOUS
  <2>1. PICK m \in Nat : DOMAIN key = 1..m
    BY KeyShape
  <2>2. k \in 1..m
    BY <1>3, <2>1
  <2>3. l \in 1..m /\ ~(k <= l)
    BY <2>2
  <2>4. l \notin differ
    BY <1>2, <2>3
  <2> QED
    BY <2>1, <2>3, <2>4 DEF differ
<1>5. a.figure[key[k]] \in Int /\ b.figure[key[k]] \in Int
  BY <1>3, KeyShape DEF Measured
<1>6. a.figure[key[k]] > b.figure[key[k]] \/ b.figure[key[k]] > a.figure[key[k]]
  BY <1>3, <1>5
<1> QED
  BY <1>3, <1>4, <1>6 DEF Better

LEMMA BetterTransitive ==
  ASSUME NEW key \in Keys, NEW a, NEW b, NEW c, Measured(a), Measured(b), Measured(c),
         Better(key, a, b), Better(key, b, c)
  PROVE  Better(key, a, c)
<1>1. PICK k \in DOMAIN key : /\ a.figure[key[k]] > b.figure[key[k]]
                             /\ \A i \in 1..(k - 1) : a.figure[key[i]] = b.figure[key[i]]
  BY DEF Better
<1>2. PICK l \in DOMAIN key : /\ b.figure[key[l]] > c.figure[key[l]]
                             /\ \A i \in 1..(l - 1) : b.figure[key[i]] = c.figure[key[i]]
  BY DEF Better
<1>3. k \in Nat \ {0} /\ l \in Nat \ {0}
  BY KeyShape
<1>4. /\ a.figure[key[k]] \in Int /\ b.figure[key[k]] \in Int /\ c.figure[key[k]] \in Int
      /\ a.figure[key[l]] \in Int /\ b.figure[key[l]] \in Int /\ c.figure[key[l]] \in Int
  BY KeyShape DEF Measured
<1>5. CASE k < l
  <2>1. k \in 1..(l - 1) /\ \A i \in 1..(k - 1) : i \in 1..(l - 1)
    BY <1>3, <1>5
  <2>2. b.figure[key[k]] = c.figure[key[k]]
    BY <1>2, <2>1
  <2>3. \A i \in 1..(k - 1) : a.figure[key[i]] = c.figure[key[i]]
    BY <1>1, <1>2, <2>1
  <2> QED
    BY <1>1, <2>2, <2>3 DEF Better
<1>6. CASE k = l
  <2>1. a.figure[key[k]] > c.figure[key[k]]
    BY <1>1, <1>2, <1>4, <1>6
  <2>2. \A i \in 1..(k - 1) : a.figure[key[i]] = c.figure[key[i]]
    BY <1>1, <1>2, <1>6
  <2> QED
    BY <2>1, <2>2 DEF Better
<1>7. CASE l < k
  <2>1. l \in 1..(k - 1) /\ \A i \in 1..(l - 1) : i \in 1..(k - 1)
    BY <1>3, <1>7
  <2>2. a.figure[key[l]] = b.figure[key[l]]
    BY <1>1, <2>1
  <2>3. \A i \in 1..(l - 1) : a.figure[key[i]] = c.figure[key[i]]
    BY <1>1, <1>2, <2>1
  <2> QED
    BY <1>2, <2>2, <2>3 DEF Better
<1> QED
  BY <1>3, <1>5, <1>6, <1>7

LEMMA NotBetterThanItself ==
  ASSUME NEW key \in Keys, NEW a, Measured(a)
  PROVE  ~Better(key, a, a)
<1>1. \A k \in DOMAIN key : a.figure[key[k]] \in Int
  BY KeyShape DEF Measured
<1>2. \A k \in DOMAIN key : ~(a.figure[key[k]] > a.figure[key[k]])
  BY <1>1
<1> QED
  BY <1>2 DEF Better

\* Rows that tie compare alike with a third.
LEMMA TiesAlike ==
  ASSUME NEW key \in Keys, NEW a, NEW b, NEW c, Ties(key, a, b)
  PROVE  /\ Better(key, a, c) <=> Better(key, b, c)
         /\ Better(key, c, a) <=> Better(key, c, b)
<1>1. ASSUME NEW k \in DOMAIN key, NEW i \in 1..(k - 1) PROVE i \in DOMAIN key
  BY KeyShape
<1>2. \A k \in DOMAIN key : \A i \in 1..(k - 1) : a.figure[key[i]] = b.figure[key[i]]
  BY <1>1 DEF Ties
<1>3. \A k \in DOMAIN key : a.figure[key[k]] = b.figure[key[k]]
  BY DEF Ties
<1> QED
  BY <1>2, <1>3 DEF Better

\* It is a strict weak order.
LEMMA BetterOrder ==
  ASSUME NEW key \in Keys, NEW a, NEW b, NEW c, Measured(a), Measured(b), Measured(c)
  PROVE  /\ ~Better(key, a, a)
         /\ Better(key, a, b) => ~Better(key, b, a)
         /\ ~Better(key, b, a) /\ ~Better(key, c, b) => ~Better(key, c, a)
         /\ Better(key, a, b) /\ Better(key, b, c) => Better(key, a, c)
         /\ Better(key, a, b) /\ ~Better(key, c, b) => Better(key, a, c)
         /\ ~Better(key, b, a) /\ Better(key, b, c) => Better(key, a, c)
<1>1. ~Better(key, a, a)
  BY NotBetterThanItself
<1>2. Better(key, a, b) => ~Better(key, b, a)
  BY <1>1, BetterTransitive
<1>3. Better(key, a, b) /\ Better(key, b, c) => Better(key, a, c)
  BY BetterTransitive
<1>4. /\ Better(key, a, b) \/ Better(key, b, a) \/ Ties(key, a, b)
      /\ Better(key, b, c) \/ Better(key, c, b) \/ Ties(key, b, c)
  BY BetterTotal
<1>5. Ties(key, b, c) => (Better(key, a, b) <=> Better(key, a, c))
  BY TiesAlike
<1>6. Ties(key, a, b) => (Better(key, a, c) <=> Better(key, b, c))
                         /\ (Better(key, c, a) <=> Better(key, c, b))
  BY TiesAlike
<1>7. Better(key, a, b) /\ ~Better(key, c, b) => Better(key, a, c)
  BY <1>3, <1>4, <1>5
<1>8. ~Better(key, b, a) /\ Better(key, b, c) => Better(key, a, c)
  BY <1>3, <1>4, <1>6
<1>9. ~Better(key, b, a) /\ ~Better(key, c, b) => ~Better(key, c, a)
  <2> SUFFICES ASSUME ~Better(key, b, a), ~Better(key, c, b), Better(key, c, a) PROVE FALSE
    OBVIOUS
  <2>1. ~Ties(key, a, b)
    BY <1>6
  <2>2. Better(key, a, b)
    BY <1>4, <2>1
  <2> QED
    BY <2>2, BetterTransitive
<1> QED
  BY <1>1, <1>2, <1>3, <1>7, <1>8, <1>9

-----------------------------------------------------------------------------
\* i goes before j in the ranking.
Before(list, key, i, j) ==
  Better(key, list[i], list[j]) \/ (i < j /\ ~Better(key, list[j], list[i]))

LEMMA BeforeOrder ==
  ASSUME NEW key \in Keys, NEW list, DOMAIN list \subseteq Nat,
         \A i \in DOMAIN list : Measured(list[i]),
         NEW i \in DOMAIN list, NEW j \in DOMAIN list, NEW k \in DOMAIN list
  PROVE  /\ ~Before(list, key, i, i)
         /\ Before(list, key, i, j) /\ Before(list, key, j, k) => Before(list, key, i, k)
         /\ i # j => Before(list, key, i, j) \/ Before(list, key, j, i)
<1>1. i \in Nat /\ j \in Nat /\ k \in Nat
  OBVIOUS
<1>2. Measured(list[i]) /\ Measured(list[j]) /\ Measured(list[k])
  OBVIOUS
<1> DEFINE x == list[i]
           y == list[j]
           z == list[k]
<1> HIDE DEF x, y, z
<1>3. /\ ~Better(key, x, x)
      /\ Better(key, x, y) /\ Better(key, y, z) => Better(key, x, z)
      /\ Better(key, x, y) /\ ~Better(key, z, y) => Better(key, x, z)
      /\ ~Better(key, y, x) /\ Better(key, y, z) => Better(key, x, z)
      /\ ~Better(key, y, x) /\ ~Better(key, z, y) => ~Better(key, z, x)
  BY <1>2, BetterOrder DEF x, y, z
<1> QED
  BY <1>1, <1>3 DEF Before, x, y, z

\* place ranks the rows: it names every row once, and none of the rows goes before the first.
Ranked(place, list, key, n) ==
  /\ Ordered(list, key) = [k \in 1..n |-> list[place[k]]]
  /\ \A k \in 1..n, l \in 1..n : place[k] = place[l] => k = l
  /\ \A i \in 1..n : \E k \in 1..n : place[k] = i
  /\ n > 0 => \A i \in 1..n : ~Before(list, key, i, place[1])

\* sorted() ranks the rows.
LEMMA OrderedIs ==
  ASSUME NEW key \in Keys, NEW n \in Nat, NEW list, DOMAIN list = 1..n,
         \A i \in DOMAIN list : Measured(list[i])
  PROVE  \E place \in [1..n -> 1..n] : Ranked(place, list, key, n)
<1> DEFINE R == {x \in (1..n) \X (1..n) : Before(list, key, x[1], x[2])}
           rank == RankIn(R, n)
           place == [k \in 1..n |-> CHOOSE i \in 1..n : rank[i] = k - 1]
<1>1. \A i \in 1..n, j \in 1..n : <<i, j>> \in R <=> Before(list, key, i, j)
  OBVIOUS
<1>2. 1..n \subseteq Nat
  OBVIOUS
<1> HIDE DEF R
<1>3. /\ rank \in [1..n -> 0..(n - 1)]
      /\ \A i \in 1..n, j \in 1..n : rank[i] = rank[j] => i = j
      /\ \A k \in 1..n : \E i \in 1..n : rank[i] = k - 1
  <2>1. \A i \in 1..n : <<i, i>> \notin R
    BY <1>1, <1>2, BeforeOrder
  <2>2. \A i \in 1..n, j \in 1..n, k \in 1..n : <<i, j>> \in R /\ <<j, k>> \in R => <<i, k>> \in R
    <3> SUFFICES ASSUME NEW i \in 1..n, NEW j \in 1..n, NEW k \in 1..n,
                        <<i, j>> \in R, <<j, k>> \in R
                 PROVE  <<i, k>> \in R
      OBVIOUS
    <3>1. Before(list, key, i, j) /\ Before(list, key, j, k)
      BY <1>1
    <3>2. Before(list, key, i, k)
      BY <1>2, <3>1, BeforeOrder
    <3> QED
      BY <1>1, <3>2
  <2>3. \A i \in 1..n, j \in 1..n : i # j => <<i, j>> \in R \/ <<j, i>> \in R
    BY <1>1, <1>2, BeforeOrder
  <2>4. StrictOrder(R, n)
    BY <2>1, <2>2, <2>3 DEF StrictOrder
  <2> HIDE DEF place
  <2> QED
    BY <2>4, Ranks
<1>4. \A i \in 1..n : rank[i] = Cardinality({j \in 1..n : Before(list, key, j, i)})
  <2> SUFFICES ASSUME NEW i \in 1..n
               PROVE  rank[i] = Cardinality({j \in 1..n : Before(list, key, j, i)})
    OBVIOUS
  <2>1. {j \in 1..n : <<j, i>> \in R} = {j \in 1..n : Before(list, key, j, i)}
    BY <1>1
  <2> QED
    BY <2>1 DEF RankIn
<1> HIDE DEF rank
<1>5. \A k \in 1..n : place[k] \in 1..n /\ rank[place[k]] = k - 1
  BY <1>3
<1>6. Ordered(list, key) = [k \in 1..n |-> list[place[k]]]
  <2>1. Ordered(list, key)
          = [k \in 1..n |-> list[CHOOSE i \in 1..n :
               Cardinality({j \in 1..n : Before(list, key, j, i)}) = k - 1]]
    BY DEF Ordered, Before
  <2>2. ASSUME NEW k \in 1..n
        PROVE  (CHOOSE i \in 1..n : Cardinality({j \in 1..n : Before(list, key, j, i)}) = k - 1)
                 = place[k]
    BY <1>4
  <2> HIDE DEF place
  <2> QED
    BY <2>1, <2>2
<1>7. place \in [1..n -> 1..n]
  BY <1>5
<1> HIDE DEF place
<1>8. \A k \in 1..n, l \in 1..n : place[k] = place[l] => k = l
  <2> SUFFICES ASSUME NEW k \in 1..n, NEW l \in 1..n, place[k] = place[l] PROVE k = l
    OBVIOUS
  <2>1. k - 1 = l - 1
    BY <1>5
  <2> QED
    BY <2>1
<1>9. \A i \in 1..n : \E k \in 1..n : place[k] = i
  <2> SUFFICES ASSUME NEW i \in 1..n PROVE \E k \in 1..n : place[k] = i
    OBVIOUS
  <2>1. rank[i] \in 0..(n - 1)
    BY <1>3
  <2>2. rank[i] + 1 \in 1..n /\ (rank[i] + 1) - 1 = rank[i]
    BY <2>1
  <2>3. rank[place[rank[i] + 1]] = rank[i] /\ place[rank[i] + 1] \in 1..n
    BY <1>5, <2>2
  <2>4. place[rank[i] + 1] = i
    BY <1>3, <2>3
  <2> QED
    BY <2>2, <2>4
<1>10. n > 0 => \A i \in 1..n : ~Before(list, key, i, place[1])
  <2> SUFFICES ASSUME n > 0, NEW i \in 1..n PROVE ~Before(list, key, i, place[1])
    OBVIOUS
  <2> DEFINE ahead == {j \in 1..n : Before(list, key, j, place[1])}
  <2>1. 1 \in 1..n
    OBVIOUS
  <2>2. place[1] \in 1..n /\ rank[place[1]] = 0
    BY <1>5, <2>1
  <2>3. Cardinality(ahead) = 0
    BY <1>4, <2>2
  <2>4. IsFiniteSet(1..n) /\ ahead \subseteq 1..n
    BY FS_Interval
  <2> HIDE DEF ahead
  <2>5. ahead = {}
    BY <2>3, <2>4, FS_Subset, FS_EmptySet
  <2> QED
    BY <2>5 DEF ahead
<1> QED
  BY <1>6, <1>7, <1>8, <1>9, <1>10 DEF Ranked

\* max(rows, key) is one of the rows, and no row is better.
LEMMA BestIs ==
  ASSUME NEW key \in Keys, NEW n \in Nat, n > 0, NEW list, DOMAIN list = 1..n,
         \A i \in DOMAIN list : Measured(list[i])
  PROVE  \E c \in DOMAIN list :
           /\ Best(list, key) = list[c]
           /\ \A j \in DOMAIN list : ~Better(key, list[j], list[c])
<1>0. PICK place \in [1..n -> 1..n] : Ranked(place, list, key, n)
  BY OrderedIs
<1>1. /\ Ordered(list, key) = [k \in 1..n |-> list[place[k]]]
      /\ \A i \in 1..n : ~Before(list, key, i, place[1])
  BY <1>0 DEF Ranked
<1>2. 1 \in 1..n /\ place[1] \in 1..n
  OBVIOUS
<1>3. Best(list, key) = list[place[1]]
  BY <1>1, <1>2 DEF Best
<1> QED
  BY <1>1, <1>2, <1>3 DEF Before

-----------------------------------------------------------------------------
(* The niches.                                                             *)

\* A list of rows: n rows of candidates of C.
RowsOf(list, n, C) ==
  /\ DOMAIN list = 1..n
  /\ \A i \in 1..n : Measured(list[i]) /\ list[i].cand \in C

\* A loop over a ranking looks at a row.
Visit(acc, cand, limit, loop) ==
  LET fresh == cand \notin ToSet(acc.ids)
      ids == IF fresh THEN Append(acc.ids, cand) ELSE acc.ids
      over == IF loop = "rest" THEN Len(ids) >= limit ELSE TurnOver(ids, limit)
      ends == (fresh \/ loop = "rest") /\ over
  IN  IF acc.at = "end" THEN acc
      ELSE [ids |-> ids, at |-> IF ends THEN "end" ELSE "row"]

Loop(C) == [ids : Seq(C), at : {"row", "end"}]

LEMMA VisitTyped ==
  ASSUME NEW C, NEW acc \in Loop(C), NEW cand \in C, NEW limit, NEW loop
  PROVE  Visit(acc, cand, limit, loop) \in Loop(C)
<1>1. acc.ids \in Seq(C)
  BY DEF Loop
<1>2. Append(acc.ids, cand) \in Seq(C)
  BY <1>1
<1> QED
  BY <1>1, <1>2 DEF Visit, Loop

\* What a loop has chosen after each row.
LoopRun(place, F, list, key, n, chosen, limit, loop) ==
  /\ n > 0 => Best(list, key).cand = list[place[1]].cand
  /\ \A i \in 1..n : \E k \in 1..n : place[k] = i
  /\ F[0] = [ids |-> chosen, at |-> "row"]
  /\ \A k \in 1..n : F[k] = Visit(F[k - 1], list[place[k]].cand, limit, loop)
  /\ F[n].ids = Chosen(list, key, chosen, limit, loop)

\* The loop of Chosen goes through the candidates in the order of the ranking.
LEMMA ChosenLoops ==
  ASSUME NEW key \in Keys, NEW n \in Nat, NEW C, NEW list, RowsOf(list, n, C),
         NEW chosen \in Seq(C), NEW limit, NEW loop
  PROVE  \E place \in [1..n -> 1..n], F \in [0..n -> Loop(C)] :
           LoopRun(place, F, list, key, n, chosen, limit, loop)
<1> DEFINE seq == Ordered(list, key)
           base == [ids |-> chosen, at |-> "row"]
           Eq(g) == g = [s \in SUBSET (1..n) |->
                           IF s = {} THEN base
                           ELSE Visit(g[s \ {Max(s)}], seq[Max(s)].cand, limit, loop)]
           E == {list[i] : i \in 1..n}
           D == Loop(C)
           op == [x \in D \X E |-> Visit(x[1], x[2].cand, limit, loop)]
<1>1. PICK place \in [1..n -> 1..n] :
        /\ seq = [k \in 1..n |-> list[place[k]]]
        /\ \A i \in 1..n : \E k \in 1..n : place[k] = i
  <2>1. DOMAIN list = 1..n /\ \A i \in DOMAIN list : Measured(list[i])
    BY DEF RowsOf
  <2> HIDE DEF E, D, op, Eq, base
  <2>2. PICK place \in [1..n -> 1..n] : Ranked(place, list, key, n)
    BY <2>1, OrderedIs
  <2> QED
    BY <2>2 DEF Ranked
<1>2. seq \in [1..n -> E] /\ DOMAIN seq = 1..n
  BY <1>1
<1>3. base \in D
  BY DEF Loop
<1>4. op \in [D \X E -> D]
  <2>1. ASSUME NEW d \in D, NEW e \in E
        PROVE  Visit(d, e.cand, limit, loop) \in D
    BY VisitTyped DEF RowsOf
  <2> HIDE DEF D, E
  <2> QED
    BY <2>1
<1>5. Chosen(list, key, chosen, limit, loop) = ((CHOOSE g : Eq(g))[1..n]).ids
  <2> HIDE DEF seq
  <2>1. Chosen(list, key, chosen, limit, loop)
          = ((CHOOSE g : g = [s \in SUBSET DOMAIN seq |->
                IF s = {} THEN base
                ELSE Visit(g[s \ {Max(s)}], seq[Max(s)].cand, limit, loop)])[DOMAIN seq]).ids
    BY DEF Chosen, FoldLeft, MapThenFoldSet, Visit, seq
  <2> QED
    BY <1>2, <2>1
<1> HIDE DEF seq
<1>6. \E g : Eq(g)
  <2>1. PICK g \in [SUBSET (1..n) -> D] : LeftTable(g, op, base, seq, n)
    <3> HIDE DEF base, op, D, E
    <3> QED
      BY <1>2, <1>3, <1>4, LeftTableExists
  <2>2. ASSUME NEW s \in SUBSET (1..n), s # {} PROVE Max(s) \in 1..n
    BY <2>2, MaxIsMember
  <2>3. ASSUME NEW s \in SUBSET (1..n), s # {}
        PROVE  op[<<g[s \ {Max(s)}], seq[Max(s)]>>]
                 = Visit(g[s \ {Max(s)}], seq[Max(s)].cand, limit, loop)
    <3>1. g[s \ {Max(s)}] \in D /\ seq[Max(s)] \in E
      BY <1>2, <2>2, <2>3
    <3> HIDE DEF D, E
    <3> QED
      BY <3>1
  <2>4. g = [s \in SUBSET (1..n) |-> g[s]]
    OBVIOUS
  <2>5. Eq(g)
    <3> HIDE DEF D, E, op, base
    <3>1. \A s \in SUBSET (1..n) : g[s] = IF s = {} THEN base
            ELSE Visit(g[s \ {Max(s)}], seq[Max(s)].cand, limit, loop)
      BY <2>1, <2>3 DEF LeftTable
    <3> QED
      BY <2>4, <3>1
  <2> QED
    BY <2>5
<1> DEFINE g == CHOOSE g : Eq(g)
<1>7. Eq(g)
  BY <1>6
<1> HIDE DEF g
<1>8. PICK F \in [0..n -> D] : F[n] = g[1..n] /\ LeftRun(F, op, base, seq, n)
  <2>1. g[{}] = base
    BY <1>7
  <2>2. \A s \in SUBSET (1..n) :
          s # {} /\ g[s \ {Max(s)}] \in D => g[s] = op[<<g[s \ {Max(s)}], seq[Max(s)]>>]
    <3> SUFFICES ASSUME NEW s \in SUBSET (1..n), s # {}, g[s \ {Max(s)}] \in D
                 PROVE  g[s] = op[<<g[s \ {Max(s)}], seq[Max(s)]>>]
      OBVIOUS
    <3>1. Max(s) \in 1..n
      BY MaxIsMember
    <3>2. seq[Max(s)] \in E
      BY <1>2, <3>1
    <3>3. g[s] = Visit(g[s \ {Max(s)}], seq[Max(s)].cand, limit, loop)
      BY <1>7
    <3> HIDE DEF D, E, base
    <3> QED
      BY <3>2, <3>3
  <2>3. LeftTableIn(D, g, op, base, seq, n)
    <3> HIDE DEF D, E, op, base
    <3> QED
      BY <2>1, <2>2 DEF LeftTableIn
  <2> HIDE DEF D, E, op, base, Eq
  <2> QED
    BY <1>2, <1>3, <1>4, <2>3, LeftFold
<1>9. \A k \in 1..n : F[k] = Visit(F[k - 1], list[place[k]].cand, limit, loop)
  <2> SUFFICES ASSUME NEW k \in 1..n
               PROVE  F[k] = Visit(F[k - 1], list[place[k]].cand, limit, loop)
    OBVIOUS
  <2>1. k - 1 \in 0..n
    OBVIOUS
  <2>2. F[k - 1] \in D /\ seq[k] \in E /\ seq[k] = list[place[k]]
    BY <1>1, <1>2, <2>1
  <2> HIDE DEF D, E
  <2> QED
    BY <1>8, <2>2 DEF LeftRun
<1>10. n > 0 => Best(list, key).cand = list[place[1]].cand
  <2> SUFFICES ASSUME n > 0 PROVE Best(list, key).cand = list[place[1]].cand
    OBVIOUS
  <2>1. 1 \in 1..n
    OBVIOUS
  <2> QED
    BY <1>1, <2>1 DEF Best, seq
<1>12. F[0] = base
  BY <1>8 DEF LeftRun
<1>11. F[n].ids = Chosen(list, key, chosen, limit, loop)
  BY <1>5, <1>8 DEF g
<1> QED
  BY <1>1, <1>9, <1>10, <1>11, <1>12, <1>8 DEF LoopRun

\* A candidate appended to a list that lacks it.
LEMMA AppendFresh ==
  ASSUME NEW C, NEW ids \in Seq(C), IsInjective(ids), NEW c \in C, c \notin ToSet(ids)
  PROVE  /\ Append(ids, c) \in Seq(C) /\ IsInjective(Append(ids, c))
         /\ ToSet(Append(ids, c)) = ToSet(ids) \cup {c}
         /\ Len(Append(ids, c)) = Len(ids) + 1
<1> DEFINE n == Len(ids)
           new == Append(ids, c)
<1>1. n \in Nat /\ DOMAIN ids = 1..n
  OBVIOUS
<1>2. /\ new \in Seq(C) /\ Len(new) = n + 1 /\ DOMAIN new = 1..(n + 1)
      /\ new[n + 1] = c /\ \A i \in 1..n : new[i] = ids[i]
  OBVIOUS
<1>3. \A i \in 1..n : ids[i] # c
  BY <1>1 DEF ToSet
<1> HIDE DEF n, new
<1>4. \A i \in 1..(n + 1) : i \in 1..n \/ i = n + 1
  BY <1>1
<1>5. 1..n \subseteq 1..(n + 1) /\ n + 1 \in 1..(n + 1)
  BY <1>1
<1>6. ToSet(new) = ToSet(ids) \cup {c}
  BY <1>1, <1>2, <1>4, <1>5 DEF ToSet
<1>7. IsInjective(new)
  <2>1. ASSUME NEW a \in 1..(n + 1), NEW b \in 1..(n + 1), new[a] = new[b] PROVE a = b
    <3>1. CASE a \in 1..n /\ b \in 1..n
      BY <1>1, <1>2, <2>1, <3>1 DEF IsInjective
    <3>2. CASE a = n + 1 \/ b = n + 1
      BY <1>2, <1>3, <1>4, <2>1, <3>2
    <3> QED
      BY <1>4, <3>1, <3>2
  <2> QED
    BY <1>2, <2>1 DEF IsInjective
<1> QED
  BY <1>2, <1>6, <1>7 DEF n, new

\* A list without repetition has as many members as entries.
LEMMA CountOfInjective ==
  ASSUME NEW C, NEW ids \in Seq(C), IsInjective(ids)
  PROVE  IsFiniteSet(ToSet(ids)) /\ Cardinality(ToSet(ids)) = Len(ids)
<1>1. Len(ids) \in Nat /\ DOMAIN ids = 1..Len(ids)
  OBVIOUS
<1>2. IsFiniteSet(1..Len(ids)) /\ Cardinality(1..Len(ids)) = Len(ids)
  <2>1. ASSUME NEW n \in Nat
        PROVE  IsFiniteSet(1..n) /\ Cardinality(1..n) = n
    <3>1. /\ IsFiniteSet(1..n)
          /\ Cardinality(1..n) = IF 1 > n THEN 0 ELSE n - 1 + 1
      BY FS_Interval
    <3>2. (IF 1 > n THEN 0 ELSE n - 1 + 1) = n
      OBVIOUS
    <3> QED
      BY <3>1, <3>2
  <2> QED
    BY <1>1, <2>1
<1>3. ids \in Bijection(1..Len(ids), ToSet(ids))
  <2>1. ids \in [1..Len(ids) -> ToSet(ids)]
    BY <1>1 DEF ToSet
  <2>2. ids \in Injection(1..Len(ids), ToSet(ids))
    BY <1>1, <2>1 DEF Injection, IsInjective
  <2>3. ids \in Surjection(1..Len(ids), ToSet(ids))
    BY <1>1, <2>1 DEF Surjection, ToSet
  <2> QED
    BY <2>2, <2>3 DEF Bijection
<1>4. ExistsBijection(1..Len(ids), ToSet(ids))
  BY <1>3 DEF ExistsBijection
<1> QED
  BY <1>2, <1>4, FS_Bijection

\* The candidates of a niche's turn so far: at most limit, and none beyond the next
\* multiple of the quota.
Turn(acc, chosen, top, limit) ==
  /\ IsInjective(acc.ids) /\ ToSet(chosen) \subseteq ToSet(acc.ids)
  /\ Len(acc.ids) <= limit /\ Len(acc.ids) <= top
  /\ acc.at = "row" => Len(acc.ids) < limit /\ Len(acc.ids) < top

LEMMA TurnVisit ==
  ASSUME NEW C, NEW acc \in Loop(C), NEW cand \in C, NEW chosen, NEW limit \in Nat,
         NEW top \in Nat, top % Quota(limit) = 0, Turn(acc, chosen, top, limit)
  PROVE  /\ Turn(Visit(acc, cand, limit, "niche"), chosen, top, limit)
         /\ ToSet(acc.ids) \subseteq ToSet(Visit(acc, cand, limit, "niche").ids)
         /\ acc.at = "row" => cand \in ToSet(Visit(acc, cand, limit, "niche").ids)
<1> DEFINE new == Visit(acc, cand, limit, "niche")
           ids == Append(acc.ids, cand)
<1>1. acc.ids \in Seq(C) /\ Len(acc.ids) \in Nat
  BY DEF Loop
<1>2. CASE acc.at = "end"
  BY <1>2 DEF Visit
<1>3. CASE acc.at = "row" /\ cand \in ToSet(acc.ids)
  <2>1. new = [ids |-> acc.ids, at |-> "row"]
    BY <1>3 DEF Visit
  <2>2. new.ids = acc.ids
    BY <2>1
  <2> HIDE DEF new
  <2>3. Turn(new, chosen, top, limit)
    BY <1>3, <2>2 DEF Turn
  <2> QED
    BY <1>3, <2>2, <2>3 DEF new
<1>4. CASE acc.at = "row" /\ cand \notin ToSet(acc.ids)
  <2>1. new = [ids |-> ids, at |-> IF TurnOver(ids, limit) THEN "end" ELSE "row"]
    BY <1>4 DEF Visit
  <2>2. /\ IsInjective(ids) /\ Len(ids) = Len(acc.ids) + 1
        /\ ToSet(ids) = ToSet(acc.ids) \cup {cand}
    BY <1>1, <1>4, AppendFresh DEF Turn
  <2>3. Len(ids) <= limit /\ Len(ids) <= top
    BY <1>1, <1>4, <2>2 DEF Turn
  <2>4. ~TurnOver(ids, limit) => Len(ids) < limit /\ Len(ids) < top
    <3>1. ~TurnOver(ids, limit) => ~(Len(ids) >= limit) /\ Len(ids) # top
      BY DEF TurnOver
    <3> QED
      BY <1>1, <2>2, <2>3, <3>1
  <2> HIDE DEF ids
  <2>5. new.ids = ids /\ (new.at = "row" => ~TurnOver(ids, limit))
    BY <2>1
  <2>6. ToSet(chosen) \subseteq ToSet(ids)
    BY <2>2 DEF Turn
  <2> HIDE DEF new
  <2>7. Turn(new, chosen, top, limit)
    BY <2>2, <2>3, <2>4, <2>5, <2>6 DEF Turn
  <2> QED
    BY <2>2, <2>5, <2>7 DEF new
<1>5. acc.at = "row" \/ acc.at = "end"
  BY DEF Loop
<1> QED
  BY <1>2, <1>3, <1>4, <1>5

\* A niche's turn adds its leader, up to the limit and a multiple of the quota.
LEMMA NicheTurn ==
  ASSUME NEW key \in Keys, NEW n \in Nat, n > 0, NEW C, NEW list, RowsOf(list, n, C),
         NEW chosen \in Seq(C), IsInjective(chosen), NEW limit \in Nat, Len(chosen) < limit,
         NEW top \in Nat, top % Quota(limit) = 0, Len(chosen) < top
  PROVE  LET new == Chosen(list, key, chosen, limit, "niche")
         IN  /\ new \in Seq(C) /\ IsInjective(new) /\ ToSet(chosen) \subseteq ToSet(new)
             /\ Len(new) <= limit /\ Len(new) <= top
             /\ Best(list, key).cand \in ToSet(new)
<1>1. PICK place \in [1..n -> 1..n], F \in [0..n -> Loop(C)] :
        LoopRun(place, F, list, key, n, chosen, limit, "niche")
  BY ChosenLoops
<1> DEFINE lead == Best(list, key).cand
           Good(k) == /\ Turn(F[k], chosen, top, limit)
                      /\ k > 0 => lead \in ToSet(F[k].ids)
           W == {k \in 0..n : ~Good(k)}
<1>2. Good(0)
  <2>1. F[0] = [ids |-> chosen, at |-> "row"]
    BY <1>1 DEF LoopRun
  <2>2. F[0].ids = chosen
    BY <2>1
  <2>3. Len(chosen) \in Nat
    OBVIOUS
  <2>4. Turn(F[0], chosen, top, limit)
    BY <2>2, <2>3 DEF Turn
  <2> QED
    BY <2>4
<1>3. ASSUME NEW k \in 1..n, Good(k - 1) PROVE Good(k)
  <2> DEFINE cand == list[place[k]].cand
  <2>1. k - 1 \in 0..n /\ F[k - 1] \in Loop(C) /\ cand \in C
    <3>1. k - 1 \in 0..n /\ place[k] \in 1..n
      OBVIOUS
    <3>2. \A i \in 1..n : list[i].cand \in C
      BY DEF RowsOf
    <3> QED
      BY <3>1, <3>2
  <2>2. F[k] = Visit(F[k - 1], cand, limit, "niche")
    BY <1>1 DEF LoopRun
  <2>3. Turn(F[k - 1], chosen, top, limit)
    BY <1>3
  <2> HIDE DEF cand
  <2>4. /\ Turn(F[k], chosen, top, limit)
        /\ ToSet(F[k - 1].ids) \subseteq ToSet(F[k].ids)
        /\ F[k - 1].at = "row" => cand \in ToSet(F[k].ids)
    <3> DEFINE acc == F[k - 1]
    <3>1. acc \in Loop(C) /\ Turn(acc, chosen, top, limit)
      BY <2>1, <2>3
    <3> HIDE DEF acc
    <3>2. /\ Turn(Visit(acc, cand, limit, "niche"), chosen, top, limit)
          /\ ToSet(acc.ids) \subseteq ToSet(Visit(acc, cand, limit, "niche").ids)
          /\ acc.at = "row" => cand \in ToSet(Visit(acc, cand, limit, "niche").ids)
      BY <2>1, <3>1, TurnVisit
    <3> QED
      BY <2>2, <3>2 DEF acc
  <2>5. CASE k = 1
    <3>1. k - 1 = 0
      BY <2>5
    <3>2. F[k - 1].at = "row"
      BY <1>1, <3>1 DEF LoopRun
    <3>3. lead = cand
      BY <1>1, <2>5 DEF cand, LoopRun
    <3> QED
      BY <2>4, <3>2, <3>3
  <2>6. CASE k # 1
    <3>1. k - 1 > 0
      BY <2>6
    <3> QED
      BY <1>3, <2>4, <3>1
  <2> QED
    BY <2>5, <2>6
<1> HIDE DEF Good
<1>4. W = {}
  <2> SUFFICES ASSUME W # {} PROVE FALSE
    OBVIOUS
  <2>1. W \in SUBSET Nat
    OBVIOUS
  <2> HIDE DEF W
  <2>2. PICK k \in W : \A j \in W : k <= j
    BY <2>1, LeastNatural
  <2>3. k \in 0..n /\ ~Good(k)
    BY <2>2 DEF W
  <2>4. k # 0
    BY <1>2, <2>3
  <2>5. k \in 1..n /\ k - 1 \in 0..n /\ ~(k <= k - 1)
    BY <2>3, <2>4
  <2>6. Good(k - 1)
    BY <2>2, <2>5 DEF W
  <2> QED
    BY <1>3, <2>3, <2>5, <2>6
<1>5. Good(n) /\ F[n].ids \in Seq(C)
  <2>1. n \in 0..n
    OBVIOUS
  <2>2. F[n] \in Loop(C)
    BY <2>1
  <2> QED
    BY <1>4, <2>1, <2>2 DEF Loop
<1> QED
  BY <1>1, <1>5 DEF Good, Turn, LoopRun

\* The loop over the rest tests the limit after every row, so that it may pass it by one.
Filling(acc, chosen, limit) ==
  /\ IsInjective(acc.ids) /\ ToSet(chosen) \subseteq ToSet(acc.ids)
  /\ Len(acc.ids) <= limit + 1
  /\ acc.at = "end" => Len(acc.ids) >= limit

LEMMA RestVisit ==
  ASSUME NEW C, NEW acc \in Loop(C), NEW cand \in C, NEW chosen, NEW limit \in Nat,
         Filling(acc, chosen, limit), acc.at = "row" => Len(acc.ids) <= limit
  PROVE  LET new == Visit(acc, cand, limit, "rest")
         IN  /\ Filling(new, chosen, limit)
             /\ ToSet(acc.ids) \subseteq ToSet(new.ids)
             /\ new.at = "row" => /\ acc.at = "row" /\ Len(new.ids) < limit
                                  /\ cand \in ToSet(new.ids)
<1> DEFINE new == Visit(acc, cand, limit, "rest")
           ids == IF cand \notin ToSet(acc.ids) THEN Append(acc.ids, cand) ELSE acc.ids
<1>1. acc.ids \in Seq(C) /\ Len(acc.ids) \in Nat
  BY DEF Loop
<1>2. CASE acc.at = "end"
  <2>1. new = acc
    BY <1>2 DEF Visit
  <2> QED
    BY <1>2, <2>1
<1>3. CASE acc.at = "row"
  <2>1. new = [ids |-> ids, at |-> IF Len(ids) >= limit THEN "end" ELSE "row"]
    BY <1>3 DEF Visit
  <2>2. /\ IsInjective(ids) /\ Len(ids) \in Nat
        /\ Len(ids) = Len(acc.ids) \/ Len(ids) = Len(acc.ids) + 1
        /\ ToSet(ids) = ToSet(acc.ids) \cup {cand}
    <3>1. CASE cand \notin ToSet(acc.ids)
      BY <1>1, <3>1, AppendFresh DEF Filling
    <3>2. CASE cand \in ToSet(acc.ids)
      BY <1>1, <3>2 DEF Filling
    <3> QED
      BY <3>1, <3>2
  <2> HIDE DEF ids
  <2>3. /\ new.ids = ids
        /\ new.at = "end" => Len(ids) >= limit
        /\ new.at = "row" => ~(Len(ids) >= limit)
    BY <2>1
  <2> HIDE DEF new
  <2>4. Len(ids) <= limit + 1
    BY <1>1, <1>3, <2>2
  <2>5. Filling(new, chosen, limit)
    BY <2>2, <2>3, <2>4 DEF Filling
  <2>6. new.at = "row" => Len(new.ids) < limit
    BY <2>2, <2>3
  <2> QED
    BY <1>3, <2>2, <2>3, <2>5, <2>6 DEF new
<1>4. acc.at = "row" \/ acc.at = "end"
  BY DEF Loop
<1> QED
  BY <1>2, <1>3, <1>4

\* The rows are of n candidates; after the loop the list is full or holds all of them.
LEMMA RestFills ==
  ASSUME NEW key \in Keys, NEW n \in Nat, n > 0, NEW C, NEW list, RowsOf(list, n, C),
         IsFiniteSet(C), Cardinality(C) = n, C = {list[i].cand : i \in 1..n},
         NEW chosen \in Seq(C), IsInjective(chosen), NEW limit \in Nat, Len(chosen) <= limit
  PROVE  LET new == Chosen(list, key, chosen, limit, "rest")
         IN  /\ new \in Seq(C) /\ IsInjective(new) /\ ToSet(chosen) \subseteq ToSet(new)
             /\ Len(new) <= n
             /\ Len(new) \in {limit, limit + 1} \/ (Len(new) = n /\ n <= limit)
<1>1. PICK place \in [1..n -> 1..n], F \in [0..n -> Loop(C)] :
        LoopRun(place, F, list, key, n, chosen, limit, "rest")
  BY ChosenLoops
<1> DEFINE seen(k) == {list[place[i]].cand : i \in 1..k}
           Good(k) == /\ Filling(F[k], chosen, limit)
                      /\ F[k].at = "row" => /\ seen(k) \subseteq ToSet(F[k].ids)
                                            /\ Len(F[k].ids) <= limit
                                            /\ k > 0 => Len(F[k].ids) < limit
           W == {k \in 0..n : ~Good(k)}
<1>2. Good(0)
  <2>1. F[0] = [ids |-> chosen, at |-> "row"]
    BY <1>1 DEF LoopRun
  <2>2. F[0].ids = chosen /\ F[0].at = "row"
    BY <2>1
  <2>3. Len(chosen) \in Nat /\ seen(0) = {}
    OBVIOUS
  <2>4. Filling(F[0], chosen, limit)
    BY <2>2, <2>3 DEF Filling
  <2> HIDE DEF seen
  <2> QED
    BY <2>2, <2>3, <2>4
<1>3. ASSUME NEW k \in 1..n, Good(k - 1) PROVE Good(k)
  <2> DEFINE cand == list[place[k]].cand
             acc == F[k - 1]
  <2>0. k - 1 \in 0..n /\ place[k] \in 1..n
    OBVIOUS
  <2>1. acc \in Loop(C) /\ cand \in C
    BY <2>0 DEF RowsOf
  <2>2. F[k] = Visit(acc, cand, limit, "rest")
    BY <1>1 DEF LoopRun
  <2>3. seen(k) = seen(k - 1) \cup {cand}
    <3>1. \A i \in 1..k : i \in 1..(k - 1) \/ i = k
      OBVIOUS
    <3>2. 1..(k - 1) \subseteq 1..k /\ k \in 1..k
      OBVIOUS
    <3> QED
      BY <3>1, <3>2
  <2>4. /\ Filling(acc, chosen, limit)
        /\ acc.at = "row" => seen(k - 1) \subseteq ToSet(acc.ids) /\ Len(acc.ids) <= limit
    BY <1>3
  <2> HIDE DEF cand, acc, seen
  <2>5. /\ Filling(F[k], chosen, limit)
        /\ ToSet(acc.ids) \subseteq ToSet(F[k].ids)
        /\ F[k].at = "row" => acc.at = "row" /\ Len(F[k].ids) < limit /\ cand \in ToSet(F[k].ids)
    <3>1. /\ Filling(Visit(acc, cand, limit, "rest"), chosen, limit)
          /\ ToSet(acc.ids) \subseteq ToSet(Visit(acc, cand, limit, "rest").ids)
          /\ Visit(acc, cand, limit, "rest").at = "row" =>
               /\ acc.at = "row" /\ Len(Visit(acc, cand, limit, "rest").ids) < limit
               /\ cand \in ToSet(Visit(acc, cand, limit, "rest").ids)
      BY <2>1, <2>4, RestVisit
    <3> QED
      BY <2>2, <3>1
  <2>6. Len(F[k].ids) \in Nat
    <3>1. F[k] \in Loop(C)
      OBVIOUS
    <3> QED
      BY <3>1 DEF Loop
  <2>7. ASSUME F[k].at = "row"
        PROVE  seen(k) \subseteq ToSet(F[k].ids) /\ Len(F[k].ids) <= limit
    <3>1. /\ acc.at = "row" /\ Len(F[k].ids) < limit /\ cand \in ToSet(F[k].ids)
          /\ ToSet(acc.ids) \subseteq ToSet(F[k].ids)
      BY <2>5, <2>7
    <3>2. seen(k - 1) \subseteq ToSet(acc.ids)
      BY <2>4, <3>1
    <3>3. seen(k) \subseteq ToSet(F[k].ids)
      BY <2>3, <3>1, <3>2
    <3>4. Len(F[k].ids) <= limit
      <4> DEFINE held == Len(F[k].ids)
      <4>1. held \in Nat /\ held < limit
        BY <2>6, <3>1
      <4> HIDE DEF held
      <4>2. held <= limit
        BY <4>1
      <4> QED
        BY <4>2 DEF held
    <3> QED
      BY <3>3, <3>4
  <2> QED
    BY <2>5, <2>7
<1> HIDE DEF Good
<1>4. W = {}
  <2> SUFFICES ASSUME W # {} PROVE FALSE
    OBVIOUS
  <2>1. W \in SUBSET Nat
    OBVIOUS
  <2> HIDE DEF W
  <2>2. PICK k \in W : \A j \in W : k <= j
    BY <2>1, LeastNatural
  <2>3. k \in 0..n /\ ~Good(k)
    BY <2>2 DEF W
  <2>4. k # 0
    BY <1>2, <2>3
  <2>5. k \in 1..n /\ k - 1 \in 0..n /\ ~(k <= k - 1)
    BY <2>3, <2>4
  <2>6. Good(k - 1)
    BY <2>2, <2>5 DEF W
  <2> QED
    BY <1>3, <2>3, <2>5, <2>6
<1> DEFINE new == F[n].ids
<1>5. Good(n) /\ new \in Seq(C) /\ F[n].at \in {"row", "end"}
  <2>1. n \in 0..n
    OBVIOUS
  <2>2. F[n] \in Loop(C)
    BY <2>1
  <2> QED
    BY <1>4, <2>1, <2>2 DEF Loop
<1>6. IsInjective(new) /\ Len(new) \in Nat
  BY <1>5 DEF Good, Filling
<1>7. ToSet(new) \subseteq C
  BY <1>5 DEF ToSet
<1>8. IsFiniteSet(ToSet(new)) /\ Cardinality(ToSet(new)) = Len(new)
  <2> HIDE DEF new
  <2> QED
    BY <1>5, <1>6, CountOfInjective
<1>9. Len(new) <= n
  BY <1>7, <1>8, FS_Subset
<1>10. CASE F[n].at = "end"
  <2>1. Len(new) >= limit /\ Len(new) <= limit + 1
    BY <1>5, <1>10 DEF Good, Filling
  <2>2. Len(new) \in {limit, limit + 1}
    <3> HIDE DEF new
    <3> QED
      BY <1>6, <2>1
  <2> QED
    BY <1>1, <1>5, <1>6, <1>9, <2>2 DEF Good, Filling, LoopRun
<1>11. CASE F[n].at = "row"
  <2>1. seen(n) \subseteq ToSet(new) /\ Len(new) <= limit
    BY <1>5, <1>11 DEF Good
  <2>2. C \subseteq seen(n)
    <3> SUFFICES ASSUME NEW i \in 1..n PROVE list[i].cand \in seen(n)
      OBVIOUS
    <3>1. PICK k \in 1..n : place[k] = i
      BY <1>1 DEF LoopRun
    <3> QED
      BY <3>1
  <2>3. ToSet(new) = C
    BY <1>7, <2>1, <2>2
  <2>4. Len(new) = n /\ n <= limit
    BY <1>8, <2>1, <2>3
  <2> QED
    BY <1>1, <1>5, <1>6, <1>9, <2>4 DEF Good, Filling, LoopRun
<1> QED
  BY <1>5, <1>10, <1>11

LEMMA QuotaFacts ==
  ASSUME NEW limit \in Nat, limit > 0
  PROVE  /\ Quota(limit) \in Nat /\ Quota(limit) > 0
         /\ \A i \in Nat : i * Quota(limit) \in Nat /\ (i * Quota(limit)) % Quota(limit) = 0
<1>1. Len(Selectors) = 6
  BY DEF Selectors
<1>2. Quota(limit) = (limit + 5) \div 6
  BY <1>1 DEF Quota
<1>3. Quota(limit) \in Nat /\ Quota(limit) > 0
  BY <1>2
<1> DEFINE q == Quota(limit)
<1> HIDE DEF q
<1>4. q \in Nat /\ q > 0
  BY <1>3 DEF q
<1>5. ASSUME NEW i \in Nat PROVE i * q \in Nat /\ (i * q) % q = 0
  <2> DEFINE x == i * q
             d == x \div q
             r == x % q
  <2>1. x \in Nat
    BY <1>4
  <2> HIDE DEF x
  <2>2. d \in Int /\ r \in Int /\ x = q * d + r /\ 0 <= r /\ r < q
    BY <1>4, <2>1
  <2> HIDE DEF d, r
  <2>3. i * q = q * d + r
    BY <2>2 DEF x
  <2>4. r = q * (i - d)
    BY <1>4, <2>2, <2>3
  <2>5. CASE i - d >= 1
    <3>1. q * (i - d) >= q
      BY <1>4, <2>2, <2>5
    <3> QED
      BY <1>4, <2>2, <2>4, <3>1
  <2>6. CASE i - d <= -1
    <3>1. q * (i - d) <= -q
      BY <1>4, <2>2, <2>6
    <3> QED
      BY <1>4, <2>2, <2>4, <3>1
  <2>7. CASE i - d = 0
    <3>1. r = 0
      BY <1>4, <2>2, <2>4, <2>7
    <3> QED
      BY <2>1, <3>1 DEF x, r
  <2> QED
    BY <2>2, <2>5, <2>6, <2>7
<1> QED
  BY <1>4, <1>5 DEF q

LEMMA SelectorsAreKeys ==
  DOMAIN Selectors = 1..6 /\ Len(Selectors) = 6 /\ \A i \in 1..6 : Selectors[i] \in Keys
<1>1. DOMAIN Selectors = 1..6 /\ Len(Selectors) = 6
  BY DEF Selectors
<1> QED
  BY <1>1 DEF Keys, ToSet

\* What a niche makes of the list.
NicheOf(list, chosen, key, limit) ==
  IF Len(chosen) >= limit THEN chosen ELSE Chosen(list, key, chosen, limit, "niche")

LEMMA NicheTyped ==
  ASSUME NEW key \in Keys, NEW n \in Nat, NEW C, NEW list, RowsOf(list, n, C),
         NEW chosen \in Seq(C), NEW limit
  PROVE  NicheOf(list, chosen, key, limit) \in Seq(C)
<1>1. PICK place \in [1..n -> 1..n], F \in [0..n -> Loop(C)] :
        LoopRun(place, F, list, key, n, chosen, limit, "niche")
  BY ChosenLoops
<1>2. n \in 0..n
  OBVIOUS
<1>3. F[n] \in Loop(C) /\ F[n].ids = Chosen(list, key, chosen, limit, "niche")
  BY <1>1, <1>2 DEF LoopRun
<1>4. F[n].ids \in Seq(C)
  BY <1>3 DEF Loop
<1> QED
  BY <1>3, <1>4 DEF NicheOf

\* The list after every niche, and what the loop over the rest makes of the last.
Turns(T, list, limit) ==
  /\ T[0] = <<>>
  /\ \A i \in 1..6 : T[i] = NicheOf(list, T[i - 1], Selectors[i], limit)
  /\ DiverseElites(list, limit) = Chosen(list, BestKey, T[6], limit, "rest")

\* The niches take their turns in their order.
LEMMA NichesTakeTurns ==
  ASSUME NEW n \in Nat, NEW C, NEW list, RowsOf(list, n, C), NEW limit
  PROVE  \E T \in [0..6 -> Seq(C)] : Turns(T, list, limit)
<1> DEFINE D == Seq(C)
           Eq(g) == g = [s \in SUBSET (1..6) |->
                           IF s = {} THEN <<>>
                           ELSE NicheOf(list, g[s \ {Max(s)}], Selectors[Max(s)], limit)]
           op == [x \in D \X Keys |-> NicheOf(list, x[1], x[2], limit)]
<1>1. Selectors \in [1..6 -> Keys]
  <2>1. Selectors = [i \in 1..6 |-> Selectors[i]]
    BY DEF Selectors
  <2> QED
    BY <2>1, SelectorsAreKeys
<1>2. <<>> \in D
  OBVIOUS
<1>3. op \in [D \X Keys -> D]
  BY NicheTyped
<1>4. DiverseElites(list, limit)
        = Chosen(list, BestKey, (CHOOSE g : Eq(g))[1..6], limit, "rest")
  <2>1. DiverseElites(list, limit)
          = Chosen(list, BestKey,
              (CHOOSE g : g = [s \in SUBSET DOMAIN Selectors |->
                 IF s = {} THEN <<>>
                 ELSE NicheOf(list, g[s \ {Max(s)}], Selectors[Max(s)], limit)])[DOMAIN Selectors],
              limit, "rest")
    BY DEF DiverseElites, FoldLeft, MapThenFoldSet, NicheOf
  <2> QED
    BY <2>1, SelectorsAreKeys
<1>5. \E g : Eq(g)
  <2>1. PICK g \in [SUBSET (1..6) -> D] : LeftTable(g, op, <<>>, Selectors, 6)
    <3> HIDE DEF D, op
    <3> QED
      BY <1>1, <1>2, <1>3, LeftTableExists
  <2>2. ASSUME NEW s \in SUBSET (1..6), s # {}
        PROVE  op[<<g[s \ {Max(s)}], Selectors[Max(s)]>>]
                 = NicheOf(list, g[s \ {Max(s)}], Selectors[Max(s)], limit)
    <3>1. Max(s) \in 1..6
      BY <2>2, MaxIsMember
    <3>2. g[s \ {Max(s)}] \in D /\ Selectors[Max(s)] \in Keys
      BY <1>1, <3>1
    <3> HIDE DEF D
    <3> QED
      BY <3>2
  <2>3. g = [s \in SUBSET (1..6) |-> g[s]]
    OBVIOUS
  <2>4. Eq(g)
    <3> HIDE DEF D, op
    <3>1. \A s \in SUBSET (1..6) : g[s] = IF s = {} THEN <<>>
            ELSE NicheOf(list, g[s \ {Max(s)}], Selectors[Max(s)], limit)
      BY <2>1, <2>2 DEF LeftTable
    <3> QED
      BY <2>3, <3>1
  <2> QED
    BY <2>4
<1> DEFINE g == CHOOSE g : Eq(g)
<1>6. Eq(g)
  BY <1>5
<1> HIDE DEF g
<1>7. PICK T \in [0..6 -> D] : T[6] = g[1..6] /\ LeftRun(T, op, <<>>, Selectors, 6)
  <2>1. g[{}] = <<>>
    BY <1>6
  <2>2. ASSUME NEW s \in SUBSET (1..6), s # {}, g[s \ {Max(s)}] \in D
        PROVE  g[s] = op[<<g[s \ {Max(s)}], Selectors[Max(s)]>>]
    <3>1. Max(s) \in 1..6
      BY <2>2, MaxIsMember
    <3>2. Selectors[Max(s)] \in Keys
      BY <1>1, <3>1
    <3>3. g[s] = NicheOf(list, g[s \ {Max(s)}], Selectors[Max(s)], limit)
      BY <1>6, <2>2
    <3> HIDE DEF D
    <3> QED
      BY <2>2, <3>2, <3>3
  <2>3. LeftTableIn(D, g, op, <<>>, Selectors, 6)
    <3> HIDE DEF D, op
    <3> QED
      BY <2>1, <2>2 DEF LeftTableIn
  <2> DEFINE six == 6
  <2>4. /\ six \in Nat /\ Selectors \in [1..six -> Keys]
        /\ LeftTableIn(D, g, op, <<>>, Selectors, six)
    BY <1>1, <2>3
  <2> HIDE DEF D, op, Eq, six
  <2>5. \E T \in [0..six -> D] : T[six] = g[1..six] /\ LeftRun(T, op, <<>>, Selectors, six)
    BY <1>2, <1>3, <2>4, LeftFold
  <2> QED
    BY <2>5 DEF six
<1>8. ASSUME NEW i \in 1..6 PROVE T[i] = NicheOf(list, T[i - 1], Selectors[i], limit)
  <2>1. i - 1 \in 0..6
    OBVIOUS
  <2>2. T[i - 1] \in D /\ Selectors[i] \in Keys
    BY <1>1, <2>1
  <2> HIDE DEF D
  <2> QED
    BY <1>7, <2>2 DEF LeftRun
<1>9. T[0] = <<>>
  BY <1>7 DEF LeftRun
<1>10. DiverseElites(list, limit) = Chosen(list, BestKey, T[6], limit, "rest")
  BY <1>4, <1>7 DEF g
<1> QED
  BY <1>8, <1>9, <1>10 DEF Turns

\* After i turns the list has at most i quotas of candidates, and the leader of every niche
\* whose turn began below the limit.
TurnsTaken(list, limit, chosen, i) ==
  /\ IsInjective(chosen) /\ Len(chosen) <= limit /\ Len(chosen) <= i * Quota(limit)
  /\ \A j \in 1..i : (j - 1) * Quota(limit) < limit =>
                        Best(list, Selectors[j]).cand \in ToSet(chosen)

LEMMA TakesTurn ==
  ASSUME NEW n \in Nat, n > 0, NEW C, NEW list, RowsOf(list, n, C),
         NEW limit \in Nat, limit > 0, NEW chosen \in Seq(C), NEW i \in 1..6,
         TurnsTaken(list, limit, chosen, i - 1)
  PROVE  TurnsTaken(list, limit, NicheOf(list, chosen, Selectors[i], limit), i)
<1> DEFINE q == Quota(limit)
           new == NicheOf(list, chosen, Selectors[i], limit)
<1>1. q \in Nat /\ q > 0 /\ i * q \in Nat /\ (i * q) % q = 0
  <2>1. i \in Nat
    OBVIOUS
  <2>2. \A j \in Nat : j * Quota(limit) \in Nat /\ (j * Quota(limit)) % Quota(limit) = 0
    BY QuotaFacts
  <2>3. i * Quota(limit) \in Nat /\ (i * Quota(limit)) % Quota(limit) = 0
    BY <2>1, <2>2
  <2>4. Quota(limit) \in Nat /\ Quota(limit) > 0
    BY QuotaFacts
  <2> QED
    BY <2>3, <2>4
<1>2. (i - 1) * q \in Int /\ i * q = (i - 1) * q + q
  <2> HIDE DEF q
  <2>1. \A x \in Int, y \in Int : (x - 1) * y \in Int /\ x * y = (x - 1) * y + y
    OBVIOUS
  <2>2. i \in Int /\ q \in Int
    BY <1>1
  <2> QED
    BY <2>1, <2>2
<1>3. Selectors[i] \in Keys
  BY SelectorsAreKeys
<1>4. /\ IsInjective(chosen) /\ Len(chosen) \in Nat /\ Len(chosen) <= limit
      /\ Len(chosen) <= (i - 1) * q
      /\ \A j \in 1..(i - 1) : (j - 1) * q < limit =>
                                 Best(list, Selectors[j]).cand \in ToSet(chosen)
  BY DEF TurnsTaken
<1>5. \A j \in 1..i : j \in 1..(i - 1) \/ j = i
  OBVIOUS
<1>6. CASE Len(chosen) >= limit
  <2>1. new = chosen
    BY <1>6 DEF NicheOf
  <2>2. ~((i - 1) * q < limit)
    BY <1>2, <1>4, <1>6
  <2>3. Len(chosen) <= i * q
    BY <1>1, <1>2, <1>4
  <2>4. \A j \in 1..i : (j - 1) * q < limit => Best(list, Selectors[j]).cand \in ToSet(chosen)
    BY <1>4, <1>5, <2>2
  <2> HIDE DEF new, q
  <2>5. TurnsTaken(list, limit, chosen, i)
    BY <1>4, <2>3, <2>4 DEF TurnsTaken, q
  <2> QED
    BY <2>1, <2>5 DEF new
<1>7. CASE Len(chosen) < limit
  <2>1. new = Chosen(list, Selectors[i], chosen, limit, "niche")
    BY <1>4, <1>7 DEF NicheOf
  <2>2. Len(chosen) < i * q
    BY <1>1, <1>2, <1>4
  <2>3. /\ IsInjective(new) /\ ToSet(chosen) \subseteq ToSet(new)
        /\ Len(new) <= limit /\ Len(new) <= i * q
        /\ Best(list, Selectors[i]).cand \in ToSet(new)
    <3> DEFINE top == i * q
               key == Selectors[i]
    <3>1. top \in Nat /\ top % Quota(limit) = 0 /\ Len(chosen) < top /\ key \in Keys
      BY <1>1, <1>3, <2>2
    <3> HIDE DEF top, key
    <3>2. LET other == Chosen(list, key, chosen, limit, "niche")
          IN  /\ other \in Seq(C) /\ IsInjective(other) /\ ToSet(chosen) \subseteq ToSet(other)
              /\ Len(other) <= limit /\ Len(other) <= top
              /\ Best(list, key).cand \in ToSet(other)
      BY <1>4, <1>7, <3>1, NicheTurn
    <3> QED
      BY <2>1, <3>2 DEF top, key
  <2> HIDE DEF new
  <2>4. \A j \in 1..i : (j - 1) * q < limit => Best(list, Selectors[j]).cand \in ToSet(new)
    BY <1>4, <1>5, <2>3
  <2> HIDE DEF q
  <2>5. TurnsTaken(list, limit, new, i)
    BY <2>3, <2>4 DEF TurnsTaken, q
  <2> QED
    BY <2>5 DEF new
<1>8. Len(chosen) >= limit \/ Len(chosen) < limit
  BY <1>4
<1> QED
  BY <1>6, <1>7, <1>8

\* diverse_elite_ids: whatever the rows and the limit, the leader of every niche that fits
\* goes on, nobody twice, and the list is filled.
LEMMA ElitesAre ==
  ASSUME NEW n \in Nat, n > 0, NEW C, NEW list, RowsOf(list, n, C),
         C = {list[i].cand : i \in 1..n},
         \A i \in 1..n, j \in 1..n : list[i].cand = list[j].cand => i = j,
         NEW limit \in Nat, limit > 0
  PROVE  LET elites == DiverseElites(list, limit)
         IN  /\ elites \in Seq(C) /\ IsInjective(elites) /\ Len(elites) <= n
             /\ Len(elites) \in {limit, limit + 1} \/ (Len(elites) = n /\ n <= limit)
             /\ \A i \in 1..6 : (i - 1) * Quota(limit) < limit =>
                                  Best(list, Selectors[i]).cand \in ToSet(elites)
<1>0. PICK T \in [0..6 -> Seq(C)] : Turns(T, list, limit)
  BY NichesTakeTurns
<1>1. /\ T[0] = <<>>
      /\ \A i \in 1..6 : T[i] = NicheOf(list, T[i - 1], Selectors[i], limit)
      /\ DiverseElites(list, limit) = Chosen(list, BestKey, T[6], limit, "rest")
  BY <1>0 DEF Turns
<1>2. TurnsTaken(list, limit, T[0], 0)
  <2>1. Len(<<>>) = 0 /\ IsInjective(<<>>) /\ 1..0 = {}
    BY DEF IsInjective
  <2>2. 0 * Quota(limit) = 0
    BY QuotaFacts
  <2> QED
    BY <1>1, <2>1, <2>2 DEF TurnsTaken
<1>3. ASSUME NEW i \in 1..6, TurnsTaken(list, limit, T[i - 1], i - 1)
      PROVE  TurnsTaken(list, limit, T[i], i)
  <2>1. i - 1 \in 0..6
    OBVIOUS
  <2>2. T[i - 1] \in Seq(C)
    BY <2>1
  <2> DEFINE chosen == T[i - 1]
  <2>3. chosen \in Seq(C) /\ TurnsTaken(list, limit, chosen, i - 1)
    BY <1>3, <2>2
  <2> HIDE DEF chosen
  <2>4. TurnsTaken(list, limit, NicheOf(list, chosen, Selectors[i], limit), i)
    BY <2>3, TakesTurn
  <2> QED
    BY <1>1, <2>4 DEF chosen
<1>4. TurnsTaken(list, limit, T[6], 6) /\ T[6] \in Seq(C)
  <2>1. TurnsTaken(list, limit, T[1], 1)
    BY <1>2, <1>3
  <2>2. TurnsTaken(list, limit, T[2], 2)
    BY <1>3, <2>1
  <2>3. TurnsTaken(list, limit, T[3], 3)
    BY <1>3, <2>2
  <2>4. TurnsTaken(list, limit, T[4], 4)
    BY <1>3, <2>3
  <2>5. TurnsTaken(list, limit, T[5], 5)
    BY <1>3, <2>4
  <2> QED
    BY <1>3, <2>5
<1>5. IsFiniteSet(C) /\ Cardinality(C) = n
  <2> DEFINE f == [i \in 1..n |-> list[i].cand]
  <2>1. f \in Bijection(1..n, C)
    <3>1. f \in Injection(1..n, C)
      BY DEF Injection, IsInjective
    <3>2. f \in Surjection(1..n, C)
      BY DEF Surjection
    <3> QED
      BY <3>1, <3>2 DEF Bijection
  <2>2. ExistsBijection(1..n, C)
    BY <2>1 DEF ExistsBijection
  <2>3. IsFiniteSet(1..n) /\ Cardinality(1..n) = n
    BY FS_Interval
  <2> QED
    BY <2>2, <2>3, FS_Bijection
<1> DEFINE chosen == T[6]
           elites == Chosen(list, BestKey, chosen, limit, "rest")
<1>6. /\ chosen \in Seq(C) /\ IsInjective(chosen) /\ Len(chosen) <= limit
      /\ \A i \in 1..6 : (i - 1) * Quota(limit) < limit =>
                            Best(list, Selectors[i]).cand \in ToSet(chosen)
  BY <1>4 DEF TurnsTaken
<1>7. BestKey \in Keys
  BY DEF Keys
<1> HIDE DEF chosen
<1>8. LET new == Chosen(list, BestKey, chosen, limit, "rest")
      IN  /\ new \in Seq(C) /\ IsInjective(new) /\ ToSet(chosen) \subseteq ToSet(new)
          /\ Len(new) <= n
          /\ Len(new) \in {limit, limit + 1} \/ (Len(new) = n /\ n <= limit)
  BY <1>5, <1>6, <1>7, RestFills
<1>9. DiverseElites(list, limit) = elites
  BY <1>1 DEF chosen
<1> HIDE DEF elites
<1>10. /\ elites \in Seq(C) /\ IsInjective(elites) /\ ToSet(chosen) \subseteq ToSet(elites)
       /\ Len(elites) <= n
       /\ Len(elites) \in {limit, limit + 1} \/ (Len(elites) = n /\ n <= limit)
  BY <1>8 DEF elites
<1> QED
  BY <1>6, <1>9, <1>10
-----------------------------------------------------------------------------
(* best.json.                                                              *)

\* The rows collected in this stage.
Collected ==
  /\ rows \in Seq(ToSet(rows))
  /\ \A r \in ToSet(rows) : r.launch = launch /\ r.stage = stage /\ r.figure \in Figure

\* best.json is of this stage only if it is one of them.
LeadInv ==
  /\ launch \in Nat /\ stage \in Nat
  /\ Collected
  /\ best # <<>> =>
       /\ best[1].launch \in Nat /\ best[1].stage \in Nat /\ best[1].launch <= launch
       /\ phase = "running" /\ best[1].launch = launch =>
            /\ best[1].stage <= stage
            /\ best[1].stage = stage => best[1] \in ToSet(rows)

\* The leader of a list is in it, and none of the list is better.
LEMMA LeaderLeads ==
  ASSUME NEW S, NEW list \in Seq(S), list # <<>>, \A r \in ToSet(list) : r.figure \in Figure
  PROVE  /\ Leader(list) \in ToSet(list)
         /\ \A r \in ToSet(list) : ~Better(Key, r, Leader(list))
<1>1. Key \in Keys
  BY DEF Key, Keys
<1>2. Len(list) \in Nat /\ Len(list) > 0 /\ DOMAIN list = 1..Len(list)
  OBVIOUS
<1>3. \A i \in DOMAIN list : Measured(list[i])
  BY CampaignAssumption DEF ToSet, Measured
<1>4. PICK c \in DOMAIN list :
        Best(list, Key) = list[c] /\ \A j \in DOMAIN list : ~Better(Key, list[j], list[c])
  BY <1>1, <1>2, <1>3, BestIs
<1> QED
  BY <1>4 DEF Leader, ToSet

LEMMA CollectedGrows ==
  ASSUME Collected, NEW r, rows' = Append(rows, r), UNCHANGED <<launch, stage>>,
         r.launch = launch, r.stage = stage, r.figure \in Figure
  PROVE  Collected' /\ rows' # <<>> /\ ToSet(rows') = ToSet(rows) \cup {r}
<1> DEFINE S == ToSet(rows) \cup {r}
<1>1. rows \in Seq(S) /\ rows' \in Seq(S) /\ rows' # <<>>
  BY DEF Collected
<1>2. DOMAIN rows' = DOMAIN rows \cup {Len(rows) + 1} /\ rows'[Len(rows) + 1] = r
      /\ \A i \in DOMAIN rows : rows'[i] = rows[i]
  BY <1>1
<1>3. ToSet(rows') = S
  BY <1>2 DEF ToSet
<1> QED
  BY <1>1, <1>3 DEF Collected

\* What a step does to best.json.
Improves ==
  \/ best' = best
  \/ /\ phase = "running" /\ UNCHANGED <<launch, stage, script>>
     /\ Collected' /\ rows' # <<>> /\ ToSet(rows) \subseteq ToSet(rows')
     /\ best' = <<Leader(rows')>>

LEMMA StepImproves ==
  ASSUME LeadInv, [Next]_vars PROVE Improves
<1>1. ASSUME NEW t \in finished, Collect(t) PROVE Improves
  <2>1. PICK f \in Figure :
          rows' = Append(rows, [launch |-> launch, stage |-> stage, cand |-> t, figure |-> f])
    BY <1>1 DEF Collect
  <2>2. phase = "running" /\ UNCHANGED <<launch, stage, script>>
    BY <1>1 DEF Collect
  <2>3. Collected' /\ rows' # <<>> /\ ToSet(rows) \subseteq ToSet(rows')
    BY <2>1, <2>2, CollectedGrows DEF LeadInv
  <2>4. best' = <<Leader(rows')>> \/ best' = best
    BY <1>1 DEF Collect
  <2> QED
    BY <2>2, <2>3, <2>4 DEF Improves
<1>2. CASE Finish
  <2>1. UNCHANGED <<launch, stage, script, rows>> /\ phase = "running"
    BY <1>2 DEF Finish, memory
  <2>2. best' = best \/ (rows # <<>> /\ best' = <<Leader(rows)>>)
    BY <1>2 DEF Finish
  <2>3. Collected' /\ Leader(rows)' = Leader(rows)
    BY <2>1 DEF LeadInv, Collected, Leader, Key
  <2> QED
    BY <2>1, <2>2, <2>3 DEF Improves
<1>3. CASE UNCHANGED best
  BY <1>3 DEF Improves
<1>4. [Next]_vars => UNCHANGED best \/ Finish \/ \E t \in finished : Collect(t)
  BY DEF Next, vars, Launch, Kill, StartTask, EndStage, Rest, BeginRun, EndRun, Write
<1> QED
  BY <1>1, <1>2, <1>3, <1>4

\* What a step does to the stage and its rows, when it leaves best.json alone.
LEMMA StepLead ==
  ASSUME LeadInv, [Next]_vars PROVE LeadInv'
<1>1. CASE best' # best
  <2>1. /\ phase = "running" /\ UNCHANGED <<launch, stage, script>>
        /\ Collected' /\ rows' # <<>> /\ best' = <<Leader(rows')>>
    BY <1>1, StepImproves DEF Improves
  <2>2. Leader(rows') \in ToSet(rows')
    <3>1. rows' \in Seq(ToSet(rows')) /\ \A r \in ToSet(rows') : r.figure \in Figure
      BY <2>1 DEF Collected
    <3>2. DOMAIN rows' = 1..Len(rows') /\ Len(rows') \in Nat /\ Len(rows') > 0
      BY <2>1, <3>1
    <3> QED
      BY <2>1, <3>1, LeaderLeads
  <2>3. Leader(rows').launch = launch /\ Leader(rows').stage = stage
    BY <2>1, <2>2 DEF Collected
  <2> QED
    BY <2>1, <2>2, <2>3 DEF LeadInv
<1>2. CASE best' = best /\ Launch
  <2>1. launch' = launch + 1 /\ stage' = 1 /\ rows' = <<>>
    BY <1>2 DEF Launch, Forgotten
  <2>2. Collected'
    BY <2>1 DEF Collected, ToSet
  <2> QED
    BY <1>2, <2>1, <2>2 DEF LeadInv
<1>3. CASE best' = best /\ Kill
  <2>1. launch' = launch /\ stage' = 1 /\ rows' = <<>> /\ phase' = "idle"
    BY <1>3 DEF Kill, Forgotten
  <2>2. Collected'
    BY <2>1 DEF Collected, ToSet
  <2> QED
    BY <1>3, <2>1, <2>2 DEF LeadInv
<1>4. CASE best' = best /\ EndStage
  <2>1. launch' = launch /\ stage' = stage + 1 /\ rows' = <<>> /\ phase = "running"
    BY <1>4 DEF EndStage
  <2>2. Collected'
    BY <2>1 DEF Collected, ToSet
  <2> QED
    BY <1>4, <2>1, <2>2 DEF LeadInv
<1>5. ASSUME best' = best, NEW t \in finished, Collect(t) PROVE LeadInv'
  <2>1. PICK f \in Figure :
          rows' = Append(rows, [launch |-> launch, stage |-> stage, cand |-> t, figure |-> f])
    BY <1>5 DEF Collect
  <2>2. UNCHANGED <<launch, stage, phase>>
    BY <1>5 DEF Collect
  <2>3. Collected' /\ ToSet(rows) \subseteq ToSet(rows')
    BY <2>1, <2>2, CollectedGrows DEF LeadInv
  <2> QED
    BY <1>5, <2>2, <2>3 DEF LeadInv
<1>6. CASE /\ best' = best /\ UNCHANGED <<launch, stage, rows>>
           /\ phase' = phase \/ phase' # "running"
  BY <1>6 DEF LeadInv, Collected
<1>7. \/ Launch \/ Kill \/ EndStage \/ \E t \in finished : Collect(t)
      \/ UNCHANGED <<launch, stage, rows>> /\ (phase' = phase \/ phase' # "running")
  BY DEF Next, vars, memory, StartTask, Finish, Rest, BeginRun, EndRun, Write
<1> QED
  BY <1>1, <1>2, <1>3, <1>4, <1>5, <1>6, <1>7

LEMMA InitLead == Init => LeadInv
BY DEF Init, LeadInv, Collected, ToSet

\* Whatever the order of the workers, the checkpoints, launches and kills, best.json never
\* gets worse within a stage (heavy_secure_search.py 292-323,
\* refine_edge_multiscenario.py 329-367).
THEOREM BestNeverWorsensHolds == Spec => BestNeverWorsens
<1>1. ASSUME LeadInv, [Next]_vars, best' # best, best # <<>>,
             best'[1].launch = best[1].launch, best'[1].stage = best[1].stage
      PROVE  ~Better(Key, best[1], best'[1])
  <2>1. /\ phase = "running" /\ UNCHANGED <<launch, stage, script>>
        /\ Collected' /\ rows' # <<>> /\ ToSet(rows) \subseteq ToSet(rows')
        /\ best' = <<Leader(rows')>>
    BY <1>1, StepImproves DEF Improves
  <2>2. /\ Leader(rows') \in ToSet(rows')
        /\ \A r \in ToSet(rows') : ~Better(Key, r, Leader(rows'))
    BY <2>1, LeaderLeads DEF Collected
  <2>3. best[1] \in ToSet(rows)
    BY <1>1, <2>1, <2>2 DEF LeadInv, Collected
  <2> QED
    BY <2>1, <2>2, <2>3
<1>2. LeadInv /\ [Next]_vars =>
        [best # <<>> /\ best'[1].launch = best[1].launch /\ best'[1].stage = best[1].stage
           => ~Better(Key, best[1], best'[1])]_best
  BY <1>1
<1>3. LeadInv /\ [Next]_vars => LeadInv'
  BY StepLead
<1> QED
  BY <1>2, <1>3, InitLead, PTL DEF Spec, BestNeverWorsens

-----------------------------------------------------------------------------
(* A candidate is at one place of a stage.                                 *)

Held == {rows[i].cand : i \in DOMAIN rows}

\* The candidates of a stage wait, are at work, are finished or have a row, and every one is
\* at one of these places, once.
Placed ==
  /\ queue \in Seq(ToSet(queue)) /\ IsInjective(queue)
  /\ ToSet(queue) \cap DOMAIN jobs = {} /\ ToSet(queue) \cap finished = {}
  /\ ToSet(queue) \cap Held = {} /\ DOMAIN jobs \cap finished = {}
  /\ DOMAIN jobs \cap Held = {} /\ finished \cap Held = {}
  /\ \A i \in DOMAIN rows, j \in DOMAIN rows : rows[i].cand = rows[j].cand => i = j
  /\ ToSet(queue) \cup DOMAIN jobs \cup finished \cup Held # {}

StageInv ==
  /\ session \in Seq(Benchmark \cup Search)
  /\ stage \in Nat \ {0}
  /\ phase = "running" /\ script \in Search => Placed

\* A list is a list of its members.
LEMMA InItsOwnSet ==
  ASSUME NEW C, NEW q \in Seq(C) PROVE q \in Seq(ToSet(q))
<1>1. Len(q) \in Nat /\ DOMAIN q = 1..Len(q) /\ q = [i \in 1..Len(q) |-> q[i]]
  OBVIOUS
<1>2. \A i \in 1..Len(q) : q[i] \in ToSet(q)
  BY <1>1 DEF ToSet
<1> QED
  BY <1>1, <1>2

\* The first of a queue leaves it.
LEMMA HeadLeaves ==
  ASSUME NEW S, NEW q \in Seq(S), q # <<>>, IsInjective(q)
  PROVE  /\ Head(q) \in ToSet(q) /\ ToSet(Tail(q)) = ToSet(q) \ {Head(q)}
         /\ Tail(q) \in Seq(ToSet(Tail(q))) /\ IsInjective(Tail(q))
<1> DEFINE n == Len(q)
           t == Tail(q)
<1>1. n \in Nat /\ n > 0 /\ DOMAIN q = 1..n /\ Head(q) = q[1]
  OBVIOUS
<1>2. t \in Seq(S) /\ Len(t) = n - 1 /\ DOMAIN t = 1..(n - 1) /\ \A i \in 1..(n - 1) : t[i] = q[i + 1]
  BY <1>1
<1> HIDE DEF n, t
<1>3. Head(q) \in ToSet(q)
  BY <1>1 DEF ToSet
<1>4. ASSUME NEW x \in ToSet(t) PROVE x \in ToSet(q) \ {Head(q)}
  <2>1. PICK i \in 1..(n - 1) : x = t[i]
    BY <1>2 DEF ToSet
  <2>2. i + 1 \in 1..n /\ x = q[i + 1] /\ i + 1 # 1 /\ 1 \in 1..n
    BY <1>1, <1>2, <2>1
  <2> QED
    BY <1>1, <2>2 DEF ToSet, IsInjective
<1>5. ASSUME NEW x \in ToSet(q) \ {Head(q)} PROVE x \in ToSet(t)
  <2>1. PICK i \in 1..n : x = q[i]
    BY <1>1 DEF ToSet
  <2>2. i # 1
    BY <1>1, <2>1
  <2>3. i - 1 \in 1..(n - 1) /\ (i - 1) + 1 = i
    BY <1>1, <2>2
  <2>4. t[i - 1] = x
    BY <1>2, <2>1, <2>3
  <2> QED
    BY <1>2, <2>3, <2>4 DEF ToSet
<1>6. IsInjective(t)
  <2> SUFFICES ASSUME NEW i \in 1..(n - 1), NEW j \in 1..(n - 1), t[i] = t[j] PROVE i = j
    BY <1>2 DEF IsInjective
  <2>1. q[i + 1] = q[j + 1] /\ i + 1 \in 1..n /\ j + 1 \in 1..n
    BY <1>1, <1>2
  <2>2. i + 1 = j + 1
    BY <1>1, <2>1 DEF IsInjective
  <2> QED
    BY <1>1, <2>2
<1>7. t \in Seq(ToSet(t))
  BY <1>2, InItsOwnSet
<1> QED
  BY <1>3, <1>4, <1>5, <1>6, <1>7 DEF t

\* The evaluations of a stage are n rows of n candidates.
LEMMA RowsAre ==
  ASSUME Collected, Placed
  PROVE  /\ Len(rows) \in Nat /\ RowsOf(rows, Len(rows), Held)
         /\ Held = {rows[i].cand : i \in 1..Len(rows)}
         /\ \A i \in 1..Len(rows), j \in 1..Len(rows) : rows[i].cand = rows[j].cand => i = j
<1>1. Len(rows) \in Nat /\ DOMAIN rows = 1..Len(rows)
  BY DEF Collected
<1>2. \A i \in DOMAIN rows : rows[i] \in ToSet(rows)
  BY DEF ToSet
<1>3. \A i \in DOMAIN rows : Measured(rows[i])
  BY <1>2, CampaignAssumption DEF Collected, Measured
<1> QED
  BY <1>1, <1>3 DEF RowsOf, Held, Placed

\* The best of n rows: as many as the limit, nobody twice.
LEMMA TopAre ==
  ASSUME NEW key \in Keys, NEW n \in Nat, n > 0, NEW C, NEW list, RowsOf(list, n, C),
         Len(list) = n,
         \A i \in 1..n, j \in 1..n : list[i].cand = list[j].cand => i = j,
         NEW limit \in Nat, limit > 0
  PROVE  LET top == TopCands(list, key, limit)
         IN  top \in Seq(C) /\ top # <<>> /\ IsInjective(top)
<1>1. DOMAIN list = 1..n /\ \A i \in DOMAIN list : Measured(list[i])
  BY DEF RowsOf
<1>0. PICK place \in [1..n -> 1..n] : Ranked(place, list, key, n)
  BY <1>1, OrderedIs
<1>2. /\ Ordered(list, key) = [k \in 1..n |-> list[place[k]]]
      /\ \A k \in 1..n, l \in 1..n : place[k] = place[l] => k = l
  BY <1>0 DEF Ranked
<1> DEFINE m == IF limit < n THEN limit ELSE n
           top == [i \in 1..m |-> list[place[i]].cand]
<1>3. m \in Nat /\ m > 0 /\ \A i \in 1..m : i \in 1..n
  OBVIOUS
<1>4. TopCands(list, key, limit) = top
  BY <1>2, <1>3 DEF TopCands
<1> HIDE DEF m
<1>5. \A i \in 1..m : place[i] \in 1..n
  BY <1>3
<1>6. \A i \in 1..m : list[place[i]].cand \in C
  BY <1>5 DEF RowsOf
<1>7. top \in Seq(C) /\ top # <<>>
  BY <1>3, <1>6
<1>8. IsInjective(top)
  <2> SUFFICES ASSUME NEW i \in 1..m, NEW j \in 1..m, list[place[i]].cand = list[place[j]].cand
               PROVE  i = j
    BY DEF IsInjective
  <2>1. place[i] = place[j]
    BY <1>5
  <2> QED
    BY <1>2, <1>3, <2>1
<1> QED
  BY <1>4, <1>7, <1>8

\* A candidate that moves from one place of a stage to the next keeps the stage in order.
LEMMA StartPlaced ==
  ASSUME Placed, StartTask PROVE Placed'
<1> DEFINE t == Head(queue)
<1>1. /\ queue # <<>> /\ queue' = Tail(queue) /\ UNCHANGED <<finished, rows>>
      /\ DOMAIN jobs' = DOMAIN jobs \cup {t}
  BY DEF StartTask
<1>2. /\ t \in ToSet(queue) /\ ToSet(queue') = ToSet(queue) \ {t}
      /\ queue' \in Seq(ToSet(queue')) /\ IsInjective(queue')
  <2>1. queue \in Seq(ToSet(queue)) /\ IsInjective(queue)
    BY DEF Placed
  <2> QED
    BY <1>1, <2>1, HeadLeaves
<1>3. Held' = Held
  BY <1>1 DEF Held
<1> HIDE DEF t
<1> QED
  BY <1>1, <1>2, <1>3 DEF Placed

LEMMA AdvancePlaced ==
  ASSUME Placed, UNCHANGED <<queue, rows>>, NEW t \in DOMAIN jobs,
         \/ DOMAIN jobs' = DOMAIN jobs /\ UNCHANGED finished
         \/ DOMAIN jobs' = DOMAIN jobs \ {t} /\ finished' = finished \cup {t}
  PROVE  Placed'
<1>1. Held' = Held
  BY DEF Held
<1>2. ToSet(queue)' = ToSet(queue)
  OBVIOUS
<1> QED
  BY <1>1, <1>2 DEF Placed

LEMMA JobPlaced ==
  ASSUME Placed, NEW t \in DOMAIN jobs, BeginRun(t) \/ EndRun(t) \/ Write(t) PROVE Placed'
<1>1. UNCHANGED <<queue, rows>>
  BY DEF BeginRun, EndRun, Write
<1>2. Advance(t) =>
        \/ DOMAIN jobs' = DOMAIN jobs /\ UNCHANGED finished
        \/ DOMAIN jobs' = DOMAIN jobs \ {t} /\ finished' = finished \cup {t}
  BY DEF Advance, Without
<1>3. CASE BeginRun(t)
  <2>1. DOMAIN jobs' = DOMAIN jobs /\ UNCHANGED finished
    BY <1>3 DEF BeginRun
  <2> QED
    BY <1>1, <2>1, AdvancePlaced
<1>4. CASE EndRun(t)
  <2>1. Advance(t) \/ (DOMAIN jobs' = DOMAIN jobs /\ UNCHANGED finished)
    BY <1>4 DEF EndRun
  <2> QED
    BY <1>1, <1>2, <2>1, AdvancePlaced
<1>5. CASE Write(t)
  <2>1. Advance(t)
    BY <1>5 DEF Write
  <2> QED
    BY <1>1, <1>2, <2>1, AdvancePlaced
<1> QED
  BY <1>3, <1>4, <1>5

LEMMA CollectPlaced ==
  ASSUME Placed, Collected, NEW t \in finished, Collect(t) PROVE Placed'
<1>1. PICK f \in Figure :
        rows' = Append(rows, [launch |-> launch, stage |-> stage, cand |-> t, figure |-> f])
  BY DEF Collect
<1>2. finished' = finished \ {t} /\ UNCHANGED <<queue, jobs>>
  BY DEF Collect
<1> DEFINE r == [launch |-> launch, stage |-> stage, cand |-> t, figure |-> f]
           n == Len(rows)
<1>3. n \in Nat /\ DOMAIN rows = 1..n /\ DOMAIN rows' = 1..(n + 1)
      /\ rows'[n + 1] = r /\ \A i \in 1..n : rows'[i] = rows[i]
  BY <1>1 DEF Collected
<1>4. r.cand = t
  OBVIOUS
<1> HIDE DEF r, n
<1>5. \A i \in 1..(n + 1) : i \in 1..n \/ i = n + 1
  BY <1>3
<1>6. Held' = Held \cup {t}
  <2>1. \A x \in Held' : x \in Held \cup {t}
    BY <1>3, <1>4, <1>5 DEF Held
  <2>2. n + 1 \in DOMAIN rows' /\ \A i \in 1..n : i \in DOMAIN rows'
    BY <1>3
  <2>3. t \in Held'
    BY <1>3, <1>4, <2>2 DEF Held
  <2>4. \A x \in Held : x \in Held'
    BY <1>3, <2>2 DEF Held
  <2> QED
    BY <2>1, <2>3, <2>4
<1>7. t \notin Held
  BY DEF Placed
<1>8. ASSUME NEW i \in DOMAIN rows', NEW j \in DOMAIN rows', rows'[i].cand = rows'[j].cand
      PROVE  i = j
  <2>1. \A k \in 1..n : rows[k].cand # t
    BY <1>3, <1>7 DEF Held
  <2>2. \A k \in 1..n, l \in 1..n : rows[k].cand = rows[l].cand => k = l
    BY <1>3 DEF Placed
  <2> QED
    BY <1>3, <1>4, <1>5, <1>8, <2>1, <2>2
<1>9. ToSet(queue)' = ToSet(queue)
  BY <1>2
<1> QED
  BY <1>2, <1>6, <1>8, <1>9 DEF Placed

\* A stage begins with candidates that wait, nobody twice.
LEMMA BeginPlaced ==
  ASSUME queue' \in Seq(ToSet(queue')), IsInjective(queue'), queue' # <<>>,
         jobs' = <<>>, finished' = {}, rows' = <<>>
  PROVE  Placed'
<1>1. DOMAIN jobs' = {} /\ DOMAIN rows' = {}
  OBVIOUS
<1>2. Held' = {}
  BY <1>1 DEF Held
<1>3. ToSet(queue') # {}
  <2>1. 1 \in DOMAIN queue'
    OBVIOUS
  <2> QED
    BY <2>1 DEF ToSet
<1> QED
  BY <1>1, <1>2, <1>3 DEF Placed

\* The rows of an idle stage are there, and the next begins with some of their candidates.
LEMMA IdleHasRows ==
  ASSUME Placed, Collected, Idle, finished = {} PROVE Len(rows) > 0
<1>1. DOMAIN jobs = {} /\ ToSet(queue) = {}
  BY DEF Idle, ToSet
<1>2. Held # {}
  BY <1>1 DEF Placed
<1> QED
  BY <1>2, RowsAre

LEMMA LaunchPlaced ==
  ASSUME StageInv, Launch PROVE StageInv'
<1>1. session' \in Seq(Benchmark \cup Search) /\ stage' = 1
  BY DEF StageInv, Launch, Forgotten
<1>2. ASSUME script' \in Search PROVE Placed'
  <2>1. queue' = Candidates[script']
    BY <1>2 DEF Launch, Tasks
  <2>2. queue' \in Seq(ToSet(queue')) /\ IsInjective(queue') /\ queue' # <<>>
    BY <1>2, <2>1, CampaignAssumption
  <2> QED
    BY <2>2, BeginPlaced DEF Launch, Forgotten
<1> QED
  BY <1>1, <1>2 DEF StageInv

LEMMA LimitIs == Limit \in Nat /\ Limit > 0
BY CampaignAssumption DEF Limit

\* Any order of a nonempty finite set is a queue.
LEMMA AnyOrder ==
  ASSUME NEW S, IsFiniteSet(S), S # {}, NEW q \in SetToSeqs(S)
  PROVE  q \in Seq(ToSet(q)) /\ IsInjective(q) /\ q # <<>>
<1> DEFINE n == Cardinality(S)
<1>1. n \in Nat /\ n # 0
  BY FS_CardinalityType, FS_EmptySet
<1>2. q \in [1..n -> S] /\ \A i \in 1..n, j \in 1..n : i # j => q[i] # q[j]
  BY DEF SetToSeqs
<1> HIDE DEF n
<1>3. DOMAIN q = 1..n /\ q \in Seq(S) /\ Len(q) = n
  BY <1>1, <1>2
<1>4. q # <<>>
  BY <1>1, <1>3
<1>5. IsInjective(q)
  BY <1>2, <1>3 DEF IsInjective
<1>6. q \in Seq(ToSet(q))
  BY <1>3 DEF ToSet
<1> QED
  BY <1>4, <1>5, <1>6

\* diverse_elite_ids of the rows of a stage.
LEMMA ElitesLead ==
  ASSUME Placed, Collected, Len(rows) > 0
  PROVE  LET elites == DiverseElites(rows, Limit)
         IN  /\ elites \in Seq(ToSet(elites)) /\ elites # <<>>
             /\ NicheLeadersIn(rows, Limit, elites)
<1> DEFINE n == Len(rows)
           limit == Limit
           elites == DiverseElites(rows, limit)
<1>1. /\ n \in Nat /\ n > 0 /\ RowsOf(rows, n, Held) /\ Held = {rows[i].cand : i \in 1..n}
      /\ \A i \in 1..n, j \in 1..n : rows[i].cand = rows[j].cand => i = j
  BY RowsAre
<1>2. limit \in Nat /\ limit > 0
  BY LimitIs
<1> HIDE DEF n, limit
<1>3. LET new == DiverseElites(rows, limit)
      IN  /\ new \in Seq(Held) /\ IsInjective(new) /\ Len(new) <= n
          /\ Len(new) \in {limit, limit + 1} \/ (Len(new) = n /\ n <= limit)
          /\ \A i \in 1..6 : (i - 1) * Quota(limit) < limit =>
                               Best(rows, Selectors[i]).cand \in ToSet(new)
  BY <1>1, <1>2, ElitesAre
<1> HIDE DEF elites
<1>4. /\ elites \in Seq(Held) /\ IsInjective(elites) /\ Len(elites) <= n
      /\ Len(elites) \in {limit, limit + 1} \/ (Len(elites) = n /\ n <= limit)
  BY <1>3 DEF elites
<1>5. \A i \in DOMAIN Selectors : (i - 1) * Quota(limit) < limit =>
                               Best(rows, Selectors[i]).cand \in ToSet(elites)
  BY <1>3, SelectorsAreKeys DEF elites
<1>6. Len(elites) \in Nat
  BY <1>4
<1>7. Len(elites) > 0
  BY <1>1, <1>2, <1>4, <1>6
<1>8. elites # <<>>
  BY <1>7
<1>9. Len(elites) \in {Min({limit, n}), Min({limit + 1, n})}
  <2>1. \A a \in Int, b \in Int : Min({a, b}) = IF a <= b THEN a ELSE b
    <3> SUFFICES ASSUME NEW a \in Int, NEW b \in Int PROVE Min({a, b}) = IF a <= b THEN a ELSE b
      OBVIOUS
    <3> DEFINE m == IF a <= b THEN a ELSE b
    <3>1. m \in {a, b} /\ \A y \in {a, b} : m <= y
      OBVIOUS
    <3>2. \A x \in {a, b} : (\A y \in {a, b} : x <= y) => x = m
      OBVIOUS
    <3> HIDE DEF m
    <3>3. Min({a, b}) = m
      BY <3>1, <3>2 DEF Min
    <3> QED
      BY <3>3 DEF m
  <2>2. /\ Min({limit, n}) = IF limit <= n THEN limit ELSE n
        /\ Min({limit + 1, n}) = IF limit + 1 <= n THEN limit + 1 ELSE n
    BY <1>1, <1>2, <2>1
  <2>3. Len(elites) = limit \/ Len(elites) = limit + 1 \/ (Len(elites) = n /\ n <= limit)
    BY <1>4
  <2>4. \/ Len(elites) = IF limit <= n THEN limit ELSE n
        \/ Len(elites) = IF limit + 1 <= n THEN limit + 1 ELSE n
    BY <1>1, <1>2, <1>4, <1>6, <2>3
  <2> QED
    BY <2>2, <2>4
<1>10. NicheLeadersIn(rows, limit, elites)
  BY <1>4, <1>5, <1>9 DEF NicheLeadersIn, n
<1>11. elites \in Seq(ToSet(elites))
  BY <1>4, InItsOwnSet
<1> QED
  BY <1>8, <1>10, <1>11 DEF elites, limit

\* Whatever the selection, the next stage has candidates, nobody twice.
LEMMA SurvivorsWait ==
  ASSUME Placed, Collected, Len(rows) > 0, NEW q \in Survivors, script \in Search
  PROVE  /\ q \in Seq(ToSet(q)) /\ IsInjective(q) /\ q # <<>>
         /\ script = "refine" => NicheLeadersIn(rows, Limit, q)
<1>1. script = "refine" \/ script = "scalar" \/ script = "heavy"
  BY DEF Search, Refine
<1>2. CASE script = "refine"
  <2>1. q = DiverseElites(rows, Limit)
    BY <1>2 DEF Survivors
  <2> QED
    BY <2>1, ElitesLead DEF NicheLeadersIn
<1>3. ASSUME NEW key \in Keys
      PROVE  LET top == TopCands(rows, key, Limit)
             IN  top \in Seq(Held) /\ top # <<>> /\ IsInjective(top)
  <2> DEFINE n == Len(rows)
             limit == Limit
  <2>1. /\ n \in Nat /\ n > 0 /\ RowsOf(rows, n, Held)
        /\ \A i \in 1..n, j \in 1..n : rows[i].cand = rows[j].cand => i = j
    BY RowsAre
  <2>2. limit \in Nat /\ limit > 0 /\ Len(rows) = n
    BY LimitIs
  <2> HIDE DEF n, limit
  <2>3. LET top == TopCands(rows, key, limit)
        IN  top \in Seq(Held) /\ top # <<>> /\ IsInjective(top)
    BY <2>1, <2>2, TopAre
  <2> QED
    BY <2>3 DEF limit
<1>4. CASE script = "scalar"
  <2> DEFINE top == TopCands(rows, BestKey, Limit)
  <2>1. q = top
    BY <1>4 DEF Survivors
  <2>2. top \in Seq(Held) /\ top # <<>> /\ IsInjective(top)
    BY <1>3 DEF Keys
  <2> HIDE DEF top
  <2>3. top \in Seq(ToSet(top))
    BY <2>2, InItsOwnSet
  <2> QED
    BY <1>4, <2>1, <2>2, <2>3
<1>5. CASE script = "heavy"
  <2> DEFINE top == TopCands(rows, HeavyKey, Limit)
             S == ToSet(top)
  <2>1. q \in SetToSeqs(S)
    BY <1>5 DEF Survivors
  <2>2. top \in Seq(Held) /\ top # <<>> /\ IsInjective(top)
    BY <1>3 DEF Keys
  <2> HIDE DEF top
  <2>3. IsFiniteSet(S)
    BY <2>2, CountOfInjective
  <2>4. S # {}
    <3>1. 1 \in DOMAIN top
      BY <2>2
    <3> QED
      BY <3>1 DEF ToSet
  <2> HIDE DEF S
  <2>5. q \in Seq(ToSet(q)) /\ IsInjective(q) /\ q # <<>>
    BY <2>1, <2>3, <2>4, AnyOrder
  <2> QED
    BY <1>5, <2>5
<1> QED
  BY <1>1, <1>2, <1>4, <1>5

LEMMA EndStagePlaced ==
  ASSUME StageInv, Collected, EndStage
  PROVE  StageInv' /\ (script = "refine" => NicheLeadersIn(rows, Limit, queue'))
<1>1. /\ phase = "running" /\ script \in Search /\ Idle /\ finished = {} /\ jobs = <<>>
      /\ queue' \in Survivors /\ stage' = stage + 1 /\ rows' = <<>>
      /\ UNCHANGED <<session, jobs, finished>>
  BY DEF EndStage, Idle
<1>2. Placed /\ stage \in Nat \ {0} /\ session \in Seq(Benchmark \cup Search)
  BY <1>1 DEF StageInv
<1>3. Len(rows) > 0
  BY <1>1, <1>2, IdleHasRows
<1>4. /\ queue' \in Seq(ToSet(queue')) /\ IsInjective(queue') /\ queue' # <<>>
      /\ script = "refine" => NicheLeadersIn(rows, Limit, queue')
  BY <1>1, <1>2, <1>3, SurvivorsWait
<1>5. Placed'
  BY <1>1, <1>4, BeginPlaced
<1>6. stage' \in Nat \ {0}
  BY <1>1, <1>2
<1> QED
  BY <1>1, <1>2, <1>4, <1>5, <1>6 DEF StageInv

LEMMA StepPlaced ==
  ASSUME StageInv, Collected, [Next]_vars
  PROVE  /\ StageInv'
         /\ script = "refine" /\ stage' = stage + 1 => NicheLeadersIn(rows, Limit, queue')
<1>0. stage \in Nat \ {0} /\ session \in Seq(Benchmark \cup Search)
  BY DEF StageInv
<1>1. CASE Launch
  <2>1. stage' = 1
    BY <1>1 DEF Launch, Forgotten
  <2> QED
    BY <1>0, <1>1, <2>1, LaunchPlaced
<1>2. CASE Kill
  <2>1. stage' = 1 /\ phase' = "idle" /\ session' = session
    BY <1>2 DEF Kill, Forgotten
  <2> QED
    BY <1>0, <2>1 DEF StageInv
<1>3. CASE EndStage
  BY <1>3, EndStagePlaced
<1>4. CASE StartTask
  <2>1. UNCHANGED <<session, stage, phase, script>>
    BY <1>4 DEF StartTask
  <2> QED
    BY <1>0, <1>4, <2>1, StartPlaced DEF StageInv
<1>5. ASSUME NEW t \in DOMAIN jobs, BeginRun(t) \/ EndRun(t) \/ Write(t)
      PROVE  StageInv' /\ stage' # stage + 1
  <2>1. UNCHANGED <<session, stage, script>> /\ phase = "running"
    BY <1>5 DEF BeginRun, EndRun, Write
  <2> QED
    BY <1>0, <1>5, <2>1, JobPlaced DEF StageInv
<1>6. ASSUME NEW t \in finished, Collect(t)
      PROVE  StageInv' /\ stage' # stage + 1
  <2>1. UNCHANGED <<session, stage, script, phase>>
    BY <1>6 DEF Collect
  <2> QED
    BY <1>0, <1>6, <2>1, CollectPlaced DEF StageInv
<1>7. CASE Finish
  <2>1. UNCHANGED <<session, stage>> /\ phase' = "done"
    BY <1>7 DEF Finish, memory
  <2> QED
    BY <1>0, <2>1 DEF StageInv
<1>8. CASE Rest \/ UNCHANGED vars
  <2>1. UNCHANGED <<session, stage, phase, script, queue, jobs, finished, rows>>
    BY <1>8 DEF Rest, vars, memory
  <2>2. Placed' = Placed
    BY <2>1 DEF Placed, Held
  <2> QED
    BY <1>0, <2>1, <2>2 DEF StageInv
<1> QED
  BY <1>1, <1>2, <1>3, <1>4, <1>5, <1>6, <1>7, <1>8 DEF Next

\* Whatever the candidates, their figures, the limits, the order of the workers, launches and
\* kills, the diverse selection sends the leader of every niche that fits to the next stage,
\* nobody twice, and fills its list (refine_edge_multiscenario.py 266-291).
THEOREM NichesSurviveHolds == Spec => NichesSurvive
<1>1. Init => StageInv
  <2> SUFFICES ASSUME Init PROVE StageInv
    OBVIOUS
  <2>1. session \in Sessions /\ stage = 1 /\ phase = "idle"
    BY DEF Init
  <2> QED
    BY <2>1, CampaignAssumption DEF StageInv
<1>2. StageInv /\ LeadInv /\ [Next]_vars => StageInv'
  BY StepPlaced DEF LeadInv
<1>3. StageInv /\ LeadInv /\ [Next]_vars =>
        [script = "refine" /\ stage' = stage + 1 => NicheLeadersIn(rows, Limit, queue')]_vars
  BY StepPlaced DEF LeadInv
<1>4. LeadInv /\ [Next]_vars => LeadInv'
  BY StepLead
<1> QED
  BY <1>1, <1>2, <1>3, <1>4, InitLead, PTL DEF Spec, NichesSurvive

-----------------------------------------------------------------------------
(* Comprehensions and pairs.                                               *)

\* One more entry for the list of those that are wanted.
Keep(kept, x, wanted) == IF x \in wanted THEN Append(kept, x) ELSE kept

KeptRun(K, list, wanted) ==
  /\ K[0] = <<>>
  /\ \A i \in 1..Len(list) : K[i] = Keep(K[i - 1], list[i], wanted)
  /\ K[Len(list)] = Kept(list, wanted)

\* A comprehension goes through its list.
LEMMA KeptRuns ==
  ASSUME NEW S, NEW list \in Seq(S), NEW wanted
  PROVE  \E K \in [0..Len(list) -> Seq(S)] : KeptRun(K, list, wanted)
<1> DEFINE n == Len(list)
           D == Seq(S)
           Eq(g) == g = [s \in SUBSET (1..n) |->
                           IF s = {} THEN <<>> ELSE Keep(g[s \ {Max(s)}], list[Max(s)], wanted)]
           op == [x \in D \X S |-> Keep(x[1], x[2], wanted)]
<1>1. n \in Nat /\ DOMAIN list = 1..n /\ list \in [1..n -> S]
  OBVIOUS
<1> HIDE DEF n
<1>2. <<>> \in D
  OBVIOUS
<1>3. op \in [D \X S -> D]
  BY DEF Keep
<1>4. Kept(list, wanted) = (CHOOSE g : Eq(g))[1..n]
  <2>1. Kept(list, wanted)
          = (CHOOSE g : g = [s \in SUBSET DOMAIN list |->
               IF s = {} THEN <<>> ELSE Keep(g[s \ {Max(s)}], list[Max(s)], wanted)])[DOMAIN list]
    BY DEF Kept, FoldLeft, MapThenFoldSet, Keep
  <2> QED
    BY <1>1, <2>1
<1> HIDE DEF D
<1>5. ASSUME NEW s \in SUBSET (1..n), s # {}, NEW x \in D
      PROVE  op[<<x, list[Max(s)]>>] = Keep(x, list[Max(s)], wanted)
  <2>1. Max(s) \in 1..n
    BY <1>1, <1>5, MaxIsMember
  <2>2. list[Max(s)] \in S
    BY <1>1, <2>1
  <2> QED
    BY <2>2
<1> HIDE DEF op
<1>6. \E g : Eq(g)
  <2>1. PICK g \in [SUBSET (1..n) -> D] : LeftTable(g, op, <<>>, list, n)
    BY <1>1, <1>2, <1>3, LeftTableExists
  <2>2. \A s \in SUBSET (1..n) : g[s] = IF s = {} THEN <<>>
                                       ELSE Keep(g[s \ {Max(s)}], list[Max(s)], wanted)
    BY <1>5, <2>1 DEF LeftTable
  <2>3. g = [s \in SUBSET (1..n) |-> g[s]]
    OBVIOUS
  <2>4. Eq(g)
    BY <2>2, <2>3
  <2> QED
    BY <2>4
<1> DEFINE g == CHOOSE g : Eq(g)
<1>7. Eq(g)
  BY <1>6
<1> HIDE DEF g
<1>8. PICK K \in [0..n -> D] : K[n] = g[1..n] /\ LeftRun(K, op, <<>>, list, n)
  <2>1. g[{}] = <<>>
    BY <1>7
  <2>2. ASSUME NEW s \in SUBSET (1..n), s # {}, g[s \ {Max(s)}] \in D
        PROVE  g[s] = op[<<g[s \ {Max(s)}], list[Max(s)]>>]
    BY <1>5, <1>7, <2>2
  <2> HIDE DEF Eq
  <2>3. LeftTableIn(D, g, op, <<>>, list, n)
    BY <2>1, <2>2 DEF LeftTableIn
  <2> QED
    BY <1>1, <1>2, <1>3, <2>3, LeftFold
<1>9. ASSUME NEW i \in 1..n PROVE K[i] = Keep(K[i - 1], list[i], wanted)
  <2>1. i - 1 \in 0..n
    BY <1>1
  <2>2. K[i - 1] \in D /\ list[i] \in S
    BY <1>1, <2>1
  <2> QED
    BY <1>8, <2>2 DEF LeftRun, op
<1>10. K[0] = <<>> /\ K[n] = Kept(list, wanted)
  BY <1>4, <1>8 DEF LeftRun, g
<1> QED
  BY <1>9, <1>10 DEF KeptRun, n, D

Mapped(f, s) == [i \in 1..Len(s) |-> f[s[i]]]

LEMMA MappedAppend ==
  ASSUME NEW S, NEW f, NEW s \in Seq(S), NEW x \in S
  PROVE  Mapped(f, Append(s, x)) = Append(Mapped(f, s), f[x])
<1> DEFINE T == {f[y] : y \in S}
           n == Len(s)
           a == Append(s, x)
<1>1. n \in Nat /\ DOMAIN s = 1..n /\ \A i \in 1..n : s[i] \in S
  OBVIOUS
<1>2. Len(a) = n + 1 /\ a[n + 1] = x /\ \A i \in 1..n : a[i] = s[i]
  OBVIOUS
<1> HIDE DEF n, a
<1> DEFINE m == [i \in 1..n |-> f[s[i]]]
           b == Append(m, f[x])
<1>3. m \in Seq(T) /\ Len(m) = n /\ \A i \in 1..n : m[i] = f[s[i]]
  BY <1>1
<1>4. b \in Seq(T) /\ Len(b) = n + 1 /\ b[n + 1] = f[x] /\ \A i \in 1..n : b[i] = f[s[i]]
  BY <1>1, <1>3
<1>5. b = [i \in 1..(n + 1) |-> b[i]]
  <2> HIDE DEF b
  <2>1. b \in [1..(n + 1) -> T]
    BY <1>1, <1>4
  <2> QED
    BY <2>1
<1>6. ASSUME NEW i \in 1..(n + 1) PROVE b[i] = f[a[i]]
  <2>1. i \in 1..n \/ i = n + 1
    BY <1>1
  <2> QED
    BY <1>2, <1>4, <2>1
<1> HIDE DEF b
<1>7. b = [i \in 1..(n + 1) |-> f[a[i]]]
  BY <1>5, <1>6
<1>8. Mapped(f, s) = m /\ Mapped(f, a) = [i \in 1..(n + 1) |-> f[a[i]]]
  BY <1>2 DEF Mapped, n
<1>9. Mapped(f, a) = Append(Mapped(f, s), f[x])
  BY <1>7, <1>8 DEF b
<1> QED
  BY <1>9 DEF a

\* A comprehension over images keeps the images of what it keeps.
LEMMA KeptMaps ==
  ASSUME NEW S, NEW list \in Seq(S), NEW f, NEW W, NEW V,
         \A x \in S : x \in W <=> f[x] \in V
  PROVE  /\ Kept(list, W) \in Seq(S)
         /\ Kept(Mapped(f, list), V) = Mapped(f, Kept(list, W))
<1> DEFINE n == Len(list)
           T == {f[x] : x \in S}
           images == Mapped(f, list)
<1>1. n \in Nat /\ \A i \in 1..n : list[i] \in S
  OBVIOUS
<1>2. images \in Seq(T) /\ Len(images) = n /\ \A i \in 1..n : images[i] = f[list[i]]
  BY <1>1 DEF Mapped
<1> HIDE DEF n, images
<1>3. PICK K \in [0..n -> Seq(S)] : KeptRun(K, list, W)
  BY KeptRuns DEF n
<1>4. PICK L \in [0..n -> Seq(T)] : KeptRun(L, images, V)
  BY <1>2, KeptRuns
<1> DEFINE Off == {k \in 0..n : L[k] # Mapped(f, K[k])}
<1>5. L[0] = Mapped(f, K[0])
  <2>1. Mapped(f, <<>>) = <<>>
    BY DEF Mapped
  <2> QED
    BY <1>3, <1>4, <2>1 DEF KeptRun
<1>6. ASSUME NEW k \in 1..n, k - 1 \notin Off PROVE k \notin Off
  <2>1. k - 1 \in 0..n /\ L[k - 1] = Mapped(f, K[k - 1]) /\ K[k - 1] \in Seq(S)
    BY <1>1, <1>6
  <2>2. K[k] = Keep(K[k - 1], list[k], W)
    BY <1>3 DEF KeptRun, n
  <2>3. L[k] = Keep(L[k - 1], f[list[k]], V)
    BY <1>2, <1>4 DEF KeptRun
  <2>4. list[k] \in S /\ (list[k] \in W <=> f[list[k]] \in V)
    BY <1>1
  <2>5. Mapped(f, Append(K[k - 1], list[k])) = Append(Mapped(f, K[k - 1]), f[list[k]])
    <3> DEFINE s == K[k - 1]
               x == list[k]
    <3>1. s \in Seq(S) /\ x \in S
      BY <2>1, <2>4
    <3> HIDE DEF s, x
    <3>2. Mapped(f, Append(s, x)) = Append(Mapped(f, s), f[x])
      BY <3>1, MappedAppend
    <3> QED
      BY <3>2 DEF s, x
  <2> QED
    BY <2>1, <2>2, <2>3, <2>4, <2>5 DEF Keep
<1>7. Off = {}
  <2> SUFFICES ASSUME Off # {} PROVE FALSE
    OBVIOUS
  <2>1. Off \in SUBSET Nat
    BY <1>1
  <2> HIDE DEF Off
  <2>2. PICK k \in Off : \A l \in Off : k <= l
    BY <2>1, LeastNatural
  <2>3. k \in 0..n /\ k # 0
    BY <1>5, <2>2 DEF Off
  <2>4. k \in 1..n /\ k - 1 \in Int /\ ~(k <= k - 1)
    BY <1>1, <2>3
  <2> QED
    BY <1>6, <2>2, <2>4
<1>8. n \in 0..n
  BY <1>1
<1>9. L[n] = Mapped(f, K[n]) /\ K[n] \in Seq(S)
  BY <1>7, <1>8
<1>10. K[n] = Kept(list, W) /\ L[n] = Kept(images, V)
  BY <1>2, <1>3, <1>4 DEF KeptRun, n
<1> QED
  BY <1>9, <1>10 DEF images

\* Every delta is between two means of one seed, and no seed with both is left out.
LEMMA Paired == PairedBySeed
<1> SUFFICES ASSUME script = "network", NEW s \in ToSet(Solvers["network"]) \ {"shortest"}
             PROVE  LET known(seed) == HopMean(s, seed).n > 0 /\ HopMean("shortest", seed).n > 0
                        seeds == Kept(Seeds["network"],
                                      {seed \in ToSet(Seeds["network"]) : known(seed)})
                    IN  HopPairs(s) = [i \in DOMAIN seeds |->
                          <<HopMean(s, seeds[i]), HopMean("shortest", seeds[i])>>]
  BY DEF PairedBySeed
<1> DEFINE list == Seeds["network"]
           S == ToSet(list)
           f == [seed \in S |-> <<HopMean(s, seed), HopMean("shortest", seed)>>]
           images == Mapped(f, list)
           W == {seed \in S : HopMean(s, seed).n > 0 /\ HopMean("shortest", seed).n > 0}
           V == {p \in ToSet(images) : p[1].n > 0 /\ p[2].n > 0}
           kept == Kept(list, W)
<1>1. list \in Seq(Int) /\ list \in Seq(S) /\ Len(list) \in Nat /\ DOMAIN list = 1..Len(list)
      /\ \A i \in DOMAIN list : list[i] \in S
  <2>1. list \in Seq(Int)
    BY CampaignAssumption DEF Benchmark
  <2> HIDE DEF list
  <2> QED
    BY <2>1 DEF ToSet
<1> HIDE DEF list
<1>2. Zip(PerSeed(s), PerSeed("shortest")) = images
  <2>1. /\ PerSeed(s) = [i \in 1..Len(list) |-> HopMean(s, list[i])]
        /\ PerSeed("shortest") = [i \in 1..Len(list) |-> HopMean("shortest", list[i])]
    BY <1>1 DEF PerSeed, list
  <2>2. Len(PerSeed(s)) = Len(list) /\ Len(PerSeed("shortest")) = Len(list)
    BY <1>1, <2>1
  <2>3. Zip(PerSeed(s), PerSeed("shortest"))
          = [i \in 1..Len(list) |-> <<PerSeed(s)[i], PerSeed("shortest")[i]>>]
    BY <1>1, <2>2 DEF Zip
  <2>4. \A i \in 1..Len(list) :
           <<PerSeed(s)[i], PerSeed("shortest")[i]>> = f[list[i]]
    BY <1>1, <2>1
  <2> HIDE DEF f
  <2> QED
    BY <2>3, <2>4 DEF Mapped
<1>3. HopPairs(s) = Kept(images, V)
  BY <1>2 DEF HopPairs
<1>4. ASSUME NEW x \in S PROVE x \in W <=> f[x] \in V
  <2>1. f[x] = <<HopMean(s, x), HopMean("shortest", x)>>
    OBVIOUS
  <2>2. f[x] \in ToSet(images)
    <3>1. PICK i \in DOMAIN list : x = list[i]
      BY DEF ToSet
    <3>2. DOMAIN images = 1..Len(list) /\ images[i] = f[x]
      BY <1>1, <3>1 DEF Mapped
    <3> HIDE DEF f, images
    <3> QED
      BY <1>1, <3>1, <3>2 DEF ToSet
  <2>3. f[x][1] = HopMean(s, x) /\ f[x][2] = HopMean("shortest", x)
    BY <2>1
  <2> HIDE DEF f, images
  <2> QED
    BY <2>2, <2>3
<1>6. kept \in Seq(S) /\ Kept(images, V) = Mapped(f, kept)
  <2>1. \A x \in S : x \in W <=> f[x] \in V
    BY <1>4
  <2>2. list \in Seq(S)
    BY <1>1
  <2> HIDE DEF f, W, V, S
  <2>3. Kept(list, W) \in Seq(S) /\ Kept(Mapped(f, list), V) = Mapped(f, Kept(list, W))
    BY <2>1, <2>2, KeptMaps
  <2> QED
    BY <2>3
<1>7. Mapped(f, kept) = [i \in DOMAIN kept |-> <<HopMean(s, kept[i]), HopMean("shortest", kept[i])>>]
  <2>1. kept \in Seq(S)
    BY <1>6
  <2> HIDE DEF kept
  <2>2. DOMAIN kept = 1..Len(kept) /\ \A i \in DOMAIN kept : kept[i] \in S
    BY <2>1
  <2> QED
    BY <2>2 DEF Mapped
<1> QED
  BY <1>3, <1>6, <1>7 DEF list

-----------------------------------------------------------------------------
(* Sums and means.                                                         *)

\* A sum over runs is natural, and nothing sums to nothing.
LEMMA TotalIs ==
  ASSUME NEW S, NEW runs \in Seq(S), NEW field, \A r \in S : r.outcome[field] \in Nat
  PROVE  Total(runs, field) \in Nat /\ (Len(runs) = 0 => Total(runs, field) = 0)
<1> DEFINE n == Len(runs)
           Eq(g) == g = [s \in SUBSET (1..n) |->
                           IF s = {} THEN 0 ELSE g[s \ {Max(s)}] + runs[Max(s)].outcome[field]]
           op == [x \in Nat \X S |-> x[1] + x[2].outcome[field]]
<1>1. n \in Nat /\ DOMAIN runs = 1..n /\ runs \in [1..n -> S]
  OBVIOUS
<1> HIDE DEF n
<1>2. 0 \in Nat
  OBVIOUS
<1>3. op \in [Nat \X S -> Nat]
  OBVIOUS
<1>4. Total(runs, field) = (CHOOSE g : Eq(g))[1..n]
  <2>1. Total(runs, field)
          = (CHOOSE g : g = [s \in SUBSET DOMAIN runs |->
               IF s = {} THEN 0
               ELSE g[s \ {Max(s)}] + runs[Max(s)].outcome[field]])[DOMAIN runs]
    BY DEF Total, FoldLeft, MapThenFoldSet
  <2> QED
    BY <1>1, <2>1
<1>5. ASSUME NEW s \in SUBSET (1..n), s # {}, NEW x \in Nat
      PROVE  op[<<x, runs[Max(s)]>>] = x + runs[Max(s)].outcome[field]
  <2>1. Max(s) \in 1..n
    BY <1>1, <1>5, MaxIsMember
  <2>2. runs[Max(s)] \in S
    BY <1>1, <2>1
  <2> QED
    BY <2>2
<1> HIDE DEF op
<1>6. \E g : Eq(g)
  <2>1. PICK g \in [SUBSET (1..n) -> Nat] : LeftTable(g, op, 0, runs, n)
    BY <1>1, <1>2, <1>3, LeftTableExists
  <2>2. ASSUME NEW s \in SUBSET (1..n)
        PROVE  g[s] = IF s = {} THEN 0 ELSE g[s \ {Max(s)}] + runs[Max(s)].outcome[field]
    <3>1. s # {} => g[s] = op[<<g[s \ {Max(s)}], runs[Max(s)]>>]
      BY <2>1 DEF LeftTable
    <3>2. s = {} => g[s] = 0
      BY <2>1 DEF LeftTable
    <3>3. g[s \ {Max(s)}] \in Nat
      OBVIOUS
    <3> QED
      BY <1>5, <3>1, <3>2, <3>3
  <2>3. g = [s \in SUBSET (1..n) |-> g[s]]
    OBVIOUS
  <2>4. Eq(g)
    BY <2>2, <2>3
  <2> QED
    BY <2>4
<1> DEFINE g == CHOOSE g : Eq(g)
<1>7. Eq(g)
  BY <1>6
<1> HIDE DEF g
<1>8. PICK F \in [0..n -> Nat] : F[n] = g[1..n] /\ LeftRun(F, op, 0, runs, n)
  <2>1. g[{}] = 0
    BY <1>7
  <2>2. ASSUME NEW s \in SUBSET (1..n), s # {}, g[s \ {Max(s)}] \in Nat
        PROVE  g[s] = op[<<g[s \ {Max(s)}], runs[Max(s)]>>]
    <3>1. g[s] = g[s \ {Max(s)}] + runs[Max(s)].outcome[field]
      BY <1>7, <2>2
    <3>2. op[<<g[s \ {Max(s)}], runs[Max(s)]>>] = g[s \ {Max(s)}] + runs[Max(s)].outcome[field]
      BY <1>5, <2>2
    <3> QED
      BY <3>1, <3>2
  <2> HIDE DEF Eq
  <2>3. LeftTableIn(Nat, g, op, 0, runs, n)
    BY <2>1, <2>2 DEF LeftTableIn
  <2> QED
    BY <1>1, <1>2, <1>3, <2>3, LeftFold
<1>9. F[n] = Total(runs, field) /\ F[0] = 0
  BY <1>4, <1>8 DEF LeftRun, g
<1>10. n \in 0..n
  BY <1>1
<1> QED
  BY <1>9, <1>10 DEF n

\* The runs kept of all seeds are runs.
Trimmed(scenario, solver) ==
  FoldLeft(LAMBDA trimmed, seed : trimmed \o LastRuns(scenario, solver, seed),
           <<>>, Seeds[script])

LEMMA TrimmedIs ==
  ASSUME NEW S, NEW scenario, NEW solver, script \in Benchmark,
         \A seed : LastRuns(scenario, solver, seed) \in Seq(S)
  PROVE  Trimmed(scenario, solver) \in Seq(S)
<1> DEFINE seeds == Seeds[script]
           n == Len(seeds)
           last(seed) == LastRuns(scenario, solver, seed)
           D == Seq(S)
           Eq(g) == g = [s \in SUBSET (1..n) |->
                           IF s = {} THEN <<>> ELSE g[s \ {Max(s)}] \o last(seeds[Max(s)])]
           op == [x \in D \X Int |-> x[1] \o last(x[2])]
<1>1. n \in Nat /\ DOMAIN seeds = 1..n /\ seeds \in [1..n -> Int]
  <2>1. seeds \in Seq(Int)
    BY CampaignAssumption
  <2> HIDE DEF seeds
  <2> QED
    BY <2>1
<1>2. Trimmed(scenario, solver) = (CHOOSE g : Eq(g))[1..n]
  <2>1. Trimmed(scenario, solver)
          = (CHOOSE g : g = [s \in SUBSET DOMAIN seeds |->
               IF s = {} THEN <<>> ELSE g[s \ {Max(s)}] \o last(seeds[Max(s)])])[DOMAIN seeds]
    BY DEF Trimmed, FoldLeft, MapThenFoldSet
  <2> QED
    BY <1>1, <2>1
<1>3. \A seed : last(seed) \in D
  OBVIOUS
<1> HIDE DEF n, seeds, last
<1>4. <<>> \in D
  OBVIOUS
<1>5. op \in [D \X Int -> D]
  BY <1>3
<1> HIDE DEF D
<1>6. ASSUME NEW s \in SUBSET (1..n), s # {}, NEW x \in D
      PROVE  op[<<x, seeds[Max(s)]>>] = x \o last(seeds[Max(s)])
  <2>1. Max(s) \in 1..n
    BY <1>1, <1>6, MaxIsMember
  <2>2. seeds[Max(s)] \in Int
    BY <1>1, <2>1
  <2> QED
    BY <2>2
<1> HIDE DEF op
<1>7. \E g : Eq(g)
  <2>1. PICK g \in [SUBSET (1..n) -> D] : LeftTable(g, op, <<>>, seeds, n)
    BY <1>1, <1>4, <1>5, LeftTableExists
  <2>2. \A s \in SUBSET (1..n) : g[s] = IF s = {} THEN <<>>
                                       ELSE g[s \ {Max(s)}] \o last(seeds[Max(s)])
    BY <1>6, <2>1 DEF LeftTable
  <2>3. g = [s \in SUBSET (1..n) |-> g[s]]
    OBVIOUS
  <2>4. Eq(g)
    BY <2>2, <2>3
  <2> QED
    BY <2>4
<1> DEFINE g == CHOOSE g : Eq(g)
<1>8. Eq(g)
  BY <1>7
<1> HIDE DEF g
<1>9. PICK F \in [0..n -> D] : F[n] = g[1..n] /\ LeftRun(F, op, <<>>, seeds, n)
  <2>1. g[{}] = <<>>
    BY <1>8
  <2>2. ASSUME NEW s \in SUBSET (1..n), s # {}, g[s \ {Max(s)}] \in D
        PROVE  g[s] = op[<<g[s \ {Max(s)}], seeds[Max(s)]>>]
    BY <1>6, <1>8, <2>2
  <2> HIDE DEF Eq
  <2>3. LeftTableIn(D, g, op, <<>>, seeds, n)
    BY <2>1, <2>2 DEF LeftTableIn
  <2> QED
    BY <1>1, <1>4, <1>5, <2>3, LeftFold
<1>10. F[n] \in D
  BY <1>1, <1>9
<1> QED
  BY <1>2, <1>9, <1>10 DEF g, D

\* What a mean is made of: natural sums over n runs, none over no run.
IsMean(m) ==
  /\ m.delivery \in Nat /\ m.transit \in Nat /\ m.n \in Nat
  /\ m.n = 0 => m.delivery = 0 /\ m.transit = 0

LEMMA Products ==
  /\ \A x \in Int, y \in Int : x * y \in Int /\ x * y = y * x
  /\ \A x \in Int, y \in Int, z \in Int : (x * y) * z = (x * z) * y
  /\ \A x \in Int : x * 0 = 0 /\ 0 * x = 0
OBVIOUS

LEMMA ScaleUp ==
  ASSUME NEW x \in Int, NEW y \in Int, NEW z \in Nat, x <= y
  PROVE  x * z <= y * z
<1> DEFINE d == y - x
<1>1. d \in Nat /\ y = x + d
  OBVIOUS
<1> HIDE DEF d
<1>2. y * z = x * z + d * z /\ d * z \in Nat /\ x * z \in Int
  BY <1>1
<1> QED
  BY <1>2

LEMMA ScaleStrict ==
  ASSUME NEW x \in Int, NEW y \in Int, NEW z \in Nat, z > 0, x < y
  PROVE  x * z < y * z
<1> DEFINE d == y - x
<1>1. d \in Nat /\ d > 0 /\ y = x + d
  OBVIOUS
<1> HIDE DEF d
<1>2. y * z = x * z + d * z /\ d * z \in Nat /\ x * z \in Int
  BY <1>1
<1>3. d * z >= 1 * z
  BY <1>1, ScaleUp
<1> QED
  BY <1>2, <1>3

\* Fractions p/k, q/l, r/m with positive denominators compare transitively.
LEMMA Fractions ==
  ASSUME NEW p \in Nat, NEW q \in Nat, NEW r \in Nat,
         NEW k \in Nat, NEW l \in Nat, NEW m \in Nat, l > 0, k > 0, m > 0,
         p * l <= q * k, q * m <= r * l
  PROVE  /\ p * m <= r * k
         /\ p * l < q * k \/ q * m < r * l => p * m < r * k
<1> DEFINE pl == p * l
           qk == q * k
           qm == q * m
           rl == r * l
           pm == p * m
           rk == r * k
<1>1. pl \in Nat /\ qk \in Nat /\ qm \in Nat /\ rl \in Nat /\ pm \in Nat /\ rk \in Nat
  OBVIOUS
<1>2. pl * m = pm * l /\ qk * m = qm * k /\ rl * k = rk * l
  BY Products
<1>3. pl <= qk /\ qm <= rl
  OBVIOUS
<1> HIDE DEF pl, qk, qm, rl, pm, rk
<1>4. pl * m <= qk * m /\ qm * k <= rl * k
  BY <1>1, <1>3, ScaleUp
<1>5. /\ pl * m \in Int /\ qk * m \in Int /\ qm * k \in Int /\ rl * k \in Int
      /\ pm * l \in Int /\ rk * l \in Int
  BY <1>1
<1>6. pm * l <= rk * l
  BY <1>2, <1>4, <1>5
<1>7. pm <= rk
  <2> SUFFICES ASSUME rk < pm PROVE FALSE
    BY <1>1
  <2>1. rk * l < pm * l
    BY <1>1, ScaleStrict
  <2> QED
    BY <1>5, <1>6, <2>1
<1>8. ASSUME pl < qk \/ qm < rl PROVE pm < rk
  <2>1. pl * m < qk * m \/ qm * k < rl * k
    BY <1>1, <1>8, ScaleStrict
  <2>2. pm * l < rk * l
    BY <1>2, <1>4, <1>5, <2>1
  <2>3. pm # rk
    BY <1>5, <2>2
  <2> QED
    BY <1>1, <1>7, <2>3
<1> QED
  BY <1>7, <1>8 DEF pl, qk, qm, rl, pm, rk

\* Dominance, cross-multiplied.
LEMMA DominatedIs ==
  ASSUME NEW a, NEW b, IsMean(a), IsMean(b)
  PROVE  DominatedBy(a, b) <=>
           /\ a.delivery * b.n <= b.delivery * a.n /\ b.transit * a.n <= a.transit * b.n
           /\ a.delivery * b.n < b.delivery * a.n \/ b.transit * a.n < a.transit * b.n
<1> DEFINE ad == a.delivery * b.n
           bd == b.delivery * a.n
           at == a.transit * b.n
           bt == b.transit * a.n
<1>1. ad \in Int /\ bd \in Int /\ at \in Int /\ bt \in Int
  BY DEF IsMean
<1>2. DominatedBy(a, b) <=> bd - ad >= 0 /\ at - bt >= 0 /\ (bd - ad > 0 \/ at - bt > 0)
  BY DEF DominatedBy
<1> HIDE DEF ad, bd, at, bt
<1>3. DominatedBy(a, b) <=> ad <= bd /\ bt <= at /\ (ad < bd \/ bt < at)
  BY <1>1, <1>2
<1> QED
  BY <1>3 DEF ad, bd, at, bt

\* Nothing dominates or is dominated that has no runs.
LEMMA DominanceNeedsRuns ==
  ASSUME NEW a, NEW b, IsMean(a), IsMean(b), DominatedBy(a, b)
  PROVE  a.n > 0 /\ b.n > 0
<1>1. a.n \in Nat /\ b.n \in Nat
  BY DEF IsMean
<1>2. CASE a.n = 0
  <2>1. a.delivery = 0 /\ a.transit = 0 /\ b.delivery \in Nat /\ b.transit \in Nat
    BY <1>2 DEF IsMean
  <2>2. /\ a.delivery * b.n = 0 /\ b.delivery * a.n = 0
        /\ b.transit * a.n = 0 /\ a.transit * b.n = 0
    BY <1>1, <1>2, <2>1, Products
  <2>3. FALSE
    BY <2>2, DominatedIs
  <2> QED
    BY <2>3
<1>3. CASE b.n = 0
  <2>1. b.delivery = 0 /\ b.transit = 0 /\ a.delivery \in Nat /\ a.transit \in Nat
    BY <1>3 DEF IsMean
  <2>2. /\ a.delivery * b.n = 0 /\ b.delivery * a.n = 0
        /\ b.transit * a.n = 0 /\ a.transit * b.n = 0
    BY <1>1, <1>3, <2>1, Products
  <2>3. FALSE
    BY <2>2, DominatedIs
  <2> QED
    BY <2>3
<1> QED
  BY <1>1, <1>2, <1>3

LEMMA NotDominatedByItself ==
  ASSUME NEW a, IsMean(a) PROVE ~DominatedBy(a, a)
<1>1. a.delivery * a.n \in Int /\ a.transit * a.n \in Int
  BY DEF IsMean
<1>2. ~(a.delivery * a.n < a.delivery * a.n) /\ ~(a.transit * a.n < a.transit * a.n)
  BY <1>1
<1> QED
  BY <1>2, DominatedIs

LEMMA DominanceTransitive ==
  ASSUME NEW a, NEW b, NEW c, IsMean(a), IsMean(b), IsMean(c),
         DominatedBy(a, b), DominatedBy(b, c)
  PROVE  DominatedBy(a, c)
<1>1. a.n > 0 /\ b.n > 0 /\ c.n > 0
  BY DominanceNeedsRuns
<1>2. /\ a.n \in Nat /\ b.n \in Nat /\ c.n \in Nat
      /\ a.delivery \in Nat /\ b.delivery \in Nat /\ c.delivery \in Nat
      /\ a.transit \in Nat /\ b.transit \in Nat /\ c.transit \in Nat
  BY DEF IsMean
<1>3. /\ a.delivery * b.n <= b.delivery * a.n /\ b.transit * a.n <= a.transit * b.n
      /\ a.delivery * b.n < b.delivery * a.n \/ b.transit * a.n < a.transit * b.n
  BY DominatedIs
<1>4. /\ b.delivery * c.n <= c.delivery * b.n /\ c.transit * b.n <= b.transit * c.n
      /\ b.delivery * c.n < c.delivery * b.n \/ c.transit * b.n < b.transit * c.n
  BY DominatedIs
<1>5. /\ a.delivery * c.n <= c.delivery * a.n
      /\ a.delivery * b.n < b.delivery * a.n \/ b.delivery * c.n < c.delivery * b.n
           => a.delivery * c.n < c.delivery * a.n
  BY <1>1, <1>2, <1>3, <1>4, Fractions
<1>6. /\ c.transit * a.n <= a.transit * c.n
      /\ c.transit * b.n < b.transit * c.n \/ b.transit * a.n < a.transit * b.n
           => c.transit * a.n < a.transit * c.n
  BY <1>1, <1>2, <1>3, <1>4, Fractions
<1>7. /\ a.delivery * c.n <= c.delivery * a.n /\ c.transit * a.n <= a.transit * c.n
      /\ a.delivery * c.n < c.delivery * a.n \/ c.transit * a.n < a.transit * c.n
  BY <1>3, <1>4, <1>5, <1>6, Zenon
<1>8. DominatedBy(a, c) <=>
        /\ a.delivery * c.n <= c.delivery * a.n /\ c.transit * a.n <= a.transit * c.n
        /\ a.delivery * c.n < c.delivery * a.n \/ c.transit * a.n < a.transit * c.n
  BY DominatedIs
<1> QED
  BY <1>7, <1>8, Zenon

\* Who is not on the frontier of finitely many is dominated by one who is.
LEMMA FrontierCovers ==
  ASSUME NEW D, IsFiniteSet(D), NEW mean, \A s \in D : IsMean(mean[s]),
         NEW s \in D \ Frontier(mean, D)
  PROVE  \E t \in Frontier(mean, D) : DominatedBy(mean[s], mean[t])
<1> DEFINE Above(t) == {u \in D : DominatedBy(mean[t], mean[u])}
           W == {Above(t) : t \in Above(s)}
<1>1. Above(s) # {}
  BY DEF Frontier
<1>2. W \in SUBSET SUBSET D /\ W # {}
  <2>1. \A t \in D : Above(t) \in SUBSET D
    OBVIOUS
  <2>2. Above(s) \subseteq D
    OBVIOUS
  <2> HIDE DEF Above
  <2> QED
    BY <1>1, <2>1, <2>2
<1> HIDE DEF W
<1>3. PICK least \in W : \A U \in W : U \subseteq least => U = least
  BY <1>2, SmallestSet
<1>4. PICK t \in Above(s) : least = Above(t)
  BY <1>3 DEF W
<1>5. ASSUME NEW u \in Above(t) PROVE FALSE
  <2>1. t \in D /\ u \in D /\ DominatedBy(mean[s], mean[t]) /\ DominatedBy(mean[t], mean[u])
    BY <1>4, <1>5
  <2>2. DominatedBy(mean[s], mean[u])
    BY <2>1, DominanceTransitive
  <2>3. ASSUME NEW v \in Above(u) PROVE v \in Above(t)
    <3>1. v \in D /\ DominatedBy(mean[u], mean[v])
      BY <2>3
    <3>2. DominatedBy(mean[t], mean[v])
      BY <2>1, <3>1, DominanceTransitive
    <3> QED
      BY <3>1, <3>2
  <2>4. Above(u) \subseteq Above(t)
    BY <2>3
  <2>5. Above(u) \in W
    BY <2>1, <2>2 DEF W
  <2>6. u \notin Above(u)
    BY <2>1, NotDominatedByItself
  <2> HIDE DEF Above
  <2> QED
    BY <1>3, <1>4, <1>5, <2>4, <2>5, <2>6
<1>6. t \in D /\ DominatedBy(mean[s], mean[t])
  BY <1>4
<1>7. t \in Frontier(mean, D)
  BY <1>5, <1>6 DEF Frontier
<1> QED
  BY <1>6, <1>7
-----------------------------------------------------------------------------
(* The theorem about the reports.                                          *)

\* The runs of a benchmark so far.
RunsInv ==
  /\ results \in Seq(ToSet(results))
  /\ \A r \in ToSet(results) : r.outcome \in Outcome

LEMMA RunsGrow ==
  ASSUME RunsInv, NEW r, r.outcome \in Outcome, results' = Append(results, r)
  PROVE  RunsInv'
<1> DEFINE S == ToSet(results) \cup {r}
<1>1. results \in Seq(S) /\ results' \in Seq(S)
  BY DEF RunsInv
<1>2. DOMAIN results' = DOMAIN results \cup {Len(results) + 1} /\ results'[Len(results) + 1] = r
      /\ \A i \in DOMAIN results : results'[i] = results[i]
  BY <1>1
<1>3. ToSet(results') = S
  BY <1>2 DEF ToSet
<1> QED
  BY <1>1, <1>3 DEF RunsInv

LEMMA StepRuns ==
  ASSUME RunsInv, [Next]_vars PROVE RunsInv'
<1>1. CASE Launch \/ Kill
  <2>1. results' = <<>>
    BY <1>1 DEF Launch, Kill, Forgotten
  <2> QED
    BY <2>1 DEF RunsInv, ToSet
<1>2. ASSUME NEW t \in DOMAIN jobs, EndRun(t) PROVE RunsInv'
  <2>1. CASE script \in Benchmark
    <3>1. PICK o \in Outcome :
            results' = Append(results, [scenario |-> CellOf(t).scenario,
                          solver |-> CellOf(t).solver, seed |-> CellOf(t).seed,
                          run |-> jobs[t].run, outcome |-> o])
      BY <1>2, <2>1 DEF EndRun
    <3> QED
      BY <3>1, RunsGrow
  <2>2. CASE UNCHANGED results
    BY <2>2 DEF RunsInv
  <2> QED
    BY <1>2, <2>1, <2>2 DEF EndRun
<1>3. CASE UNCHANGED results
  BY <1>3 DEF RunsInv
<1> QED
  BY <1>1, <1>2, <1>3
  DEF Next, vars, memory, StartTask, EndStage, Finish, Rest, BeginRun, Write, Collect

\* The runs of a cell that are kept are runs of it.
LEMMA LastRunsAre ==
  ASSUME RunsInv, NEW scenario, NEW solver, NEW seed
  PROVE  LastRuns(scenario, solver, seed) \in Seq(ToSet(results))
<1> DEFINE S == ToSet(results)
           W == {r \in S : r.scenario = scenario /\ r.solver = solver /\ r.seed = seed}
           mine == Kept(results, W)
<1>1. results \in Seq(S)
  BY DEF RunsInv
<1> HIDE DEF S, W
<1>2. mine \in Seq(S)
  <2> DEFINE f == [x \in S |-> IF x \in W THEN 1 ELSE 0]
             V == {1}
  <2>1. \A x \in S : x \in W <=> f[x] \in V
    OBVIOUS
  <2> HIDE DEF f, V
  <2> QED
    BY <1>1, <2>1, KeptMaps
<1> HIDE DEF mine
<1>3. LastRuns(scenario, solver, seed) = mine
        \/ /\ Len(mine) > TailRuns
           /\ LastRuns(scenario, solver, seed)
                = SubSeq(mine, Len(mine) - TailRuns + 1, Len(mine))
  <2>1. Len(mine) \in Nat /\ TailRuns \in Int
    BY <1>2, CampaignAssumption
  <2>2. LastRuns(scenario, solver, seed)
          = IF (script # "network" /\ solver \notin Learner) \/ Len(mine) <= TailRuns THEN mine
            ELSE SubSeq(mine, Len(mine) - TailRuns + 1, Len(mine))
    BY Zenon DEF LastRuns, mine, W, S
  <2> QED
    BY <2>1, <2>2
<1>4. ASSUME Len(mine) > TailRuns
      PROVE  SubSeq(mine, Len(mine) - TailRuns + 1, Len(mine)) \in Seq(S)
  <2>1. TailRuns \in Nat /\ TailRuns > 0 /\ Len(mine) \in Nat
    BY <1>2, CampaignAssumption
  <2> DEFINE m == Len(mine) - TailRuns + 1
  <2>2. m \in Nat /\ m > 0
    BY <1>4, <2>1
  <2> HIDE DEF m
  <2>3. SubSeq(mine, m, Len(mine)) \in Seq(S)
    BY <1>2, <2>1, <2>2
  <2> QED
    BY <2>3 DEF m
<1> QED
  BY <1>2, <1>3, <1>4 DEF S

LEMMA MeanIs ==
  ASSUME RunsInv, script \in Benchmark, NEW scenario, NEW solver
  PROVE  IsMean(Mean(scenario, solver))
<1> DEFINE S == ToSet(results)
           runs == Trimmed(scenario, solver)
<1>1. \A seed : LastRuns(scenario, solver, seed) \in Seq(S)
  BY LastRunsAre
<1>2. \A r \in S : r.outcome["delivery"] \in Nat /\ r.outcome["transit"] \in Nat
  BY CampaignAssumption DEF RunsInv
<1> HIDE DEF S
<1>3. runs \in Seq(S)
  BY <1>1, TrimmedIs
<1>4. Mean(scenario, solver) = [delivery |-> Total(runs, "delivery"),
                                transit |-> Total(runs, "transit"), n |-> Len(runs)]
  BY DEF Mean, Trimmed
<1> HIDE DEF runs
<1>5. /\ Total(runs, "delivery") \in Nat /\ (Len(runs) = 0 => Total(runs, "delivery") = 0)
      /\ Total(runs, "transit") \in Nat /\ (Len(runs) = 0 => Total(runs, "transit") = 0)
  BY <1>2, <1>3, TotalIs
<1>6. Len(runs) \in Nat
  BY <1>3
<1> QED
  BY <1>4, <1>5, <1>6 DEF IsMean

LEMMA Covered ==
  ASSUME RunsInv PROVE ParetoCovers
<1> SUFFICES ASSUME script \in {"sim", "daemon"}, NEW sc \in DOMAIN Scenarios
             PROVE  LET mean == [s \in ToSet(Solvers[script]) |-> Mean(sc, s)]
                    IN  \A s \in DOMAIN mean \ ParetoSolvers(sc) :
                          \E t \in ParetoSolvers(sc) : DominatedBy(mean[s], mean[t])
  BY DEF ParetoCovers
<1> DEFINE D == ToSet(Solvers[script])
           mean == [s \in D |-> Mean(sc, s)]
<1>1. IsFiniteSet(D)
  <2> DEFINE list == Solvers[script]
             n == Len(list)
  <2>1. list \in Seq(STRING)
    BY CampaignAssumption DEF Benchmark
  <2> HIDE DEF list
  <2>2. n \in Nat /\ DOMAIN list = 1..n
    BY <2>1
  <2> HIDE DEF n
  <2>3. D = {list[i] : i \in 1..n}
    BY <2>2 DEF ToSet, list
  <2>4. IsFiniteSet(1..n)
    BY <2>2, FS_Interval
  <2>5. list \in [1..n -> D] /\ \A d \in D : \E i \in 1..n : list[i] = d
    BY <2>1, <2>2, <2>3
  <2> HIDE DEF D
  <2>6. list \in Surjection(1..n, D)
    BY <2>5 DEF Surjection
  <2> QED
    BY <2>4, <2>6, FS_Surjection
<1>2. \A s \in D : IsMean(mean[s])
  BY MeanIs DEF Benchmark
<1>3. ParetoSolvers(sc) = Frontier(mean, D)
  BY DEF ParetoSolvers
<1>4. \A s \in D \ Frontier(mean, D) : \E t \in Frontier(mean, D) : DominatedBy(mean[s], mean[t])
  <2> HIDE DEF D, mean
  <2> QED
    BY <1>1, <1>2, FrontierCovers
<1> QED
  BY <1>3, <1>4

\* Whatever the solvers, the seeds and what the runs measure, the network report pairs the
\* means of the same seeds, and every solver the adversarial report leaves out of its Pareto
\* frontier is dominated by one that is on it (real_network_benchmark.py 240-247,
\* adversarial_benchmark.py 688-700).
THEOREM ReportsHoldTheorem == Spec => []ReportsHold
<1>1. Init => RunsInv
  BY DEF Init, RunsInv, ToSet
<1>2. RunsInv /\ [Next]_vars => RunsInv'
  BY StepRuns
<1>3. RunsInv => ReportsHold
  BY Paired, Covered DEF ReportsHold
<1> QED
  BY <1>1, <1>2, <1>3, PTL DEF Spec
=============================================================================
