---------------------------- MODULE EdgeLearning -----------------------------
(***************************************************************************)
(* The learning router EdgeLearningSolver (solvers.py) with the classes it *)
(* extends: reputations of peers and of directed edges, the risk budget,   *)
(* trusted paths, and the state file that carries all of it from one run   *)
(* to the next.                                                            *)
(*                                                                         *)
(* One solver serves every node in the simulator and one node in the       *)
(* daemon.  Counters are in hundredths, so that ageing them twice by 0.9   *)
(* is exact; risks are in thousandths, rounded down; thresholds are        *)
(* compared by cross multiplication.                                       *)
(***************************************************************************)
EXTENDS P2PGraph, Integers, Sequences, Functions

CONSTANTS
  Shared,       \* the owner of the one solver of a simulation
  Owners,       \* whose solver is it: Shared, or the node of a daemon
  Packets,      \* what a solver is asked about
  WindowSize,   \* outcomes the risk budget looks back on
  InitialBudget, MaxBudget,
  Traffic,      \* the links that packets take
  Outages,      \* the sets of nodes that may be offline together
  MaxCalls,     \* bound on the calls to the solvers of each owner, loads included
  MaxRestarts   \* bound on the runs after the first

Min2(a, b) == IF a <= b THEN a ELSE b

Unit == 100                  \* one observation
Scale == 1000                \* a risk of 1.0
AdaptStep == 60              \* adapt_step
Prior == 8 * Unit            \* BADNESS_CONFIDENCE_PRIOR
NodeRiskThreshold == 500     \* NODE_RISK_THRESHOLD

Edge == {e \in Node \X Node : e[2] \in Adj[e[1]]}
EventCounter == {"delivered", "drops", "link_loss", "loop", "ttl_expired"}
Counter == EventCounter \cup {"confirmed"}
Zero == [c \in Counter |-> 0]

\* What the callers of observe_result report; node_down never comes about, since
\* no solver picks a node that is offline.
SimOutcome == {"delivered", "link_loss", "loop", "ttl_expired", "no_route"}
NodeOutcome == {"delivered", "confirmed", "link_loss"}
Success == {"delivered", "confirmed"}

ASSUME EdgeLearningAssumption ==
  /\ Routing = "scored"
  /\ Shared \notin Node /\ Owners \subseteq Node \cup {Shared}
  /\ Packets \subseteq [node : Node, dst : Node, visited : SUBSET Node, ttl : Nat]
  /\ \A p \in Packets : p.node # p.dst /\ p.node \in p.visited /\ p.dst \notin p.visited
  /\ WindowSize \in Nat \ {0}
  /\ InitialBudget \in Nat /\ MaxBudget \in Nat /\ InitialBudget <= MaxBudget
  /\ MaxCalls \in [Owners -> Nat] /\ MaxRestarts \in Nat
  /\ Traffic \subseteq Edge /\ Outages \subseteq SUBSET Node

VARIABLES
  owner,      \* the node whose solver it is, or Shared
  process,    \* "running", "saving", "stopped", or "failed": load raised
  edges,      \* edge_scores, Zero for an absent key; empty while there is no process
  known,      \* the keys of edge_scores
  peers,      \* peer_scores, Zero for an absent key
  risk,       \* peer_risk
  budget,     \* risk_budget
  recent,     \* _recent_drops
  file,       \* the state file: "absent", "torn" or "whole"
  saved,      \* what the last complete save wrote, an empty memory before it
  results,    \* history: was it a drop, for all outcomes told to this process
  calls, restarts

memory == <<edges, known, peers, risk, budget, recent>>
vars == <<offline, owner, process, memory, file, saved, results, calls, restarts>>

-----------------------------------------------------------------------------
(* Scores *)

\* The counters an outcome adds to; the daemon calls a confirmed hop delivered too.
Counted(outcome) ==
  CASE outcome = "delivered" -> {"delivered"}
    [] outcome = "confirmed" -> {"delivered", "confirmed"}
    [] outcome = "no_route" -> {"drops"}
    [] OTHER -> {"drops", outcome}

CountedByReason(outcome) == {outcome} \ {"no_route", "confirmed"}    \* mutant: reason only
CountedForPeer(outcome) == Counted(outcome) \ {"confirmed"}

\* The score s once the counters in cs went up by one.
Bump(s, cs) == [c \in Counter |-> IF c \in cs THEN s[c] + Unit ELSE s[c]]

\* badness, as weighted evidence over its total with the prior.
Weighted(s) ==
  100 * s["drops"] + 35 * s["link_loss"] + 50 * s["loop"] + 25 * s["ttl_expired"]
Total(s) == s["delivered"] + s["drops"] + Prior
Badness(s) ==
  IF Weighted(s) >= 100 * Total(s) THEN Scale
  ELSE (10 * Weighted(s)) \div Total(s)

\* badness > EDGE_BADNESS_THRESHOLD; receipt_success_rate < RECEIPT_SUCCESS_THRESHOLD.
Bad(s) == 2 * Weighted(s) > 100 * Total(s)
Unproven(s) == s["confirmed"] < s["drops"]

\* decay(state_decay): every counter is multiplied by 0.9.
AgedButDrops(s) ==                                        \* mutant: a forgotten field
  [c \in Counter |-> IF c = "drops" THEN s[c] ELSE (9 * s[c]) \div 10]
Aged(s) == [c \in Counter |-> (9 * s[c]) \div 10]

-----------------------------------------------------------------------------
(* Trusted paths: find_trusted_path *)

Owned(e) == owner \in {Shared, e[1]}

RelayIgnoringVisits(n, p) == n \notin offline /\ risk[n] <= NodeRiskThreshold  \* mutant
Relay(n, p) ==
  /\ n \notin p.visited /\ n \notin offline
  /\ risk[n] <= NodeRiskThreshold

TrustedFirst(es) == \E e \in es : e \in known /\ ~Unproven(edges[e]) /\ ~Bad(edges[e]) \* mutant
Trusted(es) == \A e \in es : e \in known /\ ~Unproven(edges[e]) /\ ~Bad(edges[e])

TwoHopPaths(p) ==
  {<<p.node, n, p.dst>> : n \in {m \in Adj[p.node] :
     /\ Relay(m, p) /\ p.dst \in Adj[m]
     /\ Trusted({<<p.node, m>>, <<m, p.dst>>})}}

ThreeHopPaths(p) ==
  {<<p.node, ns[1], ns[2], p.dst>> : ns \in {ms \in Adj[p.node] \X Node :
     /\ Relay(ms[1], p)
     /\ ms[2] \in Adj[ms[1]] \ {p.node}
     /\ Relay(ms[2], p) /\ p.dst \in Adj[ms[2]]
     /\ Trusted({<<p.node, ms[1]>>, ms, <<ms[2], p.dst>>})}}

Plannable(p) == p.ttl >= 2 /\ p.dst \notin offline

\* The paths find_trusted_path may return: {} is None.
TrustedPaths(p) ==
  CASE ~Plannable(p) -> {}
    [] Plannable(p) /\ p.dst \in Adj[p.node] -> {<<p.node, p.dst>>}
    [] OTHER -> IF TwoHopPaths(p) # {} THEN TwoHopPaths(p) ELSE ThreeHopPaths(p)

\* Scored routing: a neighbour that is neither viable under the risk budget nor
\* the destination is left out, unless nothing else is left.
ScoredCandidates(p) ==
  {c \in SUBSET NextHops(p.node, p.dst, p.visited) :
     /\ c # {}
     /\ p.dst \in NextHops(p.node, p.dst, p.visited) => p.dst \in c}

\* next_hop.
Hops(p) == IF TrustedPaths(p) # {} THEN {path[2] : path \in TrustedPaths(p)}
           ELSE UNION ScoredCandidates(p)

-----------------------------------------------------------------------------
(* observe_result *)

Within01(r) == IF r < 0 THEN 0 ELSE IF r > Scale THEN Scale ELSE r

\* RiskAwareHybridSolver: decay what was known of the peer, add the new signal.
SignalMildLoss(outcome) ==                                \* mutant: loss taken for churn
  IF outcome \in Success THEN -150 ELSE IF outcome = "link_loss" THEN 150 ELSE Scale
Signal(outcome) == IF outcome \in Success THEN -150 ELSE Scale
Unclamped(old, outcome) == (92 * old) \div 100 + Signal(outcome)   \* mutant: no clamp
Recent(old, outcome) == Within01((92 * old) \div 100 + Signal(outcome))

\* PersistentLearningSolver: blend it with the durable evidence.
Blend(recentRisk, s) == (recentRisk + Badness(s)) \div 2

\* AdaptiveRiskSolver: a bounded window of outcomes, and the budget it relaxes.
Slide(window, dropped) ==
  LET longer == Append(window, dropped)
  IN IF Len(longer) > WindowSize THEN Tail(longer) ELSE longer
WindowStarted(window) == window # <<>>                    \* mutant: judged too early
WindowFull(window) == Len(window) >= WindowSize
Drops(window) == Cardinality({i \in DOMAIN window : window[i]})
Relaxed(window) ==
  IF WindowFull(window) /\ 20 * Drops(window) > 7 * WindowSize
  THEN Min2(MaxBudget, budget + AdaptStep) ELSE budget

Observe(e, outcome) ==
  /\ process = "running" /\ calls < MaxCalls[owner]
  /\ Owned(e)
  /\ outcome \in (IF owner = Shared THEN SimOutcome ELSE NodeOutcome)
  /\ LET dropped == outcome \notin Success
         score == Bump(peers[e[2]], CountedForPeer(outcome))
     IN /\ recent' = Slide(recent, dropped)
        /\ budget' = Relaxed(recent')
        /\ peers' = [peers EXCEPT ![e[2]] = score]
        /\ risk' = [risk EXCEPT ![e[2]] = Blend(Recent(@, outcome), score)]
        /\ edges' = [edges EXCEPT ![e] = Bump(@, Counted(outcome))]
        /\ known' = known \cup {e}
        /\ results' = Append(results, dropped)
  /\ calls' = calls + 1
  /\ UNCHANGED <<offline, owner, process, file, saved, restarts>>

\* next_hop on a packet that no trusted path takes: scoring a candidate reads
\* edge_scores, a defaultdict, and so makes the edge a known one.
Score(p) ==
  /\ process = "running" /\ calls < MaxCalls[owner]
  /\ owner \in {Shared, p.node}
  /\ TrustedPaths(p) = {}
  /\ \E candidates \in ScoredCandidates(p) :
       known' = known \cup {<<p.node, n>> : n \in candidates}
  /\ calls' = calls + 1
  /\ UNCHANGED <<offline, owner, process, edges, peers, risk, budget, recent, file,
                 saved, results, restarts>>

-----------------------------------------------------------------------------
(* Runs *)

Empty == [edges |-> [e \in Edge |-> Zero], known |-> {}, peers |-> [n \in Node |-> Zero],
          budget |-> InitialBudget]

\* The solver's memory is as the constructor makes it from contents.
Loaded(contents) ==
  /\ edges' = [e \in Edge |-> Aged(contents.edges[e])]
  /\ known' = contents.known
  /\ peers' = [n \in Node |-> Aged(contents.peers[n])]
  /\ risk' = [n \in Node |-> Badness(peers'[n])]
  /\ budget' = contents.budget
  /\ recent' = <<>> /\ results' = <<>>

\* The process is over, and its memory gone.
Gone == process' = "stopped" /\ Loaded(Empty)

\* save: write_text truncates the file before it writes the new contents.
BeginSave ==
  /\ process = "running"
  /\ process' = "saving" /\ file' = "torn"
  /\ UNCHANGED <<offline, owner, memory, saved, results, calls, restarts>>

EndSave ==
  /\ process = "saving"
  /\ file' = "whole"
  /\ saved' = [edges |-> edges, known |-> known, peers |-> peers, budget |-> budget]
  /\ Gone
  /\ UNCHANGED <<offline, owner, calls, restarts>>

\* The process dies: nothing is saved, or half of it.
Crash ==
  /\ process \in {"running", "saving"}
  /\ Gone
  /\ UNCHANGED <<offline, owner, file, saved, calls, restarts>>

\* A run starts with a new solver, whose constructor loads the file if there is one.
Start ==
  /\ process = "stopped" /\ file # "torn"
  /\ restarts < MaxRestarts /\ calls < MaxCalls[owner]
  /\ process' = "running"
  /\ Loaded(saved)
  /\ restarts' = restarts + 1 /\ calls' = calls + 1
  /\ UNCHANGED <<offline, owner, file, saved>>

\* json.loads raises on half a file, and nothing catches it.
FailToStart ==
  /\ process = "stopped" /\ file = "torn"
  /\ process' = "failed"
  /\ UNCHANGED <<offline, owner, memory, file, saved, results, calls, restarts>>

\* Nodes leave and return while the solver is in use.
Churn ==
  /\ process = "running"
  /\ offline' \in Outages \ {offline}
  /\ UNCHANGED <<owner, process, memory, file, saved, results, calls, restarts>>

Stopped ==
  /\ \/ process = "failed"
     \/ process = "stopped" /\ (restarts = MaxRestarts \/ calls = MaxCalls[owner])
  /\ UNCHANGED vars

Init ==
  /\ offline = {} /\ owner \in Owners
  /\ process = "running"
  /\ edges = Empty.edges /\ known = Empty.known /\ peers = Empty.peers
  /\ risk = [n \in Node |-> 0]
  /\ budget = InitialBudget /\ recent = <<>>
  /\ file = "absent" /\ saved = Empty
  /\ results = <<>> /\ calls = 0 /\ restarts = 0

Next ==
  \/ \E e \in Traffic, outcome \in SimOutcome \cup NodeOutcome : Observe(e, outcome)
  \/ \E p \in Packets : Score(p)
  \/ BeginSave \/ EndSave \/ Crash \/ Start \/ FailToStart \/ Churn
  \/ Stopped

Spec == Init /\ [][Next]_vars

-----------------------------------------------------------------------------
(* Properties *)

ScoreType == [Counter -> Nat]

\* Risks stay between 0 and 1, counters never fall below zero, and only known
\* edges carry evidence (solvers.py 316, 412, 424-495, 553-733).
TypeOK ==
  /\ offline \in SUBSET Node /\ owner \in Owners
  /\ process \in {"running", "saving", "stopped", "failed"}
  /\ file \in {"absent", "torn", "whole"}
  /\ edges \in [Edge -> ScoreType] /\ known \in SUBSET Edge
  /\ \A e \in Edge \ known : edges[e] = Zero
  /\ peers \in [Node -> ScoreType]
  /\ risk \in [Node -> 0..Scale]
  /\ budget \in Nat
  /\ recent \in Seq(BOOLEAN) /\ results \in Seq(BOOLEAN)
  /\ saved \in [edges : [Edge -> ScoreType], known : SUBSET Edge,
                peers : [Node -> ScoreType], budget : Nat]
  /\ \A e \in Edge \ saved.known : saved.edges[e] = Zero
  /\ calls \in Nat /\ restarts \in Nat

\* A trusted path is a simple path of links from the packet to its destination
\* over nodes that are online and, but for the first, unvisited, even though only
\* one pair of its nodes is compared (find_trusted_path, solvers.py 594-646).
TrustedPathShape ==
  \A p \in Packets : \A path \in TrustedPaths(p) :
    /\ Len(path) \in 2..4 /\ path[1] = p.node /\ path[Len(path)] = p.dst
    /\ \A i \in 1..(Len(path) - 1) : path[i + 1] \in Adj[path[i]]
    /\ \A i \in 2..Len(path) : path[i] \notin offline \cup p.visited
    /\ \A i, j \in DOMAIN path : i # j => path[i] # path[j]

\* Trusted paths never take a packet where the scored solvers it extends would not
\* have: online, and unvisited when there is such a neighbour.  The daemon and the
\* simulator models rest on this (solvers.py 591-592, 656-670).
HopsWithinScored ==
  \A p \in Packets : Hops(p) \subseteq NextHops(p.node, p.dst, p.visited)

\* What is held against a peer is the sum of what is held against the links to it,
\* through ageing, restarts and crashes (solvers.py 475-486, 720-731, 444-453).
PeersSumEdges ==
  \A n \in Node, c \in EventCounter :
    peers[n][c] = SumFunction([m \in {k \in Node : n \in Adj[k]} |-> edges[<<m, n>>][c]])

\* The solver of one daemon node knows no link but its own, so that the trusted
\* paths it finds are links to the destination (daemon.py 505, solvers.py 575-646).
OwnedPlansDirect ==
  owner \in Node => \A p \in {q \in Packets : q.node = owner} :
    \A path \in TrustedPaths(p) : Len(path) = 2

\* A restart resumes the last complete save, and ageing changes no verdict: links
\* stay known, proven ones stay proven and others do not become so, and no link
\* looks worse than when it was saved (solvers.py 414-421, 539-547, 672-686).
RestartResumes ==
  [][process = "stopped" /\ process' = "running" =>
       /\ known' = saved.known /\ budget' = saved.budget
       /\ \A e \in Edge :
            /\ Unproven(edges'[e]) <=> Unproven(saved.edges[e])
            /\ Badness(edges'[e]) <= Badness(saved.edges[e])]_vars

\* A delivery never makes a peer look riskier and a drop never less risky, however
\* the fast and the durable evidence disagree when they are blended; nobody else's
\* risk moves (solvers.py 303-317, 487-491).
RiskFollowsEvidence ==
  [][process = "running" /\ process' = "running" =>
       \A n \in Node :
         /\ peers'[n].delivered > peers[n].delivered => risk'[n] <= risk[n]
         /\ peers'[n].drops > peers[n].drops => risk'[n] >= risk[n]
         /\ peers'[n] = peers[n] => risk'[n] = risk[n]]_vars

\* The budget is relaxed only when more than 35 percent of the last WindowSize
\* outcomes of this run were drops, and never tightened
\* while it lasts (AdaptiveRiskSolver.observe_result, solvers.py 368-374).
LastResults(rs) == {i \in DOMAIN rs : i > Len(rs) - WindowSize}
BudgetFollowsWindow ==
  [][process = "running" /\ process' = "running" /\ budget' # budget =>
       /\ budget < budget' /\ budget' <= MaxBudget
       /\ Len(results') >= WindowSize
       /\ 100 * Cardinality({i \in LastResults(results') : results'[i]})
            > 35 * WindowSize]_vars

\* "A handful of unlucky stochastic link losses cannot blacklist a peer"
\* (solvers.py 377-379): a peer that is blamed for no more than that stays below
\* the threshold over which trusted paths avoid it.
Handful == 3
HandfulBlacklistsNobody ==
  \A n \in Node :
    peers[n].drops = peers[n].link_loss /\ peers[n].drops <= Handful * Unit
      => risk[n] <= NodeRiskThreshold
=============================================================================
