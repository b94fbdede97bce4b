----------------------------- MODULE PathSearch ------------------------------
(***************************************************************************)
(* The loops of aegis_router/graph.py: the heap searches                   *)
(* shortest_path_next_hop and quality_path_next_hop, and the breadth-first *)
(* searches of compute_landmarks.                                          *)
(*                                                                         *)
(* A behaviour is one call.  An action is one iteration of its loop, so    *)
(* that what holds between iterations can be stated.  The two heap         *)
(* searches differ only in the length of a link: 1, or its clipped cost.   *)
(*                                                                         *)
(* Abstracted: costs are integers; equal heap entries are one entry (the   *)
(* second one finds its node seen).                                        *)
(***************************************************************************)
EXTENDS P2PGraph, Integers, Sequences, FiniteSetsExt, SequencesExt

CONSTANTS
  Cost,           \* the values LinkMetrics.cost may have, below zero too
  LandmarkCount,  \* landmarks asked for
  MaxOffline,     \* bound: nodes offline at once
  MaxWalk         \* bound: links of the walks a result is compared with

ASSUME SearchAssumption ==
  /\ Cost \subseteq Int
  /\ LandmarkCount \in Nat \ {0} /\ MaxOffline \in Nat /\ MaxWalk \in Nat

\* add_edge enters a link on both sides (line 46).
ASSUME LinksAssumption == \A a \in Node : \A b \in Adj[a] : a \in Adj[b]

VARIABLES
  task,           \* the call: "hops", "quality" or "landmarks"
  src, dst,       \* arguments of a heap search, or of landmark_distance
  linkCost,       \* graph.metrics(a, b).cost() of every link
  queue,          \* the heap: [cost, node, first], first is {} for None
  seen,           \* nodes popped
  answer,         \* what the search returned, {} for None
  done,           \* the call has returned
  landmarks,      \* the sampled landmarks
  frontier,       \* queue of the breadth-first search under way
  dists,          \* one map of hop counts for each search started
  settled         \* history: the cost at which each node was popped

graphArgs == <<task, src, dst, linkCost, offline, landmarks>>
heapVars == <<queue, seen, answer, settled>>
bfsVars == <<frontier, dists>>
vars == <<graphArgs, heapVars, bfsVars, done>>

Link == {{h[1], h[2]} : h \in {g \in Node \X Node : g[2] \in Adj[g[1]]}}

-----------------------------------------------------------------------------
(* The heap searches *)

Unclipped(c) == c                                         \* mutant: no lower bound
Clipped(c) == IF c < 1 THEN 1 ELSE c

Length(a, b) == IF task = "quality" THEN Clipped(linkCost[{a, b}]) ELSE 1

Entry == [cost : Nat, node : Node, first : SUBSET Node]

\* heapq orders by (cost, node, first); None never meets a node there, because only
\* the entry of src has it.
Precedes(e, f) ==
  \/ e.cost < f.cost
  \/ e.cost = f.cost /\ e.node < f.node
  \/ e.cost = f.cost /\ e.node = f.node /\ \A x \in e.first, y \in f.first : x <= y

LastHop(first, nb) == {nb}                                \* mutant: the last hop is kept
FirstHop(first, nb) == IF first = {} THEN {nb} ELSE first

Open(n) == {nb \in Adj[n] : nb \notin seen' /\ nb \notin offline}

Relax(e) ==
  {[cost |-> e.cost + Length(e.node, nb), node |-> nb, first |-> FirstHop(e.first, nb)] :
     nb \in Open(e.node)}

Return(value) == answer' = value /\ done' = TRUE

\* src = dst: no search.
ReturnSelf ==
  /\ task # "landmarks" /\ ~done /\ src = dst
  /\ Return({dst})
  /\ UNCHANGED <<graphArgs, queue, seen, settled, bfsVars>>

Pop ==
  /\ task # "landmarks" /\ ~done /\ src # dst
  /\ \E e \in queue :
     /\ \A f \in queue : Precedes(e, f)
     /\ \/ /\ e.node \in seen
           /\ queue' = queue \ {e}
           /\ UNCHANGED <<seen, settled, answer, done>>
        \/ /\ e.node \notin seen
           /\ seen' = seen \cup {e.node}
           /\ settled' = [settled EXCEPT ![e.node] = e.cost]
           /\ \/ e.node = dst /\ queue' = queue \ {e} /\ Return(e.first)
              \/ /\ e.node # dst
                 /\ queue' = (queue \ {e}) \cup Relax(e)
                 /\ UNCHANGED <<answer, done>>
  /\ UNCHANGED <<graphArgs, bfsVars>>

NoPath ==
  /\ task # "landmarks" /\ ~done /\ src # dst /\ queue = {}
  /\ Return({})
  /\ UNCHANGED <<graphArgs, queue, seen, settled, bfsVars>>

-----------------------------------------------------------------------------
(* Landmarks *)

Current == Len(dists)

\* _bfs_hops starts at the next landmark.
StartBfs ==
  /\ task = "landmarks" /\ ~done /\ frontier = <<>> /\ Current < Len(landmarks)
  /\ LET lm == landmarks[Current + 1] IN
     /\ dists' = Append(dists, [n \in {lm} |-> 0])
     /\ frontier' = <<lm>>
  /\ UNCHANGED <<graphArgs, heapVars, done>>

\* The order of the neighbours is that of the adjacency dict.
StepBfs ==
  /\ task = "landmarks" /\ frontier # <<>>
  /\ LET node == Head(frontier)
         dist == dists[Current]
         new == Adj[node] \ DOMAIN dist
     IN /\ \E order \in SetToSeqs(new) : frontier' = Tail(frontier) \o order
        /\ dists' = [dists EXCEPT ![Current] =
                       [n \in DOMAIN dist \cup new |->
                          IF n \in new THEN dist[node] + 1 ELSE dist[n]]]
  /\ UNCHANGED <<graphArgs, heapVars, done>>

FinishLandmarks ==
  /\ task = "landmarks" /\ ~done /\ frontier = <<>> /\ Current = Len(landmarks)
  /\ done' = TRUE
  /\ UNCHANGED <<graphArgs, heapVars, bfsVars>>

\* Unreachable nodes count as many hops away as there are nodes.
Coordinate(i, n) == IF n \in DOMAIN dists[i] THEN dists[i][n] ELSE Cardinality(Node)

UpperGap(x, y) == x + y                                   \* mutant: the upper bound
Gap(x, y) == IF x > y THEN x - y ELSE y - x

\* landmark_distance, once the vectors are there.
LandmarkDistance(a, b) ==
  IF a = b THEN 0
  ELSE Max({Gap(Coordinate(i, a), Coordinate(i, b)) : i \in DOMAIN dists})

-----------------------------------------------------------------------------
\* rng.sample(nodes, min(count, len(nodes))).
Samples == {s \in UNION {SetToSeqs(S) : S \in SUBSET Node} :
              Len(s) = Min({LandmarkCount, Cardinality(Node)})}

Init ==
  /\ src \in Node /\ dst \in Node
  /\ offline \in {S \in SUBSET Node : Cardinality(S) <= MaxOffline}
  /\ \/ /\ task = "hops"
        /\ linkCost = [l \in Link |-> 1] /\ landmarks = <<>>
     \/ /\ task = "quality"
        /\ linkCost \in [Link -> Cost] /\ landmarks = <<>>
     \/ /\ task = "landmarks"
        /\ linkCost = [l \in Link |-> 1] /\ landmarks \in Samples
  /\ queue = {[cost |-> 0, node |-> src, first |-> {}]}
  /\ seen = {} /\ answer = {} /\ done = FALSE
  /\ frontier = <<>> /\ dists = <<>>
  /\ settled = [n \in Node |-> -1]

Returned == done /\ UNCHANGED vars

Next ==
  \/ ReturnSelf \/ Pop \/ NoPath
  \/ StartBfs \/ StepBfs \/ FinishLandmarks
  \/ Returned

Spec == Init /\ [][Next]_vars

-----------------------------------------------------------------------------
(* What the loops are to compute *)

Unreached == Cardinality(Node) * Max({linkCost[l] : l \in Link} \cup {1}) + 1

\* <<n, c>> for every walk of length c and at most |Node| links from a to n over online
\* nodes (a itself may be offline).
Walks(a) ==
  LET walks[k \in Nat] ==
        IF k = 0 THEN {<<a, 0>>}
        ELSE LET shorter == walks[k - 1] IN
             shorter \cup UNION {{<<m, w[2] + Length(w[1], m)>> : m \in ReachableNeighbors(w[1])} :
                                   w \in shorter}
  IN walks[Cardinality(Node)]

CheapestOf(walks, b) == Min({w[2] : w \in {x \in walks : x[1] = b}} \cup {Unreached})
Cheapest(a, b) == CheapestOf(Walks(a), b)

\* Hops from a to b, churn or not.
Hops(a, b) ==
  LET ball[k \in Nat] ==
        IF k = 0 THEN {a}
        ELSE LET inner == ball[k - 1] IN inner \cup UNION {Adj[m] : m \in inner}
  IN Min({k \in 0..Cardinality(Node) : b \in ball[k]} \cup {Cardinality(Node)})

-----------------------------------------------------------------------------
(* Properties *)

\* Both heap searches (lines 67-93 and 147-165): a node is popped for the first time at the
\* length of the cheapest path of online nodes to it, so that skipping seen nodes is safe.
SettledAtDistance ==
  LET walks == Walks(src) IN \A n \in seen : settled[n] = CheapestOf(walks, n)

\* The search never returns a hop that src cannot take now: not src itself, not a peer
\* further away, not one that is offline.
ReturnsReachable ==
  done /\ task # "landmarks" /\ src # dst => answer \subseteq ReachableNeighbors(src)

\* No walk over online nodes has fewer links than the path shortest_path_next_hop found, and
\* it returns None only when there is no walk.
HopsMinimal ==
  done /\ task = "hops" /\ src # dst =>
    \A k \in 0..MaxWalk : \A walk \in [0..k -> Node] :
      /\ walk[0] = src /\ walk[k] = dst
      /\ \A i \in 0..(k - 1) : walk[i + 1] \in ReachableNeighbors(walk[i])
      => answer # {} /\ settled[dst] <= k

\* The hop returned starts a cheapest path over online nodes, and among those it is the
\* smallest; None means that there is no path.  For shortest_path_next_hop this is also what
\* the routing models take it to return.
BestFirstHop ==
  done /\ task # "landmarks" /\ src # dst =>
    LET offers == {<<Length(src, m) + Cheapest(m, dst), m>> : m \in ReachableNeighbors(src)}
        best == {f \in offers : f[1] < Unreached /\ \A g \in offers : f[1] <= g[1]}
    IN /\ answer = {f[2] : f \in {x \in best : \A g \in best : x[2] <= g[2]}}
       /\ task = "hops" => answer = ShortestHop(src, dst)

\* The progress hint (landmark_distance) never overestimates the distance a packet has to
\* go, also when churn made the vectors stale; a landmark's own hint is exact.
HintAdmissible ==
  done /\ task = "landmarks" =>
    /\ LandmarkDistance(src, dst) <= Cheapest(src, dst)
    /\ {src, dst} \cap Range(landmarks) # {} => LandmarkDistance(src, dst) = Hops(src, dst)
=============================================================================
