-------------------------- MODULE PathSearchProofs ---------------------------
(***************************************************************************)
(* Proofs about the searches of PathSearch and the walks of Episodes, on   *)
(* every graph, for every cost and whatever nodes are offline.             *)
(*                                                                         *)
(* The heap searches: what they return is a reachable neighbour, no walk   *)
(* is cheaper than what they found (SearchInv), every node is popped at    *)
(* the length of the cheapest walk to it (DistanceInv), and the hop        *)
(* returned is the first of the best walks (HistoryInv, over the entries   *)
(* popped so far, which the program does not keep).  The landmarks: the    *)
(* tables of compute_landmarks are hop counts (LandmarkInv), so that the   *)
(* hint underestimates.  The walks: asking anew at every hop goes straight *)
(* (WalkInv).                                                              *)
(***************************************************************************)
EXTENDS Episodes, Foundations

\* An entry of the heap: a known hop of src, except for the entry of src itself.
Offered(e) ==
  /\ e.cost \in Nat /\ e.node \in Node
  /\ \/ e.first = {} /\ e.node = src
     \/ \E m \in ReachableNeighbors(src) : e.first = {m}

HeapTyped ==
  /\ src \in Node /\ dst \in Node /\ seen \subseteq Node
  /\ task \in {"hops", "quality", "landmarks"} /\ linkCost \in [Link -> Int]
  /\ settled \in [Node -> Int] /\ \A n \in seen : settled[n] \in Nat
  /\ \A e \in queue : Offered(e)

\* Nothing in the heap is cheaper than what was popped.
Monotone == \A n \in seen : \A e \in queue : settled[n] <= e.cost

\* The edges of a popped node are relaxed, by a popped node or by an entry of the heap.
Reached(m, cost) ==
  \/ m \in seen /\ settled[m] <= cost
  \/ \E e \in queue : e.node = m /\ e.cost <= cost

Relaxed ==
  \A n \in seen \ {dst} : \A m \in ReachableNeighbors(n) :
    Reached(m, settled[n] + Length(n, m))

Outcome ==
  /\ ~done => dst \notin seen
  /\ done /\ task # "landmarks" /\ src # dst =>
       \/ answer = {} /\ queue = {} /\ dst \notin seen
       \/ dst \in seen /\ \E m \in ReachableNeighbors(src) : answer = {m}

SearchInv == HeapTyped /\ Monotone /\ Relaxed /\ Reached(src, 0) /\ Outcome

LEMMA LengthPositive ==
  ASSUME HeapTyped, NEW a \in Node, NEW b \in Adj[a]
  PROVE  b \in Node /\ Length(a, b) \in Nat /\ Length(a, b) > 0
<1>1. b \in Node
  BY GraphAssumption
<1>2. {a, b} \in Link
  <2>1. <<a, b>> \in {g \in Node \X Node : g[2] \in Adj[g[1]]}
    BY <1>1
  <2>2. {a, b} = {<<a, b>>[1], <<a, b>>[2]}
    OBVIOUS
  <2>3. QED
    BY <2>1, <2>2 DEF Link
<1>3. linkCost[{a, b}] \in Int
  BY <1>2, SearchAssumption DEF HeapTyped
<1>4. QED
  BY <1>1, <1>3 DEF Length, Clipped

\* A heap search at its start.
Fresh ==
  /\ src \in Node /\ dst \in Node
  /\ task \in {"hops", "quality", "landmarks"} /\ linkCost \in [Link -> Int]
  /\ queue = {[cost |-> 0, node |-> src, first |-> {}]}
  /\ seen = {} /\ answer = {} /\ done = FALSE /\ settled = [n \in Node |-> -1]

LEMMA InitFresh ==
  ASSUME Init
  PROVE  Fresh
<1>1. linkCost \in [Link -> Int]
  <2>1. CASE linkCost = [l \in Link |-> 1]
    BY <2>1
  <2>2. CASE linkCost \in [Link -> Cost]
    BY <2>2, SearchAssumption
  <2>3. QED
    BY <2>1, <2>2 DEF Init
<1>2. QED
  BY <1>1 DEF Init, Fresh

LEMMA SearchFresh ==
  ASSUME Fresh
  PROVE  SearchInv
BY DEF Fresh, SearchInv, HeapTyped, Offered, Monotone, Relaxed, Reached, Outcome

\* Popping a node that was seen before loses nothing: it was popped no later.
LEMMA PopSeen ==
  ASSUME SearchInv, NEW e \in queue, \A f \in queue : Precedes(e, f),
         e.node \in seen, queue' = queue \ {e},
         UNCHANGED <<graphArgs, seen, settled, answer, done>>, ~done
  PROVE  SearchInv'
<1>1. HeapTyped' /\ Monotone' /\ Outcome'
  BY DEF SearchInv, HeapTyped, Offered, Monotone, Outcome, graphArgs, ReachableNeighbors
<1>2. ASSUME NEW m, NEW cost \in Nat, Reached(m, cost)
      PROVE  Reached(m, cost)'
  <2>1. CASE m \in seen /\ settled[m] <= cost
    BY <2>1 DEF Reached
  <2>2. ASSUME NEW f \in queue, f.node = m, f.cost <= cost
        PROVE  Reached(m, cost)'
    <3>1. CASE f = e
      <4>1. settled[m] \in Nat /\ settled[m] <= e.cost /\ e.cost \in Nat
        BY <2>2, <3>1 DEF SearchInv, HeapTyped, Monotone, Offered
      <4>2. QED
        BY <2>2, <3>1, <4>1 DEF Reached
    <3>2. CASE f # e
      BY <2>2, <3>2 DEF Reached
    <3>3. QED
      BY <3>1, <3>2
  <2>3. QED
    BY <1>2, <2>1, <2>2 DEF Reached
<1>3. Relaxed'
  <2>1. SUFFICES ASSUME NEW n \in seen \ {dst}, NEW m \in ReachableNeighbors(n)
                 PROVE  Reached(m, settled[n] + Length(n, m))'
    BY DEF Relaxed, graphArgs, ReachableNeighbors
  <2>2. Reached(m, settled[n] + Length(n, m)) /\ settled[n] + Length(n, m) \in Nat
    BY LengthPositive DEF SearchInv, Relaxed, HeapTyped, ReachableNeighbors
  <2>3. (settled[n] + Length(n, m))' = settled[n] + Length(n, m)
    BY DEF Length, graphArgs
  <2>4. QED
    BY <1>2, <2>2, <2>3 DEF Reached
<1>4. Reached(src, 0)'
  BY <1>2 DEF SearchInv, Reached, graphArgs
<1>5. QED
  BY <1>1, <1>3, <1>4 DEF SearchInv

\* Popping a new node settles it: every entry left, and every one it adds, costs as much.
LEMMA PopNew ==
  ASSUME SearchInv, NEW e \in queue, \A f \in queue : Precedes(e, f),
         e.node \notin seen, seen' = seen \cup {e.node},
         settled' = [settled EXCEPT ![e.node] = e.cost],
         \/ e.node = dst /\ queue' = queue \ {e} /\ Return(e.first)
         \/ e.node # dst /\ queue' = (queue \ {e}) \cup Relax(e) /\ UNCHANGED <<answer, done>>,
         UNCHANGED graphArgs, ~done, src # dst
  PROVE  SearchInv'
<1>1. Offered(e) /\ e.cost \in Nat /\ e.node \in Node
  BY DEF SearchInv, HeapTyped, Offered
<1>2. \A f \in queue : e.cost <= f.cost /\ f.cost \in Nat
  BY <1>1 DEF Precedes, SearchInv, HeapTyped, Offered
<1>3. \A n \in seen : settled'[n] = settled[n] /\ settled[n] \in Nat /\ settled[n] <= e.cost
  BY DEF SearchInv, HeapTyped, Monotone
<1>4. settled'[e.node] = e.cost
  BY <1>1 DEF SearchInv, HeapTyped
<1>5. \A f \in Relax(e) :
        /\ f.cost \in Nat /\ f.cost >= e.cost /\ f.node \in Node
        /\ Offered(f)
  <2>1. SUFFICES ASSUME NEW nb \in Open(e.node)
                 PROVE  LET f == [cost |-> e.cost + Length(e.node, nb), node |-> nb,
                                  first |-> FirstHop(e.first, nb)]
                        IN /\ f.cost \in Nat /\ f.cost >= e.cost /\ f.node \in Node
                           /\ Offered(f)
    BY DEF Relax
  <2>2. nb \in Adj[e.node] /\ nb \in ReachableNeighbors(e.node)
    BY DEF Open, ReachableNeighbors
  <2>3. nb \in Node /\ Length(e.node, nb) \in Nat
    BY <1>1, <2>2, LengthPositive DEF SearchInv
  <2>4. \E m \in ReachableNeighbors(src) : FirstHop(e.first, nb) = {m}
    BY <1>1, <2>2 DEF Offered, FirstHop
  <2>5. QED
    BY <1>1, <2>3, <2>4 DEF Offered
<1>6. \A f \in queue' : f \in queue \/ (f \in Relax(e) /\ e.node # dst)
  OBVIOUS
<1>7. HeapTyped'
  <2>1. \A f \in queue' : Offered(f)'
    BY <1>5, <1>6 DEF Offered, SearchInv, HeapTyped, graphArgs, ReachableNeighbors
  <2>2. settled' \in [Node -> Int] /\ \A n \in seen' : settled'[n] \in Nat
    BY <1>1, <1>3, <1>4 DEF SearchInv, HeapTyped
  <2>3. QED
    BY <1>1, <2>1, <2>2 DEF SearchInv, HeapTyped, graphArgs
<1>8. Monotone'
  <2>1. SUFFICES ASSUME NEW n \in seen', NEW f \in queue'
                 PROVE  settled'[n] <= f.cost
    BY DEF Monotone
  <2>2. f.cost \in Nat /\ e.cost <= f.cost
    BY <1>2, <1>5, <1>6
  <2>3. settled'[n] \in Nat /\ settled'[n] <= e.cost
    BY <1>1, <1>3, <1>4
  <2>4. QED
    BY <1>1, <2>2, <2>3
<1>9. ASSUME NEW m, NEW cost \in Nat, Reached(m, cost)
      PROVE  Reached(m, cost)'
  <2>1. CASE m \in seen /\ settled[m] <= cost
    BY <1>3, <2>1 DEF Reached
  <2>2. ASSUME NEW f \in queue, f.node = m, f.cost <= cost
        PROVE  Reached(m, cost)'
    BY <1>4, <2>2 DEF Reached
  <2>3. QED
    BY <1>9, <2>1, <2>2 DEF Reached
<1>10. Relaxed'
  <2>1. SUFFICES ASSUME NEW n \in seen' \ {dst}, NEW m \in ReachableNeighbors(n)
                 PROVE  Reached(m, settled[n] + Length(n, m))'
    BY DEF Relaxed, graphArgs, ReachableNeighbors
  <2>2. Length(n, m)' = Length(n, m)
    BY DEF Length, graphArgs
  <2>3. n \in Node /\ m \in Node /\ Length(n, m) \in Nat
    BY <1>1, LengthPositive DEF SearchInv, HeapTyped, ReachableNeighbors
  <2>4. CASE n \in seen
    <3>1. Reached(m, settled[n] + Length(n, m)) /\ settled[n] + Length(n, m) \in Nat
      BY <1>3, <2>3, <2>4 DEF SearchInv, Relaxed
    <3>2. Reached(m, settled[n] + Length(n, m))'
          <=> \/ m \in seen' /\ settled'[m] <= settled[n] + Length(n, m)
              \/ \E f \in queue' : f.node = m /\ f.cost <= settled[n] + Length(n, m)
      BY <1>3, <2>2, <2>4 DEF Reached
    <3>3. QED
      BY <1>9, <3>1, <3>2 DEF Reached
  <2>5. CASE n = e.node
    <3>1. m \in Adj[n] /\ m \notin offline /\ m # n
      BY <2>3, GraphAssumption DEF ReachableNeighbors
    <3>2. CASE m \in seen
      <4>1. settled'[m] \in Nat /\ settled'[m] <= e.cost
        BY <1>3, <3>2
      <4>2. QED
        BY <1>1, <1>4, <2>2, <2>3, <2>5, <3>2, <4>1 DEF Reached
    <3>3. CASE m \notin seen
      <4> DEFINE f == [cost |-> e.cost + Length(e.node, m), node |-> m,
                       first |-> FirstHop(e.first, m)]
      <4>1. f \in Relax(e)
        BY <2>5, <3>1, <3>3 DEF Relax, Open
      <4>2. f \in queue' /\ f.node = m /\ f.cost = e.cost + Length(n, m)
        BY <2>1, <2>5, <4>1
      <4> HIDE DEF f
      <4>3. QED
        BY <1>1, <1>4, <2>2, <2>3, <2>5, <4>2 DEF Reached
    <3>4. QED
      BY <3>2, <3>3
  <2>6. QED
    BY <2>4, <2>5
<1>11. Reached(src, 0)'
  BY <1>9 DEF SearchInv, Reached, graphArgs
<1>12. Outcome'
  <2>1. CASE e.node = dst
    <3>1. dst' = dst /\ src' = src /\ dst \in seen' /\ done' /\ answer' = e.first
      BY <2>1 DEF Return, graphArgs
    <3>2. \E m \in ReachableNeighbors(src) : e.first = {m}
      BY <1>1, <2>1 DEF Offered
    <3>3. QED
      BY <3>1, <3>2 DEF Outcome, ReachableNeighbors, graphArgs
  <2>2. CASE e.node # dst
    BY <2>2 DEF Outcome, SearchInv, graphArgs
  <2>3. QED
    BY <2>1, <2>2
<1>13. QED
  BY <1>7, <1>8, <1>10, <1>11, <1>12 DEF SearchInv

LEMMA SearchStep ==
  ASSUME SearchInv, [Next]_vars
  PROVE  SearchInv'
<1>1. ASSUME UNCHANGED <<graphArgs, queue, seen, settled>>, Outcome'
      PROVE  SearchInv'
  <2>1. HeapTyped' /\ Monotone'
    BY <1>1 DEF SearchInv, HeapTyped, Offered, Monotone, graphArgs, ReachableNeighbors
  <2>2. Relaxed'
    BY <1>1 DEF SearchInv, Relaxed, Reached, Length, graphArgs, ReachableNeighbors
  <2>3. Reached(src, 0)'
    BY <1>1 DEF SearchInv, Reached, graphArgs
  <2>4. QED
    BY <1>1, <2>1, <2>2, <2>3 DEF SearchInv
<1>2. ASSUME UNCHANGED <<graphArgs, queue, seen, settled>>, UNCHANGED <<answer, done>>
      PROVE  SearchInv'
  <2>1. Outcome'
    BY <1>2 DEF SearchInv, Outcome, graphArgs, ReachableNeighbors
  <2>2. QED
    BY <1>1, <1>2, <2>1
<1>3. CASE UNCHANGED vars
  BY <1>2, <1>3 DEF vars, heapVars
<1>4. CASE ReturnSelf
  BY <1>1, <1>4 DEF ReturnSelf, Return, Outcome, graphArgs
<1>5. CASE Pop
  <2>1. PICK e \in queue :
          /\ \A f \in queue : Precedes(e, f)
          /\ \/ /\ e.node \in seen
                /\ queue' = queue \ {e}
                /\ UNCHANGED <<seen, settled, answer, done>>
             \/ /\ e.node \notin seen
                /\ seen' = seen \cup {e.node}
                /\ settled' = [settled EXCEPT ![e.node] = e.cost]
                /\ \/ e.node = dst /\ queue' = queue \ {e} /\ Return(e.first)
                   \/ /\ e.node # dst
                      /\ queue' = (queue \ {e}) \cup Relax(e)
                      /\ UNCHANGED <<answer, done>>
    BY <1>5 DEF Pop
  <2>2. ~done /\ src # dst /\ UNCHANGED graphArgs
    BY <1>5 DEF Pop
  <2>3. CASE e.node \in seen
    BY <2>1, <2>2, <2>3, PopSeen
  <2>4. CASE e.node \notin seen
    BY <2>1, <2>2, <2>4, PopNew
  <2>5. QED
    BY <2>3, <2>4
<1>6. CASE NoPath
  BY <1>1, <1>6 DEF NoPath, Return, Outcome, SearchInv, graphArgs
<1>7. CASE StartBfs \/ StepBfs
  BY <1>2, <1>7 DEF StartBfs, StepBfs, heapVars
<1>8. CASE FinishLandmarks
  BY <1>1, <1>8 DEF FinishLandmarks, heapVars, Outcome, graphArgs
<1>9. QED
  BY <1>3, <1>4, <1>5, <1>6, <1>7, <1>8 DEF Next, Returned

\* The searches return only what the source can send to (lines 67-93, 147-165), on every
\* graph and for every churn.
THEOREM ReturnsReachableHolds == Spec => []ReturnsReachable
<1>1. SearchInv => ReturnsReachable
  BY DEF SearchInv, Outcome, ReturnsReachable
<1>2. QED
  BY <1>1, InitFresh, SearchFresh, SearchStep, PTL DEF Spec

-----------------------------------------------------------------------------
(* Optimality *)

\* Wherever a walk from src over online nodes has come, something of the search is as
\* cheap: the node it is at, or dst, was popped at most at that length, or an entry of the
\* heap is.
Matched(node, length) ==
  \/ node \in seen /\ settled[node] <= length
  \/ dst \in seen /\ settled[dst] <= length
  \/ \E e \in queue : e.cost <= length

\* One link further it still has.
LEMMA MatchedOn ==
  ASSUME SearchInv, NEW n \in Node, NEW length \in Nat, Matched(n, length),
         NEW m \in ReachableNeighbors(n)
  PROVE  m \in Node /\ length + Length(n, m) \in Nat /\ Matched(m, length + Length(n, m))
<1> DEFINE further == length + Length(n, m)
<1>1. m \in Node /\ Length(n, m) \in Nat
  BY LengthPositive DEF SearchInv, ReachableNeighbors
<1>2. further \in Nat /\ length <= further
  BY <1>1
<1>3. CASE n \in seen /\ settled[n] <= length /\ n # dst
  <2>1. Reached(m, settled[n] + Length(n, m))
    BY <1>3 DEF SearchInv, Relaxed
  <2>2. settled[n] \in Nat /\ settled[n] + Length(n, m) <= further
    BY <1>1, <1>3 DEF SearchInv, HeapTyped
  <2>3. \A x \in seen : settled[x] \in Nat
    BY DEF SearchInv, HeapTyped
  <2>4. \A e \in queue : e.cost \in Nat
    BY DEF SearchInv, HeapTyped, Offered
  <2> HIDE DEF further
  <2>5. Matched(m, further)
    BY <1>1, <1>2, <2>1, <2>2, <2>3, <2>4 DEF Reached, Matched
  <2>6. QED
    BY <1>1, <1>2, <2>5 DEF further
<1>4. CASE dst \in seen /\ settled[dst] <= length
  <2>1. settled[dst] \in Nat
    BY <1>4 DEF SearchInv, HeapTyped
  <2> HIDE DEF further
  <2>2. settled[dst] <= further
    BY <1>2, <1>4, <2>1
  <2>3. QED
    BY <1>1, <1>2, <1>4, <2>2 DEF Matched, further
<1>5. ASSUME NEW e \in queue, e.cost <= length
      PROVE  Matched(m, further)
  <2>1. e.cost \in Nat
    BY DEF SearchInv, HeapTyped, Offered
  <2> HIDE DEF further
  <2>2. e.cost <= further
    BY <1>2, <1>5, <2>1
  <2>3. QED
    BY <2>2 DEF Matched
<1>6. Matched(m, further)
  BY <1>3, <1>4, <1>5 DEF Matched
<1> HIDE DEF further
<1>7. QED
  BY <1>1, <1>2, <1>6 DEF further

LEMMA WalkMatched ==
  ASSUME SearchInv, NEW k \in Nat, NEW walk \in [0..k -> Node], NEW len \in [0..k -> Nat],
         walk[0] = src, len[0] = 0,
         \A i \in 0..(k - 1) : /\ walk[i + 1] \in ReachableNeighbors(walk[i])
                               /\ len[i + 1] = len[i] + Length(walk[i], walk[i + 1])
  PROVE  \A i \in 0..k : Matched(walk[i], len[i])
<1>1. SUFFICES ASSUME NEW j \in 0..k, ~Matched(walk[j], len[j])
               PROVE  FALSE
  OBVIOUS
<1> DEFINE Bad == {i \in 0..k : ~Matched(walk[i], len[i])}
<1>2. Bad \in SUBSET Nat /\ Bad # {}
  <2>1. 0..k \subseteq Nat
    OBVIOUS
  <2>2. Bad \subseteq 0..k
    OBVIOUS
  <2>3. j \in Bad
    BY <1>1
  <2> HIDE DEF Bad
  <2>4. QED
    BY <2>1, <2>2, <2>3
<1>3. PICK b \in Bad : \A y \in Bad : b <= y
  BY <1>2, LeastNatural
<1>4. b # 0
  <2>1. Reached(src, 0)
    BY DEF SearchInv
  <2>2. Matched(src, 0)
    BY <2>1 DEF Reached, Matched
  <2>3. QED
    BY <1>3, <2>2
<1> DEFINE i == b - 1
<1>5. i \in 0..(k - 1) /\ i + 1 = b /\ i \in 0..k /\ b \in 0..k
  BY <1>3, <1>4
<1>6. i \notin Bad
  BY <1>3, <1>5
<1>7. Matched(walk[i], len[i])
  BY <1>5, <1>6
<1>8. /\ walk[b] \in ReachableNeighbors(walk[i])
      /\ len[b] = len[i] + Length(walk[i], walk[b])
  BY <1>5
<1>9. walk[i] \in Node /\ len[i] \in Nat
  BY <1>5
<1>10. Matched(walk[b], len[b])
  BY <1>7, <1>8, <1>9, MatchedOn
<1>11. QED
  BY <1>3, <1>10

\* When the search is over, nothing was cheaper: for every walk over online nodes, of any
\* length, a hop was found and dst was popped at most at the length of that walk.
LEMMA NothingCheaper ==
  ASSUME SearchInv, done, task # "landmarks", src # dst,
         NEW k \in Nat, NEW walk \in [0..k -> Node], NEW len \in [0..k -> Nat],
         walk[0] = src, walk[k] = dst, len[0] = 0,
         \A i \in 0..(k - 1) : /\ walk[i + 1] \in ReachableNeighbors(walk[i])
                               /\ len[i + 1] = len[i] + Length(walk[i], walk[i + 1])
  PROVE  answer # {} /\ settled[dst] <= len[k]
<1>1. k \in 0..k /\ len[k] \in Nat
  OBVIOUS
<1>2. Matched(dst, len[k])
  BY <1>1, WalkMatched
<1>3. dst \in seen /\ answer # {}
  BY <1>2 DEF Matched, SearchInv, Outcome
<1>4. settled[dst] \in Nat /\ \A e \in queue : settled[dst] <= e.cost /\ e.cost \in Nat
  BY <1>3 DEF SearchInv, HeapTyped, Monotone, Offered
<1>5. QED
  BY <1>1, <1>2, <1>3, <1>4 DEF Matched

\* shortest_path_next_hop finds a path whenever there is one, and none has fewer links
\* (lines 67-93): on every graph, whatever nodes are offline.
THEOREM HopsMinimalHolds == Spec => []HopsMinimal
<1>1. ASSUME SearchInv
      PROVE  HopsMinimal
  <2>1. SUFFICES ASSUME done, task = "hops", src # dst,
                        NEW k \in 0..MaxWalk, NEW walk \in [0..k -> Node],
                        walk[0] = src, walk[k] = dst,
                        \A i \in 0..(k - 1) : walk[i + 1] \in ReachableNeighbors(walk[i])
                 PROVE  answer # {} /\ settled[dst] <= k
    BY DEF HopsMinimal
  <2> DEFINE len == [i \in 0..k |-> i]
  <2>2. k \in Nat
    BY SearchAssumption
  <2>3. len \in [0..k -> Nat] /\ len[0] = 0 /\ len[k] = k
    BY <2>2
  <2>4. \A i \in 0..(k - 1) : len[i + 1] = len[i] + Length(walk[i], walk[i + 1])
    BY <2>1, <2>2 DEF Length
  <2> HIDE DEF len
  <2>5. answer # {} /\ settled[dst] <= len[k]
    BY <1>1, <2>1, <2>2, <2>3, <2>4, NothingCheaper
  <2>6. QED
    BY <2>3, <2>5
<1>2. QED
  BY <1>1, InitFresh, SearchFresh, SearchStep, PTL DEF Spec

-----------------------------------------------------------------------------
(* Walks *)

\* One link more of every walk, and walks of up to k links as a function of k.
WalkSet == SUBSET (Node \X Nat)
WalkStep ==
  [S \in WalkSet |->
     S \cup UNION {{<<m, w[2] + Length(w[1], m)>> : m \in ReachableNeighbors(w[1])} : w \in S}]
WalkTable(t, step, a) == Iterates(t, WalkSet, step, {<<a, 0>>})

LEMMA WalkStepTyped ==
  ASSUME HeapTyped
  PROVE  /\ WalkStep \in [WalkSet -> WalkSet]
         /\ \A S \in WalkSet, n \in Node, c \in Nat :
              <<n, c>> \in WalkStep[S] <=>
                \/ <<n, c>> \in S
                \/ \E m \in Node, d \in Nat : /\ <<m, d>> \in S /\ n \in ReachableNeighbors(m)
                                              /\ c = d + Length(m, n)
<1> DEFINE more(S) == UNION {{<<m, w[2] + Length(w[1], m)>> : m \in ReachableNeighbors(w[1])} : w \in S}
<1>1. ASSUME NEW m \in Node, NEW n \in ReachableNeighbors(m)
      PROVE  n \in Node /\ Length(m, n) \in Nat
  BY LengthPositive DEF ReachableNeighbors
<1>2. ASSUME NEW S \in WalkSet, NEW p \in more(S)
      PROVE  \E m \in Node, d \in Nat : /\ <<m, d>> \in S /\ p[1] \in ReachableNeighbors(m)
                                        /\ p = <<p[1], d + Length(m, p[1])>>
  <2>1. PICK w \in S : p \in {<<m, w[2] + Length(w[1], m)>> : m \in ReachableNeighbors(w[1])}
    OBVIOUS
  <2>2. w[1] \in Node /\ w[2] \in Nat /\ w = <<w[1], w[2]>>
    BY DEF WalkSet
  <2>3. QED
    BY <2>1, <2>2
<1>3. ASSUME NEW S \in WalkSet, NEW m \in Node, NEW d \in Nat, <<m, d>> \in S,
             NEW n \in ReachableNeighbors(m)
      PROVE  <<n, d + Length(m, n)>> \in more(S)
  <2> DEFINE w == <<m, d>>
  <2>1. <<n, d + Length(m, n)>> \in {<<x, w[2] + Length(w[1], x)>> : x \in ReachableNeighbors(w[1])}
    OBVIOUS
  <2> HIDE DEF w
  <2>2. w \in S
    BY <1>3 DEF w
  <2>3. QED
    BY <2>1, <2>2
<1>4. \A S \in WalkSet : WalkStep[S] = S \cup more(S)
  BY DEF WalkStep
<1> HIDE DEF more
<1>5. \A S \in WalkSet : S \cup more(S) \in WalkSet
  <2> SUFFICES ASSUME NEW S \in WalkSet, NEW p \in more(S) PROVE p \in Node \X Nat
    BY DEF WalkSet
  <2>1. PICK m \in Node, d \in Nat : /\ <<m, d>> \in S /\ p[1] \in ReachableNeighbors(m)
                                     /\ p = <<p[1], d + Length(m, p[1])>>
    BY <1>2
  <2>2. p[1] \in Node /\ d + Length(m, p[1]) \in Nat
    BY <1>1, <2>1
  <2>3. QED
    BY <2>1, <2>2
<1>6. WalkStep \in [WalkSet -> WalkSet]
  BY <1>4, <1>5 DEF WalkStep, more
<1>7. ASSUME NEW S \in WalkSet, NEW n \in Node, NEW c \in Nat
      PROVE  <<n, c>> \in WalkStep[S] <=>
                \/ <<n, c>> \in S
                \/ \E m \in Node, d \in Nat : /\ <<m, d>> \in S /\ n \in ReachableNeighbors(m)
                                              /\ c = d + Length(m, n)
  <2>1. ASSUME <<n, c>> \in more(S)
        PROVE  \E m \in Node, d \in Nat : /\ <<m, d>> \in S /\ n \in ReachableNeighbors(m)
                                          /\ c = d + Length(m, n)
    <3> DEFINE p == <<n, c>>
    <3>1. p[1] = n /\ p[2] = c
      OBVIOUS
    <3>2. PICK m \in Node, d \in Nat : /\ <<m, d>> \in S /\ p[1] \in ReachableNeighbors(m)
                                       /\ p = <<p[1], d + Length(m, p[1])>>
      BY <1>2, <2>1
    <3>3. p[2] = d + Length(m, n)
      BY <3>1, <3>2
    <3>4. QED
      BY <3>1, <3>2, <3>3
  <2>2. QED
    BY <1>3, <1>4, <2>1
<1>8. QED
  BY <1>6, <1>7

\* Walks is such a function at the number of nodes.
LEMMA WalksIs ==
  ASSUME HeapTyped, NEW a \in Node
  PROVE  \E t : WalkTable(t, WalkStep, a) /\ Walks(a) = t[Cardinality(Node)]
<1> DEFINE more(S) == UNION {{<<m, w[2] + Length(w[1], m)>> : m \in ReachableNeighbors(w[1])} : w \in S}
           next(S) == S \cup more(S)
           Eq(g) == g = [k \in Nat |-> IF k = 0 THEN {<<a, 0>>} ELSE next(g[k - 1])]
           g == CHOOSE f : Eq(f)
<1>1. Walks(a) = g[Cardinality(Node)]
  BY DEF Walks
<1>2. /\ WalkStep \in [WalkSet -> WalkSet] /\ {<<a, 0>>} \in WalkSet
      /\ \A S \in WalkSet : WalkStep[S] = next(S)
  BY WalkStepTyped DEF WalkStep, WalkSet
<1> HIDE DEF next
<1>3. PICK h : WalkTable(h, WalkStep, a)
  BY <1>2, IteratesExist DEF WalkTable
<1>4. \A k \in Nat : h[k] = IF k = 0 THEN {<<a, 0>>} ELSE next(h[k - 1])
  <2> SUFFICES ASSUME NEW k \in Nat, k # 0
               PROVE  h[k] = next(h[k - 1])
    BY <1>3 DEF WalkTable, Iterates
  <2>1. k - 1 \in Nat /\ (k - 1) + 1 = k
    OBVIOUS
  <2>2. QED
    BY <1>2, <1>3, <2>1 DEF WalkTable, Iterates
<1>5. h = [k \in Nat |-> h[k]]
  BY <1>3 DEF WalkTable, Iterates
<1>6. Eq(h)
  BY <1>4, <1>5
<1> HIDE DEF Eq
<1>7. Eq(g)
  BY <1>6
<1> USE DEF Eq
<1> HIDE DEF g
<1>8. g = [k \in Nat |-> g[k]] /\ g[0] = {<<a, 0>>}
  BY <1>7
<1>9. ASSUME NEW k \in Nat, g[k] \in WalkSet
      PROVE  g[k + 1] = WalkStep[g[k]]
  <2>1. k + 1 \in Nat /\ k + 1 # 0 /\ (k + 1) - 1 = k
    OBVIOUS
  <2>2. g[k + 1] = next(g[k])
    BY <1>7, <2>1
  <2>3. QED
    BY <1>2, <1>9, <2>2
<1> HIDE DEF Eq
<1>10. WalkTable(g, WalkStep, a)
  BY <1>2, <1>8, <1>9, RecursionIterates DEF WalkTable
<1>11. QED
  BY <1>1, <1>10

\* Walks of up to k links: the one of none, those of fewer links, and one link more.
LEMMA TableSteps ==
  ASSUME HeapTyped, NEW a \in Node, NEW t, WalkTable(t, WalkStep, a)
  PROVE  /\ \A n \in Node, c \in Nat : <<n, c>> \in t[0] <=> n = a /\ c = 0
         /\ \A k \in Nat : t[k] \in WalkSet
         /\ \A k \in Nat, n \in Node, c \in Nat :
              <<n, c>> \in t[k + 1] <=>
                \/ <<n, c>> \in t[k]
                \/ \E m \in Node, d \in Nat : /\ <<m, d>> \in t[k] /\ n \in ReachableNeighbors(m)
                                              /\ c = d + Length(m, n)
<1>1. t[0] = {<<a, 0>>} /\ \A k \in Nat : t[k] \in WalkSet /\ t[k + 1] = WalkStep[t[k]]
  BY DEF WalkTable, Iterates
<1>2. \A n, c : <<n, c>> \in {<<a, 0>>} <=> n = a /\ c = 0
  OBVIOUS
<1>3. \A S \in WalkSet, n \in Node, c \in Nat :
        <<n, c>> \in WalkStep[S] <=>
          \/ <<n, c>> \in S
          \/ \E m \in Node, d \in Nat : /\ <<m, d>> \in S /\ n \in ReachableNeighbors(m)
                                        /\ c = d + Length(m, n)
  BY WalkStepTyped
<1>4. ASSUME NEW k \in Nat, NEW n \in Node, NEW c \in Nat
      PROVE  <<n, c>> \in t[k + 1] <=>
               \/ <<n, c>> \in t[k]
               \/ \E m \in Node, d \in Nat : /\ <<m, d>> \in t[k] /\ n \in ReachableNeighbors(m)
                                             /\ c = d + Length(m, n)
  <2> DEFINE S == t[k]
  <2>1. S \in WalkSet /\ t[k + 1] = WalkStep[S]
    BY <1>1
  <2> HIDE DEF S
  <2>2. <<n, c>> \in WalkStep[S] <=>
          \/ <<n, c>> \in S
          \/ \E m \in Node, d \in Nat : /\ <<m, d>> \in S /\ n \in ReachableNeighbors(m)
                                        /\ c = d + Length(m, n)
    BY <1>3, <2>1
  <2>3. QED
    BY <2>1, <2>2 DEF S
<1>5. QED
  BY <1>1, <1>2, <1>4

\* The walks of a table are no longer for more links allowed.
LEMMA TableGrows ==
  ASSUME HeapTyped, NEW a \in Node, NEW t, WalkTable(t, WalkStep, a),
         NEW k \in Nat, NEW n \in Node, NEW c \in Nat, <<n, c>> \in t[k]
  PROVE  \A j \in Nat : j >= k => <<n, c>> \in t[j]
<1> DEFINE W == {j \in Nat : j >= k /\ <<n, c>> \notin t[j]}
<1> SUFFICES W = {}
  OBVIOUS
<1> SUFFICES ASSUME W # {} PROVE FALSE
  OBVIOUS
<1>1. W \in SUBSET Nat
  OBVIOUS
<1> HIDE DEF W
<1>2. PICK j \in W : \A i \in W : j <= i
  BY <1>1, LeastNatural
<1> USE DEF W
<1>3. j # k
  BY <1>2
<1>4. j - 1 \in Nat /\ j - 1 >= k /\ (j - 1) + 1 = j
  BY <1>2, <1>3
<1>5. <<n, c>> \in t[j - 1]
  BY <1>2, <1>4
<1>6. <<n, c>> \in t[(j - 1) + 1]
  BY <1>4, <1>5, TableSteps
<1>7. QED
  BY <1>2, <1>4, <1>6

\* A walk of at most k links from a to n of length c.
Walked(step, a, n, c, k) == \A t : WalkTable(t, step, a) => <<n, c>> \in t[k]

LEMMA WalkedSteps ==
  ASSUME HeapTyped, NEW a \in Node
  PROVE  /\ \A k \in Nat : Walked(WalkStep, a, a, 0, k)
         /\ \A n \in Node, c \in Nat, k \in Nat : Walked(WalkStep, a, n, c, k) =>
              /\ \A j \in Nat : j >= k => Walked(WalkStep, a, n, c, j)
              /\ \A m \in ReachableNeighbors(n) :
                   Walked(WalkStep, a, m, c + Length(n, m), k + 1)
<1>1. ASSUME NEW t, WalkTable(t, WalkStep, a), NEW k \in Nat
      PROVE  <<a, 0>> \in t[k]
  <2>1. <<a, 0>> \in t[0]
    BY <1>1, TableSteps
  <2>2. QED
    BY <1>1, <2>1, TableGrows
<1>2. ASSUME NEW n \in Node, NEW c \in Nat, NEW k \in Nat, Walked(WalkStep, a, n, c, k),
             NEW t, WalkTable(t, WalkStep, a)
      PROVE  /\ \A j \in Nat : j >= k => <<n, c>> \in t[j]
             /\ \A m \in ReachableNeighbors(n) : <<m, c + Length(n, m)>> \in t[k + 1]
  <2>1. <<n, c>> \in t[k]
    BY <1>2 DEF Walked
  <2>2. \A j \in Nat : j >= k => <<n, c>> \in t[j]
    BY <1>2, <2>1, TableGrows
  <2>3. ASSUME NEW m \in ReachableNeighbors(n)
        PROVE  <<m, c + Length(n, m)>> \in t[k + 1]
    <3>1. m \in Node /\ c + Length(n, m) \in Nat
      BY LengthPositive DEF ReachableNeighbors
    <3>2. QED
      BY <1>2, <2>1, <3>1, TableSteps
  <2>4. QED
    BY <2>2, <2>3
<1>3. QED
  BY <1>1, <1>2 DEF Walked

\* Walks(a) are the pairs that are walked with as many links as there are nodes.
LEMMA WalksAre ==
  ASSUME HeapTyped, NEW a \in Node
  PROVE  /\ Walks(a) \in WalkSet
         /\ \A n \in Node, c \in Nat :
              Walked(WalkStep, a, n, c, Cardinality(Node)) => <<n, c>> \in Walks(a)
<1>1. PICK t : WalkTable(t, WalkStep, a) /\ Walks(a) = t[Cardinality(Node)]
  BY WalksIs
<1>2. Cardinality(Node) \in Nat
  BY GraphAssumption, FS_CardinalityType
<1>3. QED
  BY <1>1, <1>2, TableSteps DEF Walked

\* The longest link there may be.
Longest == Max({linkCost[l] : l \in Link} \cup {1})

LEMMA LengthBounded ==
  ASSUME HeapTyped
  PROVE  /\ Longest \in Nat /\ Longest >= 1
         /\ \A a \in Node : \A b \in Adj[a] : Length(a, b) <= Longest
<1> DEFINE costs == {linkCost[l] : l \in Link}
           all == costs \cup {1}
<1>1. IsFiniteSet(Link)
  <2>1. Link \in SUBSET SUBSET Node
    BY DEF Link
  <2>2. IsFiniteSet(SUBSET Node)
    BY GraphAssumption, FS_SUBSET
  <2>3. QED
    BY <2>1, <2>2, FS_Subset
<1>2. IsFiniteSet(costs)
  <2> DEFINE f == [l \in Link |-> linkCost[l]]
  <2>1. f \in Surjection(Link, costs)
    BY DEF Surjection
  <2> HIDE DEF f, costs
  <2>2. QED
    BY <1>1, <2>1, FS_Surjection
<1>3. \A x \in all : x \in Int
  BY DEF HeapTyped
<1>4. 1 \in all /\ \A l \in Link : linkCost[l] \in all
  OBVIOUS
<1>5. IsFiniteSet(all)
  BY <1>2, FS_AddElement
<1>6. Longest = Max(all)
  BY DEF Longest
<1> HIDE DEF all
<1>7. \E x \in all : \A y \in all : x >= y
  BY <1>3, <1>4, <1>5, LargestInteger
<1>8. Longest \in all /\ \A y \in all : Longest >= y
  BY <1>6, <1>7 DEF Max
<1>9. ASSUME NEW a \in Node, NEW b \in Adj[a]
      PROVE  Length(a, b) <= Longest
  <2>1. b \in Node
    BY GraphAssumption
  <2>2. {a, b} \in Link
    <3>1. <<a, b>> \in {g \in Node \X Node : g[2] \in Adj[g[1]]}
      BY <2>1
    <3>2. {a, b} = {<<a, b>>[1], <<a, b>>[2]}
      OBVIOUS
    <3>3. QED
      BY <3>1, <3>2 DEF Link
  <2>3. linkCost[{a, b}] \in all
    BY <1>4, <2>2
  <2>4. QED
    BY <1>3, <1>4, <1>8, <2>3 DEF Length, Clipped
<1>10. QED
  BY <1>3, <1>4, <1>8, <1>9

\* A walk of at most k links is at most k times the longest link long.
LEMMA TableBounded ==
  ASSUME HeapTyped, NEW a \in Node, NEW t, WalkTable(t, WalkStep, a), NEW k \in Nat,
         NEW n \in Node, NEW c \in Nat, <<n, c>> \in t[k]
  PROVE  c <= k * Longest
<1> DEFINE W == {j \in Nat : \E m \in Node, d \in Nat : <<m, d>> \in t[j] /\ ~(d <= j * Longest)}
<1> SUFFICES ASSUME W # {} PROVE FALSE
  OBVIOUS
<1>1. W \in SUBSET Nat
  OBVIOUS
<1> HIDE DEF W
<1>2. PICK j \in W : \A i \in W : j <= i
  BY <1>1, LeastNatural
<1> USE DEF W
<1>3. PICK m \in Node, d \in Nat : <<m, d>> \in t[j] /\ ~(d <= j * Longest)
  BY <1>2
<1>4. Longest \in Nat
  BY LengthBounded
<1>5. j # 0
  <2>1. CASE j = 0
    <3>1. d = 0
      BY <1>3, <2>1, TableSteps
    <3>2. 0 * Longest = 0
      BY <1>4
    <3>3. QED
      BY <1>3, <2>1, <3>1, <3>2
  <2>2. QED
    BY <2>1
<1> DEFINE i == j - 1
<1>6. i \in Nat /\ i + 1 = j /\ j \in Nat /\ ~(j <= i)
  BY <1>2, <1>5
<1>7. \A x \in Node, y \in Nat : <<x, y>> \in t[i] => y <= i * Longest
  BY <1>2, <1>6
<1> HIDE DEF i, W
<1>8. \/ <<m, d>> \in t[i]
      \/ \E x \in Node, y \in Nat : <<x, y>> \in t[i] /\ m \in ReachableNeighbors(x)
                                    /\ d = y + Length(x, m)
  <2>1. <<m, d>> \in t[i + 1]
    BY <1>3, <1>6
  <2>0. \A k1 \in Nat, n1 \in Node, c1 \in Nat :
          <<n1, c1>> \in t[k1 + 1] <=>
            \/ <<n1, c1>> \in t[k1]
            \/ \E x \in Node, y \in Nat : /\ <<x, y>> \in t[k1] /\ n1 \in ReachableNeighbors(x)
                                          /\ c1 = y + Length(x, n1)
    BY TableSteps
  <2>2. <<m, d>> \in t[i + 1] <=>
          \/ <<m, d>> \in t[i]
          \/ \E x \in Node, y \in Nat : /\ <<x, y>> \in t[i] /\ m \in ReachableNeighbors(x)
                                        /\ d = y + Length(x, m)
    BY <1>6, <2>0
  <2>3. QED
    BY <2>1, <2>2
<1>9. j * Longest = i * Longest + Longest /\ i * Longest \in Nat
  BY <1>4, <1>6
<1>10. CASE <<m, d>> \in t[i]
  BY <1>3, <1>4, <1>7, <1>9, <1>10
<1>11. ASSUME NEW x \in Node, NEW y \in Nat, <<x, y>> \in t[i], m \in ReachableNeighbors(x),
              d = y + Length(x, m)
       PROVE  FALSE
  <2>1. Length(x, m) \in Nat /\ Length(x, m) <= Longest
    BY <1>11, LengthPositive, LengthBounded DEF ReachableNeighbors
  <2>2. QED
    BY <1>3, <1>4, <1>7, <1>9, <1>11, <2>1
<1>12. QED
  BY <1>8, <1>10, <1>11

\* The cheapest walk is the one that no other is cheaper than.
LEMMA CheapestIs ==
  ASSUME HeapTyped, NEW a \in Node, NEW n \in Node
  PROVE  /\ Unreached \in Nat
         /\ \A c \in Nat : <<n, c>> \in Walks(a) => c < Unreached
         /\ \A d \in Nat : /\ <<n, d>> \in Walks(a)
                           /\ \A c \in Nat : <<n, c>> \in Walks(a) => d <= c
                           => CheapestOf(Walks(a), n) = d
         /\ (\A c \in Nat : <<n, c>> \notin Walks(a)) => CheapestOf(Walks(a), n) = Unreached
<1> DEFINE far == {w[2] : w \in {x \in Walks(a) : x[1] = n}}
<1>1. Cardinality(Node) \in Nat
  BY GraphAssumption, FS_CardinalityType
<1>2. Longest \in Nat /\ Unreached = Cardinality(Node) * Longest + 1
  BY LengthBounded DEF Unreached, Longest
<1>3. Cardinality(Node) * Longest \in Nat
  BY <1>1, <1>2
<1>4. PICK t : WalkTable(t, WalkStep, a) /\ Walks(a) = t[Cardinality(Node)]
  BY WalksIs
<1>5. \A c \in Nat : <<n, c>> \in Walks(a) => c <= Cardinality(Node) * Longest
  BY <1>1, <1>4, TableBounded
<1>6. \A c \in Nat : <<n, c>> \in Walks(a) => c < Unreached
  BY <1>2, <1>3, <1>5
<1>7. \A c : c \in far <=> c \in Nat /\ <<n, c>> \in Walks(a)
  <2>1. \A w \in Walks(a) : w = <<w[1], w[2]>> /\ w[2] \in Nat
    BY WalksAre DEF WalkSet
  <2>2. ASSUME NEW c \in far
        PROVE  c \in Nat /\ <<n, c>> \in Walks(a)
    BY <2>1
  <2>3. ASSUME NEW c \in Nat, <<n, c>> \in Walks(a)
        PROVE  c \in far
    <3>1. <<n, c>> \in {x \in Walks(a) : x[1] = n} /\ <<n, c>>[2] = c
      BY <2>3
    <3>2. QED
      BY <3>1
  <2>4. QED
    BY <2>2, <2>3
<1>8. CheapestOf(Walks(a), n) = Min(far \cup {Unreached})
  BY DEF CheapestOf
<1>9. Unreached \in Nat
  BY <1>2, <1>3
<1> HIDE DEF far
<1>10. ASSUME NEW d \in Nat, <<n, d>> \in Walks(a),
              \A c \in Nat : <<n, c>> \in Walks(a) => d <= c
       PROVE  CheapestOf(Walks(a), n) = d
  <2> DEFINE all == far \cup {Unreached}
  <2>1. d \in all /\ \A y \in all : d <= y /\ y \in Nat
    <3>1. d \in far /\ d < Unreached
      BY <1>6, <1>7, <1>10
    <3>2. \A y \in far : d <= y /\ y \in Nat
      BY <1>7, <1>10
    <3>3. QED
      BY <1>9, <3>1, <3>2
  <2> HIDE DEF all
  <2>2. Min(all) \in all /\ \A y \in all : Min(all) <= y
    BY <2>1 DEF Min
  <2>3. Min(all) = d
    <3>1. Min(all) <= d /\ d <= Min(all) /\ Min(all) \in Nat
      BY <2>1, <2>2
    <3> DEFINE low == Min(all)
    <3> HIDE DEF low
    <3>2. low <= d /\ d <= low /\ low \in Nat
      BY <3>1 DEF low
    <3>3. low = d
      BY <3>2
    <3>4. QED
      BY <3>3 DEF low
  <2>4. QED
    BY <1>8, <2>3 DEF all
<1>11. ASSUME \A c \in Nat : <<n, c>> \notin Walks(a)
       PROVE  CheapestOf(Walks(a), n) = Unreached
  <2>1. far = {}
    BY <1>7, <1>11
  <2>2. Min({Unreached}) = Unreached
    BY <1>9 DEF Min
  <2>3. QED
    BY <1>8, <2>1, <2>2
<1>12. QED
  BY <1>6, <1>9, <1>10, <1>11

-----------------------------------------------------------------------------
(* Settled at the distance *)

\* What is popped and what is in the heap was walked to, with no more links than nodes
\* were popped.
Traced ==
  /\ \A n \in seen : Walked(WalkStep, src, n, settled[n], Cardinality(seen))
  /\ \A e \in queue : Walked(WalkStep, src, e.node, e.cost, Cardinality(seen))

\* No other node is popped after dst.
DstLast == dst \in seen => \A n \in seen : settled[n] <= settled[dst]

DistanceInv == SearchInv /\ Traced /\ DstLast

\* A step of the call leaves its arguments alone; it pops a node, or none.
PopsSeen(e) ==
  /\ e \in queue /\ (\A f \in queue : Precedes(e, f)) /\ ~done /\ src # dst
  /\ e.node \in seen /\ queue' = queue \ {e}
  /\ UNCHANGED <<seen, settled, answer, done>>
PopsNew(e) ==
  /\ e \in queue /\ (\A f \in queue : Precedes(e, f)) /\ ~done /\ src # dst
  /\ e.node \notin seen
  /\ seen' = seen \cup {e.node}
  /\ settled' = [settled EXCEPT ![e.node] = e.cost]
  /\ \/ e.node = dst /\ queue' = queue \ {e} /\ Return(e.first)
     \/ e.node # dst /\ queue' = (queue \ {e}) \cup Relax(e) /\ UNCHANGED <<answer, done>>

LEMMA SearchChange ==
  ASSUME [Next]_vars
  PROVE  /\ UNCHANGED graphArgs
         /\ \/ UNCHANGED <<queue, seen, settled>>
            \/ \E e \in queue : PopsSeen(e) \/ PopsNew(e)
<1>1. CASE UNCHANGED vars
  BY <1>1 DEF vars, heapVars
<1>2. CASE ReturnSelf \/ NoPath
  BY <1>2 DEF ReturnSelf, NoPath
<1>3. CASE Pop
  BY <1>3 DEF Pop, PopsSeen, PopsNew
<1>4. CASE StartBfs \/ StepBfs \/ FinishLandmarks
  BY <1>4 DEF StartBfs, StepBfs, FinishLandmarks, heapVars
<1>5. QED
  BY <1>1, <1>2, <1>3, <1>4 DEF Next, Returned

LEMMA WalkStepSame ==
  ASSUME UNCHANGED graphArgs
  PROVE  WalkStep' = WalkStep /\ src' = src /\ dst' = dst /\ offline' = offline /\ task' = task
<1>1. \A a, b : Length(a, b)' = Length(a, b)
  BY DEF Length, graphArgs
<1>2. \A a : ReachableNeighbors(a)' = ReachableNeighbors(a)
  BY DEF ReachableNeighbors, graphArgs
<1>3. QED
  BY <1>1, <1>2 DEF WalkStep, graphArgs

-----------------------------------------------------------------------------
\* The search keeps up with every walk, whatever its number of links.
LEMMA TableMatched ==
  ASSUME SearchInv, NEW t, WalkTable(t, WalkStep, src), NEW k \in Nat,
         NEW n \in Node, NEW c \in Nat, <<n, c>> \in t[k]
  PROVE  Matched(n, c)
<1> DEFINE W == {j \in Nat : \E m \in Node, d \in Nat : <<m, d>> \in t[j] /\ ~Matched(m, d)}
<1> SUFFICES ASSUME W # {} PROVE FALSE
  OBVIOUS
<1>1. W \in SUBSET Nat
  OBVIOUS
<1> HIDE DEF W
<1>2. PICK j \in W : \A i \in W : j <= i
  BY <1>1, LeastNatural
<1> USE DEF W
<1>3. PICK m \in Node, d \in Nat : <<m, d>> \in t[j] /\ ~Matched(m, d)
  BY <1>2
<1>4. HeapTyped /\ src \in Node
  BY DEF SearchInv, HeapTyped
<1>5. j # 0
  <2>1. CASE j = 0
    <3>1. m = src /\ d = 0
      BY <1>3, <1>4, <2>1, TableSteps
    <3>2. QED
      BY <1>3, <3>1 DEF SearchInv, Reached, Matched
  <2>2. QED
    BY <2>1
<1> DEFINE i == j - 1
<1>6. i \in Nat /\ i + 1 = j /\ j \in Nat /\ ~(j <= i)
  BY <1>2, <1>5
<1>7. \A x \in Node, y \in Nat : <<x, y>> \in t[i] => Matched(x, y)
  BY <1>2, <1>6
<1> HIDE DEF i, W
<1>8. \/ <<m, d>> \in t[i]
      \/ \E x \in Node, y \in Nat : <<x, y>> \in t[i] /\ m \in ReachableNeighbors(x)
                                    /\ d = y + Length(x, m)
  <2>1. <<m, d>> \in t[i + 1]
    BY <1>3, <1>6
  <2>2. \A k1 \in Nat, n1 \in Node, c1 \in Nat :
          <<n1, c1>> \in t[k1 + 1] <=>
            \/ <<n1, c1>> \in t[k1]
            \/ \E x \in Node, y \in Nat : /\ <<x, y>> \in t[k1] /\ n1 \in ReachableNeighbors(x)
                                          /\ c1 = y + Length(x, n1)
    BY <1>4, TableSteps
  <2>3. <<m, d>> \in t[i + 1] <=>
          \/ <<m, d>> \in t[i]
          \/ \E x \in Node, y \in Nat : /\ <<x, y>> \in t[i] /\ m \in ReachableNeighbors(x)
                                        /\ d = y + Length(x, m)
    BY <1>6, <2>2
  <2>4. QED
    BY <2>1, <2>3
<1>9. ASSUME NEW x \in Node, NEW y \in Nat, <<x, y>> \in t[i], m \in ReachableNeighbors(x),
             d = y + Length(x, m)
      PROVE  FALSE
  <2>1. Matched(x, y)
    BY <1>7, <1>9
  <2>2. Matched(m, y + Length(x, m))
    BY <1>9, <2>1, MatchedOn
  <2>3. QED
    BY <1>3, <1>9, <2>2
<1>10. QED
  BY <1>3, <1>7, <1>8, <1>9

LEMMA DistanceFresh ==
  ASSUME Fresh
  PROVE  DistanceInv
<1>1. SearchInv
  BY SearchFresh
<1>2. Cardinality(seen) = 0 /\ seen = {}
  BY FS_EmptySet DEF Fresh
<1>3. \A e \in queue : e.node = src /\ e.cost = 0
  BY DEF Fresh
<1>4. Walked(WalkStep, src, src, 0, 0)
  BY <1>1, WalkedSteps DEF SearchInv, HeapTyped
<1>5. QED
  BY <1>1, <1>2, <1>3, <1>4 DEF DistanceInv, Traced, DstLast

LEMMA SeenFinite ==
  ASSUME SearchInv
  PROVE  /\ IsFiniteSet(seen) /\ Cardinality(seen) \in Nat
         /\ Cardinality(seen) <= Cardinality(Node) /\ Cardinality(Node) \in Nat
<1>1. seen \subseteq Node /\ IsFiniteSet(Node)
  BY GraphAssumption DEF SearchInv, HeapTyped
<1>2. QED
  BY <1>1, FS_Subset, FS_CardinalityType

LEMMA DistancePop ==
  ASSUME DistanceInv, SearchInv', UNCHANGED graphArgs, NEW e, PopsNew(e)
  PROVE  DistanceInv'
<1> DEFINE size == Cardinality(seen)
<1>1. e \in queue /\ e.node \in Node /\ e.cost \in Nat
  BY DEF PopsNew, DistanceInv, SearchInv, HeapTyped, Offered
<1>2. IsFiniteSet(seen) /\ size \in Nat
  BY SeenFinite DEF DistanceInv
<1>3. Cardinality(seen') = size + 1 /\ seen' = seen \cup {e.node}
  BY <1>2, FS_AddElement DEF PopsNew
<1> HIDE DEF size
<1>4. WalkStep' = WalkStep /\ src' = src /\ dst' = dst
  BY WalkStepSame
<1>5. HeapTyped /\ src \in Node /\ (\A f \in queue : f.node \in Node /\ f.cost \in Nat)
      /\ (\A n \in seen : n \in Node /\ settled[n] \in Nat)
  BY DEF DistanceInv, SearchInv, HeapTyped, Offered
<1>6. \A n \in Node, c \in Nat : Walked(WalkStep, src, n, c, size) =>
        /\ Walked(WalkStep, src, n, c, size + 1)
        /\ \A m \in ReachableNeighbors(n) :
             Walked(WalkStep, src, m, c + Length(n, m), size + 1)
  BY <1>2, <1>5, WalkedSteps
<1>7. /\ \A n \in seen : Walked(WalkStep, src, n, settled[n], size)
      /\ \A f \in queue : Walked(WalkStep, src, f.node, f.cost, size)
  BY DEF DistanceInv, Traced, size
<1>8. settled' \in [Node -> Int] /\ settled'[e.node] = e.cost /\ \A n \in seen : settled'[n] = settled[n]
  BY <1>1 DEF PopsNew, DistanceInv, SearchInv, HeapTyped
<1>9. \A n \in seen' : Walked(WalkStep, src, n, settled'[n], size + 1)
  <2>1. SUFFICES ASSUME NEW n \in seen'
                 PROVE  Walked(WalkStep, src, n, settled'[n], size + 1)
    OBVIOUS
  <2>2. CASE n = e.node
    BY <1>1, <1>5, <1>6, <1>7, <1>8, <2>2
  <2>3. CASE n \in seen
    BY <1>5, <1>6, <1>7, <1>8, <2>3
  <2>4. QED
    BY <1>3, <2>2, <2>3
<1>10. \A f \in queue' : Walked(WalkStep, src, f.node, f.cost, size + 1)
  <2>1. SUFFICES ASSUME NEW f \in queue'
                 PROVE  Walked(WalkStep, src, f.node, f.cost, size + 1)
    OBVIOUS
  <2>2. CASE f \in queue
    BY <1>5, <1>6, <1>7, <2>2
  <2>3. ASSUME f \in Relax(e)
        PROVE  Walked(WalkStep, src, f.node, f.cost, size + 1)
    <3>1. PICK nb \in Open(e.node) :
            f = [cost |-> e.cost + Length(e.node, nb), node |-> nb,
                 first |-> FirstHop(e.first, nb)]
      BY <2>3 DEF Relax
    <3>2. nb \in ReachableNeighbors(e.node)
      BY DEF Open, ReachableNeighbors
    <3>3. f.node = nb /\ f.cost = e.cost + Length(e.node, nb)
      BY <3>1
    <3>4. QED
      BY <1>1, <1>6, <1>7, <3>2, <3>3
  <2>4. QED
    BY <2>2, <2>3 DEF PopsNew
<1>11. Traced'
  BY <1>3, <1>4, <1>9, <1>10 DEF Traced
<1>12. DstLast'
  <2>1. dst \notin seen
    BY DEF DistanceInv, SearchInv, Outcome, PopsNew
  <2>2. \A n \in seen : settled[n] <= e.cost
    BY <1>1 DEF DistanceInv, SearchInv, Monotone
  <2>3. QED
    BY <1>1, <1>3, <1>4, <1>8, <2>1, <2>2 DEF DstLast
<1>13. QED
  BY <1>11, <1>12 DEF DistanceInv

LEMMA DistanceStep ==
  ASSUME DistanceInv, [Next]_vars
  PROVE  DistanceInv'
<1>1. SearchInv' /\ UNCHANGED graphArgs
  BY SearchStep, SearchChange DEF DistanceInv
<1>2. ASSUME UNCHANGED <<seen, settled>>, queue' \subseteq queue
      PROVE  DistanceInv'
  <2>1. WalkStep' = WalkStep /\ src' = src /\ dst' = dst
    BY <1>1, WalkStepSame
  <2>2. Traced' /\ DstLast'
    BY <1>2, <2>1 DEF DistanceInv, Traced, DstLast
  <2>3. QED
    BY <1>1, <2>2 DEF DistanceInv
<1>3. CASE UNCHANGED <<queue, seen, settled>>
  BY <1>2, <1>3
<1>4. ASSUME NEW e, PopsSeen(e)
      PROVE  DistanceInv'
  BY <1>2, <1>4 DEF PopsSeen
<1>5. ASSUME NEW e, PopsNew(e)
      PROVE  DistanceInv'
  BY <1>1, <1>5, DistancePop
<1>6. QED
  BY <1>3, <1>4, <1>5, SearchChange

\* What was popped was walked to, and no walk to it is shorter.
LEMMA SettledLeast ==
  ASSUME DistanceInv, NEW n \in seen
  PROVE  /\ n \in Node /\ settled[n] \in Nat /\ <<n, settled[n]>> \in Walks(src)
         /\ \A c \in Nat : <<n, c>> \in Walks(src) => settled[n] <= c
<1>1. HeapTyped /\ SearchInv /\ src \in Node /\ n \in Node /\ settled[n] \in Nat
  BY DEF DistanceInv, SearchInv, HeapTyped
<1>2. <<n, settled[n]>> \in Walks(src)
  <2>1. /\ Cardinality(seen) \in Nat /\ Cardinality(Node) \in Nat
        /\ Cardinality(Node) >= Cardinality(seen)
    BY <1>1, SeenFinite
  <2>2. Walked(WalkStep, src, n, settled[n], Cardinality(seen))
    BY DEF DistanceInv, Traced
  <2>3. Walked(WalkStep, src, n, settled[n], Cardinality(Node))
    BY <1>1, <2>1, <2>2, WalkedSteps
  <2>4. QED
    BY <1>1, <2>3, WalksAre
<1>3. PICK t : WalkTable(t, WalkStep, src) /\ Walks(src) = t[Cardinality(Node)]
  BY <1>1, WalksIs
<1>4. ASSUME NEW c \in Nat, <<n, c>> \in Walks(src)
      PROVE  settled[n] <= c
  <2>1. Cardinality(Node) \in Nat
    BY <1>1, SeenFinite
  <2>2. Matched(n, c)
    BY <1>1, <1>3, <1>4, <2>1, TableMatched
  <2>3. CASE dst \in seen /\ settled[dst] <= c
    <3>1. settled[n] <= settled[dst] /\ settled[dst] \in Nat
      BY <2>3 DEF DistanceInv, DstLast, SearchInv, HeapTyped
    <3>2. QED
      BY <1>1, <2>3, <3>1
  <2>4. ASSUME NEW e \in queue, e.cost <= c
        PROVE  settled[n] <= c
    <3>1. settled[n] <= e.cost /\ e.cost \in Nat
      BY DEF DistanceInv, SearchInv, Monotone, HeapTyped, Offered
    <3>2. QED
      BY <1>1, <2>4, <3>1
  <2>5. QED
    BY <2>2, <2>3, <2>4 DEF Matched
<1>5. QED
  BY <1>1, <1>2, <1>4

LEMMA SettledExact ==
  ASSUME DistanceInv
  PROVE  SettledAtDistance
<1>1. HeapTyped /\ src \in Node
  BY DEF DistanceInv, SearchInv, HeapTyped
<1>2. SUFFICES ASSUME NEW n \in seen
               PROVE  settled[n] = CheapestOf(Walks(src), n)
  BY DEF SettledAtDistance
<1>3. /\ n \in Node /\ settled[n] \in Nat /\ <<n, settled[n]>> \in Walks(src)
      /\ \A c \in Nat : <<n, c>> \in Walks(src) => settled[n] <= c
  BY SettledLeast
<1>4. QED
  BY <1>1, <1>3, CheapestIs

\* Both heap searches (lines 67-93 and 147-165) pop a node for the first time at the length
\* of the cheapest walk of online nodes to it, on every graph and for every cost.
THEOREM SettledAtDistanceHolds == Spec => []SettledAtDistance
BY SettledExact, InitFresh, DistanceFresh, DistanceStep, PTL DEF Spec

-----------------------------------------------------------------------------
(* The best first hop *)

\* The entry that Relax(e) pushes for a neighbour.
Onward(e, nb) ==
  [cost |-> e.cost + Length(e.node, nb), node |-> nb, first |-> FirstHop(e.first, nb)]

\* Cheaper, or as cheap with a first hop that is no larger.
NoLater(e, f) ==
  \/ e.cost < f.cost
  \/ e.cost = f.cost /\ \A x \in e.first, y \in f.first : x <= y

\* Only the entry of src has no first hop, and only it costs nothing.
Tagged(e) ==
  /\ e.cost \in Nat /\ e.node \in Node
  /\ \/ e.cost = 0 /\ e.first = {}
     \/ e.cost > 0 /\ \E m \in Node : e.first = {m}

LEMMA NoLaterOrder ==
  ASSUME NEW e, NEW f, NEW g, Tagged(e), Tagged(f), Tagged(g)
  PROVE  /\ NoLater(e, e)
         /\ NoLater(e, f) /\ NoLater(f, g) => NoLater(e, g)
<1>1. Node \subseteq Nat
  BY GraphAssumption
<1>2. NoLater(e, e)
  BY <1>1 DEF NoLater, Tagged
<1>3. ASSUME NoLater(e, f), NoLater(f, g)
      PROVE  NoLater(e, g)
  <2>1. e.cost \in Nat /\ f.cost \in Nat /\ g.cost \in Nat
    BY DEF Tagged
  <2>2. CASE e.cost < g.cost
    BY <2>2 DEF NoLater
  <2>3. ASSUME e.cost = g.cost
        PROVE  NoLater(e, g)
    <3>1. e.cost = f.cost /\ f.cost = g.cost
      BY <1>3, <2>1, <2>3 DEF NoLater
    <3>2. CASE f.first = {}
      <4>1. e.cost = 0
        BY <2>1, <3>1, <3>2 DEF Tagged
      <4>2. e.first = {}
        BY <2>1, <4>1 DEF Tagged
      <4>3. QED
        BY <2>3, <4>2 DEF NoLater
    <3>3. CASE f.first # {}
      <4>1. PICK m \in Node : f.first = {m}
        BY <3>3 DEF Tagged
      <4>2. /\ \A x \in e.first : x <= m /\ x \in Nat
            /\ \A y \in g.first : m <= y /\ y \in Nat
        BY <1>1, <1>3, <2>1, <3>1, <4>1 DEF NoLater, Tagged
      <4>3. \A x \in e.first, y \in g.first : x <= y
        BY <1>1, <4>2
      <4>4. QED
        BY <2>3, <4>3 DEF NoLater
    <3>4. QED
      BY <3>2, <3>3
  <2>4. e.cost < g.cost \/ e.cost = g.cost
    BY <1>3, <2>1 DEF NoLater
  <2>5. QED
    BY <2>2, <2>3, <2>4
<1>4. QED
  BY <1>2, <1>3

\* A link further, the order stays.
LEMMA OnwardOrder ==
  ASSUME HeapTyped, NEW e, NEW f, Tagged(e), Tagged(f), f.node = e.node,
         NEW m \in ReachableNeighbors(e.node)
  PROVE  /\ Tagged(Onward(e, m)) /\ e.cost < Onward(e, m).cost
         /\ NoLater(e, f) => NoLater(Onward(e, m), Onward(f, m))
<1>1. m \in Node /\ Length(e.node, m) \in Nat /\ Length(e.node, m) > 0
  BY LengthPositive DEF Tagged, ReachableNeighbors
<1>2. e.cost \in Nat /\ f.cost \in Nat /\ Node \subseteq Nat
  BY GraphAssumption DEF Tagged
<1>3. \A x \in Node : {x} # {}
  OBVIOUS
<1>4. /\ Onward(e, m).cost = e.cost + Length(e.node, m) /\ Onward(e, m).node = m
      /\ Onward(e, m).first = FirstHop(e.first, m)
      /\ Onward(f, m).cost = f.cost + Length(e.node, m) /\ Onward(f, m).first = FirstHop(f.first, m)
  BY DEF Onward
<1>5. e.cost < Onward(e, m).cost
  BY <1>1, <1>2, <1>4
<1>6. Tagged(Onward(e, m))
  <2>1. Onward(e, m).cost \in Nat /\ Onward(e, m).cost > 0
    BY <1>1, <1>2, <1>4
  <2>2. \E x \in Node : Onward(e, m).first = {x}
    BY <1>1, <1>4 DEF FirstHop, Tagged
  <2>3. QED
    BY <1>1, <1>4, <2>1, <2>2 DEF Tagged
<1>7. ASSUME NoLater(e, f)
      PROVE  NoLater(Onward(e, m), Onward(f, m))
  <2>1. CASE e.cost < f.cost
    <3>1. Onward(e, m).cost < Onward(f, m).cost
      BY <1>1, <1>2, <1>4, <2>1
    <3>2. QED
      BY <3>1 DEF NoLater
  <2>2. CASE e.cost = f.cost /\ \A x \in e.first, y \in f.first : x <= y
    <3>1. e.first = {} <=> f.first = {}
      BY <1>2, <2>2 DEF Tagged
    <3>2. \A x \in FirstHop(e.first, m), y \in FirstHop(f.first, m) : x <= y
      BY <1>1, <1>2, <2>2, <3>1 DEF FirstHop
    <3>3. QED
      BY <1>1, <1>2, <1>4, <2>2, <3>2 DEF NoLater
  <2>3. QED
    BY <1>7, <2>1, <2>2 DEF NoLater
<1>8. QED
  BY <1>5, <1>6, <1>7

\* The hops of src that can be taken, with the length of the link.
Doors == [m \in ReachableNeighbors(src) |-> Length(src, m)]

\* The entry of src, or one that a walk of at most k links from its first hop accounts for.
Headed(step, start, doors, e, k) ==
  \/ e.first = {} /\ e.node = start /\ e.cost = 0
  \/ \E m \in DOMAIN doors, d \in Nat :
       e.first = {m} /\ e.cost = doors[m] + d /\ Walked(step, m, e.node, d, k)

\* popped is the set of the entries that settled a node.
HistoryInv(popped) ==
  /\ \A e \in popped : e.node \in seen /\ settled[e.node] = e.cost
  /\ \A n \in seen : \E e \in popped : e.node = n
  /\ \A e, f \in popped : e.node = f.node => e = f
  /\ \A e \in popped \cup queue : Headed(WalkStep, src, Doors, e, Cardinality(seen)) /\ Tagged(e)
  /\ \A e \in popped : \A f \in queue : e.node = f.node => NoLater(e, f)
  /\ \A e \in popped : e.node # dst => \A m \in ReachableNeighbors(e.node) :
       \E f \in popped \cup queue : f.node = m /\ NoLater(f, Onward(e, m))
  /\ \E f \in popped \cup queue : f.node = src /\ f.cost = 0
  /\ dst \in seen => \E e \in popped : e.node = dst /\ answer = e.first

BestInv == DistanceInv /\ \E popped : HistoryInv(popped)

LEMMA BestFresh ==
  ASSUME Fresh
  PROVE  BestInv
<1>1. DistanceInv
  BY DistanceFresh
<1>2. src \in Node /\ queue = {[cost |-> 0, node |-> src, first |-> {}]} /\ seen = {}
  BY DEF Fresh
<1>3. \A e \in queue : e.cost = 0 /\ e.node = src /\ e.first = {}
  BY <1>2
<1>4. \A e \in queue : Headed(WalkStep, src, Doors, e, Cardinality(seen)) /\ Tagged(e)
  BY <1>2, <1>3 DEF Headed, Tagged
<1>5. \E f \in queue : f.node = src /\ f.cost = 0
  BY <1>2
<1>6. HistoryInv({})
  BY <1>2, <1>4, <1>5 DEF HistoryInv
<1>7. QED
  BY <1>1, <1>6 DEF BestInv

LEMMA Rigid ==
  ASSUME UNCHANGED graphArgs
  PROVE  /\ WalkStep' = WalkStep /\ Doors' = Doors /\ src' = src /\ dst' = dst
         /\ \A n : ReachableNeighbors(n)' = ReachableNeighbors(n)
         /\ \A e, m : Onward(e, m)' = Onward(e, m)
<1>1. \A a, b : Length(a, b)' = Length(a, b)
  BY DEF Length, graphArgs
<1>2. \A a : ReachableNeighbors(a)' = ReachableNeighbors(a)
  BY DEF ReachableNeighbors, graphArgs
<1>3. \A e, m : Onward(e, m)' = Onward(e, m)
  BY <1>1 DEF Onward, graphArgs
<1>4. src' = src /\ dst' = dst
  BY DEF graphArgs
<1>5. Doors' = Doors
  BY <1>1, <1>2, <1>4 DEF Doors
<1>6. QED
  BY <1>2, <1>3, <1>4, <1>5, WalkStepSame

\* Popping a node that was popped before: what was popped then makes up for the entry lost.
LEMMA BestPopSeen ==
  ASSUME DistanceInv, NEW popped, HistoryInv(popped), UNCHANGED graphArgs,
         NEW e, PopsSeen(e)
  PROVE  HistoryInv(popped)'
<1>1. /\ WalkStep' = WalkStep /\ Doors' = Doors /\ src' = src /\ dst' = dst
      /\ \A n : ReachableNeighbors(n)' = ReachableNeighbors(n)
      /\ \A f, m : Onward(f, m)' = Onward(f, m)
  BY Rigid
<1>2. /\ seen' = seen /\ settled' = settled /\ answer' = answer /\ queue' = queue \ {e}
      /\ e \in queue /\ e.node \in seen
  BY DEF PopsSeen
<1>3. PICK p \in popped : p.node = e.node /\ NoLater(p, e)
  BY <1>2 DEF HistoryInv
<1>4. \A f \in popped \cup queue : Tagged(f)
  BY DEF HistoryInv
<1>5. ASSUME NEW g, Tagged(g), NEW f \in popped \cup queue, f.node = g.node, NoLater(f, g)
      PROVE  \E h \in popped \cup queue' : h.node = g.node /\ NoLater(h, g)
  <2>1. CASE f = e
    <3>1. NoLater(p, g)
      BY <1>2, <1>3, <1>4, <1>5, <2>1, NoLaterOrder
    <3>2. QED
      BY <1>3, <1>5, <2>1, <3>1
  <2>2. CASE f # e
    BY <1>2, <1>5, <2>2
  <2>3. QED
    BY <2>1, <2>2
<1>6. \A f \in popped : f.node # dst => \A m \in ReachableNeighbors(f.node) :
        \E g \in popped \cup queue' : g.node = m /\ NoLater(g, Onward(f, m))
  <2>1. SUFFICES ASSUME NEW f \in popped, f.node # dst, NEW m \in ReachableNeighbors(f.node)
                 PROVE  \E g \in popped \cup queue' : g.node = m /\ NoLater(g, Onward(f, m))
    OBVIOUS
  <2>2. PICK g \in popped \cup queue : g.node = m /\ NoLater(g, Onward(f, m))
    BY <2>1 DEF HistoryInv
  <2>3. Tagged(Onward(f, m)) /\ Onward(f, m).node = m
    <3>1. HeapTyped /\ Tagged(f)
      BY <1>4 DEF DistanceInv, SearchInv
    <3>2. Tagged(Onward(f, m))
      BY <3>1, OnwardOrder
    <3>3. QED
      BY <3>2 DEF Onward
  <2>4. QED
    BY <1>5, <2>2, <2>3
<1>7. \E f \in popped \cup queue' : f.node = src /\ f.cost = 0
  <2>1. PICK f \in popped \cup queue : f.node = src /\ f.cost = 0
    BY DEF HistoryInv
  <2>2. PICK h \in popped \cup queue' : h.node = src /\ NoLater(h, f)
    <3>1. Tagged(f) /\ NoLater(f, f)
      BY <1>4, NoLaterOrder
    <3>2. QED
      BY <1>5, <2>1, <3>1
  <2>3. h.cost \in Nat
    BY <1>2, <1>4 DEF Tagged
  <2>4. h.cost = 0
    BY <2>1, <2>2, <2>3 DEF NoLater
  <2>5. QED
    BY <2>2, <2>4
<1>8. QED
  BY <1>1, <1>2, <1>6, <1>7 DEF HistoryInv

-----------------------------------------------------------------------------
LEMMA DoorsTyped ==
  ASSUME HeapTyped
  PROVE  /\ DOMAIN Doors = ReachableNeighbors(src)
         /\ \A m \in ReachableNeighbors(src) : /\ Doors[m] = Length(src, m) /\ m \in Node
                                               /\ Doors[m] \in Nat /\ Doors[m] > 0
<1>1. src \in Node
  BY DEF HeapTyped
<1>2. QED
  BY <1>1, LengthPositive DEF Doors, ReachableNeighbors

\* Where a walk has come by a first hop, a walk with a link more has come by it as well.
LEMMA HeadedOn ==
  ASSUME HeapTyped, NEW e, Tagged(e), NEW k \in Nat, Headed(WalkStep, src, Doors, e, k)
  PROVE  /\ Headed(WalkStep, src, Doors, e, k + 1)
         /\ \A nb \in ReachableNeighbors(e.node) :
              Headed(WalkStep, src, Doors, Onward(e, nb), k + 1)
<1>1. DOMAIN Doors = ReachableNeighbors(src)
  BY DoorsTyped
<1>2. \A m \in DOMAIN Doors : Doors[m] = Length(src, m) /\ m \in Node /\ Doors[m] \in Nat
  BY DoorsTyped
<1>3. \A m \in DOMAIN Doors : \A n \in Node, d \in Nat : Walked(WalkStep, m, n, d, k) =>
        /\ Walked(WalkStep, m, n, d, k + 1)
        /\ \A nb \in ReachableNeighbors(n) :
             Walked(WalkStep, m, nb, d + Length(n, nb), k + 1)
  BY <1>2, WalkedSteps
<1>4. e.node \in Node /\ e.cost \in Nat
  BY DEF Tagged
<1>5. Headed(WalkStep, src, Doors, e, k + 1)
  BY <1>3, <1>4 DEF Headed
<1>6. ASSUME NEW nb \in ReachableNeighbors(e.node)
      PROVE  Headed(WalkStep, src, Doors, Onward(e, nb), k + 1)
  <2>1. nb \in Node /\ Length(e.node, nb) \in Nat
    BY <1>4, LengthPositive DEF ReachableNeighbors
  <2>2. /\ Onward(e, nb).cost = e.cost + Length(e.node, nb) /\ Onward(e, nb).node = nb
        /\ Onward(e, nb).first = FirstHop(e.first, nb)
    BY DEF Onward
  <2>3. CASE e.first = {} /\ e.node = src /\ e.cost = 0
    <3>1. nb \in DOMAIN Doors /\ Doors[nb] = Length(e.node, nb)
      BY <1>1, <1>2, <2>3
    <3>2. Walked(WalkStep, nb, nb, 0, k + 1)
      BY <2>1, WalkedSteps
    <3>3. Onward(e, nb).first = {nb} /\ Onward(e, nb).cost = Doors[nb] + 0
      BY <2>1, <2>2, <2>3, <3>1 DEF FirstHop
    <3>4. QED
      BY <2>2, <3>1, <3>2, <3>3 DEF Headed
  <2>4. ASSUME NEW m \in DOMAIN Doors, NEW d \in Nat, e.first = {m}, e.cost = Doors[m] + d,
               Walked(WalkStep, m, e.node, d, k)
        PROVE  Headed(WalkStep, src, Doors, Onward(e, nb), k + 1)
    <3>1. Walked(WalkStep, m, nb, d + Length(e.node, nb), k + 1)
      BY <1>3, <1>4, <2>4
    <3>2. Onward(e, nb).first = {m}
      BY <2>2, <2>4 DEF FirstHop
    <3>3. d + Length(e.node, nb) \in Nat
          /\ Onward(e, nb).cost = Doors[m] + (d + Length(e.node, nb))
      BY <1>2, <2>1, <2>2, <2>4
    <3>4. QED
      BY <2>2, <3>1, <3>2, <3>3 DEF Headed
  <2>5. QED
    BY <2>3, <2>4 DEF Headed
<1>7. QED
  BY <1>5, <1>6

\* Popping a new node: the entry moves to those that settled one, and every link it has is
\* offered to the heap, or leads to a node settled more cheaply.
LEMMA BestPopNew ==
  ASSUME DistanceInv, NEW popped, HistoryInv(popped), UNCHANGED graphArgs,
         NEW e, PopsNew(e)
  PROVE  HistoryInv(popped \cup {e})'
<1> DEFINE more == popped \cup {e}
           size == Cardinality(seen)
<1>1. /\ WalkStep' = WalkStep /\ Doors' = Doors /\ src' = src /\ dst' = dst
      /\ \A n : ReachableNeighbors(n)' = ReachableNeighbors(n)
      /\ \A f, m : Onward(f, m)' = Onward(f, m)
  BY Rigid
<1>2. /\ seen' = seen \cup {e.node} /\ e.node \notin seen /\ e \in queue
      /\ \A f \in queue : Precedes(e, f)
      /\ settled' = [settled EXCEPT ![e.node] = e.cost]
      /\ \/ e.node = dst /\ queue' = queue \ {e} /\ Return(e.first)
         \/ e.node # dst /\ queue' = (queue \ {e}) \cup Relax(e) /\ UNCHANGED <<answer, done>>
  BY DEF PopsNew
<1>3. HeapTyped /\ SearchInv
  BY DEF DistanceInv, SearchInv
<1>4. size \in Nat /\ Cardinality(seen') = size + 1
  <2>1. IsFiniteSet(seen) /\ Cardinality(seen) \in Nat
    BY <1>3, SeenFinite
  <2>2. QED
    BY <1>2, <2>1, FS_AddElement
<1> HIDE DEF size
<1>5. \A f \in popped \cup queue : Headed(WalkStep, src, Doors, f, size) /\ Tagged(f)
  BY DEF HistoryInv, size
<1>6. e.node \in Node /\ e.cost \in Nat /\ Tagged(e)
  BY <1>2, <1>5 DEF Tagged
<1>7. settled'[e.node] = e.cost /\ \A n \in seen : settled'[n] = settled[n]
  BY <1>2, <1>3, <1>6 DEF HeapTyped
<1>8. /\ \A f \in popped : f.node \in seen /\ settled[f.node] = f.cost
      /\ \A n \in seen : \E f \in popped : f.node = n
      /\ \A f, g \in popped : f.node = g.node => f = g
  BY DEF HistoryInv
<1>9. Relax(e) = {Onward(e, nb) : nb \in Open(e.node)}
  BY DEF Relax, Onward
<1>10. \A nb \in Open(e.node) : nb \in ReachableNeighbors(e.node) /\ nb \notin seen'
  BY DEF Open, ReachableNeighbors
<1>11. \A f \in Relax(e) : /\ Headed(WalkStep, src, Doors, f, size + 1) /\ Tagged(f)
                           /\ f.node \notin seen'
  <2>1. SUFFICES ASSUME NEW nb \in Open(e.node)
                 PROVE  /\ Headed(WalkStep, src, Doors, Onward(e, nb), size + 1)
                        /\ Tagged(Onward(e, nb)) /\ Onward(e, nb).node \notin seen'
    BY <1>9
  <2>2. nb \in ReachableNeighbors(e.node) /\ nb \notin seen'
    BY <1>10
  <2>3. Headed(WalkStep, src, Doors, e, size)
    BY <1>2, <1>5
  <2>4. Headed(WalkStep, src, Doors, Onward(e, nb), size + 1)
    BY <1>3, <1>4, <1>6, <2>2, <2>3, HeadedOn
  <2>5. Tagged(Onward(e, nb))
    BY <1>3, <1>6, <2>2, OnwardOrder
  <2>6. Onward(e, nb).node = nb
    BY DEF Onward
  <2>7. QED
    BY <2>2, <2>4, <2>5, <2>6
<1>12. \A f \in queue' : (f \in queue /\ f # e) \/ f \in Relax(e)
  BY <1>2
<1>13. popped \cup queue \subseteq more \cup queue'
  BY <1>2
\* What settled a node.
<1>14. /\ \A f \in more : f.node \in seen' /\ settled'[f.node] = f.cost
       /\ \A n \in seen' : \E f \in more : f.node = n
       /\ \A f, g \in more : f.node = g.node => f = g
  <2>1. \A f \in more : f = e \/ (f \in popped /\ f.node \in seen /\ f.node # e.node)
    BY <1>2, <1>8
  <2>2. \A f \in more : f.node \in seen' /\ settled'[f.node] = f.cost
    BY <1>2, <1>7, <1>8, <2>1
  <2>3. \A n \in seen' : \E f \in more : f.node = n
    BY <1>2, <1>8
  <2>4. \A f, g \in more : f.node = g.node => f = g
    BY <1>8, <2>1
  <2>5. QED
    BY <2>2, <2>3, <2>4
<1>15. \A f \in more \cup queue' : Headed(WalkStep, src, Doors, f, size + 1) /\ Tagged(f)
  <2>1. SUFFICES ASSUME NEW f \in more \cup queue'
                 PROVE  Headed(WalkStep, src, Doors, f, size + 1) /\ Tagged(f)
    OBVIOUS
  <2>2. CASE f \in popped \cup queue
    <3>1. Headed(WalkStep, src, Doors, f, size) /\ Tagged(f)
      BY <1>5, <2>2
    <3>2. QED
      BY <1>3, <1>4, <3>1, HeadedOn
  <2>3. CASE f \in Relax(e)
    BY <1>11, <2>3
  <2>4. QED
    BY <1>2, <1>12, <2>2, <2>3
<1>16. \A f \in more : \A g \in queue' : f.node = g.node => NoLater(f, g)
  <2>1. SUFFICES ASSUME NEW f \in more, NEW g \in queue', f.node = g.node
                 PROVE  NoLater(f, g)
    OBVIOUS
  <2>2. g \in queue
    BY <1>11, <1>12, <1>14, <2>1
  <2>3. CASE f \in popped
    BY <2>1, <2>2, <2>3 DEF HistoryInv
  <2>4. CASE f = e
    <3>1. Precedes(e, g) /\ e.node = g.node /\ e.node \in Nat
      BY <1>2, <1>6, <2>1, <2>2, <2>4, GraphAssumption
    <3>2. QED
      BY <2>4, <3>1 DEF Precedes, NoLater
  <2>5. QED
    BY <2>3, <2>4
<1>17. \A f \in more : f.node # dst => \A m \in ReachableNeighbors(f.node) :
         \E g \in more \cup queue' : g.node = m /\ NoLater(g, Onward(f, m))
  <2>1. SUFFICES ASSUME NEW f \in more, f.node # dst, NEW m \in ReachableNeighbors(f.node)
                 PROVE  \E g \in more \cup queue' : g.node = m /\ NoLater(g, Onward(f, m))
    OBVIOUS
  <2>2. CASE f \in popped
    <3>1. \E g \in popped \cup queue : g.node = m /\ NoLater(g, Onward(f, m))
      BY <2>1, <2>2 DEF HistoryInv
    <3>2. QED
      BY <1>13, <3>1
  <2>3. CASE f = e
    <3>0. /\ Tagged(Onward(e, m)) /\ e.cost < Onward(e, m).cost /\ Onward(e, m).node = m
          /\ Onward(e, m).cost \in Nat
      <4>1. Tagged(Onward(e, m)) /\ e.cost < Onward(e, m).cost
        BY <1>3, <1>6, <2>3, OnwardOrder
      <4>2. QED
        BY <4>1 DEF Onward, Tagged
    <3>1. CASE m \in seen
      <4>1. PICK g \in popped : g.node = m
        BY <1>8, <3>1
      <4>2. g.cost \in Nat /\ g.cost <= e.cost
        BY <1>2, <1>3, <1>5, <1>8, <3>1, <4>1 DEF SearchInv, Monotone, Tagged
      <4>3. g.cost < Onward(e, m).cost
        BY <1>6, <3>0, <4>2
      <4>4. QED
        BY <2>3, <4>1, <4>3 DEF NoLater
    <3>2. CASE m \notin seen
      <4>1. m # e.node
        BY <1>6, <2>3, GraphAssumption DEF ReachableNeighbors
      <4>2. m \in Open(e.node)
        BY <1>2, <2>3, <3>2, <4>1 DEF Open, ReachableNeighbors
      <4>3. Onward(e, m) \in queue'
        BY <1>2, <1>9, <2>1, <2>3, <4>2
      <4>4. NoLater(Onward(e, m), Onward(e, m))
        BY <3>0, NoLaterOrder
      <4>5. QED
        BY <2>3, <3>0, <4>3, <4>4
    <3>3. QED
      BY <3>1, <3>2
  <2>4. QED
    BY <2>2, <2>3
<1>18. \E f \in more \cup queue' : f.node = src /\ f.cost = 0
  <2>1. \E f \in popped \cup queue : f.node = src /\ f.cost = 0
    BY DEF HistoryInv
  <2>2. QED
    BY <1>13, <2>1
<1>19. dst \in seen' => \E f \in more : f.node = dst /\ answer' = f.first
  <2>1. dst \notin seen
    BY <1>3 DEF SearchInv, Outcome, PopsNew
  <2>2. QED
    BY <1>2, <2>1 DEF Return
<1> HIDE DEF more
<1>20. HistoryInv(more)'
  BY <1>1, <1>4, <1>14, <1>15, <1>16, <1>17, <1>18, <1>19 DEF HistoryInv
<1>21. QED
  BY <1>20 DEF more

LEMMA BestStep ==
  ASSUME BestInv, [Next]_vars
  PROVE  BestInv'
<1>1. DistanceInv /\ DistanceInv'
  BY DistanceStep DEF BestInv
<1>2. PICK popped : HistoryInv(popped)
  BY DEF BestInv
<1>3. UNCHANGED graphArgs
  BY SearchChange
<1>4. ASSUME NEW p, HistoryInv(p)'
      PROVE  BestInv'
  BY <1>1, <1>4 DEF BestInv
<1>5. CASE UNCHANGED <<queue, seen, settled>>
  <2>1. /\ WalkStep' = WalkStep /\ Doors' = Doors /\ src' = src /\ dst' = dst
        /\ \A n : ReachableNeighbors(n)' = ReachableNeighbors(n)
        /\ \A f, m : Onward(f, m)' = Onward(f, m)
    BY <1>3, Rigid
  <2>2. dst \in seen => answer' = answer
    <3>1. CASE ReturnSelf \/ NoPath \/ Pop
      BY <1>1, <3>1, <1>5 DEF ReturnSelf, NoPath, Pop, DistanceInv, SearchInv, Outcome
    <3>2. CASE UNCHANGED answer
      BY <3>2
    <3>3. QED
      BY <3>1, <3>2 DEF Next, Returned, vars, heapVars, StartBfs, StepBfs, FinishLandmarks
  <2>3. HistoryInv(popped)'
    BY <1>2, <1>5, <2>1, <2>2 DEF HistoryInv
  <2>4. QED
    BY <1>4, <2>3
<1>6. ASSUME NEW e, PopsSeen(e)
      PROVE  BestInv'
  BY <1>1, <1>2, <1>3, <1>4, <1>6, BestPopSeen
<1>7. ASSUME NEW e, PopsNew(e)
      PROVE  BestInv'
  BY <1>1, <1>2, <1>3, <1>4, <1>7, BestPopNew
<1>8. QED
  BY <1>5, <1>6, <1>7, SearchChange

-----------------------------------------------------------------------------
\* Wherever a walk has come, the search was there no later, or is about to be somewhere
\* cheaper, or has stopped at dst for less.
Led(popped, g) ==
  \/ \E f \in popped : f.node = g.node /\ NoLater(f, g)
  \/ \E f \in queue : f.cost < g.cost \/ (f.node = g.node /\ NoLater(f, g))
  \/ \E f \in popped : f.node = dst /\ f.cost < g.cost

LEMMA LedOn ==
  ASSUME DistanceInv, NEW popped, HistoryInv(popped), NEW g, Tagged(g), Led(popped, g),
         NEW m \in ReachableNeighbors(g.node)
  PROVE  Tagged(Onward(g, m)) /\ Onward(g, m).node = m /\ Led(popped, Onward(g, m))
<1>1. HeapTyped
  BY DEF DistanceInv, SearchInv
<1>2. Tagged(Onward(g, m)) /\ Onward(g, m).node = m /\ g.cost < Onward(g, m).cost
  <2>1. Tagged(Onward(g, m)) /\ g.cost < Onward(g, m).cost
    BY <1>1, OnwardOrder
  <2>2. QED
    BY <2>1 DEF Onward
<1>3. \A f \in popped \cup queue : Tagged(f)
  BY DEF HistoryInv
<1>4. g.cost \in Nat /\ Onward(g, m).cost \in Nat /\ \A f \in popped \cup queue : f.cost \in Nat
  BY <1>2, <1>3 DEF Tagged
<1>5. ASSUME NEW f \in popped, f.node = g.node, NoLater(f, g)
      PROVE  Led(popped, Onward(g, m))
  <2>1. f.cost <= g.cost
    BY <1>4, <1>5 DEF NoLater
  <2>2. CASE f.node = dst
    <3>1. f.cost < Onward(g, m).cost
      BY <1>2, <1>4, <2>1
    <3>2. QED
      BY <2>2, <3>1 DEF Led
  <2>3. CASE f.node # dst
    <3>1. PICK h \in popped \cup queue : h.node = m /\ NoLater(h, Onward(f, m))
      BY <1>5, <2>3 DEF HistoryInv
    <3>2. NoLater(Onward(f, m), Onward(g, m)) /\ Tagged(Onward(f, m))
      BY <1>1, <1>3, <1>5, OnwardOrder
    <3>3. NoLater(h, Onward(g, m))
      BY <1>2, <1>3, <3>1, <3>2, NoLaterOrder
    <3>4. QED
      BY <1>2, <3>1, <3>3 DEF Led
  <2>4. QED
    BY <2>2, <2>3
<1>6. ASSUME NEW f \in popped \cup queue, f.cost <= g.cost
      PROVE  f.cost < Onward(g, m).cost
  BY <1>2, <1>4, <1>6
<1>7. ASSUME NEW f \in queue, f.cost < g.cost \/ (f.node = g.node /\ NoLater(f, g))
      PROVE  Led(popped, Onward(g, m))
  <2>1. f.cost <= g.cost
    BY <1>4, <1>7 DEF NoLater
  <2>2. f.cost < Onward(g, m).cost
    BY <1>6, <2>1
  <2>3. QED
    BY <2>2 DEF Led
<1>8. ASSUME NEW f \in popped, f.node = dst, f.cost < g.cost
      PROVE  Led(popped, Onward(g, m))
  <2>1. f.cost <= g.cost
    BY <1>4, <1>8
  <2>2. f.cost < Onward(g, m).cost
    BY <1>6, <2>1
  <2>3. QED
    BY <1>8, <2>2 DEF Led
<1>9. QED
  BY <1>2, <1>5, <1>7, <1>8 DEF Led

\* The entry of a walk that leaves src for m and is then d further, at n.
By(m, n, d) == [cost |-> Length(src, m) + d, node |-> n, first |-> {m}]

LEMMA TableLed ==
  ASSUME DistanceInv, NEW popped, HistoryInv(popped), NEW m \in ReachableNeighbors(src),
         NEW t, WalkTable(t, WalkStep, m), NEW k \in Nat,
         NEW n \in Node, NEW d \in Nat, <<n, d>> \in t[k]
  PROVE  Led(popped, By(m, n, d))
<1>1. HeapTyped /\ src \in Node /\ m \in Node /\ Length(src, m) \in Nat /\ Length(src, m) > 0
  <2>1. HeapTyped /\ src \in Node
    BY DEF DistanceInv, SearchInv, HeapTyped
  <2>2. QED
    BY <2>1, LengthPositive DEF ReachableNeighbors
<1>2. \A x \in Node, y \in Nat : Tagged(By(m, x, y))
  BY <1>1 DEF Tagged, By
<1> DEFINE W == {j \in Nat : \E x \in Node, y \in Nat : <<x, y>> \in t[j] /\ ~Led(popped, By(m, x, y))}
<1> SUFFICES ASSUME W # {} PROVE FALSE
  OBVIOUS
<1>3. W \in SUBSET Nat
  OBVIOUS
<1> HIDE DEF W
<1>4. PICK j \in W : \A i \in W : j <= i
  BY <1>3, LeastNatural
<1> USE DEF W
<1>5. PICK a \in Node, b \in Nat : <<a, b>> \in t[j] /\ ~Led(popped, By(m, a, b))
  BY <1>4
<1>6. j # 0
  <2>1. CASE j = 0
    <3>1. a = m /\ b = 0
      BY <1>1, <1>5, <2>1, TableSteps
    <3> DEFINE g == [cost |-> 0, node |-> src, first |-> {}]
    <3>2. Tagged(g) /\ g.node = src
      BY <1>1 DEF Tagged
    <3>3. Led(popped, g)
      <4>1. PICK f \in popped \cup queue : f.node = src /\ f.cost = 0
        BY DEF HistoryInv
      <4>2. NoLater(f, g)
        BY <4>1 DEF NoLater
      <4>3. QED
        BY <4>1, <4>2 DEF Led
    <3>4. Onward(g, m) = By(m, m, 0)
      <4>1. FirstHop({}, m) = {m} /\ 0 + Length(src, m) = Length(src, m) + 0
        BY <1>1 DEF FirstHop
      <4>2. QED
        BY <4>1 DEF Onward, By
    <3> HIDE DEF g
    <3>5. Led(popped, Onward(g, m))
      BY <3>2, <3>3, LedOn
    <3>6. QED
      BY <1>5, <3>1, <3>4, <3>5
  <2>2. QED
    BY <2>1
<1> DEFINE i == j - 1
<1>7. i \in Nat /\ i + 1 = j /\ j \in Nat /\ ~(j <= i)
  BY <1>4, <1>6
<1>8. \A x \in Node, y \in Nat : <<x, y>> \in t[i] => Led(popped, By(m, x, y))
  BY <1>4, <1>7
<1> HIDE DEF i, W
<1>9. \/ <<a, b>> \in t[i]
      \/ \E x \in Node, y \in Nat : <<x, y>> \in t[i] /\ a \in ReachableNeighbors(x)
                                    /\ b = y + Length(x, a)
  <2>1. <<a, b>> \in t[i + 1]
    BY <1>5, <1>7
  <2>2. \A k1 \in Nat, n1 \in Node, c1 \in Nat :
          <<n1, c1>> \in t[k1 + 1] <=>
            \/ <<n1, c1>> \in t[k1]
            \/ \E x \in Node, y \in Nat : /\ <<x, y>> \in t[k1] /\ n1 \in ReachableNeighbors(x)
                                          /\ c1 = y + Length(x, n1)
    BY <1>1, TableSteps
  <2>3. <<a, b>> \in t[i + 1] <=>
          \/ <<a, b>> \in t[i]
          \/ \E x \in Node, y \in Nat : /\ <<x, y>> \in t[i] /\ a \in ReachableNeighbors(x)
                                        /\ b = y + Length(x, a)
    BY <1>7, <2>2
  <2>4. QED
    BY <2>1, <2>3
<1>10. ASSUME NEW x \in Node, NEW y \in Nat, <<x, y>> \in t[i], a \in ReachableNeighbors(x),
              b = y + Length(x, a)
       PROVE  FALSE
  <2>1. Led(popped, By(m, x, y)) /\ Tagged(By(m, x, y)) /\ By(m, x, y).node = x
    BY <1>2, <1>8, <1>10 DEF By
  <2>2. Led(popped, Onward(By(m, x, y), a))
    BY <1>10, <2>1, LedOn
  <2>3. Onward(By(m, x, y), a) = By(m, a, b)
    <3>1. Length(x, a) \in Nat
      BY <1>1, <1>10, LengthPositive DEF ReachableNeighbors
    <3>2. (Length(src, m) + y) + Length(x, a) = Length(src, m) + b
      BY <1>1, <1>10, <3>1
    <3>3. FirstHop({m}, a) = {m}
      BY DEF FirstHop
    <3>4. QED
      BY <3>2, <3>3 DEF Onward, By
  <2>4. QED
    BY <1>5, <2>2, <2>3
<1>11. QED
  BY <1>5, <1>8, <1>9, <1>10

\* When the search is over: the hop returned starts a walk of the length at which dst was
\* popped, no hop starts a shorter one, and one of a smaller number starts only longer ones;
\* or no hop starts any.
NothingFound ==
  /\ answer = {} /\ \A m \in ReachableNeighbors(src), c \in Nat : <<dst, c>> \notin Walks(m)
  /\ \A c \in Nat : <<dst, c>> \notin Walks(src)
FoundBest(hop, d) ==
  /\ hop \in ReachableNeighbors(src) /\ answer = {hop} /\ d \in Nat /\ <<dst, d>> \in Walks(hop)
  /\ Length(src, hop) + d < Unreached /\ Length(src, hop) + d = Cheapest(src, dst)
  /\ \A m \in ReachableNeighbors(src), c \in Nat : <<dst, c>> \in Walks(m) =>
       /\ Length(src, hop) + d <= Length(src, m) + c
       /\ Length(src, hop) + d = Length(src, m) + c => hop <= m

LEMMA SearchFinds ==
  ASSUME BestInv, done, task # "landmarks", src # dst
  PROVE  NothingFound \/ \E hop \in Node, d \in Nat : FoundBest(hop, d)
<1>1. DistanceInv /\ SearchInv /\ HeapTyped /\ src \in Node /\ dst \in Node
  BY DEF BestInv, DistanceInv, SearchInv, HeapTyped
<1>2. PICK popped : HistoryInv(popped)
  BY DEF BestInv
<1>3. \A m \in ReachableNeighbors(src) : m \in Node /\ Length(src, m) \in Nat /\ Length(src, m) > 0
  BY <1>1, LengthPositive DEF ReachableNeighbors
<1>4. ASSUME NEW m \in ReachableNeighbors(src), NEW c \in Nat, <<dst, c>> \in Walks(m)
      PROVE  Led(popped, By(m, dst, c))
  <2>1. PICK t : WalkTable(t, WalkStep, m) /\ Walks(m) = t[Cardinality(Node)]
    BY <1>1, <1>3, WalksIs
  <2>2. Cardinality(Node) \in Nat
    BY <1>1, SeenFinite
  <2>3. QED
    BY <1>1, <1>2, <1>4, <2>1, <2>2, TableLed
<1>5. CASE dst \notin seen
  <2>1. answer = {} /\ queue = {}
    BY <1>1, <1>5 DEF SearchInv, Outcome
  <2>2. \A f \in popped : f.node \in seen
    BY <1>2 DEF HistoryInv
  <2>3. ASSUME NEW m \in ReachableNeighbors(src), NEW c \in Nat, <<dst, c>> \in Walks(m)
        PROVE  FALSE
    <3>1. Led(popped, By(m, dst, c)) /\ By(m, dst, c).node = dst
      BY <1>4, <2>3 DEF By
    <3>2. QED
      BY <1>5, <2>1, <2>2, <3>1 DEF Led
  <2>4. ASSUME NEW c \in Nat, <<dst, c>> \in Walks(src)
        PROVE  FALSE
    <3>1. PICK t : WalkTable(t, WalkStep, src) /\ Walks(src) = t[Cardinality(Node)]
      BY <1>1, WalksIs
    <3>2. Cardinality(Node) \in Nat
      BY <1>1, SeenFinite
    <3>3. Matched(dst, c)
      BY <1>1, <2>4, <3>1, <3>2, TableMatched
    <3>4. QED
      BY <1>5, <2>1, <3>3 DEF Matched
  <2>5. QED
    BY <2>1, <2>3, <2>4 DEF NothingFound
<1>6. CASE dst \in seen
  <2>1. PICK e \in popped : e.node = dst /\ answer = e.first
    BY <1>2, <1>6 DEF HistoryInv
  <2>2. /\ Headed(WalkStep, src, Doors, e, Cardinality(seen)) /\ Tagged(e)
        /\ settled[dst] = e.cost
    BY <1>2, <2>1 DEF HistoryInv
  <2>3. PICK hop \in DOMAIN Doors, d \in Nat :
          /\ e.first = {hop} /\ e.cost = Doors[hop] + d
          /\ Walked(WalkStep, hop, e.node, d, Cardinality(seen))
    BY <2>1, <2>2 DEF Headed
  <2>4. hop \in ReachableNeighbors(src) /\ Doors[hop] = Length(src, hop) /\ hop \in Node
    BY <1>1, <2>3, DoorsTyped
  <2>5. <<dst, d>> \in Walks(hop)
    <3>1. /\ Cardinality(seen) \in Nat /\ Cardinality(Node) \in Nat
          /\ Cardinality(Node) >= Cardinality(seen)
      BY <1>1, SeenFinite
    <3>2. Walked(WalkStep, hop, dst, d, Cardinality(Node))
      BY <1>1, <2>1, <2>3, <2>4, <3>1, WalkedSteps
    <3>3. QED
      BY <1>1, <2>4, <3>2, WalksAre
  <2>6. e.cost = Length(src, hop) + d /\ e.cost \in Nat
    BY <2>2, <2>3, <2>4 DEF Tagged
  <2>7. Length(src, hop) + d < Unreached /\ Length(src, hop) + d = Cheapest(src, dst)
    <3>1. /\ <<dst, settled[dst]>> \in Walks(src) /\ settled[dst] \in Nat
          /\ \A c \in Nat : <<dst, c>> \in Walks(src) => settled[dst] <= c
      BY <1>1, <1>6, SettledLeast
    <3>2. settled[dst] < Unreached /\ settled[dst] = CheapestOf(Walks(src), dst)
      BY <1>1, <3>1, CheapestIs
    <3>3. QED
      BY <2>2, <2>6, <3>2 DEF Cheapest
  <2>8. ASSUME NEW m \in ReachableNeighbors(src), NEW c \in Nat, <<dst, c>> \in Walks(m)
        PROVE  /\ e.cost <= Length(src, m) + c
               /\ e.cost = Length(src, m) + c => hop <= m
    <3> DEFINE g == By(m, dst, c)
    <3>1. g.node = dst /\ g.cost = Length(src, m) + c /\ g.first = {m} /\ g.cost \in Nat
      BY <1>3 DEF By
    <3>2. Led(popped, g)
      BY <1>4, <2>8
    <3> HIDE DEF g
    <3>3. NoLater(e, g) => e.cost <= g.cost /\ (e.cost = g.cost => hop <= m)
      BY <2>3, <2>6, <3>1 DEF NoLater
    <3>4. \A f \in popped : f.node = dst => f = e
      BY <1>2, <2>1 DEF HistoryInv
    <3>5. ASSUME NEW f \in queue, f.cost < g.cost \/ (f.node = g.node /\ NoLater(f, g))
          PROVE  e.cost < g.cost \/ NoLater(e, g)
      <4>1. e.cost <= f.cost /\ f.cost \in Nat
        BY <1>1, <1>6, <2>2 DEF SearchInv, Monotone, HeapTyped, Offered
      <4>2. CASE f.cost < g.cost
        BY <2>6, <3>1, <4>1, <4>2
      <4>3. CASE f.node = g.node /\ NoLater(f, g)
        <5>1. NoLater(e, f) /\ Tagged(f)
          BY <1>2, <2>1, <3>1, <4>3 DEF HistoryInv
        <5>2. Tagged(g)
          BY <1>1, <1>3, <3>1 DEF Tagged
        <5>3. QED
          BY <2>2, <4>3, <5>1, <5>2, NoLaterOrder
      <4>4. QED
        BY <3>5, <4>2, <4>3
    <3>6. e.cost < g.cost \/ NoLater(e, g)
      BY <3>1, <3>2, <3>4, <3>5 DEF Led
    <3>7. QED
      BY <2>6, <3>1, <3>3, <3>6
  <2>9. FoundBest(hop, d)
    BY <2>1, <2>3, <2>4, <2>5, <2>6, <2>7, <2>8 DEF FoundBest
  <2>10. QED
    BY <2>4, <2>9
<1>7. QED
  BY <1>5, <1>6

-----------------------------------------------------------------------------
\* The cheapest walk to b is one, or there is none.
LEMMA CheapestCases ==
  ASSUME HeapTyped, NEW a \in Node, NEW b \in Node
  PROVE  /\ Unreached \in Nat
         /\ \/ /\ Cheapest(a, b) = Unreached /\ \A c \in Nat : <<b, c>> \notin Walks(a)
            \/ /\ Cheapest(a, b) \in Nat /\ <<b, Cheapest(a, b)>> \in Walks(a)
               /\ \A c \in Nat : <<b, c>> \in Walks(a) => Cheapest(a, b) <= c
<1>1. Unreached \in Nat /\ Cheapest(a, b) = CheapestOf(Walks(a), b)
  BY CheapestIs DEF Cheapest
<1> DEFINE W == {c \in Nat : <<b, c>> \in Walks(a)}
<1>2. CASE W = {}
  <2>1. \A c \in Nat : <<b, c>> \notin Walks(a)
    BY <1>2
  <2>2. QED
    BY <1>1, <2>1, CheapestIs
<1>3. CASE W # {}
  <2>1. W \in SUBSET Nat
    OBVIOUS
  <2> HIDE DEF W
  <2>2. PICK d \in W : \A c \in W : d <= c
    BY <1>3, <2>1, LeastNatural
  <2>3. /\ d \in Nat /\ <<b, d>> \in Walks(a)
        /\ \A c \in Nat : <<b, c>> \in Walks(a) => d <= c
    BY <2>2 DEF W
  <2>4. CheapestOf(Walks(a), b) = d
    BY <2>3, CheapestIs
  <2>5. QED
    BY <1>1, <2>3, <2>4
<1>4. QED
  BY <1>2, <1>3

\* Within is a table of the nodes that a number of links reaches.
LEMMA WithinSteps ==
  ASSUME NEW a \in Node
  PROVE  /\ \A n : n \in Within(a, 0) <=> n = a
         /\ \A k \in Nat : Within(a, k) \subseteq Node
         /\ \A k \in Nat : \A n : n \in Within(a, k + 1) <=>
              n \in Within(a, k) \/ \E m \in Within(a, k) : n \in ReachableNeighbors(m)
<1> DEFINE next(S) == S \cup UNION {ReachableNeighbors(m) : m \in S}
           Eq(g) == g = [j \in Nat |-> IF j = 0 THEN {a} ELSE next(g[j - 1])]
           g == CHOOSE f : Eq(f)
           step == [S \in SUBSET Node |-> next(S)]
<1>1. \A k : Within(a, k) = g[k]
  BY DEF Within
<1>2. /\ step \in [SUBSET Node -> SUBSET Node] /\ {a} \in SUBSET Node
      /\ \A S \in SUBSET Node : step[S] = next(S)
  BY GraphAssumption DEF ReachableNeighbors
<1>3. \A S, n : n \in next(S) <=> n \in S \/ \E m \in S : n \in ReachableNeighbors(m)
  OBVIOUS
<1> HIDE DEF next, step
<1>4. PICK h : Iterates(h, SUBSET Node, step, {a})
  BY <1>2, IteratesExist
<1>5. \A k \in Nat : h[k] = IF k = 0 THEN {a} ELSE next(h[k - 1])
  <2> SUFFICES ASSUME NEW k \in Nat, k # 0
               PROVE  h[k] = next(h[k - 1])
    BY <1>4 DEF Iterates
  <2>1. k - 1 \in Nat /\ (k - 1) + 1 = k
    OBVIOUS
  <2>2. QED
    BY <1>2, <1>4, <2>1 DEF Iterates
<1>6. h = [k \in Nat |-> h[k]]
  BY <1>4 DEF Iterates
<1>7. Eq(h)
  BY <1>5, <1>6
<1> HIDE DEF Eq
<1>8. Eq(g)
  BY <1>7
<1> USE DEF Eq
<1> HIDE DEF g
<1>9. g = [k \in Nat |-> g[k]] /\ g[0] = {a}
  BY <1>8
<1>10. ASSUME NEW k \in Nat, g[k] \in SUBSET Node
       PROVE  g[k + 1] = step[g[k]]
  <2>1. k + 1 \in Nat /\ k + 1 # 0 /\ (k + 1) - 1 = k
    OBVIOUS
  <2>2. g[k + 1] = next(g[k])
    BY <1>8, <2>1
  <2>3. QED
    BY <1>2, <1>10, <2>2
<1> HIDE DEF Eq
<1>11. Iterates(g, SUBSET Node, step, {a})
  BY <1>2, <1>9, <1>10, RecursionIterates
<1>12. g[0] = {a} /\ \A k \in Nat : g[k] \in SUBSET Node /\ g[k + 1] = next(g[k])
  BY <1>2, <1>11 DEF Iterates
<1>13. QED
  BY <1>1, <1>3, <1>12

\* Except for quality_path_next_hop the length of a walk is its number of links.
LEMMA LinksCounted ==
  ASSUME HeapTyped, task # "quality", NEW a \in Node, NEW t, WalkTable(t, WalkStep, a), NEW k \in Nat
  PROVE  \A n \in Node :
           /\ \A c \in Nat : <<n, c>> \in t[k] => c <= k /\ n \in Within(a, c)
           /\ n \in Within(a, k) => \E c \in Nat : <<n, c>> \in t[k]
<1> DEFINE Counted(j, n) == /\ \A c \in Nat : <<n, c>> \in t[j] => c <= j /\ n \in Within(a, c)
                            /\ n \in Within(a, j) => \E c \in Nat : <<n, c>> \in t[j]
           W == {j \in Nat : \E n \in Node : ~Counted(j, n)}
<1> SUFFICES ASSUME W # {} PROVE FALSE
  OBVIOUS
<1>1. W \in SUBSET Nat
  OBVIOUS
<1> HIDE DEF W
<1>2. PICK j \in W : \A i \in W : j <= i
  BY <1>1, LeastNatural
<1> USE DEF W
<1>3. PICK n \in Node : ~Counted(j, n)
  BY <1>2
<1>4. /\ \A x \in Node, c \in Nat : <<x, c>> \in t[0] <=> x = a /\ c = 0
      /\ \A l \in Nat, x \in Node, c \in Nat :
           <<x, c>> \in t[l + 1] <=>
             \/ <<x, c>> \in t[l]
             \/ \E y \in Node, d \in Nat : /\ <<y, d>> \in t[l] /\ x \in ReachableNeighbors(y)
                                           /\ c = d + Length(y, x)
  BY TableSteps
<1>5. \A x, y : Length(x, y) = 1
  BY DEF Length
<1>6. /\ \A x : x \in Within(a, 0) <=> x = a
      /\ \A l \in Nat : Within(a, l) \subseteq Node
      /\ \A l \in Nat : \A x : x \in Within(a, l + 1) <=>
           x \in Within(a, l) \/ \E m \in Within(a, l) : x \in ReachableNeighbors(m)
  BY WithinSteps
<1>7. j # 0
  <2>1. ASSUME j = 0 PROVE FALSE
    <3>1. Counted(0, n)
      BY <1>4, <1>6
    <3>2. QED
      BY <1>3, <2>1, <3>1
  <2>2. QED
    BY <2>1
<1> DEFINE i == j - 1
<1>8. i \in Nat /\ i + 1 = j /\ j \in Nat /\ ~(j <= i)
  BY <1>2, <1>7
<1>9. \A x \in Node : Counted(i, x)
  BY <1>2, <1>8
<1> HIDE DEF i, W
<1>10. /\ \A x \in Node, c \in Nat : <<x, c>> \in t[i] => c <= i /\ x \in Within(a, c)
       /\ \A x \in Node : x \in Within(a, i) => \E c \in Nat : <<x, c>> \in t[i]
  BY <1>9
<1>11. ASSUME NEW c \in Nat, <<n, c>> \in t[j]
       PROVE  c <= j /\ n \in Within(a, c)
  <2>1. \/ <<n, c>> \in t[i]
        \/ \E y \in Node, d \in Nat : /\ <<y, d>> \in t[i] /\ n \in ReachableNeighbors(y)
                                      /\ c = d + Length(y, n)
    <3>1. <<n, c>> \in t[i + 1]
      BY <1>8, <1>11
    <3>2. QED
      BY <1>4, <1>8, <3>1
  <2>2. CASE <<n, c>> \in t[i]
    BY <1>8, <1>10, <2>2
  <2>3. ASSUME NEW y \in Node, NEW d \in Nat, <<y, d>> \in t[i], n \in ReachableNeighbors(y),
               c = d + Length(y, n)
        PROVE  c <= j /\ n \in Within(a, c)
    <3>1. d <= i /\ y \in Within(a, d) /\ c = d + 1
      BY <1>5, <1>10, <2>3
    <3>2. n \in Within(a, d + 1)
      BY <1>6, <2>3, <3>1
    <3>3. QED
      BY <1>8, <3>1, <3>2
  <2>4. QED
    BY <2>1, <2>2, <2>3
<1>12. ASSUME n \in Within(a, j)
       PROVE  \E c \in Nat : <<n, c>> \in t[j]
  <2>1. n \in Within(a, i) \/ \E m \in Within(a, i) : n \in ReachableNeighbors(m)
    <3>1. n \in Within(a, i + 1)
      BY <1>8, <1>12
    <3>2. QED
      BY <1>6, <1>8, <3>1
  <2>2. CASE n \in Within(a, i)
    <3>1. PICK c \in Nat : <<n, c>> \in t[i]
      BY <1>10, <2>2
    <3>2. <<n, c>> \in t[i + 1]
      BY <1>4, <1>8, <3>1
    <3>3. QED
      BY <1>8, <3>2
  <2>3. ASSUME NEW m \in Within(a, i), n \in ReachableNeighbors(m)
        PROVE  \E c \in Nat : <<n, c>> \in t[j]
    <3>1. m \in Node
      BY <1>6, <1>8
    <3>2. PICK d \in Nat : <<m, d>> \in t[i]
      BY <1>10, <3>1
    <3>3. d + 1 \in Nat /\ d + 1 = d + Length(m, n)
      BY <1>5
    <3>4. <<n, d + 1>> \in t[i + 1]
      BY <1>4, <1>8, <2>3, <3>1, <3>2, <3>3
    <3>5. QED
      BY <1>8, <3>3, <3>4
  <2>4. QED
    BY <2>1, <2>2, <2>3
<1>13. Counted(j, n)
  BY <1>11, <1>12
<1>14. QED
  BY <1>3, <1>13

\* The distance that ShortestHop counts is the length of the cheapest walk.
LEMMA DistanceCounted ==
  ASSUME HeapTyped, task = "hops", NEW a \in Node, NEW b \in Node
  PROVE  /\ Cardinality(Node) \in Nat
         /\ (\A c \in Nat : <<b, c>> \notin Walks(a)) =>
              ~ \E k \in 0..Cardinality(Node) : b \in Within(a, k)
         /\ \A d \in Nat : /\ <<b, d>> \in Walks(a)
                           /\ \A c \in Nat : <<b, c>> \in Walks(a) => d <= c
              => /\ d \in 0..Cardinality(Node) /\ b \in Within(a, d)
                 /\ \A j \in 0..(d - 1) : b \notin Within(a, j)
<1>1. Cardinality(Node) \in Nat
  BY GraphAssumption, FS_CardinalityType
<1>2. PICK t : WalkTable(t, WalkStep, a) /\ Walks(a) = t[Cardinality(Node)]
  BY WalksIs
<1>3. ASSUME NEW k \in 0..Cardinality(Node), b \in Within(a, k)
      PROVE  \E c \in Nat : c <= k /\ <<b, c>> \in Walks(a)
  <2>1. k \in Nat /\ Cardinality(Node) >= k
    BY <1>1
  <2>2. PICK c \in Nat : <<b, c>> \in t[k]
    BY <1>2, <1>3, <2>1, LinksCounted
  <2>3. c <= k
    BY <1>2, <2>1, <2>2, LinksCounted
  <2>4. <<b, c>> \in t[Cardinality(Node)]
    BY <1>1, <1>2, <2>1, <2>2, TableGrows
  <2>5. QED
    BY <1>2, <2>3, <2>4
<1>4. ASSUME NEW d \in Nat, <<b, d>> \in Walks(a),
             \A c \in Nat : <<b, c>> \in Walks(a) => d <= c
      PROVE  /\ d \in 0..Cardinality(Node) /\ b \in Within(a, d)
             /\ \A j \in 0..(d - 1) : b \notin Within(a, j)
  <2>1. d <= Cardinality(Node) /\ b \in Within(a, d)
    BY <1>1, <1>2, <1>4, LinksCounted
  <2>2. ASSUME NEW j \in 0..(d - 1), b \in Within(a, j)
        PROVE  FALSE
    <3>1. j \in 0..Cardinality(Node) /\ j \in Nat /\ j < d
      BY <1>1, <2>1
    <3>2. PICK c \in Nat : c <= j /\ <<b, c>> \in Walks(a)
      BY <1>3, <2>2, <3>1
    <3>3. d <= c
      BY <1>4, <3>2
    <3>4. QED
      BY <3>1, <3>2, <3>3
  <2>3. QED
    BY <1>1, <2>1, <2>2
<1>5. QED
  BY <1>1, <1>3, <1>4

-----------------------------------------------------------------------------
\* What a hop offers: a walk of the length that FoundBest names, a longer one, or none.
LEMMA Offers ==
  ASSUME HeapTyped, NEW m \in ReachableNeighbors(src)
  PROVE  /\ m \in Node /\ m \in Nat /\ Length(src, m) \in Nat /\ Unreached \in Nat
         /\ NothingFound => Cheapest(m, dst) = Unreached
         /\ \A hop \in Node, d \in Nat : FoundBest(hop, d) =>
              /\ Length(src, hop) + d <= Length(src, m) + Cheapest(m, dst)
              /\ Length(src, hop) + d = Length(src, m) + Cheapest(m, dst) => hop <= m
              /\ hop = m => Cheapest(m, dst) = d
              /\ Cheapest(m, dst) \in Nat
<1>1. src \in Node /\ dst \in Node
  BY DEF HeapTyped
<1>2. m \in Node /\ m \in Nat /\ Length(src, m) \in Nat
  BY <1>1, LengthPositive, GraphAssumption DEF ReachableNeighbors
<1>3. /\ Unreached \in Nat
      /\ \/ /\ Cheapest(m, dst) = Unreached /\ \A c \in Nat : <<dst, c>> \notin Walks(m)
         \/ /\ Cheapest(m, dst) \in Nat /\ <<dst, Cheapest(m, dst)>> \in Walks(m)
            /\ \A c \in Nat : <<dst, c>> \in Walks(m) => Cheapest(m, dst) <= c
  BY <1>1, <1>2, CheapestCases
<1>4. NothingFound => Cheapest(m, dst) = Unreached
  BY <1>3 DEF NothingFound
<1>5. ASSUME NEW hop \in Node, NEW d \in Nat, FoundBest(hop, d)
      PROVE  /\ Length(src, hop) + d <= Length(src, m) + Cheapest(m, dst)
             /\ Length(src, hop) + d = Length(src, m) + Cheapest(m, dst) => hop <= m
             /\ hop = m => Cheapest(m, dst) = d
             /\ Cheapest(m, dst) \in Nat
  <2> DEFINE cheap == Cheapest(m, dst)
             direct == Length(src, m)
             best == Length(src, hop)
  <2>1. best \in Nat /\ best + d < Unreached
    BY <1>1, <1>5, LengthPositive DEF FoundBest, ReachableNeighbors
  <2>2. CASE cheap = Unreached /\ \A c \in Nat : <<dst, c>> \notin Walks(m)
    <3>1. hop # m
      BY <1>5, <2>2 DEF FoundBest
    <3>2. direct \in Nat /\ cheap = Unreached /\ Unreached \in Nat
      BY <1>2, <1>3, <2>2
    <3> HIDE DEF cheap, direct, best
    <3>3. best + d < direct + cheap /\ best + d \in Nat /\ direct + cheap \in Nat /\ cheap \in Nat
      BY <2>1, <3>2
    <3>4. best + d <= direct + cheap /\ best + d # direct + cheap
      BY <3>3
    <3>5. QED
      BY <3>1, <3>3, <3>4 DEF cheap, direct, best
  <2>3. CASE /\ cheap \in Nat /\ <<dst, cheap>> \in Walks(m)
             /\ \A c \in Nat : <<dst, c>> \in Walks(m) => cheap <= c
    <3>1. /\ best + d <= direct + cheap
          /\ best + d = direct + cheap => hop <= m
      BY <1>5, <2>3 DEF FoundBest
    <3>2. ASSUME hop = m
          PROVE  cheap = d
      <4>1. cheap <= d /\ best = direct
        BY <1>5, <2>3, <3>2 DEF FoundBest
      <4> HIDE DEF cheap, direct, best
      <4>2. d <= cheap
        BY <2>1, <2>3, <3>1, <4>1
      <4>3. QED
        BY <2>3, <4>1, <4>2
    <3>3. QED
      BY <2>3, <3>1, <3>2
  <2>4. QED
    BY <1>3, <2>2, <2>3
<1>6. QED
  BY <1>2, <1>3, <1>4, <1>5

\* The hop returned is the one BestFirstHop names.
LEMMA BestOffered ==
  ASSUME HeapTyped, NothingFound \/ \E hop \in Node, d \in Nat : FoundBest(hop, d)
  PROVE  LET offers == {<<Length(src, m) + Cheapest(m, dst), m>> : m \in ReachableNeighbors(src)}
             best == {f \in offers : f[1] < Unreached /\ \A g \in offers : f[1] <= g[1]}
         IN  answer = {f[2] : f \in {x \in best : \A g \in best : x[2] <= g[2]}}
<1> DEFINE value(m) == Length(src, m) + Cheapest(m, dst)
           offers == {<<value(m), m>> : m \in ReachableNeighbors(src)}
           best == {f \in offers : f[1] < Unreached /\ \A g \in offers : f[1] <= g[1]}
           least == {x \in best : \A g \in best : x[2] <= g[2]}
<1>1. SUFFICES answer = {f[2] : f \in least}
  OBVIOUS
<1>2. \A f \in offers : f[2] \in ReachableNeighbors(src) /\ f[1] = value(f[2]) /\ f = <<f[1], f[2]>>
  OBVIOUS
<1>3. \A m \in ReachableNeighbors(src) : <<value(m), m>> \in offers
  OBVIOUS
<1>4. CASE NothingFound
  <2>1. \A m \in ReachableNeighbors(src) : ~(value(m) < Unreached)
    BY <1>4, Offers
  <2>2. best = {}
    BY <1>2, <2>1
  <2>3. least = {}
    BY <2>2
  <2>4. QED
    BY <1>4, <2>3 DEF NothingFound
<1>5. ASSUME NEW hop \in Node, NEW d \in Nat, FoundBest(hop, d)
      PROVE  answer = {f[2] : f \in least}
  <2>1. \A m \in ReachableNeighbors(src) :
          /\ Length(src, hop) + d <= value(m) /\ m \in Nat /\ value(m) \in Nat
          /\ Length(src, hop) + d = value(m) => hop <= m
          /\ hop = m => Cheapest(m, dst) = d
    <3> SUFFICES ASSUME NEW m \in ReachableNeighbors(src)
                 PROVE  /\ Length(src, hop) + d <= value(m) /\ m \in Nat /\ value(m) \in Nat
                        /\ Length(src, hop) + d = value(m) => hop <= m
                        /\ hop = m => Cheapest(m, dst) = d
      OBVIOUS
    <3>1. m \in Nat /\ Length(src, m) \in Nat
      BY Offers
    <3>2. /\ Length(src, hop) + d <= value(m)
          /\ Length(src, hop) + d = value(m) => hop <= m
          /\ hop = m => Cheapest(m, dst) = d
          /\ Cheapest(m, dst) \in Nat
      BY <1>5, Offers
    <3>3. QED
      BY <3>1, <3>2
  <2>2. hop \in ReachableNeighbors(src) /\ answer = {hop} /\ Length(src, hop) + d < Unreached
    BY <1>5 DEF FoundBest
  <2>3. value(hop) = Length(src, hop) + d /\ value(hop) < Unreached /\ hop \in Nat
    BY <2>1, <2>2
  <2> HIDE DEF value
  <2>4. <<value(hop), hop>> \in best
    <3>1. \A g \in offers : value(hop) <= g[1]
      BY <1>2, <2>1, <2>3
    <3>2. QED
      BY <1>3, <2>2, <2>3, <3>1
  <2>5. \A f \in best : f[1] = value(hop) /\ hop <= f[2] /\ f[2] \in Nat /\ f = <<f[1], f[2]>>
    <3>1. SUFFICES ASSUME NEW f \in best
                   PROVE  f[1] = value(hop) /\ hop <= f[2] /\ f[2] \in Nat /\ f = <<f[1], f[2]>>
      OBVIOUS
    <3>2. f[2] \in ReachableNeighbors(src) /\ f[1] = value(f[2]) /\ f = <<f[1], f[2]>>
      BY <1>2
    <3>3. f[1] <= value(hop)
      BY <2>4
    <3>4. value(hop) <= f[1] /\ f[1] \in Nat /\ value(hop) \in Nat
      BY <2>1, <2>2, <2>3, <3>2
    <3>5. f[1] = value(hop)
      BY <3>3, <3>4
    <3>6. QED
      BY <2>1, <2>3, <3>2, <3>5
  <2> HIDE DEF best
  <2>6. least = {<<value(hop), hop>>}
    <3>1. <<value(hop), hop>> \in least
      BY <2>4, <2>5
    <3>2. ASSUME NEW f \in least
          PROVE  f = <<value(hop), hop>>
      <4>1. f \in best /\ f[2] <= hop
        BY <2>4
      <4>2. f[2] = hop
        BY <2>3, <2>5, <4>1
      <4>3. QED
        BY <2>5, <4>1, <4>2
    <3>3. QED
      BY <3>1, <3>2
  <2> HIDE DEF least
  <2>7. {f[2] : f \in least} = {hop}
    <3> DEFINE v == value(hop)
    <3> HIDE DEF v
    <3>1. {f[2] : f \in {<<v, hop>>}} = {hop}
      OBVIOUS
    <3>2. QED
      BY <2>6, <3>1 DEF v
  <2>8. QED
    BY <2>2, <2>7
<1>6. QED
  BY <1>4, <1>5

\* For shortest_path_next_hop it is the one that the routing models take it to be.
LEMMA ShortestReturned ==
  ASSUME HeapTyped, task = "hops",
         NothingFound \/ \E hop \in Node, d \in Nat : FoundBest(hop, d)
  PROVE  answer = ShortestHop(src, dst)
<1> DEFINE size == Cardinality(Node)
           dist(m) == IF \E k \in 0..Cardinality(Node) : dst \in Within(m, k)
                      THEN CHOOSE k \in 0..Cardinality(Node) :
                             /\ dst \in Within(m, k)
                             /\ \A j \in 0..(k - 1) : dst \notin Within(m, j)
                      ELSE Cardinality(Node) + 1
           firsts == {m \in ReachableNeighbors(src) :
                        /\ dist(m) <= Cardinality(Node)
                        /\ \A o \in ReachableNeighbors(src) : dist(m) <= dist(o)}
<1>1. ShortestHop(src, dst) = {m \in firsts : \A o \in firsts : m <= o}
  BY DEF ShortestHop
<1>2. src \in Node /\ dst \in Node /\ size \in Nat
  BY GraphAssumption, FS_CardinalityType DEF HeapTyped
<1>3. \A m \in ReachableNeighbors(src) : m \in Node /\ m \in Nat /\ Length(src, m) = 1
  BY <1>2, GraphAssumption DEF ReachableNeighbors, Length
<1>4. ASSUME NEW m \in ReachableNeighbors(src)
      PROVE  \/ dist(m) = size + 1 /\ \A c \in Nat : <<dst, c>> \notin Walks(m)
             \/ /\ dist(m) \in 0..size /\ <<dst, dist(m)>> \in Walks(m)
                /\ \A c \in Nat : <<dst, c>> \in Walks(m) => dist(m) <= c
  <2>1. m \in Node
    BY <1>3
  <2>2. CASE \A c \in Nat : <<dst, c>> \notin Walks(m)
    <3>1. ~ \E k \in 0..Cardinality(Node) : dst \in Within(m, k)
      BY <1>2, <2>1, <2>2, DistanceCounted
    <3>2. QED
      BY <2>2, <3>1
  <2>3. CASE \E c \in Nat : <<dst, c>> \in Walks(m)
    <3> DEFINE d == Cheapest(m, dst)
    <3>1. /\ d \in Nat /\ <<dst, d>> \in Walks(m)
          /\ \A c \in Nat : <<dst, c>> \in Walks(m) => d <= c
      BY <1>2, <2>1, <2>3, CheapestCases
    <3> HIDE DEF d
    <3>2. /\ d \in 0..size /\ dst \in Within(m, d)
          /\ \A j \in 0..(d - 1) : dst \notin Within(m, j)
      BY <1>2, <2>1, <3>1, DistanceCounted
    <3>3. ASSUME NEW k \in 0..size, dst \in Within(m, k),
                 \A j \in 0..(k - 1) : dst \notin Within(m, j)
          PROVE  k = d
      <4>1. ~(k < d) /\ ~(d < k)
        BY <1>2, <3>1, <3>2, <3>3
      <4>2. QED
        BY <1>2, <3>1, <4>1
    <3>4. dist(m) = d
      <4> DEFINE P(k) == /\ dst \in Within(m, k)
                         /\ \A j \in 0..(k - 1) : dst \notin Within(m, j)
      <4>1. P(d) /\ \A k \in 0..size : P(k) => k = d
        BY <3>2, <3>3
      <4>2. dist(m) = CHOOSE k \in 0..size : P(k)
        BY <3>2
      <4> HIDE DEF P, size, dist
      <4>3. QED
        BY <3>2, <4>1, <4>2
    <3>5. QED
      BY <3>1, <3>2, <3>4
  <2>4. QED
    BY <2>2, <2>3
<1> HIDE DEF dist
<1>5. CASE NothingFound
  <2>1. ASSUME NEW m \in ReachableNeighbors(src)
        PROVE  dist(m) = size + 1
    <3>1. ~(dist(m) \in Nat /\ <<dst, dist(m)>> \in Walks(m))
      BY <1>5 DEF NothingFound
    <3>2. ~(dist(m) \in 0..size /\ <<dst, dist(m)>> \in Walks(m))
      BY <1>2, <3>1
    <3>3. QED
      BY <1>4, <3>2
  <2>2. firsts = {}
    BY <1>2, <2>1
  <2>3. QED
    BY <1>1, <1>5, <2>2 DEF NothingFound
<1>6. ASSUME NEW hop \in Node, NEW d \in Nat, FoundBest(hop, d)
      PROVE  answer = ShortestHop(src, dst)
  <2>1. /\ hop \in ReachableNeighbors(src) /\ answer = {hop} /\ <<dst, d>> \in Walks(hop)
        /\ \A m \in ReachableNeighbors(src), c \in Nat : <<dst, c>> \in Walks(m) =>
             d <= c /\ (d = c => hop <= m)
    <3>1. /\ hop \in ReachableNeighbors(src) /\ answer = {hop} /\ <<dst, d>> \in Walks(hop)
          /\ \A m \in ReachableNeighbors(src), c \in Nat : <<dst, c>> \in Walks(m) =>
               /\ Length(src, hop) + d <= Length(src, m) + c
               /\ Length(src, hop) + d = Length(src, m) + c => hop <= m
      BY <1>6 DEF FoundBest
    <3>2. ASSUME NEW m \in ReachableNeighbors(src), NEW c \in Nat, <<dst, c>> \in Walks(m)
          PROVE  d <= c /\ (d = c => hop <= m)
      <4>1. /\ 1 + d <= 1 + c
            /\ 1 + d = 1 + c => hop <= m
        BY <1>3, <3>1, <3>2
      <4>2. QED
        BY <4>1
    <3>3. QED
      BY <3>1, <3>2
  <2>2. dist(hop) = d /\ d <= size
    <3>1. /\ dist(hop) \in 0..size /\ <<dst, dist(hop)>> \in Walks(hop)
          /\ \A c \in Nat : <<dst, c>> \in Walks(hop) => dist(hop) <= c
      BY <1>4, <2>1
    <3>2. dist(hop) <= d /\ d <= dist(hop) /\ dist(hop) \in Nat
      BY <1>2, <2>1, <3>1
    <3>3. QED
      BY <1>2, <3>1, <3>2
  <2>3. \A m \in ReachableNeighbors(src) :
          /\ d <= dist(m) /\ dist(m) \in Nat
          /\ d = dist(m) => hop <= m
    <3> SUFFICES ASSUME NEW m \in ReachableNeighbors(src)
                 PROVE  /\ d <= dist(m) /\ dist(m) \in Nat
                        /\ d = dist(m) => hop <= m
      OBVIOUS
    <3>1. CASE dist(m) = size + 1
      BY <1>2, <2>2, <3>1
    <3>2. CASE dist(m) \in 0..size /\ <<dst, dist(m)>> \in Walks(m)
      BY <1>2, <2>1, <3>2
    <3>3. QED
      BY <1>4, <3>1, <3>2
  <2>4. hop \in firsts
    BY <2>1, <2>2, <2>3
  <2>5. \A m \in firsts : m \in Nat /\ hop <= m
    <3>1. SUFFICES ASSUME NEW m \in firsts
                   PROVE  m \in Nat /\ hop <= m
      OBVIOUS
    <3>2. dist(m) <= d
      BY <2>1, <2>2
    <3>3. d = dist(m)
      BY <2>3, <3>2
    <3>4. QED
      BY <1>3, <2>3, <3>3
  <2> HIDE DEF firsts
  <2>6. hop \in Nat
    BY <1>3, <2>1
  <2>7. {m \in firsts : \A o \in firsts : m <= o} = {hop}
    <3>1. hop \in {m \in firsts : \A o \in firsts : m <= o}
      BY <2>4, <2>5
    <3>2. ASSUME NEW m \in {x \in firsts : \A o \in firsts : x <= o}
          PROVE  m = hop
      <4>1. m <= hop /\ hop <= m /\ m \in Nat
        BY <2>4, <2>5
      <4>2. QED
        BY <2>6, <4>1
    <3>3. QED
      BY <3>1, <3>2
  <2>8. QED
    BY <1>1, <2>1, <2>7
<1>7. QED
  BY <1>5, <1>6

LEMMA BestReturned ==
  ASSUME BestInv
  PROVE  BestFirstHop
<1>1. HeapTyped
  BY DEF BestInv, DistanceInv, SearchInv
<1>2. SUFFICES ASSUME done, task # "landmarks", src # dst
               PROVE  BestFirstHop
  BY DEF BestFirstHop
<1>3. NothingFound \/ \E hop \in Node, d \in Nat : FoundBest(hop, d)
  BY <1>2, SearchFinds
<1>4. LET offers == {<<Length(src, m) + Cheapest(m, dst), m>> : m \in ReachableNeighbors(src)}
          best == {f \in offers : f[1] < Unreached /\ \A g \in offers : f[1] <= g[1]}
      IN  answer = {f[2] : f \in {x \in best : \A g \in best : x[2] <= g[2]}}
  BY <1>1, <1>3, BestOffered
<1>5. task = "hops" => answer = ShortestHop(src, dst)
  BY <1>1, <1>3, ShortestReturned
<1>6. QED
  BY <1>4, <1>5 DEF BestFirstHop

\* The heap searches return the first hop of a cheapest path of online nodes, the smallest
\* of those when there are several, and None only when there is none (lines 67-93 and
\* 147-165): on every graph, for every cost, whatever nodes are offline.  That of
\* shortest_path_next_hop is the hop that the models of the routers use.
THEOREM BestFirstHopHolds == Spec => []BestFirstHop
BY BestReturned, InitFresh, BestFresh, BestStep, PTL DEF Spec

-----------------------------------------------------------------------------
(* Hops, churn or not *)

\* Nodes at most k links away from a, as Hops counts them.
Near(a, k) ==
  LET ball[j \in Nat] ==
        IF j = 0 THEN {a}
        ELSE LET inner == ball[j - 1] IN inner \cup UNION {Adj[m] : m \in inner}
  IN ball[k]

LEMMA NearSteps ==
  ASSUME NEW a \in Node
  PROVE  /\ \A n : n \in Near(a, 0) <=> n = a
         /\ \A k \in Nat : Near(a, k) \subseteq Node
         /\ \A k \in Nat : \A n : n \in Near(a, k + 1) <=>
              n \in Near(a, k) \/ \E m \in Near(a, k) : n \in Adj[m]
<1> DEFINE next(S) == S \cup UNION {Adj[m] : m \in S}
           Eq(g) == g = [j \in Nat |-> IF j = 0 THEN {a} ELSE next(g[j - 1])]
           g == CHOOSE f : Eq(f)
           step == [S \in SUBSET Node |-> next(S)]
<1>1. \A k : Near(a, k) = g[k]
  BY DEF Near
<1>2. /\ step \in [SUBSET Node -> SUBSET Node] /\ {a} \in SUBSET Node
      /\ \A S \in SUBSET Node : step[S] = next(S)
  BY GraphAssumption
<1>3. \A S, n : n \in next(S) <=> n \in S \/ \E m \in S : n \in Adj[m]
  OBVIOUS
<1> HIDE DEF next, step
<1>4. PICK h : Iterates(h, SUBSET Node, step, {a})
  BY <1>2, IteratesExist
<1>5. \A k \in Nat : h[k] = IF k = 0 THEN {a} ELSE next(h[k - 1])
  <2> SUFFICES ASSUME NEW k \in Nat, k # 0
               PROVE  h[k] = next(h[k - 1])
    BY <1>4 DEF Iterates
  <2>1. k - 1 \in Nat /\ (k - 1) + 1 = k
    OBVIOUS
  <2>2. QED
    BY <1>2, <1>4, <2>1 DEF Iterates
<1>6. h = [k \in Nat |-> h[k]]
  BY <1>4 DEF Iterates
<1>7. Eq(h)
  BY <1>5, <1>6
<1> HIDE DEF Eq
<1>8. Eq(g)
  BY <1>7
<1> USE DEF Eq
<1> HIDE DEF g
<1>9. g = [k \in Nat |-> g[k]] /\ g[0] = {a}
  BY <1>8
<1>10. ASSUME NEW k \in Nat, g[k] \in SUBSET Node
       PROVE  g[k + 1] = step[g[k]]
  <2>1. k + 1 \in Nat /\ k + 1 # 0 /\ (k + 1) - 1 = k
    OBVIOUS
  <2>2. g[k + 1] = next(g[k])
    BY <1>8, <2>1
  <2>3. QED
    BY <1>2, <1>10, <2>2
<1> HIDE DEF Eq
<1>11. Iterates(g, SUBSET Node, step, {a})
  BY <1>2, <1>9, <1>10, RecursionIterates
<1>12. g[0] = {a} /\ \A k \in Nat : g[k] \in SUBSET Node /\ g[k + 1] = next(g[k])
  BY <1>2, <1>11 DEF Iterates
<1>13. QED
  BY <1>1, <1>3, <1>12

\* One way after another is a way, of as many links as both.
LEMMA NearComposes ==
  ASSUME NEW a \in Node, NEW m \in Node, NEW j \in Nat, m \in Near(a, j)
  PROVE  \A k \in Nat : \A n \in Near(m, k) : n \in Near(a, j + k)
<1> DEFINE W == {k \in Nat : \E n \in Near(m, k) : n \notin Near(a, j + k)}
<1> SUFFICES ASSUME W # {} PROVE FALSE
  OBVIOUS
<1>1. W \in SUBSET Nat
  OBVIOUS
<1> HIDE DEF W
<1>2. PICK k \in W : \A i \in W : k <= i
  BY <1>1, LeastNatural
<1> USE DEF W
<1>3. PICK n \in Near(m, k) : n \notin Near(a, j + k)
  BY <1>2
<1>4. /\ \A x : x \in Near(m, 0) <=> x = m
      /\ \A i \in Nat : \A x : x \in Near(m, i + 1) <=>
           x \in Near(m, i) \/ \E y \in Near(m, i) : x \in Adj[y]
      /\ \A i \in Nat : \A x : x \in Near(a, i + 1) <=>
           x \in Near(a, i) \/ \E y \in Near(a, i) : x \in Adj[y]
  BY NearSteps
<1>5. k # 0
  <2>1. ASSUME k = 0 PROVE FALSE
    <3>1. n = m /\ j + k = j
      BY <1>3, <1>4, <2>1
    <3>2. QED
      BY <1>3, <3>1
  <2>2. QED
    BY <2>1
<1> DEFINE i == k - 1
<1>6. i \in Nat /\ i + 1 = k /\ ~(k <= i) /\ j + i \in Nat /\ (j + i) + 1 = j + k
  BY <1>2, <1>5
<1>7. \A x \in Near(m, i) : x \in Near(a, j + i)
  BY <1>2, <1>6
<1> HIDE DEF W, i
<1>8. n \in Near(m, i) \/ \E y \in Near(m, i) : n \in Adj[y]
  BY <1>3, <1>4, <1>6
<1>9. n \in Near(a, (j + i) + 1)
  BY <1>4, <1>6, <1>7, <1>8
<1>10. QED
  BY <1>3, <1>6, <1>9

\* Every way can be taken back.
LEMMA NearReverses ==
  ASSUME NEW a \in Node, NEW k \in Nat, NEW b \in Near(a, k)
  PROVE  a \in Near(b, k)
<1> DEFINE W == {i \in Nat : \E n \in Near(a, i) : a \notin Near(n, i)}
<1> SUFFICES ASSUME W # {} PROVE FALSE
  OBVIOUS
<1>1. W \in SUBSET Nat
  OBVIOUS
<1> HIDE DEF W
<1>2. PICK j \in W : \A i \in W : j <= i
  BY <1>1, LeastNatural
<1> USE DEF W
<1>3. PICK n \in Near(a, j) : a \notin Near(n, j)
  BY <1>2
<1>4. /\ \A x : x \in Near(a, 0) <=> x = a
      /\ \A i \in Nat : Near(a, i) \subseteq Node
      /\ \A i \in Nat : \A x : x \in Near(a, i + 1) <=>
           x \in Near(a, i) \/ \E y \in Near(a, i) : x \in Adj[y]
  BY NearSteps
<1>5. j # 0
  <2>1. ASSUME j = 0 PROVE FALSE
    <3>1. n = a
      BY <1>3, <1>4, <2>1
    <3>2. QED
      BY <1>3, <1>4, <2>1, <3>1
  <2>2. QED
    BY <2>1
<1> DEFINE i == j - 1
<1>6. i \in Nat /\ i + 1 = j /\ 1 + i = j /\ ~(j <= i) /\ j \in Nat
  BY <1>2, <1>5
<1>7. \A x \in Near(a, i) : a \in Near(x, i)
  BY <1>2, <1>6
<1> HIDE DEF W, i
<1>8. n \in Near(a, i) \/ \E y \in Near(a, i) : n \in Adj[y]
  BY <1>3, <1>4, <1>6
<1>9. n \in Node
  BY <1>3, <1>4, <1>6
<1>10. CASE n \in Near(a, i)
  <2>1. a \in Near(n, i)
    BY <1>7, <1>10
  <2>2. a \in Near(n, i + 1)
    BY <1>6, <1>9, <2>1, NearSteps
  <2>3. QED
    BY <1>3, <1>6, <2>2
<1>11. ASSUME NEW y \in Near(a, i), n \in Adj[y]
       PROVE  FALSE
  <2>1. y \in Node /\ y \in Adj[n] /\ a \in Near(y, i)
    BY <1>4, <1>6, <1>7, <1>11, LinksAssumption
  <2>2. /\ n \in Near(n, 0)
        /\ \A k1 \in Nat : \A x : x \in Near(n, k1 + 1) <=>
             x \in Near(n, k1) \/ \E z \in Near(n, k1) : x \in Adj[z]
    BY <1>9, NearSteps
  <2>3. y \in Near(n, 1)
    <3>1. 0 \in Nat /\ 0 + 1 = 1
      OBVIOUS
    <3>2. QED
      BY <2>1, <2>2, <3>1
  <2>4. a \in Near(n, 1 + i)
    BY <1>6, <1>9, <2>1, <2>3, NearComposes
  <2>5. QED
    BY <1>3, <1>6, <2>4
<1>12. QED
  BY <1>8, <1>10, <1>11

\* A way over online nodes is a way.
LEMMA WithinNear ==
  ASSUME NEW a \in Node, NEW k \in Nat, NEW b \in Within(a, k)
  PROVE  b \in Near(a, k)
<1> DEFINE W == {i \in Nat : \E n \in Within(a, i) : n \notin Near(a, i)}
<1> SUFFICES ASSUME W # {} PROVE FALSE
  OBVIOUS
<1>1. W \in SUBSET Nat
  OBVIOUS
<1> HIDE DEF W
<1>2. PICK j \in W : \A i \in W : j <= i
  BY <1>1, LeastNatural
<1> USE DEF W
<1>3. PICK n \in Within(a, j) : n \notin Near(a, j)
  BY <1>2
<1>4. /\ \A x : x \in Near(a, 0) <=> x = a
      /\ \A x : x \in Within(a, 0) <=> x = a
      /\ \A i \in Nat : \A x : x \in Near(a, i + 1) <=>
           x \in Near(a, i) \/ \E y \in Near(a, i) : x \in Adj[y]
      /\ \A i \in Nat : \A x : x \in Within(a, i + 1) <=>
           x \in Within(a, i) \/ \E y \in Within(a, i) : x \in ReachableNeighbors(y)
  BY NearSteps, WithinSteps
<1>5. j # 0
  BY <1>3, <1>4
<1> DEFINE i == j - 1
<1>6. i \in Nat /\ i + 1 = j /\ ~(j <= i) /\ j \in Nat
  BY <1>2, <1>5
<1>7. \A x \in Within(a, i) : x \in Near(a, i)
  BY <1>2, <1>6
<1> HIDE DEF W, i
<1>8. n \in Within(a, i) \/ \E y \in Within(a, i) : n \in ReachableNeighbors(y)
  BY <1>3, <1>4, <1>6
<1>9. n \in Near(a, i + 1)
  BY <1>4, <1>6, <1>7, <1>8 DEF ReachableNeighbors
<1>10. QED
  BY <1>3, <1>6, <1>9

-----------------------------------------------------------------------------
(* The breadth-first search *)

\* One sequence after another.
LEMMA Concatenated ==
  ASSUME NEW S, NEW s \in Seq(S), NEW t \in Seq(S)
  PROVE  /\ s \o t \in Seq(S) /\ Len(s \o t) = Len(s) + Len(t)
         /\ \A i \in 1..Len(s) : (s \o t)[i] = s[i]
         /\ \A i \in 1..Len(t) : (s \o t)[Len(s) + i] = t[i]
<1>1. s \o t \in Seq(S) /\ Len(s \o t) = Len(s) + Len(t)
  OBVIOUS
<1>2. ASSUME NEW i \in 1..Len(s)
      PROVE  (s \o t)[i] = s[i]
  OBVIOUS
<1>3. ASSUME NEW i \in 1..Len(t)
      PROVE  (s \o t)[Len(s) + i] = t[i]
  <2>1. Len(s) + i \in 1..(Len(s) + Len(t)) /\ ~(Len(s) + i <= Len(s)) /\ (Len(s) + i) - Len(s) = i
    OBVIOUS
  <2>2. QED
    BY <2>1
<1>4. QED
  BY <1>1, <1>2, <1>3

\* SetToSeqs(S) are the orders of S.
LEMMA Listed ==
  ASSUME NEW S, IsFiniteSet(S), NEW order \in SetToSeqs(S)
  PROVE  /\ order \in Seq(S) /\ Len(order) \in Nat
         /\ \A i \in 1..Len(order) : order[i] \in S
         /\ \A x \in S : \E i \in 1..Len(order) : order[i] = x
<1> DEFINE size == Cardinality(S)
<1>1. size \in Nat
  BY FS_CardinalityType
<1>2. order \in [1..size -> S] /\ \A i, j \in 1..size : i # j => order[i] # order[j]
  BY DEF SetToSeqs
<1>3. order \in Injection(1..size, S)
  BY <1>2 DEF Injection, IsInjective
<1>4. Cardinality(1..size) = size
  BY <1>1, FS_Interval
<1>5. order \in Surjection(1..size, S)
  BY <1>3, <1>4, FS_Injection
<1>6. \A x \in S : \E i \in 1..size : order[i] = x
  BY <1>5 DEF Surjection
<1> HIDE DEF size
<1>7. order \in Seq(S) /\ Len(order) = size
  BY <1>1, <1>2
<1>8. QED
  BY <1>1, <1>2, <1>6, <1>7

\* A search from lm under way: every hop count is that of a way, the queue is in the order
\* of the counts and spans at most two of them, and what is not in the queue any more has
\* its neighbours counted.
Partial(dist, lm, q) ==
  /\ DOMAIN dist \subseteq Node /\ dist \in [DOMAIN dist -> Nat]
  /\ lm \in DOMAIN dist /\ dist[lm] = 0
  /\ \A i \in 1..Len(q) : q[i] \in DOMAIN dist
  /\ \A n \in DOMAIN dist : n \in Near(lm, dist[n]) /\ dist[n] < Cardinality(DOMAIN dist)
  /\ \A n \in DOMAIN dist : \/ \E i \in 1..Len(q) : q[i] = n
                            \/ \A m \in Adj[n] : m \in DOMAIN dist /\ dist[m] <= dist[n] + 1
  /\ \A i \in 1..Len(q) : \A n \in DOMAIN dist : dist[n] <= dist[q[i]] + 1
  /\ \A i, j \in 1..Len(q) : i <= j => dist[q[i]] <= dist[q[j]]

LEMMA PartialStart ==
  ASSUME NEW lm \in Node
  PROVE  Partial([n \in {lm} |-> 0], lm, <<lm>>)
<1> DEFINE dist == [n \in {lm} |-> 0]
           q == <<lm>>
<1>1. DOMAIN dist = {lm} /\ dist[lm] = 0 /\ dist \in [{lm} -> Nat]
  OBVIOUS
<1>2. Len(q) = 1 /\ \A i \in 1..Len(q) : i = 1 /\ q[i] = lm
  OBVIOUS
<1>3. Cardinality({lm}) = 1
  BY FS_Singleton
<1>4. lm \in Near(lm, 0)
  BY NearSteps
<1>5. 1 \in 1..Len(q) /\ q[1] = lm
  OBVIOUS
<1> HIDE DEF dist, q
<1>6. Partial(dist, lm, q)
  BY <1>1, <1>2, <1>3, <1>4, <1>5 DEF Partial
<1>7. QED
  BY <1>6 DEF dist, q

LEMMA PartialStep ==
  ASSUME NEW dist, NEW lm \in Node, NEW q \in Seq(Node), q # <<>>, Partial(dist, lm, q),
         NEW order \in SetToSeqs(Adj[Head(q)] \ DOMAIN dist)
  PROVE  LET new == Adj[Head(q)] \ DOMAIN dist
         IN  /\ Partial([n \in DOMAIN dist \cup new |->
                           IF n \in new THEN dist[Head(q)] + 1 ELSE dist[n]],
                        lm, Tail(q) \o order)
             /\ Tail(q) \o order \in Seq(Node)
<1> DEFINE h == Head(q)
           D == DOMAIN dist
           new == Adj[h] \ D
           dist2 == [n \in D \cup new |-> IF n \in new THEN dist[h] + 1 ELSE dist[n]]
           q2 == Tail(q) \o order
           rest == Len(q) - 1
<1>1. /\ D \subseteq Node /\ dist \in [D -> Nat] /\ lm \in D /\ dist[lm] = 0
      /\ \A i \in 1..Len(q) : q[i] \in D
      /\ \A n \in D : n \in Near(lm, dist[n]) /\ dist[n] < Cardinality(D)
      /\ \A n \in D : \/ \E i \in 1..Len(q) : q[i] = n
                      \/ \A m \in Adj[n] : m \in D /\ dist[m] <= dist[n] + 1
      /\ \A i \in 1..Len(q) : \A n \in D : dist[n] <= dist[q[i]] + 1
      /\ \A i, j \in 1..Len(q) : i <= j => dist[q[i]] <= dist[q[j]]
  BY DEF Partial
<1>2. Len(q) \in Nat /\ rest \in Nat /\ rest + 1 = Len(q) /\ 1 \in 1..Len(q) /\ h = q[1]
  OBVIOUS
<1>3. h \in D /\ h \in Node /\ dist[h] \in Nat
  BY <1>1, <1>2
<1>4. new \subseteq Node /\ IsFiniteSet(new) /\ IsFiniteSet(D)
  BY <1>1, <1>3, GraphAssumption, FS_Subset
<1>5. /\ order \in Seq(new) /\ Len(order) \in Nat
      /\ \A i \in 1..Len(order) : order[i] \in new
      /\ \A x \in new : \E i \in 1..Len(order) : order[i] = x
  BY <1>4, Listed
<1>6. order \in Seq(Node)
  BY <1>4, <1>5
<1>7. /\ q2 \in Seq(Node) /\ Len(q2) = rest + Len(order)
      /\ \A i \in 1..rest : q2[i] = q[i + 1]
      /\ \A i \in 1..Len(order) : q2[rest + i] = order[i]
  <2>1. Tail(q) \in Seq(Node) /\ Len(Tail(q)) = rest /\ \A i \in 1..rest : Tail(q)[i] = q[i + 1]
    BY <1>2
  <2> DEFINE tail == Tail(q)
  <2> HIDE DEF tail
  <2>2. tail \in Seq(Node) /\ Len(tail) = rest /\ \A i \in 1..rest : tail[i] = q[i + 1]
    BY <2>1 DEF tail
  <2>3. /\ tail \o order \in Seq(Node) /\ Len(tail \o order) = rest + Len(order)
        /\ \A i \in 1..rest : (tail \o order)[i] = tail[i]
        /\ \A i \in 1..Len(order) : (tail \o order)[rest + i] = order[i]
    <3>1. /\ tail \o order \in Seq(Node) /\ Len(tail \o order) = Len(tail) + Len(order)
          /\ \A i \in 1..Len(tail) : (tail \o order)[i] = tail[i]
          /\ \A i \in 1..Len(order) : (tail \o order)[Len(tail) + i] = order[i]
      <4>1. tail \in Seq(Node) /\ order \in Seq(Node)
        BY <1>6, <2>2
      <4>2. QED
        BY <4>1, Concatenated
    <3>2. QED
      BY <2>2, <3>1
  <2>4. QED
    BY <2>2, <2>3 DEF tail
<1>8. /\ DOMAIN dist2 = D \cup new
      /\ \A n \in new : dist2[n] = dist[h] + 1 /\ n \in Adj[h] /\ n \notin D
      /\ \A n \in D : dist2[n] = dist[n] /\ dist[n] \in Nat
  BY <1>1
<1> HIDE DEF new, q2, dist2, D, h, rest
\* An index of the new queue is one of the old one, further on, or one of a new node.
<1>9. \A i \in 1..Len(q2) : \/ \E l \in 1..Len(q) : /\ q2[i] = q[l] /\ q2[i] \in D
                                                    /\ i \in 1..rest /\ l = i + 1
                            \/ q2[i] \in new /\ ~(i <= rest)
  <2>1. SUFFICES ASSUME NEW i \in 1..Len(q2)
                 PROVE  \/ \E l \in 1..Len(q) : /\ q2[i] = q[l] /\ q2[i] \in D
                                                /\ i \in 1..rest /\ l = i + 1
                        \/ q2[i] \in new /\ ~(i <= rest)
    OBVIOUS
  <2>2. CASE i <= rest
    <3>1. i + 1 \in 1..Len(q) /\ i \in 1..rest
      BY <1>2, <1>7, <2>2
    <3>2. QED
      BY <1>1, <1>7, <3>1
  <2>3. CASE ~(i <= rest)
    <3>1. i - rest \in 1..Len(order) /\ rest + (i - rest) = i
      BY <1>2, <1>5, <1>7, <2>3
    <3>2. QED
      BY <1>5, <1>7, <2>3, <3>1
  <2>4. QED
    BY <2>2, <2>3
<1>10. \A n \in D : dist2[n] <= dist[h] + 1
  BY <1>1, <1>2, <1>8
<1>11. \A n \in D \cup new : dist2[n] \in Nat /\ dist2[n] <= dist[h] + 1
  BY <1>3, <1>8, <1>10
<1>12. dist2 \in [DOMAIN dist2 -> Nat] /\ DOMAIN dist2 \subseteq Node
  BY <1>1, <1>4, <1>8, <1>11 DEF dist2
<1>13. \A i \in 1..Len(q2) : q2[i] \in DOMAIN dist2 /\ dist[h] <= dist2[q2[i]]
  <2>1. SUFFICES ASSUME NEW i \in 1..Len(q2)
                 PROVE  q2[i] \in DOMAIN dist2 /\ dist[h] <= dist2[q2[i]]
    OBVIOUS
  <2>2. ASSUME NEW l \in 1..Len(q), q2[i] = q[l], q2[i] \in D
        PROVE  dist[h] <= dist2[q2[i]]
    <3>1. 1 <= l
      BY <1>2
    <3>2. dist[q[1]] <= dist[q[l]]
      BY <1>1, <1>2, <3>1
    <3>3. QED
      BY <1>2, <1>8, <2>2, <3>2
  <2>3. ASSUME q2[i] \in new
        PROVE  dist[h] <= dist2[q2[i]]
    BY <1>3, <1>8, <2>3
  <2>4. QED
    BY <1>8, <1>9, <2>2, <2>3
<1>14. \A n \in DOMAIN dist2 : n \in Near(lm, dist2[n])
  <2>1. ASSUME NEW n \in new
        PROVE  n \in Near(lm, dist2[n])
    <3>1. h \in Near(lm, dist[h]) /\ n \in Adj[h]
      BY <1>1, <1>3, <1>8
    <3>2. n \in Near(lm, dist[h] + 1)
      BY <1>3, <3>1, NearSteps
    <3>3. QED
      BY <1>8, <3>2
  <2>2. QED
    BY <1>1, <1>8, <2>1
<1>15. \A n \in DOMAIN dist2 : dist2[n] < Cardinality(DOMAIN dist2)
  <2>1. IsFiniteSet(D \cup new) /\ D \subseteq D \cup new
    BY <1>4, FS_Union
  <2>2. Cardinality(D) \in Nat /\ Cardinality(D \cup new) \in Nat /\ Cardinality(D) <= Cardinality(D \cup new)
    BY <1>4, <2>1, FS_Subset, FS_CardinalityType
  <2>3. ASSUME NEW n \in new
        PROVE  Cardinality(D) < Cardinality(D \cup new)
    <3>1. D # D \cup new
      BY <1>8
    <3>2. QED
      BY <2>1, <2>2, <3>1, FS_Subset
  <2>4. ASSUME NEW n \in new
        PROVE  dist2[n] < Cardinality(D \cup new)
    <3>1. dist[h] < Cardinality(D) /\ dist2[n] = dist[h] + 1
      BY <1>1, <1>3, <1>8
    <3>2. Cardinality(D) < Cardinality(D \cup new)
      BY <2>3
    <3>3. QED
      BY <1>3, <2>2, <3>1, <3>2
  <2>5. ASSUME NEW n \in D
        PROVE  dist2[n] < Cardinality(D \cup new)
    BY <1>1, <1>8, <2>2
  <2>6. QED
    BY <1>8, <2>4, <2>5
<1>16. ASSUME NEW n \in DOMAIN dist2
       PROVE  \/ \E i \in 1..Len(q2) : q2[i] = n
              \/ \A m \in Adj[n] : m \in DOMAIN dist2 /\ dist2[m] <= dist2[n] + 1
  <2>1. CASE n \in new
    <3>1. PICK i \in 1..Len(order) : order[i] = n
      BY <1>5, <2>1
    <3>2. rest + i \in 1..Len(q2)
      <4>1. i \in 1..Len(order) /\ Len(order) \in Nat /\ rest \in Nat /\ Len(q2) = rest + Len(order)
        BY <1>2, <1>5, <1>7
      <4>2. QED
        BY <4>1
    <3>3. q2[rest + i] = n
      BY <1>7, <3>1
    <3>4. QED
      BY <3>2, <3>3
  <2>2. CASE n = h
    <3>1. \A m \in Adj[n] : m \in D \cup new
      BY <2>2 DEF new
    <3>2. dist2[n] = dist[h]
      BY <1>3, <1>8, <2>2
    <3>3. QED
      BY <1>8, <1>11, <3>1, <3>2
  <2>3. ASSUME n \in D, n # h, NEW i \in 1..Len(q), q[i] = n
        PROVE  \E j \in 1..Len(q2) : q2[j] = n
    <3>1. i # 1
      BY <1>2, <2>3
    <3>2. i - 1 \in 1..rest /\ (i - 1) + 1 = i /\ i - 1 \in 1..Len(q2)
      BY <1>2, <1>5, <1>7, <3>1
    <3>3. QED
      BY <1>7, <2>3, <3>2
  <2>4. ASSUME n \in D, \A m \in Adj[n] : m \in D /\ dist[m] <= dist[n] + 1
        PROVE  \A m \in Adj[n] : m \in DOMAIN dist2 /\ dist2[m] <= dist2[n] + 1
    BY <1>8, <2>4
  <2>5. QED
    BY <1>1, <1>8, <2>1, <2>2, <2>3, <2>4
<1>17. \A i \in 1..Len(q2) : \A n \in DOMAIN dist2 : dist2[n] <= dist2[q2[i]] + 1
  <2>1. SUFFICES ASSUME NEW i \in 1..Len(q2), NEW n \in DOMAIN dist2
                 PROVE  dist2[n] <= dist2[q2[i]] + 1
    OBVIOUS
  <2>2. dist2[n] <= dist[h] + 1 /\ dist2[n] \in Nat
    BY <1>8, <1>11
  <2>3. dist[h] <= dist2[q2[i]] /\ dist2[q2[i]] \in Nat
    BY <1>8, <1>11, <1>13
  <2>4. QED
    BY <1>3, <2>2, <2>3
<1>18. \A i, j \in 1..Len(q2) : i <= j => dist2[q2[i]] <= dist2[q2[j]]
  <2>1. SUFFICES ASSUME NEW i \in 1..Len(q2), NEW j \in 1..Len(q2), i <= j
                 PROVE  dist2[q2[i]] <= dist2[q2[j]]
    OBVIOUS
  <2>2. i \in Nat /\ j \in Nat /\ rest \in Nat
    BY <1>2, <1>5, <1>7
  <2>3. CASE q2[j] \in new
    <3>1. dist2[q2[j]] = dist[h] + 1
      BY <1>8, <2>3
    <3>2. dist2[q2[i]] <= dist[h] + 1
      BY <1>8, <1>11, <1>13
    <3>3. QED
      BY <3>1, <3>2
  <2>4. CASE q2[j] \notin new
    <3>1. PICK l \in 1..Len(q) : q2[j] = q[l] /\ q2[j] \in D /\ j \in 1..rest /\ l = j + 1
      BY <1>9, <2>4
    <3>2. i <= rest
      BY <2>1, <2>2, <3>1
    <3>3. PICK k \in 1..Len(q) : q2[i] = q[k] /\ q2[i] \in D /\ k = i + 1
      BY <1>9, <3>2
    <3>4. k <= l
      BY <2>1, <2>2, <3>1, <3>3
    <3>5. dist[q[k]] <= dist[q[l]]
      BY <1>1, <3>4
    <3>6. QED
      BY <1>8, <3>1, <3>3, <3>5
  <2>5. QED
    BY <2>3, <2>4
<1>19. lm \in DOMAIN dist2 /\ dist2[lm] = 0
  BY <1>1, <1>8
<1>20. Partial(dist2, lm, q2)
  <2>1. \A n \in DOMAIN dist2 :
          \/ \E i \in 1..Len(q2) : q2[i] = n
          \/ \A m \in Adj[n] : m \in DOMAIN dist2 /\ dist2[m] <= dist2[n] + 1
    BY <1>16
  <2>2. \A i \in 1..Len(q2) : q2[i] \in DOMAIN dist2
    BY <1>13
  <2>3. QED
    BY <1>12, <1>14, <1>15, <1>17, <1>18, <1>19, <2>1, <2>2 DEF Partial
<1>21. QED
  BY <1>7, <1>20 DEF q2, dist2, new, D, h

-----------------------------------------------------------------------------
\* A search with an empty queue has counted the hops to every node there is a way to.
LEMMA PartialExact ==
  ASSUME NEW dist, NEW lm \in Node, Partial(dist, lm, <<>>), NEW k \in Nat, NEW n \in Near(lm, k)
  PROVE  n \in DOMAIN dist /\ dist[n] <= k
<1> DEFINE W == {j \in Nat : \E x \in Near(lm, j) : ~(x \in DOMAIN dist /\ dist[x] <= j)}
<1> SUFFICES ASSUME W # {} PROVE FALSE
  OBVIOUS
<1>1. W \in SUBSET Nat
  OBVIOUS
<1> HIDE DEF W
<1>2. PICK j \in W : \A i \in W : j <= i
  BY <1>1, LeastNatural
<1> USE DEF W
<1>3. PICK x \in Near(lm, j) : ~(x \in DOMAIN dist /\ dist[x] <= j)
  BY <1>2
<1>4. /\ lm \in DOMAIN dist /\ dist[lm] = 0 /\ dist \in [DOMAIN dist -> Nat]
      /\ \A y \in DOMAIN dist : \A m \in Adj[y] : m \in DOMAIN dist /\ dist[m] <= dist[y] + 1
  <2>1. \A i \in 1..Len(<<>>) : FALSE
    OBVIOUS
  <2>2. QED
    BY <2>1 DEF Partial
<1>5. /\ \A y : y \in Near(lm, 0) <=> y = lm
      /\ \A i \in Nat : \A y : y \in Near(lm, i + 1) <=>
           y \in Near(lm, i) \/ \E m \in Near(lm, i) : y \in Adj[m]
  BY NearSteps
<1>6. j # 0
  <2>1. ASSUME j = 0 PROVE FALSE
    <3>1. x = lm
      BY <1>3, <1>5, <2>1
    <3>2. QED
      BY <1>3, <1>4, <2>1, <3>1
  <2>2. QED
    BY <2>1
<1> DEFINE i == j - 1
<1>7. i \in Nat /\ i + 1 = j /\ ~(j <= i) /\ j \in Nat
  BY <1>2, <1>6
<1>8. \A y \in Near(lm, i) : y \in DOMAIN dist /\ dist[y] <= i
  BY <1>2, <1>7
<1> HIDE DEF W, i
<1>9. x \in Near(lm, i) \/ \E m \in Near(lm, i) : x \in Adj[m]
  BY <1>3, <1>5, <1>7
<1>10. CASE x \in Near(lm, i)
  <2>1. x \in DOMAIN dist /\ dist[x] <= i /\ dist[x] \in Nat
    BY <1>4, <1>8, <1>10
  <2>2. QED
    BY <1>3, <1>7, <2>1
<1>11. ASSUME NEW m \in Near(lm, i), x \in Adj[m]
       PROVE  FALSE
  <2>1. m \in DOMAIN dist /\ dist[m] <= i /\ dist[m] \in Nat
    BY <1>4, <1>8, <1>11
  <2>2. x \in DOMAIN dist /\ dist[x] <= dist[m] + 1 /\ dist[x] \in Nat
    BY <1>4, <1>11, <2>1
  <2>3. QED
    BY <1>3, <1>7, <2>1, <2>2
<1>12. QED
  BY <1>9, <1>10, <1>11

\* What is in the queue is the last search's; the earlier ones are complete.
HopTable == UNION {[D -> Nat] : D \in SUBSET Node}
Pending(i) == IF i = Len(dists) THEN frontier ELSE <<>>

LandmarkInv ==
  /\ dists \in Seq(HopTable) /\ frontier \in Seq(Node)
  /\ task = "landmarks" =>
       /\ landmarks \in Seq(Node) /\ Len(landmarks) > 0
       /\ Len(dists) <= Len(landmarks)
       /\ done => frontier = <<>> /\ Len(dists) = Len(landmarks)
  /\ frontier # <<>> => Len(dists) > 0
  /\ \A i \in 1..Len(dists) : Partial(dists[i], landmarks[i], Pending(i))

LEMMA LandmarkInit ==
  ASSUME Init
  PROVE  LandmarkInv
<1>1. dists = <<>> /\ frontier = <<>> /\ done = FALSE /\ src \in Node
  BY DEF Init
<1>2. dists \in Seq(HopTable) /\ frontier \in Seq(Node) /\ Len(dists) = 0
      /\ \A i \in 1..Len(dists) : FALSE
  BY <1>1
<1>3. ASSUME task = "landmarks"
      PROVE  landmarks \in Seq(Node) /\ Len(landmarks) > 0
  <2>1. landmarks \in Samples
    BY <1>3 DEF Init
  <2>2. PICK S \in SUBSET Node : landmarks \in SetToSeqs(S)
    BY <2>1 DEF Samples
  <2>3. IsFiniteSet(S)
    BY GraphAssumption, FS_Subset
  <2>4. landmarks \in Seq(S) /\ Len(landmarks) \in Nat
    BY <2>2, <2>3, Listed
  <2>5. landmarks \in Seq(Node)
    BY <2>4
  <2>6. Cardinality(Node) \in Nat /\ Cardinality(Node) > 0
    <3>1. IsFiniteSet(Node) /\ Node # {}
      BY <1>1, GraphAssumption
    <3>2. Cardinality(Node) \in Nat /\ Cardinality(Node) # 0
      BY <3>1, FS_CardinalityType, FS_EmptySet
    <3>3. QED
      BY <3>2
  <2>7. Len(landmarks) = Min({LandmarkCount, Cardinality(Node)})
    BY <2>1 DEF Samples
  <2>8. Min({LandmarkCount, Cardinality(Node)}) \in {LandmarkCount, Cardinality(Node)}
    <3> DEFINE a == LandmarkCount
               b == Cardinality(Node)
    <3>1. a \in Nat /\ b \in Nat
      BY <2>6, SearchAssumption
    <3> HIDE DEF a, b
    <3>2. \E x \in {a, b} : \A y \in {a, b} : x <= y
      BY <3>1
    <3>3. Min({a, b}) \in {a, b}
      BY <3>2 DEF Min
    <3>4. QED
      BY <3>3 DEF a, b
  <2>9. Len(landmarks) > 0
    BY <2>6, <2>7, <2>8, SearchAssumption
  <2>10. QED
    BY <2>5, <2>9
<1>4. ASSUME task = "landmarks"
      PROVE  Len(dists) <= Len(landmarks)
  BY <1>2, <1>3, <1>4
<1>5. QED
  BY <1>1, <1>2, <1>3, <1>4 DEF LandmarkInv

LEMMA LandmarkStart ==
  ASSUME LandmarkInv, StartBfs
  PROVE  LandmarkInv'
<1> DEFINE lm == landmarks[Len(dists) + 1]
           one == [n \in {lm} |-> 0]
<1>1. /\ task = "landmarks" /\ ~done /\ frontier = <<>> /\ Len(dists) < Len(landmarks)
      /\ dists' = Append(dists, one) /\ frontier' = <<lm>>
      /\ task' = task /\ landmarks' = landmarks /\ done' = done
  BY DEF StartBfs, Current, graphArgs
<1>2. landmarks \in Seq(Node) /\ dists \in Seq(HopTable) /\ Len(dists) \in Nat /\ Len(landmarks) \in Nat
      /\ Len(landmarks) > 0
  BY <1>1 DEF LandmarkInv
<1>3. lm \in Node
  BY <1>1, <1>2
<1>4. one \in HopTable
  <2>1. one \in [{lm} -> Nat] /\ {lm} \in SUBSET Node
    BY <1>3
  <2>2. QED
    BY <2>1 DEF HopTable
<1>5. Partial(one, lm, <<lm>>)
  BY <1>3, PartialStart
<1> HIDE DEF lm, one
<1>6. /\ dists' \in Seq(HopTable) /\ Len(dists') = Len(dists) + 1
      /\ dists'[Len(dists) + 1] = one /\ \A i \in 1..Len(dists) : dists'[i] = dists[i]
  BY <1>1, <1>2, <1>4
<1>7. frontier' \in Seq(Node) /\ Len(dists') > 0 /\ Len(dists') <= Len(landmarks)
  BY <1>1, <1>2, <1>3, <1>6
<1>8. \A i \in 1..Len(dists') : Partial(dists'[i], landmarks[i], IF i = Len(dists') THEN frontier' ELSE <<>>)
  <2>1. SUFFICES ASSUME NEW i \in 1..Len(dists')
                 PROVE  Partial(dists'[i], landmarks[i], IF i = Len(dists') THEN frontier' ELSE <<>>)
    OBVIOUS
  <2>2. CASE i = Len(dists')
    BY <1>1, <1>5, <1>6, <2>2 DEF lm
  <2>3. CASE i # Len(dists')
    <3>1. i \in 1..Len(dists)
      BY <1>2, <1>6, <2>3
    <3>2. Partial(dists[i], landmarks[i], <<>>)
      BY <1>1, <3>1 DEF LandmarkInv, Pending
    <3>3. QED
      BY <1>6, <2>3, <3>1, <3>2
  <2>4. QED
    BY <2>2, <2>3
<1>9. QED
  BY <1>1, <1>2, <1>6, <1>7, <1>8 DEF LandmarkInv, Pending

LEMMA LandmarkStep ==
  ASSUME LandmarkInv, StepBfs
  PROVE  LandmarkInv'
<1> DEFINE c == Len(dists)
           dist == dists[c]
           new == Adj[Head(frontier)] \ DOMAIN dist
           dist2 == [n \in DOMAIN dist \cup new |->
                       IF n \in new THEN dist[Head(frontier)] + 1 ELSE dist[n]]
<1>1. /\ task = "landmarks" /\ frontier # <<>>
      /\ dists' = [dists EXCEPT ![c] = dist2]
      /\ \E order \in SetToSeqs(new) : frontier' = Tail(frontier) \o order
      /\ task' = task /\ landmarks' = landmarks /\ done' = done
  BY DEF StepBfs, Current, graphArgs
<1>2. /\ landmarks \in Seq(Node) /\ dists \in Seq(HopTable) /\ frontier \in Seq(Node)
      /\ Len(landmarks) \in Nat /\ c \in Nat /\ c > 0 /\ c <= Len(landmarks) /\ ~done
      /\ Len(landmarks) > 0
  BY <1>1 DEF LandmarkInv
<1>3. c \in 1..Len(dists) /\ landmarks[c] \in Node
  BY <1>2
<1>4. Partial(dist, landmarks[c], frontier)
  BY <1>3 DEF LandmarkInv, Pending
<1>5. PICK order \in SetToSeqs(new) : frontier' = Tail(frontier) \o order
  BY <1>1
<1>6. Partial(dist2, landmarks[c], frontier') /\ frontier' \in Seq(Node)
  BY <1>1, <1>2, <1>3, <1>4, <1>5, PartialStep
<1>7. dist2 \in HopTable
  <2>1. DOMAIN dist2 \subseteq Node /\ dist2 \in [DOMAIN dist2 -> Nat]
    BY <1>6 DEF Partial
  <2>2. QED
    BY <2>1 DEF HopTable
<1> HIDE DEF dist2, c
<1>8. /\ dists' \in Seq(HopTable) /\ Len(dists') = Len(dists)
      /\ dists'[c] = dist2 /\ \A i \in 1..Len(dists) : i # c => dists'[i] = dists[i]
  BY <1>1, <1>2, <1>3, <1>7
<1>9. \A i \in 1..Len(dists') : Partial(dists'[i], landmarks[i], IF i = Len(dists') THEN frontier' ELSE <<>>)
  <2>1. SUFFICES ASSUME NEW i \in 1..Len(dists')
                 PROVE  Partial(dists'[i], landmarks[i], IF i = Len(dists') THEN frontier' ELSE <<>>)
    OBVIOUS
  <2>2. CASE i = c
    BY <1>6, <1>8, <2>2 DEF c
  <2>3. CASE i # c
    <3>1. Partial(dists[i], landmarks[i], <<>>)
      BY <1>8, <2>3 DEF LandmarkInv, Pending, c
    <3>2. QED
      BY <1>8, <2>3, <3>1 DEF c
  <2>4. QED
    BY <2>2, <2>3
<1>10. QED
  BY <1>1, <1>2, <1>6, <1>8, <1>9 DEF LandmarkInv, Pending, c

LEMMA LandmarkNext ==
  ASSUME LandmarkInv, [Next]_vars
  PROVE  LandmarkInv'
<1>1. ASSUME UNCHANGED <<task, landmarks, bfsVars>>,
             task = "landmarks" /\ done' => frontier = <<>> /\ Len(dists) = Len(landmarks)
      PROVE  LandmarkInv'
  BY <1>1 DEF LandmarkInv, Pending, bfsVars
<1>2. CASE UNCHANGED vars
  BY <1>1, <1>2 DEF vars, graphArgs, LandmarkInv
<1>3. CASE ReturnSelf \/ Pop \/ NoPath
  BY <1>1, <1>3 DEF ReturnSelf, Pop, NoPath, graphArgs
<1>4. CASE FinishLandmarks
  BY <1>1, <1>4 DEF FinishLandmarks, Current, graphArgs
<1>5. QED
  BY <1>2, <1>3, <1>4, LandmarkStart, LandmarkStep DEF Next, Returned

-----------------------------------------------------------------------------
\* Hops is a distance: no way has fewer links, one has as many unless there are as many as
\* nodes, and it is the same in both directions.
LEMMA HopsIs ==
  ASSUME NEW a \in Node, NEW b \in Node
  PROVE  /\ Cardinality(Node) \in Nat /\ Hops(a, b) \in 0..Cardinality(Node)
         /\ \A k \in Nat : b \in Near(a, k) => Hops(a, b) <= k
         /\ Hops(a, b) = Cardinality(Node) \/ b \in Near(a, Hops(a, b))
<1> DEFINE size == Cardinality(Node)
           ways == {k \in 0..size : b \in Near(a, k)}
           all == ways \cup {size}
<1>1. size \in Nat
  BY GraphAssumption, FS_CardinalityType
<1>2. Hops(a, b) = Min(all)
  BY DEF Hops, Near
<1> HIDE DEF size
<1>3. all \in SUBSET Nat /\ all # {} /\ size \in all
  BY <1>1
<1>4. PICK x \in all : \A y \in all : x <= y
  BY <1>3, LeastNatural
<1>5. Min(all) \in all /\ \A y \in all : Min(all) <= y
  BY <1>4 DEF Min
<1>6. \A k \in ways : k \in 0..size /\ b \in Near(a, k)
  OBVIOUS
<1>7. \A k \in 0..size : b \in Near(a, k) => k \in all
  OBVIOUS
<1> DEFINE h == Min(all)
<1>8. h \in 0..size /\ (h = size \/ b \in Near(a, h)) /\ \A y \in all : h <= y
  BY <1>1, <1>5, <1>6
<1> HIDE DEF h, all, ways
<1>9. ASSUME NEW k \in Nat, b \in Near(a, k)
      PROVE  h <= k
  <2>1. CASE k <= size
    <3>1. k \in 0..size
      BY <1>1, <2>1
    <3>2. QED
      BY <1>7, <1>8, <1>9, <3>1
  <2>2. CASE ~(k <= size)
    BY <1>1, <1>8, <2>2
  <2>3. QED
    BY <2>1, <2>2
<1>10. QED
  BY <1>1, <1>2, <1>8, <1>9 DEF h, size

LEMMA HopsBothWays ==
  ASSUME NEW a \in Node, NEW b \in Node
  PROVE  Hops(a, b) = Hops(b, a)
<1>1. ASSUME NEW x \in Node, NEW y \in Node
      PROVE  Hops(x, y) <= Hops(y, x)
  <2>1. CASE Hops(y, x) = Cardinality(Node)
    BY <2>1, HopsIs
  <2>2. CASE x \in Near(y, Hops(y, x))
    <3>1. Hops(y, x) \in Nat
      BY HopsIs
    <3>2. y \in Near(x, Hops(y, x))
      BY <2>2, <3>1, NearReverses
    <3>3. QED
      BY <3>1, <3>2, HopsIs
  <2>3. QED
    BY <2>1, <2>2, HopsIs
<1>2. Hops(a, b) <= Hops(b, a) /\ Hops(b, a) <= Hops(a, b)
  BY <1>1
<1>3. Hops(a, b) \in Nat /\ Hops(b, a) \in Nat
  BY HopsIs
<1> DEFINE x == Hops(a, b)
           y == Hops(b, a)
<1> HIDE DEF x, y
<1>4. x \in Nat /\ y \in Nat /\ x <= y /\ y <= x
  BY <1>2, <1>3 DEF x, y
<1>5. x = y
  BY <1>4
<1>6. QED
  BY <1>5 DEF x, y

\* The triangle inequality, for a way of k links between a and b.
LEMMA GapBounded ==
  ASSUME NEW l \in Node, NEW a \in Node, NEW b \in Node
  PROVE  /\ Gap(Hops(l, a), Hops(l, b)) \in Nat
         /\ Gap(Hops(l, a), Hops(l, b)) <= Cardinality(Node)
         /\ \A k \in Nat : b \in Near(a, k) => Gap(Hops(l, a), Hops(l, b)) <= k
         /\ Gap(Hops(l, a), Hops(l, b)) <= Hops(a, b)
<1>1. ASSUME NEW x \in Node, NEW y \in Node, NEW k \in Nat, y \in Near(x, k)
      PROVE  Hops(l, y) <= Hops(l, x) + k
  <2>1. Hops(l, x) \in Nat /\ Hops(l, y) \in Nat
    BY HopsIs
  <2>2. CASE Hops(l, x) = Cardinality(Node)
    <3>1. Hops(l, y) \in 0..Cardinality(Node) /\ Cardinality(Node) \in Nat
      BY HopsIs
    <3>2. QED
      BY <2>1, <2>2, <3>1
  <2>3. CASE x \in Near(l, Hops(l, x))
    <3>1. y \in Near(l, Hops(l, x) + k)
      BY <1>1, <2>1, <2>3, NearComposes
    <3>2. Hops(l, x) + k \in Nat
      BY <2>1
    <3>3. QED
      BY <3>1, <3>2, HopsIs
  <2>4. QED
    BY <2>2, <2>3, HopsIs
<1>2. Hops(l, a) \in 0..Cardinality(Node) /\ Hops(l, b) \in 0..Cardinality(Node)
      /\ Cardinality(Node) \in Nat
  BY HopsIs
<1> DEFINE p == Hops(l, a)
           q == Hops(l, b)
           size == Cardinality(Node)
<1>3. \A k \in Nat : b \in Near(a, k) => q <= p + k /\ p <= q + k
  <2>1. SUFFICES ASSUME NEW k \in Nat, b \in Near(a, k)
                 PROVE  q <= p + k /\ p <= q + k
    OBVIOUS
  <2>2. a \in Near(b, k)
    BY <2>1, NearReverses
  <2>3. QED
    BY <1>1, <2>1, <2>2
<1>4. p \in 0..size /\ q \in 0..size /\ size \in Nat
  BY <1>2
<1> HIDE DEF p, q, size
<1>5. Gap(p, q) \in Nat /\ Gap(p, q) <= size
  BY <1>4 DEF Gap
<1>6. \A k \in Nat : b \in Near(a, k) => Gap(p, q) <= k
  BY <1>3, <1>4 DEF Gap
<1>7. Gap(p, q) <= Hops(a, b)
  <2>1. Hops(a, b) \in Nat
    BY HopsIs
  <2>2. CASE Hops(a, b) = size
    BY <1>5, <2>2
  <2>3. CASE b \in Near(a, Hops(a, b))
    BY <1>6, <2>1, <2>3
  <2>4. QED
    BY <2>2, <2>3, HopsIs DEF size
<1>8. QED
  BY <1>5, <1>6, <1>7 DEF p, q, size

\* A complete search counts Hops.
LEMMA CoordinateIs ==
  ASSUME LandmarkInv, done, task = "landmarks", NEW i \in 1..Len(dists), NEW n \in Node
  PROVE  landmarks[i] \in Node /\ Coordinate(i, n) = Hops(landmarks[i], n)
<1> DEFINE lm == landmarks[i]
           dist == dists[i]
<1>1. lm \in Node
  BY DEF LandmarkInv
<1>2. Partial(dist, lm, <<>>)
  BY DEF LandmarkInv, Pending
<1>3. /\ IsFiniteSet(DOMAIN dist) /\ Cardinality(DOMAIN dist) \in Nat
      /\ Cardinality(DOMAIN dist) <= Cardinality(Node) /\ Cardinality(Node) \in Nat
  <2>1. DOMAIN dist \in SUBSET Node /\ IsFiniteSet(Node)
    BY <1>2, GraphAssumption DEF Partial
  <2> DEFINE D == DOMAIN dist
  <2> HIDE DEF D
  <2>2. D \in SUBSET Node
    BY <2>1 DEF D
  <2>3. IsFiniteSet(D) /\ Cardinality(D) <= Cardinality(Node)
    BY <2>1, <2>2, FS_Subset
  <2>4. QED
    BY <2>1, <2>3, FS_CardinalityType DEF D
<1>4. /\ Hops(lm, n) \in 0..Cardinality(Node)
      /\ \A k \in Nat : n \in Near(lm, k) => Hops(lm, n) <= k
      /\ Hops(lm, n) = Cardinality(Node) \/ n \in Near(lm, Hops(lm, n))
  BY <1>1, HopsIs
<1> DEFINE h == Hops(lm, n)
<1>5. h \in Nat
  BY <1>3, <1>4
<1>6. CASE n \in DOMAIN dist
  <2>1. dist[n] \in Nat /\ n \in Near(lm, dist[n]) /\ dist[n] < Cardinality(DOMAIN dist)
    BY <1>2, <1>6 DEF Partial
  <2>2. h <= dist[n]
    BY <1>4, <2>1
  <2>3. h # Cardinality(Node)
    BY <1>3, <1>5, <2>1, <2>2
  <2>4. dist[n] <= h
    BY <1>1, <1>2, <1>4, <1>5, <2>3, PartialExact
  <2> DEFINE d == dist[n]
  <2>5. Coordinate(i, n) = d
    BY <1>6 DEF Coordinate
  <2> HIDE DEF h, d
  <2>6. d = h
    BY <1>5, <2>1, <2>2, <2>4 DEF d
  <2>7. QED
    BY <1>1, <2>5, <2>6 DEF h
<1>7. CASE n \notin DOMAIN dist
  <2>1. n \notin Near(lm, h)
    BY <1>1, <1>2, <1>5, <1>7, PartialExact
  <2>2. h = Cardinality(Node)
    BY <1>4, <2>1
  <2>3. QED
    BY <1>1, <1>7, <2>2 DEF Coordinate
<1>8. QED
  BY <1>6, <1>7

\* The hint is the gap of one landmark, and no gap is larger.
LEMMA HintIs ==
  ASSUME LandmarkInv, done, task = "landmarks", NEW a \in Node, NEW b \in Node, a # b
  PROVE  /\ \E l \in Range(landmarks) : l \in Node /\ LandmarkDistance(a, b) = Gap(Hops(l, a), Hops(l, b))
         /\ \A l \in Range(landmarks) : Gap(Hops(l, a), Hops(l, b)) <= LandmarkDistance(a, b)
<1> DEFINE gap(i) == Gap(Coordinate(i, a), Coordinate(i, b))
           gaps == {gap(i) : i \in DOMAIN dists}
<1>1. /\ dists \in Seq(HopTable) /\ landmarks \in Seq(Node) /\ Len(dists) = Len(landmarks)
      /\ Len(landmarks) > 0
  BY DEF LandmarkInv
<1>2. /\ DOMAIN dists = 1..Len(dists) /\ Len(dists) \in Nat /\ 1 \in DOMAIN dists
      /\ DOMAIN landmarks = DOMAIN dists
  BY <1>1
<1>3. \A i \in DOMAIN dists :
        landmarks[i] \in Node /\ gap(i) = Gap(Hops(landmarks[i], a), Hops(landmarks[i], b))
  BY <1>2, CoordinateIs
<1>4. \A i \in DOMAIN dists : gap(i) \in Nat
  BY <1>3, GapBounded
<1>5. LandmarkDistance(a, b) = Max(gaps)
  BY DEF LandmarkDistance
<1>6. \A i \in DOMAIN dists : gap(i) \in gaps
  OBVIOUS
<1>7. \A x \in gaps : \E i \in DOMAIN dists : x = gap(i)
  OBVIOUS
<1>8. IsFiniteSet(gaps)
  <2> DEFINE f == [i \in DOMAIN dists |-> gap(i)]
  <2>1. f \in Surjection(DOMAIN dists, gaps)
    BY DEF Surjection
  <2>2. IsFiniteSet(DOMAIN dists)
    BY <1>2, FS_Interval
  <2> HIDE DEF f, gaps
  <2>3. QED
    BY <2>1, <2>2, FS_Surjection
<1> HIDE DEF gap, gaps
<1>9. \E x \in gaps : \A y \in gaps : x >= y
  <2>1. gaps # {} /\ \A x \in gaps : x \in Int
    BY <1>2, <1>4, <1>6, <1>7
  <2>2. QED
    BY <1>8, <2>1, LargestInteger
<1>10. Max(gaps) \in gaps /\ \A y \in gaps : Max(gaps) >= y
  BY <1>9 DEF Max
<1>11. PICK i \in DOMAIN dists : Max(gaps) = gap(i)
  BY <1>7, <1>10
<1>12. /\ landmarks[i] \in Range(landmarks) /\ landmarks[i] \in Node
       /\ LandmarkDistance(a, b) = Gap(Hops(landmarks[i], a), Hops(landmarks[i], b))
  BY <1>2, <1>3, <1>5, <1>11 DEF Range
<1>13. ASSUME NEW l \in Range(landmarks)
       PROVE  Gap(Hops(l, a), Hops(l, b)) <= LandmarkDistance(a, b)
  <2>1. PICK j \in DOMAIN dists : l = landmarks[j]
    BY <1>2 DEF Range
  <2>2. gap(j) = Gap(Hops(l, a), Hops(l, b)) /\ gap(j) \in gaps /\ gap(j) \in Nat
    BY <1>3, <1>4, <1>6, <2>1
  <2>3. Max(gaps) >= gap(j) /\ Max(gaps) \in Nat
    BY <1>4, <1>10, <1>11, <2>2
  <2>4. QED
    BY <1>5, <2>2, <2>3
<1>14. QED
  BY <1>12, <1>13

LEMMA HintExact ==
  ASSUME SearchInv, LandmarkInv
  PROVE  HintAdmissible
<1>1. HeapTyped /\ src \in Node /\ dst \in Node
  BY DEF SearchInv, HeapTyped
<1>2. SUFFICES ASSUME done, task = "landmarks"
               PROVE  /\ LandmarkDistance(src, dst) <= Cheapest(src, dst)
                      /\ {src, dst} \cap Range(landmarks) # {} =>
                           LandmarkDistance(src, dst) = Hops(src, dst)
  BY DEF HintAdmissible
<1>3. /\ Unreached \in Nat
      /\ \/ Cheapest(src, dst) = Unreached
         \/ Cheapest(src, dst) \in Nat /\ <<dst, Cheapest(src, dst)>> \in Walks(src)
  BY <1>1, CheapestCases
<1>4. CASE src = dst
  <2>1. LandmarkDistance(src, dst) = 0
    BY <1>4 DEF LandmarkDistance
  <2>2. Hops(src, dst) = 0
    <3>1. src \in Near(src, 0) /\ 0 \in Nat
      BY <1>1, NearSteps
    <3>2. Hops(src, dst) <= 0 /\ Hops(src, dst) \in Nat
      BY <1>1, <1>4, <3>1, HopsIs
    <3> DEFINE h == Hops(src, dst)
    <3> HIDE DEF h
    <3>3. h <= 0 /\ h \in Nat
      BY <3>2 DEF h
    <3>4. h = 0
      BY <3>3
    <3>5. QED
      BY <3>4 DEF h
  <2>3. Cheapest(src, dst) \in Nat
    BY <1>3
  <2>4. QED
    BY <2>1, <2>2, <2>3
<1>5. CASE src # dst
  <2>1. PICK l \in Range(landmarks) :
          l \in Node /\ LandmarkDistance(src, dst) = Gap(Hops(l, src), Hops(l, dst))
    BY <1>1, <1>2, <1>5, HintIs
  <2> DEFINE hint == LandmarkDistance(src, dst)
  <2>2. /\ hint \in Nat /\ hint <= Cardinality(Node)
        /\ \A k \in Nat : dst \in Near(src, k) => hint <= k
        /\ hint <= Hops(src, dst)
    BY <1>1, <2>1, GapBounded
  <2> HIDE DEF hint
  <2>3. hint <= Cheapest(src, dst)
    <3>1. Cardinality(Node) \in Nat
      BY <1>1, HopsIs
    <3>2. CASE Cheapest(src, dst) = Unreached
      <4>1. Longest \in Nat /\ Longest >= 1 /\ Unreached = Cardinality(Node) * Longest + 1
        BY <1>1, LengthBounded DEF Unreached, Longest
      <4>2. \A x, y \in Nat : y >= 1 => x <= x * y + 1
        <5>1. \A x, y \in Nat : y >= 1 => x <= x * y
          <6>1. SUFFICES ASSUME NEW x \in Nat, NEW y \in Nat, y >= 1
                         PROVE  x <= x * y
            OBVIOUS
          <6>2. y - 1 \in Nat /\ x * y = x * (y - 1) + x
            BY <6>1
          <6>3. x * (y - 1) \in Nat
            BY <6>2
          <6>4. QED
            BY <6>2, <6>3
        <5>2. \A x, y \in Nat : x * y \in Nat
          OBVIOUS
        <5>3. QED
          BY <5>1, <5>2
      <4>3. Cardinality(Node) <= Unreached
        BY <3>1, <4>1, <4>2
      <4>4. QED
        BY <1>3, <2>2, <3>1, <3>2, <4>3
    <3>3. CASE Cheapest(src, dst) \in Nat /\ <<dst, Cheapest(src, dst)>> \in Walks(src)
      <4> DEFINE cheap == Cheapest(src, dst)
      <4>1. PICK t : WalkTable(t, WalkStep, src) /\ Walks(src) = t[Cardinality(Node)]
        BY <1>1, WalksIs
      <4>2. dst \in Within(src, cheap)
        BY <1>1, <1>2, <3>1, <3>3, <4>1, LinksCounted
      <4>3. dst \in Near(src, cheap)
        BY <1>1, <3>3, <4>2, WithinNear
      <4>4. QED
        BY <2>2, <3>3, <4>3
    <3>4. QED
      BY <1>3, <3>2, <3>3
  <2>4. ASSUME NEW n \in Range(landmarks), n = src \/ n = dst
        PROVE  hint = Hops(src, dst)
    <3>1. Gap(Hops(n, src), Hops(n, dst)) <= hint
      BY <1>1, <1>2, <1>5, HintIs DEF hint
    <3>2. ASSUME NEW x \in Node, NEW y \in Node
          PROVE  Gap(Hops(x, x), Hops(x, y)) = Hops(x, y) /\ Gap(Hops(x, y), Hops(x, x)) = Hops(x, y)
      <4>1. x \in Near(x, 0) /\ 0 \in Nat
        BY NearSteps
      <4>2. Hops(x, x) <= 0 /\ Hops(x, x) \in Nat /\ Hops(x, y) \in Nat
        BY <4>1, HopsIs
      <4> DEFINE p == Hops(x, x)
                 q == Hops(x, y)
      <4> HIDE DEF p, q
      <4>3. p <= 0 /\ p \in Nat /\ q \in Nat
        BY <4>2 DEF p, q
      <4>4. Gap(p, q) = q /\ Gap(q, p) = q
        BY <4>3 DEF Gap
      <4>5. QED
        BY <4>4 DEF p, q
    <3>3. Gap(Hops(n, src), Hops(n, dst)) = Hops(src, dst)
      BY <1>1, <2>4, <3>2, HopsBothWays
    <3>4. Hops(src, dst) \in Nat
      BY <1>1, HopsIs
    <3>5. QED
      BY <2>2, <3>1, <3>3, <3>4
  <2>5. QED
    BY <2>3, <2>4 DEF hint
<1>6. QED
  BY <1>4, <1>5

\* The progress hint never overestimates the way a packet has to go, and a landmark's own
\* hint is the number of hops (compute_landmarks and landmark_distance, lines 95-145), on
\* every graph whose links go both ways, whatever nodes are offline.
THEOREM HintAdmissibleHolds == Spec => []HintAdmissible
BY HintExact, InitFresh, SearchFresh, SearchStep, LandmarkInit, LandmarkNext, PTL DEF Spec

-----------------------------------------------------------------------------
(* Episodes *)

LEMMA TablesAgree ==
  ASSUME NEW step, NEW a, NEW t, NEW u, WalkTable(t, step, a), WalkTable(u, step, a), NEW k \in Nat
  PROVE  t[k] = u[k]
<1> DEFINE W == {j \in Nat : t[j] # u[j]}
<1> SUFFICES ASSUME W # {} PROVE FALSE
  OBVIOUS
<1>1. W \in SUBSET Nat
  OBVIOUS
<1> HIDE DEF W
<1>2. PICK j \in W : \A i \in W : j <= i
  BY <1>1, LeastNatural
<1> USE DEF W
<1>3. t[0] = u[0] /\ \A i \in Nat : t[i + 1] = step[t[i]] /\ u[i + 1] = step[u[i]]
  BY DEF WalkTable, Iterates
<1>4. j # 0
  BY <1>2, <1>3
<1> DEFINE i == j - 1
<1>5. i \in Nat /\ i + 1 = j /\ ~(j <= i)
  BY <1>2, <1>4
<1>6. t[i] = u[i]
  BY <1>2, <1>5
<1> HIDE DEF i
<1>7. t[i + 1] = u[i + 1]
  BY <1>3, <1>5, <1>6
<1>8. QED
  BY <1>2, <1>5, <1>7

LEMMA WalksByStep ==
  HeapTyped => \A a \in Node : \A t : WalkTable(t, WalkStep, a) => Walks(a) = t[Cardinality(Node)]
<1>1. Cardinality(Node) \in Nat
  BY GraphAssumption, FS_CardinalityType
<1>2. QED
  BY <1>1, WalksIs, TablesAgree

\* What a walk costs depends on neither its searches nor where they start.
LEMMA CheapestRigid ==
  ASSUME HeapTyped, HeapTyped', UNCHANGED <<task, linkCost, offline>>
  PROVE  Unreached' = Unreached /\ \A a \in Node : \A b : Cheapest(a, b)' = Cheapest(a, b)
<1>1. \A a, b : Length(a, b)' = Length(a, b)
  BY DEF Length
<1>2. \A a : ReachableNeighbors(a)' = ReachableNeighbors(a)
  BY DEF ReachableNeighbors
<1>3. WalkStep' = WalkStep
  BY <1>1, <1>2 DEF WalkStep
<1>4. (\A a \in Node : \A t : WalkTable(t, WalkStep, a) => Walks(a) = t[Cardinality(Node)])'
  BY WalksByStep, PTL
<1>5. ASSUME NEW a \in Node
      PROVE  Walks(a)' = Walks(a)
  <2>1. PICK t : WalkTable(t, WalkStep, a) /\ Walks(a) = t[Cardinality(Node)]
    BY WalksIs
  <2>2. QED
    BY <1>3, <1>4, <2>1
<1>6. Unreached' = Unreached
  BY DEF Unreached
<1>7. QED
  BY <1>5, <1>6 DEF Cheapest, CheapestOf

LEMMA CheapestSelf ==
  ASSUME HeapTyped, NEW a \in Node
  PROVE  Cheapest(a, a) = 0 /\ 0 < Unreached
<1>1. Cardinality(Node) \in Nat
  BY GraphAssumption, FS_CardinalityType
<1>2. Walked(WalkStep, a, a, 0, Cardinality(Node))
  BY <1>1, WalkedSteps
<1>3. <<a, 0>> \in Walks(a)
  BY <1>2, WalksAre
<1>4. Unreached \in Nat /\ 0 < Unreached
  BY <1>3, CheapestIs
<1>5. \A c \in Nat : <<a, c>> \in Walks(a) => 0 <= c
  OBVIOUS
<1>6. CheapestOf(Walks(a), a) = 0
  BY <1>3, <1>5, CheapestIs
<1>7. QED
  BY <1>4, <1>6 DEF Cheapest

\* The search under way starts where the walk is, and every hop of the walk was one nearer;
\* without a way there was none.
WalkInv ==
  router = "shortest" =>
    /\ task = "hops" /\ path \in Seq(Node) /\ Len(path) > 0 /\ src = path[Len(path)]
    /\ Cheapest(path[1], dst) < Unreached =>
         \A i \in 1..Len(path) : (i - 1) + Cheapest(path[i], dst) = Cheapest(path[1], dst)
    /\ Cheapest(path[1], dst) < Unreached \/ Len(path) = 1
    /\ verdict # "open" => (verdict = "delivered" <=> /\ Cheapest(path[1], dst) < Unreached
                                                      /\ Cheapest(path[1], dst) < MaxHops)

EpisodeInv == BestInv /\ LandmarkInv /\ WalkInv

LEMMA EpisodeStart ==
  ASSUME EpisodeInit
  PROVE  EpisodeInv
<1>1. Init /\ path = <<src>> /\ verdict = "open" /\ (router = "shortest" => task = "hops")
  BY DEF EpisodeInit
<1>2. BestInv /\ LandmarkInv /\ HeapTyped
  BY <1>1, InitFresh, BestFresh, LandmarkInit DEF BestInv, DistanceInv, SearchInv
<1>3. src \in Node /\ dst \in Node
  BY <1>2 DEF HeapTyped
<1>4. path \in Seq(Node) /\ Len(path) = 1 /\ path[1] = src /\ \A i \in 1..Len(path) : i = 1
  BY <1>1, <1>3
<1>5. Cheapest(src, dst) \in Nat
  BY <1>2, <1>3, CheapestCases
<1>6. \A i \in 1..Len(path) : (i - 1) + Cheapest(path[i], dst) = Cheapest(path[1], dst)
  BY <1>4, <1>5
<1>7. WalkInv
  BY <1>1, <1>4, <1>6 DEF WalkInv
<1>8. QED
  BY <1>2, <1>7 DEF EpisodeInv

\* A step of the search, or one of another walk.
LEMMA WalkUnchanged ==
  ASSUME EpisodeInv, HeapTyped', UNCHANGED walkVars, UNCHANGED graphArgs
  PROVE  WalkInv'
<1>1. HeapTyped /\ dst \in Node
  BY DEF EpisodeInv, BestInv, DistanceInv, SearchInv, HeapTyped
<1>2. Unreached' = Unreached /\ \A a \in Node : \A b : Cheapest(a, b)' = Cheapest(a, b)
  BY <1>1, CheapestRigid DEF graphArgs
<1>3. router' = router /\ path' = path /\ verdict' = verdict /\ task' = task /\ src' = src /\ dst' = dst
  BY DEF walkVars, graphArgs
<1>4. CASE router = "shortest"
  <2>1. /\ task = "hops" /\ path \in Seq(Node) /\ Len(path) > 0 /\ src = path[Len(path)]
        /\ Cheapest(path[1], dst) < Unreached =>
             \A i \in 1..Len(path) : (i - 1) + Cheapest(path[i], dst) = Cheapest(path[1], dst)
        /\ Cheapest(path[1], dst) < Unreached \/ Len(path) = 1
        /\ verdict # "open" => (verdict = "delivered" <=> /\ Cheapest(path[1], dst) < Unreached
                                                          /\ Cheapest(path[1], dst) < MaxHops)
    BY <1>4 DEF EpisodeInv, WalkInv
  <2>2. \A i \in 1..Len(path) : path[i] \in Node
    BY <2>1
  <2>3. 1 \in 1..Len(path)
    BY <2>1
  <2>4. \A i \in 1..Len(path) : Cheapest(path[i], dst)' = Cheapest(path[i], dst)
    BY <1>2, <1>3, <2>2
  <2>5. QED
    BY <1>2, <1>3, <2>1, <2>3, <2>4 DEF WalkInv
<1>5. QED
  BY <1>3, <1>4 DEF WalkInv

LEMMA WalkIs ==
  ASSUME EpisodeInv, router = "shortest"
  PROVE  /\ Len(path) \in Nat /\ Len(path) > 0 /\ Hop \in Nat /\ Hop + 1 = Len(path)
         /\ Here = src /\ path[1] \in Node
         /\ Cheapest(path[1], dst) \in Nat /\ Cheapest(src, dst) \in Nat /\ Unreached \in Nat
         /\ Cheapest(path[1], dst) < Unreached => Hop + Cheapest(src, dst) = Cheapest(path[1], dst)
<1>1. HeapTyped /\ src \in Node /\ dst \in Node
  BY DEF EpisodeInv, BestInv, DistanceInv, SearchInv, HeapTyped
<1>2. /\ path \in Seq(Node) /\ Len(path) > 0 /\ src = path[Len(path)]
      /\ Cheapest(path[1], dst) < Unreached =>
           \A i \in 1..Len(path) : (i - 1) + Cheapest(path[i], dst) = Cheapest(path[1], dst)
  BY DEF EpisodeInv, WalkInv
<1>3. Len(path) \in Nat /\ Len(path) \in 1..Len(path) /\ 1 \in 1..Len(path)
  BY <1>2
<1>4. path[1] \in Node
  BY <1>2, <1>3
<1>5. Here = src
  BY <1>2 DEF Here, Last
<1>6. Hop = Len(path) - 1 /\ Hop \in Nat /\ Hop + 1 = Len(path)
  BY <1>2, <1>3 DEF Hop
<1>7. Cheapest(path[1], dst) \in Nat /\ Cheapest(src, dst) \in Nat /\ Unreached \in Nat
  BY <1>1, <1>4, CheapestCases
<1>8. Cheapest(path[1], dst) < Unreached => Hop + Cheapest(src, dst) = Cheapest(path[1], dst)
  BY <1>2, <1>3, <1>6
<1>9. QED
  BY <1>2, <1>3, <1>4, <1>5, <1>6, <1>7, <1>8

\* The search goes on, or nothing changes.
LEMMA SearchKept ==
  ASSUME EpisodeInv, [Next]_vars
  PROVE  BestInv' /\ LandmarkInv' /\ HeapTyped' /\ UNCHANGED graphArgs
<1>1. BestInv' /\ LandmarkInv' /\ UNCHANGED graphArgs
  BY BestStep, LandmarkNext, SearchChange DEF EpisodeInv
<1>2. QED
  BY <1>1 DEF BestInv, DistanceInv, SearchInv

LEMMA EndKept ==
  ASSUME EpisodeInv, NEW v, End(v),
         router = "shortest" =>
           (v = "delivered" <=> /\ Cheapest(path[1], dst) < Unreached
                                /\ Cheapest(path[1], dst) < MaxHops)
  PROVE  EpisodeInv'
<1>1. UNCHANGED vars /\ router' = router /\ path' = path /\ verdict' = v
  BY DEF End
<1>2. BestInv' /\ LandmarkInv' /\ HeapTyped' /\ UNCHANGED graphArgs
  BY <1>1, SearchKept
<1>3. HeapTyped /\ dst \in Node
  BY DEF EpisodeInv, BestInv, DistanceInv, SearchInv, HeapTyped
<1>4. Unreached' = Unreached /\ \A a \in Node : \A b : Cheapest(a, b)' = Cheapest(a, b)
  BY <1>2, <1>3, CheapestRigid DEF graphArgs
<1>5. task' = task /\ src' = src /\ dst' = dst
  BY <1>2 DEF graphArgs
<1>6. CASE router = "shortest"
  <2>1. /\ task = "hops" /\ path \in Seq(Node) /\ Len(path) > 0 /\ src = path[Len(path)]
        /\ Cheapest(path[1], dst) < Unreached =>
             \A i \in 1..Len(path) : (i - 1) + Cheapest(path[i], dst) = Cheapest(path[1], dst)
        /\ Cheapest(path[1], dst) < Unreached \/ Len(path) = 1
    BY <1>6 DEF EpisodeInv, WalkInv
  <2>2. \A i \in 1..Len(path) : path[i] \in Node
    BY <2>1
  <2>3. 1 \in 1..Len(path)
    BY <2>1
  <2>4. \A i \in 1..Len(path) : Cheapest(path[i], dst)' = Cheapest(path[i], dst)
    BY <1>1, <1>4, <1>5, <2>2
  <2>5. WalkInv'
    BY <1>1, <1>4, <1>5, <1>6, <2>1, <2>3, <2>4 DEF WalkInv
  <2>6. QED
    BY <1>2, <2>5 DEF EpisodeInv
<1>7. CASE router # "shortest"
  BY <1>1, <1>2, <1>7 DEF EpisodeInv, WalkInv
<1>8. QED
  BY <1>6, <1>7

LEMMA ArriveKept ==
  ASSUME EpisodeInv, Arrive
  PROVE  EpisodeInv'
<1>1. End("delivered") /\ Hop < MaxHops /\ Here = dst
  BY DEF Arrive
<1>2. ASSUME router = "shortest"
      PROVE  Cheapest(path[1], dst) < Unreached /\ Cheapest(path[1], dst) < MaxHops
  <2> DEFINE way == Cheapest(path[1], dst)
  <2>1. HeapTyped /\ dst \in Node
    BY DEF EpisodeInv, BestInv, DistanceInv, SearchInv, HeapTyped
  <2>2. Cheapest(dst, dst) = 0 /\ 0 < Unreached
    BY <2>1, CheapestSelf
  <2>3. /\ Hop \in Nat /\ Hop + 1 = Len(path) /\ Here = src /\ way \in Nat
        /\ way < Unreached => Hop + Cheapest(src, dst) = way
    BY <1>2, WalkIs
  <2>4. way < Unreached \/ Len(path) = 1
    BY <1>2 DEF EpisodeInv, WalkInv
  <2>5. CASE way < Unreached
    <3>1. Hop + 0 = way
      BY <1>1, <2>2, <2>3, <2>5
    <3>2. Hop = way
      BY <2>3, <3>1
    <3>3. QED
      BY <1>1, <2>5, <3>2
  <2>6. CASE Len(path) = 1
    <3>1. path[1] = dst
      BY <1>1, <2>6 DEF Here, Last
    <3>2. way < Unreached
      BY <2>2, <3>1
    <3>3. QED
      BY <2>5, <3>2
  <2>7. QED
    BY <2>4, <2>5, <2>6
<1>3. QED
  BY <1>1, <1>2, EndKept

LEMMA GiveUpKept ==
  ASSUME EpisodeInv, GiveUp
  PROVE  EpisodeInv'
<1>1. End("lost") /\ (Hop = MaxHops \/ Revisits)
  BY DEF GiveUp
<1>2. ASSUME router = "shortest", Cheapest(path[1], dst) < Unreached
      PROVE  ~(Cheapest(path[1], dst) < MaxHops)
  <2> DEFINE way == Cheapest(path[1], dst)
             left == Cheapest(src, dst)
  <2>1. /\ Hop \in Nat /\ Hop + 1 = Len(path) /\ Len(path) \in Nat /\ Here = src
        /\ way \in Nat /\ left \in Nat /\ Hop + left = way
    BY <1>2, WalkIs
  <2>2. CASE Hop = MaxHops
    <3> HIDE DEF way, left
    <3>1. ~(way < MaxHops)
      BY <2>1, <2>2
    <3>2. QED
      BY <3>1 DEF way
  <2>3. CASE Revisits
    <3>1. Here \in ToSet(Front(path)) /\ path \in Seq(Node)
      BY <1>2, <2>3 DEF Revisits, EpisodeInv, WalkInv
    <3>2. Front(path) = SubSeq(path, 1, Len(path) - 1)
      BY DEF Front
    <3>3. PICK i \in DOMAIN SubSeq(path, 1, Len(path) - 1) :
            SubSeq(path, 1, Len(path) - 1)[i] = Here
      BY <3>1, <3>2 DEF ToSet
    <3>4. i \in 1..Len(path) /\ i < Len(path) /\ path[i] = src
      BY <2>1, <3>1, <3>3
    <3>5. (i - 1) + Cheapest(path[i], dst) = way
      BY <1>2, <3>4 DEF EpisodeInv, WalkInv
    <3>6. (i - 1) + left = way /\ i \in Nat
      BY <3>4, <3>5
    <3> HIDE DEF way, left
    <3>7. i - 1 = Hop
      BY <2>1, <3>6
    <3>8. QED
      BY <2>1, <3>4, <3>6, <3>7
  <2>4. QED
    BY <1>1, <2>2, <2>3
<1>3. router = "shortest" =>
        ("lost" = "delivered" <=> /\ Cheapest(path[1], dst) < Unreached
                                  /\ Cheapest(path[1], dst) < MaxHops)
  BY <1>2
<1>4. QED
  BY <1>1, <1>3, EndKept

LEMMA ForwardLost ==
  ASSUME EpisodeInv, router = "shortest", done, src # dst, answer = {}
  PROVE  ~(Cheapest(path[1], dst) < Unreached)
<1> DEFINE way == Cheapest(path[1], dst)
           left == Cheapest(src, dst)
<1>1. HeapTyped /\ src \in Node /\ dst \in Node /\ BestInv
  BY DEF EpisodeInv, BestInv, DistanceInv, SearchInv, HeapTyped
<1>2. task = "hops"
  BY DEF EpisodeInv, WalkInv
<1>3. NothingFound \/ \E hop \in Node, d \in Nat : FoundBest(hop, d)
  BY <1>1, <1>2, SearchFinds
<1>4. NothingFound
  BY <1>3 DEF FoundBest
<1>5. left = Unreached
  BY <1>1, <1>4, CheapestCases DEF NothingFound
<1>6. /\ Hop \in Nat /\ way \in Nat /\ left \in Nat /\ Unreached \in Nat
      /\ way < Unreached => Hop + left = way
  BY WalkIs
<1> HIDE DEF way, left
<1>7. ~(way < Unreached)
  BY <1>5, <1>6
<1>8. QED
  BY <1>7 DEF way

LEMMA ForwardNearer ==
  ASSUME EpisodeInv, router = "shortest", done, src # dst, NEW nxt \in answer
  PROVE  /\ nxt \in Node /\ Cheapest(path[1], dst) < Unreached
         /\ Len(path) + Cheapest(nxt, dst) = Cheapest(path[1], dst)
<1> DEFINE way == Cheapest(path[1], dst)
           left == Cheapest(src, dst)
           rest == Cheapest(nxt, dst)
<1>1. HeapTyped /\ src \in Node /\ dst \in Node /\ BestInv
  BY DEF EpisodeInv, BestInv, DistanceInv, SearchInv, HeapTyped
<1>2. task = "hops" /\ (Cheapest(path[1], dst) < Unreached \/ Len(path) = 1)
      /\ src = path[Len(path)]
  BY DEF EpisodeInv, WalkInv
<1>3. NothingFound \/ \E hop \in Node, d \in Nat : FoundBest(hop, d)
  BY <1>1, <1>2, SearchFinds
<1>4. PICK hop \in Node, d \in Nat : FoundBest(hop, d)
  BY <1>3 DEF NothingFound
<1>5. hop = nxt /\ hop \in ReachableNeighbors(src)
  BY <1>4 DEF FoundBest
<1>6. rest = d
  BY <1>1, <1>4, <1>5, Offers
<1>7. Length(src, nxt) = 1
  BY <1>2 DEF Length
<1>8. 1 + d = left /\ 1 + d < Unreached
  BY <1>4, <1>5, <1>7 DEF FoundBest
<1>9. /\ Hop \in Nat /\ Hop + 1 = Len(path) /\ way \in Nat /\ left \in Nat /\ Unreached \in Nat
      /\ way < Unreached => Hop + left = way
  BY WalkIs
<1>10. way < Unreached
  BY <1>2, <1>8
<1> HIDE DEF way, left, rest
<1>11. Hop + 1 + rest = way
  BY <1>6, <1>8, <1>9, <1>10
<1>12. Len(path) + rest = way
  BY <1>9, <1>11
<1>13. QED
  BY <1>5, <1>10, <1>12 DEF way, rest

LEMMA ForwardKept ==
  ASSUME EpisodeInv, Forward
  PROVE  EpisodeInv'
<1>1. router = "shortest" /\ verdict = "open" /\ done /\ Here # dst
  BY DEF Forward, Walking, Deciding
<1>2. Here = src /\ Len(path) \in Nat /\ Len(path) > 0
  BY <1>1, WalkIs
<1>3. src # dst
  BY <1>1, <1>2
<1>4. CASE answer = {} /\ End("lost")
  BY <1>1, <1>3, <1>4, ForwardLost, EndKept
<1>5. ASSUME NEW nxt \in answer,
             path' = Append(path, nxt), src' = nxt, Search(nxt),
             UNCHANGED <<router, verdict, task, dst, linkCost, offline, landmarks, bfsVars>>
      PROVE  EpisodeInv'
  <2>1. HeapTyped /\ dst \in Node
    BY DEF EpisodeInv, BestInv, DistanceInv, SearchInv, HeapTyped
  <2>2. /\ nxt \in Node /\ Cheapest(path[1], dst) < Unreached
        /\ Len(path) + Cheapest(nxt, dst) = Cheapest(path[1], dst)
    BY <1>1, <1>3, ForwardNearer
  <2>3. /\ task = "hops" /\ path \in Seq(Node)
        /\ \A i \in 1..Len(path) : (i - 1) + Cheapest(path[i], dst) = Cheapest(path[1], dst)
    BY <1>1, <2>2 DEF EpisodeInv, WalkInv
  <2>4. Fresh'
    BY <1>5, <2>1, <2>2 DEF HeapTyped, Fresh, Search
  <2>5. BestInv'
    BY <2>4, BestFresh, PTL
  <2>6. HeapTyped'
    BY <2>5 DEF BestInv, DistanceInv, SearchInv
  <2>7. LandmarkInv'
    BY <1>5, <2>3 DEF EpisodeInv, LandmarkInv, Pending, bfsVars
  <2>8. Unreached' = Unreached /\ \A a \in Node : \A b : Cheapest(a, b)' = Cheapest(a, b)
    BY <1>5, <2>1, <2>6, CheapestRigid
  <2>9. /\ path' \in Seq(Node) /\ Len(path') = Len(path) + 1 /\ path'[Len(path')] = nxt
        /\ \A i \in 1..Len(path) : path'[i] = path[i] /\ path[i] \in Node
        /\ 1 \in 1..Len(path)
    BY <1>2, <1>5, <2>2, <2>3
  <2>10. dst' = dst /\ router' = router /\ verdict' = verdict /\ task' = task /\ src' = nxt
    BY <1>5
  <2>11. Cheapest(path[1], dst)' = Cheapest(path[1], dst)
    <3>1. path'[1] = path[1] /\ path[1] \in Node
      BY <2>9
    <3>2. QED
      BY <2>8, <2>10, <3>1
  <2>12. ASSUME NEW i \in 1..Len(path')
         PROVE  (i - 1) + Cheapest(path[i], dst)' = Cheapest(path[1], dst)
    <3>1. CASE i \in 1..Len(path)
      <4>1. Cheapest(path[i], dst)' = Cheapest(path[i], dst)
        BY <2>8, <2>9, <2>10, <3>1
      <4>2. QED
        BY <2>3, <3>1, <4>1
    <3>2. CASE i = Len(path) + 1
      <4>1. i - 1 = Len(path) /\ path'[i] = nxt
        BY <1>2, <2>9, <3>2
      <4>2. Cheapest(path[i], dst)' = Cheapest(nxt, dst)
        BY <2>2, <2>8, <2>10, <4>1
      <4>3. QED
        BY <2>2, <4>1, <4>2
    <3>3. QED
      BY <1>2, <2>9, <3>1, <3>2
  <2>13. WalkInv'
    BY <1>1, <2>2, <2>3, <2>8, <2>9, <2>10, <2>11, <2>12 DEF WalkInv
  <2>14. QED
    BY <2>5, <2>7, <2>13 DEF EpisodeInv
<1>6. QED
  BY <1>4, <1>5 DEF Forward

LEMMA EpisodeStep ==
  ASSUME EpisodeInv, [EpisodeNext]_allVars
  PROVE  EpisodeInv'
<1>1. ASSUME [Next]_vars, UNCHANGED walkVars
      PROVE  EpisodeInv'
  <2>1. BestInv' /\ LandmarkInv' /\ HeapTyped' /\ UNCHANGED graphArgs
    BY <1>1, SearchKept
  <2>2. WalkInv'
    BY <1>1, <2>1, WalkUnchanged
  <2>3. QED
    BY <2>1, <2>2 DEF EpisodeInv
<1>2. CASE UNCHANGED allVars \/ Over
  BY <1>1, <1>2 DEF Over, allVars
<1>3. CASE Seek
  BY <1>1, <1>3 DEF Seek, Next
<1>4. ASSUME UNCHANGED vars, router # "shortest", router' = router
      PROVE  EpisodeInv'
  <2>1. BestInv' /\ LandmarkInv'
    BY <1>4, SearchKept
  <2>2. QED
    BY <1>4, <2>1 DEF EpisodeInv, WalkInv
<1>5. CASE Choose
  BY <1>4, <1>5 DEF Choose, Walking, End
<1>6. CASE Step
  BY <1>4, <1>6 DEF Step, Walking, End
<1>7. CASE router = "none" /\ Next /\ UNCHANGED walkVars
  BY <1>1, <1>7
<1>8. QED
  BY <1>2, <1>3, <1>5, <1>6, <1>7, ArriveKept, GiveUpKept, ForwardKept DEF EpisodeNext

\* Asking the graph anew at every hop goes straight (sim.py 85-105): on every graph every hop
\* brings the packet one nearer, so that it never meets a node again, and it is reported
\* delivered exactly if there is a way of online nodes shorter than max_hops.
THEOREM WalksStraightHolds == EpisodeSpec => []WalksStraight
<1>1. ASSUME EpisodeInv
      PROVE  WalksStraight
  <2>1. SUFFICES ASSUME router = "shortest"
                 PROVE  /\ Cheapest(path[1], dst) < Unreached =>
                             Hop + Cheapest(Here, dst) = Cheapest(path[1], dst)
                        /\ verdict # "open" =>
                             (verdict = "delivered" <=> /\ Cheapest(path[1], dst) < Unreached
                                                        /\ Cheapest(path[1], dst) < MaxHops)
    BY DEF WalksStraight
  <2>2. /\ Here = src
        /\ Cheapest(path[1], dst) < Unreached => Hop + Cheapest(src, dst) = Cheapest(path[1], dst)
    BY <1>1, <2>1, WalkIs
  <2>3. verdict # "open" => (verdict = "delivered" <=> /\ Cheapest(path[1], dst) < Unreached
                                                       /\ Cheapest(path[1], dst) < MaxHops)
    BY <1>1, <2>1 DEF EpisodeInv, WalkInv
  <2>4. QED
    BY <2>2, <2>3
<1>2. QED
  BY <1>1, EpisodeStart, EpisodeStep, PTL DEF EpisodeSpec

\* The searches of a walk are searches of the graph too: what is proved of a call of its own
\* (graph.py 67-93, 95-145 and 147-165) holds of every search a router makes on its way
\* (sim.py 85-105), the one before it having left nothing behind.
THEOREM EpisodeSearchesHold ==
  EpisodeSpec => [](SettledAtDistance /\ BestFirstHop /\ HintAdmissible)
<1>1. EpisodeInv => SettledAtDistance /\ BestFirstHop /\ HintAdmissible
  BY SettledExact, BestReturned, HintExact DEF EpisodeInv, BestInv, DistanceInv
<1>2. QED
  BY <1>1, EpisodeStart, EpisodeStep, PTL DEF EpisodeSpec
=============================================================================
