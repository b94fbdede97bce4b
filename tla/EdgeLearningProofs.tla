------------------------- MODULE EdgeLearningProofs --------------------------
(***************************************************************************)
(* What holds of the learning router for every overlay, every traffic and  *)
(* every number of runs; what a restart resumes and what is held against a *)
(* peer, for two restarts.                                                 *)
(***************************************************************************)
EXTENDS EdgeLearning, Foundations, TLAPS

-----------------------------------------------------------------------------
(* Trusted paths *)

\* A trusted path to a destination that is no neighbour has one or two relays.
LEMMA PathForms ==
  ASSUME NEW p \in Packets, NEW path \in TrustedPaths(p)
  PROVE  /\ Plannable(p)
         /\ \/ p.dst \in Adj[p.node] /\ path = <<p.node, p.dst>>
            \/ /\ p.dst \notin Adj[p.node]
               /\ \E n \in Adj[p.node] :
                    /\ Relay(n, p) /\ p.dst \in Adj[n]
                    /\ Trusted({<<p.node, n>>, <<n, p.dst>>})
                    /\ path = <<p.node, n, p.dst>>
            \/ /\ p.dst \notin Adj[p.node]
               /\ \E n \in Adj[p.node] : \E m \in Adj[n] :
                    /\ m # p.node
                    /\ Relay(n, p) /\ Relay(m, p) /\ p.dst \in Adj[m]
                    /\ Trusted({<<p.node, n>>, <<n, m>>, <<m, p.dst>>})
                    /\ path = <<p.node, n, m, p.dst>>
  <1>1. Plannable(p)
    BY DEF TrustedPaths
  <1>2. CASE p.dst \in Adj[p.node]
    BY <1>1, <1>2 DEF TrustedPaths
  <1>3. CASE p.dst \notin Adj[p.node] /\ path \in TwoHopPaths(p)
    BY <1>1, <1>3 DEF TwoHopPaths
  <1>4. CASE p.dst \notin Adj[p.node] /\ path \in ThreeHopPaths(p)
    <2>1. PICK ms \in Adj[p.node] \X Node :
            /\ Relay(ms[1], p)
            /\ ms[2] \in Adj[ms[1]] \ {p.node}
            /\ Relay(ms[2], p) /\ p.dst \in Adj[ms[2]]
            /\ Trusted({<<p.node, ms[1]>>, ms, <<ms[2], p.dst>>})
            /\ path = <<p.node, ms[1], ms[2], p.dst>>
      BY <1>4 DEF ThreeHopPaths
    <2>2. ms = <<ms[1], ms[2]>> /\ ms[1] \in Adj[p.node]
      OBVIOUS
    <2>3. Trusted({<<p.node, ms[1]>>, <<ms[1], ms[2]>>, <<ms[2], p.dst>>})
      BY <2>1, <2>2
    <2> QED
      BY <1>1, <1>4, <2>1, <2>2, <2>3
  <1> QED
    BY <1>1, <1>2, <1>3, <1>4 DEF TrustedPaths

LEMMA PacketFacts ==
  ASSUME NEW p \in Packets
  PROVE  /\ p.node \in Node /\ p.dst \in Node /\ p.visited \in SUBSET Node
         /\ p.node # p.dst /\ p.node \in p.visited /\ p.dst \notin p.visited
  BY EdgeLearningAssumption

LEMMA NoSelfLink == \A n \in Node : Adj[n] \subseteq Node /\ n \notin Adj[n]
  BY GraphAssumption

\* Whatever has been learned, every trusted path is a simple path of links over
\* nodes that are online and unvisited: it needs no more than the relay test.
LEMMA TrustedPathsAreShaped == TrustedPathShape
  <1> SUFFICES ASSUME NEW p \in Packets, NEW path \in TrustedPaths(p)
      PROVE /\ Len(path) \in 2..4 /\ path[1] = p.node /\ path[Len(path)] = p.dst
            /\ \A i \in 1..(Len(path) - 1) : path[i + 1] \in Adj[path[i]]
            /\ \A i \in 2..Len(path) : path[i] \notin offline \cup p.visited
            /\ \A i, j \in DOMAIN path : i # j => path[i] # path[j]
    BY DEF TrustedPathShape
  <1>1. p.dst \notin offline
    BY PathForms DEF Plannable
  <1>2. CASE p.dst \in Adj[p.node] /\ path = <<p.node, p.dst>>
    <2>1. Len(path) = 2 /\ DOMAIN path = 1..2 /\ path[1] = p.node /\ path[2] = p.dst
      BY <1>2
    <2> QED
      BY <2>1, <1>1, <1>2, PacketFacts
  <1>3. ASSUME NEW n \in Adj[p.node], Relay(n, p), p.dst \in Adj[n],
               path = <<p.node, n, p.dst>>
        PROVE  /\ Len(path) \in 2..4 /\ path[1] = p.node /\ path[Len(path)] = p.dst
               /\ \A i \in 1..(Len(path) - 1) : path[i + 1] \in Adj[path[i]]
               /\ \A i \in 2..Len(path) : path[i] \notin offline \cup p.visited
               /\ \A i, j \in DOMAIN path : i # j => path[i] # path[j]
    <2>1. /\ Len(path) = 3 /\ DOMAIN path = 1..3
          /\ path[1] = p.node /\ path[2] = n /\ path[3] = p.dst
      BY <1>3
    <2>2. n \notin offline /\ n \notin p.visited
      BY <1>3 DEF Relay
    <2>3. n \in Node /\ p.node # n /\ n # p.dst /\ p.node # p.dst
      BY <1>3, <2>2, PacketFacts, NoSelfLink
    <2> QED
      BY <2>1, <2>2, <2>3, <1>1, <1>3, PacketFacts
  <1>4. ASSUME NEW n \in Adj[p.node], NEW m \in Adj[n], Relay(n, p), Relay(m, p),
               p.dst \in Adj[m], p.dst \notin Adj[p.node],
               path = <<p.node, n, m, p.dst>>
        PROVE  /\ Len(path) \in 2..4 /\ path[1] = p.node /\ path[Len(path)] = p.dst
               /\ \A i \in 1..(Len(path) - 1) : path[i + 1] \in Adj[path[i]]
               /\ \A i \in 2..Len(path) : path[i] \notin offline \cup p.visited
               /\ \A i, j \in DOMAIN path : i # j => path[i] # path[j]
    <2>1. /\ Len(path) = 4 /\ DOMAIN path = 1..4
          /\ path[1] = p.node /\ path[2] = n /\ path[3] = m /\ path[4] = p.dst
      BY <1>4
    <2>2. {n, m} \cap (offline \cup p.visited) = {}
      BY <1>4 DEF Relay
    <2>3. n \in Node /\ m \in Node /\ n # m /\ n # p.dst /\ m # p.dst
      BY <1>4, PacketFacts, NoSelfLink
    <2>4. p.node # n /\ p.node # m /\ p.node # p.dst
      BY <2>2, PacketFacts
    <2>5. Len(path) \in 2..4 /\ path[1] = p.node /\ path[Len(path)] = p.dst
      BY <2>1
    <2>6. \A i \in 1..(Len(path) - 1) : path[i + 1] \in Adj[path[i]]
      BY <2>1, <1>4
    <2>7. \A i \in 2..Len(path) : path[i] \notin offline \cup p.visited
      BY <2>1, <2>2, <1>1, PacketFacts
    <2>8. \A i, j \in DOMAIN path : i # j => path[i] # path[j]
      BY <2>1, <2>3, <2>4
    <2> QED
      BY <2>5, <2>6, <2>7, <2>8
  <1> QED
    BY PathForms, <1>2, <1>3, <1>4

\* In every run the paths of find_trusted_path are simple, online and unvisited.
THEOREM TrustedPathShapeHolds == Spec => []TrustedPathShape
  BY TrustedPathsAreShaped, PTL

\* Whatever has been learned, the next hop is one that scored routing could have
\* taken: the first relay and a neighbouring destination are online and unvisited.
LEMMA HopsAreScored == HopsWithinScored
  <1> SUFFICES ASSUME NEW p \in Packets, NEW hop \in Hops(p)
               PROVE  hop \in NextHops(p.node, p.dst, p.visited)
    BY DEF HopsWithinScored
  <1>1. CASE TrustedPaths(p) = {}
    BY <1>1 DEF Hops, ScoredCandidates
  <1>2. CASE TrustedPaths(p) # {}
    <2>1. PICK path \in TrustedPaths(p) : hop = path[2]
      BY <1>2 DEF Hops
    <2>2. /\ hop \in Adj[p.node]
          /\ hop \notin offline /\ hop \notin p.visited
      <3>1. /\ Len(path) \in 2..4 /\ path[1] = p.node
            /\ \A i \in 1..(Len(path) - 1) : path[i + 1] \in Adj[path[i]]
            /\ \A i \in 2..Len(path) : path[i] \notin offline \cup p.visited
        BY TrustedPathsAreShaped DEF TrustedPathShape
      <3>2. \A k \in 2..4 : 1 \in 1..(k - 1) /\ 2 \in 2..k /\ 1 + 1 = 2
        OBVIOUS
      <3> QED
        BY <2>1, <3>1, <3>2
    <2>3. NextHops(p.node, p.dst, p.visited)
            = PreferUnvisited(ReachableNeighbors(p.node), p.visited)
      BY EdgeLearningAssumption DEF NextHops
    <2> QED
      BY <2>2, <2>3 DEF PreferUnvisited, ReachableNeighbors
  <1> QED
    BY <1>1, <1>2

\* In every run the learning router stays within the hops of scored routing, so that
\* what Daemon and EventSim show of scored routing holds of it.
THEOREM HopsWithinScoredHolds == Spec => []HopsWithinScored
  BY HopsAreScored, PTL

-----------------------------------------------------------------------------
(* Types *)

LEMMA Quotient ==
  ASSUME NEW a \in Nat, NEW b \in Nat \ {0}
  PROVE  a \div b \in Nat /\ b * (a \div b) <= a
  OBVIOUS

LEMMA ZeroTyped == Zero \in ScoreType /\ Aged(Zero) = Zero
  BY DEF Zero, ScoreType, Aged

LEMMA AgedTyped == \A s \in ScoreType : Aged(s) \in ScoreType
  BY DEF Aged, ScoreType

LEMMA BumpTyped == \A s \in ScoreType, cs \in SUBSET Counter : Bump(s, cs) \in ScoreType
  BY DEF Bump, ScoreType, Unit

LEMMA CounterNames ==
  /\ "delivered" \in Counter /\ "drops" \in Counter /\ "link_loss" \in Counter
  /\ "loop" \in Counter /\ "ttl_expired" \in Counter /\ "confirmed" \in Counter
  BY DEF Counter, EventCounter

LEMMA CountedTyped ==
  \A outcome \in SimOutcome \cup NodeOutcome :
    Counted(outcome) \subseteq Counter /\ CountedForPeer(outcome) \subseteq Counter
  BY DEF SimOutcome, NodeOutcome, Counted, CountedForPeer, Counter, EventCounter

LEMMA BadnessTyped == \A s \in ScoreType : Badness(s) \in 0..Scale
  <1> SUFFICES ASSUME NEW s \in ScoreType PROVE Badness(s) \in 0..Scale
    OBVIOUS
  <1>1. /\ s["delivered"] \in Nat /\ s["drops"] \in Nat /\ s["link_loss"] \in Nat
        /\ s["loop"] \in Nat /\ s["ttl_expired"] \in Nat
    BY CounterNames DEF ScoreType
  <1>2. Weighted(s) \in Nat /\ Total(s) \in Nat \ {0}
    BY <1>1 DEF Weighted, Total, Prior, Unit
  <1>3. CASE Weighted(s) < 100 * Total(s)
    <2> DEFINE w == Weighted(s)
               t == Total(s)
               q == (10 * w) \div t
    <2>1. w \in Nat /\ t \in Nat \ {0} /\ w < 100 * t
      BY <1>2, <1>3
    <2> HIDE DEF w, t
    <2>2. 10 * w \in Nat /\ 10 * w < 1000 * t
      BY <2>1
    <2>3. q \in Nat /\ t * q <= 10 * w
      BY <2>1, <2>2, Quotient
    <2> HIDE DEF q
    <2>4. q <= 1000
      BY <2>1, <2>2, <2>3
    <2>5. Badness(s) = q
      BY <1>2, <1>3 DEF Badness, q, w, t
    <2> QED
      BY <2>3, <2>4, <2>5 DEF Scale
  <1>4. CASE Weighted(s) >= 100 * Total(s)
    BY <1>4 DEF Badness, Scale
  <1> QED
    BY <1>2, <1>3, <1>4

LEMMA BlendTyped ==
  ASSUME NEW r \in 0..Scale, NEW s \in ScoreType, NEW outcome
  PROVE  Blend(Recent(r, outcome), s) \in 0..Scale
  <1>1. Recent(r, outcome) \in 0..Scale
    BY DEF Recent, Within01, Signal, Scale
  <1>2. \A a, b \in 0..Scale : (a + b) \div 2 \in 0..Scale
    BY DEF Scale
  <1> QED
    BY <1>1, <1>2, BadnessTyped DEF Blend

\* What a constructor reads is typed if what was saved is.
SavedTyped(c) ==
  /\ c.edges \in [Edge -> ScoreType] /\ c.known \in SUBSET Edge
  /\ c.peers \in [Node -> ScoreType] /\ c.budget \in Nat
  /\ \A e \in Edge \ c.known : c.edges[e] = Zero

MemoryTyped ==
  /\ edges \in [Edge -> ScoreType] /\ known \in SUBSET Edge
  /\ peers \in [Node -> ScoreType] /\ risk \in [Node -> 0..Scale]
  /\ budget \in Nat /\ recent \in Seq(BOOLEAN) /\ results \in Seq(BOOLEAN)
  /\ \A e \in Edge \ known : edges[e] = Zero

LEMMA EmptyTyped == SavedTyped(Empty)
  BY ZeroTyped, EdgeLearningAssumption DEF SavedTyped, Empty

LEMMA LoadedTyped ==
  ASSUME NEW c, SavedTyped(c), Loaded(c)
  PROVE  MemoryTyped'
  <1>1. edges' \in [Edge -> ScoreType] /\ peers' \in [Node -> ScoreType]
    BY AgedTyped DEF SavedTyped, Loaded
  <1>2. risk' \in [Node -> 0..Scale]
    BY <1>1, BadnessTyped DEF Loaded
  <1>3. \A e \in Edge \ known' : edges'[e] = Zero
    BY ZeroTyped DEF SavedTyped, Loaded
  <1>4. recent' \in Seq(BOOLEAN) /\ results' \in Seq(BOOLEAN)
    BY DEF Loaded
  <1>5. known' \in SUBSET Edge /\ budget' \in Nat
    BY DEF SavedTyped, Loaded
  <1> QED
    BY <1>1, <1>2, <1>3, <1>4, <1>5 DEF MemoryTyped

LEMMA ObserveTyped ==
  ASSUME MemoryTyped, NEW e \in Traffic, NEW outcome \in SimOutcome \cup NodeOutcome,
         Observe(e, outcome)
  PROVE  MemoryTyped'
  <1>1. e \in Edge /\ e[2] \in Node
    BY EdgeLearningAssumption DEF Edge
  <1> DEFINE score == Bump(peers[e[2]], CountedForPeer(outcome))
  <1>2. score \in ScoreType /\ Bump(edges[e], Counted(outcome)) \in ScoreType
    BY <1>1, BumpTyped, CountedTyped DEF MemoryTyped
  <1>3. Blend(Recent(risk[e[2]], outcome), score) \in 0..Scale
    <2>1. risk[e[2]] \in 0..Scale
      BY <1>1 DEF MemoryTyped
    <2> QED
      BY <1>2, <2>1, BlendTyped
  <1> HIDE DEF score
  <1>4. /\ peers' = [peers EXCEPT ![e[2]] = score]
        /\ risk' = [risk EXCEPT ![e[2]] = Blend(Recent(@, outcome), score)]
        /\ edges' = [edges EXCEPT ![e] = Bump(@, Counted(outcome))]
        /\ known' = known \cup {e}
        /\ recent' = Slide(recent, outcome \notin Success)
        /\ results' = Append(results, outcome \notin Success)
        /\ budget' = Relaxed(recent')
    BY DEF Observe, score
  <1>5. peers' \in [Node -> ScoreType] /\ edges' \in [Edge -> ScoreType]
    BY <1>1, <1>2, <1>4 DEF MemoryTyped
  <1>6. risk' \in [Node -> 0..Scale]
    BY <1>1, <1>3, <1>4 DEF MemoryTyped
  <1>7. \A f \in Edge \ known' : edges'[f] = Zero
    BY <1>1, <1>4 DEF MemoryTyped
  <1>8. budget' \in Nat
    BY <1>4, EdgeLearningAssumption DEF Relaxed, Min2, AdaptStep, MemoryTyped
  <1>9. results' \in Seq(BOOLEAN)
    BY <1>4 DEF MemoryTyped
  <1>10. recent' \in Seq(BOOLEAN)
    <2> DEFINE dropped == outcome \notin Success
               longer == Append(recent, dropped)
    <2>a. dropped \in BOOLEAN
      OBVIOUS
    <2> HIDE DEF dropped
    <2>b. recent \in Seq(BOOLEAN)
      BY DEF MemoryTyped
    <2>1. longer \in Seq(BOOLEAN) /\ Len(longer) = Len(recent) + 1 /\ Len(recent) \in Nat
      BY <2>a, <2>b
    <2>2. Tail(longer) \in Seq(BOOLEAN)
      BY <2>1
    <2>3. recent' = Slide(recent, dropped)
      BY <1>4 DEF dropped
    <2> QED
      BY <2>1, <2>2, <2>3 DEF Slide
  <1>11. known' \in SUBSET Edge
    BY <1>1, <1>4 DEF MemoryTyped
  <1> QED
    BY <1>5, <1>6, <1>7, <1>8, <1>9, <1>10, <1>11 DEF MemoryTyped

\* Only neighbours are scored, so the keys that scoring inserts are links.
LEMMA ScoreTyped ==
  ASSUME MemoryTyped, NEW p \in Packets, Score(p)
  PROVE  MemoryTyped'
  <1>1. PICK candidates \in ScoredCandidates(p) :
          known' = known \cup {<<p.node, n>> : n \in candidates}
    BY DEF Score
  <1>2. ASSUME NEW n \in candidates
        PROVE  <<p.node, n>> \in Edge
    <2>1. n \in NextHops(p.node, p.dst, p.visited)
      BY <1>1 DEF ScoredCandidates
    <2>2. n \in Adj[p.node] /\ n \in Node
      <3>1. p.node \in Node
        BY PacketFacts
      <3>2. ReachableNeighbors(p.node) \subseteq Adj[p.node] /\ Adj[p.node] \subseteq Node
        BY <3>1, GraphAssumption DEF ReachableNeighbors
      <3>3. NextHops(p.node, p.dst, p.visited) \subseteq ReachableNeighbors(p.node)
        BY GraphAssumption DEF NextHops, ShortestHop, PreferUnvisited
      <3> QED
        BY <2>1, <3>2, <3>3
    <2> QED
      BY <2>2, PacketFacts DEF Edge
  <1>3. known' \in SUBSET Edge
    BY <1>1, <1>2 DEF MemoryTyped
  <1>4. UNCHANGED <<edges, peers, risk, budget, recent, results>>
    BY DEF Score
  <1>5. \A e \in Edge \ known' : edges'[e] = Zero
    BY <1>1, <1>4 DEF MemoryTyped
  <1> QED
    BY <1>3, <1>4, <1>5 DEF MemoryTyped

LEMMA TypeParts ==
  TypeOK <=> /\ offline \in SUBSET Node /\ owner \in Owners
             /\ process \in {"running", "saving", "stopped", "failed"}
             /\ file \in {"absent", "torn", "whole"}
             /\ MemoryTyped
             /\ saved \in [edges : [Edge -> ScoreType], known : SUBSET Edge,
                           peers : [Node -> ScoreType], budget : Nat]
             /\ \A e \in Edge \ saved.known : saved.edges[e] = Zero
             /\ calls \in Nat /\ restarts \in Nat
  BY DEF TypeOK, MemoryTyped

LEMMA TypeInit == Init => TypeOK
  <1> SUFFICES ASSUME Init PROVE TypeOK
    OBVIOUS
  <1>1. MemoryTyped
    BY EmptyTyped DEF Init, MemoryTyped, SavedTyped, Empty, Scale
  <1>2. saved \in [edges : [Edge -> ScoreType], known : SUBSET Edge,
                   peers : [Node -> ScoreType], budget : Nat]
    BY ZeroTyped, EdgeLearningAssumption DEF Init, Empty
  <1>3. \A e \in Edge \ saved.known : saved.edges[e] = Zero
    BY DEF Init, Empty
  <1>4. /\ offline \in SUBSET Node /\ owner \in Owners
        /\ process \in {"running", "saving", "stopped", "failed"}
        /\ file \in {"absent", "torn", "whole"}
        /\ calls \in Nat /\ restarts \in Nat
    BY DEF Init
  <1> QED
    BY <1>1, <1>2, <1>3, <1>4, TypeParts

LEMMA TypeStep == TypeOK /\ [Next]_vars => TypeOK'
  <1> SUFFICES ASSUME TypeOK, [Next]_vars PROVE TypeOK'
    OBVIOUS
  <1> DEFINE SavedRecord == [edges : [Edge -> ScoreType], known : SUBSET Edge,
                             peers : [Node -> ScoreType], budget : Nat]
             Others == /\ offline' \in SUBSET Node /\ owner' \in Owners
                       /\ process' \in {"running", "saving", "stopped", "failed"}
                       /\ file' \in {"absent", "torn", "whole"}
                       /\ calls' \in Nat /\ restarts' \in Nat
             SavedKept == /\ saved' \in SavedRecord
                          /\ \A e \in Edge \ saved'.known : saved'.edges[e] = Zero
  <1>0. /\ offline \in SUBSET Node /\ owner \in Owners
        /\ process \in {"running", "saving", "stopped", "failed"}
        /\ file \in {"absent", "torn", "whole"}
        /\ MemoryTyped /\ saved \in SavedRecord
        /\ \A e \in Edge \ saved.known : saved.edges[e] = Zero
        /\ calls \in Nat /\ restarts \in Nat
    BY TypeParts
  <1>s. SavedTyped(saved)
    BY <1>0 DEF SavedTyped
  <1>u. UNCHANGED saved => SavedKept
    BY <1>0
  <1>m. UNCHANGED <<memory, results>> => MemoryTyped'
    BY <1>0 DEF memory, MemoryTyped
  <1>q. ASSUME Others, SavedKept, MemoryTyped'
        PROVE  TypeOK'
    BY <1>q DEF TypeOK, MemoryTyped
  <1> HIDE DEF SavedKept
  <1>1. ASSUME NEW e \in Traffic, NEW outcome \in SimOutcome \cup NodeOutcome,
               Observe(e, outcome)
        PROVE  TypeOK'
    <2>1. Others /\ SavedKept
      BY <1>0, <1>1, <1>u DEF Observe
    <2> QED
      BY <1>0, <1>1, <2>1, <1>q, ObserveTyped
  <1>2. ASSUME NEW p \in Packets, Score(p)
        PROVE  TypeOK'
    <2>1. Others /\ SavedKept
      BY <1>0, <1>2, <1>u DEF Score
    <2> QED
      BY <1>0, <1>2, <2>1, <1>q, ScoreTyped
  <1>3. CASE BeginSave
    BY <1>0, <1>3, <1>u, <1>m, <1>q DEF BeginSave
  <1>4. CASE EndSave
    <2>1. SavedKept
      BY <1>0, <1>4 DEF EndSave, MemoryTyped, SavedKept
    <2>2. MemoryTyped'
      BY <1>4, EmptyTyped, LoadedTyped DEF EndSave, Gone
    <2> QED
      BY <1>0, <1>4, <2>1, <2>2, <1>q DEF EndSave, Gone
  <1>5. CASE Crash
    <2>1. MemoryTyped'
      BY <1>5, EmptyTyped, LoadedTyped DEF Crash, Gone
    <2> QED
      BY <1>0, <1>5, <1>u, <2>1, <1>q DEF Crash, Gone
  <1>6. CASE Start
    <2>1. MemoryTyped'
      BY <1>6, <1>s, LoadedTyped DEF Start
    <2> QED
      BY <1>0, <1>6, <1>u, <2>1, <1>q DEF Start
  <1>7. CASE FailToStart
    BY <1>0, <1>7, <1>u, <1>m, <1>q DEF FailToStart
  <1>8. CASE Churn
    <2>1. offline' \in SUBSET Node
      BY <1>8, EdgeLearningAssumption DEF Churn
    <2> QED
      BY <1>0, <1>8, <2>1, <1>u, <1>m, <1>q DEF Churn
  <1>9. CASE UNCHANGED vars
    BY <1>0, <1>9, <1>u, <1>m, <1>q DEF vars
  <1> QED
    BY <1>1, <1>2, <1>3, <1>4, <1>5, <1>6, <1>7, <1>8, <1>9 DEF Next, Stopped

\* Reputations of any length of service stay within their ranges, and links without
\* a key carry no evidence.
THEOREM LearningTypesHold == Spec => []TypeOK
  BY TypeInit, TypeStep, PTL DEF Spec

-----------------------------------------------------------------------------
(* The solver of one node *)

\* The keys of a daemon node's solver, in memory and in its file, are its own links.
OwnLinks ==
  owner \in Node => \A e \in known \cup saved.known : e[1] = owner

LEMMA OwnLinksInvariant == Spec => []OwnLinks
  <1>1. Init => OwnLinks
    BY DEF Init, Empty, OwnLinks
  <1>2. OwnLinks /\ [Next]_vars => OwnLinks'
    <2> SUFFICES ASSUME OwnLinks, [Next]_vars, owner' \in Node,
                        NEW e \in known' \cup saved'.known
                 PROVE  e[1] = owner'
      BY DEF OwnLinks
    <2>1. ASSUME NEW l \in Traffic, NEW outcome \in SimOutcome \cup NodeOutcome,
                 Observe(l, outcome)
          PROVE  e[1] = owner'
      <3>1. owner' = owner /\ saved' = saved /\ known' = known \cup {l} /\ Owned(l)
        BY <2>1 DEF Observe
      <3>2. owner # Shared
        BY <3>1, EdgeLearningAssumption
      <3> QED
        BY <3>1, <3>2 DEF OwnLinks, Owned
    <2>2. ASSUME NEW p \in Packets, Score(p)
          PROVE  e[1] = owner'
      <3>1. /\ owner' = owner /\ saved' = saved /\ owner \in {Shared, p.node}
            /\ \E candidates \in ScoredCandidates(p) :
                 known' = known \cup {<<p.node, n>> : n \in candidates}
        BY <2>2 DEF Score
      <3>2. owner # Shared
        BY <3>1, EdgeLearningAssumption
      <3> QED
        BY <3>1, <3>2 DEF OwnLinks
    <2>3. CASE BeginSave \/ FailToStart \/ Churn \/ UNCHANGED vars
      BY <2>3 DEF BeginSave, FailToStart, Churn, vars, memory, OwnLinks
    <2>4. CASE EndSave
      BY <2>4 DEF EndSave, Gone, Loaded, Empty, OwnLinks
    <2>5. CASE Crash
      BY <2>5 DEF Crash, Gone, Loaded, Empty, OwnLinks
    <2>6. CASE Start
      BY <2>6 DEF Start, Loaded, OwnLinks
    <2> QED
      BY <2>1, <2>2, <2>3, <2>4, <2>5, <2>6 DEF Next, Stopped
  <1> QED
    BY <1>1, <1>2, PTL DEF Spec

\* A trusted path with a relay needs a known link that starts at the relay.
LEMMA OwnLinksPlanDirect == OwnLinks => OwnedPlansDirect
  <1> SUFFICES ASSUME OwnLinks, owner \in Node, NEW p \in Packets, p.node = owner,
                      NEW path \in TrustedPaths(p)
               PROVE  Len(path) = 2
    BY DEF OwnedPlansDirect
  <1>1. ASSUME NEW n \in Adj[p.node], NEW m, <<n, m>> \in known
        PROVE  FALSE
    <2>1. n = owner
      BY <1>1 DEF OwnLinks
    <2> QED
      BY <2>1, <1>1, NoSelfLink
  <1>2. CASE p.dst \in Adj[p.node] /\ path = <<p.node, p.dst>>
    BY <1>2
  <1>3. ASSUME NEW n \in Adj[p.node], Trusted({<<p.node, n>>, <<n, p.dst>>})
        PROVE  FALSE
    BY <1>1, <1>3 DEF Trusted
  <1>4. ASSUME NEW n \in Adj[p.node], NEW m \in Adj[n],
               Trusted({<<p.node, n>>, <<n, m>>, <<m, p.dst>>})
        PROVE  FALSE
    BY <1>1, <1>4 DEF Trusted
  <1> QED
    BY PathForms, <1>2, <1>3, <1>4

\* In the daemon no trusted path ever has a relay: the solver of a node knows only
\* links that start there.
THEOREM OwnedPlansDirectHolds == Spec => []OwnedPlansDirect
  BY OwnLinksInvariant, OwnLinksPlanDirect, PTL

-----------------------------------------------------------------------------
(* The risk budget *)

\* The window holds the last outcomes of the run, and no budget exceeds the maximum.
WindowInv ==
  /\ budget <= MaxBudget /\ saved.budget <= MaxBudget
  /\ Len(recent) = Min2(Len(results), WindowSize)
  /\ \A i \in 1..Len(recent) : recent[i] = results[Len(results) - Len(recent) + i]

LEMMA SlideKeepsWindow ==
  ASSUME TypeOK, WindowInv, NEW d \in BOOLEAN,
         recent' = Slide(recent, d), results' = Append(results, d)
  PROVE  /\ recent' \in Seq(BOOLEAN) /\ results' \in Seq(BOOLEAN)
         /\ Len(recent') = Min2(Len(results'), WindowSize)
         /\ \A i \in 1..Len(recent') : recent'[i] = results'[Len(results') - Len(recent') + i]
  <1>1. recent \in Seq(BOOLEAN) /\ results \in Seq(BOOLEAN) /\ WindowSize \in Nat \ {0}
    BY EdgeLearningAssumption DEF TypeOK
  <1> DEFINE window == recent'
             rs == results'
             longer == Append(recent, d)
             n == Len(results)
             k == Len(recent)
  <1>2. n \in Nat /\ k \in Nat /\ k <= n /\ k <= WindowSize
    BY <1>1 DEF WindowInv, Min2
  <1>3. /\ longer \in Seq(BOOLEAN) /\ Len(longer) = k + 1
        /\ \A i \in 1..k : longer[i] = recent[i]
        /\ longer[k + 1] = d
    BY <1>1
  <1>4. /\ rs \in Seq(BOOLEAN) /\ Len(rs) = n + 1
        /\ \A i \in 1..n : rs[i] = results[i]
        /\ rs[n + 1] = d
    BY <1>1
  <1>5. \A i \in 1..k : recent[i] = results[n - k + i]
    BY DEF WindowInv
  <1>0. window = Slide(recent, d)
    OBVIOUS
  <1> HIDE DEF longer, window, rs
  <1>6. \A i \in 1..(k + 1) : longer[i] = rs[n - k + i]
    <2> SUFFICES ASSUME NEW i \in 1..(k + 1) PROVE longer[i] = rs[n - k + i]
      OBVIOUS
    <2>1. CASE i = k + 1
      BY <1>2, <1>3, <1>4, <2>1
    <2>2. CASE i \in 1..k
      <3>1. n - k + i \in 1..n
        BY <1>2, <2>2
      <3> QED
        BY <1>3, <1>4, <1>5, <2>2, <3>1
    <2> QED
      BY <1>2, <2>1, <2>2
  <1>7. ASSUME k = WindowSize
        PROVE  /\ window \in Seq(BOOLEAN) /\ rs \in Seq(BOOLEAN)
               /\ Len(window) = Min2(Len(rs), WindowSize)
               /\ \A i \in 1..Len(window) : window[i] = rs[Len(rs) - Len(window) + i]
    <2>1. window = Tail(longer)
      BY <1>2, <1>3, <1>7, <1>0 DEF Slide, longer
    <2>2. /\ window \in Seq(BOOLEAN) /\ Len(window) = k
          /\ \A i \in 1..k : window[i] = longer[i + 1]
      BY <1>2, <1>3, <2>1
    <2>3. \A i \in 1..k : window[i] = rs[n + 1 - k + i]
      <3> SUFFICES ASSUME NEW i \in 1..k PROVE window[i] = rs[n + 1 - k + i]
        OBVIOUS
      <3>1. i + 1 \in 1..(k + 1) /\ n - k + (i + 1) = n + 1 - k + i
        BY <1>2
      <3> QED
        BY <1>6, <2>2, <3>1
    <2>4. Len(window) = Min2(Len(rs), WindowSize)
      <3>1. ~(Len(rs) <= WindowSize)
        BY <1>1, <1>2, <1>4, <1>7
      <3>2. Len(window) = WindowSize
        BY <1>7, <2>2
      <3> QED
        BY <3>1, <3>2 DEF Min2
    <2>5. Len(rs) - Len(window) = n + 1 - k
      BY <1>2, <1>4, <2>2
    <2>6. \A i \in 1..Len(window) : window[i] = rs[Len(rs) - Len(window) + i]
      BY <2>2, <2>3, <2>5
    <2> QED
      BY <1>4, <2>2, <2>4, <2>6
  <1>8. ASSUME k < WindowSize
        PROVE  /\ window \in Seq(BOOLEAN) /\ rs \in Seq(BOOLEAN)
               /\ Len(window) = Min2(Len(rs), WindowSize)
               /\ \A i \in 1..Len(window) : window[i] = rs[Len(rs) - Len(window) + i]
    <2>1. window = longer /\ k = n
      BY <1>0, <1>1, <1>2, <1>3, <1>8 DEF Slide, WindowInv, Min2, longer
    <2>2. Len(window) = Min2(Len(rs), WindowSize)
      <3>1. Len(window) = Len(rs) /\ Len(rs) <= WindowSize
        BY <1>1, <1>2, <1>3, <1>4, <1>8, <2>1
      <3> QED
        BY <3>1 DEF Min2
    <2>3. Len(window) = k + 1 /\ Len(rs) - Len(window) = n - k
      BY <1>2, <1>3, <1>4, <2>1
    <2>4. \A i \in 1..Len(window) : window[i] = rs[Len(rs) - Len(window) + i]
      BY <1>6, <2>1, <2>3
    <2> QED
      BY <1>3, <1>4, <2>1, <2>2, <2>4
  <1>9. k = WindowSize \/ k < WindowSize
    BY <1>1, <1>2
  <1> QED
    BY <1>7, <1>8, <1>9 DEF window, rs

\* A full window and the last outcomes of the run hold equally many drops.
LEMMA WindowCounts ==
  ASSUME NEW window \in Seq(BOOLEAN), NEW rs \in Seq(BOOLEAN),
         Len(window) = WindowSize, WindowSize <= Len(rs),
         \A i \in 1..Len(window) : window[i] = rs[Len(rs) - Len(window) + i]
  PROVE  Drops(window) = Cardinality({i \in LastResults(rs) : rs[i]})
  <1> DEFINE S == {i \in DOMAIN window : window[i]}
             T == {i \in LastResults(rs) : rs[i]}
             shift == Len(rs) - WindowSize
             f == [i \in S |-> i + shift]
  <1>1. Len(rs) \in Nat /\ WindowSize \in Nat /\ shift \in Nat
    BY EdgeLearningAssumption
  <1>2. DOMAIN window = 1..WindowSize /\ DOMAIN rs = 1..Len(rs)
    OBVIOUS
  <1>3. IsFiniteSet(S)
    <2>1. IsFiniteSet(1..WindowSize)
      BY <1>1, FS_Interval
    <2>2. S \subseteq 1..WindowSize
      BY <1>2
    <2> QED
      BY <2>1, <2>2, FS_Subset
  <1>4. \A i \in S : f[i] \in T
    BY <1>1, <1>2 DEF LastResults
  <1>5. \A j \in T : j - shift \in S /\ f[j - shift] = j
    <2> SUFFICES ASSUME NEW j \in T PROVE j - shift \in S /\ f[j - shift] = j
      OBVIOUS
    <2>1. j \in 1..Len(rs) /\ j > shift /\ rs[j]
      BY <1>2 DEF LastResults
    <2>2. j - shift \in 1..WindowSize /\ shift + (j - shift) = j
      BY <1>1, <2>1
    <2>3. window[j - shift] = rs[shift + (j - shift)]
      BY <2>2
    <2>4. j - shift \in S
      BY <1>2, <2>1, <2>2, <2>3
    <2> QED
      BY <1>1, <2>1, <2>4
  <1>6. \A a, b \in S : f[a] = f[b] => a = b
    BY <1>1, <1>2
  <1>7. f \in Bijection(S, T)
    BY <1>4, <1>5, <1>6 DEF Bijection, Injection, Surjection, IsInjective
  <1>8. ExistsBijection(S, T)
    BY <1>7 DEF ExistsBijection
  <1>9. Cardinality(S) = Cardinality(T)
    BY <1>3, <1>8, FS_Bijection
  <1> QED
    BY <1>9 DEF Drops

LEMMA WindowInit == Init => WindowInv
  <1>1. Len(<<>>) = 0 /\ Min2(0, WindowSize) = 0
    BY EdgeLearningAssumption DEF Min2
  <1> QED
    BY <1>1, EdgeLearningAssumption DEF Init, Empty, WindowInv

\* Min2 keeps the relaxed budget below the maximum.
LEMMA RelaxedBounded ==
  ASSUME TypeOK, WindowInv, NEW window
  PROVE  Relaxed(window) <= MaxBudget /\ budget <= Relaxed(window)
  BY EdgeLearningAssumption DEF TypeOK, WindowInv, Relaxed, Min2, AdaptStep

LEMMA LoadedWindow ==
  ASSUME NEW c, Loaded(c), c.budget <= MaxBudget
  PROVE  /\ budget' <= MaxBudget
         /\ Len(recent') = Min2(Len(results'), WindowSize)
         /\ \A i \in 1..Len(recent') :
              recent'[i] = results'[Len(results') - Len(recent') + i]
  <1>1. Len(<<>>) = 0 /\ Min2(0, WindowSize) = 0 /\ 1..0 = {}
    BY EdgeLearningAssumption DEF Min2
  <1>2. recent' = <<>> /\ results' = <<>> /\ budget' = c.budget
    BY DEF Loaded
  <1> QED
    BY <1>1, <1>2

LEMMA WindowStep == TypeOK /\ WindowInv /\ [Next]_vars => WindowInv'
  <1> SUFFICES ASSUME TypeOK, WindowInv, [Next]_vars PROVE WindowInv'
    OBVIOUS
  <1>1. ASSUME NEW e \in Traffic, NEW outcome \in SimOutcome \cup NodeOutcome,
               Observe(e, outcome)
        PROVE  WindowInv'
    <2> DEFINE dropped == outcome \notin Success
    <2>1. dropped \in BOOLEAN
      OBVIOUS
    <2>2. /\ recent' = Slide(recent, dropped) /\ results' = Append(results, dropped)
          /\ budget' = Relaxed(recent') /\ saved' = saved
      BY <1>1 DEF Observe
    <2> HIDE DEF dropped
    <2>3. /\ Len(recent') = Min2(Len(results'), WindowSize)
          /\ \A i \in 1..Len(recent') :
               recent'[i] = results'[Len(results') - Len(recent') + i]
      BY <2>1, <2>2, SlideKeepsWindow
    <2>4. budget' <= MaxBudget /\ saved'.budget <= MaxBudget
      BY <2>2, RelaxedBounded DEF WindowInv
    <2> QED
      BY <2>3, <2>4 DEF WindowInv
  <1>2. ASSUME NEW p \in Packets, Score(p)
        PROVE  WindowInv'
    BY <1>2 DEF Score, WindowInv
  <1>3. CASE BeginSave \/ FailToStart \/ Churn \/ UNCHANGED vars
    BY <1>3 DEF BeginSave, FailToStart, Churn, vars, memory, WindowInv
  <1>4. CASE EndSave
    <2>1. Loaded(Empty) /\ Empty.budget <= MaxBudget /\ saved'.budget = budget
      BY <1>4, EdgeLearningAssumption DEF EndSave, Gone, Empty
    <2> QED
      BY <2>1, LoadedWindow DEF WindowInv
  <1>5. CASE Crash
    <2>1. Loaded(Empty) /\ Empty.budget <= MaxBudget /\ saved' = saved
      BY <1>5, EdgeLearningAssumption DEF Crash, Gone, Empty
    <2> QED
      BY <2>1, LoadedWindow DEF WindowInv
  <1>6. CASE Start
    BY <1>6, LoadedWindow DEF Start, WindowInv
  <1> QED
    BY <1>1, <1>2, <1>3, <1>4, <1>5, <1>6 DEF Next, Stopped

LEMMA BudgetStep ==
  TypeOK /\ WindowInv /\ WindowInv' /\ [Next]_vars =>
    (process = "running" /\ process' = "running" /\ budget' # budget =>
       /\ budget < budget' /\ budget' <= MaxBudget
       /\ Len(results') >= WindowSize
       /\ 100 * Cardinality({i \in LastResults(results') : results'[i]})
            > 35 * WindowSize)
  <1> SUFFICES ASSUME TypeOK, WindowInv, WindowInv', [Next]_vars,
                      process = "running", process' = "running", budget' # budget
               PROVE  /\ budget < budget' /\ budget' <= MaxBudget
                      /\ Len(results') >= WindowSize
                      /\ 100 * Cardinality({i \in LastResults(results') : results'[i]})
                           > 35 * WindowSize
    OBVIOUS
  <1>1. PICK e \in Traffic, outcome \in SimOutcome \cup NodeOutcome : Observe(e, outcome)
    BY DEF Next, Score, BeginSave, EndSave, Gone, Crash, Start, FailToStart, Churn,
           Stopped, vars, memory
  <1> DEFINE dropped == outcome \notin Success
  <1>2. /\ recent' = Slide(recent, dropped) /\ results' = Append(results, dropped)
        /\ budget' = Relaxed(recent')
    BY <1>1 DEF Observe
  <1>3. dropped \in BOOLEAN
    OBVIOUS
  <1> HIDE DEF dropped
  <1>4. /\ recent' \in Seq(BOOLEAN) /\ results' \in Seq(BOOLEAN)
        /\ Len(recent') = Min2(Len(results'), WindowSize)
        /\ \A i \in 1..Len(recent') :
             recent'[i] = results'[Len(results') - Len(recent') + i]
    BY <1>2, <1>3, SlideKeepsWindow
  <1>5. WindowFull(recent') /\ 20 * Drops(recent') > 7 * WindowSize
    BY <1>2 DEF Relaxed
  <1>6. Len(recent') = WindowSize /\ WindowSize <= Len(results')
    <2>1. Len(recent') \in Nat /\ Len(results') \in Nat /\ WindowSize \in Nat
      BY <1>4, EdgeLearningAssumption
    <2> QED
      BY <2>1, <1>4, <1>5 DEF WindowFull, Min2
  <1>7. Drops(recent') = Cardinality({i \in LastResults(results') : results'[i]})
    BY <1>4, <1>6, WindowCounts
  <1>8. Drops(recent') \in Nat
    <2>1. IsFiniteSet(1..WindowSize) /\ DOMAIN recent' = 1..WindowSize
      BY <1>4, <1>6, EdgeLearningAssumption, FS_Interval
    <2>2. IsFiniteSet({i \in DOMAIN recent' : recent'[i]})
      BY <2>1, FS_Subset
    <2> QED
      BY <2>2, FS_CardinalityType DEF Drops
  <1>9. 100 * Drops(recent') > 35 * WindowSize
    BY <1>5, <1>8, EdgeLearningAssumption
  <1>10. budget < budget' /\ budget' <= MaxBudget
    <2>1. budget \in Nat /\ MaxBudget \in Nat /\ budget' \in Nat
      BY <1>2, EdgeLearningAssumption DEF TypeOK, Relaxed, Min2, AdaptStep
    <2>2. budget <= budget' /\ budget' <= MaxBudget
      BY <1>2, RelaxedBounded
    <2> QED
      BY <2>1, <2>2
  <1>11. Len(results') >= WindowSize
    BY <1>6
  <1> QED
    BY <1>7, <1>9, <1>10, <1>11

\* The budget of a run is relaxed only when too many of its last outcomes were drops,
\* and never tightened.
THEOREM BudgetFollowsWindowHolds == Spec => BudgetFollowsWindow
  <1>1. Init => TypeOK /\ WindowInv
    BY TypeInit, WindowInit
  <1>2. TypeOK /\ WindowInv /\ [Next]_vars => (TypeOK /\ WindowInv)'
    BY TypeStep, WindowStep
  <1>3. TypeOK /\ WindowInv /\ (TypeOK /\ WindowInv)' /\ [Next]_vars =>
          [process = "running" /\ process' = "running" /\ budget' # budget =>
             /\ budget < budget' /\ budget' <= MaxBudget
             /\ Len(results') >= WindowSize
             /\ 100 * Cardinality({i \in LastResults(results') : results'[i]})
                  > 35 * WindowSize]_vars
    BY BudgetStep
  <1> QED
    BY <1>1, <1>2, <1>3, PTL DEF Spec, BudgetFollowsWindow

-----------------------------------------------------------------------------
(* Risk follows evidence *)

\* A quotient is the number of times the divisor fits.
LEMMA QuotientBounds ==
  ASSUME NEW a \in Nat, NEW b \in Nat \ {0}, NEW q \in Nat
  PROVE  /\ b * q <= a => q <= a \div b
         /\ a < b * (q + 1) => a \div b <= q
<1> DEFINE d == a \div b
<1>1. d \in Nat /\ b * d <= a /\ a < b * (d + 1)
  OBVIOUS
<1> HIDE DEF d
<1>2. ASSUME b * q <= a, d < q PROVE FALSE
  <2>1. d + 1 <= q
    BY <1>1, <1>2
  <2>2. b * (d + 1) <= b * q
    BY <1>1, <2>1
  <2> QED
    BY <1>1, <1>2, <2>2
<1>3. ASSUME a < b * (q + 1), q < d PROVE FALSE
  <2>1. q + 1 <= d
    BY <1>1, <1>3
  <2>2. b * (q + 1) <= b * d
    BY <1>1, <2>1
  <2> QED
    BY <1>1, <1>3, <2>2
<1> QED
  BY <1>1, <1>2, <1>3 DEF d

LEMMA ScoreParts ==
  ASSUME NEW s \in ScoreType
  PROVE  /\ s["delivered"] \in Nat /\ s["drops"] \in Nat
         /\ Weighted(s) \in Nat /\ Total(s) \in Nat \ {0}
<1>1. /\ s["delivered"] \in Nat /\ s["drops"] \in Nat /\ s["link_loss"] \in Nat
      /\ s["loop"] \in Nat /\ s["ttl_expired"] \in Nat
  BY CounterNames DEF ScoreType
<1> QED
  BY <1>1 DEF Weighted, Total, Prior, Unit

\* Evidence of success makes a peer no worse, evidence of failure no better.
LEMMA SuccessClears ==
  ASSUME NEW s \in ScoreType, NEW z \in ScoreType,
         Weighted(z) = Weighted(s), Total(z) = Total(s) + Unit
  PROVE  Badness(z) <= Badness(s)
<1> DEFINE w == Weighted(s)
           t == Total(s)
<1>1. w \in Nat /\ t \in Nat \ {0} /\ Weighted(z) = w /\ Total(z) = t + 100
  BY ScoreParts DEF Unit
<1>2. Badness(s) \in 0..1000 /\ Badness(z) \in 0..1000
  BY BadnessTyped DEF Scale
<1>3. CASE w >= 100 * t
  <2>1. Badness(s) = 1000
    BY <1>3 DEF Badness, Scale
  <2> QED
    BY <1>2, <2>1
<1>4. CASE w < 100 * t
  <2>1. Badness(s) = (10 * w) \div t
    BY <1>1, <1>4 DEF Badness
  <2>2. Badness(z) = (10 * w) \div (t + 100)
    BY <1>1, <1>4 DEF Badness
  <2> HIDE DEF w, t
  <2> DEFINE q == (10 * w) \div (t + 100)
  <2>3. 10 * w \in Nat /\ t + 100 \in Nat \ {0}
    BY <1>1
  <2>4. q \in Nat /\ (t + 100) * q <= 10 * w
    BY <2>3, Quotient
  <2> HIDE DEF q
  <2>5. t * q <= 10 * w
    <3>1. (t + 100) * q = t * q + 100 * q
      BY <1>1, <2>4
    <3> QED
      BY <1>1, <2>4, <3>1
  <2>6. q <= (10 * w) \div t
    BY <1>1, <2>3, <2>4, <2>5, QuotientBounds
  <2> QED
    BY <2>1, <2>2, <2>6 DEF q
<1> QED
  BY <1>1, <1>3, <1>4

LEMMA FailureTells ==
  ASSUME NEW s \in ScoreType, NEW z \in ScoreType,
         Weighted(z) >= Weighted(s) + 100 * Unit, Total(z) = Total(s) + Unit
  PROVE  Badness(s) <= Badness(z)
<1> DEFINE w == Weighted(s)
           t == Total(s)
           v == Weighted(z)
<1>1. w \in Nat /\ t \in Nat \ {0} /\ v \in Nat /\ v >= w + 10000 /\ Total(z) = t + 100
  BY ScoreParts DEF Unit
<1>2. Badness(s) \in 0..1000 /\ Badness(z) \in 0..1000
  BY BadnessTyped DEF Scale
<1>3. CASE v >= 100 * (t + 100)
  <2>1. Badness(z) = 1000
    BY <1>1, <1>3 DEF Badness, Scale
  <2> QED
    BY <1>2, <2>1
<1>4. CASE v < 100 * (t + 100)
  <2>1. w < 100 * t
    BY <1>1, <1>4
  <2>2. Badness(s) = (10 * w) \div t
    BY <1>1, <2>1 DEF Badness
  <2>3. Badness(z) = (10 * v) \div (t + 100)
    BY <1>1, <1>4 DEF Badness
  <2> HIDE DEF w, t, v
  <2> DEFINE q == (10 * w) \div t
  <2>4. 10 * w \in Nat /\ 10 * v \in Nat /\ t + 100 \in Nat \ {0}
    BY <1>1
  <2>5. q \in Nat /\ t * q <= 10 * w /\ q <= 1000
    BY <1>1, <1>2, <2>2, <2>4, Quotient
  <2> HIDE DEF q
  <2>6. (t + 100) * q <= 10 * v
    <3>1. (t + 100) * q = t * q + 100 * q
      BY <1>1, <2>5
    <3> QED
      BY <1>1, <2>5, <3>1
  <2>7. q <= (10 * v) \div (t + 100)
    BY <2>4, <2>5, <2>6, QuotientBounds
  <2> QED
    BY <2>2, <2>3, <2>7 DEF q
<1> QED
  BY <1>1, <1>3, <1>4

\* What an outcome adds to the score of a peer.
LEMMA BumpWeighs ==
  ASSUME NEW s \in ScoreType, NEW outcome \in SimOutcome \cup NodeOutcome
  PROVE  LET z == Bump(s, CountedForPeer(outcome)) IN
         /\ z \in ScoreType /\ Total(z) = Total(s) + Unit
         /\ outcome \in Success => /\ Weighted(z) = Weighted(s)
                                   /\ z["delivered"] > s["delivered"] /\ z["drops"] = s["drops"]
         /\ outcome \notin Success => /\ Weighted(z) >= Weighted(s) + 100 * Unit
                                      /\ z["delivered"] = s["delivered"]
<1> DEFINE cs == CountedForPeer(outcome)
           z == Bump(s, cs)
<1>1. cs \in SUBSET Counter
  BY CountedTyped
<1>2. z \in ScoreType
  BY <1>1, BumpTyped
<1>3. /\ s["delivered"] \in Nat /\ s["drops"] \in Nat /\ s["link_loss"] \in Nat
      /\ s["loop"] \in Nat /\ s["ttl_expired"] \in Nat
  BY CounterNames DEF ScoreType
<1>4. \A c \in Counter : z[c] = IF c \in cs THEN s[c] + 100 ELSE s[c]
  BY DEF Bump, Unit
<1>5. CASE outcome \in Success
  <2>1. cs = {"delivered"}
    BY <1>5 DEF Success, CountedForPeer, Counted
  <2>2. /\ z["delivered"] = s["delivered"] + 100 /\ z["drops"] = s["drops"]
        /\ z["link_loss"] = s["link_loss"] /\ z["loop"] = s["loop"]
        /\ z["ttl_expired"] = s["ttl_expired"]
    BY <1>4, <2>1, CounterNames
  <2> HIDE DEF z
  <2> QED
    BY <1>2, <1>3, <1>5, <2>2 DEF Weighted, Total, Unit, Prior, z
<1>6. CASE outcome \notin Success
  <2>1. "drops" \in cs /\ "delivered" \notin cs
    BY <1>6 DEF Success, CountedForPeer, Counted, SimOutcome, NodeOutcome
  <2>2. /\ z["delivered"] = s["delivered"] /\ z["drops"] = s["drops"] + 100
        /\ z["link_loss"] \in Nat /\ z["link_loss"] >= s["link_loss"]
        /\ z["loop"] \in Nat /\ z["loop"] >= s["loop"]
        /\ z["ttl_expired"] \in Nat /\ z["ttl_expired"] >= s["ttl_expired"]
    BY <1>3, <1>4, <2>1, CounterNames
  <2> HIDE DEF z
  <2> QED
    BY <1>2, <1>3, <1>6, <2>2 DEF Weighted, Total, Unit, Prior, z
<1> QED
  BY <1>5, <1>6

-----------------------------------------------------------------------------
\* Where the risk of a peer stands to its badness: the next success would not raise it, the
\* next failure would not lower it.
Poised(r, b) ==
  /\ (Within01((92 * r) \div 100 - 150) + b) \div 2 <= r
  /\ r <= (Scale + b) \div 2

LEMMA PoisedAtBadness ==
  ASSUME NEW b \in 0..Scale PROVE Poised(b, b)
BY DEF Poised, Within01, Scale

LEMMA PoisedAfterSuccess ==
  ASSUME NEW r \in 0..Scale, NEW b \in 0..Scale, NEW c \in 0..Scale, c <= b, Poised(r, b)
  PROVE  LET q == (Within01((92 * r) \div 100 - 150) + c) \div 2
         IN  q <= r /\ Poised(q, c)
BY DEF Poised, Within01, Scale

LEMMA PoisedAfterFailure ==
  ASSUME NEW r \in 0..Scale, NEW b \in 0..Scale, NEW c \in 0..Scale, b <= c, Poised(r, b)
  PROVE  LET q == (Scale + c) \div 2
         IN  r <= q /\ Poised(q, c)
BY DEF Poised, Within01, Scale

RiskInv == \A n \in Node : Poised(risk[n], Badness(peers[n]))

Follows ==
  \A n \in Node :
    /\ peers'[n].delivered > peers[n].delivered => risk'[n] <= risk[n]
    /\ peers'[n].drops > peers[n].drops => risk'[n] >= risk[n]
    /\ peers'[n] = peers[n] => risk'[n] = risk[n]

LEMMA ObserveFollows ==
  ASSUME TypeOK, RiskInv, NEW e \in Traffic, NEW outcome \in SimOutcome \cup NodeOutcome,
         Observe(e, outcome)
  PROVE  Follows /\ RiskInv'
<1>1. e[2] \in Node
  BY EdgeLearningAssumption DEF Edge
<1> DEFINE n == e[2]
           z == Bump(peers[n], CountedForPeer(outcome))
           r == risk[n]
           b == Badness(peers[n])
           c == Badness(z)
           q == Blend(Recent(r, outcome), z)
<1>2. /\ peers' = [peers EXCEPT ![n] = z] /\ risk' = [risk EXCEPT ![n] = q]
  BY DEF Observe
<1>3. peers[n] \in ScoreType /\ r \in 0..Scale /\ Poised(r, b) /\ b \in 0..Scale
  BY <1>1, BadnessTyped DEF TypeOK, RiskInv
<1>4. /\ z \in ScoreType /\ c \in 0..Scale /\ Total(z) = Total(peers[n]) + Unit
      /\ outcome \in Success => /\ Weighted(z) = Weighted(peers[n])
                                /\ z["delivered"] > peers[n]["delivered"]
                                /\ z["drops"] = peers[n]["drops"]
      /\ outcome \notin Success => /\ Weighted(z) >= Weighted(peers[n]) + 100 * Unit
                                   /\ z["delivered"] = peers[n]["delivered"]
  BY <1>3, BumpWeighs, BadnessTyped
<1>5. /\ peers'[n] = z /\ risk'[n] = q
      /\ \A m \in Node \ {n} : peers'[m] = peers[m] /\ risk'[m] = risk[m]
  BY <1>1, <1>2 DEF TypeOK
<1>6. peers[n]["delivered"] \in Nat /\ peers[n]["drops"] \in Nat
  BY <1>3, ScoreParts
<1>7. \A m \in Node \ {n} :
        /\ ~(peers'[m].drops > peers[m].drops) /\ ~(peers'[m].delivered > peers[m].delivered)
        /\ risk'[m] = risk[m]
  <2> SUFFICES ASSUME NEW m \in Node, m # n
               PROVE  /\ ~(peers'[m].drops > peers[m].drops)
                      /\ ~(peers'[m].delivered > peers[m].delivered)
                      /\ risk'[m] = risk[m]
    OBVIOUS
  <2>1. peers[m] \in ScoreType
    BY DEF TypeOK
  <2>2. peers[m]["drops"] \in Nat /\ peers[m]["delivered"] \in Nat
    BY <2>1, ScoreParts
  <2> QED
    BY <1>5, <2>2
<1>8. CASE outcome \in Success
  <2>1. c <= b
    BY <1>3, <1>4, <1>8, SuccessClears
  <2>2. q = (Within01((92 * r) \div 100 - 150) + c) \div 2
    BY <1>8 DEF Blend, Recent, Signal
  <2>3. q <= r /\ Poised(q, c)
    BY <1>3, <1>4, <2>1, <2>2, PoisedAfterSuccess
  <2>4. z["drops"] = peers[n]["drops"] /\ z # peers[n]
    BY <1>4, <1>6, <1>8
  <2> HIDE DEF z, q, r, b, c, n
  <2>5. Poised(risk'[n], Badness(peers'[n]))
    BY <1>5, <2>3 DEF c
  <2>6. RiskInv'
    BY <1>5, <2>5 DEF RiskInv
  <2>7. ~(peers'[n].drops > peers[n].drops) /\ peers'[n] # peers[n] /\ risk'[n] <= risk[n]
    BY <1>5, <1>6, <2>3, <2>4 DEF r
  <2> QED
    BY <2>6, <2>7, <1>7 DEF Follows, n
<1>9. CASE outcome \notin Success
  <2>1. b <= c
    BY <1>3, <1>4, <1>9, FailureTells
  <2>2. Recent(r, outcome) = Scale
    <3>1. \A x \in 0..Scale : Within01((92 * x) \div 100 + Scale) = Scale
      BY DEF Within01, Scale
    <3>2. Signal(outcome) = Scale
      BY <1>9 DEF Signal
    <3> QED
      BY <1>3, <3>1, <3>2 DEF Recent
  <2>3. q = (Scale + c) \div 2
    BY <2>2 DEF Blend
  <2>4. r <= q /\ Poised(q, c)
    BY <1>3, <1>4, <2>1, <2>3, PoisedAfterFailure
  <2>5. Weighted(z) # Weighted(peers[n])
    BY <1>3, <1>4, <1>9, ScoreParts DEF Unit
  <2>6. z # peers[n] /\ z["delivered"] = peers[n]["delivered"]
    BY <1>4, <1>9, <2>5
  <2> HIDE DEF z, q, r, b, c, n
  <2>7. Poised(risk'[n], Badness(peers'[n]))
    BY <1>5, <2>4 DEF c
  <2>8. RiskInv'
    BY <1>5, <2>7 DEF RiskInv
  <2>9. ~(peers'[n].delivered > peers[n].delivered) /\ peers'[n] # peers[n]
        /\ risk'[n] >= risk[n]
    <3>1. q \in Int /\ r \in Int
      BY <1>3, <2>3, <1>4 DEF Scale
    <3> QED
      BY <1>5, <1>6, <2>4, <2>6, <3>1 DEF r
  <2> QED
    BY <2>8, <2>9, <1>7 DEF Follows, n
<1> QED
  BY <1>8, <1>9

\* A solver that has just been made takes its risks from the evidence.
LEMMA LoadedPoised ==
  ASSUME NEW c, SavedTyped(c), Loaded(c) PROVE RiskInv'
<1>1. peers' \in [Node -> ScoreType] /\ risk' = [n \in Node |-> Badness(peers'[n])]
  BY AgedTyped DEF SavedTyped, Loaded
<1> QED
  BY <1>1, BadnessTyped, PoisedAtBadness DEF RiskInv

LEMMA RiskInit == Init => RiskInv
<1> SUFFICES ASSUME Init, NEW n \in Node PROVE Poised(risk[n], Badness(peers[n]))
  BY DEF RiskInv
<1>1. peers[n] = Zero /\ risk[n] = 0
  BY DEF Init, Empty
<1>2. Weighted(Zero) = 0 /\ Total(Zero) = 800
  BY CounterNames DEF Zero, Weighted, Total, Prior, Unit
<1>3. Badness(Zero) = 0
  BY <1>2 DEF Badness
<1>4. 0 \in 0..Scale
  BY DEF Scale
<1>5. Poised(0, 0)
  BY <1>4, PoisedAtBadness
<1> QED
  BY <1>1, <1>3, <1>5

\* Every other step leaves scores and risks alone, or makes a new memory.
LEMMA RiskStep ==
  ASSUME TypeOK, RiskInv, [Next]_vars
  PROVE  RiskInv' /\ (process = "running" /\ process' = "running" => Follows)
<1>1. ASSUME NEW e \in Traffic, NEW outcome \in SimOutcome \cup NodeOutcome,
             Observe(e, outcome)
      PROVE  RiskInv' /\ Follows
  BY <1>1, ObserveFollows
<1>2. CASE UNCHANGED <<peers, risk>>
  <2>1. RiskInv'
    BY <1>2 DEF RiskInv
  <2>2. \A n \in Node : peers[n]["drops"] \in Nat /\ peers[n]["delivered"] \in Nat
    <3> SUFFICES ASSUME NEW n \in Node
                 PROVE  peers[n]["drops"] \in Nat /\ peers[n]["delivered"] \in Nat
      OBVIOUS
    <3>1. peers[n] \in ScoreType
      BY DEF TypeOK
    <3> QED
      BY <3>1, ScoreParts
  <2>3. Follows
    BY <1>2, <2>2 DEF Follows
  <2> QED
    BY <2>1, <2>3
<1>3. CASE EndSave \/ Crash
  <2>1. Loaded(Empty) /\ process' # "running"
    BY <1>3 DEF EndSave, Crash, Gone
  <2> QED
    BY <2>1, EmptyTyped, LoadedPoised
<1>4. CASE Start
  <2>1. Loaded(saved) /\ process # "running" /\ SavedTyped(saved)
    BY <1>4 DEF Start, TypeOK, SavedTyped
  <2> QED
    BY <2>1, LoadedPoised
<1> QED
  BY <1>1, <1>2, <1>3, <1>4 DEF Next, Score, BeginSave, FailToStart, Churn, Stopped, vars, memory

\* However recent and durable evidence disagree, a success never makes a peer look riskier
\* and a failure never less risky (solvers.py 303-317, 487-491), for any traffic, restarts
\* and crashes.
THEOREM RiskFollowsEvidenceHolds == Spec => RiskFollowsEvidence
<1>1. Init => TypeOK /\ RiskInv
  BY TypeInit, RiskInit
<1>2. TypeOK /\ RiskInv /\ [Next]_vars => (TypeOK /\ RiskInv)'
  BY TypeStep, RiskStep
<1>3. TypeOK /\ RiskInv /\ [Next]_vars =>
        [process = "running" /\ process' = "running" =>
           \A n \in Node :
             /\ peers'[n].delivered > peers[n].delivered => risk'[n] <= risk[n]
             /\ peers'[n].drops > peers[n].drops => risk'[n] >= risk[n]
             /\ peers'[n] = peers[n] => risk'[n] = risk[n]]_vars
  BY RiskStep DEF Follows
<1> QED
  BY <1>1, <1>2, <1>3, PTL DEF Spec, RiskFollowsEvidence

-----------------------------------------------------------------------------
(* Restarts *)

\* Every counter of a score is a multiple of g.
Grained(s, g) == \A c \in Counter : \E k \in Nat : s[c] = g * k

\* Observations are units of a hundred, ageing makes nine of ten: as long as the solver is
\* restarted at most twice, ageing is exact.
GrainInv ==
  /\ restarts \in Nat /\ restarts <= MaxRestarts
  /\ \A e \in Edge :
       /\ restarts = 0 => Grained(edges[e], 100) /\ Grained(saved.edges[e], 100)
       /\ restarts <= 1 => Grained(edges[e], 10) /\ Grained(saved.edges[e], 10)

LEMMA GrainsOfTen ==
  ASSUME NEW s, Grained(s, 100) PROVE Grained(s, 10)
<1> SUFFICES ASSUME NEW c \in Counter PROVE \E k \in Nat : s[c] = 10 * k
  BY DEF Grained
<1>1. PICK k \in Nat : s[c] = 100 * k
  BY DEF Grained
<1>2. 10 * k \in Nat /\ s[c] = 10 * (10 * k)
  BY <1>1
<1> QED
  BY <1>2

LEMMA ZeroGrained == \A g \in Nat : Grained(Zero, g)
<1> SUFFICES ASSUME NEW g \in Nat, NEW c \in Counter PROVE \E k \in Nat : Zero[c] = g * k
  BY DEF Grained
<1>1. Zero[c] = 0 /\ g * 0 = 0
  BY DEF Zero
<1> QED
  BY <1>1

LEMMA BumpGrained ==
  ASSUME NEW s, NEW cs, NEW g \in {10, 100}, Grained(s, g) PROVE Grained(Bump(s, cs), g)
<1> SUFFICES ASSUME NEW c \in Counter PROVE \E k \in Nat : Bump(s, cs)[c] = g * k
  BY DEF Grained
<1>1. PICK k \in Nat : s[c] = g * k
  BY DEF Grained
<1>2. Bump(s, cs)[c] = s[c] + 100 \/ Bump(s, cs)[c] = s[c]
  BY DEF Bump, Unit
<1>3. k + 10 \in Nat /\ k + 1 \in Nat
  OBVIOUS
<1>4. CASE g = 10
  <2>1. s[c] + 100 = 10 * (k + 10)
    BY <1>1, <1>4
  <2>2. Bump(s, cs)[c] = g * (k + 10) \/ Bump(s, cs)[c] = g * k
    BY <1>1, <1>2, <1>4, <2>1
  <2> QED
    BY <1>3, <2>2
<1>5. CASE g = 100
  <2>1. s[c] + 100 = 100 * (k + 1)
    BY <1>1, <1>5
  <2>2. Bump(s, cs)[c] = g * (k + 1) \/ Bump(s, cs)[c] = g * k
    BY <1>1, <1>2, <1>5, <2>1
  <2> QED
    BY <1>3, <2>2
<1> QED
  BY <1>4, <1>5

\* Ageing by nine tenths, exactly.
LEMMA AgedExact ==
  ASSUME NEW s, Grained(s, 10) PROVE \A c \in Counter : s[c] \in Nat /\ 10 * Aged(s)[c] = 9 * s[c]
<1> SUFFICES ASSUME NEW c \in Counter PROVE s[c] \in Nat /\ 10 * Aged(s)[c] = 9 * s[c]
  OBVIOUS
<1>1. PICK k \in Nat : s[c] = 10 * k
  BY DEF Grained
<1>2. Aged(s)[c] = (9 * s[c]) \div 10
  BY DEF Aged
<1>3. (9 * (10 * k)) \div 10 = 9 * k
  OBVIOUS
<1> QED
  BY <1>1, <1>2, <1>3

LEMMA AgedGrained ==
  ASSUME NEW s, Grained(s, 100) PROVE Grained(Aged(s), 10)
<1> SUFFICES ASSUME NEW c \in Counter PROVE \E k \in Nat : Aged(s)[c] = 10 * k
  BY DEF Grained
<1>1. PICK k \in Nat : s[c] = 100 * k
  BY DEF Grained
<1>2. Aged(s)[c] = (9 * s[c]) \div 10
  BY DEF Aged
<1>3. (9 * (100 * k)) \div 10 = 10 * (9 * k) /\ 9 * k \in Nat
  OBVIOUS
<1> QED
  BY <1>1, <1>2, <1>3

\* Nine tenths of each count are nine tenths of the weighted sum.
LEMMA NineTenths ==
  ASSUME NEW a \in Nat, NEW b \in Nat, NEW c \in Nat, NEW d \in Nat,
         NEW e \in Nat, NEW f \in Nat, NEW g \in Nat, NEW h \in Nat,
         10 * e = 9 * a, 10 * f = 9 * b, 10 * g = 9 * c, 10 * h = 9 * d
  PROVE  10 * (100 * e + 35 * f + 50 * g + 25 * h) = 9 * (100 * a + 35 * b + 50 * c + 25 * d)
OBVIOUS

\* Ageing, when exact, changes no verdict on a link and makes none look worse.
LEMMA AgeingIsFair ==
  ASSUME NEW s \in ScoreType, Grained(s, 10)
  PROVE  /\ Unproven(Aged(s)) <=> Unproven(s)
         /\ Badness(Aged(s)) <= Badness(s)
<1> DEFINE z == Aged(s)
           w == Weighted(s)
           t == Total(s)
           v == Weighted(z)
           u == Total(z)
<1>1. z \in ScoreType
  BY AgedTyped
<1>2. \A c \in Counter : s[c] \in Nat /\ z[c] \in Nat /\ 10 * z[c] = 9 * s[c]
  BY <1>1, AgedExact DEF ScoreType
<1>3. w \in Nat /\ t \in Nat \ {0} /\ v \in Nat /\ u \in Nat \ {0}
  BY <1>1, ScoreParts
<1>4. Badness(s) \in 0..1000 /\ Badness(z) \in 0..1000
  BY <1>1, BadnessTyped DEF Scale
<1> HIDE DEF z
<1>5. Unproven(z) <=> Unproven(s)
  BY <1>2, CounterNames DEF Unproven
<1>6. 10 * v = 9 * w /\ 10 * u >= 9 * t
  <2>1. /\ 10 * z["drops"] = 9 * s["drops"] /\ 10 * z["link_loss"] = 9 * s["link_loss"]
        /\ 10 * z["loop"] = 9 * s["loop"] /\ 10 * z["ttl_expired"] = 9 * s["ttl_expired"]
        /\ 10 * z["delivered"] = 9 * s["delivered"]
    BY <1>2, CounterNames
  <2>2. /\ s["delivered"] \in Nat /\ s["drops"] \in Nat /\ s["link_loss"] \in Nat
        /\ s["loop"] \in Nat /\ s["ttl_expired"] \in Nat
        /\ z["delivered"] \in Nat /\ z["drops"] \in Nat /\ z["link_loss"] \in Nat
        /\ z["loop"] \in Nat /\ z["ttl_expired"] \in Nat
    BY <1>2, CounterNames
  <2>3. /\ w = 100 * s["drops"] + 35 * s["link_loss"] + 50 * s["loop"] + 25 * s["ttl_expired"]
        /\ v = 100 * z["drops"] + 35 * z["link_loss"] + 50 * z["loop"] + 25 * z["ttl_expired"]
        /\ t = s["delivered"] + s["drops"] + 800 /\ u = z["delivered"] + z["drops"] + 800
    BY <2>2 DEF Weighted, Total, Prior, Unit
  <2> HIDE DEF w, v, t, u
  <2>4. 10 * v = 9 * w
    BY <2>1, <2>2, <2>3, NineTenths
  <2>5. 10 * u >= 9 * t
    BY <2>1, <2>2, <2>3
  <2> QED
    BY <2>4, <2>5
<1>7. CASE v >= 100 * u
  <2>1. w >= 100 * t
    BY <1>3, <1>6, <1>7
  <2>2. Badness(s) = 1000
    BY <2>1 DEF Badness, Scale
  <2> QED
    BY <1>4, <1>5, <2>2 DEF z
<1>8. CASE w >= 100 * t
  <2>1. Badness(s) = 1000
    BY <1>8 DEF Badness, Scale
  <2> QED
    BY <1>4, <1>5, <2>1 DEF z
<1>9. CASE v < 100 * u /\ w < 100 * t
  <2>1. Badness(z) = (10 * v) \div u /\ Badness(s) = (10 * w) \div t
    BY <1>3, <1>9 DEF Badness
  <2> HIDE DEF w, t, v, u
  <2> DEFINE q == (10 * v) \div u
  <2>2. 10 * v \in Nat /\ 10 * w \in Nat
    BY <1>3
  <2>3. q \in Nat /\ u * q <= 10 * v
    BY <1>3, <2>2, Quotient
  <2> HIDE DEF q
  <2>4. (9 * t) * q <= (10 * u) * q
    BY <1>3, <1>6, <2>3
  <2>5. (10 * u) * q = 10 * (u * q) /\ (9 * t) * q = 9 * (t * q)
    BY <1>3, <2>3
  <2>6. u * q \in Nat /\ t * q \in Nat
    BY <1>3, <2>3
  <2>7. t * q <= 10 * w
    BY <1>3, <1>6, <2>3, <2>4, <2>5, <2>6
  <2>8. q <= (10 * w) \div t
    BY <1>3, <2>2, <2>3, <2>7, QuotientBounds
  <2> QED
    BY <1>5, <2>1, <2>8 DEF q, z
<1> QED
  BY <1>3, <1>7, <1>8, <1>9

-----------------------------------------------------------------------------
LEMMA GrainInit == Init => GrainInv
<1>1. \A e \in Edge : Empty.edges[e] = Zero
  BY DEF Empty
<1>2. Grained(Zero, 100) /\ Grained(Zero, 10)
  BY ZeroGrained
<1> QED
  BY <1>1, <1>2, EdgeLearningAssumption DEF Init, GrainInv

\* A process that is over leaves an empty memory behind.
LEMMA GoneGrained ==
  ASSUME Loaded(Empty) PROVE \A e \in Edge : Grained(edges[e], 10)' /\ Grained(edges[e], 100)'
<1>1. \A e \in Edge : edges'[e] = Zero
  BY ZeroTyped DEF Loaded, Empty
<1>2. \A e \in Edge : Grained(edges'[e], 10) /\ Grained(edges'[e], 100)
  BY <1>1, ZeroGrained
<1> QED
  BY <1>2 DEF Grained

LEMMA GrainStep ==
  ASSUME TypeOK, GrainInv, [Next]_vars PROVE GrainInv'
<1>1. ASSUME NEW e \in Traffic, NEW outcome \in SimOutcome \cup NodeOutcome,
             Observe(e, outcome)
      PROVE  GrainInv'
  <2>1. e \in Edge
    BY EdgeLearningAssumption
  <2>2. /\ edges' = [edges EXCEPT ![e] = Bump(@, Counted(outcome))]
        /\ UNCHANGED <<saved, restarts>>
    BY <1>1 DEF Observe
  <2>3. \A f \in Edge : edges'[f] = edges[f] \/ edges'[f] = Bump(edges[f], Counted(outcome))
    BY <2>1, <2>2 DEF TypeOK
  <2>4. \A f \in Edge :
          /\ Grained(edges[f], 100) => Grained(edges'[f], 100)
          /\ Grained(edges[f], 10) => Grained(edges'[f], 10)
    BY <2>3, BumpGrained
  <2>5. saved' = saved /\ restarts' = restarts
    BY <2>2
  <2> QED
    BY <2>4, <2>5 DEF GrainInv
<1>2. CASE UNCHANGED <<edges, saved, restarts>>
  BY <1>2 DEF GrainInv
<1>3. CASE EndSave
  <2>1. Loaded(Empty) /\ saved'.edges = edges /\ restarts' = restarts
    BY <1>3 DEF EndSave, Gone
  <2> QED
    BY <2>1, GoneGrained DEF GrainInv, Grained
<1>4. CASE Crash
  <2>1. Loaded(Empty) /\ UNCHANGED <<saved, restarts>>
    BY <1>4 DEF Crash, Gone
  <2> QED
    BY <2>1, GoneGrained DEF GrainInv, Grained
<1>5. CASE Start
  <2>1. /\ \A e \in Edge : edges'[e] = Aged(saved.edges[e])
        /\ saved' = saved /\ restarts' = restarts + 1 /\ restarts < MaxRestarts
    BY <1>5 DEF Start, Loaded
  <2>2. restarts' \in Nat /\ restarts' <= MaxRestarts /\ restarts' # 0
    BY <2>1, EdgeLearningAssumption DEF GrainInv
  <2>3. ASSUME restarts' <= 1, NEW e \in Edge
        PROVE  Grained(edges'[e], 10) /\ Grained(saved'.edges[e], 10)
    <3>1. restarts = 0
      BY <2>1, <2>3 DEF GrainInv
    <3> QED
      BY <2>1, <3>1, AgedGrained DEF GrainInv
  <2> QED
    BY <2>2, <2>3 DEF GrainInv, Grained
<1> QED
  BY <1>1, <1>2, <1>3, <1>4, <1>5
     DEF Next, Score, BeginSave, FailToStart, Churn, Stopped, vars, memory

\* A solver started anew resumes what the last complete save wrote, wherever earlier
\* processes crashed, and ageing changes no verdict (solvers.py 414-421, 539-547, 672-686):
\* for any overlay and traffic, and two restarts, over which the counters are exact.
THEOREM RestartResumesHolds ==
  ASSUME MaxRestarts <= 2 PROVE Spec => RestartResumes
<1>1. Init => TypeOK /\ GrainInv
  BY TypeInit, GrainInit
<1>2. TypeOK /\ GrainInv /\ [Next]_vars => (TypeOK /\ GrainInv)'
  BY TypeStep, GrainStep
<1>3. ASSUME TypeOK, GrainInv, [Next]_vars, process = "stopped", process' = "running"
      PROVE  /\ known' = saved.known /\ budget' = saved.budget
             /\ \A e \in Edge :
                  /\ Unproven(edges'[e]) <=> Unproven(saved.edges[e])
                  /\ Badness(edges'[e]) <= Badness(saved.edges[e])
  <2>1. Start
    BY <1>3 DEF Next, Observe, Score, BeginSave, EndSave, Crash, Gone, FailToStart, Churn,
                Stopped, vars, memory
  <2>2. /\ known' = saved.known /\ budget' = saved.budget /\ restarts < MaxRestarts
        /\ \A e \in Edge : edges'[e] = Aged(saved.edges[e])
    BY <2>1 DEF Start, Loaded
  <2>3. restarts <= 1
    BY <1>3, <2>2, EdgeLearningAssumption DEF GrainInv
  <2>4. \A e \in Edge : saved.edges[e] \in ScoreType /\ Grained(saved.edges[e], 10)
    BY <1>3, <2>3 DEF TypeOK, GrainInv
  <2> QED
    BY <2>2, <2>4, AgeingIsFair
<1>4. TypeOK /\ GrainInv /\ [Next]_vars =>
        [process = "stopped" /\ process' = "running" =>
           /\ known' = saved.known /\ budget' = saved.budget
           /\ \A e \in Edge :
                /\ Unproven(edges'[e]) <=> Unproven(saved.edges[e])
                /\ Badness(edges'[e]) <= Badness(saved.edges[e])]_vars
  BY <1>3
<1> QED
  BY <1>1, <1>2, <1>4, PTL DEF Spec, RestartResumes

-----------------------------------------------------------------------------
(* What is held against a peer *)

Into(n) == {m \in Node : n \in Adj[m]}

\* What the scores es hold against the links to n.
Against(es, n, c) == SumFunctionOnSet([m \in Into(n) |-> es[<<m, n>>][c]], Into(n))

Matches(ps, es) == \A n \in Node, c \in EventCounter : ps[n][c] = Against(es, n, c)

LEMMA LinksInto ==
  ASSUME NEW n \in Node
  PROVE  IsFiniteSet(Into(n)) /\ \A m \in Into(n) : m \in Node /\ <<m, n>> \in Edge
<1>1. IsFiniteSet(Into(n))
  BY GraphAssumption, FS_Subset DEF Into
<1>2. QED
  BY <1>1 DEF Into, Edge

LEMMA MatchesIsSum == Matches(peers, edges) <=> PeersSumEdges
<1>1. \A n \in Node, c \in EventCounter :
        Against(edges, n, c) = SumFunction([m \in {k \in Node : n \in Adj[k]} |-> edges[<<m, n>>][c]])
  BY DEF Against, SumFunction, Into
<1>2. QED
  BY <1>1 DEF Matches, PeersSumEdges

\* An empty memory holds nothing against anyone.
LEMMA EmptyMatches ==
  ASSUME NEW ps, NEW es, \A n \in Node : ps[n] = Zero, \A e \in Edge : es[e] = Zero
  PROVE  Matches(ps, es)
<1> SUFFICES ASSUME NEW n \in Node, NEW c \in EventCounter PROVE ps[n][c] = Against(es, n, c)
  BY DEF Matches
<1> DEFINE f == [m \in Into(n) |-> es[<<m, n>>][c]]
<1>1. c \in Counter
  BY DEF Counter
<1>2. \A m \in Into(n) : f[m] = 0
  BY <1>1, LinksInto DEF Zero
<1>3. IsFiniteSet(Into(n))
  BY LinksInto
<1> HIDE DEF f
<1>4. SumFunctionOnSet(f, Into(n)) = 0
  BY <1>2, <1>3, SumZero
<1>5. QED
  BY <1>1, <1>4 DEF Against, f, Zero

\* An outcome on a link adds to the link and to the peer alike.
LEMMA BumpMatches ==
  ASSUME NEW ps \in [Node -> ScoreType], NEW es \in [Edge -> ScoreType], Matches(ps, es),
         NEW e \in Edge, NEW outcome \in SimOutcome \cup NodeOutcome
  PROVE  Matches([ps EXCEPT ![e[2]] = Bump(@, CountedForPeer(outcome))],
                 [es EXCEPT ![e] = Bump(@, Counted(outcome))])
<1> DEFINE qs == [ps EXCEPT ![e[2]] = Bump(@, CountedForPeer(outcome))]
           fs == [es EXCEPT ![e] = Bump(@, Counted(outcome))]
<1> SUFFICES ASSUME NEW n \in Node, NEW c \in EventCounter PROVE qs[n][c] = Against(fs, n, c)
  BY DEF Matches
<1> DEFINE f == [m \in Into(n) |-> es[<<m, n>>][c]]
           g == [m \in Into(n) |-> fs[<<m, n>>][c]]
<1>1. c \in Counter /\ e \in Node \X Node /\ e[2] \in Adj[e[1]]
  BY DEF Counter, Edge
<1>2. ps[n][c] = SumFunctionOnSet(f, Into(n)) /\ Against(fs, n, c) = SumFunctionOnSet(g, Into(n))
  BY DEF Matches, Against
<1>3. IsFiniteSet(Into(n)) /\ \A m \in Into(n) : <<m, n>> \in Edge
  BY LinksInto
<1>4. \A m \in Into(n) : f[m] \in Int
  BY <1>1, <1>3 DEF ScoreType
<1>5. ASSUME NEW m \in Into(n), <<m, n>> # e
      PROVE  g[m] = f[m]
  BY <1>3, <1>5
<1>6. CASE n = e[2]
  <2> DEFINE a == e[1]
  <2>1. a \in Into(n) /\ e = <<a, n>>
    BY <1>1, <1>6 DEF Into
  <2>2. qs[n][c] = IF c \in CountedForPeer(outcome) THEN ps[n][c] + Unit ELSE ps[n][c]
    BY <1>1, <1>6 DEF Bump
  <2>3. g[a] = IF c \in Counted(outcome) THEN f[a] + Unit ELSE f[a]
    BY <1>1, <2>1 DEF Bump
  <2>4. c \in CountedForPeer(outcome) <=> c \in Counted(outcome)
    BY DEF CountedForPeer, EventCounter
  <2>5. \A m \in Into(n) \ {a} : g[m] = f[m]
    BY <1>5, <2>1
  <2>6. f[a] \in Int /\ g[a] \in Int
    BY <1>4, <2>1, <2>3 DEF Unit
  <2> HIDE DEF f, g, a, qs
  <2>7. SumFunctionOnSet(g, Into(n)) = SumFunctionOnSet(f, Into(n)) - f[a] + g[a]
    BY <1>3, <1>4, <2>1, <2>5, <2>6, SumChange
  <2>8. SumFunctionOnSet(f, Into(n)) \in Int
    BY <1>3, <1>4, SumType
  <2>9. QED
    BY <1>2, <2>2, <2>3, <2>4, <2>6, <2>7, <2>8 DEF Unit
<1>7. CASE n # e[2]
  <2>1. \A m \in Into(n) : f[m] = g[m]
    BY <1>5, <1>7
  <2>2. qs[n][c] = ps[n][c]
    BY <1>7
  <2> HIDE DEF f, g, qs
  <2>3. QED
    BY <1>2, <1>3, <2>1, <2>2, SumSame
<1>8. QED
  BY <1>6, <1>7

\* Ageing, when exact, keeps the sums.
LEMMA AgedMatches ==
  ASSUME NEW ps \in [Node -> ScoreType], NEW es \in [Edge -> ScoreType], Matches(ps, es),
         \A e \in Edge : Grained(es[e], 10)
  PROVE  Matches([n \in Node |-> Aged(ps[n])], [e \in Edge |-> Aged(es[e])])
<1> DEFINE qs == [n \in Node |-> Aged(ps[n])]
           fs == [e \in Edge |-> Aged(es[e])]
<1> SUFFICES ASSUME NEW n \in Node, NEW c \in EventCounter PROVE qs[n][c] = Against(fs, n, c)
  BY DEF Matches
<1> DEFINE f == [m \in Into(n) |-> es[<<m, n>>][c]]
           g == [m \in Into(n) |-> fs[<<m, n>>][c]]
           old == SumFunctionOnSet(f, Into(n))
           new == SumFunctionOnSet(g, Into(n))
<1>1. c \in Counter
  BY DEF Counter
<1>2. ps[n][c] = old /\ Against(fs, n, c) = new
  BY DEF Matches, Against
<1>3. IsFiniteSet(Into(n)) /\ \A m \in Into(n) : <<m, n>> \in Edge
  BY LinksInto
<1>4. \A m \in Into(n) : f[m] \in Nat /\ 10 * g[m] = 9 * f[m]
  BY <1>1, <1>3, AgedExact
<1>5. \A m \in Into(n) : g[m] \in Nat
  BY <1>1, <1>3, AgedTyped DEF ScoreType
<1>6. qs[n][c] = (9 * old) \div 10
  BY <1>1, <1>2 DEF Aged
<1> HIDE DEF f, g, qs
<1>7. 10 * new = 9 * old
  BY <1>3, <1>4, <1>5, SumScale
<1>8. new \in Nat /\ old \in Nat
  BY <1>3, <1>4, <1>5, SumType
<1> HIDE DEF new, old
<1>9. (9 * old) \div 10 = new
  BY <1>7, <1>8
<1>10. QED
  BY <1>2, <1>6, <1>9

SumInv == Matches(peers, edges) /\ Matches(saved.peers, saved.edges)

LEMMA SumInit == Init => SumInv
<1> SUFFICES ASSUME Init PROVE SumInv
  OBVIOUS
<1>1. /\ \A n \in Node : peers[n] = Zero /\ saved.peers[n] = Zero
      /\ \A e \in Edge : edges[e] = Zero /\ saved.edges[e] = Zero
  BY DEF Init, Empty
<1>2. QED
  BY <1>1, EmptyMatches DEF SumInv

LEMMA GoneMatches ==
  ASSUME Loaded(Empty) PROVE Matches(peers', edges')
<1>1. (\A e \in Edge : edges'[e] = Zero) /\ \A n \in Node : peers'[n] = Zero
  BY ZeroTyped DEF Loaded, Empty
<1>2. QED
  BY <1>1, EmptyMatches

LEMMA SumStepInv ==
  ASSUME MaxRestarts <= 2, TypeOK, GrainInv, SumInv, [Next]_vars
  PROVE  SumInv'
<1>1. ASSUME NEW e \in Traffic, NEW outcome \in SimOutcome \cup NodeOutcome,
             Observe(e, outcome)
      PROVE  SumInv'
  <2>1. e \in Edge
    BY EdgeLearningAssumption
  <2>2. /\ edges' = [edges EXCEPT ![e] = Bump(@, Counted(outcome))]
        /\ peers' = [peers EXCEPT ![e[2]] = Bump(@, CountedForPeer(outcome))]
        /\ saved' = saved
    BY <1>1, <2>1 DEF Observe, TypeOK, Edge
  <2>3. Matches(peers', edges')
    BY <2>1, <2>2, BumpMatches DEF TypeOK, SumInv
  <2>4. QED
    BY <2>2, <2>3 DEF SumInv
<1>2. CASE UNCHANGED <<edges, peers, saved>>
  BY <1>2 DEF SumInv
<1>3. CASE EndSave
  <2>1. Loaded(Empty) /\ saved'.edges = edges /\ saved'.peers = peers
    BY <1>3 DEF EndSave, Gone
  <2>2. QED
    BY <2>1, GoneMatches DEF SumInv
<1>4. CASE Crash
  <2>1. Loaded(Empty) /\ saved' = saved
    BY <1>4 DEF Crash, Gone
  <2>2. QED
    BY <2>1, GoneMatches DEF SumInv
<1>5. CASE Start
  <2>1. /\ edges' = [e \in Edge |-> Aged(saved.edges[e])]
        /\ peers' = [n \in Node |-> Aged(saved.peers[n])]
        /\ saved' = saved /\ restarts < MaxRestarts
    BY <1>5 DEF Start, Loaded
  <2>2. restarts <= 1
    BY <2>1, EdgeLearningAssumption DEF GrainInv
  <2>3. /\ saved.edges \in [Edge -> ScoreType] /\ saved.peers \in [Node -> ScoreType]
        /\ \A e \in Edge : Grained(saved.edges[e], 10)
    BY <2>2 DEF TypeOK, GrainInv
  <2>4. Matches(peers', edges')
    BY <2>1, <2>3, AgedMatches DEF SumInv
  <2>5. QED
    BY <2>1, <2>4 DEF SumInv
<1>6. QED
  BY <1>1, <1>2, <1>3, <1>4, <1>5
     DEF Next, Score, BeginSave, FailToStart, Churn, Stopped, vars, memory

\* What is held against a peer stays the sum of what is held against the links to it,
\* whatever is observed, saved, lost in a crash and aged on loading, over two restarts,
\* for which the counters are exact (solvers.py 444-453, 475-486, 720-731).
THEOREM PeersSumEdgesHolds ==
  ASSUME MaxRestarts <= 2 PROVE Spec => []PeersSumEdges
<1>1. Init => TypeOK /\ GrainInv /\ SumInv
  BY TypeInit, GrainInit, SumInit
<1>2. TypeOK /\ GrainInv /\ SumInv /\ [Next]_vars => (TypeOK /\ GrainInv /\ SumInv)'
  BY TypeStep, GrainStep, SumStepInv
<1>3. SumInv => PeersSumEdges
  BY MatchesIsSum DEF SumInv
<1>4. QED
  BY <1>1, <1>2, <1>3, PTL DEF Spec
=============================================================================
