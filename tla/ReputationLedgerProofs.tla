----------------------- MODULE ReputationLedgerProofs ------------------------
(***************************************************************************)
(* What holds of a cluster on a shared ledger whatever its overlay, its    *)
(* endorsements and its ledger.  The types first: every vector of both     *)
(* solvers is one of naturals, however EigenTrust's is reduced.  Then what *)
(* it means: a computation keeps the mass it starts from; strangers and    *)
(* newcomers nobody backs earn nothing; blame reaches only those who       *)
(* vouched, within the signal, and where the units resolve it all of them; *)
(* evidence decides the vector, not what was published before; grants      *)
(* stand; the run closes on all of the evidence; greedy routing takes      *)
(* scored hops.                                                            *)
(***************************************************************************)
EXTENDS ReputationLedger, Foundations

Evidence == [delivered : [Link -> Nat], drops : [Link -> Nat],
             endorsed : [Pair -> 0..100], anchors : SUBSET Node]

\* The part of the types that the book and the closing rest on.
BookTypes ==
  /\ evidence \in Evidence
  /\ signed \in Nat
  /\ granted \in SUBSET [attestation : Attestation, at : Nat]
  /\ IsFiniteSet(granted)

\* GrantsStand is inductive with these types: an endorsement that is still fresh
\* cannot be among the granted ones, whose pairs are endorsed in the ledger.
BookInv == BookTypes /\ GrantsStand

\* From the flush on nothing changes the evidence, and the run closes only as the
\* computation over it ends.
ClosingInv ==
  /\ phase = "flushed" => recomputing /\ pending = {} /\ basis = evidence
  /\ phase = "closed" => ~recomputing
  /\ ClosedOnAllEvidence

-----------------------------------------------------------------------------
(* Evidence *)

\* Counting outcomes touches no endorsement and keeps the evidence well-formed.
LEMMA NotedKeeps ==
  ASSUME evidence \in Evidence, NEW delivered, NEW drops, Noted(delivered, drops)
  PROVE  evidence' \in Evidence /\ evidence'.endorsed = evidence.endorsed
<1> DEFINE good == [e \in Link |-> IF e \in delivered THEN evidence.delivered[e] + 1
                                   ELSE evidence.delivered[e]]
           bad == [e \in Link |-> IF e \in drops THEN evidence.drops[e] + 1
                                  ELSE evidence.drops[e]]
<1>1. good \in [Link -> Nat] /\ bad \in [Link -> Nat]
  BY DEF Evidence
<1>2. evidence' = [evidence EXCEPT !.delivered = good, !.drops = bad]
  BY DEF Noted
<1> QED
  BY <1>1, <1>2 DEF Evidence

\* An endorsement writes one entry of the ledger.
LEMMA EndorsedKeeps ==
  ASSUME evidence \in Evidence, NEW pair \in Pair, NEW confidence \in 1..100,
         evidence' = [evidence EXCEPT !.endorsed[pair] = confidence]
  PROVE  /\ evidence' \in Evidence
         /\ evidence'.endorsed = [evidence.endorsed EXCEPT ![pair] = confidence]
BY DEF Evidence

-----------------------------------------------------------------------------
(* The book of signed endorsements *)

\* A run starts with an empty book.
LEMMA BookInit == Init => BookInv
<1> SUFFICES ASSUME Init PROVE BookInv
  OBVIOUS
<1>1. evidence \in Evidence
  <2>1. PICK anchors \in Anchors, corpus \in Corpora :
          evidence = [delivered |-> [e \in Link |-> 0], drops |-> [e \in Link |-> 0],
                      endorsed |-> IF solver = "repulink" THEN corpus
                                   ELSE [e \in Pair |-> 0],
                      anchors |-> IF solver = "eigentrust" THEN anchors ELSE {}]
    BY DEF Init
  <2>2. corpus \in [Pair -> 0..100] /\ anchors \in SUBSET Node
    BY LedgerAssumption
  <2>3. [e \in Pair |-> 0] \in [Pair -> 0..100] /\ [e \in Link |-> 0] \in [Link -> Nat]
    OBVIOUS
  <2> QED
    BY <2>1, <2>2, <2>3 DEF Evidence
<1>2. signed = 0 /\ granted = {}
  BY DEF Init
<1>3. IsFiniteSet({}) /\ Cardinality({}) = 0
  BY FS_EmptySet
<1> QED
  BY <1>1, <1>2, <1>3 DEF BookInv, BookTypes, GrantsStand

\* What neither adds to the book nor touches an endorsement keeps it.
LEMMA BookFrame ==
  ASSUME BookInv, evidence' \in Evidence, evidence'.endorsed = evidence.endorsed,
         UNCHANGED <<signed, granted>>
  PROVE  BookInv'
BY DEF BookInv, BookTypes, GrantsStand

\* Every step keeps the book.
LEMMA BookStep == BookInv /\ [Next]_vars => BookInv'
<1> SUFFICES ASSUME BookInv, [Next]_vars PROVE BookInv'
  OBVIOUS
<1>t. evidence \in Evidence
  BY DEF BookInv, BookTypes
<1>1. ASSUME NEW e \in Traffic, Forward(e) \/ LoseFrame(e) PROVE BookInv'
  <2>1. CASE Forward(e)
    BY <2>1, <1>t, BookFrame DEF Forward
  <2>2. CASE LoseFrame(e)
    <3>1. evidence' \in Evidence /\ evidence'.endorsed = evidence.endorsed
      BY <2>2, <1>t, NotedKeeps DEF LoseFrame
    <3> QED
      BY <3>1, <2>2, BookFrame DEF LoseFrame
  <2> QED
    BY <1>1, <2>1, <2>2
<1>2. ASSUME NEW e \in pending, Confirm(e) PROVE BookInv'
  <2>1. evidence' \in Evidence /\ evidence'.endorsed = evidence.endorsed
    BY <1>2, <1>t, NotedKeeps DEF Confirm
  <2> QED
    BY <2>1, <1>2, BookFrame DEF Confirm
<1>3. ASSUME NEW es \in SUBSET pending, Sweep(es) PROVE BookInv'
  <2>1. evidence' \in Evidence /\ evidence'.endorsed = evidence.endorsed
    BY <1>3, <1>t, NotedKeeps DEF Sweep
  <2> QED
    BY <2>1, <1>3, BookFrame DEF Sweep
<1>4. ASSUME NEW offer \in Offers, Endorse(offer[1], offer[2]) PROVE BookInv'
  <2>1. offer[1] \in Pair /\ offer[2] \in 1..100
    BY LedgerAssumption
  <2>2. /\ evidence' \in Evidence
        /\ evidence'.endorsed = [evidence.endorsed EXCEPT ![offer[1]] = offer[2]]
    BY <1>4, <1>t, <2>1, EndorsedKeeps DEF Endorse
  <2>3. \A g \in granted : g.attestation.pair # offer[1]
    \* a granted pair is endorsed, so it is not fresh
    BY <1>4 DEF BookInv, BookTypes, GrantsStand, Endorse, Fresh, Attestation
  <2>4. \A g \in granted : g.attestation.pair \in Pair
    BY DEF BookInv, BookTypes, Attestation
  <2>5. signed' = signed /\ granted' = granted
    BY <1>4 DEF Endorse
  <2> QED
    BY <2>2, <2>3, <2>4, <2>5, <1>t DEF BookInv, BookTypes, GrantsStand, Evidence
<1>5. ASSUME NEW a \in Attestations, NEW now \in Times, EndorseSigned(a, now) PROVE BookInv'
  <2> DEFINE grant == [attestation |-> a, at |-> now]
  <2>1. a \in Attestation /\ now \in Nat
    BY LedgerAssumption
  <2>2. a.pair \in Pair /\ a.confidence \in 1..100 /\ a.issued \in Nat /\ a.expires \in Nat
    BY <2>1 DEF Attestation
  <2>3. /\ evidence' \in Evidence
        /\ evidence'.endorsed = [evidence.endorsed EXCEPT ![a.pair] = a.confidence]
    BY <1>5, <1>t, <2>2, EndorsedKeeps DEF EndorseSigned
  <2>4. \A g \in granted : g.attestation.pair # a.pair
    BY <1>5 DEF BookInv, BookTypes, GrantsStand, EndorseSigned, Fresh, Attestation
  <2>5. \A g \in granted : g.attestation.pair \in Pair
    BY DEF BookInv, BookTypes, Attestation
  <2>6. signed' = signed + 1 /\ granted' = granted \cup {grant}
    BY <1>5 DEF EndorseSigned
  <2>7. grant \notin granted
    BY <2>4
  <2>8. IsFiniteSet(granted') /\ Cardinality(granted') = Cardinality(granted) + 1
    BY <2>6, <2>7, FS_AddElement DEF BookInv, BookTypes
  <2>9. now \in a.issued..a.expires
    BY <1>5, <2>1, <2>2 DEF EndorseSigned
  <2>10. granted' \in SUBSET [attestation : Attestation, at : Nat]
    BY <2>1, <2>6 DEF BookInv, BookTypes
  <2>11. BookTypes'
    BY <2>3, <2>6, <2>8, <2>10 DEF BookInv, BookTypes
  <2>12. \A g \in granted' :
           /\ g.at \in g.attestation.issued..g.attestation.expires
           /\ evidence'.endorsed[g.attestation.pair] = g.attestation.confidence
    BY <2>2, <2>3, <2>4, <2>5, <2>6, <2>9, <1>t DEF BookInv, GrantsStand, Evidence
  <2>13. \A g, h \in granted' : h.attestation.pair = g.attestation.pair => h = g
    BY <2>4, <2>6 DEF BookInv, GrantsStand
  <2>14. signed' = Cardinality(granted')
    BY <2>6, <2>8 DEF BookInv, GrantsStand
  <2> QED
    BY <2>11, <2>12, <2>13, <2>14 DEF BookInv, GrantsStand
<1>6. CASE Tick
  BY <1>6, <1>t, BookFrame DEF Tick
<1>7. CASE Iterate
  BY <1>7, <1>t, BookFrame DEF Iterate
<1>8. CASE CancelTasks
  BY <1>8, <1>t, BookFrame DEF CancelTasks
<1>9. CASE FlushAndRecompute
  <2>1. evidence' \in Evidence /\ evidence'.endorsed = evidence.endorsed
    BY <1>9, <1>t, NotedKeeps DEF FlushAndRecompute
  <2> QED
    BY <2>1, <1>9, BookFrame DEF FlushAndRecompute
<1>10. CASE Churn
  BY <1>10, <1>t, BookFrame DEF Churn
<1>11. CASE UNCHANGED vars
  BY <1>11, <1>t, BookFrame DEF vars
<1> QED
  BY <1>1, <1>2, <1>3, <1>4, <1>5, <1>6, <1>7, <1>8, <1>9, <1>10, <1>11 DEF Next, Closed

\* Every accepted attestation was valid when presented, is counted once and still says
\* in the ledger what was signed, for any attestations, clock readings and later
\* endorsements (repulink.py 129-132, 148-174).
THEOREM GrantsStandHolds == Spec => []GrantsStand
<1>1. BookInv => GrantsStand
  BY DEF BookInv
<1> QED
  BY <1>1, BookInit, BookStep, PTL DEF Spec

-----------------------------------------------------------------------------
(* The closing computation *)

\* Until the flush, and once closed, there is nothing to keep.
LEMMA ClosingInit == Init => ClosingInv
BY DEF Init, ClosingInv, ClosedOnAllEvidence

\* While a run is open its phase is neither of those that ClosingInv is about.
LEMMA RunningCloses ==
  ASSUME Running, phase' = phase \/ phase' = "grace"
  PROVE  ClosingInv'
BY DEF Running, ClosingInv, ClosedOnAllEvidence

\* Every step keeps the closing invariant.
LEMMA ClosingStep == ClosingInv /\ [Next]_vars => ClosingInv'
<1> SUFFICES ASSUME ClosingInv, [Next]_vars PROVE ClosingInv'
  OBVIOUS
<1>1. ASSUME NEW e \in Traffic, Forward(e) \/ LoseFrame(e) PROVE ClosingInv'
  BY <1>1, RunningCloses DEF Forward, LoseFrame
<1>2. ASSUME NEW e \in pending, Confirm(e) PROVE ClosingInv'
  BY <1>2, RunningCloses DEF Confirm
<1>3. ASSUME NEW es \in SUBSET pending, Sweep(es) PROVE ClosingInv'
  BY <1>3, RunningCloses DEF Sweep
<1>4. ASSUME NEW offer \in Offers, Endorse(offer[1], offer[2]) PROVE ClosingInv'
  BY <1>4, RunningCloses DEF Endorse, Running
<1>5. ASSUME NEW a \in Attestations, NEW now \in Times, EndorseSigned(a, now)
      PROVE  ClosingInv'
  BY <1>5, RunningCloses DEF EndorseSigned, Running
<1>6. CASE Tick
  BY <1>6, RunningCloses DEF Tick, Running
<1>7. CASE Iterate
  <2>1. pending' = pending /\ evidence' = evidence /\ basis' = basis
    BY <1>7 DEF Iterate
  <2>2. phase' = IF phase = "flushed" /\ ~recomputing' THEN "closed" ELSE phase
    BY <1>7 DEF Iterate
  <2>3. \/ ~recomputing' /\ published' = current'
        \/ recomputing' = recomputing
    BY <1>7 DEF Iterate
  <2>4. recomputing
    BY <1>7 DEF Iterate
  <2>5. CASE phase = "flushed"
    BY <2>1, <2>2, <2>3, <2>4, <2>5 DEF ClosingInv, ClosedOnAllEvidence
  <2>6. CASE phase # "flushed"
    <3>1. phase # "closed"
      BY <2>4 DEF ClosingInv, ClosedOnAllEvidence
    <3> QED
      BY <2>2, <2>6, <3>1 DEF ClosingInv, ClosedOnAllEvidence
  <2> QED
    BY <2>5, <2>6
<1>8. CASE CancelTasks
  BY <1>8, RunningCloses DEF CancelTasks, Running
<1>9. CASE FlushAndRecompute
  <2>1. phase' = "flushed" /\ pending' = {} /\ recomputing' = TRUE /\ basis' = evidence'
    BY <1>9 DEF FlushAndRecompute, RecomputeFrom, LastBasis
  <2> QED
    BY <2>1 DEF ClosingInv, ClosedOnAllEvidence
<1>10. CASE Churn
  BY <1>10, RunningCloses DEF Churn, Running
<1>11. CASE UNCHANGED vars
  BY <1>11 DEF vars, ledgerVars, ClosingInv, ClosedOnAllEvidence
<1> QED
  BY <1>1, <1>2, <1>3, <1>4, <1>5, <1>6, <1>7, <1>8, <1>9, <1>10, <1>11 DEF Next, Closed

\* Whatever the traffic, the vector a run ends with was computed from every verdict of
\* every node, those by timeout at the very end included (daemon.py 799-807).
THEOREM ClosedOnAllEvidenceHolds == Spec => []ClosedOnAllEvidence
<1>1. ClosingInv => ClosedOnAllEvidence
  BY DEF ClosingInv
<1> QED
  BY <1>1, ClosingInit, ClosingStep, PTL DEF Spec

-----------------------------------------------------------------------------
(* Greedy routing *)

\* The destination is never among the visited, and the rest of a greedy choice is made
\* in the pool of scored routing.
LEMMA GreedyScored ==
  ASSUME NEW p \in Packets, NEW score
  PROVE  GreedyHops(p, score) \subseteq NextHops(p.node, p.dst, p.visited)
<1>1. NextHops(p.node, p.dst, p.visited) = GreedyPool(p)
  BY LedgerAssumption DEF NextHops, GreedyPool
<1>2. CASE p.dst \in ReachableNeighbors(p.node)
  <2>1. p.dst \in ReachableNeighbors(p.node) \ p.visited
    BY <1>2, LedgerAssumption
  <2>2. p.dst \in GreedyPool(p)
    BY <2>1 DEF GreedyPool, PreferUnvisited
  <2> QED
    BY <1>1, <1>2, <2>2 DEF GreedyHops
<1>3. CASE p.dst \notin ReachableNeighbors(p.node)
  BY <1>1, <1>3 DEF GreedyHops
<1> QED
  BY <1>2, <1>3

\* Whatever vector is published and whoever is offline, a solver on a ledger takes
\* only hops of scored routing (solvers.py 200-218, repulink.py 390-408).
THEOREM GreedyWithinScoredHolds == Spec => []GreedyWithinScored
<1>1. GreedyWithinScored
  BY GreedyScored DEF GreedyWithinScored
<1> QED
  BY <1>1, PTL

-----------------------------------------------------------------------------
(* Vectors *)

Vector == [Node -> Nat]

LEMMA NodeFinite == IsFiniteSet(Node)
BY GraphAssumption

LEMMA TotalTyped ==
  ASSUME NEW v, \A n \in Node : v[n] \in Nat
  PROVE  Total(v) \in Nat
BY NodeFinite, SumType DEF Total

\* A total of naturals is 0 exactly when all of them are.
LEMMA TotalZero ==
  ASSUME NEW v, \A n \in Node : v[n] \in Nat
  PROVE  Total(v) = 0 <=> \A n \in Node : v[n] = 0
<1>1. ASSUME \A n \in Node : v[n] = 0
      PROVE  Total(v) = 0
  BY <1>1, NodeFinite, SumZero DEF Total
<1>2. ASSUME NEW n \in Node, v[n] # 0
      PROVE  Total(v) # 0
  <2>1. Total(v) = v[n] + SumFunctionOnSet(v, Node \ {n})
    <3>1. \A x \in Node : v[x] \in Int
      OBVIOUS
    <3>2. QED
      BY <3>1, NodeFinite, SumRemove DEF Total
  <2>2. IsFiniteSet(Node \ {n}) /\ \A x \in Node \ {n} : v[x] \in Nat
    BY NodeFinite, FS_Subset
  <2>3. SumFunctionOnSet(v, Node \ {n}) \in Nat
    BY <2>2, SumType
  <2>4. QED
    BY <1>2, <2>1, <2>3
<1>3. QED
  BY <1>1, <1>2

\* Euclid's algorithm: Gcd is the function it is defined by, because what divides both
\* arguments divides the next two as well, and a number is known by its divisors.
Divisors(a, c) == {d \in Nat : /\ \E x \in Int : a = d * x
                               /\ \E y \in Int : c = d * y}

LEMMA Associates ==
  ASSUME NEW d \in Int, NEW x \in Int, NEW q \in Int
  PROVE  (d * x) * q = d * (x * q)
OBVIOUS

LEMMA DistributesMinus ==
  ASSUME NEW d \in Int, NEW x \in Int, NEW y \in Int
  PROVE  d * (x - y) = d * x - d * y
OBVIOUS

LEMMA Euclid ==
  ASSUME NEW a \in Nat, NEW c \in Nat, c # 0
  PROVE  a % c \in Nat /\ a % c < c /\ Divisors(a, c) = Divisors(c, a % c)
<1> DEFINE q == a \div c
           r == a % c
<1>1. q \in Int /\ r \in Nat /\ r < c /\ a = c * q + r
  OBVIOUS
<1> HIDE DEF q, r
<1>2. ASSUME NEW d \in Nat, NEW x \in Int, NEW y \in Int, a = d * x, c = d * y
      PROVE  \E z \in Int : r = d * z
  <2>1. r = d * x - (d * y) * q
    BY <1>1, <1>2
  <2>2. (d * y) * q = d * (y * q) /\ y * q \in Int
    BY <1>1, Associates
  <2>3. d * (x - y * q) = d * x - d * (y * q)
    BY <2>2, DistributesMinus
  <2>4. x - y * q \in Int
    BY <2>2
  <2>5. r = d * (x - y * q)
    BY <2>1, <2>2, <2>3
  <2>6. QED
    BY <2>4, <2>5
<1>3. ASSUME NEW d \in Nat, NEW y \in Int, NEW z \in Int, c = d * y, r = d * z
      PROVE  \E x \in Int : a = d * x
  <2>1. a = (d * y) * q + d * z
    BY <1>1, <1>3
  <2>2. (d * y) * q = d * (y * q) /\ y * q \in Int
    BY <1>1, Associates
  <2>3. d * (y * q + z) = d * (y * q) + d * z
    BY <2>2, Distributes
  <2>4. y * q + z \in Int
    BY <2>2
  <2>5. a = d * (y * q + z)
    BY <2>1, <2>2, <2>3
  <2>6. QED
    BY <2>4, <2>5
<1>4. Divisors(a, c) = Divisors(c, r)
  BY <1>2, <1>3 DEF Divisors
<1>5. QED
  BY <1>1, <1>4 DEF r

LEMMA DividesAtMost ==
  ASSUME NEW a \in Nat, a # 0, NEW m \in Nat, NEW x \in Int, a = m * x
  PROVE  m <= a
<1>1. x >= 1
  OBVIOUS
<1>2. m * (x - 1) >= 0
  BY <1>1
<1>3. m * (x - 1) = m * x - m
  OBVIOUS
<1>4. QED
  BY <1>2, <1>3

LEMMA KnownByDivisors ==
  ASSUME NEW a \in Nat, NEW m \in Nat, Divisors(m, 0) = Divisors(a, 0)
  PROVE  m = a
<1>1. \A k \in Nat : k \in Divisors(k, 0)
  <2>1. \A k \in Nat : k = k * 1 /\ 0 = k * 0
    OBVIOUS
  <2>2. QED
    BY <2>1 DEF Divisors
<1>2. m \in Divisors(a, 0) /\ a \in Divisors(m, 0)
  BY <1>1
<1>3. PICK x \in Int, y \in Int : a = m * x /\ m = a * y
  BY <1>2 DEF Divisors
<1>4. a = 0 => m = 0
  BY <1>3
<1>5. m = 0 => a = 0
  BY <1>3
<1>6. a # 0 /\ m # 0 => m <= a /\ a <= m
  BY <1>3, DividesAtMost
<1>7. QED
  BY <1>4, <1>5, <1>6

LEMMA GcdEquation ==
  ASSUME NEW a \in Nat, NEW c \in Nat
  PROVE  Gcd[<<a, c>>] = IF c = 0 THEN a ELSE Gcd[<<c, a % c>>]
<1> DEFINE Eq(g) == g = [p \in Nat \X Nat |-> IF p[2] = 0 THEN p[1] ELSE g[<<p[2], p[1] % p[2]>>]]
           same(p) == CHOOSE m \in Nat : Divisors(m, 0) = Divisors(p[1], p[2])
           G == [p \in Nat \X Nat |-> same(p)]
<1>1. ASSUME NEW p \in Nat \X Nat, p[2] = 0
      PROVE  same(p) = p[1]
  <2>1. p[1] \in Nat /\ Divisors(p[1], p[2]) = Divisors(p[1], 0)
    BY <1>1
  <2>2. \A m \in Nat : Divisors(m, 0) = Divisors(p[1], p[2]) <=> m = p[1]
    BY <2>1, KnownByDivisors
  <2>3. QED
    BY <2>1, <2>2
<1>2. ASSUME NEW p \in Nat \X Nat, p[2] # 0
      PROVE  /\ <<p[2], p[1] % p[2]>> \in Nat \X Nat
             /\ same(p) = same(<<p[2], p[1] % p[2]>>)
  BY <1>2, Euclid
<1> HIDE DEF same
<1>3. \A p \in Nat \X Nat : G[p] = IF p[2] = 0 THEN p[1] ELSE G[<<p[2], p[1] % p[2]>>]
  BY <1>1, <1>2
<1>4. G = [p \in Nat \X Nat |-> G[p]]
  OBVIOUS
<1> HIDE DEF G
<1>5. Eq(G)
  BY <1>3, <1>4
<1>6. Gcd = CHOOSE g : Eq(g)
  BY DEF Gcd
<1> HIDE DEF Eq
<1>7. Eq(Gcd)
  BY <1>5, <1>6
<1>8. <<a, c>> \in Nat \X Nat /\ <<a, c>>[1] = a /\ <<a, c>>[2] = c
  OBVIOUS
<1>9. QED
  BY <1>7, <1>8 DEF Eq

LEMMA GcdTyped ==
  ASSUME NEW a \in Nat, NEW c \in Nat
  PROVE  Gcd[<<a, c>>] \in Nat
<1> DEFINE W == {k \in Nat : \E m \in Nat : Gcd[<<m, k>>] \notin Nat}
<1> SUFFICES W = {}
  OBVIOUS
<1> SUFFICES ASSUME W # {} PROVE FALSE
  OBVIOUS
<1>1. W \in SUBSET Nat
  OBVIOUS
<1> HIDE DEF W
<1>2. PICK k \in W : \A j \in W : k <= j
  BY <1>1, LeastNatural
<1>3. PICK m \in Nat : Gcd[<<m, k>>] \notin Nat /\ k \in Nat
  BY <1>2 DEF W
<1>4. k # 0
  BY <1>3, GcdEquation
<1> DEFINE r == m % k
<1>5. r \in Nat /\ r < k
  BY <1>3, <1>4, Euclid
<1>6. Gcd[<<m, k>>] = Gcd[<<k, r>>]
  BY <1>3, <1>4, GcdEquation
<1> HIDE DEF r
<1>7. r \notin W
  BY <1>2, <1>3, <1>5
<1>8. Gcd[<<k, r>>] \in Nat
  BY <1>3, <1>5, <1>7 DEF W
<1>9. QED
  BY <1>3, <1>6, <1>8

\* The factor that Reduced divides by is a natural.
LEMMA FactorTyped ==
  ASSUME NEW v \in Vector
  PROVE  FoldFunctionOnSet(LAMBDA x, y : Gcd[<<x, y>>], 0, v, Node) \in Nat
<1> DEFINE Eq(g) == g = [s \in SUBSET Node |-> IF s = {} THEN 0
                          ELSE Gcd[<<v[Pick(s)], g[s \ {Pick(s)}]>>]]
           op == [p \in Node \X Nat |-> Gcd[<<v[p[1]], p[2]>>]]
<1>1. FoldFunctionOnSet(LAMBDA x, y : Gcd[<<x, y>>], 0, v, Node) = (CHOOSE g : Eq(g))[Node]
  BY DEF FoldFunctionOnSet, MapThenFoldSet, Pick
<1>2. \A n \in Node, k \in Nat : Gcd[<<v[n], k>>] \in Nat
  BY GcdTyped DEF Vector
<1>3. op \in [Node \X Nat -> Nat]
  BY <1>2
<1>4. \A n \in Node, k \in Nat : op[<<n, k>>] = Gcd[<<v[n], k>>]
  OBVIOUS
<1> HIDE DEF op
<1>5. PICK h \in [SUBSET Node -> Nat] : IsFoldTable(h, op, 0, Node)
  BY <1>3, NodeFinite, FoldTable
<1>6. \A s \in SUBSET Node : s # {} => Pick(s) \in Node /\ h[s \ {Pick(s)}] \in Nat
  BY <1>5 DEF Pick
<1>7. Eq(h)
  BY <1>4, <1>5, <1>6 DEF IsFoldTable
<1> DEFINE g == CHOOSE f : Eq(f)
<1> HIDE DEF Eq
<1>8. Eq(g)
  BY <1>7
<1> USE DEF Eq
<1> HIDE DEF g
<1> DEFINE W == {s \in SUBSET Node : g[s] \notin Nat}
<1>9. W = {}
  <2> SUFFICES ASSUME W # {} PROVE FALSE
    OBVIOUS
  <2>1. W \in SUBSET SUBSET Node
    OBVIOUS
  <2> HIDE DEF W
  <2>2. PICK s \in W : \A u \in W : u \subseteq s => u = s
    BY <2>1, NodeFinite, SmallestSet
  <2> USE DEF W
  <2>3. g[s] = IF s = {} THEN 0 ELSE Gcd[<<v[Pick(s)], g[s \ {Pick(s)}]>>]
    BY <1>8
  <2>4. s # {}
    BY <2>3
  <2>5. Pick(s) \in s
    BY <2>4 DEF Pick
  <2>6. g[s \ {Pick(s)}] \in Nat
    BY <2>2, <2>5
  <2>7. QED
    BY <1>2, <2>3, <2>4, <2>5, <2>6
<1>10. g[Node] \in Nat
  BY <1>9
<1>11. QED
  BY <1>1, <1>10 DEF g

LEMMA QuotientTyped ==
  ASSUME NEW a \in Nat, NEW d \in Nat, d # 0
  PROVE  a \div d \in Nat /\ (a = 0 => a \div d = 0)
OBVIOUS

LEMMA ReducedTyped ==
  ASSUME NEW v \in Vector
  PROVE  Reduced(v) \in Vector /\ \A n \in Node : v[n] = 0 => Reduced(v)[n] = 0
<1> DEFINE d == FoldFunctionOnSet(LAMBDA x, y : Gcd[<<x, y>>], 0, v, Node)
<1>1. d \in Nat
  BY FactorTyped
<1>2. Reduced(v) = IF d = 0 THEN v ELSE [n \in Node |-> v[n] \div d]
  BY DEF Reduced
<1> HIDE DEF d
<1>3. \A n \in Node : v[n] \in Nat
  BY DEF Vector
<1>4. d # 0 => \A n \in Node : v[n] \div d \in Nat /\ (v[n] = 0 => v[n] \div d = 0)
  BY <1>1, <1>3, QuotientTyped
<1>5. QED
  BY <1>2, <1>4 DEF Vector

-----------------------------------------------------------------------------
(* EigenTrust's vectors *)

LEMMA ScoresTyped ==
  ASSUME NEW b \in Evidence, NEW s \in Node
  PROVE  /\ \A t \in Node : NetScore(b, s, t) \in Nat
         /\ Scores(b, s) \in Vector /\ ScoreTotal(b, s) \in Nat
<1>1. \A e \in Link : b.delivered[e] \in Nat /\ b.drops[e] \in Nat
  BY DEF Evidence
<1>2. \A t \in Node : NetScore(b, s, t) \in Nat
  BY <1>1 DEF NetScore
<1>3. Scores(b, s) \in Vector
  BY <1>2 DEF Scores, Vector
<1>4. QED
  BY <1>2, <1>3, TotalTyped DEF ScoreTotal, Vector

\* Somebody is trusted beforehand.
LEMMA PretrustTyped ==
  ASSUME NEW b \in Evidence
  PROVE  Pretrust(b) \in Vector /\ Total(Pretrust(b)) \in Nat \ {0}
<1>1. Pretrust(b) \in Vector
  BY DEF Pretrust, Vector
<1>2. \E n \in Node : Pretrust(b)[n] # 0
  BY LedgerAssumption DEF Pretrust, Evidence
<1>3. \A n \in Node : Pretrust(b)[n] \in Nat
  BY <1>1 DEF Vector
<1>4. QED
  BY <1>1, <1>2, <1>3, TotalTyped, TotalZero

\* No row of local trust is empty.
LEMMA LocalTrustTyped ==
  ASSUME NEW b \in Evidence, NEW s \in Node
  PROVE  LocalTrust(b, s) \in Vector /\ Total(LocalTrust(b, s)) \in Nat \ {0}
<1>1. Scores(b, s) \in Vector /\ ScoreTotal(b, s) \in Nat /\ ScoreTotal(b, s) = Total(Scores(b, s))
  BY ScoresTyped DEF ScoreTotal
<1>2. QED
  BY <1>1, PretrustTyped DEF LocalTrust

LEMMA TimesTyped ==
  ASSUME NEW x \in Nat, NEW y \in Nat
  PROVE  x * y \in Nat /\ (x # 0 /\ y # 0 => x * y # 0) /\ (x = 0 \/ y = 0 => x * y = 0)
OBVIOUS

\* A product of naturals is a natural that each of them divides.
LEMMA ProductTyped ==
  ASSUME NEW T, IsFiniteSet(T), \A x \in T : x \in Nat
  PROVE  ProductSet(T) \in Nat /\ \A x \in T : \E k \in Nat : ProductSet(T) = k * x
<1> DEFINE Eq(g) == g = [s \in SUBSET T |-> IF s = {} THEN 1 ELSE Pick(s) * g[s \ {Pick(s)}]]
           op == [p \in T \X Nat |-> p[1] * p[2]]
<1>1. ProductSet(T) = (CHOOSE g : Eq(g))[T]
  BY DEF ProductSet, FoldSet, MapThenFoldSet, Pick
<1>2. op \in [T \X Nat -> Nat] /\ \A x \in T, k \in Nat : op[<<x, k>>] = x * k
  BY TimesTyped
<1> HIDE DEF op
<1>3. PICK h \in [SUBSET T -> Nat] : IsFoldTable(h, op, 1, T)
  BY <1>2, FoldTable
<1>4. \A s \in SUBSET T : s # {} => Pick(s) \in T /\ h[s \ {Pick(s)}] \in Nat
  BY <1>3 DEF Pick
<1>5. Eq(h)
  BY <1>2, <1>3, <1>4 DEF IsFoldTable
<1> DEFINE g == CHOOSE f : Eq(f)
<1> HIDE DEF Eq
<1>6. Eq(g)
  BY <1>5
<1> USE DEF Eq
<1> HIDE DEF g
<1> DEFINE Good(s) == g[s] \in Nat /\ \A x \in s : \E k \in Nat : g[s] = k * x
           W == {s \in SUBSET T : ~Good(s)}
<1>7. W = {}
  <2> SUFFICES ASSUME W # {} PROVE FALSE
    OBVIOUS
  <2>1. W \in SUBSET SUBSET T
    OBVIOUS
  <2> HIDE DEF W
  <2>a. IsFiniteSet(T) /\ W # {}
    OBVIOUS
  <2>2. PICK s \in W : IsFiniteSet(s) /\ \A u \in W : u \subseteq s => u = s
    BY <2>1, <2>a, SmallestSet
  <2> USE DEF W
  <2>3. g[s] = IF s = {} THEN 1 ELSE Pick(s) * g[s \ {Pick(s)}]
    BY <1>6
  <2>4. s # {}
    BY <2>3
  <2> DEFINE y == Pick(s)
             r == s \ {y}
  <2>5. y \in s /\ y \in Nat
    BY <2>4 DEF Pick
  <2>b. r \in SUBSET T /\ r \subseteq s /\ r # s
    BY <2>5
  <2>6. Good(r)
    BY <2>2, <2>b
  <2>7. g[s] = y * g[r]
    BY <2>3, <2>4
  <2>8. \A x \in s : x \in Nat
    BY <2>2
  <2> HIDE DEF y
  <2>9. ASSUME NEW x \in s
        PROVE  \E k \in Nat : g[s] = k * x
    <3>1. CASE x = y
      BY <2>5, <2>6, <2>7, <3>1
    <3>2. CASE x # y
      <4>1. PICK k \in Nat : g[r] = k * x
        BY <2>6, <3>2
      <4>2. y * (k * x) = (y * k) * x
        BY <2>5, <2>8, Associates
      <4>3. y * k \in Nat
        BY <2>5, TimesTyped
      <4>4. QED
        BY <2>7, <4>1, <4>2, <4>3
    <3>3. QED
      BY <3>1, <3>2
  <2>10. g[s] \in Nat
    BY <2>5, <2>6, <2>7, TimesTyped
  <2>11. QED
    BY <2>2, <2>9, <2>10
<1>8. QED
  BY <1>1, <1>7 DEF g

\* Every row's total divides Parts.
LEMMA PartsTyped ==
  ASSUME NEW b \in Evidence
  PROVE  /\ Parts(b) \in Nat
         /\ \E k \in Nat : Parts(b) = k * Total(Pretrust(b))
         /\ \A s \in Node : \E k \in Nat : Parts(b) = k * Total(LocalTrust(b, s))
<1> DEFINE rows == {Total(LocalTrust(b, s)) : s \in Node}
           T == (rows \cup {Total(Pretrust(b))}) \ {0}
<1>1. IsFiniteSet(rows)
  <2> DEFINE f == [s \in Node |-> Total(LocalTrust(b, s))]
  <2>1. f \in Surjection(Node, rows)
    BY DEF Surjection
  <2> HIDE DEF f, rows
  <2>2. QED
    BY <2>1, NodeFinite, FS_Surjection
<1>2. IsFiniteSet(T)
  <2> HIDE DEF rows
  <2>1. IsFiniteSet(rows \cup {Total(Pretrust(b))})
    BY <1>1, FS_AddElement
  <2>2. QED
    BY <2>1, FS_Subset
<1>3. \A x \in T : x \in Nat
  BY LocalTrustTyped, PretrustTyped
<1>4. Total(Pretrust(b)) \in T /\ \A s \in Node : Total(LocalTrust(b, s)) \in T
  BY LocalTrustTyped, PretrustTyped
<1>5. Parts(b) = ProductSet(T)
  BY DEF Parts
<1> HIDE DEF T
<1>6. QED
  BY <1>2, <1>3, <1>4, <1>5, ProductTyped

LEMMA MultipleOver ==
  ASSUME NEW k \in Nat, NEW d \in Nat, d # 0
  PROVE  (k * d) \div d = k
<1> DEFINE q == (k * d) \div d
           r == (k * d) % d
<1>1. k * d \in Nat
  OBVIOUS
<1>2. q \in Int /\ r \in 0..(d - 1) /\ k * d = d * q + r
  BY <1>1
<1> HIDE DEF q, r
<1>3. d * (k - q) = r
  BY <1>2
<1>4. k - q < 1
  <2>1. k - q >= 1 => d * (k - q) >= d
    BY <1>2
  <2>2. QED
    BY <1>2, <1>3, <2>1
<1>5. k - q > -1
  <2>1. k - q <= -1 => d * (k - q) <= -d
    BY <1>2
  <2>2. QED
    BY <1>2, <1>3, <2>1
<1>6. QED
  BY <1>2, <1>4, <1>5 DEF q

\* The shares of a row are naturals, and add up to all the parts.
LEMMA SharesAddUp ==
  ASSUME NEW row \in Vector, NEW parts \in Nat, Total(row) # 0,
         \E k \in Nat : parts = k * Total(row)
  PROVE  /\ \A t \in Node : Share(parts, row, t) \in Nat
         /\ \A t \in Node : row[t] = 0 => Share(parts, row, t) = 0
         /\ Total([t \in Node |-> Share(parts, row, t)]) = parts
<1> DEFINE share == [t \in Node |-> Share(parts, row, t)]
<1>1. \A t \in Node : row[t] \in Nat
  BY DEF Vector
<1>2. Total(row) \in Nat
  BY <1>1, TotalTyped
<1>3. PICK k \in Nat : parts = k * Total(row)
  OBVIOUS
<1>4. parts \div Total(row) = k
  BY <1>2, <1>3, MultipleOver
<1>5. \A t \in Node : share[t] = row[t] * k /\ row[t] * k \in Nat
  BY <1>1, <1>4, TimesTyped DEF Share
<1>6. Total(share) = k * Total(row)
  <2>1. \A t \in Node : share[t] \in Int /\ row[t] \in Int /\ 1 * share[t] = k * row[t]
    BY <1>1, <1>5
  <2> HIDE DEF share
  <2>2. 1 * SumFunctionOnSet(share, Node) = k * SumFunctionOnSet(row, Node)
    BY <2>1, NodeFinite, SumScale
  <2>3. SumFunctionOnSet(share, Node) \in Int
    BY <2>1, NodeFinite, SumType
  <2>4. QED
    BY <2>2, <2>3 DEF Total
<1>7. \A t \in Node : Share(parts, row, t) = share[t]
  OBVIOUS
<1> HIDE DEF share
<1>8. QED
  BY <1>3, <1>5, <1>6, <1>7 DEF share, Share

\* Proportional terms, proportional totals.
LEMMA TotalScale ==
  ASSUME NEW f, NEW g, NEW q \in Int,
         \A n \in Node : f[n] \in Int /\ g[n] \in Int /\ f[n] = q * g[n]
  PROVE  Total(f) = q * Total(g) /\ Total(f) \in Int /\ Total(g) \in Int
<1>1. \A n \in Node : f[n] \in Int /\ g[n] \in Int /\ 1 * f[n] = q * g[n]
  OBVIOUS
<1>2. 1 * SumFunctionOnSet(f, Node) = q * SumFunctionOnSet(g, Node)
  BY <1>1, NodeFinite, SumScale
<1>3. SumFunctionOnSet(f, Node) \in Int /\ SumFunctionOnSet(g, Node) \in Int
  BY NodeFinite, SumType
<1>4. QED
  BY <1>2, <1>3 DEF Total

LEMMA TotalAdd ==
  ASSUME NEW f, NEW g, NEW h,
         \A n \in Node : f[n] \in Int /\ g[n] \in Int /\ h[n] = f[n] + g[n]
  PROVE  Total(h) = Total(f) + Total(g)
BY NodeFinite, SumAdd DEF Total

LEMMA TotalSame ==
  ASSUME NEW f, NEW g, \A n \in Node : f[n] = g[n]
  PROVE  Total(f) = Total(g)
BY NodeFinite, SumSame DEF Total

\* What all nodes send and what all nodes receive is the same.
LEMMA TotalSwap ==
  ASSUME NEW e, \A s \in Node, t \in Node : e[<<s, t>>] \in Int
  PROVE  Total([s \in Node |-> Total([t \in Node |-> e[<<s, t>>]])])
           = Total([t \in Node |-> Total([s \in Node |-> e[<<s, t>>]])])
BY NodeFinite, SumSwap DEF Total

\* What node t receives of vector v along the rows of local trust.
Received(b, v, t) ==
  Total([s \in Node |-> v[s] * Share(Parts(b), LocalTrust(b, s), t)])

LEMMA SpreadIs ==
  ASSUME NEW b, NEW v, NEW t \in Node
  PROVE  Spread(b, v)[t] = Damping * Total(v) * Share(Parts(b), Pretrust(b), t)
                             + (Damped - Damping) * Received(b, v, t)
<1>1. \A s \in Node : [r \in Node |-> LocalTrust(b, r)][s] = LocalTrust(b, s)
  OBVIOUS
<1>2. QED
  BY <1>1 DEF Spread, Received

LEMMA ReceivedTyped ==
  ASSUME NEW b \in Evidence, NEW v \in Vector
  PROVE  /\ \A t \in Node : Received(b, v, t) \in Nat
         /\ Total([t \in Node |-> Received(b, v, t)]) = Parts(b) * Total(v)
<1> DEFINE parts == Parts(b)
           share(s, t) == Share(parts, LocalTrust(b, s), t)
           e == [p \in Node \X Node |-> v[p[1]] * share(p[1], p[2])]
           sent == [s \in Node |-> Total([t \in Node |-> e[<<s, t>>]])]
<1>1. parts \in Nat /\ \A n \in Node : v[n] \in Nat
  BY PartsTyped DEF Vector
<1>2. ASSUME NEW s \in Node
      PROVE  /\ \A t \in Node : share(s, t) \in Nat
             /\ Total([t \in Node |-> share(s, t)]) = parts
  <2>1. LocalTrust(b, s) \in Vector /\ Total(LocalTrust(b, s)) # 0
        /\ \E k \in Nat : parts = k * Total(LocalTrust(b, s))
    BY LocalTrustTyped, PartsTyped
  <2> HIDE DEF parts
  <2>2. QED
    BY <1>1, <2>1, SharesAddUp
<1> HIDE DEF parts, share
<1>3. \A s \in Node, t \in Node : e[<<s, t>>] = v[s] * share(s, t) /\ e[<<s, t>>] \in Nat
  BY <1>1, <1>2, TimesTyped
<1> HIDE DEF e
<1>4. ASSUME NEW s \in Node
      PROVE  sent[s] = v[s] * parts
  <2> DEFINE f == [t \in Node |-> e[<<s, t>>]]
             g == [t \in Node |-> share(s, t)]
  <2>0. v[s] \in Int
    BY <1>1
  <2>1. \A t \in Node : f[t] \in Nat /\ g[t] \in Nat /\ f[t] = v[s] * g[t]
    BY <1>2, <1>3
  <2>2. sent[s] = Total(f) /\ Total(g) = parts
    BY <1>2
  <2> HIDE DEF f, g, sent
  <2>a. \A t \in Node : f[t] \in Int /\ g[t] \in Int /\ f[t] = v[s] * g[t]
    BY <2>1
  <2>3. Total(f) = v[s] * Total(g)
    BY <2>0, <2>a, TotalScale
  <2>4. QED
    BY <2>2, <2>3
<1>5. Total(sent) = parts * Total(v)
  <2>1. \A s \in Node : sent[s] \in Int /\ v[s] \in Int /\ sent[s] = parts * v[s]
    BY <1>1, <1>4, TimesTyped
  <2> HIDE DEF sent
  <2>2. QED
    BY <1>1, <2>1, TotalScale
<1> DEFINE got == [t \in Node |-> Total([s \in Node |-> e[<<s, t>>]])]
<1>6. Total(sent) = Total(got)
  BY <1>3, TotalSwap
<1>7. ASSUME NEW t \in Node
      PROVE  Received(b, v, t) = got[t] /\ got[t] \in Nat
  <2> DEFINE f == [s \in Node |-> e[<<s, t>>]]
             g == [s \in Node |-> v[s] * Share(Parts(b), LocalTrust(b, s), t)]
  <2>1. \A s \in Node : f[s] = g[s] /\ f[s] \in Nat
    BY <1>3 DEF share, parts
  <2>2. got[t] = Total(f) /\ Received(b, v, t) = Total(g)
    BY DEF Received
  <2> HIDE DEF f, g, got
  <2>3. QED
    BY <2>1, <2>2, TotalSame, TotalTyped
<1>8. Total([t \in Node |-> Received(b, v, t)]) = Total(got)
  <2> DEFINE h == [t \in Node |-> Received(b, v, t)]
  <2>1. \A t \in Node : h[t] = got[t]
    BY <1>7
  <2> HIDE DEF h, got
  <2>2. Total(h) = Total(got)
    BY <2>1, TotalSame
  <2>3. QED
    BY <2>2 DEF h
<1>9. QED
  BY <1>5, <1>6, <1>7, <1>8 DEF parts

\* A round of EigenTrust makes and loses nothing.
LEMMA SpreadTyped ==
  ASSUME NEW b \in Evidence, NEW v \in Vector
  PROVE  /\ Spread(b, v) \in Vector
         /\ Total(Spread(b, v)) = Damped * Parts(b) * Total(v)
<1> DEFINE parts == Parts(b)
           mass == Total(v)
           own == [t \in Node |-> (Damping * mass) * Share(parts, Pretrust(b), t)]
           share == [t \in Node |-> Share(parts, Pretrust(b), t)]
           got == [t \in Node |-> Received(b, v, t)]
           passed == [t \in Node |-> (Damped - Damping) * Received(b, v, t)]
<1>1. parts \in Nat /\ mass \in Nat
  BY PartsTyped, TotalTyped DEF Vector
<1>2. (\A t \in Node : share[t] \in Nat) /\ Total(share) = parts
  <2>1. Pretrust(b) \in Vector /\ Total(Pretrust(b)) # 0
        /\ \E k \in Nat : parts = k * Total(Pretrust(b))
    BY PretrustTyped, PartsTyped
  <2> HIDE DEF parts
  <2>2. QED
    BY <1>1, <2>1, SharesAddUp
<1>3. (\A t \in Node : got[t] \in Nat) /\ Total(got) = parts * mass
  BY ReceivedTyped
<1>4. Damping * mass \in Nat
  BY <1>1 DEF Damping
<1>5. \A t \in Node : own[t] = (Damping * mass) * share[t] /\ passed[t] = 17 * got[t]
  BY DEF Damped, Damping
<1>6. \A t \in Node : own[t] \in Nat /\ passed[t] \in Nat
  BY <1>2, <1>3, <1>4, <1>5, TimesTyped
<1>7. \A t \in Node : Spread(b, v)[t] = own[t] + passed[t]
  BY SpreadIs
<1>8. Spread(b, v) = [t \in Node |-> Spread(b, v)[t]]
  BY DEF Spread
<1> HIDE DEF parts, mass, own, share, got, passed
<1>9. Spread(b, v) \in Vector
  <2>1. \A t \in Node : Spread(b, v)[t] \in Nat
    BY <1>6, <1>7
  <2>2. QED
    BY <1>8, <2>1 DEF Vector
<1>10. Total(Spread(b, v)) = Total(own) + Total(passed)
  BY <1>6, <1>7, TotalAdd
<1>11. Total(own) = (Damping * mass) * parts
  <2>1. \A t \in Node : own[t] \in Int /\ share[t] \in Int /\ own[t] = (Damping * mass) * share[t]
    BY <1>2, <1>5, <1>6
  <2>2. Total(own) = (Damping * mass) * Total(share)
    BY <1>4, <2>1, TotalScale
  <2>3. QED
    BY <1>2, <2>2
<1>12. Total(passed) = 17 * (parts * mass)
  <2>1. \A t \in Node : passed[t] \in Int /\ got[t] \in Int /\ passed[t] = 17 * got[t]
    BY <1>3, <1>5, <1>6
  <2>2. Total(passed) = 17 * Total(got)
    BY <2>1, TotalScale
  <2>3. QED
    BY <1>3, <2>2
<1>13. (Damping * mass) * parts + 17 * (parts * mass) = Damped * parts * mass
  BY <1>1 DEF Damping, Damped
<1>14. QED
  BY <1>9, <1>10, <1>11, <1>12, <1>13 DEF parts, mass

-----------------------------------------------------------------------------
(* RepuLink's vectors *)

\* Dividing loses less than the divisor.
LEMMA Division ==
  ASSUME NEW a \in Nat, NEW d \in Nat, d # 0
  PROVE  /\ a \div d \in Nat
         /\ d * (a \div d) <= a /\ a < d * (a \div d) + d
         /\ (a = 0 => a \div d = 0)
<1> DEFINE q == a \div d
           r == a % d
<1>1. q \in Nat /\ r \in Nat /\ r < d /\ a = d * q + r
  OBVIOUS
<1>2. d * q \in Nat
  BY <1>1, TimesTyped
<1>3. a = 0 => q = 0
  OBVIOUS
<1> HIDE DEF q, r
<1>4. d * q <= a /\ a < d * q + d
  BY <1>1, <1>2
<1>5. QED
  BY <1>1, <1>3, <1>4 DEF q

LEMMA PartTyped ==
  ASSUME NEW weight \in Nat, NEW total \in Nat, NEW x \in Nat
  PROVE  /\ Part(weight, total, x) \in Nat
         /\ (weight = 0 \/ x = 0 => Part(weight, total, x) = 0)
         /\ total # 0 => /\ total * Part(weight, total, x) <= x * weight
                         /\ x * weight < total * Part(weight, total, x) + total
<1>1. x * weight \in Nat /\ (weight = 0 \/ x = 0 => x * weight = 0)
  BY TimesTyped
<1> DEFINE a == x * weight
<1>2. Part(weight, total, x) = IF total = 0 THEN 0 ELSE a \div total
  BY DEF Part
<1> HIDE DEF a
<1>3. a \in Nat /\ (weight = 0 \/ x = 0 => a = 0)
  BY <1>1 DEF a
<1>4. total # 0 => /\ a \div total \in Nat
                   /\ total * (a \div total) <= a /\ a < total * (a \div total) + total
                   /\ (a = 0 => a \div total = 0)
  BY <1>3, Division
<1>5. QED
  BY <1>2, <1>3, <1>4 DEF a

LEMMA EndorsedTyped ==
  ASSUME NEW b \in Evidence
  PROVE  /\ \A n, m \in Node : Endorsed(b, n, m) \in Nat
         /\ \A n \in Node : EndorsedTotal(b, n) \in Nat
<1>1. \A n, m \in Node : Endorsed(b, n, m) \in Nat
  BY DEF Endorsed, Evidence, Pair
<1>2. ASSUME NEW n \in Node
      PROVE  EndorsedTotal(b, n) \in Nat
  <2> DEFINE f == [m \in Node |-> Endorsed(b, n, m)]
  <2>1. \A m \in Node : f[m] \in Nat
    BY <1>1
  <2> HIDE DEF f
  <2>2. Total(f) \in Nat
    BY <2>1, TotalTyped
  <2>3. QED
    BY <2>2 DEF EndorsedTotal, f
<1>3. QED
  BY <1>1, <1>2

LEMMA AgainstTyped ==
  ASSUME NEW ev \in [Link -> Nat], NEW t \in Node
  PROVE  Against(ev, t) \in Nat
<1> DEFINE f == [s \in Node |-> IF <<s, t>> \in Link THEN ev[<<s, t>>] ELSE 0]
<1>1. \A s \in Node : f[s] \in Nat
  OBVIOUS
<1>2. Against(ev, t) = Total(f)
  BY DEF Against
<1> HIDE DEF f
<1>3. QED
  BY <1>1, <1>2, TotalTyped

LEMMA ScaleTyped == Scale \in Nat /\ Scale # 0
BY ResolutionAssumption DEF Scale

LEMMA SignalOfTyped ==
  ASSUME NEW n \in Nat
  PROVE  SignalOf(n) \in Nat /\ (n = 0 <=> SignalOf(n) = 0)
<1>1. CASE n = 0
  BY <1>1 DEF SignalOf
<1>2. CASE n # 0
  <2> DEFINE i == IF n > 6 THEN 6 ELSE n
  <2>1. \A j \in 1..6 : Saturating[j] \in Nat \ {0}
    BY DEF Saturating
  <2>2. i \in 1..6
    BY <1>2
  <2>3. SignalOf(n) = Resolution * Saturating[i]
    BY <1>2 DEF SignalOf
  <2> HIDE DEF i
  <2>4. Resolution \in Nat /\ Resolution # 0
    BY ResolutionAssumption
  <2>5. \A x, y \in Nat \ {0} : x * y \in Nat \ {0}
    OBVIOUS
  <2>6. QED
    BY <1>2, <2>1, <2>2, <2>3, <2>4, <2>5
<1>3. QED
  BY <1>1, <1>2

LEMMA SignalTyped ==
  ASSUME NEW ev \in [Link -> Nat]
  PROVE  /\ Signal(ev) \in Vector
         /\ \A t \in Node : Signal(ev)[t] = 0 <=> Against(ev, t) = 0
<1>1. \A t \in Node : Signal(ev)[t] = SignalOf(Against(ev, t))
  BY DEF Signal
<1>2. \A t \in Node : SignalOf(Against(ev, t)) \in Nat
                      /\ (SignalOf(Against(ev, t)) = 0 <=> Against(ev, t) = 0)
  BY AgainstTyped, SignalOfTyped
<1>3. QED
  BY <1>1, <1>2 DEF Signal, Vector

LEMMA ZeroTyped == Zero \in Vector
BY DEF Zero, Vector

\* A projection is a vector; what is not positive and not in the fallback gets nothing.
LEMMA ProjectTyped ==
  ASSUME NEW v, \A n \in Node : v[n] \in Int, NEW fallback \in Vector
  PROVE  /\ Project(v, fallback) \in Vector
         /\ \A n \in Node : v[n] <= 0 /\ fallback[n] = 0 => Project(v, fallback)[n] = 0
<1> DEFINE positive == [n \in Node |-> NonNegative(v[n])]
           total == Total(positive)
<1>1. \A n \in Node : positive[n] \in Nat /\ (v[n] <= 0 => positive[n] = 0)
  BY DEF NonNegative
<1>2. Project(v, fallback) = IF positive = Zero THEN fallback
                             ELSE [n \in Node |-> (positive[n] * Scale) \div total]
  BY DEF Project
<1>3. positive # Zero => \E n \in Node : positive[n] # 0
  BY DEF Zero
<1> HIDE DEF positive
<1>4. total \in Nat /\ (positive # Zero => total # 0)
  BY <1>1, <1>3, TotalTyped, TotalZero
<1> HIDE DEF total
<1>5. \A n \in Node : positive[n] * Scale \in Nat /\ (positive[n] = 0 => positive[n] * Scale = 0)
  BY <1>1, ScaleTyped, TimesTyped
<1>6. positive # Zero => \A n \in Node :
        /\ (positive[n] * Scale) \div total \in Nat
        /\ positive[n] = 0 => (positive[n] * Scale) \div total = 0
  BY <1>4, <1>5, QuotientTyped
<1>7. QED
  BY <1>1, <1>2, <1>6 DEF Vector

LEMMA EvenShareTyped ==
  /\ Cardinality(Node) \in Nat \ {0}
  /\ Scale \div Cardinality(Node) \in Nat
  /\ EvenShare \in Vector /\ \A n \in Node : EvenShare[n] = Scale \div Cardinality(Node)
<1>1. Cardinality(Node) \in Nat \ {0}
  BY NodeFinite, LedgerAssumption, FS_CardinalityType, FS_EmptySet
<1>2. Scale \div Cardinality(Node) \in Nat
  BY <1>1, ScaleTyped, QuotientTyped
<1>3. QED
  BY <1>1, <1>2 DEF EvenShare, Vector

\* What m is endorsed with at the cold start.
Backing(b, m) ==
  Total([n \in Node |-> Part(Endorsed(b, n, m), EndorsedTotal(b, n), EvenShare[n])])

LEMMA BackingTyped ==
  ASSUME NEW b \in Evidence, NEW m \in Node
  PROVE  /\ Backing(b, m) \in Nat
         /\ (\A n \in Node : Endorsed(b, n, m) = 0) => Backing(b, m) = 0
<1> DEFINE f == [n \in Node |-> Part(Endorsed(b, n, m), EndorsedTotal(b, n), EvenShare[n])]
<1>1. \A n \in Node : EvenShare[n] \in Nat
  BY EvenShareTyped
<1>2. \A n \in Node : f[n] \in Nat /\ (Endorsed(b, n, m) = 0 => f[n] = 0)
  BY <1>1, EndorsedTyped, PartTyped
<1>3. Backing(b, m) = Total(f)
  BY DEF Backing
<1> HIDE DEF f
<1>4. QED
  BY <1>2, <1>3, TotalTyped, TotalZero

LEMMA ColdStartIs ==
  ASSUME NEW b
  PROVE  ColdStart(b) = Project([m \in Node |-> Backing(b, m)], EvenShare)
BY DEF ColdStart, Backing

LEMMA ColdStartTyped ==
  ASSUME NEW b \in Evidence
  PROVE  ColdStart(b) \in Vector
<1> DEFINE v == [m \in Node |-> Backing(b, m)]
<1>1. \A n \in Node : v[n] \in Int
  BY BackingTyped
<1>2. ColdStart(b) = Project(v, EvenShare) /\ EvenShare \in Vector
  BY ColdStartIs, EvenShareTyped
<1> HIDE DEF v
<1>3. QED
  BY <1>1, <1>2, ProjectTyped

-----------------------------------------------------------------------------
(* What is passed back *)

LEMMA CancelPositive ==
  ASSUME NEW w \in Nat, w # 0, NEW x \in Int, NEW y \in Int, w * x <= w * y
  PROVE  x <= y
<1>1. w * (y - x) = w * y - w * x
  BY DistributesMinus
<1>2. w * (y - x) >= 0
  <2>1. w * y \in Int /\ w * x \in Int
    OBVIOUS
  <2>2. QED
    BY <1>1, <2>1
<1>3. y - x >= 0
  <2>1. y - x < 0 => w * (y - x) < 0
    OBVIOUS
  <2>2. QED
    BY <1>2, <2>1
<1>4. QED
  BY <1>3

\* A hop backwards passes at most half of the worst of f, and only along endorsements.
LEMMA BackTyped ==
  ASSUME NEW b \in Evidence, NEW f \in Vector, NEW n \in Node
  PROVE  /\ Back(b, f, n) \in Nat
         /\ Back(b, f, n) # 0 => \E m \in Node : Endorsed(b, n, m) > 0 /\ f[m] # 0
         /\ \A worst \in Nat : (\A m \in Node : f[m] <= worst) => 2 * Back(b, f, n) <= worst
<1> DEFINE w == EndorsedTotal(b, n)
           term == [m \in Node |-> Part(Endorsed(b, n, m), 2 * w, f[m])]
           weight == [m \in Node |-> Endorsed(b, n, m)]
<1>1. w \in Nat /\ 2 * w \in Nat /\ \A m \in Node : f[m] \in Nat /\ weight[m] \in Nat
  BY EndorsedTyped DEF Vector
<1>2. w = Total(weight)
  BY DEF EndorsedTotal
<1>3. Back(b, f, n) = Total(term)
  BY DEF Back
<1>4. \A m \in Node :
        /\ term[m] \in Nat
        /\ (weight[m] = 0 \/ f[m] = 0 => term[m] = 0)
        /\ 2 * w # 0 => 2 * w * term[m] <= f[m] * weight[m]
  <2> HIDE DEF w
  <2> SUFFICES ASSUME NEW m \in Node
               PROVE  /\ term[m] \in Nat
                      /\ (weight[m] = 0 \/ f[m] = 0 => term[m] = 0)
                      /\ 2 * w # 0 => 2 * w * term[m] <= f[m] * weight[m]
    OBVIOUS
  <2>1. term[m] = Part(weight[m], 2 * w, f[m])
    OBVIOUS
  <2> DEFINE total == 2 * w
  <2>2. total \in Nat /\ f[m] \in Nat /\ weight[m] \in Nat /\ term[m] = Part(weight[m], total, f[m])
    BY <1>1, <2>1
  <2> HIDE DEF term, weight, total
  <2>3. /\ term[m] \in Nat
        /\ (weight[m] = 0 \/ f[m] = 0 => term[m] = 0)
        /\ total # 0 => total * term[m] <= f[m] * weight[m]
    BY <2>2, PartTyped
  <2>4. QED
    BY <2>3 DEF total
<1>5. w = 0 => \A m \in Node : term[m] = 0
  BY <1>1 DEF Part
<1>6. \A m \in Node : weight[m] = Endorsed(b, n, m)
  OBVIOUS
<1> HIDE DEF w, term, weight
<1>7. Total(term) \in Nat
  BY <1>4, TotalTyped
<1>8. Total(term) # 0 => \E m \in Node : Endorsed(b, n, m) > 0 /\ f[m] # 0
  <2>1. Total(term) # 0 => \E m \in Node : term[m] # 0
    BY <1>4, TotalZero
  <2>2. QED
    BY <1>1, <1>4, <1>6, <2>1
<1>9. ASSUME NEW worst \in Nat, \A m \in Node : f[m] <= worst
      PROVE  2 * Total(term) <= worst
  <2>1. CASE w = 0
    BY <1>4, <1>5, <2>1, TotalZero
  <2>2. CASE w # 0
    <3> DEFINE left == [m \in Node |-> (2 * w) * term[m]]
               right == [m \in Node |-> worst * weight[m]]
    <3>1. \A m \in Node : left[m] \in Int /\ right[m] \in Int /\ left[m] <= right[m]
      <4> SUFFICES ASSUME NEW m \in Node
                   PROVE  /\ (2 * w) * term[m] \in Int /\ worst * weight[m] \in Int
                          /\ (2 * w) * term[m] <= worst * weight[m]
        OBVIOUS
      <4>1. (2 * w) * term[m] \in Int /\ worst * weight[m] \in Int /\ f[m] * weight[m] \in Int
        BY <1>1, <1>4, TimesTyped
      <4>2. (2 * w) * term[m] <= f[m] * weight[m]
        BY <1>1, <1>4, <2>2
      <4>3. f[m] * weight[m] <= worst * weight[m]
        <5>1. f[m] \in Nat /\ weight[m] \in Nat /\ f[m] <= worst
          BY <1>1, <1>9
        <5>2. \A x, y, z \in Nat : x <= y => x * z <= y * z
          OBVIOUS
        <5>3. QED
          BY <5>1, <5>2
      <4>4. QED
        BY <4>1, <4>2, <4>3
    <3>2. Total(left) = (2 * w) * Total(term)
      <4>1. \A m \in Node : left[m] \in Int /\ term[m] \in Int /\ left[m] = (2 * w) * term[m]
        BY <1>4, <3>1
      <4> HIDE DEF left
      <4>2. QED
        BY <1>1, <4>1, TotalScale
    <3>3. Total(right) = worst * w
      <4>1. \A m \in Node : right[m] \in Int /\ weight[m] \in Int /\ right[m] = worst * weight[m]
        BY <1>1, <3>1
      <4> HIDE DEF right
      <4>2. QED
        BY <1>2, <4>1, TotalScale
    <3> HIDE DEF left, right
    <3>4. Total(left) <= Total(right)
      BY <3>1, NodeFinite, SumAtMost DEF Total
    <3>5. w * (2 * Total(term)) = (2 * w) * Total(term) /\ w * worst = worst * w
      BY <1>1, <1>7
    <3>6. w * (2 * Total(term)) <= w * worst
      BY <3>2, <3>3, <3>4, <3>5
    <3>7. 2 * Total(term) \in Int
      BY <1>7
    <3>8. QED
      BY <1>1, <2>2, <3>6, <3>7, CancelPositive
  <2>3. QED
    BY <2>1, <2>2
<1>10. QED
  BY <1>3, <1>7, <1>8, <1>9

\* One hop backwards, as a function, and all that is passed back.
HopBack(b) == [f \in Vector |-> [n \in Node |-> Back(b, f, n)]]

PassedBack(frontier, n) == [hop \in 1..MaxBackwardHops |-> frontier[hop][n]]

LEMMA HopBackTyped ==
  ASSUME NEW b \in Evidence
  PROVE  HopBack(b) \in [Vector -> Vector]
<1>1. \A f \in Vector, n \in Node : Back(b, f, n) \in Nat
  BY BackTyped
<1>2. \A f \in Vector : [n \in Node |-> Back(b, f, n)] \in Vector
  BY <1>1 DEF Vector
<1>3. QED
  BY <1>2 DEF HopBack

LEMMA BackwardIs ==
  ASSUME NEW b \in Evidence, NEW signal \in Vector
  PROVE  \E frontier : /\ Iterates(frontier, Vector, HopBack(b), signal)
                       /\ Backward(b, signal)
                            = [n \in Node |-> SumFunction(PassedBack(frontier, n))]
<1> DEFINE next(f) == [n \in Node |-> Back(b, f, n)]
           Eq(g) == g = [hop \in Nat |-> IF hop = 0 THEN signal ELSE next(g[hop - 1])]
           g == CHOOSE f : Eq(f)
<1>1. Backward(b, signal) = [n \in Node |-> SumFunction(PassedBack(g, n))]
  BY DEF Backward, PassedBack
<1>2. HopBack(b) \in [Vector -> Vector] /\ \A f \in Vector : HopBack(b)[f] = next(f)
  BY HopBackTyped DEF HopBack
<1>3. PICK h : Iterates(h, Vector, HopBack(b), signal)
  BY <1>2, IteratesExist
<1> HIDE DEF next
<1>4. \A hop \in Nat : h[hop] = IF hop = 0 THEN signal ELSE next(h[hop - 1])
  <2> SUFFICES ASSUME NEW hop \in Nat, hop # 0
               PROVE  h[hop] = next(h[hop - 1])
    BY <1>3 DEF Iterates
  <2>1. hop - 1 \in Nat /\ (hop - 1) + 1 = hop
    OBVIOUS
  <2>2. QED
    BY <1>2, <1>3, <2>1 DEF Iterates
<1>5. h = [hop \in Nat |-> h[hop]]
  BY <1>3 DEF Iterates
<1>6. Eq(h)
  BY <1>4, <1>5
<1> HIDE DEF Eq
<1>7. Eq(g)
  BY <1>6
<1> USE DEF Eq
<1> HIDE DEF g
<1>8. g = [hop \in Nat |-> g[hop]] /\ g[0] = signal
  BY <1>7
<1>9. ASSUME NEW hop \in Nat, g[hop] \in Vector
      PROVE  g[hop + 1] = HopBack(b)[g[hop]]
  <2>1. hop + 1 \in Nat /\ hop + 1 # 0 /\ (hop + 1) - 1 = hop
    OBVIOUS
  <2>2. g[hop + 1] = next(g[hop])
    BY <1>7, <2>1
  <2>3. QED
    BY <1>2, <1>9, <2>2
<1> HIDE DEF Eq
<1>10. Iterates(g, Vector, HopBack(b), signal)
  BY <1>2, <1>8, <1>9, RecursionIterates
<1>11. QED
  BY <1>1, <1>10

LEMMA FrontierTyped ==
  ASSUME NEW b \in Evidence, NEW signal \in Vector, NEW frontier,
         Iterates(frontier, Vector, HopBack(b), signal), NEW hop \in Nat
  PROVE  /\ frontier[hop] \in Vector
         /\ \A n \in Node : frontier[hop][n] \in Nat
         /\ \A n \in Node : frontier[hop + 1][n] = Back(b, frontier[hop], n)
<1>1. frontier[hop] \in Vector /\ frontier[hop + 1] = HopBack(b)[frontier[hop]]
  BY DEF Iterates
<1>2. QED
  BY <1>1 DEF HopBack, Vector

LEMMA PassedBackTyped ==
  ASSUME NEW b \in Evidence, NEW signal \in Vector, NEW frontier,
         Iterates(frontier, Vector, HopBack(b), signal), NEW n \in Node
  PROVE  /\ SumFunction(PassedBack(frontier, n)) = SumFunctionOnSet(PassedBack(frontier, n), 1..MaxBackwardHops)
         /\ \A hop \in 1..MaxBackwardHops :
              /\ PassedBack(frontier, n)[hop] \in Nat
              /\ PassedBack(frontier, n)[hop] = frontier[hop][n]
         /\ SumFunction(PassedBack(frontier, n)) \in Nat
<1> DEFINE p == PassedBack(frontier, n)
<1>1. DOMAIN p = 1..MaxBackwardHops /\ \A hop \in 1..MaxBackwardHops : p[hop] = frontier[hop][n]
  BY DEF PassedBack
<1>2. \A hop \in 1..MaxBackwardHops : frontier[hop][n] \in Nat
  BY FrontierTyped
<1>3. IsFiniteSet(1..MaxBackwardHops)
  BY LedgerAssumption, FS_Interval
<1> HIDE DEF p
<1>4. SumFunctionOnSet(p, 1..MaxBackwardHops) \in Nat
  BY <1>1, <1>2, <1>3, SumType
<1>5. QED
  BY <1>1, <1>2, <1>4 DEF p, SumFunction

LEMMA BackwardTyped ==
  ASSUME NEW b \in Evidence, NEW signal \in Vector
  PROVE  /\ Backward(b, signal) \in Vector
         /\ \A n \in Node : (\A m \in Node : Endorsed(b, n, m) = 0) => Backward(b, signal)[n] = 0
<1>1. PICK frontier : /\ Iterates(frontier, Vector, HopBack(b), signal)
                      /\ Backward(b, signal) = [n \in Node |-> SumFunction(PassedBack(frontier, n))]
  BY BackwardIs
<1>2. \A n \in Node : SumFunction(PassedBack(frontier, n)) \in Nat
  BY <1>1, PassedBackTyped
<1>3. ASSUME NEW n \in Node, \A m \in Node : Endorsed(b, n, m) = 0
      PROVE  SumFunction(PassedBack(frontier, n)) = 0
  <2> DEFINE p == PassedBack(frontier, n)
  <2>1. ASSUME NEW hop \in 1..MaxBackwardHops
        PROVE  p[hop] = 0
    <3>1. hop - 1 \in Nat /\ (hop - 1) + 1 = hop
      OBVIOUS
    <3>2. frontier[hop - 1] \in Vector /\ frontier[hop][n] = Back(b, frontier[hop - 1], n)
      BY <1>1, <3>1, FrontierTyped
    <3>3. Back(b, frontier[hop - 1], n) = 0
      BY <1>3, <3>2, BackTyped
    <3>4. QED
      BY <1>1, <3>2, <3>3, PassedBackTyped
  <2>2. IsFiniteSet(1..MaxBackwardHops)
    BY LedgerAssumption, FS_Interval
  <2>3. SumFunction(p) = SumFunctionOnSet(p, 1..MaxBackwardHops)
    BY <1>1, PassedBackTyped
  <2> HIDE DEF p
  <2>4. SumFunctionOnSet(p, 1..MaxBackwardHops) = 0
    BY <2>1, <2>2, SumZero
  <2>5. QED
    BY <2>3, <2>4 DEF p
<1>4. QED
  BY <1>1, <1>2, <1>3 DEF Vector

-----------------------------------------------------------------------------
(* One iteration of RepuLink *)

\* What a node sends to each other one of an amount x, in proportion to weight.
Row(weight, n, x) ==
  [m \in Node |-> IF Total(weight) = 0 THEN Kept(n, m, x) ELSE Part(weight[m], Total(weight), x)]

\* A row of quotients sends all of x but less than a unit per receiver.
LEMMA RowTyped ==
  ASSUME NEW weight \in Vector, NEW n \in Node, NEW x \in Nat
  PROVE  /\ \A m \in Node : Row(weight, n, x)[m] \in Nat
         /\ \A m \in Node : weight[m] = 0 /\ (m # n \/ x = 0) => Row(weight, n, x)[m] = 0
         /\ Total(Row(weight, n, x)) <= x
         /\ x <= Total(Row(weight, n, x)) + Cardinality(Node)
<1> DEFINE w == Total(weight)
           row == Row(weight, n, x)
<1>1. w \in Nat /\ \A m \in Node : weight[m] \in Nat
  BY TotalTyped DEF Vector
<1>2. \A m \in Node : row[m] = IF w = 0 THEN Kept(n, m, x) ELSE Part(weight[m], w, x)
  BY DEF Row
<1>3. Cardinality(Node) \in Nat
  BY EvenShareTyped
<1> HIDE DEF w, row
<1>4. CASE w = 0
  <2>1. \A m \in Node : row[m] = Kept(n, m, x) /\ row[m] \in Nat
    BY <1>2, <1>4 DEF Kept
  <2>2. Total(row) = row[n] + SumFunctionOnSet(row, Node \ {n})
    <3>1. \A m \in Node : row[m] \in Int
      BY <2>1
    <3>2. QED
      BY <3>1, NodeFinite, SumRemove DEF Total
  <2>3. SumFunctionOnSet(row, Node \ {n}) = 0
    <3>1. IsFiniteSet(Node \ {n}) /\ \A m \in Node \ {n} : row[m] = 0
      BY <2>1, NodeFinite, FS_Subset DEF Kept
    <3>2. QED
      BY <3>1, SumZero
  <2>4. Total(row) = x
    BY <2>1, <2>2, <2>3 DEF Kept
  <2>5. \A m \in Node : weight[m] = 0 /\ (m # n \/ x = 0) => row[m] = 0
    BY <2>1 DEF Kept
  <2>6. QED
    BY <1>3, <2>1, <2>4, <2>5 DEF row
<1>5. CASE w # 0
  <2>1. ASSUME NEW m \in Node
        PROVE  /\ row[m] \in Nat /\ (weight[m] = 0 \/ x = 0 => row[m] = 0)
               /\ w * row[m] <= x * weight[m] /\ x * weight[m] < w * row[m] + w
    <3>1. row[m] = Part(weight[m], w, x) /\ weight[m] \in Nat
      BY <1>1, <1>2, <1>5
    <3>2. QED
      BY <1>1, <1>5, <3>1, PartTyped
  <2> DEFINE sent == [m \in Node |-> w * row[m]]
             due == [m \in Node |-> x * weight[m]]
             one == [m \in Node |-> 1]
             unit == [m \in Node |-> w]
             above == [m \in Node |-> w * row[m] + w]
  <2>2. \A m \in Node : sent[m] \in Nat /\ due[m] \in Nat /\ unit[m] \in Nat
                        /\ above[m] = sent[m] + unit[m]
    BY <1>1, <2>1, TimesTyped
  <2>3. \A m \in Node : above[m] \in Nat
    BY <2>2
  <2>4. Total(row) \in Nat
    BY <2>1, TotalTyped
  <2>5. Total(sent) = w * Total(row)
    <3>1. \A m \in Node : sent[m] \in Int /\ row[m] \in Int /\ sent[m] = w * row[m]
      BY <2>1, <2>2
    <3> HIDE DEF sent
    <3>2. QED
      BY <1>1, <3>1, TotalScale
  <2>6. Total(due) = x * w
    <3>1. \A m \in Node : due[m] \in Int /\ weight[m] \in Int /\ due[m] = x * weight[m]
      BY <1>1, <2>2
    <3> HIDE DEF due
    <3>2. Total(due) = x * Total(weight)
      BY <3>1, TotalScale
    <3>3. QED
      BY <3>2 DEF w
  <2>7. Total(unit) = w * Cardinality(Node)
    <3>1. \A m \in Node : unit[m] \in Int /\ one[m] \in Int /\ unit[m] = w * one[m] /\ one[m] = 1
      BY <1>1
    <3> HIDE DEF unit, one
    <3>2. Total(unit) = w * Total(one)
      BY <1>1, <3>1, TotalScale
    <3>3. Total(one) = Cardinality(Node)
      BY <3>1, NodeFinite, SumOnes DEF Total
    <3>4. QED
      BY <3>2, <3>3
  <2>8. \A m \in Node : sent[m] <= due[m] /\ due[m] <= above[m]
    <3> SUFFICES ASSUME NEW m \in Node
                 PROVE  w * row[m] <= x * weight[m] /\ x * weight[m] <= w * row[m] + w
      OBVIOUS
    <3>1. x * weight[m] < w * row[m] + w /\ w * row[m] \in Nat /\ x * weight[m] \in Nat
      BY <1>1, <2>1, TimesTyped
    <3>2. QED
      BY <1>1, <2>1, <3>1
  <2> HIDE DEF sent, due, unit, above, one
  <2>9. Total(sent) <= Total(due)
    <3>1. \A m \in Node : sent[m] \in Int /\ due[m] \in Int /\ sent[m] <= due[m]
      BY <2>2, <2>8
    <3>2. QED
      BY <3>1, NodeFinite, SumAtMost DEF Total
  <2>10. Total(due) <= Total(above)
    <3>1. \A m \in Node : due[m] \in Int /\ above[m] \in Int /\ due[m] <= above[m]
      BY <2>2, <2>3, <2>8
    <3>2. QED
      BY <3>1, NodeFinite, SumAtMost DEF Total
  <2>11. Total(above) = Total(sent) + Total(unit)
    <3>1. \A m \in Node : sent[m] \in Int /\ unit[m] \in Int /\ above[m] = sent[m] + unit[m]
      BY <2>2
    <3>2. QED
      BY <3>1, TotalAdd
  <2>12. Total(row) <= x
    <3>1. w * Total(row) <= w * x
      <4>1. x * w = w * x
        BY <1>1
      <4>2. QED
        BY <2>5, <2>6, <2>9, <4>1
    <3>2. QED
      BY <1>1, <1>5, <2>4, <3>1, CancelPositive
  <2>13. x <= Total(row) + Cardinality(Node)
    <3> DEFINE y == Total(row) + Cardinality(Node)
    <3>1. y \in Int
      BY <1>3, <2>4
    <3>2. w * x <= w * y
      <4>1. x * w = w * x /\ w * y = w * Total(row) + w * Cardinality(Node)
        BY <1>1, <1>3, <2>4, Distributes
      <4> HIDE DEF y
      <4>2. QED
        BY <2>5, <2>6, <2>7, <2>10, <2>11, <4>1
    <3> HIDE DEF y
    <3>3. x <= y
      BY <1>1, <1>5, <3>1, <3>2, CancelPositive
    <3>4. QED
      BY <3>3 DEF y
  <2>14. QED
    BY <2>1, <2>12, <2>13 DEF row
<1>6. QED
  BY <1>4, <1>5

\* What node n sends of vector v: half along its interactions, half along its
\* endorsements.
Halved(x) == x \div 2
Interacts(b, n) == Scores(b, n)
Endorses(b, n) == [m \in Node |-> Endorsed(b, n, m)]
Sent(b, v, n, m) ==
  Row(Interacts(b, n), n, Halved(v[n]))[m] + Row(Endorses(b, n), n, Halved(v[n]))[m]

LEMMA HalvedTyped ==
  ASSUME NEW x \in Nat
  PROVE  /\ Halved(x) \in Nat /\ 2 * Halved(x) <= x /\ x <= 2 * Halved(x) + 1
         /\ (x = 0 => Halved(x) = 0)
BY DEF Halved

LEMMA LayersIs ==
  ASSUME NEW b \in Evidence, NEW v \in Vector
  PROVE  Layers(b, v) = [m \in Node |-> Total([n \in Node |-> Sent(b, v, n, m)])]
<1>1. ASSUME NEW n \in Node, NEW m \in Node
      PROVE  /\ Row(Interacts(b, n), n, Halved(v[n]))[m]
                  = IF ScoreTotal(b, n) = 0 THEN Kept(n, m, v[n] \div 2)
                    ELSE Part(NetScore(b, n, m), ScoreTotal(b, n), v[n] \div 2)
             /\ Row(Endorses(b, n), n, Halved(v[n]))[m]
                  = IF EndorsedTotal(b, n) = 0 THEN Kept(n, m, v[n] \div 2)
                    ELSE Part(Endorsed(b, n, m), EndorsedTotal(b, n), v[n] \div 2)
  BY DEF Row, Interacts, Endorses, Scores, ScoreTotal, EndorsedTotal, Halved
<1> DEFINE interaction(n, m) ==
             IF [r \in Node |-> ScoreTotal(b, r)][n] = 0 THEN Kept(n, m, v[n] \div 2)
             ELSE Part(NetScore(b, n, m), [r \in Node |-> ScoreTotal(b, r)][n], v[n] \div 2)
           endorsement(n, m) ==
             IF [r \in Node |-> EndorsedTotal(b, r)][n] = 0 THEN Kept(n, m, v[n] \div 2)
             ELSE Part(Endorsed(b, n, m), [r \in Node |-> EndorsedTotal(b, r)][n], v[n] \div 2)
<1>2. Layers(b, v) = [m \in Node |-> Total([n \in Node |-> interaction(n, m) + endorsement(n, m)])]
  BY DEF Layers
<1>3. \A n, m \in Node : interaction(n, m) + endorsement(n, m) = Sent(b, v, n, m)
  BY <1>1 DEF Sent
<1> HIDE DEF interaction, endorsement
<1>4. \A m \in Node : [n \in Node |-> interaction(n, m) + endorsement(n, m)]
                        = [n \in Node |-> Sent(b, v, n, m)]
  BY <1>3
<1>5. QED
  BY <1>2, <1>4

-----------------------------------------------------------------------------
\* An iteration loses at most Rounding of a vector, and brings nothing to a node that
\* has nothing and that nobody points to.
LEMMA SentTyped ==
  ASSUME NEW b \in Evidence, NEW v \in Vector, NEW n \in Node
  PROVE  /\ \A m \in Node : Sent(b, v, n, m) \in Nat
         /\ \A m \in Node : /\ NetScore(b, n, m) = 0 /\ Endorsed(b, n, m) = 0
                            /\ (m # n \/ v[n] = 0)
                            => Sent(b, v, n, m) = 0
         /\ Total([m \in Node |-> Sent(b, v, n, m)]) <= v[n]
         /\ v[n] <= Total([m \in Node |-> Sent(b, v, n, m)]) + (2 * Cardinality(Node) + 1)
<1> DEFINE x == Halved(v[n])
           f == Row(Interacts(b, n), n, x)
           g == Row(Endorses(b, n), n, x)
           h == [m \in Node |-> Sent(b, v, n, m)]
<1>1. Interacts(b, n) \in Vector /\ Endorses(b, n) \in Vector
  BY ScoresTyped, EndorsedTyped DEF Interacts, Endorses, Vector
<1>2. v[n] \in Nat /\ x \in Nat /\ 2 * x <= v[n] /\ v[n] <= 2 * x + 1 /\ (v[n] = 0 => x = 0)
  BY HalvedTyped DEF Vector
<1>3. \A m \in Node : h[m] = f[m] + g[m] /\ Sent(b, v, n, m) = h[m]
  BY DEF Sent
<1>4. \A m \in Node : Interacts(b, n)[m] = NetScore(b, n, m) /\ Endorses(b, n)[m] = Endorsed(b, n, m)
  BY DEF Interacts, Endorses, Scores
<1> HIDE DEF x
<1>5. /\ \A m \in Node : f[m] \in Nat
      /\ \A m \in Node : Interacts(b, n)[m] = 0 /\ (m # n \/ x = 0) => f[m] = 0
      /\ Total(f) <= x /\ x <= Total(f) + Cardinality(Node)
  BY <1>1, <1>2, RowTyped
<1>6. /\ \A m \in Node : g[m] \in Nat
      /\ \A m \in Node : Endorses(b, n)[m] = 0 /\ (m # n \/ x = 0) => g[m] = 0
      /\ Total(g) <= x /\ x <= Total(g) + Cardinality(Node)
  BY <1>1, <1>2, RowTyped
<1> HIDE DEF f, g, h
<1>7. Total(h) = Total(f) + Total(g)
  <2>1. \A m \in Node : f[m] \in Int /\ g[m] \in Int /\ h[m] = f[m] + g[m]
    BY <1>3, <1>5, <1>6
  <2>2. QED
    BY <2>1, TotalAdd
<1>8. Total(f) \in Nat /\ Total(g) \in Nat /\ Cardinality(Node) \in Nat
  BY <1>5, <1>6, TotalTyped, EvenShareTyped
<1>9. Total(h) <= v[n] /\ v[n] <= Total(h) + (2 * Cardinality(Node) + 1)
  BY <1>2, <1>5, <1>6, <1>7, <1>8
<1>10. \A m \in Node : /\ h[m] \in Nat
                       /\ NetScore(b, n, m) = 0 /\ Endorsed(b, n, m) = 0 /\ (m # n \/ v[n] = 0)
                          => h[m] = 0
  BY <1>2, <1>3, <1>4, <1>5, <1>6
<1>11. QED
  BY <1>3, <1>9, <1>10 DEF h

LEMMA LayersTyped ==
  ASSUME NEW b \in Evidence, NEW v \in Vector
  PROVE  /\ Layers(b, v) \in Vector
         /\ Total(Layers(b, v)) \in (Total(v) - Rounding)..Total(v)
         /\ \A m \in Node : /\ v[m] = 0
                            /\ \A n \in Node : NetScore(b, n, m) = 0 /\ Endorsed(b, n, m) = 0
                            => Layers(b, v)[m] = 0
<1> DEFINE e == [p \in Node \X Node |-> Sent(b, v, p[1], p[2])]
           out == [n \in Node |-> Total([m \in Node |-> e[<<n, m>>]])]
           in == [m \in Node |-> Total([n \in Node |-> e[<<n, m>>]])]
           card == Cardinality(Node)
           loss == 2 * card + 1
           lossy == [n \in Node |-> loss]
           above == [n \in Node |-> out[n] + loss]
           one == [n \in Node |-> 1]
<1>1. \A n, m \in Node : e[<<n, m>>] = Sent(b, v, n, m) /\ e[<<n, m>>] \in Nat
  BY SentTyped
<1>2. card \in Nat \ {0}
  BY EvenShareTyped
<1>3. Layers(b, v) = in
  <2>1. \A m \in Node : [n \in Node |-> e[<<n, m>>]] = [n \in Node |-> Sent(b, v, n, m)]
    BY <1>1
  <2>2. in = [m \in Node |-> Total([n \in Node |-> Sent(b, v, n, m)])]
    BY <2>1
  <2> HIDE DEF in
  <2>3. QED
    BY <2>2, LayersIs
<1>4. ASSUME NEW n \in Node
      PROVE  out[n] <= v[n] /\ v[n] <= out[n] + loss
  <2>1. [m \in Node |-> e[<<n, m>>]] = [m \in Node |-> Sent(b, v, n, m)]
    BY <1>1
  <2>2. out[n] = Total([m \in Node |-> Sent(b, v, n, m)])
    BY <2>1
  <2> HIDE DEF out
  <2>3. QED
    BY <2>2, SentTyped
<1> HIDE DEF e
<1>5. Total(out) = Total(in)
  <2>1. ASSUME NEW s \in Node, NEW t \in Node
        PROVE  e[<<s, t>>] \in Int
    <3>1. e[<<s, t>>] \in Nat
      BY <1>1
    <3>2. QED
      BY <3>1
  <2>2. QED
    BY <2>1, TotalSwap
<1>6. \A n \in Node : out[n] \in Nat
  <2> SUFFICES ASSUME NEW n \in Node PROVE out[n] \in Nat
    OBVIOUS
  <2> DEFINE f == [m \in Node |-> e[<<n, m>>]]
  <2>1. \A m \in Node : f[m] \in Nat
    BY <1>1
  <2>2. out[n] = Total(f)
    OBVIOUS
  <2> HIDE DEF f, out
  <2>3. QED
    BY <2>1, <2>2, TotalTyped
<1>7. ASSUME NEW m \in Node
      PROVE  in[m] \in Nat /\ ((\A n \in Node : e[<<n, m>>] = 0) => in[m] = 0)
  <2> DEFINE f == [n \in Node |-> e[<<n, m>>]]
  <2>1. \A n \in Node : f[n] \in Nat /\ f[n] = e[<<n, m>>]
    BY <1>1
  <2>2. in[m] = Total(f)
    OBVIOUS
  <2> HIDE DEF f, in
  <2>3. QED
    BY <2>1, <2>2, TotalTyped, TotalZero
<1>8. in \in Vector
  BY <1>7 DEF Vector
<1>9. \A n \in Node : v[n] \in Nat
  BY DEF Vector
<1>10. \A n \in Node : /\ lossy[n] = loss * one[n] /\ lossy[n] \in Nat /\ one[n] = 1
                       /\ above[n] = out[n] + lossy[n]
  BY <1>2
<1>11. \A n \in Node : above[n] \in Nat /\ v[n] <= above[n]
  BY <1>4, <1>6, <1>10
<1>12. ASSUME NEW m \in Node, v[m] = 0,
              \A n \in Node : NetScore(b, n, m) = 0 /\ Endorsed(b, n, m) = 0
       PROVE  in[m] = 0
  <2>1. \A n \in Node : e[<<n, m>>] = 0
    <3> SUFFICES ASSUME NEW n \in Node PROVE Sent(b, v, n, m) = 0
      BY <1>1
    <3>1. m # n \/ v[n] = 0
      BY <1>12
    <3>2. QED
      BY <1>12, <3>1, SentTyped
  <2> HIDE DEF in
  <2>2. QED
    BY <1>7, <2>1
<1>13. loss \in Int
  BY <1>2
<1> HIDE DEF out, in, lossy, above, one, loss
<1>14. Total(out) \in Nat /\ Total(v) \in Nat
  BY <1>6, <1>9, TotalTyped
<1>15. Total(out) <= Total(v)
  <2>1. \A n \in Node : out[n] \in Int /\ v[n] \in Int /\ out[n] <= v[n]
    BY <1>4, <1>6, <1>9
  <2>2. QED
    BY <2>1, NodeFinite, SumAtMost DEF Total
<1>16. Total(v) <= Total(above)
  <2>1. \A n \in Node : v[n] \in Int /\ above[n] \in Int /\ v[n] <= above[n]
    BY <1>9, <1>11
  <2>2. QED
    BY <2>1, NodeFinite, SumAtMost DEF Total
<1>17. Total(above) = Total(out) + Total(lossy)
  <2>1. \A n \in Node : out[n] \in Int /\ lossy[n] \in Int /\ above[n] = out[n] + lossy[n]
    BY <1>6, <1>10
  <2>2. QED
    BY <2>1, TotalAdd
<1>18. Total(lossy) = loss * card
  <2>1. \A n \in Node : lossy[n] \in Int /\ one[n] \in Int /\ lossy[n] = loss * one[n]
    BY <1>10
  <2>2. Total(lossy) = loss * Total(one)
    BY <1>13, <2>1, TotalScale
  <2>3. Total(one) = card
    BY <1>10, NodeFinite, SumOnes DEF Total
  <2>4. QED
    BY <2>2, <2>3
<1>19. loss * card <= Rounding /\ Rounding \in Nat /\ loss * card \in Nat
  <2> HIDE DEF card
  <2>1. (2 * card + 1) * card = 2 * (card * card) + card /\ 4 * card * card = 4 * (card * card)
    BY <1>2
  <2>2. card <= card * card /\ card * card \in Nat
    BY <1>2
  <2>3. Rounding = 4 * card * card
    BY DEF Rounding, card
  <2>4. QED
    BY <1>2, <2>1, <2>2, <2>3 DEF loss
<1>20. Total(in) \in (Total(v) - Rounding)..Total(v)
  BY <1>5, <1>14, <1>15, <1>16, <1>17, <1>18, <1>19
<1>21. QED
  BY <1>3, <1>8, <1>12, <1>20

-----------------------------------------------------------------------------
\* What a projection leaves when something is positive.
LEMMA ProjectPositive ==
  ASSUME NEW v, \A n \in Node : v[n] \in Int, NEW fallback, \E n \in Node : v[n] > 0
  PROVE  \A n \in Node : v[n] <= 0 => Project(v, fallback)[n] = 0
<1> DEFINE positive == [n \in Node |-> NonNegative(v[n])]
           total == Total(positive)
<1>1. \A n \in Node : positive[n] \in Nat /\ (v[n] <= 0 => positive[n] = 0)
                      /\ (v[n] > 0 => positive[n] # 0)
  BY DEF NonNegative
<1>2. Project(v, fallback) = IF positive = Zero THEN fallback
                             ELSE [n \in Node |-> (positive[n] * Scale) \div total]
  BY DEF Project
<1>3. positive # Zero
  BY <1>1 DEF Zero
<1> HIDE DEF positive
<1>4. total \in Nat /\ total # 0
  BY <1>1, TotalTyped, TotalZero
<1> HIDE DEF total
<1>5. ASSUME NEW n \in Node, v[n] <= 0
      PROVE  (positive[n] * Scale) \div total = 0
  <2>1. positive[n] * Scale = 0
    BY <1>1, <1>5, ScaleTyped, TimesTyped
  <2>2. QED
    BY <1>4, <2>1, QuotientTyped
<1>6. QED
  BY <1>2, <1>3, <1>5

\* The seed is a vector; what is neither endorsed nor praised has nothing in it.
LEMMA SeedTyped ==
  ASSUME NEW b \in Evidence, NEW penalty \in Vector, NEW reward \in Vector
  PROVE  /\ Seed(b, penalty, reward) \in Vector
         /\ \A n \in Node : /\ ColdStart(b)[n] = 0 /\ reward[n] = 0
                            /\ Against(b.delivered, n) = 0
                            => Seed(b, penalty, reward)[n] = 0
<1> DEFINE cold == ColdStart(b)
           drop == Signal(b.drops)
           good == Signal(b.delivered)
           v == [n \in Node |-> cold[n] - drop[n] + good[n] - penalty[n] + reward[n]]
<1>1. Seed(b, penalty, reward) = Project(v, cold)
  BY DEF Seed
<1>2. cold \in Vector
  BY ColdStartTyped
<1>3. b.delivered \in [Link -> Nat] /\ b.drops \in [Link -> Nat]
  BY DEF Evidence
<1>4. /\ good \in Vector /\ drop \in Vector
      /\ \A t \in Node : good[t] = 0 <=> Against(b.delivered, t) = 0
  BY <1>3, SignalTyped
<1> HIDE DEF cold, drop, good
<1>5. \A n \in Node : cold[n] \in Nat /\ drop[n] \in Nat /\ good[n] \in Nat
                      /\ penalty[n] \in Nat /\ reward[n] \in Nat
  BY <1>2, <1>4 DEF Vector
<1>6. \A n \in Node : v[n] \in Int
  BY <1>5
<1>7. \A n \in Node : cold[n] = 0 /\ reward[n] = 0 /\ good[n] = 0 => v[n] <= 0
  BY <1>5
<1> HIDE DEF v
<1>8. /\ Project(v, cold) \in Vector
      /\ \A n \in Node : v[n] <= 0 /\ cold[n] = 0 => Project(v, cold)[n] = 0
  BY <1>2, <1>6, ProjectTyped
<1>9. QED
  BY <1>1, <1>4, <1>7, <1>8 DEF cold

LEMMA RepuStepTyped ==
  ASSUME NEW b \in Evidence, NEW start \in Vector, NEW v \in Vector
  PROVE  /\ RepuStep(b, start, v) \in Vector
         /\ \A n \in Node : Layers(b, v)[n] = 0 /\ start[n] = 0 => RepuStep(b, start, v)[n] = 0
<1> DEFINE layered == Layers(b, v)
           mixed == [n \in Node |-> (19 * layered[n] + start[n]) \div 20]
<1>1. RepuStep(b, start, v) = Project(mixed, start)
  BY DEF RepuStep
<1>2. layered \in Vector
  BY LayersTyped
<1> HIDE DEF layered
<1>3. \A n \in Node : layered[n] \in Nat /\ start[n] \in Nat
  BY <1>2 DEF Vector
<1>4. \A n \in Node : mixed[n] \in Int /\ (layered[n] = 0 /\ start[n] = 0 => mixed[n] = 0)
  BY <1>3
<1> HIDE DEF mixed
<1>5. /\ Project(mixed, start) \in Vector
      /\ \A n \in Node : mixed[n] <= 0 /\ start[n] = 0 => Project(mixed, start)[n] = 0
  BY <1>4, ProjectTyped
<1>6. \A n \in Node : layered[n] = 0 /\ start[n] = 0 => mixed[n] <= 0
  BY <1>4
<1>7. QED
  BY <1>1, <1>5, <1>6 DEF layered

LEMMA EigenStepTyped ==
  ASSUME NEW b \in Evidence, NEW v \in Vector
  PROVE  /\ EigenStep(b, v) \in Vector
         /\ \A n \in Node : Spread(b, v)[n] = 0 => EigenStep(b, v)[n] = 0
BY SpreadTyped, ReducedTyped DEF EigenStep

LEMMA AccountTyped ==
  ASSUME NEW b \in Evidence
  PROVE  /\ Account(b) \in [penalty : Vector, reward : Vector]
         /\ NoAccount \in [penalty : Vector, reward : Vector]
<1>1. b.delivered \in [Link -> Nat] /\ b.drops \in [Link -> Nat]
  BY DEF Evidence
<1>2. Signal(b.drops) \in Vector /\ Signal(b.delivered) \in Vector
  BY <1>1, SignalTyped
<1>3. Backward(b, Signal(b.drops)) \in Vector /\ Backward(b, Signal(b.delivered)) \in Vector
  BY <1>2, BackwardTyped
<1>4. NoAccount \in [penalty : Vector, reward : Vector]
  BY ZeroTyped DEF NoAccount
<1>5. QED
  BY <1>3, <1>4 DEF Account

LEMMA StartTyped ==
  ASSUME NEW b \in Evidence, NEW acc \in [penalty : Vector, reward : Vector]
  PROVE  /\ StartFrom(b, acc) \in Vector
         /\ Initial(b) \in Vector
BY SeedTyped, PretrustTyped, ColdStartTyped DEF StartFrom, Initial

-----------------------------------------------------------------------------
(* Types *)

LedgerTypes ==
  /\ offline \in SUBSET Node /\ solver \in Solvers
  /\ phase \in {"traffic", "grace", "flushed", "closed"}
  /\ pending \in SUBSET Traffic
  /\ basis \in Evidence
  /\ recomputing \in BOOLEAN /\ iteration \in 0..MaxIterations
  /\ account \in [penalty : Vector, reward : Vector]
  /\ seed \in Vector /\ current \in Vector /\ published \in Vector
  /\ calls \in Nat

\* A computation under way has an iteration left, and between two the vector of the
\* last one is published.
LedgerInv ==
  /\ BookInv /\ LedgerTypes
  /\ recomputing => iteration < MaxIterations
  /\ ~recomputing => published = current

LEMMA LedgerInit == Init => LedgerInv
<1> SUFFICES ASSUME Init PROVE LedgerInv
  OBVIOUS
<1>1. BookInv
  BY BookInit
<1>2. evidence \in Evidence
  BY <1>1 DEF BookInv, BookTypes
<1>3. Initial(evidence) \in Vector /\ NoAccount \in [penalty : Vector, reward : Vector]
  BY <1>2, StartTyped, AccountTyped
<1>4. 0 \in 0..MaxIterations
  BY LedgerAssumption
<1>5. LedgerTypes
  BY <1>2, <1>3, <1>4 DEF Init, LedgerTypes
<1>6. QED
  BY <1>1, <1>5 DEF Init, LedgerInv

\* What a step does to the ledger: nothing, or one of two things.
LEMMA LedgerChange ==
  ASSUME [Next]_vars
  PROVE  /\ solver' = solver
         /\ UNCHANGED ledgerVars \/ RecomputeFrom(evidence') \/ Iterate
<1>1. ASSUME NEW e \in Traffic, Forward(e) \/ LoseFrame(e)
      PROVE  UNCHANGED ledgerVars /\ solver' = solver
  BY <1>1 DEF Forward, LoseFrame
<1>2. ASSUME NEW e \in pending, Confirm(e)
      PROVE  UNCHANGED ledgerVars /\ solver' = solver
  BY <1>2 DEF Confirm
<1>3. ASSUME NEW es \in SUBSET pending, Sweep(es)
      PROVE  UNCHANGED ledgerVars /\ solver' = solver
  BY <1>3 DEF Sweep
<1>4. ASSUME NEW offer \in Offers, Endorse(offer[1], offer[2])
      PROVE  UNCHANGED ledgerVars /\ solver' = solver
  BY <1>4 DEF Endorse
<1>5. ASSUME NEW a \in Attestations, NEW now \in Times, EndorseSigned(a, now)
      PROVE  UNCHANGED ledgerVars /\ solver' = solver
  BY <1>5 DEF EndorseSigned
<1>6. CASE Tick
  <2>1. evidence' = evidence /\ RecomputeFrom(evidence) /\ solver' = solver
    BY <1>6 DEF Tick
  <2>2. QED
    BY <2>1
<1>7. CASE Iterate
  BY <1>7 DEF Iterate
<1>8. CASE CancelTasks
  BY <1>8 DEF CancelTasks
<1>9. CASE FlushAndRecompute
  BY <1>9 DEF FlushAndRecompute, LastBasis
<1>10. CASE Churn
  BY <1>10 DEF Churn
<1>11. CASE UNCHANGED vars
  BY <1>11 DEF vars
<1>12. QED
  BY <1>1, <1>2, <1>3, <1>4, <1>5, <1>6, <1>7, <1>8, <1>9, <1>10, <1>11 DEF Next, Closed

\* What a step does to the rest.
LEMMA RunChange ==
  ASSUME LedgerInv, [Next]_vars
  PROVE  /\ offline' \in SUBSET Node
         /\ phase' \in {"traffic", "grace", "flushed", "closed"}
         /\ pending' \in SUBSET Traffic
         /\ calls' \in Nat
<1> USE LedgerAssumption
<1> USE DEF LedgerInv, LedgerTypes
<1>1. ASSUME NEW e \in Traffic, Forward(e) \/ LoseFrame(e)
      PROVE  UNCHANGED <<offline, phase>> /\ pending' \in SUBSET Traffic /\ calls' \in Nat
  BY <1>1 DEF Forward, LoseFrame
<1>2. ASSUME NEW e \in pending, Confirm(e)
      PROVE  UNCHANGED <<offline, phase, calls>> /\ pending' \in SUBSET Traffic
  BY <1>2 DEF Confirm
<1>3. ASSUME NEW es \in SUBSET pending, Sweep(es)
      PROVE  UNCHANGED <<offline, phase, calls>> /\ pending' \in SUBSET Traffic
  BY <1>3 DEF Sweep
<1>4. ASSUME NEW offer \in Offers, Endorse(offer[1], offer[2])
      PROVE  UNCHANGED <<offline, phase, pending>> /\ calls' \in Nat
  BY <1>4 DEF Endorse
<1>5. ASSUME NEW a \in Attestations, NEW now \in Times, EndorseSigned(a, now)
      PROVE  UNCHANGED <<offline, phase, pending>> /\ calls' \in Nat
  BY <1>5 DEF EndorseSigned
<1>6. CASE Tick
  BY <1>6 DEF Tick
<1>7. CASE Iterate
  BY <1>7 DEF Iterate
<1>8. CASE CancelTasks
  BY <1>8 DEF CancelTasks
<1>9. CASE FlushAndRecompute
  BY <1>9 DEF FlushAndRecompute
<1>10. CASE Churn
  BY <1>10 DEF Churn
<1>11. CASE UNCHANGED vars
  BY <1>11 DEF vars
<1>12. QED
  BY <1>1, <1>2, <1>3, <1>4, <1>5, <1>6, <1>7, <1>8, <1>9, <1>10, <1>11 DEF Next, Closed

LEMMA LedgerStep == LedgerInv /\ [Next]_vars => LedgerInv'
<1> SUFFICES ASSUME LedgerInv, [Next]_vars PROVE LedgerInv'
  OBVIOUS
<1>1. BookInv' /\ evidence' \in Evidence
  BY BookStep DEF LedgerInv, BookInv, BookTypes
<1>2. solver' \in Solvers
  BY LedgerChange DEF LedgerInv, LedgerTypes
<1> DEFINE Ledger == /\ basis' \in Evidence
                     /\ recomputing' \in BOOLEAN /\ iteration' \in 0..MaxIterations
                     /\ account' \in [penalty : Vector, reward : Vector]
                     /\ seed' \in Vector /\ current' \in Vector /\ published' \in Vector
                     /\ recomputing' => iteration' < MaxIterations
                     /\ ~recomputing' => published' = current'
<1>3. ASSUME UNCHANGED ledgerVars PROVE Ledger
  BY <1>3 DEF ledgerVars, LedgerInv, LedgerTypes
<1>4. ASSUME RecomputeFrom(evidence') PROVE Ledger
  <2>1. Account(evidence') \in [penalty : Vector, reward : Vector]
    BY <1>1, AccountTyped
  <2>2. account' = Account(evidence') /\ seed' = StartFrom(evidence', account')
    BY <1>4 DEF RecomputeFrom
  <2>3. StartFrom(evidence', account') \in Vector
    BY <1>1, <2>1, <2>2, StartTyped
  <2>4. /\ recomputing' = TRUE /\ basis' = evidence' /\ current' = seed' /\ iteration' = 0
        /\ published' = published
    BY <1>4 DEF RecomputeFrom
  <2>5. MaxIterations \in Nat \ {0}
    BY LedgerAssumption
  <2>6. QED
    BY <1>1, <2>1, <2>2, <2>3, <2>4, <2>5 DEF LedgerInv, LedgerTypes
<1>5. ASSUME Iterate PROVE Ledger
  <2>1. /\ recomputing /\ current' = Step(basis, current) /\ iteration' = iteration + 1
        /\ UNCHANGED <<basis, account, seed>>
        /\ IF current' = current \/ iteration' = MaxIterations
           THEN recomputing' = FALSE /\ published' = current'
           ELSE UNCHANGED <<recomputing, published>>
    BY <1>5 DEF Iterate
  <2>2. /\ basis \in Evidence /\ current \in Vector /\ seed \in Vector /\ published \in Vector
        /\ account \in [penalty : Vector, reward : Vector]
        /\ iteration \in Nat /\ iteration < MaxIterations /\ MaxIterations \in Nat
    BY <2>1, LedgerAssumption DEF LedgerInv, LedgerTypes
  <2>3. Step(basis, current) \in Vector
    BY <2>2, EigenStepTyped, RepuStepTyped DEF Step
  <2>4. iteration' \in 0..MaxIterations /\ (iteration' # MaxIterations => iteration' < MaxIterations)
    BY <2>1, <2>2
  <2>5. QED
    BY <2>1, <2>2, <2>3, <2>4
<1>6. Ledger
  BY <1>3, <1>4, <1>5, LedgerChange
<1>7. LedgerTypes'
  BY <1>2, <1>6, RunChange DEF LedgerTypes
<1>8. QED
  BY <1>1, <1>6, <1>7 DEF LedgerInv

\* Every vector that a ledger computes is one of naturals, whatever the evidence
\* (solvers.py 43-53, repulink.py 55-79).
THEOREM TypeOKHolds == Spec => []TypeOK
<1>1. LedgerInv => TypeOK
  <2> SUFFICES ASSUME LedgerInv PROVE TypeOK
    OBVIOUS
  <2>1. evidence \in Evidence /\ signed \in Nat
        /\ granted \in SUBSET [attestation : Attestation, at : Nat]
    BY DEF LedgerInv, BookInv, BookTypes
  <2>2. LedgerTypes
    BY DEF LedgerInv
  <2>3. QED
    BY <2>1, <2>2 DEF TypeOK, LedgerTypes, Evidence, Vector
<1>2. QED
  BY <1>1, LedgerInit, LedgerStep, PTL DEF Spec

\* No iteration of either ledger loses or makes trust, whatever rows are empty
\* (solvers.py 113-115, repulink.py 343-345).
THEOREM MassKeptHolds == Spec => []MassKept
<1>1. LedgerInv => MassKept
  <2> SUFFICES ASSUME LedgerInv PROVE MassKept
    OBVIOUS
  <2>1. basis \in Evidence /\ current \in Vector
    BY DEF LedgerInv, LedgerTypes
  <2>2. /\ Total(Spread(basis, current)) = Damped * Parts(basis) * Total(current)
        /\ Total(Layers(basis, current)) \in (Total(current) - Rounding)..Total(current)
    BY <2>1, SpreadTyped, LayersTyped
  <2>3. QED
    BY <2>2 DEF MassKept
<1>2. QED
  BY <1>1, LedgerInit, LedgerStep, PTL DEF Spec

-----------------------------------------------------------------------------
(* Strangers *)

\* A group without an anchor to which nobody outside has positive evidence.
Shunned(b, group) ==
  /\ group \subseteq {n \in Node : Pretrust(b)[n] = 0}
  /\ \A s \in Node \ group, t \in group : NetScore(b, s, t) = 0

\* It has no trust in any vector that is computed.
StrangerInv ==
  /\ LedgerInv
  /\ solver = "eigentrust" => \A group \in SUBSET Node :
       Shunned(basis, group) => \A n \in group : current[n] = 0

\* One round brings a shunned group nothing from outside, and its members have nothing
\* to give one another.
LEMMA SpreadShuns ==
  ASSUME NEW b \in Evidence, NEW v \in Vector, NEW group \in SUBSET Node,
         Shunned(b, group), \A n \in group : v[n] = 0, NEW t \in group
  PROVE  Spread(b, v)[t] = 0
<1> DEFINE parts == Parts(b)
           term == [s \in Node |-> v[s] * Share(parts, LocalTrust(b, s), t)]
<1>1. parts \in Nat /\ Total(v) \in Nat /\ \A s \in Node : v[s] \in Nat
  BY PartsTyped, TotalTyped DEF Vector
<1>2. Pretrust(b)[t] = 0 /\ Share(parts, Pretrust(b), t) = 0
  BY DEF Shunned, Share
<1>3. ASSUME NEW s \in Node
      PROVE  term[s] = 0
  <2>1. Share(parts, LocalTrust(b, s), t) \in Nat
    <3>1. LocalTrust(b, s) \in Vector /\ Total(LocalTrust(b, s)) # 0
          /\ \E k \in Nat : parts = k * Total(LocalTrust(b, s))
      BY LocalTrustTyped, PartsTyped
    <3> HIDE DEF parts
    <3>2. QED
      BY <1>1, <3>1, SharesAddUp
  <2>2. CASE s \in group
    <3>1. v[s] = 0
      BY <2>2
    <3> HIDE DEF parts
    <3>2. QED
      BY <2>1, <3>1
  <2>3. CASE s \notin group
    <3>1. NetScore(b, s, t) = 0
      BY <2>3 DEF Shunned
    <3>2. LocalTrust(b, s)[t] = 0
      BY <1>2, <3>1 DEF LocalTrust, Scores
    <3>3. Share(parts, LocalTrust(b, s), t) = 0
      BY <3>2 DEF Share
    <3> HIDE DEF parts
    <3>4. QED
      BY <1>1, <3>3
  <2>4. QED
    BY <2>2, <2>3
<1>4. Received(b, v, t) = Total(term)
  BY DEF Received
<1>5. Spread(b, v)[t] = Damping * Total(v) * Share(parts, Pretrust(b), t)
                         + (Damped - Damping) * Received(b, v, t)
  BY SpreadIs
<1> HIDE DEF parts, term
<1>6. Total(term) = 0
  BY <1>3, NodeFinite, SumZero DEF Total
<1>7. QED
  BY <1>1, <1>2, <1>4, <1>5, <1>6 DEF Damping, Damped

LEMMA StrangerInit == Init => StrangerInv
<1> SUFFICES ASSUME Init PROVE StrangerInv
  OBVIOUS
<1>1. LedgerInv
  BY LedgerInit
<1>2. solver = "eigentrust" => current = Pretrust(basis)
  BY DEF Init, Initial
<1>3. QED
  BY <1>1, <1>2 DEF StrangerInv, Shunned

LEMMA StrangerStep == StrangerInv /\ [Next]_vars => StrangerInv'
<1> SUFFICES ASSUME StrangerInv, [Next]_vars PROVE StrangerInv'
  OBVIOUS
<1>1. LedgerInv /\ LedgerInv' /\ solver' = solver
  BY LedgerStep, LedgerChange DEF StrangerInv
<1> SUFFICES ASSUME solver = "eigentrust", NEW group \in SUBSET Node, Shunned(basis', group),
                    NEW n \in group
             PROVE  current'[n] = 0
  BY <1>1 DEF StrangerInv, Shunned
<1>2. CASE UNCHANGED ledgerVars
  <2>1. basis' = basis /\ current' = current
    BY <1>2 DEF ledgerVars
  <2>2. Shunned(basis, group)
    BY <2>1
  <2>3. QED
    BY <2>1, <2>2 DEF StrangerInv
<1>3. CASE RecomputeFrom(evidence')
  <2>1. basis' = evidence' /\ current' = StartFrom(evidence', account')
    BY <1>3 DEF RecomputeFrom
  <2>2. StartFrom(evidence', account') = Pretrust(evidence')
    BY DEF StartFrom
  <2>3. current' = Pretrust(basis')
    BY <2>1, <2>2
  <2>4. Pretrust(basis')[n] = 0
    BY DEF Shunned
  <2>5. QED
    BY <2>3, <2>4
<1>4. CASE Iterate
  <2>1. basis' = basis /\ current' = Step(basis, current)
    BY <1>4 DEF Iterate
  <2>2. basis \in Evidence /\ current \in Vector
    BY <1>1 DEF LedgerInv, LedgerTypes
  <2>3. Shunned(basis, group)
    BY <2>1
  <2>4. \A m \in group : current[m] = 0
    BY <2>3 DEF StrangerInv
  <2>5. Spread(basis, current)[n] = 0
    BY <2>2, <2>3, <2>4, SpreadShuns
  <2>6. EigenStep(basis, current)[n] = 0
    BY <2>2, <2>5, EigenStepTyped
  <2>7. QED
    BY <2>1, <2>6 DEF Step
<1>5. QED
  BY <1>2, <1>3, <1>4, LedgerChange

\* Whatever the evidence, a group without an anchor to which nobody outside has
\* positive evidence has no trust, however much its members praise one another
\* (solvers.py 110-136, 141, 146).
THEOREM StrangersEarnNothingHolds == Spec => []StrangersEarnNothing
<1>1. StrangerInv => StrangersEarnNothing
  <2> SUFFICES ASSUME StrangerInv, solver = "eigentrust",
                      NEW group \in SUBSET {n \in Node : Pretrust(basis)[n] = 0},
                      \A s \in Node \ group, t \in group : NetScore(basis, s, t) = 0,
                      NEW n \in group
               PROVE  Ranking[n] = 0
    BY DEF StrangersEarnNothing
  <2>1. group \in SUBSET Node /\ Shunned(basis, group)
    BY DEF Shunned
  <2>2. current[n] = 0
    BY <2>1 DEF StrangerInv
  <2>3. QED
    BY <2>2 DEF StrangerInv, LedgerInv, Ranking
<1>2. QED
  BY <1>1, StrangerInit, StrangerStep, PTL DEF Spec

-----------------------------------------------------------------------------
(* Newcomers *)

Endorsing(b) == \E pair \in Pair : b.endorsed[pair] > 0
Unbacked(b, n) ==
  /\ \A m \in Node \ {n} : Endorsed(b, m, n) = 0 /\ Endorsed(b, n, m) = 0
  /\ Against(b.delivered, n) = 0

\* An even share can be divided among all nodes.
LEMMA ShareLargeEnough ==
  /\ Cardinality(Node) \in Nat \ {0}
  /\ Scale \div Cardinality(Node) \in Nat
  /\ Scale \div Cardinality(Node) >= Cardinality(Node)
<1> DEFINE card == Cardinality(Node)
           q == Scale \div card
<1>1. card \in Nat /\ card # 0 /\ Scale \in Nat
  BY EvenShareTyped, ScaleTyped
<1>2. card * card <= Scale
  BY ResolutionAssumption
<1> HIDE DEF card
<1>3. q \in Nat /\ Scale < card * q + card
  BY <1>1, Division
<1> HIDE DEF q
<1>4. ~(q < card)
  <2> SUFFICES ASSUME q < card PROVE FALSE
    OBVIOUS
  <2>1. card * (q + 1) <= card * card
    <3>1. q + 1 <= card /\ q + 1 \in Nat
      BY <1>1, <1>3
    <3>2. \A x, y, z \in Nat : x <= y => z * x <= z * y
      OBVIOUS
    <3>3. QED
      BY <1>1, <3>1, <3>2
  <2>2. card * (q + 1) = card * q + card
    BY <1>1, <1>3
  <2>3. card * q \in Nat /\ card * card \in Nat
    BY <1>1, <1>3, TimesTyped
  <2>4. QED
    BY <1>1, <1>2, <1>3, <2>1, <2>2, <2>3
<1>5. QED
  BY <1>1, <1>3, <1>4 DEF q, card

\* Somebody who endorses gives somebody something at the cold start.
LEMMA EndorsersBack ==
  ASSUME NEW b \in Evidence, NEW s \in Node, EndorsedTotal(b, s) # 0
  PROVE  \E m \in Node : Part(Endorsed(b, s, m), EndorsedTotal(b, s), EvenShare[s]) # 0
<1> DEFINE w == EndorsedTotal(b, s)
           x == EvenShare[s]
           weight == [m \in Node |-> Endorsed(b, s, m)]
           due == [m \in Node |-> x * weight[m]]
           one == [m \in Node |-> 1]
           unit == [m \in Node |-> w - 1]
           card == Cardinality(Node)
<1>1. w \in Nat /\ w # 0 /\ \A m \in Node : weight[m] \in Nat /\ weight[m] = Endorsed(b, s, m)
  BY EndorsedTyped
<1>2. x \in Nat /\ card \in Nat /\ card # 0 /\ x >= card
  BY ShareLargeEnough, EvenShareTyped
<1>3. w = Total(weight)
  BY DEF EndorsedTotal
<1> SUFFICES ASSUME \A m \in Node : Part(weight[m], w, x) = 0
             PROVE  FALSE
  OBVIOUS
<1> HIDE DEF w, x, weight, card
<1>4. ASSUME NEW m \in Node
      PROVE  due[m] \in Nat /\ due[m] <= w - 1
  <2>1. w * 0 = 0 /\ weight[m] \in Nat /\ Part(weight[m], w, x) = 0
    BY <1>1
  <2>2. x * weight[m] < w * Part(weight[m], w, x) + w
    BY <1>1, <1>2, PartTyped
  <2>3. x * weight[m] \in Nat
    BY <1>1, <1>2, TimesTyped
  <2>4. QED
    BY <1>1, <2>1, <2>2, <2>3
<1>5. \A m \in Node : due[m] = x * weight[m] /\ unit[m] = (w - 1) * one[m] /\ unit[m] = w - 1
                      /\ one[m] = 1
  BY <1>1
<1> HIDE DEF due, unit, one
<1>6. Total(due) = x * w
  <2>1. \A m \in Node : due[m] \in Int /\ weight[m] \in Int /\ due[m] = x * weight[m]
    BY <1>1, <1>4, <1>5
  <2>2. QED
    BY <1>2, <1>3, <2>1, TotalScale
<1>7. Total(unit) = (w - 1) * card
  <2>1. \A m \in Node : unit[m] \in Int /\ one[m] \in Int /\ unit[m] = (w - 1) * one[m]
    BY <1>1, <1>5
  <2>2. w - 1 \in Int
    BY <1>1
  <2>3. Total(unit) = (w - 1) * Total(one)
    BY <2>1, <2>2, TotalScale
  <2>4. Total(one) = card
    BY <1>5, NodeFinite, SumOnes DEF Total, card
  <2>5. QED
    BY <2>3, <2>4
<1>8. Total(due) <= Total(unit)
  <2>1. \A m \in Node : due[m] \in Int /\ unit[m] \in Int /\ due[m] <= unit[m]
    BY <1>1, <1>4, <1>5
  <2>2. QED
    BY <2>1, NodeFinite, SumAtMost DEF Total
<1>9. card * w <= x * w
  <2>1. \A i, j, k \in Nat : i <= j => i * k <= j * k
    OBVIOUS
  <2>2. QED
    BY <1>1, <1>2, <2>1
<1>10. (w - 1) * card = card * w - card /\ card * w \in Nat /\ x * w \in Nat
  BY <1>1, <1>2
<1>11. QED
  BY <1>2, <1>6, <1>7, <1>8, <1>9, <1>10

\* Once there are endorsements, the cold start gives nothing to those without any.
LEMMA ColdStartUnbacked ==
  ASSUME NEW b \in Evidence, Endorsing(b), NEW n \in Node, Unbacked(b, n)
  PROVE  ColdStart(b)[n] = 0
<1> DEFINE v == [m \in Node |-> Backing(b, m)]
<1>1. PICK pair \in Pair : b.endorsed[pair] > 0
  BY DEF Endorsing
<1>2. PICK s \in Node, t \in Node : pair = <<s, t>> /\ s # t
  BY DEF Pair
<1>3. EndorsedTotal(b, s) # 0
  <2> DEFINE f == [m \in Node |-> Endorsed(b, s, m)]
  <2>1. \A m \in Node : f[m] \in Nat
    BY EndorsedTyped
  <2>2. f[t] # 0
    BY <1>1, <1>2 DEF Endorsed
  <2>3. EndorsedTotal(b, s) = Total(f)
    BY DEF EndorsedTotal
  <2> HIDE DEF f
  <2>4. QED
    BY <2>1, <2>2, <2>3, TotalZero
<1>4. PICK m \in Node : Part(Endorsed(b, s, m), EndorsedTotal(b, s), EvenShare[s]) # 0
  BY <1>3, EndorsersBack
<1>5. Backing(b, m) # 0
  <2> DEFINE f == [r \in Node |-> Part(Endorsed(b, r, m), EndorsedTotal(b, r), EvenShare[r])]
  <2>1. \A r \in Node : EvenShare[r] \in Nat
    BY EvenShareTyped
  <2>2. \A r \in Node : f[r] \in Nat
    BY <2>1, EndorsedTyped, PartTyped
  <2>3. f[s] # 0 /\ Backing(b, m) = Total(f)
    BY <1>4 DEF Backing
  <2> HIDE DEF f
  <2>4. QED
    BY <2>2, <2>3, TotalZero
<1>6. \A r \in Node : v[r] \in Nat
  BY BackingTyped
<1>7. v[n] = 0
  <2>1. \A r \in Node : Endorsed(b, r, n) = 0
    BY DEF Unbacked, Endorsed
  <2>2. QED
    BY <2>1, BackingTyped
<1>8. ColdStart(b) = Project(v, EvenShare) /\ v[m] # 0
  BY <1>5, ColdStartIs
<1> HIDE DEF v
<1>9. (\A r \in Node : v[r] \in Int) /\ (\E r \in Node : v[r] > 0) /\ v[n] <= 0
  BY <1>6, <1>7, <1>8
<1>10. Project(v, EvenShare)[n] = 0
  BY <1>9, ProjectPositive
<1>11. QED
  BY <1>8, <1>10

\* So does the seed.
LEMMA SeedUnbacked ==
  ASSUME NEW b \in Evidence, Endorsing(b), NEW n \in Node, Unbacked(b, n),
         NEW penalty \in Vector
  PROVE  Seed(b, penalty, Backward(b, Signal(b.delivered)))[n] = 0
<1> DEFINE signal == Signal(b.delivered)
           reward == Backward(b, signal)
<1>1. b.delivered \in [Link -> Nat]
  BY DEF Evidence
<1>2. signal \in Vector
  BY <1>1, SignalTyped
<1> HIDE DEF signal
<1>3. \A m \in Node : Endorsed(b, n, m) = 0
  BY DEF Unbacked, Endorsed
<1>4. reward \in Vector /\ reward[n] = 0
  BY <1>2, <1>3, BackwardTyped
<1> HIDE DEF reward
<1>5. ColdStart(b)[n] = 0 /\ Against(b.delivered, n) = 0
  BY ColdStartUnbacked DEF Unbacked
<1>6. Seed(b, penalty, reward)[n] = 0
  BY <1>4, <1>5, SeedTyped
<1>7. QED
  BY <1>6 DEF reward, signal

\* And an iteration changes neither.
LEMMA RepuStepUnbacked ==
  ASSUME NEW b \in Evidence, NEW n \in Node, Unbacked(b, n),
         NEW start \in Vector, NEW v \in Vector, start[n] = 0, v[n] = 0
  PROVE  RepuStep(b, start, v)[n] = 0
<1>1. \A s \in Node : NetScore(b, s, n) = 0
  <2> DEFINE f == [s \in Node |-> IF <<s, n>> \in Link THEN b.delivered[<<s, n>>] ELSE 0]
  <2>1. \A e \in Link : b.delivered[e] \in Nat /\ b.drops[e] \in Nat
    BY DEF Evidence
  <2>2. \A s \in Node : f[s] \in Nat
    BY <2>1
  <2>3. Total(f) = 0
    BY DEF Unbacked, Against
  <2> HIDE DEF f
  <2>4. \A s \in Node : f[s] = 0
    BY <2>2, <2>3, TotalZero
  <2>5. \A s \in Node : <<s, n>> \in Link => b.delivered[<<s, n>>] = 0
    BY <2>4 DEF f
  <2>6. QED
    BY <2>1, <2>5 DEF NetScore
<1>2. \A s \in Node : Endorsed(b, s, n) = 0
  BY DEF Unbacked, Endorsed
<1>3. Layers(b, v)[n] = 0
  BY <1>1, <1>2, LayersTyped
<1>4. QED
  BY <1>3, RepuStepTyped

\* Who is unbacked has nothing in any vector that is computed.
NewcomerInv ==
  /\ LedgerInv
  /\ solver = "repulink" /\ Endorsing(basis) =>
       \A n \in Node : Unbacked(basis, n) => seed[n] = 0 /\ current[n] = 0

LEMMA NewcomerInit == Init => NewcomerInv
<1> SUFFICES ASSUME Init PROVE NewcomerInv
  OBVIOUS
<1>1. LedgerInv
  BY LedgerInit
<1>2. basis \in Evidence
  BY <1>1 DEF LedgerInv, LedgerTypes
<1>3. solver = "repulink" => seed = ColdStart(basis) /\ current = ColdStart(basis)
  BY DEF Init, Initial
<1>4. QED
  BY <1>1, <1>2, <1>3, ColdStartUnbacked DEF NewcomerInv

LEMMA NewcomerStep == NewcomerInv /\ [Next]_vars => NewcomerInv'
<1> SUFFICES ASSUME NewcomerInv, [Next]_vars PROVE NewcomerInv'
  OBVIOUS
<1>1. LedgerInv /\ LedgerInv' /\ solver' = solver
  BY LedgerStep, LedgerChange DEF NewcomerInv
<1> SUFFICES ASSUME solver = "repulink", Endorsing(basis'), NEW n \in Node, Unbacked(basis', n)
             PROVE  seed'[n] = 0 /\ current'[n] = 0
  BY <1>1 DEF NewcomerInv, Endorsing, Unbacked
<1>2. CASE UNCHANGED ledgerVars
  <2>1. basis' = basis /\ current' = current /\ seed' = seed
    BY <1>2 DEF ledgerVars
  <2>2. Endorsing(basis) /\ Unbacked(basis, n)
    BY <2>1
  <2>3. QED
    BY <2>1, <2>2 DEF NewcomerInv
<1>3. CASE RecomputeFrom(evidence')
  <2>1. /\ basis' = evidence' /\ seed' = StartFrom(evidence', account') /\ current' = seed'
        /\ account' = Account(evidence')
    BY <1>3 DEF RecomputeFrom
  <2>2. /\ account'.reward = Backward(basis', Signal(basis'.delivered))
        /\ StartFrom(evidence', account') = Seed(basis', account'.penalty, account'.reward)
    BY <2>1 DEF Account, StartFrom
  <2>3. account'.penalty \in Vector /\ basis' \in Evidence
    BY <1>1 DEF LedgerInv, LedgerTypes
  <2>4. Seed(basis', account'.penalty, Backward(basis', Signal(basis'.delivered)))[n] = 0
    BY <2>3, SeedUnbacked
  <2>5. QED
    BY <2>1, <2>2, <2>4
<1>4. CASE Iterate
  <2>1. basis' = basis /\ seed' = seed /\ current' = RepuStep(basis, seed, current)
    BY <1>4 DEF Iterate, Step
  <2>2. basis \in Evidence /\ current \in Vector /\ seed \in Vector
    BY <1>1 DEF LedgerInv, LedgerTypes
  <2>3. Endorsing(basis) /\ Unbacked(basis, n)
    BY <2>1
  <2>4. seed[n] = 0 /\ current[n] = 0
    BY <2>3 DEF NewcomerInv
  <2>5. RepuStep(basis, seed, current)[n] = 0
    BY <2>2, <2>3, <2>4, RepuStepUnbacked
  <2>6. QED
    BY <2>1, <2>4, <2>5
<1>5. QED
  BY <1>2, <1>3, <1>4, LedgerChange

\* Once there are endorsements, whoever nobody endorses, endorses nobody and never
\* delivered has no reputation: being new is worth nothing, and what others lose does
\* not go to it (repulink.py 245-252, 328-337, 343-347).
THEOREM UnbackedEarnNothingHolds == Spec => []UnbackedEarnNothing
<1>1. NewcomerInv => UnbackedEarnNothing
  <2> SUFFICES ASSUME NewcomerInv, solver = "repulink",
                      \E pair \in Pair : basis.endorsed[pair] > 0, NEW n \in Node,
                      \A m \in Node \ {n} : Endorsed(basis, m, n) = 0 /\ Endorsed(basis, n, m) = 0,
                      Against(basis.delivered, n) = 0
               PROVE  Ranking[n] = 0
    BY DEF UnbackedEarnNothing
  <2>1. Endorsing(basis) /\ Unbacked(basis, n)
    BY DEF Endorsing, Unbacked
  <2>2. current[n] = 0
    BY <2>1 DEF NewcomerInv
  <2>3. QED
    BY <2>2 DEF NewcomerInv, LedgerInv, Ranking
<1>2. QED
  BY <1>1, NewcomerInit, NewcomerStep, PTL DEF Spec

-----------------------------------------------------------------------------
(* Blame *)

\* A vector has a largest entry.
LEMMA WorstExists ==
  ASSUME NEW v \in Vector
  PROVE  \E m \in Node : \A n \in Node : v[n] <= v[m]
<1> DEFINE U == {x \in Nat : \A n \in Node : v[n] <= x}
<1>1. \A n \in Node : v[n] \in Nat
  BY DEF Vector
<1>2. Total(v) \in U
  <2>1. Total(v) \in Nat
    BY <1>1, TotalTyped
  <2>2. ASSUME NEW n \in Node
        PROVE  v[n] <= Total(v)
    <3>1. \A x \in Node : v[x] \in Int
      BY <1>1
    <3>2. Total(v) = v[n] + SumFunctionOnSet(v, Node \ {n})
      BY <3>1, NodeFinite, SumRemove DEF Total
    <3>3. IsFiniteSet(Node \ {n}) /\ \A x \in Node \ {n} : v[x] \in Nat
      BY <1>1, NodeFinite, FS_Subset
    <3>4. SumFunctionOnSet(v, Node \ {n}) \in Nat
      BY <3>3, SumType
    <3>5. QED
      BY <1>1, <3>2, <3>4
  <2>3. QED
    BY <2>1, <2>2
<1>3. PICK x \in U : \A y \in U : x <= y
  <2>1. U \in SUBSET Nat /\ U # {}
    BY <1>2
  <2> HIDE DEF U
  <2>2. QED
    BY <2>1, LeastNatural
<1>4. PICK n \in Node : TRUE
  BY LedgerAssumption
<1> SUFFICES ASSUME \A m \in Node : v[m] # x PROVE FALSE
  BY <1>3
<1>5. \A m \in Node : v[m] <= x - 1
  BY <1>1, <1>3
<1>6. x - 1 \in U
  BY <1>1, <1>3, <1>4, <1>5
<1>7. QED
  BY <1>3, <1>6

\* Halves of halves add up to no more than what was halved.
LEMMA HalvesAddUp ==
  ASSUME NEW h, NEW worst \in Nat,
         Iterates(h, Nat, [x \in Nat |-> x \div 2], worst), NEW k \in Nat
  PROVE  SumFunctionOnSet(h, 1..k) \in Nat /\ SumFunctionOnSet(h, 1..k) + h[k] <= worst
<1> DEFINE Sum(i) == SumFunctionOnSet(h, 1..i)
           W == {i \in Nat : ~(Sum(i) + h[i] <= worst)}
<1>1. \A i \in Nat : h[i] \in Nat /\ h[i + 1] = h[i] \div 2 /\ h[0] = worst
  BY DEF Iterates
<1>2. ASSUME NEW i \in Nat
      PROVE  IsFiniteSet(1..i) /\ Sum(i) \in Nat
  <2>1. IsFiniteSet(1..i)
    BY FS_Interval
  <2>2. \A j \in 1..i : j \in Nat
    OBVIOUS
  <2>3. \A j \in 1..i : h[j] \in Nat
    BY <1>1, <2>2
  <2>4. QED
    BY <2>1, <2>3, SumType
<1>3. Sum(0) = 0
  <2>1. 1..0 = {}
    OBVIOUS
  <2>2. QED
    BY <2>1, SumEmpty
<1>4. ASSUME NEW i \in Nat
      PROVE  Sum(i + 1) = h[i + 1] + Sum(i)
  <2> DEFINE T == 1..(i + 1)
  <2>1. i + 1 \in Nat /\ i + 1 \in T /\ (\A j \in T : j \in Nat)
    OBVIOUS
  <2>2. T \ {i + 1} = 1..i
    OBVIOUS
  <2>3. IsFiniteSet(T)
    BY <1>2, <2>1
  <2> HIDE DEF T
  <2>4. \A j \in T : h[j] \in Int
    BY <1>1, <2>1
  <2>5. SumFunctionOnSet(h, T) = h[i + 1] + SumFunctionOnSet(h, T \ {i + 1})
    BY <2>1, <2>3, <2>4, SumRemove
  <2>6. QED
    BY <2>2, <2>5 DEF T
<1> HIDE DEF Sum
<1>5. W = {}
  <2> SUFFICES ASSUME W # {} PROVE FALSE
    OBVIOUS
  <2>1. W \in SUBSET Nat
    OBVIOUS
  <2> HIDE DEF W
  <2>2. PICK i \in W : \A j \in W : i <= j
    BY <2>1, LeastNatural
  <2> USE DEF W
  <2>3. i # 0
    BY <1>1, <1>3, <2>2
  <2>4. i - 1 \in Nat /\ (i - 1) + 1 = i
    BY <2>2, <2>3
  <2>5. Sum(i - 1) + h[i - 1] <= worst
    BY <2>2, <2>4
  <2>6. Sum(i) = h[i] + Sum(i - 1) /\ h[i] = h[i - 1] \div 2
    BY <1>1, <1>4, <2>4
  <2>7. Sum(i - 1) \in Nat /\ h[i - 1] \in Nat
    BY <1>1, <1>2, <2>4
  <2>8. 2 * (h[i - 1] \div 2) <= h[i - 1] /\ h[i - 1] \div 2 \in Nat
    BY <2>7
  <2>9. Sum(i) + h[i] <= worst
    BY <2>5, <2>6, <2>7, <2>8
  <2>10. QED
    BY <2>2, <2>9
<1>6. Sum(k) + h[k] <= worst
  BY <1>5
<1>7. QED
  BY <1>2, <1>6 DEF Sum

\* What is passed back never exceeds the worst signal it comes from.
LEMMA BackwardBounded ==
  ASSUME NEW b \in Evidence, NEW signal \in Vector, NEW worst \in Nat,
         \A m \in Node : signal[m] <= worst, NEW n \in Node
  PROVE  Backward(b, signal)[n] <= worst
<1>1. PICK frontier : /\ Iterates(frontier, Vector, HopBack(b), signal)
                      /\ Backward(b, signal) = [r \in Node |-> SumFunction(PassedBack(frontier, r))]
  BY BackwardIs
<1> DEFINE half == [x \in Nat |-> x \div 2]
<1>2. PICK h : Iterates(h, Nat, half, worst)
  <2>1. half \in [Nat -> Nat]
    OBVIOUS
  <2> HIDE DEF half
  <2>2. QED
    BY <2>1, IteratesExist
<1>3. \A k \in Nat : h[k] \in Nat /\ h[k + 1] = h[k] \div 2 /\ h[0] = worst
  BY <1>2 DEF Iterates
<1> DEFINE W == {k \in Nat : ~\A m \in Node : frontier[k][m] <= h[k]}
<1>4. W = {}
  <2> SUFFICES ASSUME W # {} PROVE FALSE
    OBVIOUS
  <2>1. W \in SUBSET Nat
    OBVIOUS
  <2> HIDE DEF W
  <2>2. PICK k \in W : \A j \in W : k <= j
    BY <2>1, LeastNatural
  <2> USE DEF W
  <2>3. k # 0
    <3>1. frontier[0] = signal
      BY <1>1 DEF Iterates
    <3>2. QED
      BY <1>3, <2>2, <3>1
  <2>4. k - 1 \in Nat /\ (k - 1) + 1 = k
    BY <2>2, <2>3
  <2>5. \A m \in Node : frontier[k - 1][m] <= h[k - 1]
    BY <2>2, <2>4
  <2>6. /\ frontier[k - 1] \in Vector
        /\ \A m \in Node : frontier[k][m] = Back(b, frontier[k - 1], m)
    BY <1>1, <2>4, FrontierTyped
  <2>7. h[k - 1] \in Nat /\ h[k] = h[k - 1] \div 2
    BY <1>3, <2>4
  <2>8. \A m \in Node : frontier[k][m] <= h[k]
    <3> SUFFICES ASSUME NEW m \in Node PROVE Back(b, frontier[k - 1], m) <= h[k - 1] \div 2
      BY <2>6, <2>7
    <3>1. Back(b, frontier[k - 1], m) \in Nat /\ 2 * Back(b, frontier[k - 1], m) <= h[k - 1]
      BY <2>5, <2>6, <2>7, BackTyped
    <3>2. \A x, y \in Nat : 2 * x <= y => x <= y \div 2
      OBVIOUS
    <3>3. QED
      BY <2>7, <3>1, <3>2
  <2>9. QED
    BY <2>2, <2>8
<1> DEFINE hops == 1..MaxBackwardHops
           p == PassedBack(frontier, n)
<1>5. /\ SumFunction(p) = SumFunctionOnSet(p, hops) /\ SumFunction(p) \in Nat
      /\ \A hop \in hops : p[hop] \in Nat /\ p[hop] = frontier[hop][n]
  BY <1>1, PassedBackTyped
<1>6. MaxBackwardHops \in Nat /\ IsFiniteSet(hops)
  BY LedgerAssumption, FS_Interval
<1> HIDE DEF p
<1>7. \A hop \in hops : p[hop] \in Int /\ h[hop] \in Int /\ p[hop] <= h[hop]
  <2> SUFFICES ASSUME NEW hop \in hops
               PROVE  p[hop] \in Int /\ h[hop] \in Int /\ p[hop] <= h[hop]
    OBVIOUS
  <2>1. hop \in Nat
    BY <1>6
  <2>2. frontier[hop][n] <= h[hop] /\ h[hop] \in Nat
    BY <1>3, <1>4, <2>1
  <2>3. QED
    BY <1>5, <2>2
<1> HIDE DEF hops
<1>8. SumFunctionOnSet(p, hops) <= SumFunctionOnSet(h, hops)
  BY <1>6, <1>7, SumAtMost
<1>9. /\ SumFunctionOnSet(h, hops) \in Nat
      /\ SumFunctionOnSet(h, hops) + h[MaxBackwardHops] <= worst
  BY <1>2, <1>6, HalvesAddUp DEF hops
<1>10. SumFunction(p) <= worst
  BY <1>3, <1>5, <1>6, <1>8, <1>9
<1>11. QED
  BY <1>1, <1>10 DEF p

\* One endorsement further back.
BehindOf(b) == [S \in SUBSET Node |-> {n \in Node : \E m \in S : Endorsed(b, n, m) > 0}]

LEMMA VouchersIs ==
  ASSUME NEW b, NEW targets \in SUBSET Node
  PROVE  \E behind : /\ Iterates(behind, SUBSET Node, BehindOf(b), targets)
                     /\ Vouchers(b, targets) = UNION {behind[k] : k \in 1..MaxBackwardHops}
<1> DEFINE next(S) == {n \in Node : \E m \in S : Endorsed(b, n, m) > 0}
           Eq(g) == g = [k \in Nat |-> IF k = 0 THEN targets ELSE next(g[k - 1])]
           g == CHOOSE f : Eq(f)
<1>1. Vouchers(b, targets) = UNION {g[k] : k \in 1..MaxBackwardHops}
  BY DEF Vouchers
<1>2. BehindOf(b) \in [SUBSET Node -> SUBSET Node]
      /\ \A S \in SUBSET Node : BehindOf(b)[S] = next(S)
  BY DEF BehindOf
<1>3. PICK h : Iterates(h, SUBSET Node, BehindOf(b), targets)
  BY <1>2, IteratesExist
<1> HIDE DEF next
<1>4. \A k \in Nat : h[k] = IF k = 0 THEN targets ELSE next(h[k - 1])
  <2> SUFFICES ASSUME NEW k \in Nat, k # 0
               PROVE  h[k] = next(h[k - 1])
    BY <1>3 DEF Iterates
  <2>1. k - 1 \in Nat /\ (k - 1) + 1 = k
    OBVIOUS
  <2>2. QED
    BY <1>2, <1>3, <2>1 DEF Iterates
<1>5. h = [k \in Nat |-> h[k]]
  BY <1>3 DEF Iterates
<1>6. Eq(h)
  BY <1>4, <1>5
<1> HIDE DEF Eq
<1>7. Eq(g)
  BY <1>6
<1> USE DEF Eq
<1> HIDE DEF g
<1>8. g = [k \in Nat |-> g[k]] /\ g[0] = targets
  BY <1>7
<1>9. ASSUME NEW k \in Nat, g[k] \in SUBSET Node
      PROVE  g[k + 1] = BehindOf(b)[g[k]]
  <2>1. k + 1 \in Nat /\ k + 1 # 0 /\ (k + 1) - 1 = k
    OBVIOUS
  <2>2. g[k + 1] = next(g[k])
    BY <1>7, <2>1
  <2>3. QED
    BY <1>2, <1>9, <2>2
<1> HIDE DEF Eq
<1>10. Iterates(g, SUBSET Node, BehindOf(b), targets)
  BY <1>2, <1>8, <1>9, RecursionIterates
<1>11. QED
  BY <1>1, <1>10

\* Only vouchers are passed anything back.
LEMMA BackwardVouched ==
  ASSUME NEW b \in Evidence, NEW signal \in Vector, NEW targets \in SUBSET Node,
         \A m \in Node : signal[m] # 0 => m \in targets,
         NEW n \in Node, Backward(b, signal)[n] # 0
  PROVE  n \in Vouchers(b, targets)
<1>1. PICK frontier : /\ Iterates(frontier, Vector, HopBack(b), signal)
                      /\ Backward(b, signal) = [r \in Node |-> SumFunction(PassedBack(frontier, r))]
  BY BackwardIs
<1>2. PICK behind : /\ Iterates(behind, SUBSET Node, BehindOf(b), targets)
                    /\ Vouchers(b, targets) = UNION {behind[k] : k \in 1..MaxBackwardHops}
  BY VouchersIs
<1> DEFINE W == {k \in Nat : ~\A m \in Node : frontier[k][m] # 0 => m \in behind[k]}
<1>3. W = {}
  <2> SUFFICES ASSUME W # {} PROVE FALSE
    OBVIOUS
  <2>1. W \in SUBSET Nat
    OBVIOUS
  <2> HIDE DEF W
  <2>2. PICK k \in W : \A j \in W : k <= j
    BY <2>1, LeastNatural
  <2> USE DEF W
  <2>3. k # 0
    <3>1. frontier[0] = signal /\ behind[0] = targets
      BY <1>1, <1>2 DEF Iterates
    <3>2. QED
      BY <2>2, <3>1
  <2>4. k - 1 \in Nat /\ (k - 1) + 1 = k
    BY <2>2, <2>3
  <2>5. \A m \in Node : frontier[k - 1][m] # 0 => m \in behind[k - 1]
    BY <2>2, <2>4
  <2>6. /\ frontier[k - 1] \in Vector
        /\ \A m \in Node : frontier[k][m] = Back(b, frontier[k - 1], m)
    BY <1>1, <2>4, FrontierTyped
  <2>7. behind[k - 1] \in SUBSET Node /\ behind[k] = BehindOf(b)[behind[k - 1]]
    BY <1>2, <2>4 DEF Iterates
  <2>8. \A m \in Node : frontier[k][m] # 0 => m \in behind[k]
    <3> SUFFICES ASSUME NEW m \in Node, Back(b, frontier[k - 1], m) # 0 PROVE m \in behind[k]
      BY <2>6
    <3>1. PICK r \in Node : Endorsed(b, m, r) > 0 /\ frontier[k - 1][r] # 0
      BY <2>6, BackTyped
    <3>2. r \in behind[k - 1]
      BY <2>5, <3>1
    <3>3. QED
      BY <2>7, <3>1, <3>2 DEF BehindOf
  <2>9. QED
    BY <2>2, <2>8
<1> DEFINE hops == 1..MaxBackwardHops
           p == PassedBack(frontier, n)
<1>4. /\ SumFunction(p) = SumFunctionOnSet(p, hops)
      /\ \A hop \in hops : p[hop] \in Nat /\ p[hop] = frontier[hop][n]
  BY <1>1, PassedBackTyped
<1>5. IsFiniteSet(hops) /\ \A hop \in hops : hop \in Nat
  BY LedgerAssumption, FS_Interval
<1>6. SumFunction(p) # 0
  BY <1>1
<1> HIDE DEF p, hops
<1>7. \E hop \in hops : p[hop] # 0
  BY <1>4, <1>5, <1>6, SumZero
<1>8. PICK hop \in hops : n \in behind[hop]
  BY <1>3, <1>4, <1>5, <1>7
<1>9. QED
  BY <1>2, <1>8 DEF hops

\* The account of a computation under way is that of its basis.
BlameInv ==
  /\ LedgerInv
  /\ solver = "repulink" /\ recomputing =>
       account.penalty = Backward(basis, Signal(basis.drops))

LEMMA BlameInit == Init => BlameInv
BY LedgerInit DEF Init, BlameInv

LEMMA BlameStep == BlameInv /\ [Next]_vars => BlameInv'
<1> SUFFICES ASSUME BlameInv, [Next]_vars PROVE BlameInv'
  OBVIOUS
<1>1. LedgerInv' /\ solver' = solver
  BY LedgerStep, LedgerChange DEF BlameInv
<1> SUFFICES ASSUME solver = "repulink", recomputing'
             PROVE  account'.penalty = Backward(basis', Signal(basis'.drops))
  BY <1>1 DEF BlameInv
<1>2. CASE UNCHANGED ledgerVars
  <2>1. basis' = basis /\ account' = account /\ recomputing' = recomputing
    BY <1>2 DEF ledgerVars
  <2>2. QED
    BY <2>1 DEF BlameInv
<1>3. CASE RecomputeFrom(evidence')
  <2>1. basis' = evidence' /\ account' = Account(evidence')
    BY <1>3 DEF RecomputeFrom
  <2>2. QED
    BY <2>1 DEF Account
<1>4. CASE Iterate
  <2>1. basis' = basis /\ account' = account /\ recomputing
    BY <1>4 DEF Iterate
  <2>2. QED
    BY <2>1 DEF BlameInv
<1>5. QED
  BY <1>2, <1>3, <1>4, LedgerChange

LEMMA BlameWithin == BlameInv => BlameWithinVouchers
<1> SUFFICES ASSUME BlameInv, solver = "repulink", recomputing
             PROVE  /\ Blamed \subseteq Vouchers(basis, Dropping)
                    /\ \A n \in Node : \E m \in Node :
                         account.penalty[n] <= Signal(basis.drops)[m]
  BY DEF BlameWithinVouchers
<1> DEFINE signal == Signal(basis.drops)
<1>1. account.penalty = Backward(basis, signal)
  BY DEF BlameInv
<1>2. basis \in Evidence /\ basis.drops \in [Link -> Nat]
  BY DEF BlameInv, LedgerInv, LedgerTypes, Evidence
<1>3. signal \in Vector /\ \A m \in Node : signal[m] = 0 <=> Against(basis.drops, m) = 0
  BY <1>2, SignalTyped
<1>4. \A m \in Node : Against(basis.drops, m) \in Nat
  BY <1>2, AgainstTyped
<1>5. Dropping \in SUBSET Node /\ \A m \in Node : signal[m] # 0 => m \in Dropping
  BY <1>3, <1>4 DEF Dropping
<1>6. \A m \in Node : signal[m] \in Nat
  BY <1>3 DEF Vector
<1> HIDE DEF signal
<1>7. Blamed \subseteq Vouchers(basis, Dropping)
  <2> SUFFICES ASSUME NEW n \in Blamed PROVE n \in Vouchers(basis, Dropping)
    OBVIOUS
  <2>1. n \in Node /\ Backward(basis, signal)[n] # 0
    BY <1>1 DEF Blamed
  <2>2. QED
    BY <1>2, <1>3, <1>5, <2>1, BackwardVouched
<1>8. PICK m \in Node : \A n \in Node : signal[n] <= signal[m]
  BY <1>3, WorstExists
<1>9. \A n \in Node : Backward(basis, signal)[n] <= signal[m]
  BY <1>2, <1>3, <1>6, <1>8, BackwardBounded
<1>10. QED
  BY <1>1, <1>7, <1>8, <1>9 DEF signal

\* Whatever the endorsements, cycles included, a penalty reaches only those who vouched
\* for a node that dropped, and never exceeds the worst signal it comes from
\* (repulink.py 286-310).
THEOREM BlameWithinVouchersHolds == Spec => []BlameWithinVouchers
BY BlameWithin, BlameInit, BlameStep, PTL DEF Spec

-----------------------------------------------------------------------------
(* Blame follows every chain *)

\* Of more, no less is taken.
LEMMA PartMonotone ==
  ASSUME NEW weight \in Nat, NEW total \in Nat, NEW x \in Nat, NEW y \in Nat, y <= x
  PROVE  Part(weight, total, y) <= Part(weight, total, x)
<1> DEFINE p == Part(weight, total, x)
           q == Part(weight, total, y)
<1>1. p \in Nat /\ q \in Nat
  BY PartTyped
<1>2. CASE total = 0
  BY <1>2 DEF Part
<1>3. CASE total # 0
  <2>1. total * q <= y * weight /\ x * weight < total * p + total
    BY <1>3, PartTyped
  <2> HIDE DEF p, q
  <2> SUFFICES ASSUME p + 1 <= q PROVE FALSE
    BY <1>1 DEF p, q
  <2>2. \A u, v, w \in Nat : u <= v => u * w <= v * w
    OBVIOUS
  <2>3. y * weight <= x * weight /\ (p + 1) * total <= q * total
    BY <1>1, <2>2
  <2>4. (p + 1) * total = total * p + total /\ q * total = total * q
    BY <1>1
  <2> DEFINE a == total * q
             c == y * weight
             d == x * weight
             e == total * p + total
  <2>5. a \in Int /\ c \in Int /\ d \in Int /\ e \in Int
    BY <1>1
  <2>6. a <= c /\ c <= d /\ d < e /\ e <= a
    BY <2>1, <2>3, <2>4
  <2> HIDE DEF a, c, d, e
  <2>7. QED
    BY <2>5, <2>6
<1>4. QED
  BY <1>2, <1>3

\* A sum of naturals is at least each of them.
LEMMA SumAtLeast ==
  ASSUME NEW f, NEW T, IsFiniteSet(T), \A x \in T : f[x] \in Nat, NEW y \in T
  PROVE  f[y] <= SumFunctionOnSet(f, T)
<1>1. \A x \in T : f[x] \in Int
  OBVIOUS
<1>2. SumFunctionOnSet(f, T) = f[y] + SumFunctionOnSet(f, T \ {y})
  BY <1>1, SumRemove
<1>3. IsFiniteSet(T \ {y}) /\ \A x \in T \ {y} : f[x] \in Nat
  BY FS_Subset
<1>4. SumFunctionOnSet(f, T \ {y}) \in Nat
  BY <1>3, SumType
<1>5. QED
  BY <1>2, <1>4

\* Who endorses n takes at least what one chain brings.
LEMMA BackAtLeast ==
  ASSUME NEW b \in Evidence, NEW f \in Vector, NEW n \in Node, NEW m \in Node,
         NEW x \in Nat, x <= f[m]
  PROVE  /\ Part(Endorsed(b, n, m), 2 * EndorsedTotal(b, n), x) \in Nat
         /\ Part(Endorsed(b, n, m), 2 * EndorsedTotal(b, n), x) <= Back(b, f, n)
<1> DEFINE w == 2 * EndorsedTotal(b, n)
           given(r) == Endorsed(b, n, r)
           term == [r \in Node |-> Part(given(r), w, f[r])]
<1>1. w \in Nat /\ \A r \in Node : given(r) \in Nat /\ f[r] \in Nat
  BY EndorsedTyped DEF Vector
<1>2. Back(b, f, n) = Total(term)
  BY DEF Back
<1>3. \A r \in Node : term[r] = Part(given(r), w, f[r])
  OBVIOUS
<1> HIDE DEF w, given, term
<1>4. \A r \in Node : term[r] \in Nat
  <2> SUFFICES ASSUME NEW r \in Node PROVE term[r] \in Nat
    OBVIOUS
  <2> DEFINE share == given(r)
             most == f[r]
  <2>1. w \in Nat /\ share \in Nat /\ most \in Nat /\ term[r] = Part(share, w, most)
    BY <1>1, <1>3
  <2> HIDE DEF share, most
  <2>2. Part(share, w, most) \in Nat
    BY <2>1, PartTyped
  <2>3. QED
    BY <2>1, <2>2
<1>5. Part(given(m), w, x) \in Nat /\ Part(given(m), w, x) <= term[m]
  <2> DEFINE share == given(m)
             most == f[m]
  <2>1. share \in Nat /\ most \in Nat /\ x <= most /\ term[m] = Part(share, w, most)
    BY <1>1, <1>3
  <2> HIDE DEF share, most
  <2>2. Part(share, w, x) \in Nat /\ Part(share, w, x) <= Part(share, w, most)
    BY <1>1, <2>1, PartTyped, PartMonotone
  <2>3. QED
    BY <2>1, <2>2 DEF share
<1>6. term[m] \in Nat /\ term[m] <= SumFunctionOnSet(term, Node)
  BY <1>4, NodeFinite, SumAtLeast
<1>7. SumFunctionOnSet(term, Node) \in Nat
  BY <1>4, NodeFinite, SumType
<1>8. Part(given(m), w, x) <= Total(term)
  BY <1>5, <1>6, <1>7 DEF Total
<1>9. QED
  BY <1>2, <1>5, <1>8 DEF w, given

\* Chains, as pairs of an endorser and an amount, before and after one endorsement more.
Chain == Node \X Nat
AllLonger(b) == [C \in SUBSET Chain |-> Longer(b, C)]
Unlinked(signal) == {<<n, signal[n]>> : n \in Node}

LEMMA AllLongerTyped ==
  ASSUME NEW b \in Evidence
  PROVE  /\ AllLonger(b) \in [SUBSET Chain -> SUBSET Chain]
         /\ \A C \in SUBSET Chain : AllLonger(b)[C] = Longer(b, C)
<1>1. ASSUME NEW n \in Node, NEW c \in Chain
      PROVE  <<n, Part(Endorsed(b, n, c[1]), 2 * EndorsedTotal(b, n), c[2])>> \in Chain
  <2> DEFINE given == Endorsed(b, n, c[1])
             w == 2 * EndorsedTotal(b, n)
             x == c[2]
  <2>1. given \in Nat /\ w \in Nat /\ x \in Nat
    BY EndorsedTyped DEF Chain
  <2> HIDE DEF given, w, x
  <2>2. Part(given, w, x) \in Nat
    BY <2>1, PartTyped
  <2>3. <<n, Part(given, w, x)>> \in Chain
    BY <2>2 DEF Chain
  <2>4. QED
    BY <2>3 DEF given, w, x
<1>2. \A C \in SUBSET Chain : Longer(b, C) \in SUBSET Chain
  BY <1>1 DEF Longer
<1>3. QED
  BY <1>2 DEF AllLonger

LEMMA CarriedBackIs ==
  ASSUME NEW b \in Evidence, NEW signal \in Vector
  PROVE  \E carried : /\ Iterates(carried, SUBSET Chain, AllLonger(b), Unlinked(signal))
                      /\ CarriedBack(b, signal) = UNION {carried[k] : k \in 1..MaxBackwardHops}
<1> DEFINE next(C) == Longer(b, C)
           first == Unlinked(signal)
           Eq(g) == g = [k \in Nat |-> IF k = 0 THEN first ELSE next(g[k - 1])]
           g == CHOOSE f : Eq(f)
<1>1. CarriedBack(b, signal) = UNION {g[k] : k \in 1..MaxBackwardHops}
  BY DEF CarriedBack, Unlinked
<1>2. /\ AllLonger(b) \in [SUBSET Chain -> SUBSET Chain] /\ first \in SUBSET Chain
      /\ \A C \in SUBSET Chain : AllLonger(b)[C] = next(C)
  <2>1. \A n \in Node : signal[n] \in Nat
    BY DEF Vector
  <2>2. first \in SUBSET Chain
    BY <2>1 DEF Unlinked, Chain
  <2>3. QED
    BY <2>2, AllLongerTyped
<1> HIDE DEF first
<1>3. PICK h : Iterates(h, SUBSET Chain, AllLonger(b), first)
  BY <1>2, IteratesExist
<1> HIDE DEF next
<1>4. \A k \in Nat : h[k] = IF k = 0 THEN first ELSE next(h[k - 1])
  <2> SUFFICES ASSUME NEW k \in Nat, k # 0
               PROVE  h[k] = next(h[k - 1])
    BY <1>3 DEF Iterates
  <2>1. k - 1 \in Nat /\ (k - 1) + 1 = k
    OBVIOUS
  <2>2. QED
    BY <1>2, <1>3, <2>1 DEF Iterates
<1>5. h = [k \in Nat |-> h[k]]
  BY <1>3 DEF Iterates
<1>6. Eq(h)
  BY <1>4, <1>5
<1> HIDE DEF Eq
<1>7. Eq(g)
  BY <1>6
<1> USE DEF Eq
<1> HIDE DEF g
<1>8. g = [k \in Nat |-> g[k]] /\ g[0] = first
  BY <1>7
<1>9. ASSUME NEW k \in Nat, g[k] \in SUBSET Chain
      PROVE  g[k + 1] = AllLonger(b)[g[k]]
  <2>1. k + 1 \in Nat /\ k + 1 # 0 /\ (k + 1) - 1 = k
    OBVIOUS
  <2>2. g[k + 1] = next(g[k])
    BY <1>7, <2>1
  <2>3. QED
    BY <1>2, <1>9, <2>2
<1> HIDE DEF Eq
<1>10. Iterates(g, SUBSET Chain, AllLonger(b), first)
  BY <1>2, <1>8, <1>9, RecursionIterates
<1>11. QED
  BY <1>1, <1>10 DEF first

\* What one hop passes on to a node is part of what it is passed back in all.
LEMMA HopWithinBackward ==
  ASSUME NEW b \in Evidence, NEW signal \in Vector, NEW frontier,
         Iterates(frontier, Vector, HopBack(b), signal),
         Backward(b, signal) = [r \in Node |-> SumFunction(PassedBack(frontier, r))],
         NEW k \in 1..MaxBackwardHops, NEW n \in Node
  PROVE  frontier[k][n] <= Backward(b, signal)[n]
<1> DEFINE hops == 1..MaxBackwardHops
           p == PassedBack(frontier, n)
<1>1. /\ SumFunction(p) = SumFunctionOnSet(p, hops)
      /\ \A hop \in hops : p[hop] \in Nat /\ p[hop] = frontier[hop][n]
  BY PassedBackTyped
<1>2. IsFiniteSet(hops) /\ k \in hops
  BY LedgerAssumption, FS_Interval
<1>3. Backward(b, signal)[n] = SumFunction(p)
  OBVIOUS
<1> HIDE DEF p, hops
<1>4. p[k] <= SumFunctionOnSet(p, hops)
  <2>1. \A hop \in hops : p[hop] \in Nat
    BY <1>1
  <2>2. QED
    BY <1>2, <2>1, SumAtLeast
<1>5. QED
  BY <1>1, <1>2, <1>3, <1>4

\* No chain carries more to an endorser than what is passed back to it.
LEMMA ChainsPassedBack ==
  ASSUME NEW b \in Evidence, NEW signal \in Vector, NEW c \in CarriedBack(b, signal)
  PROVE  c[1] \in Node /\ c[2] \in Nat /\ c[2] <= Backward(b, signal)[c[1]]
<1>1. PICK frontier : /\ Iterates(frontier, Vector, HopBack(b), signal)
                      /\ Backward(b, signal) = [r \in Node |-> SumFunction(PassedBack(frontier, r))]
  BY BackwardIs
<1>2. PICK carried : /\ Iterates(carried, SUBSET Chain, AllLonger(b), Unlinked(signal))
                     /\ CarriedBack(b, signal) = UNION {carried[k] : k \in 1..MaxBackwardHops}
  BY CarriedBackIs
<1> DEFINE W == {k \in Nat : ~\A d \in carried[k] : d[2] <= frontier[k][d[1]]}
<1>3. W = {}
  <2> SUFFICES ASSUME W # {} PROVE FALSE
    OBVIOUS
  <2>1. W \in SUBSET Nat
    OBVIOUS
  <2> HIDE DEF W
  <2>2. PICK k \in W : \A j \in W : k <= j
    BY <2>1, LeastNatural
  <2> USE DEF W
  <2>3. k # 0
    <3>1. frontier[0] = signal /\ carried[0] = Unlinked(signal)
      BY <1>1, <1>2 DEF Iterates
    <3>2. \A d \in Unlinked(signal) : d[2] <= signal[d[1]]
      BY DEF Unlinked, Vector
    <3>3. QED
      BY <2>2, <3>1, <3>2
  <2>4. k - 1 \in Nat /\ (k - 1) + 1 = k
    BY <2>2, <2>3
  <2>5. \A d \in carried[k - 1] : d[2] <= frontier[k - 1][d[1]]
    BY <2>2, <2>4
  <2>6. /\ frontier[k - 1] \in Vector
        /\ \A m \in Node : frontier[k][m] = Back(b, frontier[k - 1], m)
    BY <1>1, <2>4, FrontierTyped
  <2>7. carried[k - 1] \in SUBSET Chain /\ carried[k] = AllLonger(b)[carried[k - 1]]
    BY <1>2, <2>4 DEF Iterates
  <2>8. \A d \in carried[k] : d[2] <= frontier[k][d[1]]
    <3> SUFFICES ASSUME NEW n \in Node, NEW d \in carried[k - 1]
                 PROVE  Part(Endorsed(b, n, d[1]), 2 * EndorsedTotal(b, n), d[2]) <= frontier[k][n]
      BY <2>7, AllLongerTyped DEF Longer
    <3>1. d[1] \in Node /\ d[2] \in Nat /\ d[2] <= frontier[k - 1][d[1]]
      BY <2>5, <2>7 DEF Chain
    <3>2. Part(Endorsed(b, n, d[1]), 2 * EndorsedTotal(b, n), d[2]) <= Back(b, frontier[k - 1], n)
      BY <2>6, <3>1, BackAtLeast
    <3>3. QED
      BY <2>6, <3>2
  <2>9. QED
    BY <2>2, <2>8
<1>4. PICK k \in 1..MaxBackwardHops : c \in carried[k]
  BY <1>2
<1>5. k \in Nat
  BY LedgerAssumption
<1>6. c[1] \in Node /\ c[2] \in Nat
  BY <1>2, <1>4, <1>5 DEF Iterates, Chain
<1>7. c[2] <= frontier[k][c[1]] /\ frontier[k][c[1]] \in Nat
  BY <1>1, <1>3, <1>4, <1>5, <1>6, FrontierTyped
<1>8. frontier[k][c[1]] <= Backward(b, signal)[c[1]] /\ Backward(b, signal)[c[1]] \in Nat
  BY <1>1, <1>4, <1>6, HopWithinBackward, BackwardTyped DEF Vector
<1>9. QED
  BY <1>6, <1>7, <1>8

\* For any endorsements, cycles included, and at any resolution, blame reaches only those
\* who vouched for a node that dropped and never exceeds the worst signal; and it reaches
\* each of them with at least what any chain of at most MaxBackwardHops endorsements
\* carries there (repulink.py 286-310).
THEOREM BlameFollowsEndorsementsHolds == Spec => []BlameFollowsEndorsements
<1>1. BlameInv => BlameFollowsEndorsements
  <2> SUFFICES ASSUME BlameInv, solver = "repulink", recomputing,
                      NEW c \in CarriedBack(basis, Signal(basis.drops))
               PROVE  account.penalty[c[1]] >= c[2]
    BY BlameWithin DEF BlameFollowsEndorsements
  <2> DEFINE signal == Signal(basis.drops)
  <2>1. account.penalty = Backward(basis, signal)
    BY DEF BlameInv
  <2>2. basis \in Evidence /\ basis.drops \in [Link -> Nat]
    BY DEF BlameInv, LedgerInv, LedgerTypes, Evidence
  <2>3. signal \in Vector
    BY <2>2, SignalTyped
  <2> HIDE DEF signal
  <2>4. Backward(basis, signal) \in Vector
    BY <2>2, <2>3, BackwardTyped
  <2>5. c[1] \in Node /\ c[2] \in Nat /\ c[2] <= Backward(basis, signal)[c[1]]
    BY <2>2, <2>3, ChainsPassedBack DEF signal
  <2>6. QED
    BY <2>1, <2>4, <2>5 DEF Vector
<1>2. QED
  BY <1>1, BlameInit, BlameStep, PTL DEF Spec

-----------------------------------------------------------------------------
(* Evidence decides *)

\* Where the solver s starts on the evidence b, one of its iterations, and k of them.
FirstBy(s, b) ==
  IF s = "eigentrust" THEN Pretrust(b)
  ELSE Seed(b, Backward(b, Signal(b.drops)), Backward(b, Signal(b.delivered)))
NextBy(s, b) ==
  [v \in Vector |-> IF s = "eigentrust" THEN EigenStep(b, v) ELSE RepuStep(b, FirstBy(s, b), v)]
RankingBy(s, b, k) ==
  LET ranking[i \in Nat] ==
        IF i = 0 THEN FirstBy(s, b)
        ELSE LET before == ranking[i - 1]
             IN IF s = "eigentrust" THEN EigenStep(b, before)
                ELSE RepuStep(b, FirstBy(s, b), before)
  IN ranking[k]

LEMMA FirstTyped ==
  ASSUME NEW s, NEW b \in Evidence
  PROVE  FirstBy(s, b) \in Vector /\ NextBy(s, b) \in [Vector -> Vector]
<1>1. FirstBy(s, b) \in Vector
  <2>1. b.drops \in [Link -> Nat] /\ b.delivered \in [Link -> Nat]
    BY DEF Evidence
  <2>2. Signal(b.drops) \in Vector /\ Signal(b.delivered) \in Vector
    BY <2>1, SignalTyped
  <2>3. Backward(b, Signal(b.drops)) \in Vector /\ Backward(b, Signal(b.delivered)) \in Vector
    BY <2>2, BackwardTyped
  <2>4. QED
    BY <2>3, SeedTyped, PretrustTyped DEF FirstBy
<1>2. \A v \in Vector : EigenStep(b, v) \in Vector /\ RepuStep(b, FirstBy(s, b), v) \in Vector
  BY <1>1, EigenStepTyped, RepuStepTyped
<1>3. QED
  BY <1>1, <1>2 DEF NextBy

LEMMA RankingIs ==
  ASSUME NEW s, NEW b \in Evidence
  PROVE  \E r : /\ Iterates(r, Vector, NextBy(s, b), FirstBy(s, b))
                /\ \A k \in Nat : RankingBy(s, b, k) = r[k]
<1> DEFINE next(v) == IF s = "eigentrust" THEN EigenStep(b, v) ELSE RepuStep(b, FirstBy(s, b), v)
           Eq(g) == g = [i \in Nat |-> IF i = 0 THEN FirstBy(s, b) ELSE next(g[i - 1])]
           g == CHOOSE f : Eq(f)
<1>1. \A k \in Nat : RankingBy(s, b, k) = g[k]
  BY DEF RankingBy
<1>2. /\ NextBy(s, b) \in [Vector -> Vector] /\ FirstBy(s, b) \in Vector
      /\ \A v \in Vector : NextBy(s, b)[v] = next(v)
  BY FirstTyped DEF NextBy
<1>3. PICK h : Iterates(h, Vector, NextBy(s, b), FirstBy(s, b))
  BY <1>2, IteratesExist
<1> HIDE DEF next
<1>4. \A i \in Nat : h[i] = IF i = 0 THEN FirstBy(s, b) ELSE next(h[i - 1])
  <2> SUFFICES ASSUME NEW i \in Nat, i # 0
               PROVE  h[i] = next(h[i - 1])
    BY <1>3 DEF Iterates
  <2>1. i - 1 \in Nat /\ (i - 1) + 1 = i
    OBVIOUS
  <2>2. QED
    BY <1>2, <1>3, <2>1 DEF Iterates
<1>5. h = [i \in Nat |-> h[i]]
  BY <1>3 DEF Iterates
<1>6. Eq(h)
  BY <1>4, <1>5
<1> HIDE DEF Eq
<1>7. Eq(g)
  BY <1>6
<1> USE DEF Eq
<1> HIDE DEF g
<1>8. g = [i \in Nat |-> g[i]] /\ g[0] = FirstBy(s, b)
  BY <1>7
<1>9. ASSUME NEW i \in Nat, g[i] \in Vector
      PROVE  g[i + 1] = NextBy(s, b)[g[i]]
  <2>1. i + 1 \in Nat /\ i + 1 # 0 /\ (i + 1) - 1 = i
    OBVIOUS
  <2>2. g[i + 1] = next(g[i])
    BY <1>7, <2>1
  <2>3. QED
    BY <1>2, <1>9, <2>2
<1> HIDE DEF Eq
<1>10. Iterates(g, Vector, NextBy(s, b), FirstBy(s, b))
  BY <1>2, <1>8, <1>9, RecursionIterates
<1>11. QED
  BY <1>1, <1>10

LEMMA RankingStep ==
  ASSUME NEW s, NEW b \in Evidence
  PROVE  /\ RankingBy(s, b, 0) = FirstBy(s, b)
         /\ \A k \in Nat : RankingBy(s, b, k + 1) = NextBy(s, b)[RankingBy(s, b, k)]
<1>1. PICK r : /\ Iterates(r, Vector, NextBy(s, b), FirstBy(s, b))
               /\ \A k \in Nat : RankingBy(s, b, k) = r[k]
  BY RankingIs
<1>2. r[0] = FirstBy(s, b) /\ \A k \in Nat : r[k + 1] = NextBy(s, b)[r[k]]
  BY <1>1 DEF Iterates
<1>3. \A k \in Nat : k + 1 \in Nat
  OBVIOUS
<1>4. QED
  BY <1>1, <1>2, <1>3

\* From a fixed point on, further iterations change nothing.
LEMMA RankingStops ==
  ASSUME NEW s, NEW b \in Evidence, NEW k \in Nat,
         RankingBy(s, b, k + 1) = RankingBy(s, b, k), NEW last \in Nat, k <= last
  PROVE  RankingBy(s, b, last) = RankingBy(s, b, k)
<1> DEFINE R(i) == RankingBy(s, b, i)
           N == NextBy(s, b)
           W == {j \in Nat : R(k + j) # R(k)}
<1>1. \A i \in Nat : R(i + 1) = N[R(i)]
  BY RankingStep
<1>2. R(k + 1) = R(k)
  OBVIOUS
<1> HIDE DEF R, N
<1>3. W = {}
  <2> SUFFICES ASSUME W # {} PROVE FALSE
    OBVIOUS
  <2>1. W \in SUBSET Nat
    OBVIOUS
  <2> HIDE DEF W
  <2>2. PICK j \in W : \A i \in W : j <= i
    BY <2>1, LeastNatural
  <2> USE DEF W
  <2>3. j \in Nat /\ R(k + j) # R(k)
    BY <2>2
  <2>4. j # 0
    <3>1. k + 0 = k
      OBVIOUS
    <3>2. QED
      BY <2>3, <3>1
  <2>5. j - 1 \in Nat /\ k + (j - 1) \in Nat /\ (k + (j - 1)) + 1 = k + j /\ j - 1 < j
    BY <2>3, <2>4
  <2>6. R(k + (j - 1)) = R(k)
    <3>1. j - 1 \notin W
      BY <2>2, <2>3, <2>5
    <3>2. QED
      BY <2>5, <3>1
  <2>7. R(k + j) = N[R(k)] /\ R(k + 1) = N[R(k)]
    BY <1>1, <2>5, <2>6
  <2>8. QED
    BY <1>2, <2>3, <2>7
<1>4. last - k \in Nat /\ k + (last - k) = last
  OBVIOUS
<1>5. QED
  BY <1>3, <1>4 DEF R

\* While a computation lasts, its vector is that many iterations over its evidence, and
\* RepuLink restarts from where the evidence alone makes it start.
DecidesInv ==
  /\ LedgerInv
  /\ recomputing => /\ seed = FirstBy(solver, basis)
                    /\ current = RankingBy(solver, basis, iteration)
  /\ ~recomputing /\ iteration > 0 => published = RankingBy(solver, basis, MaxIterations)

LEMMA DecidesInit == Init => DecidesInv
<1> SUFFICES ASSUME Init PROVE DecidesInv
  OBVIOUS
<1>1. LedgerInv
  BY LedgerInit
<1>2. recomputing = FALSE /\ iteration = 0
  BY DEF Init
<1>3. QED
  BY <1>1, <1>2 DEF DecidesInv

LEMMA DecidesStep == DecidesInv /\ [Next]_vars => DecidesInv'
<1> SUFFICES ASSUME DecidesInv, [Next]_vars PROVE DecidesInv'
  OBVIOUS
<1>1. LedgerInv' /\ solver' = solver /\ evidence' \in Evidence /\ LedgerInv
  BY LedgerStep, LedgerChange DEF DecidesInv, LedgerInv, BookInv, BookTypes
<1> DEFINE Under == seed' = FirstBy(solver, basis')
                    /\ current' = RankingBy(solver, basis', iteration')
           Done == published' = RankingBy(solver, basis', MaxIterations)
<1> SUFFICES /\ recomputing' => Under
             /\ ~recomputing' /\ iteration' > 0 => Done
  BY <1>1 DEF DecidesInv
<1>2. CASE UNCHANGED ledgerVars
  BY <1>2 DEF ledgerVars, DecidesInv
<1>3. CASE RecomputeFrom(evidence')
  <2>1. /\ recomputing' = TRUE /\ basis' = evidence' /\ account' = Account(evidence')
        /\ seed' = StartFrom(evidence', account') /\ current' = seed' /\ iteration' = 0
    BY <1>3 DEF RecomputeFrom
  <2>2. seed' = FirstBy(solver, evidence')
    BY <2>1 DEF FirstBy, StartFrom, Account
  <2>3. RankingBy(solver, evidence', 0) = FirstBy(solver, evidence')
    BY <1>1, RankingStep
  <2>4. QED
    BY <2>1, <2>2, <2>3
<1>4. CASE Iterate
  <2>1. /\ recomputing /\ current' = Step(basis, current) /\ iteration' = iteration + 1
        /\ basis' = basis /\ seed' = seed
        /\ IF current' = current \/ iteration' = MaxIterations
           THEN recomputing' = FALSE /\ published' = current'
           ELSE recomputing' = recomputing
    BY <1>4 DEF Iterate
  <2>2. /\ basis \in Evidence /\ current \in Vector /\ MaxIterations \in Nat
        /\ iteration \in Nat /\ iteration < MaxIterations
    BY <1>1, <2>1, LedgerAssumption DEF LedgerInv, LedgerTypes
  <2>3. seed = FirstBy(solver, basis) /\ current = RankingBy(solver, basis, iteration)
    BY <2>1 DEF DecidesInv
  <2>4. current' = NextBy(solver, basis)[current]
    BY <2>1, <2>2, <2>3 DEF Step, NextBy
  <2>5. current' = RankingBy(solver, basis, iteration + 1)
    BY <2>2, <2>3, <2>4, RankingStep
  <2>6. ASSUME current' = current \/ iteration' = MaxIterations
        PROVE  current' = RankingBy(solver, basis, MaxIterations)
    <3>1. CASE iteration' = MaxIterations
      BY <2>1, <2>5, <3>1
    <3>2. CASE current' = current
      <4>1. RankingBy(solver, basis, iteration + 1) = RankingBy(solver, basis, iteration)
        BY <2>3, <2>5, <3>2
      <4>2. iteration <= MaxIterations
        BY <2>2
      <4>3. RankingBy(solver, basis, MaxIterations) = RankingBy(solver, basis, iteration)
        BY <2>2, <4>1, <4>2, RankingStops
      <4>4. QED
        BY <2>3, <3>2, <4>3
    <3>3. QED
      BY <2>6, <3>1, <3>2
  <2>7. QED
    BY <2>1, <2>3, <2>5, <2>6
<1>5. QED
  BY <1>2, <1>3, <1>4, LedgerChange

\* Whatever was published, penalised or rewarded before, what a computation publishes is
\* the vector that all of its iterations over its evidence lead to, and nothing else is
\* ever published (solvers.py 138-166, repulink.py 319-358).
THEOREM EvidenceDecidesHolds == Spec => EvidenceDecides
<1> DEFINE Decided == IF recomputing /\ ~recomputing'
                      THEN published' = RankingOf(basis, MaxIterations)
                      ELSE UNCHANGED published
<1>1. DecidesInv /\ [Next]_vars => [Decided]_vars
  <2> SUFFICES ASSUME DecidesInv, DecidesInv', Next PROVE Decided
    BY DecidesStep
  <2>1. RankingOf(basis, MaxIterations) = RankingBy(solver, basis, MaxIterations)
    BY DEF RankingOf, RankingBy, FirstBy
  <2>2. CASE UNCHANGED ledgerVars
    BY <2>2 DEF ledgerVars
  <2>3. CASE RecomputeFrom(evidence')
    BY <2>3 DEF RecomputeFrom
  <2>4. CASE Iterate
    <3>1. /\ recomputing /\ UNCHANGED <<solver, basis>> /\ iteration' = iteration + 1
          /\ recomputing' = FALSE \/ UNCHANGED <<recomputing, published>>
      BY <2>4 DEF Iterate
    <3>2. iteration' > 0
      BY <3>1 DEF DecidesInv, LedgerInv, LedgerTypes
    <3>3. CASE ~recomputing'
      BY <2>1, <3>1, <3>2, <3>3 DEF DecidesInv
    <3>4. CASE recomputing'
      BY <3>1, <3>4
    <3>5. QED
      BY <3>3, <3>4
  <2>5. QED
    BY <2>2, <2>3, <2>4, LedgerChange DEF DecidesInv, LedgerInv
<1>2. QED
  BY <1>1, DecidesInit, DecidesStep, PTL DEF Spec, EvidenceDecides
=============================================================================
