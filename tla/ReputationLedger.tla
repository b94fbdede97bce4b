-------------------------- MODULE ReputationLedger ---------------------------
(***************************************************************************)
(* A cluster whose nodes route by one shared ledger (daemon.py 690-807),   *)
(* EigenTrust's or RepuLink's: nodes report what becomes of their          *)
(* forwards, a periodic task recomputes the vector they route by, and a    *)
(* last computation closes the run.                                        *)
(*                                                                         *)
(* A recomputation never awaits; its iterations are steps of their own, so *)
(* that what holds between them can be stated, and nothing else happens    *)
(* while it lasts.                                                         *)
(***************************************************************************)
EXTENDS EigenTrust, RepuLink

CONSTANTS
  Solvers,        \* which ledgers: "eigentrust", "repulink"
  Anchors,        \* choices of pretrusted nodes
  Endorsers,      \* trusted_endorsers of RepuLink
  Corpora,        \* choices of endorsements supplied to the constructor
  Offers,         \* endorsements added later, as <<pair, confidence>>
  Attestations,   \* signed endorsements presented to RepuLink
  Times,          \* when they are presented
  Packets,        \* what a solver is asked about
  Traffic,        \* the links that packets take
  Outages,        \* the sets of nodes that may be offline together
  MaxIterations,  \* max_iterations
  MaxCalls        \* bound on forwards, endorsements, outages and periodic recomputations

Attestation == [pair : Pair, confidence : 1..100, issued : Nat, expires : Nat,
                authentic : BOOLEAN]

ASSUME LedgerAssumption ==
  /\ Routing = "scored" /\ Node # {}
  /\ Solvers \subseteq {"eigentrust", "repulink"}
  /\ Anchors \subseteq SUBSET Node /\ Endorsers \subseteq Node
  /\ Corpora \subseteq [Pair -> 0..100] /\ Offers \subseteq Pair \X (1..100)
  /\ Attestations \subseteq Attestation /\ Times \subseteq Nat
  /\ Packets \subseteq [node : Node, dst : Node, visited : SUBSET Node]
  /\ \A p \in Packets : p.node # p.dst /\ p.dst \notin p.visited
  /\ Traffic \subseteq Link /\ Outages \subseteq SUBSET Node
  /\ MaxBackwardHops \in Nat \ {0} /\ MaxIterations \in Nat \ {0} /\ MaxCalls \in Nat

VARIABLES
  solver,       \* which ledger the cluster runs on
  phase,        \* of the run: "traffic", "grace" (tasks cancelled), "flushed", "closed"
  pending,      \* the links on which a forward (one at a time) awaits its verdict
  evidence,     \* delivered, drops, _endorsements and the anchors of the ledger
  signed,       \* _signed_endorsements_accepted
  recomputing,  \* a recomputation is under way
  basis,        \* the evidence that the rows of the last recomputation were drawn from
  account,      \* _penalty and _reward of that recomputation
  seed,         \* the vector it started from
  current,      \* its vector so far
  iteration,    \* how many iterations it has done
  published,    \* _trust, or _reputation
  granted,      \* history: what add_signed_endorsement accepted, and when
  calls

ledgerVars == <<recomputing, basis, account, seed, current, iteration, published>>
vars == <<offline, solver, phase, pending, evidence, signed, ledgerVars, granted, calls>>

Idle == ~recomputing
Running == phase \in {"traffic", "grace"}     \* the transports are open

\* The vector before any evidence: the pretrust, or the cold start.
Initial(b) == IF solver = "eigentrust" THEN Pretrust(b) ELSE ColdStart(b)

-----------------------------------------------------------------------------
(* Evidence: observe, with the outcomes that a node reports of its own links.
   A link whose end is down, "node_down", leaves no evidence and is no step. *)

Noted(delivered, drops) ==
  evidence' = [evidence EXCEPT
    !.delivered = [e \in Link |-> IF e \in delivered THEN @[e] + 1 ELSE @[e]],
    !.drops = [e \in Link |-> IF e \in drops THEN @[e] + 1 ELSE @[e]]]

\* A frame leaves and its receipt is awaited, or the link loses it.
Forward(e) ==
  /\ Idle /\ Running /\ calls < MaxCalls
  /\ e \notin pending
  /\ pending' = pending \cup {e} /\ calls' = calls + 1
  /\ UNCHANGED <<offline, solver, phase, evidence, signed, ledgerVars, granted>>

LoseFrame(e) ==
  /\ Idle /\ Running /\ calls < MaxCalls
  /\ Noted({}, {e}) /\ calls' = calls + 1
  /\ UNCHANGED <<offline, solver, phase, pending, signed, ledgerVars, granted>>

Confirm(e) ==
  /\ Idle /\ Running /\ e \in pending
  /\ Noted({e}, {}) /\ pending' = pending \ {e}
  /\ UNCHANGED <<offline, solver, phase, signed, ledgerVars, granted, calls>>

\* One sweep of all nodes; deadlines are left open.
Sweep(es) ==
  /\ Idle /\ Running /\ es # {}
  /\ Noted({}, es) /\ pending' = pending \ es
  /\ UNCHANGED <<offline, solver, phase, signed, ledgerVars, granted, calls>>

-----------------------------------------------------------------------------
(* Endorsements *)

\* add_endorsement refuses a second endorsement of a pair.
FreshIgnoringDuplicates(pair) == TRUE                     \* mutant: a later one replaces
Fresh(pair) == evidence.endorsed[pair] = 0

Endorse(pair, confidence) ==
  /\ Idle /\ solver = "repulink" /\ phase = "traffic" /\ calls < MaxCalls
  /\ Fresh(pair)
  /\ evidence' = [evidence EXCEPT !.endorsed[pair] = confidence]
  /\ calls' = calls + 1
  /\ UNCHANGED <<offline, solver, phase, pending, signed, ledgerVars, granted>>

\* verify_endorsement: nothing verifies that expires before it is issued.
Verifies(a) == a.authentic /\ a.issued < a.expires

\* add_signed_endorsement, presented at now.
EndorseSigned(a, now) ==
  /\ Idle /\ solver = "repulink" /\ phase = "traffic" /\ calls < MaxCalls
  /\ a.pair[1] \in Endorsers
  /\ a.issued <= now /\ now <= a.expires
  /\ Verifies(a)
  /\ Fresh(a.pair)
  /\ evidence' = [evidence EXCEPT !.endorsed[a.pair] = a.confidence]
  /\ signed' = signed + 1
  /\ granted' = granted \cup {[attestation |-> a, at |-> now]}
  /\ calls' = calls + 1
  /\ UNCHANGED <<offline, solver, phase, pending, ledgerVars>>

-----------------------------------------------------------------------------
(* Recomputation *)

\* What is passed back to those who endorsed (nothing, in EigenTrust), and the vector
\* that the iteration starts from.
NoAccount == [penalty |-> Zero, reward |-> Zero]
Account(b) ==
  IF solver = "eigentrust" THEN NoAccount
  ELSE [penalty |-> Backward(b, Signal(b.drops)), reward |-> Backward(b, Signal(b.delivered))]

StartFromLast(b, acc) == published                        \* mutant: a warm start
StartFrom(b, acc) ==
  IF solver = "eigentrust" THEN Pretrust(b) ELSE Seed(b, acc.penalty, acc.reward)

RecomputeFrom(b) ==
  /\ recomputing' = TRUE
  /\ basis' = b
  /\ account' = Account(b)
  /\ seed' = StartFrom(b, account') /\ current' = seed' /\ iteration' = 0
  /\ UNCHANGED published

Tick ==
  /\ Idle /\ phase = "traffic" /\ calls < MaxCalls
  /\ RecomputeFrom(evidence) /\ calls' = calls + 1
  /\ UNCHANGED <<offline, solver, phase, pending, evidence, signed, granted>>

Step(b, v) == IF solver = "eigentrust" THEN EigenStep(b, v) ELSE RepuStep(b, seed, v)

\* The loop ends at a fixed point or after max_iterations.
Iterate ==
  /\ recomputing
  /\ current' = Step(basis, current)
  /\ iteration' = iteration + 1
  /\ IF current' = current \/ iteration' = MaxIterations
     THEN recomputing' = FALSE /\ published' = current'
     ELSE UNCHANGED <<recomputing, published>>
  /\ phase' = IF phase = "flushed" /\ ~recomputing' THEN "closed" ELSE phase
  /\ UNCHANGED <<offline, solver, pending, evidence, signed, basis, account, seed, granted, calls>>

-----------------------------------------------------------------------------
(* The end of a run *)

CancelTasks ==
  /\ Idle /\ phase = "traffic"
  /\ phase' = "grace"
  /\ UNCHANGED <<offline, solver, pending, evidence, signed, ledgerVars, granted, calls>>

\* Every node turns what is still open into a timeout, then the ledger is computed
\* one last time.
LastBasisEarly == evidence                                \* mutant: computed first
LastBasis == evidence'

FlushAndRecompute ==
  /\ Idle /\ phase = "grace"
  /\ phase' = "flushed"
  /\ Noted({}, pending) /\ pending' = {}
  /\ RecomputeFrom(LastBasis)
  /\ UNCHANGED <<offline, solver, signed, granted, calls>>

Churn ==
  /\ Idle /\ phase = "traffic" /\ calls < MaxCalls
  /\ offline' \in Outages \ {offline} /\ calls' = calls + 1
  /\ UNCHANGED <<solver, phase, pending, evidence, signed, ledgerVars, granted>>

Closed == phase = "closed" /\ UNCHANGED vars

Init ==
  /\ offline = {} /\ solver \in Solvers
  /\ phase = "traffic" /\ pending = {}
  /\ \E anchors \in Anchors, corpus \in Corpora :
       evidence = [delivered |-> [e \in Link |-> 0], drops |-> [e \in Link |-> 0],
                   endorsed |-> IF solver = "repulink" THEN corpus ELSE [e \in Pair |-> 0],
                   anchors |-> IF solver = "eigentrust" THEN anchors ELSE {}]
  /\ signed = 0
  /\ recomputing = FALSE /\ basis = evidence /\ iteration = 0
  /\ account = NoAccount
  /\ seed = Initial(evidence) /\ current = seed /\ published = seed
  /\ granted = {} /\ calls = 0

Next ==
  \/ \E e \in Traffic : Forward(e) \/ LoseFrame(e)
  \/ \E e \in pending : Confirm(e)
  \/ \E es \in SUBSET pending : Sweep(es)
  \/ \E offer \in Offers : Endorse(offer[1], offer[2])
  \/ \E a \in Attestations, now \in Times : EndorseSigned(a, now)
  \/ Tick \/ Iterate \/ CancelTasks \/ FlushAndRecompute \/ Churn
  \/ Closed

Spec == Init /\ [][Next]_vars

-----------------------------------------------------------------------------
(* Properties *)

\* Evidence is counted from zero on links only, confidences stay percentages, and
\* no vector has a negative entry (solvers.py 43-53, repulink.py 55-79).
TypeOK ==
  /\ offline \in SUBSET Node /\ solver \in Solvers
  /\ phase \in {"traffic", "grace", "flushed", "closed"}
  /\ pending \in SUBSET Traffic
  /\ \A b \in {evidence, basis} :
       b \in [delivered : [Link -> Nat], drops : [Link -> Nat],
              endorsed : [Pair -> 0..100], anchors : SUBSET Node]
  /\ signed \in Nat /\ recomputing \in BOOLEAN /\ iteration \in 0..MaxIterations
  /\ account \in [penalty : [Node -> Nat], reward : [Node -> Nat]]
  /\ seed \in [Node -> Nat] /\ current \in [Node -> Nat] /\ published \in [Node -> Nat]
  /\ granted \in SUBSET [attestation : Attestation, at : Nat]
  /\ calls \in Nat

\* The vector that basis has led to so far.
Ranking == IF recomputing THEN current ELSE published

\* No iteration loses or makes trust, whatever rows are empty: EigenTrust's is exact,
\* RepuLink's but for what its quotients round off (solvers.py 113-115,
\* repulink.py 343-345).
Rounding == 4 * Cardinality(Node) * Cardinality(Node)
MassKept ==
  recomputing =>
    IF solver = "eigentrust"
    THEN Total(Spread(basis, current)) = Damped * Parts(basis) * Total(current)
    ELSE Total(Layers(basis, current)) \in (Total(current) - Rounding)..Total(current)

\* A group of nodes without an anchor, to which nobody outside has positive evidence,
\* ends up with no trust at all, however much its members praise one another
\* (solvers.py 110-136, 141, 146).
StrangersEarnNothing ==
  solver = "eigentrust" => \A group \in SUBSET {n \in Node : Pretrust(basis)[n] = 0} :
    (\A s \in Node \ group, t \in group : NetScore(basis, s, t) = 0)
      => \A n \in group : Ranking[n] = 0

\* Once there are endorsements, a node that nobody endorses, that endorses nobody and
\* that never delivered has no reputation: being new is worth nothing, and what others
\* lose does not go to it (repulink.py 245-252, 328-337, 343-347).
UnbackedEarnNothing ==
  solver = "repulink" /\ (\E pair \in Pair : basis.endorsed[pair] > 0) =>
    \A n \in Node :
      /\ \A m \in Node \ {n} : Endorsed(basis, m, n) = 0 /\ Endorsed(basis, n, m) = 0
      /\ Against(basis.delivered, n) = 0
      => Ranking[n] = 0

\* Those from whom a chain of at most MaxBackwardHops endorsements leads to a target.
Vouchers(b, targets) ==
  LET behind[k \in Nat] ==
        IF k = 0 THEN targets
        ELSE {n \in Node : \E m \in behind[k - 1] : Endorsed(b, n, m) > 0}
  IN UNION {behind[k] : k \in 1..MaxBackwardHops}

\* Who is penalised, and for whose drops.
Blamed == {n \in Node : account.penalty[n] > 0}
Dropping == {n \in Node : Against(basis.drops, n) > 0}

\* A penalty reaches only those who vouched, directly or through others, for a node
\* that dropped, and vouching is never worse than dropping: no penalty exceeds the
\* worst signal it comes from, whatever cycles lead there (repulink.py 286-310).
BlameWithinVouchers ==
  solver = "repulink" /\ recomputing =>
    /\ Blamed \subseteq Vouchers(basis, Dropping)
    /\ \A n \in Node : \E m \in Node : account.penalty[n] <= Signal(basis.drops)[m]

\* What chains carry once each is an endorsement longer, as <<endorser, amount>>: an
\* endorser takes half of its share of what a chain carried to the one it endorsed.
Longer(b, chains) ==
  {<<n, Part(Endorsed(b, n, c[1]), 2 * EndorsedTotal(b, n), c[2])>> : n \in Node, c \in chains}

\* What each chain of at most MaxBackwardHops endorsements carries back to the endorser
\* at its end.
CarriedBack(b, signal) ==
  LET carried[hop \in Nat] ==
        IF hop = 0 THEN {<<n, signal[n]>> : n \in Node}
        ELSE Longer(b, carried[hop - 1])
  IN UNION {carried[hop] : hop \in 1..MaxBackwardHops}

\* And it reaches all of them that a chain carries a unit to, with at least what the
\* chain carries: no cycle, no other chain and no other endorsement of a voucher shields
\* it or those behind it (repulink.py 286-310).
BlameFollowsEndorsements ==
  /\ BlameWithinVouchers
  /\ solver = "repulink" /\ recomputing =>
       \A c \in CarriedBack(basis, Signal(basis.drops)) : account.penalty[c[1]] >= c[2]

\* The vector after k iterations over the evidence b and nothing else.
RankingOf(b, k) ==
  LET start == IF solver = "eigentrust" THEN Pretrust(b)
               ELSE Seed(b, Backward(b, Signal(b.drops)), Backward(b, Signal(b.delivered)))
      ranking[i \in Nat] ==
        IF i = 0 THEN start
        ELSE LET before == ranking[i - 1]
             IN IF solver = "eigentrust" THEN EigenStep(b, before)
                ELSE RepuStep(b, start, before)
  IN ranking[k]

\* Evidence decides: whatever was published, penalised or rewarded before, the vector a
\* computation publishes is the one that all iterations over its evidence lead to, also
\* where its loop ends early, and nothing else changes what is published
\* (solvers.py 138-166, repulink.py 319-358).
EvidenceDecides ==
  [][IF recomputing /\ ~recomputing' THEN published' = RankingOf(basis, MaxIterations)
                                    ELSE UNCHANGED published]_vars

\* Each accepted attestation counts once, was valid when it was presented, and still
\* says in the ledger what was signed: nothing replayed or added later replaces it
\* (repulink.py 129-132, 148-174).
GrantsStand ==
  /\ signed = Cardinality(granted)
  /\ \A g \in granted :
       /\ g.at \in g.attestation.issued..g.attestation.expires
       /\ evidence.endorsed[g.attestation.pair] = g.attestation.confidence
       /\ \A h \in granted : h.attestation.pair = g.attestation.pair => h = g

\* The vector a run ends with was computed from every verdict of every node, those
\* by timeout at the very end included (daemon.py 799-807).
ClosedOnAllEvidence ==
  phase = "closed" => pending = {} /\ basis = evidence /\ published = current

\* Greedy routing stays within what scored routing may do (solvers.py 200-218,
\* repulink.py 390-408).
GreedyWithinScored ==
  \A p \in Packets : GreedyHops(p, published) \subseteq NextHops(p.node, p.dst, p.visited)
=============================================================================
