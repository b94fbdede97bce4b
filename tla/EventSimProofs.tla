---------------------------- MODULE EventSimProofs ----------------------------
(***************************************************************************)
(* The heap of EventSim never runs backwards, whatever the overlay, the    *)
(* metrics, the churn and the traffic; a link serves its frames in order;  *)
(* no packet is lost or counted twice, its exposure to Sybils is exact, its*)
(* latency is the time it travelled plus its retries, and a solver is told *)
(* of it once, about the right hop.                                        *)
(***************************************************************************)
EXTENDS EventSimRefinement, Foundations

\* Whatever the solver family, a hop it returns is an online neighbour.
LEMMA HopsReachable ==
  ASSUME NEW n \in Node, NEW dst, NEW visited, NEW nxt \in NextHops(n, dst, visited)
  PROVE  nxt \in Adj[n] /\ nxt \notin offline /\ nxt \in Node
<1>1. ReachableNeighbors(n) \subseteq Adj[n] \ offline /\ Adj[n] \subseteq Node
  BY GraphAssumption DEF ReachableNeighbors
<1>2. ShortestHop(n, dst) \subseteq ReachableNeighbors(n)
  BY DEF ShortestHop
<1>3. PreferUnvisited(ReachableNeighbors(n), visited) \subseteq ReachableNeighbors(n)
  BY DEF PreferUnvisited
<1>4. NextHops(n, dst, visited) \subseteq ReachableNeighbors(n)
  BY <1>2, <1>3, GraphAssumption DEF NextHops
<1>5. QED
  BY <1>1, <1>4

-----------------------------------------------------------------------------
(* The event heap *)

\* No two events were scheduled with one counter.
SeqUnique == \A e, f \in events : e.seq = f.seq => e = f

HeapInv ==
  /\ clock \in Nat /\ counter \in Nat
  /\ events \subseteq EventType
  /\ \A e \in events : e.time >= clock /\ e.seq < counter
  /\ SeqUnique

\* heappop: a nonempty heap has a first event, and no event is earlier.
LEMMA FirstEvent ==
  ASSUME HeapInv, events # {}
  PROVE  First \in events /\ \A f \in events : First.time <= f.time
<1> DEFINE T == {e.time : e \in events}
<1>1. T \in SUBSET Nat /\ T # {}
  BY DEF HeapInv, EventType
<1>2. PICK t \in T : \A u \in T : t <= u
  BY <1>1, LeastNatural
<1> DEFINE S == {e.seq : e \in {f \in events : f.time = t}}
<1>3. S \in SUBSET Nat /\ S # {}
  BY <1>2 DEF HeapInv, EventType
<1>4. PICK s \in S : \A u \in S : s <= u
  BY <1>3, LeastNatural
<1>5. PICK e \in events : e.time = t /\ e.seq = s
  BY <1>4
<1>6. ASSUME NEW f \in events \ {e}
      PROVE  Before(e, f)
  <2>1. e.time \in Nat /\ f.time \in Nat /\ e.seq \in Nat /\ f.seq \in Nat
    BY DEF HeapInv, EventType
  <2>2. e.time <= f.time
    BY <1>2, <1>5
  <2>3. CASE f.time = e.time
    <3>1. e.seq <= f.seq
      BY <1>4, <1>5, <2>3
    <3>2. e.seq # f.seq
      BY DEF HeapInv, SeqUnique
    <3>3. QED
      BY <2>1, <2>3, <3>1, <3>2 DEF Before
  <2>4. QED
    BY <2>1, <2>2, <2>3 DEF Before
<1>7. First \in events /\ \A f \in events \ {First} : Before(First, f)
  BY <1>5, <1>6 DEF First
<1>8. ASSUME NEW f \in events
      PROVE  First.time <= f.time
  <2>1. First.time \in Nat /\ f.time \in Nat
    BY <1>7 DEF HeapInv, EventType
  <2>2. CASE f = First
    BY <2>1, <2>2
  <2>3. CASE f # First
    BY <1>7, <2>1, <2>3 DEF Before
  <2>4. QED
    BY <2>2, <2>3
<1>9. QED
  BY <1>7, <1>8

DueType == [time : Nat, kind : {"generate", "arrive", "perturb"}, pid : SUBSET Nat]

\* _schedule: events at or after the one being handled keep the heap in order.
LEMMA RescheduleHeap ==
  ASSUME HeapInv, events # {}, clock' = First.time, NEW new \in Seq(DueType),
         \A i \in DOMAIN new : new[i].time >= clock', Reschedule(new)
  PROVE  HeapInv' /\ clock' >= clock
<1> DEFINE fresh(i) == At(new[i].time, counter + i - 1, new[i].kind, new[i].pid)
<1>1. First \in events /\ \A f \in events : First.time <= f.time
  BY FirstEvent
<1>2. clock' \in Nat /\ clock' >= clock
  BY <1>1 DEF HeapInv, EventType
<1>3. counter \in Nat /\ Len(new) \in Nat /\ DOMAIN new = 1..Len(new)
  BY DEF HeapInv
<1>4. ASSUME NEW i \in DOMAIN new
      PROVE  /\ fresh(i) \in EventType /\ fresh(i).time >= clock'
             /\ fresh(i).seq = counter + i - 1
             /\ fresh(i).seq >= counter /\ fresh(i).seq < counter + Len(new)
  <2>1. new[i] \in DueType /\ i \in 1..Len(new)
    BY <1>3
  <2>2. counter + i - 1 \in Nat
    BY <1>3, <2>1
  <2>3. QED
    BY <1>3, <2>1, <2>2 DEF At, EventType, DueType
<1>5. events' = (events \ {First}) \cup {fresh(i) : i \in DOMAIN new}
  BY DEF Reschedule
<1>6. counter' = counter + Len(new)
  BY DEF Reschedule
<1> HIDE DEF fresh
<1>7. events' \subseteq EventType
  BY <1>4, <1>5 DEF HeapInv
<1>8. ASSUME NEW e \in events'
      PROVE  e.time >= clock' /\ e.seq < counter'
  <2>1. CASE e \in events
    <3>1. e.time >= First.time /\ e.seq < counter /\ e.seq \in Nat
      BY <1>1, <2>1 DEF HeapInv, EventType
    <3>2. QED
      BY <1>3, <1>6, <3>1
  <2>2. CASE \E i \in DOMAIN new : e = fresh(i)
    BY <1>4, <1>6, <2>2
  <2>3. QED
    BY <1>5, <2>1, <2>2
<1>9. SeqUnique'
  <2>1. SUFFICES ASSUME NEW e \in events', NEW f \in events', e.seq = f.seq
                 PROVE  e = f
    BY DEF SeqUnique
  <2>2. ASSUME NEW d \in events', d \in events
        PROVE  d.seq \in Nat /\ d.seq < counter
    BY <2>2 DEF HeapInv, EventType
  <2>3. CASE e \in events /\ f \in events
    BY <2>1, <2>3 DEF HeapInv, SeqUnique
  <2>4. CASE e \notin events \/ f \notin events
    <3>1. ASSUME NEW d \in events', d \notin events
          PROVE  \E i \in DOMAIN new : d = fresh(i)
      BY <1>5, <3>1
    <3>2. e \notin events /\ f \notin events
      BY <1>3, <1>4, <2>1, <2>2, <2>4, <3>1
    <3>3. PICK i \in DOMAIN new : e = fresh(i)
      BY <3>1, <3>2
    <3>4. PICK j \in DOMAIN new : f = fresh(j)
      BY <3>1, <3>2
    <3>5. i = j
      <4>1. counter + i - 1 = counter + j - 1
        BY <1>4, <2>1, <3>3, <3>4
      <4>2. QED
        BY <1>3, <4>1
    <3>6. QED
      BY <3>3, <3>4, <3>5
  <2>5. QED
    BY <2>3, <2>4
<1>10. QED
  BY <1>2, <1>3, <1>6, <1>7, <1>8, <1>9 DEF HeapInv

-----------------------------------------------------------------------------
(* Type correctness *)

\* An arrival names one existing packet.
Pids == \A e \in events : e.kind = "arrive" => \E pid \in DOMAIN packets : e.pid = {pid}

TypeInv == TypeOK /\ HeapInv /\ Pids /\ IsFiniteSet(DOMAIN packets)

LEMMA PacketDomain ==
  ASSUME TypeInv
  PROVE  /\ Cardinality(DOMAIN packets) \in Nat
         /\ DOMAIN packets = 0..(Cardinality(DOMAIN packets) - 1)
         /\ \A pid \in DOMAIN packets : pid \in Nat /\ packets[pid] \in PacketType
<1>1. Cardinality(DOMAIN packets) \in Nat
  BY FS_CardinalityType DEF TypeInv
<1>2. packets \in [0..(Cardinality(DOMAIN packets) - 1) -> PacketType]
  BY DEF TypeInv, TypeOK
<1>3. QED
  BY <1>1, <1>2

\* What Arrive works with: the packet of the event, and the link it may take.
LEMMA HopFacts ==
  ASSUME TypeInv, NEW p \in PacketType, NEW nxt \in Adj[p.node]
  PROVE  /\ <<p.node, nxt>> \in Hop /\ {p.node, nxt} \in Link /\ nxt \in Node
         /\ LinkOf(p, nxt) \in [latency : Nat, service : Nat \ {0}]
         /\ Round(p, nxt) \in Nat
<1>1. p.node \in Node /\ nxt \in Node
  BY GraphAssumption DEF PacketType
<1>2. <<p.node, nxt>> \in Hop
  BY <1>1 DEF Hop
<1>3. {p.node, nxt} \in Link
  BY <1>2 DEF Link
<1>4. LinkOf(p, nxt) \in [latency : Nat, service : Nat \ {0}]
  BY <1>3, EventSimAssumption DEF LinkOf, TypeInv, TypeOK
<1>5. Round(p, nxt) \in Nat
  BY <1>4 DEF Round, LinkOf
<1>6. QED
  BY <1>1, <1>2, <1>3, <1>4, <1>5

LEMMA TakenEvent ==
  ASSUME TypeInv, NEW kind, Take(kind)
  PROVE  /\ events # {} /\ First \in events /\ First.kind = kind
         /\ clock' = First.time /\ clock' \in Nat /\ clock' >= clock
<1>1. events # {} /\ First \in events
  BY FirstEvent DEF TypeInv, Take
<1>2. QED
  BY <1>1 DEF TypeInv, HeapInv, Take, EventType

LEMMA RescheduleNothing ==
  ASSUME TypeInv, NEW kind, Take(kind), Reschedule(<<>>)
  PROVE  HeapInv' /\ events' = events \ {First}
<1>1. <<>> \in Seq(DueType) /\ \A i \in DOMAIN <<>> : <<>>[i].time >= clock'
  OBVIOUS
<1>2. HeapInv'
  BY <1>1, TakenEvent, RescheduleHeap DEF TypeInv
<1>3. QED
  BY <1>2 DEF Reschedule

\* One event to come.
LEMMA RescheduleOne ==
  ASSUME TypeInv, NEW kind, Take(kind), NEW due \in DueType, due.time >= clock',
         Reschedule(<<due>>)
  PROVE  /\ HeapInv'
         /\ events' = (events \ {First}) \cup {At(due.time, counter, due.kind, due.pid)}
<1>1. <<due>> \in Seq(DueType) /\ \A i \in DOMAIN <<due>> : <<due>>[i].time >= clock'
  OBVIOUS
<1>2. HeapInv'
  BY <1>1, TakenEvent, RescheduleHeap DEF TypeInv
<1>3. DOMAIN <<due>> = {1} /\ <<due>>[1] = due /\ counter + 1 - 1 = counter
  BY DEF TypeInv, HeapInv
<1>4. QED
  BY <1>2, <1>3 DEF Reschedule

DropRecord == [pid : DOMAIN packets, reason : Reason]

\* What an arrival may do to the packets and the two lists.
ArrivalTyped ==
  /\ packets' \in [DOMAIN packets -> PacketType]
  /\ delivered' \in Seq(DOMAIN packets)
  /\ dropped' \in Seq(DropRecord)

LEMMA DropTyped ==
  ASSUME TypeInv, NEW pid \in DOMAIN packets, NEW p \in PacketType, NEW why \in Reason,
         DropQuietly(pid, p, why)
  PROVE  ArrivalTyped
<1>1. packets' \in [DOMAIN packets -> PacketType]
  BY PacketDomain DEF DropQuietly
<1>2. delivered' \in Seq(DOMAIN packets)
  BY DEF DropQuietly, TypeInv, TypeOK
<1>3. dropped' \in Seq(DropRecord)
  <2>1. dropped \in Seq(DropRecord) /\ [pid |-> pid, reason |-> why] \in DropRecord
    BY DEF TypeInv, TypeOK, DropRecord
  <2>2. QED
    BY <2>1 DEF DropQuietly
<1>4. QED
  BY <1>1, <1>2, <1>3 DEF ArrivalTyped

LEMMA AttemptTyped ==
  ASSUME TypeInv, NEW p \in PacketType, NEW nxt \in Adj[p.node]
  PROVE  Attempt(p, nxt) \in PacketType
<1>1. {<<p.node, nxt>>} \in SUBSET Hop
  BY HopFacts
<1>2. QED
  BY <1>1 DEF Attempt, PacketType

LEMMA UseTyped ==
  ASSUME TypeInv, NEW pid \in DOMAIN packets, NEW p \in PacketType, NEW nxt \in Adj[p.node],
         clock' \in Nat, NEW start \in Nat, NEW failed \in Nat, NEW lost \in BOOLEAN
  PROVE  Use(pid, p, nxt, start, failed, lost) \in SlotType
<1>1. LinkOf(p, nxt).service \in Nat /\ Round(p, nxt) \in Nat
  BY HopFacts
<1>2. <<p.node, nxt>> \in Hop /\ pid \in Nat
  BY HopFacts, PacketDomain
<1>3. start + LinkOf(p, nxt).service \in Nat /\ start + Round(p, nxt) \in Nat
  BY <1>1
<1>4. QED
  BY <1>1, <1>2, <1>3 DEF Use, SlotType

LEMMA CarriedTyped ==
  ASSUME TypeInv, NEW p \in PacketType, NEW nxt \in Adj[p.node], p.ttl > 0,
         NEW wait \in Nat, NEW failed \in Nat
  PROVE  Carried(p, nxt, wait, failed) \in PacketType
<1>1. Round(p, nxt) \in Nat /\ nxt \in Node
  BY HopFacts
<1> DEFINE cost == LatencyOf(p, nxt, wait, failed)
<1>2. cost \in Nat
  <2>1. failed * Round(p, nxt) \in Nat
    BY <1>1
  <2>2. QED
    BY <1>1, <2>1 DEF LatencyOf
<1> HIDE DEF cost
<1>3. Attempt(p, nxt) \in PacketType /\ Attempt(p, nxt).ttl = p.ttl
  BY AttemptTyped DEF Attempt, PacketType
<1>4. ASSUME NEW q \in PacketType, q.ttl > 0
      PROVE  [q EXCEPT !.node = nxt, !.hops = @ + 1, !.ttl = @ - 1,
                       !.queueDelay = @ + wait, !.latency = @ + cost] \in PacketType
  <2>1. /\ q.hops + 1 \in Nat /\ q.ttl - 1 \in Nat
        /\ q.queueDelay + wait \in Nat /\ q.latency + cost \in Nat
    BY <1>2, <1>4 DEF PacketType
  <2>2. QED
    BY <1>1, <2>1 DEF PacketType
<1>5. QED
  BY <1>3, <1>4 DEF Carried, cost

\* A frame is offered to the link no earlier than now, and starts when the link is free.
LEMMA StartFacts ==
  ASSUME TypeInv, NEW time \in Nat, NEW hop \in Hop
  PROVE  /\ StartTime(time, hop) \in Nat /\ StartTime(time, hop) >= time
         /\ StartTime(time, hop) >= linkAvailable[hop]
<1>1. linkAvailable[hop] \in Nat
  BY DEF TypeInv, TypeOK
<1>2. QED
  BY <1>1 DEF StartTime

LEMMA KeepType ==
  ASSUME TypeInv, ArrivalTyped, HeapInv', Pids',
         slots' \in SUBSET SlotType, linkAvailable' \in [Hop -> Nat],
         retransmissions' \in Nat, UNCHANGED <<running, inFlight, graphVars>>
  PROVE  TypeInv'
<1>1. DOMAIN packets' = DOMAIN packets
  BY DEF ArrivalTyped
<1>2. packets' \in [0..(Cardinality(DOMAIN packets') - 1) -> PacketType]
  BY <1>1, PacketDomain DEF ArrivalTyped
<1>3. /\ delivered' \in Seq(DOMAIN packets')
      /\ dropped' \in Seq([pid : DOMAIN packets', reason : Reason])
      /\ inFlight' \subseteq DOMAIN packets'
  BY <1>1 DEF ArrivalTyped, DropRecord, TypeInv, TypeOK
<1>4. /\ running' \in BOOLEAN /\ metric' \in [Link -> Metric] /\ offline' \subseteq Node
      /\ clock' \in Nat /\ counter' \in Nat /\ events' \subseteq EventType
  BY DEF TypeInv, TypeOK, HeapInv, graphVars
<1>5. TypeOK'
  BY <1>2, <1>3, <1>4 DEF TypeOK
<1>6. QED
  BY <1>1, <1>5 DEF TypeInv

LEMMA QuietStep ==
  ASSUME TypeInv, Take("arrive"), ArrivalTyped, Reschedule(<<>>),
         slots' \in SUBSET SlotType, linkAvailable' \in [Hop -> Nat],
         retransmissions' \in Nat, UNCHANGED <<running, inFlight, graphVars>>
  PROVE  TypeInv'
<1>1. HeapInv' /\ events' = events \ {First}
  BY RescheduleNothing
<1>2. Pids'
  BY <1>1 DEF TypeInv, Pids, ArrivalTyped
<1>3. QED
  BY <1>1, <1>2, KeepType

LEMMA SettleTyped ==
  ASSUME TypeInv, NEW pid \in DOMAIN packets, Settle(pid, packets[pid])
  PROVE  ArrivalTyped
<1> DEFINE p == packets[pid]
<1>1. p \in PacketType
  BY PacketDomain
<1>2. CASE Deliver(pid, p)
  BY <1>2, PacketDomain DEF Deliver, ArrivalTyped, TypeInv, TypeOK, DropRecord
<1>3. CASE DropAtOffline(pid, p)
  BY <1>1, <1>3, DropTyped DEF DropAtOffline, Reason
<1>4. CASE Drop(pid, p, "ttl_expired") \/ Drop(pid, p, "loop")
  BY <1>1, <1>4, DropTyped DEF Drop, Reason
<1>5. QED
  BY <1>2, <1>3, <1>4 DEF Settle

LEMMA DropLostTyped ==
  ASSUME TypeInv, clock' \in Nat, NEW pid \in DOMAIN packets, NEW p \in PacketType,
         NEW nxt \in Adj[p.node], DropLost(pid, p, nxt)
  PROVE  ArrivalTyped /\ slots' \in SUBSET SlotType /\ retransmissions' \in Nat
<1>1. Attempt(p, nxt) \in PacketType
  BY AttemptTyped
<1>2. ArrivalTyped
  <2>1. PICK why \in Reason : Drop(pid, Attempt(p, nxt), why)
    BY DEF DropLost, LossExposure, Reason
  <2>2. QED
    BY <1>1, <2>1, DropTyped DEF Drop
<1>3. LinkRetries \in Nat /\ LinkRetries + 1 \in Nat
  BY EventSimAssumption
<1>4. Use(pid, p, nxt, clock', LinkRetries + 1, TRUE) \in SlotType
  BY <1>3, UseTyped
<1>5. slots' \in SUBSET SlotType
  BY <1>4 DEF DropLost, TypeInv, TypeOK
<1>6. retransmissions' \in Nat
  BY <1>3 DEF DropLost, TypeInv, TypeOK
<1>7. QED
  BY <1>2, <1>5, <1>6

LEMMA TransmitStep ==
  ASSUME TypeInv, Take("arrive"), NEW pid \in DOMAIN packets, NEW p \in PacketType,
         p.ttl > 0, NEW nxt \in Adj[p.node], Transmit(pid, p, nxt),
         UNCHANGED <<running, inFlight, graphVars>>
  PROVE  TypeInv'
<1>1. clock' \in Nat
  BY TakenEvent
<1>2. <<p.node, nxt>> \in Hop /\ Round(p, nxt) \in Nat /\ LinkOf(p, nxt).service \in Nat
  BY HopFacts
<1> DEFINE hop == <<p.node, nxt>>
           start == StartTime(clock', hop)
           due == Due(start + Round(p, nxt), "arrive", {pid})
<1>3. start \in Nat /\ start >= clock' /\ start - clock' \in Nat
  <2>1. start \in Nat /\ start >= clock'
    BY <1>1, <1>2, StartFacts
  <2>2. QED
    BY <1>1, <2>1
<1>4. PICK failed \in IF Lossy THEN 0..LinkRetries ELSE {0} :
        /\ retransmissions' = retransmissions + failed
        /\ packets' = [packets EXCEPT ![pid] = Carried(p, nxt, start - clock', failed)]
        /\ linkAvailable' = [linkAvailable EXCEPT ![hop] = start + LinkOf(p, nxt).service]
        /\ slots' = slots \cup {Use(pid, p, nxt, start, failed, FALSE)}
        /\ Reschedule(<<due>>)
        /\ UNCHANGED endVars
  BY DEF Transmit
<1> HIDE DEF start
<1>12. failed \in Nat
  BY EventSimAssumption
<1>5. ArrivalTyped
  <2>1. Carried(p, nxt, start - clock', failed) \in PacketType
    BY <1>3, <1>12, CarriedTyped
  <2>2. packets' \in [DOMAIN packets -> PacketType]
    BY <1>4, <2>1, PacketDomain
  <2>3. delivered' \in Seq(DOMAIN packets) /\ dropped' \in Seq(DropRecord)
    BY <1>4 DEF endVars, TypeInv, TypeOK, DropRecord
  <2>4. QED
    BY <2>2, <2>3 DEF ArrivalTyped
<1>6. due \in DueType /\ due.time >= clock'
  <2>1. start + Round(p, nxt) \in Nat /\ start + Round(p, nxt) >= clock'
    BY <1>1, <1>2, <1>3
  <2>2. {pid} \in SUBSET Nat
    BY PacketDomain
  <2>3. QED
    BY <2>1, <2>2 DEF Due, DueType
<1>7. /\ HeapInv'
      /\ events' = (events \ {First}) \cup {At(due.time, counter, due.kind, due.pid)}
  <2> HIDE DEF due
  <2>1. QED
    BY <1>4, <1>6, RescheduleOne
<1>8. Pids'
  <2>1. At(due.time, counter, due.kind, due.pid).pid = {pid} /\ DOMAIN packets' = DOMAIN packets
    BY <1>5 DEF At, Due, ArrivalTyped
  <2>2. QED
    BY <1>7, <2>1 DEF TypeInv, Pids
<1>9. retransmissions' \in Nat /\ linkAvailable' \in [Hop -> Nat]
  <2>1. start + LinkOf(p, nxt).service \in Nat
    BY <1>2, <1>3
  <2>2. QED
    BY <1>2, <1>4, <1>12, <2>1 DEF TypeInv, TypeOK
<1>10. slots' \in SUBSET SlotType
  <2>1. Use(pid, p, nxt, start, failed, FALSE) \in SlotType
    BY <1>1, <1>3, <1>12, UseTyped
  <2>2. QED
    BY <1>4, <2>1 DEF TypeInv, TypeOK
<1>11. QED
  BY <1>5, <1>7, <1>8, <1>9, <1>10, KeepType

LEMMA ArriveTyped ==
  ASSUME TypeInv, Arrive
  PROVE  TypeInv'
<1>1. Take("arrive") /\ UNCHANGED <<running, inFlight, graphVars>>
  BY DEF Arrive
<1>2. First \in events /\ First.kind = "arrive" /\ clock' \in Nat
  BY <1>1, TakenEvent
<1>3. PICK pid \in First.pid :
        \/ /\ ~MayRelay(packets[pid]) /\ Settle(pid, packets[pid])
           /\ Reschedule(<<>>) /\ UNCHANGED <<retransmissions, netVars>>
        \/ MayRelay(packets[pid]) /\ Relay(pid, Visit(packets[pid]))
  BY DEF Arrive
<1>4. pid \in DOMAIN packets
  BY <1>2 DEF TypeInv, Pids
<1> DEFINE p == Visit(packets[pid])
<1>5. p \in PacketType
  <2>1. packets[pid] \in PacketType
    BY <1>4, PacketDomain
  <2>2. QED
    BY <2>1 DEF Visit, PacketType
<1>6. UNCHANGED <<retransmissions, netVars>>
        => /\ slots' \in SUBSET SlotType /\ linkAvailable' \in [Hop -> Nat]
           /\ retransmissions' \in Nat
  BY DEF netVars, TypeInv, TypeOK
<1>7. CASE Settle(pid, packets[pid]) /\ Reschedule(<<>>)
           /\ UNCHANGED <<retransmissions, netVars>>
  BY <1>1, <1>4, <1>6, <1>7, SettleTyped, QuietStep
<1>8. CASE MayRelay(packets[pid]) /\ Relay(pid, p)
  <2>1. p.ttl > 0 /\ p.node \in Node
    BY <1>5, <1>8, PacketDomain, <1>4 DEF MayRelay, Visit, PacketType
  <2>2. CASE Drop(pid, p, "no_route") /\ Reschedule(<<>>)
             /\ UNCHANGED <<retransmissions, netVars>>
    <3>1. ArrivalTyped
      BY <1>4, <1>5, <2>2, DropTyped DEF Drop, Reason
    <3>2. QED
      BY <1>1, <1>6, <2>2, <3>1, QuietStep
  <2>3. ASSUME NEW nxt \in NextHops(p.node, p.dst, p.visited),
               DropLost(pid, p, nxt) \/ Transmit(pid, p, nxt)
        PROVE  TypeInv'
    <3>1. nxt \in Adj[p.node]
      BY <2>1, HopsReachable
    <3>2. CASE DropLost(pid, p, nxt)
      <4>1. ArrivalTyped /\ slots' \in SUBSET SlotType /\ retransmissions' \in Nat
        BY <1>2, <1>4, <1>5, <3>1, <3>2, DropLostTyped
      <4>2. Reschedule(<<>>) /\ linkAvailable' \in [Hop -> Nat]
        BY <3>2 DEF DropLost, TypeInv, TypeOK
      <4>3. QED
        BY <1>1, <4>1, <4>2, QuietStep
    <3>3. CASE Transmit(pid, p, nxt)
      BY <1>1, <1>4, <1>5, <2>1, <3>1, <3>3, TransmitStep
    <3>4. QED
      BY <2>3, <3>2, <3>3
  <2>4. ASSUME NEW nxt \in NextHops(p.node, p.dst, p.visited)
        PROVE  ~DropAtHop(pid, p, nxt)
    BY <2>1, HopsReachable DEF DropAtHop
  <2>5. QED
    BY <1>8, <2>2, <2>3, <2>4 DEF Relay
<1>9. QED
  BY <1>3, <1>7, <1>8

LEMMA SeqWidened ==
  ASSUME NEW S, NEW T, S \subseteq T, NEW s \in Seq(S)
  PROVE  s \in Seq(T)
<1>1. s \in [1..Len(s) -> S] /\ Len(s) \in Nat
  OBVIOUS
<1>2. s \in [1..Len(s) -> T]
  BY <1>1
<1>3. QED
  BY <1>1, <1>2

LEMMA GenerateTyped ==
  ASSUME TypeInv, Generate
  PROVE  TypeInv'
<1>1. /\ Take("generate")
      /\ UNCHANGED <<running, inFlight, retransmissions, netVars, graphVars, endVars>>
  BY DEF Generate
<1>2. clock' \in Nat /\ events # {} /\ clock' = First.time
  BY <1>1, TakenEvent
<1> DEFINE pid == Cardinality(DOMAIN packets)
           arrive == Due(clock', "arrive", {pid})
           later(gap) == Due(clock' + gap, "generate", {})
<1>3. PICK f \in Flows, gap \in Gaps \cup {0} :
        /\ packets' = [i \in DOMAIN packets \cup {pid} |->
                         IF i = pid THEN NewPacket(f, clock') ELSE packets[i]]
        /\ Reschedule(IF gap # 0 /\ clock' + gap <= Duration
                      THEN <<arrive, later(gap)>> ELSE <<arrive>>)
  BY DEF Generate
<1>4. pid \in Nat /\ DOMAIN packets = 0..(pid - 1)
      /\ \A i \in DOMAIN packets : packets[i] \in PacketType
  BY PacketDomain
<1>5. NewPacket(f, clock') \in PacketType
  <2>1. f[1] \in Node /\ f[2] \in Node /\ TTL \in Nat
    BY EventSimAssumption
  <2>2. QED
    BY <1>2, <2>1 DEF NewPacket, PacketType
<1>6. DOMAIN packets' = 0..pid /\ Cardinality(DOMAIN packets') = pid + 1
      /\ IsFiniteSet(DOMAIN packets') /\ DOMAIN packets \subseteq DOMAIN packets'
  <2> HIDE DEF pid
  <2>1. DOMAIN packets' = DOMAIN packets \cup {pid}
    BY <1>3
  <2>2. DOMAIN packets' = 0..pid
    BY <1>4, <2>1
  <2>3. IsFiniteSet(0..pid) /\ Cardinality(0..pid) = pid + 1
    BY <1>4, FS_Interval
  <2>4. QED
    BY <2>1, <2>2, <2>3
<1>7. packets' \in [0..(Cardinality(DOMAIN packets') - 1) -> PacketType]
  <2>1. Cardinality(DOMAIN packets') - 1 = pid
    BY <1>4, <1>6
  <2>2. \A i \in DOMAIN packets' : packets'[i] \in PacketType
    BY <1>3, <1>4, <1>5
  <2>3. packets' = [i \in DOMAIN packets' |-> packets'[i]]
    BY <1>3
  <2>4. QED
    BY <1>6, <2>1, <2>2, <2>3
<1>8. gap \in Nat
  BY EventSimAssumption
<1>9. /\ arrive \in DueType /\ arrive.time = clock' /\ arrive.pid = {pid}
      /\ later(gap) \in DueType /\ later(gap).time >= clock' /\ later(gap).kind = "generate"
  BY <1>2, <1>4, <1>8 DEF Due, DueType
<1> HIDE DEF arrive, later
<1>10. HeapInv' /\ Pids'
  <2>1. PICK new \in {<<arrive>>, <<arrive, later(gap)>>} : Reschedule(new)
    BY <1>3
  <2>2. new \in Seq(DueType)
    <3>1. <<arrive>> \in Seq(DueType) /\ <<arrive, later(gap)>> \in Seq(DueType)
      BY <1>9
    <3>2. QED
      BY <2>1, <3>1
  <2>3. \A i \in DOMAIN new : new[i] = arrive \/ new[i] = later(gap)
    BY <2>1
  <2>4. HeapInv'
    <3>1. \A i \in DOMAIN new : new[i].time >= clock'
      BY <1>2, <1>9, <2>3
    <3>2. QED
      BY <1>2, <2>1, <2>2, <3>1, RescheduleHeap DEF TypeInv
  <2>5. Pids'
    <3>1. SUFFICES ASSUME NEW e \in events', e.kind = "arrive"
                   PROVE  \E i \in DOMAIN packets' : e.pid = {i}
      BY DEF Pids
    <3>2. CASE e \in events
      BY <1>6, <3>1, <3>2 DEF TypeInv, Pids
    <3>3. CASE e \notin events
      <4>1. PICK i \in DOMAIN new :
              e = At(new[i].time, counter + i - 1, new[i].kind, new[i].pid)
        BY <2>1, <3>3 DEF Reschedule
      <4>2. e.kind = new[i].kind /\ e.pid = new[i].pid
        BY <4>1 DEF At
      <4>3. e.pid = {pid}
        BY <1>9, <2>3, <3>1, <4>2
      <4>4. QED
        BY <1>4, <1>6, <4>3
    <3>4. QED
      BY <3>2, <3>3
  <2>6. QED
    BY <2>4, <2>5
<1>11. /\ delivered' \in Seq(DOMAIN packets')
       /\ dropped' \in Seq([pid : DOMAIN packets', reason : Reason])
       /\ inFlight' \subseteq DOMAIN packets'
  <2>1. delivered \in Seq(DOMAIN packets) /\ dropped \in Seq(DropRecord)
        /\ inFlight \subseteq DOMAIN packets
    BY DEF TypeInv, TypeOK, DropRecord
  <2>2. delivered \in Seq(DOMAIN packets')
    BY <1>6, <2>1, SeqWidened
  <2>3. DropRecord \subseteq [pid : DOMAIN packets', reason : Reason]
    BY <1>6 DEF DropRecord
  <2>4. dropped \in Seq([pid : DOMAIN packets', reason : Reason])
    BY <2>1, <2>3, SeqWidened
  <2>5. QED
    BY <1>1, <1>6, <2>1, <2>2, <2>4 DEF endVars
<1>12. TypeOK'
  BY <1>1, <1>7, <1>10, <1>11 DEF TypeInv, TypeOK, HeapInv, netVars, graphVars, endVars
<1>13. QED
  BY <1>6, <1>10, <1>12 DEF TypeInv

LEMMA PerturbTyped ==
  ASSUME TypeInv, Perturb
  PROVE  TypeInv'
<1>1. /\ Take("perturb")
      /\ UNCHANGED <<running, packets, inFlight, retransmissions, netVars, endVars>>
  BY DEF Perturb
<1>2. clock' \in Nat /\ events # {} /\ clock' = First.time
  BY <1>1, TakenEvent
<1>3. metric' \in [Link -> Metric]
  <2>1. PICK drifted, new :
          /\ new \in [drifted -> Metric]
          /\ metric' = [l \in Link |-> IF l \in drifted THEN new[l] ELSE metric[l]]
    BY DEF Perturb
  <2>2. metric \in [Link -> Metric]
    BY DEF TypeInv, TypeOK
  <2>3. QED
    BY <2>1, <2>2
<1>4. offline' \subseteq Node
  BY DEF Perturb, TypeInv, TypeOK
<1> DEFINE next == clock' + PerturbInterval
           tick == Due(next, "perturb", {})
<1>5. tick \in DueType /\ tick.time >= clock' /\ tick.kind = "perturb"
  BY <1>2, EventSimAssumption DEF Due, DueType
<1>6. Reschedule(IF next <= EndTime THEN <<tick>> ELSE <<>>)
  BY DEF Perturb
<1> HIDE DEF tick
<1>7. HeapInv' /\ Pids'
  <2>1. CASE Reschedule(<<>>)
    BY <1>1, <2>1, RescheduleNothing DEF TypeInv, Pids
  <2>2. CASE Reschedule(<<tick>>)
    <3>1. /\ HeapInv'
          /\ events' = (events \ {First}) \cup {At(tick.time, counter, tick.kind, tick.pid)}
      BY <1>1, <1>5, <2>2, RescheduleOne
    <3>2. At(tick.time, counter, tick.kind, tick.pid).kind = "perturb"
      BY <1>5 DEF At
    <3>3. QED
      BY <1>1, <3>1, <3>2 DEF TypeInv, Pids
  <2>3. QED
    BY <1>6, <2>1, <2>2
<1>8. TypeOK'
  BY <1>1, <1>3, <1>4, <1>7 DEF TypeInv, TypeOK, HeapInv, netVars, endVars
<1>9. QED
  BY <1>1, <1>7, <1>8 DEF TypeInv

LEMMA FinishTyped ==
  ASSUME TypeInv, Finish
  PROVE  TypeInv'
<1>1. events' \subseteq events /\ running' = FALSE /\ inFlight' \subseteq DOMAIN packets
  BY DEF Finish
<1>2. UNCHANGED <<clock, counter, packets, retransmissions, netVars, graphVars, endVars>>
  BY DEF Finish
<1>3. TypeOK'
  BY <1>1, <1>2 DEF TypeInv, TypeOK, netVars, graphVars, endVars
<1>4. HeapInv' /\ Pids'
  BY <1>1, <1>2 DEF TypeInv, HeapInv, SeqUnique, Pids
<1>5. QED
  BY <1>2, <1>3, <1>4 DEF TypeInv

LEMMA InitTyped ==
  ASSUME Init
  PROVE  TypeInv
<1> DEFINE start == At(0, 0, "generate", {})
           tick == At(PerturbInterval, 1, "perturb", {})
<1>1. start \in EventType /\ tick \in EventType /\ start.seq = 0 /\ tick.seq = 1
      /\ start.kind = "generate" /\ tick.kind = "perturb"
  BY EventSimAssumption DEF At, EventType
<1>2. events = {start} \/ events = {start, tick}
  BY DEF Init
<1>3. Cardinality({start}) = 1 /\ Cardinality({start, tick}) = 2
  <2> HIDE DEF start, tick
  <2>1. start # tick
    BY <1>1
  <2>2. IsFiniteSet({start}) /\ Cardinality({start}) = 1
    BY FS_Singleton
  <2>3. Cardinality({start} \cup {tick}) = 2
    BY <2>1, <2>2, FS_AddElement
  <2>4. {start} \cup {tick} = {start, tick}
    OBVIOUS
  <2>5. QED
    BY <2>2, <2>3, <2>4
<1>4. HeapInv
  <2>1. clock = 0 /\ counter = Cardinality(events)
    BY DEF Init
  <2> HIDE DEF start, tick
  <2>2. CASE events = {start}
    BY <1>1, <1>3, <2>1, <2>2 DEF HeapInv, SeqUnique, EventType
  <2>3. CASE events = {start, tick}
    BY <1>1, <1>3, <2>1, <2>3 DEF HeapInv, SeqUnique, EventType
  <2>4. QED
    BY <1>2, <2>2, <2>3
<1>5. DOMAIN packets = {} /\ packets = <<>> /\ IsFiniteSet({}) /\ Cardinality({}) = 0
  BY FS_EmptySet DEF Init
<1>6. Pids
  BY <1>1, <1>2 DEF Pids
<1>7. packets \in [0..(Cardinality(DOMAIN packets) - 1) -> PacketType]
  <2>1. 0..(Cardinality(DOMAIN packets) - 1) = {}
    BY <1>5
  <2>2. packets = [i \in {} |-> packets[i]]
    BY <1>5
  <2>3. QED
    BY <2>1, <2>2
<1>8. TypeOK
  BY <1>4, <1>7 DEF Init, TypeOK, HeapInv
<1>9. QED
  BY <1>4, <1>5, <1>6, <1>8 DEF TypeInv

LEMMA TypeStep ==
  ASSUME TypeInv, [Next]_vars
  PROVE  TypeInv'
<1>1. CASE UNCHANGED vars
  BY <1>1 DEF TypeInv, TypeOK, HeapInv, SeqUnique, Pids, vars, netVars, graphVars, endVars
<1>2. CASE Generate
  BY <1>2, GenerateTyped
<1>3. CASE Arrive
  BY <1>3, ArriveTyped
<1>4. CASE Perturb
  BY <1>4, PerturbTyped
<1>5. CASE Finish
  BY <1>5, FinishTyped
<1>6. QED
  BY <1>1, <1>2, <1>3, <1>4, <1>5 DEF Next, Returned

\* The simulator stays well-typed whatever the overlay and the traffic (all of
\* event_sim.py): no ttl, latency or waiting time ever goes below zero.
THEOREM SimTypesHold == Spec => []TypeOK
<1>1. Init => TypeInv
  BY InitTyped
<1>2. TypeInv /\ [Next]_vars => TypeInv'
  BY TypeStep
<1>3. TypeInv => TypeOK
  BY DEF TypeInv
<1>4. QED
  BY <1>1, <1>2, <1>3, PTL DEF Spec

-----------------------------------------------------------------------------
(* Time, queues and churn *)

\* One use of a link by online nodes: a lost frame leaves the queue alone, a carried one
\* starts when the link is free and keeps it until it is queued through.
NewUse(u) ==
  /\ slots' = slots \cup {u}
  /\ u.sent = clock' /\ u.hop[1] \notin offline /\ u.hop[2] \notin offline
  /\ \/ u.lost /\ UNCHANGED linkAvailable
     \/ /\ ~u.lost /\ u.start >= linkAvailable[u.hop] /\ u.queued >= u.start
        /\ linkAvailable' = [linkAvailable EXCEPT ![u.hop] = u.queued]

LEMMA ArriveUses ==
  ASSUME TypeInv, Arrive
  PROVE  UNCHANGED netVars \/ \E u \in SlotType : NewUse(u)
<1>1. First \in events /\ First.kind = "arrive" /\ clock' \in Nat
  BY TakenEvent DEF Arrive
<1>2. PICK pid \in First.pid :
        \/ UNCHANGED netVars
        \/ MayRelay(packets[pid]) /\ Relay(pid, Visit(packets[pid]))
  BY DEF Arrive
<1>3. pid \in DOMAIN packets
  BY <1>1 DEF TypeInv, Pids
<1> DEFINE p == Visit(packets[pid])
<1>4. CASE UNCHANGED netVars
  BY <1>4
<1>5. CASE MayRelay(packets[pid]) /\ Relay(pid, p)
  <2>1. packets[pid] \in PacketType
    BY <1>3, PacketDomain
  <2>2. p \in PacketType /\ p.node \in Node /\ p.node \notin offline
    BY <1>5, <2>1 DEF Visit, MayRelay, PacketType
  <2> HIDE DEF p
  <2>3. ASSUME NEW nxt \in NextHops(p.node, p.dst, p.visited),
               DropLost(pid, p, nxt) \/ Transmit(pid, p, nxt)
        PROVE  \E u \in SlotType : NewUse(u)
    <3>1. nxt \in Adj[p.node] /\ nxt \notin offline
      BY <2>2, HopsReachable
    <3> DEFINE hop == <<p.node, nxt>>
    <3>2. CASE DropLost(pid, p, nxt)
      <4> DEFINE u == Use(pid, p, nxt, clock', LinkRetries + 1, TRUE)
      <4>1. LinkRetries + 1 \in Nat
        BY EventSimAssumption
      <4>2. u \in SlotType
        BY <1>1, <1>3, <2>2, <3>1, <4>1, UseTyped
      <4>3. u.sent = clock' /\ u.hop[1] = p.node /\ u.hop[2] = nxt /\ u.lost
        BY DEF Use
      <4>4. slots' = slots \cup {u} /\ UNCHANGED linkAvailable
        BY <3>2 DEF DropLost
      <4> HIDE DEF u
      <4>5. NewUse(u)
        BY <2>2, <3>1, <4>3, <4>4 DEF NewUse
      <4>6. QED
        BY <4>2, <4>5
    <3>3. CASE Transmit(pid, p, nxt)
      <4> DEFINE start == StartTime(clock', hop)
      <4> DEFINE service == LinkOf(p, nxt).service
      <4>1. hop \in Hop /\ service \in Nat
        BY <2>2, <3>1, HopFacts
      <4>2. start \in Nat /\ start >= linkAvailable[hop]
        BY <1>1, <4>1, StartFacts
      <4>3. PICK failed \in IF Lossy THEN 0..LinkRetries ELSE {0} :
              /\ linkAvailable' = [linkAvailable EXCEPT ![hop] = start + service]
              /\ slots' = slots \cup {Use(pid, p, nxt, start, failed, FALSE)}
        BY <3>3 DEF Transmit
      <4>4. failed \in Nat
        BY EventSimAssumption
      <4> DEFINE u == Use(pid, p, nxt, start, failed, FALSE)
      <4>5. /\ u.sent = clock' /\ u.hop = hop /\ ~u.lost /\ u.start = start
            /\ u.queued = start + service
        BY DEF Use
      <4> HIDE DEF start, service
      <4>6. u \in SlotType
        BY <1>1, <1>3, <2>2, <3>1, <4>2, <4>4, UseTyped
      <4>7. slots' = slots \cup {u}
        BY <4>3
      <4>8. hop[1] = p.node /\ hop[2] = nxt
        OBVIOUS
      <4> HIDE DEF u, hop
      <4>9. u.queued >= u.start
        BY <4>1, <4>2, <4>5
      <4>10. NewUse(u)
        BY <2>2, <3>1, <4>2, <4>3, <4>5, <4>7, <4>8, <4>9 DEF NewUse
      <4>11. QED
        BY <4>6, <4>10
    <3>4. QED
      BY <2>3, <3>2, <3>3
  <2>4. ASSUME NEW nxt \in NextHops(p.node, p.dst, p.visited)
        PROVE  ~DropAtHop(pid, p, nxt)
    BY <2>2, HopsReachable DEF DropAtHop
  <2>5. QED
    BY <1>5, <2>3, <2>4 DEF Relay, p
<1>6. QED
  BY <1>2, <1>4, <1>5

LEMMA ClockStep ==
  ASSUME TypeInv, [Next]_vars
  PROVE  clock' >= clock /\ clock \in Nat /\ clock' \in Nat
<1>1. clock \in Nat
  BY DEF TypeInv, HeapInv
<1>2. CASE UNCHANGED clock
  BY <1>1, <1>2
<1>3. ASSUME NEW kind, Take(kind)
      PROVE  clock' >= clock /\ clock' \in Nat
  BY <1>3, TakenEvent
<1>4. QED
  BY <1>1, <1>2, <1>3 DEF Next, Generate, Arrive, Perturb, Finish, Returned, vars

\* What a link has served bounds when it is free again, and nothing was offered to it
\* after the present.
QueueBound ==
  \A s \in slots : ~s.lost => s.queued <= linkAvailable[s.hop] /\ s.sent <= clock

FifoInv == LinkFifo /\ QueueBound

LEMMA FifoStep ==
  ASSUME TypeInv, FifoInv, [Next]_vars
  PROVE  FifoInv'
<1>1. clock' >= clock /\ clock \in Nat /\ clock' \in Nat
  BY ClockStep
<1>2. \A s \in slots : s.sent \in Nat /\ s.queued \in Nat /\ s.start \in Nat
                       /\ s.hop \in Hop /\ linkAvailable[s.hop] \in Nat
  BY DEF TypeInv, TypeOK, SlotType
<1>3. CASE UNCHANGED netVars
  <2>1. LinkFifo'
    BY <1>3 DEF FifoInv, LinkFifo, netVars
  <2>2. ASSUME NEW s \in slots, ~s.lost
        PROVE  s.sent <= clock'
    BY <1>1, <1>2, <2>2 DEF FifoInv, QueueBound
  <2>3. QueueBound'
    BY <1>3, <2>2 DEF FifoInv, QueueBound, netVars
  <2>4. QED
    BY <2>1, <2>3 DEF FifoInv
<1>4. ASSUME NEW u \in SlotType, NewUse(u)
      PROVE  FifoInv'
  <2>1. /\ u.sent \in Nat /\ u.queued \in Nat /\ u.start \in Nat /\ u.hop \in Hop
        /\ linkAvailable \in [Hop -> Nat]
    BY DEF SlotType, TypeInv, TypeOK
  <2>2. ASSUME NEW s \in slots, ~s.lost, ~u.lost, s.hop = u.hop
        PROVE  s.queued <= u.start /\ s.sent <= u.sent
    BY <1>1, <1>2, <1>4, <2>1, <2>2 DEF FifoInv, QueueBound, NewUse
  <2>3. LinkFifo'
    <3>1. SUFFICES ASSUME NEW s \in slots', NEW t \in slots', ~s.lost, ~t.lost,
                          s # t, s.hop = t.hop
                   PROVE  \/ s.queued <= t.start /\ s.sent <= t.sent
                          \/ t.queued <= s.start /\ t.sent <= s.sent
      BY DEF LinkFifo
    <3>2. CASE s \in slots /\ t \in slots
      BY <3>1, <3>2 DEF FifoInv, LinkFifo
    <3>3. CASE s \in slots /\ t = u
      BY <2>2, <3>1, <3>3
    <3>4. CASE s = u /\ t \in slots
      BY <2>2, <3>1, <3>4
    <3>5. QED
      BY <1>4, <3>1, <3>2, <3>3, <3>4 DEF NewUse
  <2>4. QueueBound'
    <3>1. SUFFICES ASSUME NEW s \in slots', ~s.lost
                   PROVE  s.queued <= linkAvailable'[s.hop] /\ s.sent <= clock'
      BY DEF QueueBound
    <3>2. CASE s \in slots
      <4>1. s.queued <= linkAvailable[s.hop] /\ s.sent <= clock
        BY <3>1, <3>2 DEF FifoInv, QueueBound
      <4>2. s.sent <= clock'
        BY <1>1, <1>2, <3>2, <4>1
      <4>3. CASE UNCHANGED linkAvailable
        BY <4>1, <4>2, <4>3
      <4>4. CASE /\ u.start >= linkAvailable[u.hop] /\ u.queued >= u.start
                 /\ linkAvailable' = [linkAvailable EXCEPT ![u.hop] = u.queued]
        BY <1>2, <2>1, <3>2, <4>1, <4>2, <4>4
      <4>5. QED
        BY <1>4, <4>3, <4>4 DEF NewUse
    <3>3. CASE s = u
      BY <1>1, <1>4, <2>1, <3>1, <3>3 DEF NewUse
    <3>4. QED
      BY <1>4, <3>2, <3>3 DEF NewUse
  <2>5. QED
    BY <2>3, <2>4 DEF FifoInv
<1>5. CASE Arrive
  BY <1>3, <1>4, <1>5, ArriveUses
<1>6. QED
  BY <1>3, <1>5 DEF Next, Generate, Perturb, Finish, Returned, vars

\* Simulated time never runs backwards (run, _schedule): for every overlay, churn and drift.
THEOREM ClockMonotoneHolds == Spec => ClockMonotone
<1>1. Init => TypeInv
  BY InitTyped
<1>2. TypeInv /\ [Next]_vars => TypeInv' /\ [clock' >= clock]_vars
  BY TypeStep, ClockStep
<1>3. QED
  BY <1>1, <1>2, PTL DEF Spec, ClockMonotone

\* Every directed link is a serial first-in first-out queue (_link_available).
THEOREM LinkFifoHolds == Spec => []LinkFifo
<1>1. Init => TypeInv /\ FifoInv
  BY InitTyped DEF Init, FifoInv, LinkFifo, QueueBound
<1>2. TypeInv /\ FifoInv /\ [Next]_vars => TypeInv' /\ FifoInv'
  BY TypeStep, FifoStep
<1>3. FifoInv => LinkFifo
  BY DEF FifoInv
<1>4. QED
  BY <1>1, <1>2, <1>3, PTL DEF Spec

\* Nodes that are offline neither send nor are sent to (lines 198-202, 217-221).
THEOREM OfflineRelaysNothingHolds == Spec => OfflineRelaysNothing
<1>1. Init => TypeInv
  BY InitTyped
<1>2. ASSUME TypeInv, [Next]_vars
      PROVE  \A s \in slots' \ slots : s.hop[1] \notin offline /\ s.hop[2] \notin offline
  <2>1. CASE UNCHANGED netVars
    BY <2>1 DEF netVars
  <2>2. CASE Arrive
    BY <1>2, <2>1, <2>2, ArriveUses DEF NewUse
  <2>3. QED
    BY <1>2, <2>1, <2>2 DEF Next, Generate, Perturb, Finish, Returned, vars
<1>3. TypeInv /\ [Next]_vars => TypeInv'
  BY TypeStep
<1>4. QED
  BY <1>1, <1>2, <1>3, PTL DEF Spec, OfflineRelaysNothing

\* run stops only when every event still in the heap is late (line 124).
THEOREM NothingDueAbandonedHolds == Spec => NothingDueAbandoned
<1>1. Init => TypeInv
  BY InitTyped
<1>2. ASSUME TypeInv, [Next]_vars, running, ~running'
      PROVE  \A pid \in inFlight' : \A e \in Arrivals(pid) : e.time > EndTime
  <2>1. Finish
    BY <1>2 DEF Next, Generate, Arrive, Perturb, Returned, vars
  <2>2. ASSUME NEW e \in events
        PROVE  e.time > EndTime
    <3>1. First \in events /\ First.time <= e.time /\ First.time > EndTime
      BY <1>2, <2>1, <2>2, FirstEvent DEF Finish, Over, TypeInv
    <3>2. e.time \in Nat /\ First.time \in Nat /\ EndTime \in Nat
      BY <1>2, <3>1, EventSimAssumption DEF TypeInv, HeapInv, EventType
    <3>3. QED
      BY <3>1, <3>2
  <2>3. QED
    BY <2>2 DEF Arrivals
<1>3. TypeInv /\ [Next]_vars => TypeInv'
  BY TypeStep
<1>4. QED
  BY <1>1, <1>2, <1>3, PTL DEF Spec, NothingDueAbandoned

-----------------------------------------------------------------------------
(* What an arrival does to its packet *)

\* The packet's record is replaced by q; where it comes from and goes to is fixed.
Replaces(pid, q) ==
  /\ packets' = [packets EXCEPT ![pid] = q]
  /\ q.src = packets[pid].src /\ q.dst = packets[pid].dst

\* A frame of the packet is offered to a link now, and nothing else is: its hop is the
\* one to blame.
Offers(pid, q, u) ==
  /\ slots' = slots \cup {u}
  /\ u.pid = pid /\ u.sent = clock' /\ q.last = {u.hop}
  /\ q.touched = (packets[pid].touched \/ u.hop[2] \in Sybil)
  /\ q.transit = (packets[pid].transit \/ (u.hop[2] \in Sybil /\ u.hop[2] # q.dst))

OffersNothing(pid, q) ==
  /\ slots' = slots /\ q.last = packets[pid].last
  /\ q.touched = packets[pid].touched /\ q.transit = packets[pid].transit

Tells(pid, q, verdict) ==
  told' = told \cup {[pid |-> pid, hop |-> h, verdict |-> verdict] : h \in q.last}

\* The packet is delivered or dropped, and leaves the heap.
Ends(pid, q) ==
  /\ events' = events \ {First}
  /\ \/ /\ packets[pid].node = q.dst /\ OffersNothing(pid, q)
        /\ delivered' = Append(delivered, pid) /\ dropped' = dropped
        /\ Tells(pid, q, "delivered")
     \/ /\ OffersNothing(pid, q)
        /\ delivered' = delivered
        /\ dropped' = Append(dropped, [pid |-> pid, reason |-> "node_down"])
        /\ told' = told
     \/ \E why \in Reason \ {"node_down"} :
          /\ delivered' = delivered
          /\ dropped' = Append(dropped, [pid |-> pid, reason |-> why])
          /\ Tells(pid, q, Observable(why))

\* The packet is on its way to the next node.
Moves(pid, q) ==
  /\ UNCHANGED endVars
  /\ \E e \in EventType :
       /\ events' = (events \ {First}) \cup {e}
       /\ e.kind = "arrive" /\ e.pid = {pid} /\ e.time > clock'
  /\ \A h \in q.last : h[2] = q.node

Takes(pid, q) ==
  /\ Replaces(pid, q)
  /\ Ends(pid, q) \/ Moves(pid, q)
  /\ OffersNothing(pid, q) \/ \E u \in SlotType : Offers(pid, q, u)

LEMMA SettleTakes ==
  ASSUME TypeInv, NEW pid \in DOMAIN packets, Settle(pid, packets[pid]),
         events' = events \ {First}, UNCHANGED netVars
  PROVE  Takes(pid, packets[pid])
<1> DEFINE p == packets[pid]
<1>1. packets = [packets EXCEPT ![pid] = p] /\ slots' = slots
  BY DEF netVars, TypeInv, TypeOK
<1>2. packets' = [packets EXCEPT ![pid] = p]
  BY <1>1 DEF Settle, Deliver, DropAtOffline, Drop, DropQuietly
<1>3. Replaces(pid, p) /\ OffersNothing(pid, p)
  BY <1>1, <1>2 DEF Replaces, OffersNothing
<1>4. Ends(pid, p)
  <2>1. CASE p.node = p.dst /\ Deliver(pid, p)
    BY <1>3, <2>1 DEF Ends, Deliver, Notify, Observable, Tells
  <2>2. CASE DropAtOffline(pid, p)
    BY <1>3, <2>2 DEF Ends, DropAtOffline, DropQuietly
  <2>3. ASSUME NEW why \in {"ttl_expired", "loop"}, Drop(pid, p, why)
        PROVE  Ends(pid, p)
    <3>1. why \in Reason \ {"node_down"}
      BY DEF Reason
    <3>2. QED
      BY <2>3, <3>1 DEF Ends, Drop, DropQuietly, Notify, Tells
  <2>4. QED
    BY <2>1, <2>2, <2>3 DEF Settle
<1>5. QED
  BY <1>3, <1>4 DEF Takes

LEMMA ArriveShape ==
  ASSUME TypeInv, Arrive
  PROVE  /\ First \in events /\ First.kind = "arrive" /\ clock' = First.time
         /\ \E pid \in DOMAIN packets, q \in PacketType :
              First.pid = {pid} /\ Takes(pid, q)
<1>1. Take("arrive")
  BY DEF Arrive
<1>2. First \in events /\ First.kind = "arrive" /\ clock' \in Nat /\ clock' = First.time
  BY <1>1, TakenEvent
<1>3. PICK pid \in First.pid :
        \/ /\ Settle(pid, packets[pid])
           /\ Reschedule(<<>>) /\ UNCHANGED netVars
        \/ MayRelay(packets[pid]) /\ Relay(pid, Visit(packets[pid]))
  BY DEF Arrive
<1>4. pid \in DOMAIN packets /\ First.pid = {pid}
  BY <1>2 DEF TypeInv, Pids
<1> DEFINE p == Visit(packets[pid])
<1>5. packets[pid] \in PacketType
  BY <1>4, PacketDomain
<1>6. /\ p \in PacketType /\ p.node \in Node
      /\ p.src = packets[pid].src /\ p.dst = packets[pid].dst
      /\ p.touched = packets[pid].touched /\ p.transit = packets[pid].transit
      /\ p.last = packets[pid].last
  BY <1>5 DEF Visit, PacketType
<1>7. Reschedule(<<>>) => events' = events \ {First}
  BY <1>1, RescheduleNothing
<1> HIDE DEF p
<1>8. CASE Settle(pid, packets[pid]) /\ Reschedule(<<>>) /\ UNCHANGED netVars
  BY <1>2, <1>4, <1>5, <1>7, <1>8, SettleTakes
<1>9. CASE MayRelay(packets[pid]) /\ Relay(pid, p)
  <2>1. CASE Drop(pid, p, "no_route") /\ Reschedule(<<>>) /\ UNCHANGED netVars
    <3>1. Replaces(pid, p) /\ OffersNothing(pid, p)
      BY <1>6, <2>1 DEF Replaces, OffersNothing, Drop, DropQuietly, netVars
    <3>2. "no_route" \in Reason \ {"node_down"} /\ Observable("no_route") = "no_route"
      BY DEF Reason, Observable
    <3>3. Ends(pid, p)
      BY <1>7, <2>1, <3>2 DEF Ends, Drop, DropQuietly, Notify, Tells
    <3>4. QED
      BY <1>2, <1>4, <1>6, <3>1, <3>3 DEF Takes
  <2>2. ASSUME NEW nxt \in NextHops(p.node, p.dst, p.visited),
               DropLost(pid, p, nxt) \/ Transmit(pid, p, nxt)
        PROVE  \E q \in PacketType : Takes(pid, q)
    <3>1. nxt \in Adj[p.node]
      BY <1>6, HopsReachable
    <3> DEFINE a == Attempt(p, nxt)
    <3>2. /\ a \in PacketType /\ a.src = p.src /\ a.dst = p.dst
          /\ a.last = {<<p.node, nxt>>} /\ a.touched = (p.touched \/ nxt \in Sybil)
          /\ a.transit = (p.transit \/ (nxt \in Sybil /\ nxt # p.dst))
      <4>1. a \in PacketType
        BY <1>6, <3>1, AttemptTyped
      <4>2. QED
        BY <1>6, <4>1 DEF Attempt, PacketType
    <3>3. ASSUME NEW u, NEW q, slots' = slots \cup {u}, u.pid = pid, u.sent = clock',
                 u.hop = <<p.node, nxt>>, q.dst = p.dst, q.last = a.last,
                 q.touched = a.touched, q.transit = a.transit
          PROVE  Offers(pid, q, u)
      <4>1. u.hop[2] = nxt /\ q.last = {u.hop}
        BY <3>2, <3>3
      <4>2. QED
        BY <1>6, <3>2, <3>3, <4>1 DEF Offers
    <3> HIDE DEF a
    <3>4. CASE DropLost(pid, p, nxt)
      <4> DEFINE u == Use(pid, p, nxt, clock', LinkRetries + 1, TRUE)
      <4>1. u \in SlotType
        <5>1. LinkRetries + 1 \in Nat
          BY EventSimAssumption
        <5>2. QED
          BY <1>2, <1>4, <1>6, <3>1, <5>1, UseTyped
      <4>2. u.pid = pid /\ u.sent = clock' /\ u.hop = <<p.node, nxt>>
        BY DEF Use
      <4>3. slots' = slots \cup {u} /\ Reschedule(<<>>)
        BY <3>4 DEF DropLost
      <4> HIDE DEF u
      <4>4. Offers(pid, a, u)
        BY <3>2, <3>3, <4>2, <4>3
      <4>5. PICK why \in Reason \ {"node_down"} : Drop(pid, a, why)
        BY <3>4 DEF DropLost, LossExposure, Reason, a
      <4>6. Replaces(pid, a)
        BY <1>6, <3>2, <4>5 DEF Drop, DropQuietly, Replaces
      <4>7. Ends(pid, a)
        BY <1>7, <4>3, <4>5 DEF Ends, Drop, DropQuietly, Notify, Tells
      <4>8. QED
        BY <3>2, <4>1, <4>4, <4>6, <4>7 DEF Takes
    <3>5. CASE Transmit(pid, p, nxt)
      <4> DEFINE start == StartTime(clock', <<p.node, nxt>>)
      <4>1. PICK failed \in IF Lossy THEN 0..LinkRetries ELSE {0} :
              /\ packets' = [packets EXCEPT ![pid] = Carried(p, nxt, start - clock', failed)]
              /\ slots' = slots \cup {Use(pid, p, nxt, start, failed, FALSE)}
              /\ Reschedule(<<Due(start + Round(p, nxt), "arrive", {pid})>>)
              /\ UNCHANGED endVars
        BY <3>5 DEF Transmit
      <4>2. failed \in Nat
        BY EventSimAssumption
      <4>3. /\ <<p.node, nxt>> \in Hop
            /\ LinkOf(p, nxt).latency \in Nat /\ LinkOf(p, nxt).service \in Nat \ {0}
        BY <1>6, <3>1, HopFacts
      <4>4. start \in Nat /\ start >= clock' /\ start - clock' \in Nat
        <5>1. start \in Nat /\ start >= clock'
          BY <1>2, <4>3, StartFacts
        <5> HIDE DEF start
        <5>2. QED
          BY <1>2, <5>1
      <4>5. start + Round(p, nxt) \in Nat /\ start + Round(p, nxt) > clock'
        <5>1. Round(p, nxt) \in Nat \ {0}
          BY <4>3 DEF Round
        <5> HIDE DEF start
        <5>2. QED
          BY <1>2, <4>4, <5>1
      <4> DEFINE u == Use(pid, p, nxt, start, failed, FALSE)
                 q == Carried(p, nxt, start - clock', failed)
                 due == Due(start + Round(p, nxt), "arrive", {pid})
      <4>6. u \in SlotType
        <5> HIDE DEF start
        <5>1. QED
          BY <1>2, <1>4, <1>6, <3>1, <4>2, <4>4, UseTyped
      <4>7. u.pid = pid /\ u.sent = clock' /\ u.hop = <<p.node, nxt>>
        BY DEF Use
      <4>8. p.ttl > 0
        BY <1>5, <1>9 DEF MayRelay, Visit, p, PacketType
      <4>9. /\ q \in PacketType /\ q.src = a.src /\ q.dst = a.dst /\ q.node = nxt
            /\ q.last = a.last /\ q.touched = a.touched /\ q.transit = a.transit
        <5> HIDE DEF start
        <5>1. q \in PacketType
          BY <1>6, <3>1, <4>2, <4>4, <4>8, CarriedTyped
        <5>2. QED
          BY <3>2, <5>1 DEF Carried, a, PacketType
      <4>10. /\ due \in DueType /\ due.time >= clock' /\ due.time > clock'
             /\ due.kind = "arrive" /\ due.pid = {pid}
        <5>1. {pid} \in SUBSET Nat
          BY <1>4, PacketDomain
        <5>2. QED
          BY <1>2, <4>5, <5>1 DEF Due, DueType
      <4>11. slots' = slots \cup {u} /\ Reschedule(<<due>>) /\ UNCHANGED endVars
             /\ packets' = [packets EXCEPT ![pid] = q]
        BY <4>1
      <4> HIDE DEF u, q, due, start
      <4>12. Offers(pid, q, u)
        BY <3>2, <3>3, <4>7, <4>9, <4>11
      <4>13. Replaces(pid, q)
        BY <1>6, <3>2, <4>9, <4>11 DEF Replaces
      <4> DEFINE e == At(due.time, counter, due.kind, due.pid)
      <4>14. HeapInv' /\ events' = (events \ {First}) \cup {e}
        BY <1>1, <4>10, <4>11, RescheduleOne
      <4>15. e \in EventType /\ e.kind = "arrive" /\ e.pid = {pid} /\ e.time > clock'
        BY <4>10 DEF At, EventType, DueType, TypeInv, HeapInv
      <4> HIDE DEF e
      <4>16. \A h \in q.last : h[2] = q.node
        BY <3>2, <4>9
      <4>17. Moves(pid, q)
        BY <4>11, <4>14, <4>15, <4>16 DEF Moves
      <4>18. QED
        BY <4>6, <4>9, <4>12, <4>13, <4>17 DEF Takes
    <3>6. QED
      BY <2>2, <3>4, <3>5
  <2>3. ASSUME NEW nxt \in NextHops(p.node, p.dst, p.visited)
        PROVE  ~DropAtHop(pid, p, nxt)
    BY <1>6, HopsReachable DEF DropAtHop
  <2>4. QED
    BY <1>2, <1>4, <1>9, <2>1, <2>2, <2>3 DEF Relay
<1>10. QED
  BY <1>3, <1>8, <1>9 DEF p

-----------------------------------------------------------------------------
(* Every packet is accounted for once *)

AccountInv ==
  /\ \A pid \in DOMAIN packets : \A e, f \in Arrivals(pid) : e = f
  /\ \A pid \in Completed : Arrivals(pid) = {}
  /\ \A i, j \in DOMAIN delivered : delivered[i] = delivered[j] => i = j
  /\ \A i, j \in DOMAIN dropped : dropped[i].pid = dropped[j].pid => i = j
  /\ \A i \in DOMAIN delivered, j \in DOMAIN dropped : delivered[i] # dropped[j].pid
  /\ running => \A pid \in DOMAIN packets \ Completed : Arrivals(pid) # {}
  /\ ~running => inFlight = DOMAIN packets \ Completed

LEMMA CompletedIs ==
  Completed = {delivered[i] : i \in DOMAIN delivered} \cup {dropped[j].pid : j \in DOMAIN dropped}
BY DEF Completed, Range

\* The lists as the proofs read them.
LEMMA ListFacts ==
  ASSUME TypeInv
  PROVE  /\ Len(delivered) \in Nat /\ DOMAIN delivered = 1..Len(delivered)
         /\ Len(dropped) \in Nat /\ DOMAIN dropped = 1..Len(dropped)
         /\ Completed \subseteq DOMAIN packets
<1>1. delivered \in Seq(DOMAIN packets) /\ dropped \in Seq(DropRecord)
  BY DEF TypeInv, TypeOK, DropRecord
<1>2. /\ Len(delivered) \in Nat /\ DOMAIN delivered = 1..Len(delivered)
      /\ Len(dropped) \in Nat /\ DOMAIN dropped = 1..Len(dropped)
  BY <1>1
<1>3. /\ \A i \in DOMAIN delivered : delivered[i] \in DOMAIN packets
      /\ \A j \in DOMAIN dropped : dropped[j] \in DropRecord
  BY <1>1
<1>4. QED
  BY <1>2, <1>3, CompletedIs DEF DropRecord

\* What the end of a packet adds to the lists.
LEMMA EndsLists ==
  ASSUME TypeInv, NEW pid \in DOMAIN packets, NEW q, Ends(pid, q)
  PROVE  /\ Completed' = Completed \cup {pid}
         /\ \/ /\ dropped' = dropped /\ DOMAIN delivered' = DOMAIN delivered \cup {Len(delivered) + 1}
               /\ \A i \in DOMAIN delivered : delivered'[i] = delivered[i]
               /\ delivered'[Len(delivered) + 1] = pid
            \/ /\ delivered' = delivered /\ DOMAIN dropped' = DOMAIN dropped \cup {Len(dropped) + 1}
               /\ \A j \in DOMAIN dropped : dropped'[j] = dropped[j]
               /\ dropped'[Len(dropped) + 1].pid = pid
<1>1. delivered \in Seq(DOMAIN packets) /\ dropped \in Seq(DropRecord)
  BY DEF TypeInv, TypeOK, DropRecord
<1>2. CASE delivered' = Append(delivered, pid) /\ dropped' = dropped
  <2>1. /\ DOMAIN delivered' = DOMAIN delivered \cup {Len(delivered) + 1}
        /\ \A i \in DOMAIN delivered : delivered'[i] = delivered[i]
        /\ delivered'[Len(delivered) + 1] = pid
    BY <1>1, <1>2
  <2>2. Completed' = {delivered'[i] : i \in DOMAIN delivered'} \cup {dropped'[j].pid : j \in DOMAIN dropped'}
    BY DEF Completed, Range
  <2>3. {delivered'[i] : i \in DOMAIN delivered'} = {delivered[i] : i \in DOMAIN delivered} \cup {pid}
    BY <2>1
  <2>4. QED
    BY <1>2, <2>1, <2>2, <2>3, CompletedIs
<1>3. ASSUME NEW why \in Reason, delivered' = delivered,
             dropped' = Append(dropped, [pid |-> pid, reason |-> why])
      PROVE  /\ Completed' = Completed \cup {pid}
             /\ DOMAIN dropped' = DOMAIN dropped \cup {Len(dropped) + 1}
             /\ \A j \in DOMAIN dropped : dropped'[j] = dropped[j]
             /\ dropped'[Len(dropped) + 1].pid = pid
  <2>1. [pid |-> pid, reason |-> why] \in DropRecord
    BY DEF DropRecord
  <2>2. /\ DOMAIN dropped' = DOMAIN dropped \cup {Len(dropped) + 1}
        /\ \A j \in DOMAIN dropped : dropped'[j] = dropped[j]
        /\ dropped'[Len(dropped) + 1] = [pid |-> pid, reason |-> why]
    BY <1>1, <1>3, <2>1
  <2>3. Completed' = {delivered'[i] : i \in DOMAIN delivered'} \cup {dropped'[j].pid : j \in DOMAIN dropped'}
    BY DEF Completed, Range
  <2>4. {dropped'[j].pid : j \in DOMAIN dropped'} = {dropped[j].pid : j \in DOMAIN dropped} \cup {pid}
    BY <2>2
  <2>5. QED
    BY <1>3, <2>2, <2>3, <2>4, CompletedIs
<1>4. "node_down" \in Reason
  BY DEF Reason
<1>5. QED
  BY <1>2, <1>3, <1>4 DEF Ends

\* The packet of the event taken is the only one whose place in the heap changes.
LEMMA ArrivalsOf ==
  ASSUME TypeInv, NEW pid \in DOMAIN packets, NEW q, Ends(pid, q) \/ Moves(pid, q),
         First \in events, First.kind = "arrive", First.pid = {pid}
  PROVE  /\ \A i \in DOMAIN packets \ {pid} : Arrivals(i)' = Arrivals(i)
         /\ Ends(pid, q) => Arrivals(pid)' = Arrivals(pid) \ {First}
         /\ Moves(pid, q) => \E e \in EventType :
              Arrivals(pid)' = (Arrivals(pid) \ {First}) \cup {e} /\ e.time > clock'
<1>1. CASE Ends(pid, q) /\ ~Moves(pid, q)
  <2>1. events' = events \ {First}
    BY <1>1 DEF Ends
  <2>2. QED
    BY <1>1, <2>1 DEF Arrivals
<1>2. CASE Moves(pid, q)
  <2>1. PICK e \in EventType :
          /\ events' = (events \ {First}) \cup {e}
          /\ e.kind = "arrive" /\ e.pid = {pid} /\ e.time > clock'
    BY <1>2 DEF Moves
  <2>2. ASSUME NEW i \in DOMAIN packets \ {pid}
        PROVE  Arrivals(i)' = Arrivals(i)
    BY <2>1 DEF Arrivals
  <2>3. Arrivals(pid)' = (Arrivals(pid) \ {First}) \cup {e}
    BY <2>1 DEF Arrivals
  <2>4. Ends(pid, q) => events' = events \ {First}
    BY DEF Ends
  <2>5. Ends(pid, q) => Arrivals(pid)' = Arrivals(pid) \ {First}
    BY <2>4 DEF Arrivals
  <2>6. QED
    BY <2>1, <2>2, <2>3, <2>5
<1>3. QED
  BY <1>1, <1>2

\* _handle_generate: one new packet, with one event in the heap.
LEMMA GenerateShape ==
  ASSUME TypeInv, Generate
  PROVE  \E pid \in Nat, f \in Flows :
           /\ pid \notin DOMAIN packets /\ DOMAIN packets' = DOMAIN packets \cup {pid}
           /\ \A i \in DOMAIN packets : packets'[i] = packets[i]
           /\ packets'[pid] = NewPacket(f, clock')
           /\ \A i \in DOMAIN packets : Arrivals(i)' = Arrivals(i)
           /\ \E e \in EventType : Arrivals(pid)' = {e}
<1>1. Take("generate")
  BY DEF Generate
<1>2. clock' \in Nat /\ First \in events /\ First.kind = "generate" /\ counter \in Nat
  BY <1>1, TakenEvent DEF TypeInv, HeapInv
<1>3. PICK pid \in Nat : pid = Cardinality(DOMAIN packets)
  BY PacketDomain
<1> DEFINE arrive == Due(clock', "arrive", {pid})
           later(gap) == Due(clock' + gap, "generate", {})
<1>4. PICK f \in Flows, gap \in Gaps \cup {0} :
        /\ packets' = [i \in DOMAIN packets \cup {pid} |->
                         IF i = pid THEN NewPacket(f, clock') ELSE packets[i]]
        /\ Reschedule(IF gap # 0 /\ clock' + gap <= Duration
                      THEN <<arrive, later(gap)>> ELSE <<arrive>>)
  BY <1>3 DEF Generate
<1>5. pid \in Nat /\ DOMAIN packets = 0..(pid - 1)
  BY <1>3, PacketDomain
<1>6. pid \notin DOMAIN packets
  BY <1>5
<1> DEFINE e == At(clock', counter, "arrive", {pid})
           g == At(clock' + gap, counter + 1, "generate", {})
<1>7. e \in EventType /\ e.kind = "arrive" /\ e.pid = {pid} /\ g.kind = "generate"
  BY <1>2, <1>5 DEF At, EventType
<1>8. events' = (events \ {First}) \cup {e} \/ events' = (events \ {First}) \cup {e, g}
  <2>1. CASE Reschedule(<<arrive>>)
    <3>1. DOMAIN <<arrive>> = {1} /\ <<arrive>>[1] = arrive /\ counter + 1 - 1 = counter
      BY <1>2
    <3>2. arrive.time = clock' /\ arrive.kind = "arrive" /\ arrive.pid = {pid}
      BY DEF Due
    <3> HIDE DEF arrive
    <3>3. events' = (events \ {First}) \cup {At(arrive.time, counter, arrive.kind, arrive.pid)}
      BY <2>1, <3>1 DEF Reschedule
    <3>4. QED
      BY <3>2, <3>3
  <2>2. CASE Reschedule(<<arrive, later(gap)>>)
    <3> DEFINE new == <<arrive, later(gap)>>
    <3>1. DOMAIN new = {1, 2} /\ new[1] = arrive /\ new[2] = later(gap)
      OBVIOUS
    <3>2. counter + 1 - 1 = counter /\ counter + 2 - 1 = counter + 1
      BY <1>2
    <3>3. /\ arrive.time = clock' /\ arrive.kind = "arrive" /\ arrive.pid = {pid}
          /\ later(gap).time = clock' + gap /\ later(gap).kind = "generate"
          /\ later(gap).pid = {}
      BY DEF Due
    <3>4. events' = (events \ {First}) \cup
             {At(new[i].time, counter + i - 1, new[i].kind, new[i].pid) : i \in DOMAIN new}
      BY <2>2 DEF Reschedule
    <3> HIDE DEF arrive, later, new
    <3>5. /\ At(new[1].time, counter + 1 - 1, new[1].kind, new[1].pid) = e
          /\ At(new[2].time, counter + 2 - 1, new[2].kind, new[2].pid) = g
      BY <3>1, <3>2, <3>3
    <3> HIDE DEF e, g
    <3>6. QED
      BY <3>1, <3>4, <3>5
  <2>3. QED
    BY <1>4, <2>1, <2>2
<1> HIDE DEF e, g
<1>9. \A d \in events : d.kind = "arrive" => d # First /\ d.pid # {pid}
  BY <1>2, <1>6 DEF TypeInv, Pids
<1>10. ASSUME NEW i \in DOMAIN packets
      PROVE  Arrivals(i)' = Arrivals(i)
  <2>1. e \notin Arrivals(i)' /\ g \notin Arrivals(i)'
    BY <1>6, <1>7 DEF Arrivals
  <2>2. QED
    BY <1>8, <1>9, <2>1 DEF Arrivals
<1>11. Arrivals(pid)' = {e}
  BY <1>7, <1>8, <1>9 DEF Arrivals
<1>12. /\ DOMAIN packets' = DOMAIN packets \cup {pid}
       /\ \A i \in DOMAIN packets : packets'[i] = packets[i]
       /\ packets'[pid] = NewPacket(f, clock')
  BY <1>4, <1>6
<1>13. QED
  BY <1>5, <1>6, <1>7, <1>10, <1>11, <1>12

\* A perturbation tick moves no packet.
LEMMA PerturbShape ==
  ASSUME TypeInv, Perturb
  PROVE  \A i \in DOMAIN packets : Arrivals(i)' = Arrivals(i)
<1>1. Take("perturb") /\ First.kind = "perturb"
  BY TakenEvent DEF Perturb
<1> DEFINE tick == Due(clock' + PerturbInterval, "perturb", {})
<1>2. Reschedule(<<tick>>) \/ Reschedule(<<>>)
  BY DEF Perturb
<1>3. CASE Reschedule(<<>>)
  BY <1>1, <1>3, RescheduleNothing DEF Arrivals
<1>4. CASE Reschedule(<<tick>>)
  <2>1. tick \in DueType /\ tick.time >= clock' /\ tick.kind = "perturb"
    BY <1>1, TakenEvent, EventSimAssumption DEF Due, DueType
  <2> HIDE DEF tick
  <2>2. events' = (events \ {First}) \cup {At(tick.time, counter, tick.kind, tick.pid)}
    BY <1>1, <1>4, <2>1, RescheduleOne
  <2>3. At(tick.time, counter, tick.kind, tick.pid).kind = "perturb"
    BY <2>1 DEF At
  <2>4. QED
    BY <1>1, <2>2, <2>3 DEF Arrivals
<1>5. QED
  BY <1>2, <1>3, <1>4

LEMMA AccountStep ==
  ASSUME TypeInv, AccountInv, [Next]_vars
  PROVE  AccountInv'
<1>1. CASE UNCHANGED vars
  <2>1. /\ running' = running /\ packets' = packets /\ inFlight' = inFlight
        /\ events' = events /\ delivered' = delivered /\ dropped' = dropped
    BY <1>1 DEF vars, endVars
  <2>2. Completed' = Completed /\ \A i : Arrivals(i)' = Arrivals(i)
    BY <2>1 DEF Completed, Arrivals
  <2>3. QED
    BY <2>1, <2>2 DEF AccountInv
<1>2. CASE Generate
  <2>1. PICK pid \in Nat, f \in Flows :
          /\ pid \notin DOMAIN packets /\ DOMAIN packets' = DOMAIN packets \cup {pid}
          /\ \A i \in DOMAIN packets : Arrivals(i)' = Arrivals(i)
          /\ \E e \in EventType : Arrivals(pid)' = {e}
    BY <1>2, GenerateShape
  <2>2. running' = running /\ running /\ delivered' = delivered /\ dropped' = dropped
    BY <1>2 DEF Generate, Take, endVars
  <2>3. Completed' = Completed /\ pid \notin Completed /\ Completed \subseteq DOMAIN packets
    BY <2>1, <2>2, ListFacts DEF Completed
  <2>4. QED
    BY <2>1, <2>2, <2>3 DEF AccountInv
<1>3. CASE Arrive
  <2>1. PICK pid \in DOMAIN packets, q \in PacketType :
          /\ First \in events /\ First.kind = "arrive" /\ First.pid = {pid} /\ Takes(pid, q)
    BY <1>3, ArriveShape
  <2>2. running /\ running' = running /\ DOMAIN packets' = DOMAIN packets
    BY <1>3, <2>1 DEF Arrive, Take, Takes, Replaces
  <2>3. First \in Arrivals(pid) /\ Arrivals(pid) \ {First} = {} /\ pid \notin Completed
    BY <2>1 DEF AccountInv, Arrivals
  <2>4. \A i \in DOMAIN packets \ {pid} : Arrivals(i)' = Arrivals(i)
    BY <2>1, ArrivalsOf DEF Takes
  <2>5. CASE Ends(pid, q)
    <3>1. Arrivals(pid)' = {}
      BY <2>1, <2>3, <2>5, ArrivalsOf
    <3>2. Completed' = Completed \cup {pid}
      BY <2>5, EndsLists
    <3>3. /\ \A i \in DOMAIN delivered : delivered[i] # pid
          /\ \A j \in DOMAIN dropped : dropped[j].pid # pid
      BY <2>3, CompletedIs
    <3>4. /\ Len(delivered) + 1 \notin DOMAIN delivered
          /\ Len(dropped) + 1 \notin DOMAIN dropped
      BY ListFacts
    <3>5. /\ \A i, j \in DOMAIN delivered' : delivered'[i] = delivered'[j] => i = j
          /\ \A i, j \in DOMAIN dropped' : dropped'[i].pid = dropped'[j].pid => i = j
          /\ \A i \in DOMAIN delivered', j \in DOMAIN dropped' : delivered'[i] # dropped'[j].pid
      BY <2>5, <3>3, <3>4, EndsLists DEF AccountInv
    <3>6. Completed \subseteq DOMAIN packets
      BY ListFacts
    <3>7. QED
      BY <2>2, <2>4, <3>1, <3>2, <3>5, <3>6 DEF AccountInv
  <2>6. CASE Moves(pid, q)
    <3>1. PICK e : Arrivals(pid)' = {e}
      <4>1. \E f \in EventType : Arrivals(pid)' = (Arrivals(pid) \ {First}) \cup {f}
        BY <2>1, <2>6, ArrivalsOf
      <4>2. QED
        BY <2>3, <4>1
    <3>2. delivered' = delivered /\ dropped' = dropped
      BY <2>6 DEF Moves, endVars
    <3>3. Completed' = Completed /\ Completed \subseteq DOMAIN packets
      BY <3>2, ListFacts DEF Completed
    <3>4. QED
      BY <2>2, <2>3, <2>4, <3>1, <3>2, <3>3 DEF AccountInv
  <2>7. QED
    BY <2>1, <2>5, <2>6 DEF Takes
<1>4. CASE Perturb
  <2>1. /\ running' = running /\ packets' = packets /\ inFlight' = inFlight
        /\ delivered' = delivered /\ dropped' = dropped
    BY <1>4 DEF Perturb, endVars
  <2>2. Completed' = Completed /\ Completed \subseteq DOMAIN packets
    BY <2>1, ListFacts DEF Completed
  <2>3. QED
    BY <1>4, <2>1, <2>2, PerturbShape DEF AccountInv
<1>5. CASE Finish
  <2>1. /\ events' \subseteq events /\ ~running' /\ packets' = packets
        /\ delivered' = delivered /\ dropped' = dropped
        /\ inFlight' = DOMAIN packets \ Completed
    BY <1>5 DEF Finish, endVars
  <2>2. Completed' = Completed
    BY <2>1 DEF Completed
  <2>3. \A i : Arrivals(i)' \subseteq Arrivals(i)
    BY <2>1 DEF Arrivals
  <2>4. QED
    BY <2>1, <2>2, <2>3 DEF AccountInv
<1>6. QED
  BY <1>1, <1>2, <1>3, <1>4, <1>5 DEF Next, Returned

\* A set whose elements are all equal has at most one.
LEMMA AtMostOne ==
  ASSUME NEW S, \A x, y \in S : x = y
  PROVE  Cardinality(S) = IF S = {} THEN 0 ELSE 1
<1>1. CASE S = {}
  BY <1>1, FS_EmptySet
<1>2. CASE S # {}
  <2>1. PICK x \in S : S = {x}
    BY <1>2
  <2>2. QED
    BY <1>2, <2>1, FS_Singleton
<1>3. QED
  BY <1>1, <1>2

\* The values of an injective list are as many as its entries.
LEMMA CountOnce ==
  ASSUME NEW n \in Nat, NEW f, NEW V, \A i, j \in 1..n : f[i] = f[j] => i = j,
         \A i \in 1..n : f[i] \in V, \A v \in V : \E i \in 1..n : f[i] = v
  PROVE  IsFiniteSet(V) /\ Cardinality(V) = n
<1> DEFINE g == [i \in 1..n |-> f[i]]
<1>1. g \in Bijection(1..n, V)
  BY DEF Bijection, Injection, Surjection, IsInjective
<1>2. ExistsBijection(1..n, V)
  BY <1>1 DEF ExistsBijection
<1>3. Cardinality(V) = n
  BY <1>2, FS_CountingElements
<1>4. IsFiniteSet(V)
  BY <1>2, FS_NatBijection
<1>5. QED
  BY <1>3, <1>4

LEMMA AccountConserves ==
  ASSUME TypeInv, AccountInv
  PROVE  Conservation
<1>1. ASSUME running, NEW pid \in DOMAIN packets
      PROVE  Cardinality(Arrivals(pid)) + Endings(pid) = 1
  <2> DEFINE D == {i \in DOMAIN delivered : delivered[i] = pid}
             X == {i \in DOMAIN dropped : dropped[i].pid = pid}
  <2>1. Cardinality(Arrivals(pid)) = IF Arrivals(pid) = {} THEN 0 ELSE 1
    BY AtMostOne DEF AccountInv
  <2>2. Cardinality(D) = IF D = {} THEN 0 ELSE 1
    <3>1. \A i, j \in D : i = j
      BY DEF AccountInv
    <3>2. QED
      BY <3>1, AtMostOne
  <2>3. Cardinality(X) = IF X = {} THEN 0 ELSE 1
    <3>1. \A i, j \in X : i = j
      BY DEF AccountInv
    <3>2. QED
      BY <3>1, AtMostOne
  <2>4. D = {} \/ X = {}
    BY DEF AccountInv
  <2>5. pid \in Completed <=> (D # {} \/ X # {})
    BY CompletedIs
  <2>6. Arrivals(pid) = {} <=> pid \in Completed
    BY <1>1 DEF AccountInv
  <2>7. Endings(pid) = Cardinality(D) + Cardinality(X)
    BY DEF Endings
  <2> HIDE DEF D, X
  <2>8. QED
    BY <2>1, <2>2, <2>3, <2>4, <2>5, <2>6, <2>7
<1>2. ASSUME ~running
      PROVE  Cardinality(DOMAIN packets) = Len(delivered) + Len(dropped) + Cardinality(inFlight)
  <2> DEFINE D == {delivered[i] : i \in 1..Len(delivered)}
             pids == [j \in 1..Len(dropped) |-> dropped[j].pid]
             X == {pids[j] : j \in 1..Len(dropped)}
  <2>1. IsFiniteSet(D) /\ Cardinality(D) = Len(delivered)
    <3>1. /\ Len(delivered) \in Nat
          /\ \A i, j \in 1..Len(delivered) : delivered[i] = delivered[j] => i = j
          /\ \A i \in 1..Len(delivered) : delivered[i] \in D
          /\ \A v \in D : \E i \in 1..Len(delivered) : delivered[i] = v
      BY ListFacts DEF AccountInv
    <3> HIDE DEF D
    <3>2. QED
      BY <3>1, CountOnce
  <2>2. IsFiniteSet(X) /\ Cardinality(X) = Len(dropped)
    <3>1. /\ Len(dropped) \in Nat
          /\ \A i, j \in 1..Len(dropped) : pids[i] = pids[j] => i = j
          /\ \A i \in 1..Len(dropped) : pids[i] \in X
          /\ \A v \in X : \E i \in 1..Len(dropped) : pids[i] = v
      BY ListFacts DEF AccountInv
    <3> HIDE DEF pids, X
    <3>2. QED
      BY <3>1, CountOnce
  <2>3. Completed = D \cup X
    BY ListFacts, CompletedIs
  <2>4. D \cap X = {}
    BY ListFacts DEF AccountInv
  <2>5. inFlight = DOMAIN packets \ (D \cup X) /\ D \cup X \subseteq DOMAIN packets
    BY <1>2, <2>3, ListFacts DEF AccountInv
  <2> HIDE DEF D, X
  <2>6. IsFiniteSet(D \cup X) /\ Cardinality(D \cup X) = Len(delivered) + Len(dropped)
    <3>1. IsFiniteSet(D \cup X)
          /\ Cardinality(D \cup X) = Cardinality(D) + Cardinality(X) - Cardinality(D \cap X)
      BY <2>1, <2>2, FS_Union
    <3>2. Cardinality(D \cap X) = 0
      BY <2>4, FS_EmptySet
    <3>3. QED
      BY <2>1, <2>2, <3>1, <3>2, ListFacts
  <2>7. IsFiniteSet(inFlight) /\ Cardinality(inFlight) \in Nat
    <3>1. IsFiniteSet(inFlight)
      BY <2>5, FS_Subset DEF TypeInv
    <3>2. QED
      BY <3>1, FS_CardinalityType
  <2>8. /\ Cardinality((D \cup X) \cup inFlight) =
             Cardinality(D \cup X) + Cardinality(inFlight) - Cardinality((D \cup X) \cap inFlight)
    BY <2>6, <2>7, FS_Union
  <2>9. (D \cup X) \cup inFlight = DOMAIN packets /\ (D \cup X) \cap inFlight = {}
    BY <2>5
  <2>10. Cardinality((D \cup X) \cap inFlight) = 0
    BY <2>9, FS_EmptySet
  <2>11. QED
    BY <2>6, <2>7, <2>8, <2>9, <2>10, ListFacts
<1>3. QED
  BY <1>1, <1>2 DEF Conservation

LEMMA InitAccount ==
  ASSUME Init
  PROVE  AccountInv
<1>1. DOMAIN packets = {} /\ DOMAIN delivered = {} /\ DOMAIN dropped = {} /\ running
  BY DEF Init
<1>2. Completed = {}
  BY <1>1, CompletedIs
<1>3. QED
  BY <1>1, <1>2 DEF AccountInv

\* No packet is lost or counted twice (_handle_arrive, and the accounting at the end of
\* run): generated = delivered + dropped + in_flight, for every overlay, churn and traffic.
THEOREM ConservationHolds == Spec => []Conservation
<1>1. Init => TypeInv /\ AccountInv
  BY InitTyped, InitAccount
<1>2. TypeInv /\ AccountInv /\ [Next]_vars => TypeInv' /\ AccountInv'
  BY TypeStep, AccountStep
<1>3. TypeInv /\ AccountInv => Conservation
  BY AccountConserves
<1>4. QED
  BY <1>1, <1>2, <1>3, PTL DEF Spec

-----------------------------------------------------------------------------
(* Exposure *)

SlotPids == \A s \in slots : s.pid \in DOMAIN packets

ExposureInv == ExposureExact /\ SlotPids

\* Exposure of one packet.
Exposed(pid) ==
  LET p == packets[pid]
      offered == {s.hop[2] : s \in {u \in slots : u.pid = pid}} \cap Sybil
  IN /\ p.touched <=> (p.src \in Sybil \/ offered # {})
     /\ p.transit <=> (offered \ {p.dst} # {})

LEMMA ExposureStep ==
  ASSUME TypeInv, ExposureInv, [Next]_vars
  PROVE  ExposureInv'
<1>1. \A i \in DOMAIN packets : Exposed(i)
  BY DEF ExposureInv, ExposureExact, Exposed
<1>2. ASSUME \A i \in DOMAIN packets' : Exposed(i)'
      PROVE  ExposureExact'
  BY <1>2 DEF ExposureExact, Exposed
<1>3. CASE slots' = slots /\ packets' = packets
  BY <1>3 DEF ExposureInv, ExposureExact, SlotPids
<1>4. CASE Generate
  <2>1. PICK pid \in Nat, f \in Flows :
          /\ pid \notin DOMAIN packets /\ DOMAIN packets' = DOMAIN packets \cup {pid}
          /\ \A i \in DOMAIN packets : packets'[i] = packets[i]
          /\ packets'[pid] = NewPacket(f, clock')
    BY <1>4, GenerateShape
  <2>2. slots' = slots
    BY <1>4 DEF Generate, netVars
  <2>3. {s.hop[2] : s \in {u \in slots : u.pid = pid}} = {}
    BY <2>1 DEF ExposureInv, SlotPids
  <2>4. /\ packets'[pid].touched = (f[1] \in Sybil) /\ packets'[pid].src = f[1]
        /\ packets'[pid].transit = FALSE
    BY <2>1 DEF NewPacket
  <2>5. Exposed(pid)'
    BY <2>2, <2>3, <2>4 DEF Exposed
  <2>6. \A i \in DOMAIN packets : Exposed(i)'
    BY <1>1, <2>1, <2>2 DEF Exposed
  <2>7. SlotPids'
    BY <2>1, <2>2 DEF ExposureInv, SlotPids
  <2>8. QED
    BY <1>2, <2>1, <2>5, <2>6, <2>7 DEF ExposureInv
<1>5. CASE Arrive
  <2>1. PICK pid \in DOMAIN packets, q \in PacketType : Takes(pid, q)
    BY <1>5, ArriveShape
  <2>2. /\ packets' = [packets EXCEPT ![pid] = q]
        /\ q.src = packets[pid].src /\ q.dst = packets[pid].dst
    BY <2>1 DEF Takes, Replaces
  <2>3. DOMAIN packets' = DOMAIN packets /\ packets'[pid] = q
        /\ \A i \in DOMAIN packets \ {pid} : packets'[i] = packets[i]
    BY <2>2, PacketDomain
  <2>4. CASE OffersNothing(pid, q)
    <3>1. \A i \in DOMAIN packets : Exposed(i)'
      BY <1>1, <2>2, <2>3, <2>4 DEF OffersNothing, Exposed
    <3>2. QED
      BY <1>2, <2>3, <2>4, <3>1 DEF OffersNothing, ExposureInv, SlotPids
  <2>5. ASSUME NEW u \in SlotType, Offers(pid, q, u)
        PROVE  ExposureInv'
    <3>1. slots' = slots \cup {u} /\ u.pid = pid
      BY <2>5 DEF Offers
    <3>2. ASSUME NEW i \in DOMAIN packets \ {pid}
          PROVE  Exposed(i)'
      <4>1. {s \in slots' : s.pid = i} = {s \in slots : s.pid = i}
        BY <3>1, <3>2
      <4>2. QED
        BY <1>1, <2>3, <4>1 DEF Exposed
    <3>3. Exposed(pid)'
      <4> DEFINE before == {s.hop[2] : s \in {v \in slots : v.pid = pid}} \cap Sybil
                 after == {s.hop[2] : s \in {v \in slots' : v.pid = pid}} \cap Sybil
      <4>1. after = before \cup ({u.hop[2]} \cap Sybil)
        BY <3>1
      <4>2. /\ packets[pid].touched <=> (packets[pid].src \in Sybil \/ before # {})
            /\ packets[pid].transit <=> (before \ {packets[pid].dst} # {})
        BY <1>1 DEF Exposed
      <4>3. /\ q.touched = (packets[pid].touched \/ u.hop[2] \in Sybil)
            /\ q.transit = (packets[pid].transit \/ (u.hop[2] \in Sybil /\ u.hop[2] # q.dst))
        BY <2>5 DEF Offers
      <4> HIDE DEF before, after
      <4>4. /\ q.touched <=> (q.src \in Sybil \/ after # {})
            /\ q.transit <=> (after \ {q.dst} # {})
        BY <2>2, <4>1, <4>2, <4>3
      <4>5. QED
        BY <2>3, <4>4 DEF Exposed, after
    <3>4. SlotPids'
      BY <2>3, <3>1 DEF ExposureInv, SlotPids
    <3>5. QED
      BY <1>2, <2>3, <3>2, <3>3, <3>4 DEF ExposureInv
  <2>6. QED
    BY <2>1, <2>4, <2>5 DEF Takes
<1>6. QED
  BY <1>3, <1>4, <1>5 DEF Next, Perturb, Finish, Returned, vars, netVars

\* Sybil exposure is exact for every packet (lines 184, 238-241, 256-259), delivered,
\* dropped or under way, on every overlay and whatever is lost or goes offline.
THEOREM ExposureExactHolds == Spec => []ExposureExact
<1>1. Init => TypeInv /\ ExposureInv
  <2>1. ASSUME Init
        PROVE  DOMAIN packets = {} /\ slots = {}
    BY <2>1 DEF Init
  <2>2. QED
    BY <2>1, InitTyped DEF ExposureInv, ExposureExact, SlotPids
<1>2. TypeInv /\ ExposureInv /\ [Next]_vars => TypeInv' /\ ExposureInv'
  BY TypeStep, ExposureStep
<1>3. ExposureInv => ExposureExact
  BY DEF ExposureInv
<1>4. QED
  BY <1>1, <1>2, <1>3, PTL DEF Spec

-----------------------------------------------------------------------------
(* What a solver is told *)

\* A packet under way blames the hop that brought it, the last of its uses.
Traced(pid) ==
  \A e \in Arrivals(pid) :
    /\ \A s \in slots : s.pid = pid => s.sent < e.time
    /\ packets[pid].last = {s.hop : s \in LastUse(pid)}
    /\ \A h, k \in packets[pid].last : h = k
    /\ \A h \in packets[pid].last : h[2] = packets[pid].node

Verdicts(pid) == {t \in told : t.pid = pid}

\* A finished packet has been reported once, on that hop.
Judged(pid) ==
  /\ {t.hop : t \in Verdicts(pid)}
       = IF DroppedOffline(pid) THEN {} ELSE {s.hop : s \in LastUse(pid)}
  /\ \A t, v \in Verdicts(pid) : t = v
  /\ \A t \in Verdicts(pid) : t.verdict = "delivered" => t.hop[2] = packets[pid].dst

BlameInv ==
  /\ \A t \in told : t.pid \in Completed /\ t.verdict # "sybil_drop"
  /\ \A pid \in DOMAIN packets : Traced(pid)
  /\ \A pid \in Completed : Judged(pid)

JudgeInv == AccountInv /\ SlotPids /\ BlameInv

LEMMA BlameImplied ==
  ASSUME BlameInv
  PROVE  BlameTheLastHop
<1>1. ASSUME NEW pid \in Completed
      PROVE  Cardinality(Verdicts(pid)) <= 1
  <2>1. \A t, v \in Verdicts(pid) : t = v
    BY DEF BlameInv, Judged
  <2>2. Cardinality(Verdicts(pid)) = IF Verdicts(pid) = {} THEN 0 ELSE 1
    BY <2>1, AtMostOne
  <2>3. QED
    BY <2>2
<1>2. QED
  BY <1>1 DEF BlameInv, BlameTheLastHop, Judged, Verdicts

\* Nothing changes for a packet that no handler touches.
LEMMA Untouched ==
  ASSUME NEW i \in DOMAIN packets, packets'[i] = packets[i],
         \A s : s \in slots' /\ s.pid = i <=> s \in slots /\ s.pid = i
  PROVE  /\ LastUse(i)' = LastUse(i)
         /\ Traced(i) /\ Arrivals(i)' \subseteq Arrivals(i) => Traced(i)'
         /\ Judged(i) /\ Verdicts(i)' = Verdicts(i) /\ DroppedOffline(i)' = DroppedOffline(i)
              => Judged(i)'
<1>1. LastUse(i)' = LastUse(i)
  BY DEF LastUse
<1>2. Traced(i) /\ Arrivals(i)' \subseteq Arrivals(i) => Traced(i)'
  BY <1>1 DEF Traced
<1>3. Judged(i) /\ Verdicts(i)' = Verdicts(i) /\ DroppedOffline(i)' = DroppedOffline(i)
        => Judged(i)'
  BY <1>1 DEF Judged
<1>4. QED
  BY <1>1, <1>2, <1>3

\* Dropped while offline, by entries of the list.
LEMMA OfflineIs ==
  ASSUME NEW i
  PROVE  DroppedOffline(i) <=> \E j \in DOMAIN dropped : dropped[j] = [pid |-> i, reason |-> "node_down"]
BY DEF DroppedOffline, Range

\* The steps that end no packet and use no link.
LEMMA BlameQuiet ==
  ASSUME TypeInv, JudgeInv, slots' = slots, UNCHANGED endVars,
         \A i \in DOMAIN packets : packets'[i] = packets[i] /\ Arrivals(i)' \subseteq Arrivals(i),
         \A i \in DOMAIN packets' \ DOMAIN packets : Traced(i)'
  PROVE  BlameInv'
<1>1. Completed' = Completed /\ Completed \subseteq DOMAIN packets /\ told' = told
  BY ListFacts DEF Completed, endVars
<1>2. ASSUME NEW i \in DOMAIN packets
      PROVE  Traced(i)' /\ (i \in Completed => Judged(i)')
  <2>1. Verdicts(i)' = Verdicts(i) /\ DroppedOffline(i)' = DroppedOffline(i)
    BY DEF Verdicts, DroppedOffline, endVars
  <2>2. Traced(i) /\ (i \in Completed => Judged(i))
    BY DEF JudgeInv, BlameInv
  <2>3. QED
    BY <2>1, <2>2, Untouched
<1>3. QED
  BY <1>1, <1>2 DEF JudgeInv, BlameInv

\* After an arrival, the packet's record blames its last use, which is not in the future.
BlamesLastUse(pid, q) ==
  /\ q.last = {s.hop : s \in LastUse(pid)'}
  /\ \A h, k \in q.last : h = k
  /\ \A s \in slots' : s.pid = pid => s.sent \in Nat /\ s.sent <= clock'
  /\ \A i \in DOMAIN packets \ {pid} :
       \A s : s \in slots' /\ s.pid = i <=> s \in slots /\ s.pid = i

LEMMA BlameArrive ==
  ASSUME TypeInv, JudgeInv, Arrive
  PROVE  BlameInv'
<1>1. PICK pid \in DOMAIN packets, q \in PacketType :
        /\ First \in events /\ First.kind = "arrive" /\ First.pid = {pid}
        /\ clock' = First.time /\ Takes(pid, q)
  BY ArriveShape
<1>2. /\ packets' = [packets EXCEPT ![pid] = q] /\ q.dst = packets[pid].dst
  BY <1>1 DEF Takes, Replaces
<1>3. DOMAIN packets' = DOMAIN packets /\ packets'[pid] = q
      /\ \A i \in DOMAIN packets \ {pid} : packets'[i] = packets[i]
  BY <1>2, PacketDomain
<1>4. First \in Arrivals(pid) /\ Arrivals(pid) \ {First} = {} /\ pid \notin Completed
  BY <1>1 DEF JudgeInv, AccountInv, Arrivals
<1>5. Traced(pid)
  BY DEF JudgeInv, BlameInv
<1>6. \A t \in told : t.pid # pid
  BY <1>4 DEF JudgeInv, BlameInv
<1>7. \A j \in DOMAIN dropped : dropped[j].pid # pid
  BY <1>4, CompletedIs
<1>8. clock' \in Nat /\ \A s \in slots : s.sent \in Nat /\ (s.pid = pid => s.sent < clock')
  BY <1>1, <1>4, <1>5 DEF Traced, TypeInv, TypeOK, EventType, SlotType
<1>9. BlamesLastUse(pid, q)
  <2>1. CASE OffersNothing(pid, q)
    <3>1. slots' = slots /\ q.last = packets[pid].last
      BY <2>1 DEF OffersNothing
    <3>2. LastUse(pid)' = LastUse(pid)
      BY <3>1 DEF LastUse
    <3>3. q.last = {s.hop : s \in LastUse(pid)'} /\ \A h, k \in q.last : h = k
      BY <1>4, <1>5, <3>1, <3>2 DEF Traced
    <3>4. QED
      BY <1>8, <3>1, <3>3 DEF BlamesLastUse
  <2>2. ASSUME NEW u \in SlotType, Offers(pid, q, u)
        PROVE  BlamesLastUse(pid, q)
    <3>1. slots' = slots \cup {u} /\ u.pid = pid /\ u.sent = clock' /\ q.last = {u.hop}
      BY <2>2 DEF Offers
    <3>2. \A s \in slots' : s.pid = pid => s.sent \in Nat /\ s.sent <= clock'
      BY <1>8, <3>1
    <3>3. LastUse(pid)' = {u}
      <4>1. u \in LastUse(pid)'
        BY <3>1, <3>2 DEF LastUse
      <4>2. ASSUME NEW s \in LastUse(pid)', s # u
            PROVE  FALSE
        <5>1. s \in slots /\ s.pid = pid /\ u.sent <= s.sent
          BY <3>1, <4>2 DEF LastUse
        <5>2. QED
          BY <1>8, <3>1, <5>1
      <4>3. QED
        BY <4>1, <4>2
    <3>4. QED
      BY <3>1, <3>2, <3>3 DEF BlamesLastUse
  <2>3. QED
    BY <1>1, <2>1, <2>2 DEF Takes
<1>10. ASSUME NEW i \in DOMAIN packets \ {pid}, Verdicts(i)' = Verdicts(i),
              DroppedOffline(i)' = DroppedOffline(i)
       PROVE  Traced(i)' /\ (i \in Completed => Judged(i)')
  <2>1. Arrivals(i)' = Arrivals(i)
    BY <1>1, ArrivalsOf DEF Takes
  <2>2. \A s : s \in slots' /\ s.pid = i <=> s \in slots /\ s.pid = i
    BY <1>9 DEF BlamesLastUse
  <2>3. Traced(i) /\ (i \in Completed => Judged(i))
    BY DEF JudgeInv, BlameInv
  <2>4. QED
    BY <1>3, <1>10, <2>1, <2>2, <2>3, Untouched
<1>11. CASE Moves(pid, q)
  <2>1. Completed' = Completed /\ told' = told /\ delivered' = delivered /\ dropped' = dropped
    BY <1>11 DEF Moves, endVars, Completed
  <2>2. ASSUME NEW i \in DOMAIN packets \ {pid}
        PROVE  Traced(i)' /\ (i \in Completed => Judged(i)')
    <3>1. Verdicts(i)' = Verdicts(i) /\ DroppedOffline(i)' = DroppedOffline(i)
      BY <2>1 DEF Verdicts, DroppedOffline
    <3>2. QED
      BY <1>10, <3>1
  <2>3. Traced(pid)'
    <3>1. PICK e \in EventType :
            Arrivals(pid)' = (Arrivals(pid) \ {First}) \cup {e} /\ e.time > clock'
      BY <1>1, <1>11, ArrivalsOf
    <3>2. Arrivals(pid)' = {e} /\ e.time \in Nat
      BY <1>4, <3>1 DEF EventType
    <3>3. \A s \in slots' : s.pid = pid => s.sent < e.time
      BY <1>8, <1>9, <3>1, <3>2 DEF BlamesLastUse
    <3>4. \A h \in q.last : h[2] = q.node
      BY <1>11 DEF Moves
    <3>5. QED
      BY <1>3, <1>9, <3>2, <3>3, <3>4 DEF Traced, BlamesLastUse
  <2>4. pid \notin Completed /\ Completed \subseteq DOMAIN packets
    BY <1>4, ListFacts
  <2>5. \A t \in told : t.pid \in Completed /\ t.verdict # "sybil_drop"
    BY DEF JudgeInv, BlameInv
  <2>6. QED
    BY <1>3, <2>1, <2>2, <2>3, <2>4, <2>5 DEF BlameInv
<1>12. CASE Ends(pid, q)
  <2>1. Completed' = Completed \cup {pid}
    BY <1>12, EndsLists
  <2>2. Traced(pid)'
    <3>1. Arrivals(pid)' = {}
      BY <1>1, <1>4, <1>12, ArrivalsOf
    <3>2. QED
      BY <3>1 DEF Traced
  <2>3. ASSUME NEW i \in DOMAIN packets \ {pid}
        PROVE  Traced(i)' /\ (i \in Completed => Judged(i)')
    <3>1. Verdicts(i)' = Verdicts(i)
      <4>1. ASSUME NEW verdict, Tells(pid, q, verdict)
            PROVE  Verdicts(i)' = Verdicts(i)
        <5> DEFINE new == {[pid |-> pid, hop |-> h, verdict |-> verdict] : h \in q.last}
        <5>1. told' = told \cup new
          BY <4>1 DEF Tells
        <5>2. \A t \in new : t.pid = pid
          OBVIOUS
        <5> HIDE DEF new
        <5>3. QED
          BY <2>3, <5>1, <5>2 DEF Verdicts
      <4>2. CASE told' = told
        BY <4>2 DEF Verdicts
      <4>3. QED
        BY <1>12, <4>1, <4>2 DEF Ends
    <3>2. DroppedOffline(i)' = DroppedOffline(i)
      <4>1. CASE dropped' = dropped
        BY <4>1 DEF DroppedOffline
      <4>2. ASSUME NEW why, dropped' = Append(dropped, [pid |-> pid, reason |-> why])
            PROVE  DroppedOffline(i)' = DroppedOffline(i)
        <5>1. dropped \in Seq(DropRecord)
          BY DEF TypeInv, TypeOK, DropRecord
        <5>2. /\ DOMAIN dropped' = DOMAIN dropped \cup {Len(dropped) + 1}
              /\ \A j \in DOMAIN dropped : dropped'[j] = dropped[j]
              /\ dropped'[Len(dropped) + 1].pid = pid
          BY <4>2, <5>1
        <5>3. DroppedOffline(i)' <=> \E j \in DOMAIN dropped' :
                dropped'[j] = [pid |-> i, reason |-> "node_down"]
          BY DEF DroppedOffline, Range
        <5>4. \A j \in DOMAIN dropped' \ DOMAIN dropped :
                dropped'[j] # [pid |-> i, reason |-> "node_down"]
          BY <2>3, <5>2
        <5>5. DroppedOffline(i)' <=> DroppedOffline(i)
          BY <5>2, <5>3, <5>4, OfflineIs
        <5>6. QED
          BY <5>5 DEF DroppedOffline
      <4>3. QED
        BY <1>12, <4>1, <4>2 DEF Ends
    <3>3. QED
      BY <1>10, <3>1, <3>2
  <2>4. \A t \in told : t.pid \in Completed /\ t.verdict # "sybil_drop"
    BY DEF JudgeInv, BlameInv
  <2>5. CASE /\ dropped' = Append(dropped, [pid |-> pid, reason |-> "node_down"])
             /\ told' = told
    <3>1. dropped \in Seq(DropRecord)
      BY DEF TypeInv, TypeOK, DropRecord
    <3>2. Len(dropped) + 1 \in DOMAIN dropped'
          /\ dropped'[Len(dropped) + 1] = [pid |-> pid, reason |-> "node_down"]
      BY <2>5, <3>1
    <3>3. DroppedOffline(pid)'
      BY <3>2 DEF DroppedOffline, Range
    <3>4. Verdicts(pid)' = {}
      BY <1>6, <2>5 DEF Verdicts
    <3>5. Judged(pid)'
      BY <3>3, <3>4 DEF Judged
    <3>6. \A t \in told' : t.pid \in Completed' /\ t.verdict # "sybil_drop"
      BY <2>1, <2>4, <2>5
    <3>7. QED
      BY <1>3, <2>1, <2>2, <2>3, <3>5, <3>6, ListFacts DEF BlameInv
  <2>6. ASSUME NEW verdict, Tells(pid, q, verdict), ~DroppedOffline(pid)',
               verdict # "sybil_drop",
               verdict = "delivered" => \A h \in q.last : h[2] = q.dst
        PROVE  BlameInv'
    <3>1. Verdicts(pid)' = {[pid |-> pid, hop |-> h, verdict |-> verdict] : h \in q.last}
      <4> DEFINE new == {[pid |-> pid, hop |-> h, verdict |-> verdict] : h \in q.last}
      <4>1. told' = told \cup new
        BY <2>6 DEF Tells
      <4>2. \A t \in new : t.pid = pid
        OBVIOUS
      <4> HIDE DEF new
      <4>3. Verdicts(pid)' = new
        BY <1>6, <4>1, <4>2 DEF Verdicts
      <4>4. QED
        BY <4>3 DEF new
    <3>2. {t.hop : t \in Verdicts(pid)'} = q.last
      <4>1. \A t \in Verdicts(pid)' : t.hop \in q.last
        BY <3>1
      <4>2. ASSUME NEW h \in q.last
            PROVE  \E t \in Verdicts(pid)' : t.hop = h
        <5>1. [pid |-> pid, hop |-> h, verdict |-> verdict] \in Verdicts(pid)'
          BY <3>1
        <5>2. QED
          BY <5>1
      <4>3. QED
        BY <4>1, <4>2
    <3>3. /\ \A t, v \in Verdicts(pid)' : t = v
          /\ \A t \in Verdicts(pid)' : t.verdict = "delivered" => t.hop[2] = q.dst
      BY <1>9, <2>6, <3>1 DEF BlamesLastUse
    <3>4. Judged(pid)'
      BY <1>3, <1>9, <2>6, <3>2, <3>3 DEF Judged, BlamesLastUse
    <3>5. \A t \in told' : t.pid \in Completed' /\ t.verdict # "sybil_drop"
      <4>1. \A t \in told' : t \in told \/ (t.pid = pid /\ t.verdict = verdict)
        BY <2>6 DEF Tells
      <4>2. QED
        BY <2>1, <2>4, <2>6, <4>1
    <3>6. QED
      BY <1>3, <2>1, <2>2, <2>3, <3>4, <3>5, ListFacts DEF BlameInv
  <2>7. DroppedOffline(pid)' <=> \E j \in DOMAIN dropped' :
          dropped'[j] = [pid |-> pid, reason |-> "node_down"]
    BY DEF DroppedOffline, Range
  <2>8. CASE /\ packets[pid].node = q.dst /\ OffersNothing(pid, q)
             /\ dropped' = dropped /\ Tells(pid, q, "delivered")
    <3>1. ~DroppedOffline(pid)'
      BY <1>7, <2>7, <2>8
    <3>2. \A h \in q.last : h[2] = q.dst
      BY <1>4, <1>5, <2>8 DEF OffersNothing, Traced
    <3>3. QED
      BY <2>6, <2>8, <3>1, <3>2
  <2>9. ASSUME NEW why \in Reason \ {"node_down"},
               dropped' = Append(dropped, [pid |-> pid, reason |-> why]),
               Tells(pid, q, Observable(why))
        PROVE  BlameInv'
    <3>1. dropped \in Seq(DropRecord)
      BY DEF TypeInv, TypeOK, DropRecord
    <3>2. /\ DOMAIN dropped' = DOMAIN dropped \cup {Len(dropped) + 1}
          /\ \A j \in DOMAIN dropped : dropped'[j] = dropped[j]
          /\ dropped'[Len(dropped) + 1].reason = why
      BY <2>9, <3>1
    <3>3. ~DroppedOffline(pid)'
      BY <1>7, <2>7, <3>2
    <3>4. Observable(why) \notin {"sybil_drop", "delivered"}
      BY DEF Observable, Reason
    <3>5. QED
      BY <2>6, <2>9, <3>3, <3>4
  <2>10. QED
    BY <1>12, <2>5, <2>8, <2>9 DEF Ends
<1>13. QED
  BY <1>1, <1>11, <1>12 DEF Takes

LEMMA JudgeStep ==
  ASSUME TypeInv, JudgeInv, [Next]_vars
  PROVE  JudgeInv'
<1>1. AccountInv'
  BY AccountStep DEF JudgeInv
<1>2. CASE Arrive
  <2>1. PICK pid \in DOMAIN packets, q \in PacketType : Takes(pid, q)
    BY <1>2, ArriveShape
  <2>2. DOMAIN packets' = DOMAIN packets
    BY <2>1 DEF Takes, Replaces
  <2>3. slots' = slots \/ \E u \in SlotType : slots' = slots \cup {u} /\ u.pid = pid
    BY <2>1 DEF Takes, OffersNothing, Offers
  <2>4. SlotPids'
    BY <2>2, <2>3 DEF JudgeInv, SlotPids
  <2>5. QED
    BY <1>1, <1>2, <2>4, BlameArrive DEF JudgeInv
<1>3. CASE Generate
  <2>1. PICK pid \in Nat, f \in Flows :
          /\ pid \notin DOMAIN packets /\ DOMAIN packets' = DOMAIN packets \cup {pid}
          /\ \A i \in DOMAIN packets : packets'[i] = packets[i]
          /\ packets'[pid] = NewPacket(f, clock')
          /\ \A i \in DOMAIN packets : Arrivals(i)' = Arrivals(i)
    BY <1>3, GenerateShape
  <2>2. slots' = slots /\ UNCHANGED endVars
    BY <1>3 DEF Generate, netVars
  <2>3. \A s \in slots' : s.pid # pid
    BY <2>1, <2>2 DEF JudgeInv, SlotPids
  <2>4. packets'[pid].last = {} /\ LastUse(pid)' = {}
    BY <2>1, <2>3 DEF NewPacket, LastUse
  <2>5. Traced(pid)'
    BY <2>3, <2>4 DEF Traced
  <2>6. BlameInv'
    BY <2>1, <2>2, <2>5, BlameQuiet
  <2>7. SlotPids'
    BY <2>1, <2>2 DEF JudgeInv, SlotPids
  <2>8. QED
    BY <1>1, <2>6, <2>7 DEF JudgeInv
<1>4. CASE Perturb \/ Finish \/ UNCHANGED vars
  <2>1. slots' = slots /\ UNCHANGED endVars /\ packets' = packets
    BY <1>4 DEF Perturb, Finish, vars, netVars
  <2>2. CASE events' \subseteq events
    BY <1>1, <2>1, <2>2, BlameQuiet DEF Arrivals, JudgeInv, SlotPids
  <2>3. CASE Perturb
    BY <1>1, <2>1, <2>3, PerturbShape, BlameQuiet DEF JudgeInv, SlotPids
  <2>4. QED
    BY <1>4, <2>2, <2>3 DEF Finish, vars
<1>5. QED
  BY <1>2, <1>3, <1>4 DEF Next, Returned

\* A solver is told of every finished packet once, about the last hop it tried, and never
\* of one that no hop forwarded or whose bearer went offline under it (_notify_solver).
THEOREM BlameTheLastHopHolds == Spec => []BlameTheLastHop
<1>1. Init => TypeInv /\ JudgeInv
  <2>1. ASSUME Init
        PROVE  DOMAIN packets = {} /\ slots = {} /\ told = {} /\ Completed \subseteq DOMAIN packets
    BY <2>1, InitTyped, ListFacts DEF Init
  <2>2. QED
    BY <2>1, InitTyped, InitAccount DEF JudgeInv, SlotPids, BlameInv
<1>2. TypeInv /\ JudgeInv /\ [Next]_vars => TypeInv' /\ JudgeInv'
  BY TypeStep, JudgeStep
<1>3. JudgeInv => BlameTheLastHop
  BY BlameImplied DEF JudgeInv
<1>4. QED
  BY <1>1, <1>2, <1>3, PTL DEF Spec

-----------------------------------------------------------------------------
(* Latency *)

\* What the retries of the uses in U cost.
Cost(U) == SumFunction([s \in U |-> s.failed * s.round])

\* The arrivals of a packet come when its latency and its retries say.
OnTime(pid) ==
  \A e \in Arrivals(pid) : packets[pid].created + packets[pid].latency = e.time + RetryCost(pid)

LatencyInv == IsFiniteSet(slots) /\ \A pid \in DOMAIN packets : OnTime(pid)

LEMMA UsesFacts ==
  ASSUME TypeInv, LatencyInv, NEW pid
  PROVE  /\ IsFiniteSet(UsesOf(pid)) /\ RetryCost(pid) = Cost(UsesOf(pid))
         /\ \A s \in UsesOf(pid) : s.failed * s.round \in Int
<1>1. IsFiniteSet(UsesOf(pid))
  BY FS_Subset DEF UsesOf, LatencyInv
<1>2. \A s \in slots : s.failed \in Nat /\ s.round \in Nat
  BY DEF TypeInv, TypeOK, SlotType
<1>3. \A s \in UsesOf(pid) : s.failed * s.round \in Int
  BY <1>2 DEF UsesOf
<1>4. QED
  BY <1>1, <1>3 DEF RetryCost, Cost

\* One more use, one more term.
LEMMA CostOfOneMore ==
  ASSUME NEW U, IsFiniteSet(U), NEW u, u \notin U, NEW cost \in Nat,
         u.failed * u.round = cost, \A s \in U : s.failed * s.round \in Int
  PROVE  Cost(U \cup {u}) = Cost(U) + cost
<1> DEFINE V == U \cup {u}
           f == [s \in V |-> s.failed * s.round]
           g == [s \in U |-> s.failed * s.round]
<1>1. IsFiniteSet(V)
  BY FS_Union, FS_Singleton
<1>2. DOMAIN f = V /\ DOMAIN g = U /\ u \in V /\ V \ {u} = U
  OBVIOUS
<1>3. \A s \in V : f[s] \in Int
  OBVIOUS
<1>4. \A s \in U : f[s] = g[s]
  OBVIOUS
<1>5. f[u] = cost
  OBVIOUS
<1>6. Cost(V) = SumFunctionOnSet(f, V) /\ Cost(U) = SumFunctionOnSet(g, U)
  BY <1>2 DEF Cost, SumFunction
<1>7. \A s \in U : g[s] \in Int
  OBVIOUS
<1> HIDE DEF V, f, g
<1>8. SumFunctionOnSet(f, V) = f[u] + SumFunctionOnSet(f, V \ {u})
  BY <1>1, <1>2, <1>3, SumRemove
<1>9. SumFunctionOnSet(f, U) = SumFunctionOnSet(g, U)
  BY <1>4, SumSame
<1>10. SumFunctionOnSet(g, U) \in Int
  BY <1>7, SumType
<1>11. Cost(V) = cost + Cost(U)
  BY <1>2, <1>5, <1>6, <1>8, <1>9
<1>12. Cost(U) \in Int
  BY <1>6, <1>10
<1>13. Cost(V) = Cost(U) + cost
  BY <1>11, <1>12
<1>14. QED
  BY <1>13 DEF V

\* The cost is a natural.
LEMMA CostTyped ==
  ASSUME TypeInv, LatencyInv, NEW pid
  PROVE  RetryCost(pid) \in Nat
<1> DEFINE f == [s \in UsesOf(pid) |-> s.failed * s.round]
<1>1. \A s \in UsesOf(pid) : s.failed \in Nat /\ s.round \in Nat
  BY DEF UsesOf, TypeInv, TypeOK, SlotType
<1>2. \A s \in UsesOf(pid) : f[s] \in Nat
  BY <1>1
<1>3. DOMAIN f = UsesOf(pid) /\ IsFiniteSet(UsesOf(pid))
  BY UsesFacts
<1> HIDE DEF f
<1>4. SumFunctionOnSet(f, UsesOf(pid)) \in Nat
  BY <1>2, <1>3, SumType
<1>5. QED
  BY <1>3, <1>4 DEF RetryCost, SumFunction, f

LEMMA OnTimeEverywhere ==
  ASSUME Pids, LatencyInv
  PROVE  LatencyAccounting
<1>1. ASSUME NEW e \in events, e.kind = "arrive"
      PROVE  \E pid \in DOMAIN packets : e.pid = {pid}
  BY <1>1 DEF Pids
<1>2. QED
  BY <1>1 DEF LatencyInv, LatencyAccounting, OnTime, Arrivals

LEMMA StillOnTime ==
  ASSUME NEW pid, packets'[pid] = packets[pid], Arrivals(pid)' \subseteq Arrivals(pid),
         UsesOf(pid)' = UsesOf(pid), OnTime(pid)
  PROVE  OnTime(pid)'
<1>1. RetryCost(pid)' = RetryCost(pid)
  BY DEF RetryCost
<1>2. QED
  BY <1>1 DEF OnTime

\* The packet that a frame carries on arrives when the link delivers it, and is charged
\* what it waited, one round, and one round for each failed try.
CarriesOn(pid, q) ==
  /\ packets' = [packets EXCEPT ![pid] = q]
  /\ \/ /\ events' = events \ {First}
        /\ \/ slots' = slots
           \/ \E u \in SlotType : u.lost /\ slots' = slots \cup {u}
     \/ \E e \in EventType, u \in SlotType :
          /\ events' = (events \ {First}) \cup {e}
          /\ e.kind = "arrive" /\ e.pid = {pid} /\ e.time = u.due
          /\ slots' = slots \cup {u}
          /\ u.pid = pid /\ ~u.lost /\ u.sent = clock' /\ u.due = u.start + u.round
          /\ q.created = packets[pid].created
          /\ q.latency = packets[pid].latency + (u.start - clock') + u.round + u.failed * u.round

LEMMA ArriveCarriesOn ==
  ASSUME TypeInv, Arrive
  PROVE  \E pid \in DOMAIN packets, q \in PacketType : First.pid = {pid} /\ CarriesOn(pid, q)
<1>1. Take("arrive")
  BY DEF Arrive
<1>2. First \in events /\ First.kind = "arrive" /\ clock' \in Nat /\ clock' = First.time
  BY <1>1, TakenEvent
<1>3. PICK pid \in First.pid :
        \/ /\ Settle(pid, packets[pid])
           /\ Reschedule(<<>>) /\ UNCHANGED netVars
        \/ MayRelay(packets[pid]) /\ Relay(pid, Visit(packets[pid]))
  BY DEF Arrive
<1>4. pid \in DOMAIN packets /\ First.pid = {pid}
  BY <1>2 DEF TypeInv, Pids
<1> DEFINE p == Visit(packets[pid])
<1>5. packets[pid] \in PacketType
  BY <1>4, PacketDomain
<1>6. /\ p \in PacketType /\ p.node \in Node /\ p.latency \in Nat
      /\ p.created = packets[pid].created /\ p.latency = packets[pid].latency
  BY <1>5 DEF Visit, PacketType
<1>7. Reschedule(<<>>) => events' = events \ {First}
  BY <1>1, RescheduleNothing
<1> HIDE DEF p
<1>8. CASE Settle(pid, packets[pid]) /\ Reschedule(<<>>) /\ UNCHANGED netVars
  <2>1. Takes(pid, packets[pid])
    BY <1>4, <1>7, <1>8, SettleTakes
  <2>2. CarriesOn(pid, packets[pid])
    BY <1>7, <1>8, <2>1 DEF CarriesOn, Takes, Replaces, netVars
  <2>3. QED
    BY <1>4, <1>5, <2>2
<1>9. CASE MayRelay(packets[pid]) /\ Relay(pid, p)
  <2>1. CASE Drop(pid, p, "no_route") /\ Reschedule(<<>>) /\ UNCHANGED netVars
    <3>1. CarriesOn(pid, p)
      BY <1>7, <2>1 DEF CarriesOn, Drop, DropQuietly, netVars
    <3>2. QED
      BY <1>4, <1>6, <3>1
  <2>2. ASSUME NEW nxt \in NextHops(p.node, p.dst, p.visited),
               DropLost(pid, p, nxt) \/ Transmit(pid, p, nxt)
        PROVE  \E q \in PacketType : CarriesOn(pid, q)
    <3>1. nxt \in Adj[p.node]
      BY <1>6, HopsReachable
    <3>2. CASE DropLost(pid, p, nxt)
      <4> DEFINE u == Use(pid, p, nxt, clock', LinkRetries + 1, TRUE)
                 a == Attempt(p, nxt)
      <4>1. u \in SlotType
        <5>1. LinkRetries + 1 \in Nat
          BY EventSimAssumption
        <5>2. QED
          BY <1>2, <1>4, <1>6, <3>1, <5>1, UseTyped
      <4>2. u.lost
        BY DEF Use
      <4>3. slots' = slots \cup {u} /\ Reschedule(<<>>)
        BY <3>2 DEF DropLost
      <4>4. packets' = [packets EXCEPT ![pid] = a]
        BY <3>2 DEF DropLost, LossExposure, Drop, DropQuietly
      <4>5. a \in PacketType
        BY <1>6, <3>1, AttemptTyped
      <4> HIDE DEF u, a
      <4>6. CarriesOn(pid, a)
        BY <1>7, <4>1, <4>2, <4>3, <4>4 DEF CarriesOn
      <4>7. QED
        BY <4>5, <4>6
    <3>3. CASE Transmit(pid, p, nxt)
      <4> DEFINE start == StartTime(clock', <<p.node, nxt>>)
                 round == Round(p, nxt)
      <4>1. PICK failed \in IF Lossy THEN 0..LinkRetries ELSE {0} :
              /\ packets' = [packets EXCEPT ![pid] = Carried(p, nxt, start - clock', failed)]
              /\ slots' = slots \cup {Use(pid, p, nxt, start, failed, FALSE)}
              /\ Reschedule(<<Due(start + round, "arrive", {pid})>>)
        BY <3>3 DEF Transmit
      <4>2. failed \in Nat
        BY EventSimAssumption
      <4>3. <<p.node, nxt>> \in Hop /\ round \in Nat
        BY <1>6, <3>1, HopFacts
      <4>4. start \in Nat /\ start >= clock' /\ start - clock' \in Nat
        <5>1. start \in Nat /\ start >= clock'
          BY <1>2, <4>3, StartFacts
        <5> HIDE DEF start
        <5>2. QED
          BY <1>2, <5>1
      <4> DEFINE u == Use(pid, p, nxt, start, failed, FALSE)
                 q == Carried(p, nxt, start - clock', failed)
                 due == Due(start + round, "arrive", {pid})
      <4>5. u \in SlotType
        <5> HIDE DEF start, round
        <5>1. QED
          BY <1>2, <1>4, <1>6, <3>1, <4>2, <4>4, UseTyped
      <4>6. /\ u.pid = pid /\ u.sent = clock' /\ ~u.lost /\ u.start = start
            /\ u.round = round /\ u.failed = failed /\ u.due = start + round
        BY DEF Use
      <4>7. p.ttl > 0
        BY <1>5, <1>9 DEF MayRelay, Visit, p, PacketType
      <4>8. q \in PacketType
        <5> HIDE DEF start, round
        <5>1. QED
          BY <1>6, <3>1, <4>2, <4>4, <4>7, CarriedTyped
      <4>9. /\ q.created = p.created
            /\ q.latency = p.latency + LatencyOf(p, nxt, start - clock', failed)
        <5> HIDE DEF start, round
        <5>1. Attempt(p, nxt) \in PacketType
          BY <1>6, <3>1, AttemptTyped
        <5>2. /\ Attempt(p, nxt).created = p.created /\ Attempt(p, nxt).latency = p.latency
          BY <1>6 DEF Attempt, PacketType
        <5>3. QED
          BY <5>1, <5>2 DEF Carried, PacketType
      <4>10. due \in DueType /\ due.time >= clock' /\ due.kind = "arrive" /\ due.pid = {pid}
             /\ due.time = start + round
        <5>1. {pid} \in SUBSET Nat
          BY <1>4, PacketDomain
        <5> HIDE DEF start, round
        <5>2. QED
          BY <1>2, <4>3, <4>4, <5>1 DEF Due, DueType
      <4>11. slots' = slots \cup {u} /\ Reschedule(<<due>>)
             /\ packets' = [packets EXCEPT ![pid] = q]
        BY <4>1
      <4>12. LatencyOf(p, nxt, start - clock', failed)
               = (start - clock') + round + failed * round
        BY DEF LatencyOf
      <4>13. failed * round \in Nat
        <5> HIDE DEF round
        <5>1. QED
          BY <4>2, <4>3
      <4>14. u.failed * u.round = failed * round
        BY <4>6
      <4> DEFINE retries == failed * round
                 latency == LatencyOf(p, nxt, start - clock', failed)
      <4> HIDE DEF u, q, due, start, round, retries, latency
      <4>15. q.latency = packets[pid].latency + (u.start - clock') + u.round + u.failed * u.round
        <5>1. latency = (start - clock') + round + retries /\ retries \in Nat
          BY <4>12, <4>13 DEF latency, retries
        <5>2. q.latency = packets[pid].latency + latency
          BY <1>6, <4>9 DEF latency
        <5>3. packets[pid].latency \in Nat
          BY <1>5 DEF PacketType
        <5>4. q.latency = packets[pid].latency + (start - clock') + round + retries
          BY <4>3, <4>4, <5>1, <5>2, <5>3
        <5>5. QED
          BY <4>6, <4>14, <5>4 DEF retries
      <4> DEFINE e == At(due.time, counter, due.kind, due.pid)
      <4>16. events' = (events \ {First}) \cup {e}
        BY <1>1, <4>10, <4>11, RescheduleOne
      <4>17. e \in EventType /\ e.kind = "arrive" /\ e.pid = {pid} /\ e.time = start + round
        BY <4>10 DEF At, EventType, DueType, TypeInv, HeapInv
      <4> HIDE DEF e
      <4>18. CarriesOn(pid, q)
        <5>1. e.time = u.due /\ u.due = u.start + u.round
          BY <4>6, <4>17
        <5>2. q.created = packets[pid].created
          BY <1>6, <4>9
        <5>3. QED
          BY <4>5, <4>6, <4>11, <4>15, <4>16, <4>17, <5>1, <5>2 DEF CarriesOn
      <4>19. QED
        BY <4>8, <4>18
    <3>4. QED
      BY <2>2, <3>2, <3>3
  <2>3. ASSUME NEW nxt \in NextHops(p.node, p.dst, p.visited)
        PROVE  ~DropAtHop(pid, p, nxt)
    BY <1>6, HopsReachable DEF DropAtHop
  <2>4. QED
    BY <1>4, <1>9, <2>1, <2>2, <2>3 DEF Relay
<1>10. QED
  BY <1>3, <1>8, <1>9 DEF p

LEMMA LatencyArrive ==
  ASSUME TypeInv, JudgeInv, LatencyInv, Arrive
  PROVE  LatencyInv'
<1>1. PICK pid \in DOMAIN packets, q \in PacketType : First.pid = {pid} /\ CarriesOn(pid, q)
  BY ArriveCarriesOn
<1>2. TypeInv' /\ AccountInv'
  BY ArriveTyped, AccountStep DEF JudgeInv, Next
<1>3. First \in events /\ First.kind = "arrive" /\ clock' = First.time /\ clock' \in Nat
  BY ArriveShape, TakenEvent DEF Arrive
<1>4. DOMAIN packets' = DOMAIN packets /\ packets'[pid] = q
      /\ \A i \in DOMAIN packets \ {pid} : packets'[i] = packets[i]
  BY <1>1 DEF CarriesOn, TypeInv, TypeOK
<1>5. \A i \in DOMAIN packets : OnTime(i)
  BY DEF LatencyInv
<1>6. First \in Arrivals(pid) /\ \A e \in Arrivals(pid) : e = First
  BY <1>1, <1>3 DEF Arrivals, JudgeInv, AccountInv
<1>7. CASE /\ events' = events \ {First}
           /\ \/ slots' = slots
              \/ \E u \in SlotType : u.lost /\ slots' = slots \cup {u}
  <2>1. IsFiniteSet(slots')
    BY <1>7, FS_AddElement DEF LatencyInv
  <2>2. \A i \in DOMAIN packets : UsesOf(i)' = UsesOf(i) /\ Arrivals(i)' \subseteq Arrivals(i)
    BY <1>7 DEF UsesOf, Arrivals
  <2>3. \A i \in DOMAIN packets \ {pid} : OnTime(i)'
    BY <1>4, <1>5, <2>2, StillOnTime
  <2>4. Arrivals(pid)' = {}
    BY <1>6, <1>7 DEF Arrivals
  <2>5. OnTime(pid)'
    BY <2>4 DEF OnTime
  <2>6. QED
    BY <1>4, <2>1, <2>3, <2>5 DEF LatencyInv
<1>8. ASSUME NEW e \in EventType, NEW u \in SlotType,
             events' = (events \ {First}) \cup {e},
             e.kind = "arrive", e.pid = {pid}, e.time = u.due,
             slots' = slots \cup {u}, u.pid = pid, ~u.lost, u.sent = clock',
             u.due = u.start + u.round, q.created = packets[pid].created,
             q.latency = packets[pid].latency + (u.start - clock') + u.round + u.failed * u.round
      PROVE  LatencyInv'
  <2>1. IsFiniteSet(slots')
    BY <1>8, FS_AddElement DEF LatencyInv
  <2>2. \A i \in DOMAIN packets \ {pid} : UsesOf(i)' = UsesOf(i) /\ Arrivals(i)' \subseteq Arrivals(i)
    BY <1>8 DEF UsesOf, Arrivals
  <2>3. \A i \in DOMAIN packets \ {pid} : OnTime(i)'
    BY <1>4, <1>5, <2>2, StillOnTime
  <2>4. \A f \in Arrivals(pid)' : f = e
    BY <1>6, <1>8 DEF Arrivals
  <2>5. u \notin slots
    BY <1>3, <1>6, <1>8 DEF JudgeInv, BlameInv, Traced
  <2>6. UsesOf(pid)' = UsesOf(pid) \cup {u} /\ u \notin UsesOf(pid)
    BY <1>8, <2>5 DEF UsesOf
  <2> DEFINE cost == u.failed * u.round
  <2>7. u.failed \in Nat /\ u.round \in Nat /\ u.start \in Nat
    BY DEF SlotType
  <2>8. cost \in Nat
    BY <2>7
  <2>9. /\ IsFiniteSet(UsesOf(pid)) /\ RetryCost(pid) = Cost(UsesOf(pid))
        /\ \A s \in UsesOf(pid) : s.failed * s.round \in Int
    BY UsesFacts
  <2>10. Cost(UsesOf(pid) \cup {u}) = Cost(UsesOf(pid)) + cost
    BY <2>6, <2>8, <2>9, CostOfOneMore
  <2>11. RetryCost(pid)' = RetryCost(pid) + cost
    BY <2>6, <2>9, <2>10 DEF RetryCost, Cost
  <2>12. packets[pid].created + packets[pid].latency = clock' + RetryCost(pid)
    BY <1>3, <1>5, <1>6 DEF OnTime
  <2>13. /\ packets[pid].created \in Nat /\ packets[pid].latency \in Nat
         /\ RetryCost(pid) \in Nat
    BY PacketDomain, CostTyped DEF PacketType
  <2>14. q.created + q.latency = e.time + RetryCost(pid)'
    <3>1. q.latency = packets[pid].latency + (u.start - clock') + u.round + cost
      BY <1>8
    <3> HIDE DEF cost
    <3>2. QED
      BY <1>3, <1>8, <2>7, <2>8, <2>11, <2>12, <2>13, <3>1
  <2>15. OnTime(pid)'
    BY <1>4, <2>4, <2>14 DEF OnTime
  <2>16. QED
    BY <1>4, <2>1, <2>3, <2>15 DEF LatencyInv
<1>9. QED
  BY <1>1, <1>7, <1>8 DEF CarriesOn

\* A packet arrives at its source the moment it is created.
LEMMA GenerateTime ==
  ASSUME TypeInv, Generate, NEW pid \in Nat \ DOMAIN packets
  PROVE  clock' \in Nat /\ \A e \in Arrivals(pid)' : e.time = clock'
<1>1. Take("generate") /\ clock' \in Nat
  BY TakenEvent DEF Generate
<1>2. PICK f \in Flows, gap \in Gaps \cup {0} :
        LET new == Cardinality(DOMAIN packets)
            arrive == Due(clock', "arrive", {new})
            next == clock' + gap
        IN Reschedule(IF gap # 0 /\ next <= Duration
                      THEN <<arrive, Due(next, "generate", {})>> ELSE <<arrive>>)
  BY DEF Generate
<1> DEFINE arrive == Due(clock', "arrive", {Cardinality(DOMAIN packets)})
           later == Due(clock' + gap, "generate", {})
<1>3. \A i \in DOMAIN <<arrive, later>> : <<arrive, later>>[i] \in {arrive, later}
  OBVIOUS
<1>4. \A i \in DOMAIN <<arrive>> : <<arrive>>[i] \in {arrive, later}
  OBVIOUS
<1>5. arrive.time = clock' /\ later.kind = "generate"
  BY DEF Due
<1> HIDE DEF arrive, later
<1>6. PICK new : (new = <<arrive, later>> \/ new = <<arrive>>) /\ Reschedule(new)
  BY <1>2 DEF arrive, later
<1>7. \A i \in DOMAIN new : new[i] \in {arrive, later}
  BY <1>3, <1>4, <1>6
<1>8. ASSUME NEW e \in events', e \notin events
      PROVE  e.time = clock' \/ e.kind = "generate"
  <2>1. PICK i \in DOMAIN new : e = At(new[i].time, counter + i - 1, new[i].kind, new[i].pid)
    BY <1>6, <1>8 DEF Reschedule
  <2>2. QED
    BY <1>5, <1>7, <2>1 DEF At
<1>9. \A e \in events : e.kind = "arrive" => e.pid # {pid}
  BY DEF TypeInv, Pids
<1>10. QED
  BY <1>1, <1>8, <1>9 DEF Arrivals

LEMMA LatencyStep ==
  ASSUME TypeInv, JudgeInv, LatencyInv, [Next]_vars
  PROVE  LatencyInv'
<1>1. CASE Arrive
  BY <1>1, LatencyArrive
<1>2. CASE Generate
  <2>1. PICK pid \in Nat, f \in Flows :
          /\ pid \notin DOMAIN packets /\ DOMAIN packets' = DOMAIN packets \cup {pid}
          /\ \A i \in DOMAIN packets : packets'[i] = packets[i]
          /\ packets'[pid] = NewPacket(f, clock')
          /\ \A i \in DOMAIN packets : Arrivals(i)' = Arrivals(i)
    BY <1>2, GenerateShape
  <2>2. slots' = slots
    BY <1>2 DEF Generate, netVars
  <2>3. \A i \in DOMAIN packets : OnTime(i)'
    BY <2>1, <2>2, StillOnTime DEF LatencyInv, UsesOf
  <2>4. UsesOf(pid)' = {}
    BY <2>1, <2>2 DEF JudgeInv, SlotPids, UsesOf
  <2>5. RetryCost(pid)' = 0
    <3> DEFINE f0 == [s \in {} |-> s.failed * s.round]
    <3>1. RetryCost(pid)' = SumFunctionOnSet(f0, DOMAIN f0)
      BY <2>4 DEF RetryCost, SumFunction
    <3>2. DOMAIN f0 = {}
      OBVIOUS
    <3> HIDE DEF f0
    <3>3. QED
      BY <3>1, <3>2, SumEmpty
  <2>6. \A e \in Arrivals(pid)' : e.time = clock' /\ clock' \in Nat
    BY <1>2, <2>1, GenerateTime
  <2>7. packets'[pid].created = clock' /\ packets'[pid].latency = 0
    BY <2>1 DEF NewPacket
  <2>8. OnTime(pid)'
    BY <2>5, <2>6, <2>7 DEF OnTime
  <2>9. QED
    BY <2>1, <2>2, <2>3, <2>8 DEF LatencyInv
<1>3. CASE Perturb \/ Finish \/ UNCHANGED vars
  <2>1. slots' = slots /\ packets' = packets
    BY <1>3 DEF Perturb, Finish, vars, netVars
  <2>2. CASE events' \subseteq events
    BY <2>1, <2>2, StillOnTime DEF Arrivals, LatencyInv, UsesOf
  <2>3. CASE Perturb
    BY <2>1, <2>3, PerturbShape, StillOnTime DEF LatencyInv, UsesOf
  <2>4. QED
    BY <1>3, <2>2, <2>3 DEF Finish, vars
<1>4. QED
  BY <1>1, <1>2, <1>3 DEF Next, Returned

\* The latency a packet has accumulated is the time it has really travelled plus the
\* rounds charged for its failed tries, whatever queues and drift it met (lines 247-254,
\* 265), for every number of retries.
THEOREM LatencyAccountingHolds == Spec => []LatencyAccounting
<1>1. Init => TypeInv /\ JudgeInv /\ LatencyInv
  <2>1. ASSUME Init
        PROVE  DOMAIN packets = {} /\ slots = {} /\ told = {} /\ Completed \subseteq DOMAIN packets
    BY <2>1, InitTyped, ListFacts DEF Init
  <2>2. QED
    BY <2>1, InitTyped, InitAccount, FS_EmptySet DEF JudgeInv, SlotPids, BlameInv, LatencyInv
<1>2. TypeInv /\ JudgeInv /\ LatencyInv /\ [Next]_vars
        => TypeInv' /\ JudgeInv' /\ LatencyInv'
  BY TypeStep, JudgeStep, LatencyStep
<1>3. TypeInv /\ LatencyInv => LatencyAccounting
  BY OnTimeEverywhere DEF TypeInv
<1>4. QED
  BY <1>1, <1>2, <1>3, PTL DEF Spec

-----------------------------------------------------------------------------
(* The simulator implements DeliveryContract *)

Praise == {t \in told : t.verdict = "delivered"}

LEMMA CreditsArePraise == CreditedNodes = {<<t.hop[1], t.pid>> : t \in Praise}
BY DEF CreditedNodes, Praise

\* A drop is never reported as a delivery.
LEMMA DropNotPraised ==
  ASSUME NEW why \in Reason
  PROVE  Observable(why) # "delivered"
BY DEF Observable, Reason

\* What an arrival does to a packet, as the contract sees it.
LEMMA ArriveMaps ==
  ASSUME TypeInv, AccountInv, Arrive
  PROVE  \/ \E id \in 0..(Cardinality(DOMAIN packets) - 1), at \in SUBSET Node :
              Contract!Accept(id, at)
         \/ UNCHANGED Contract!cvars
<1>1. PICK pid \in DOMAIN packets, q \in PacketType :
        /\ First \in events /\ First.kind = "arrive" /\ First.pid = {pid} /\ Takes(pid, q)
  BY ArriveShape
<1>2. running /\ running' = running
  BY DEF Arrive, Take
<1>3. DOMAIN packets' = DOMAIN packets
  BY <1>1 DEF Takes, Replaces
<1>4. q.last \in SUBSET Hop
  BY DEF PacketType
<1>5. ASSUME delivered' = delivered, Praise' = Praise
      PROVE  UNCHANGED Contract!cvars
  <2>1. AcceptedIds' = AcceptedIds
    BY <1>5 DEF AcceptedIds
  <2>2. CreditedNodes' = CreditedNodes
    BY <1>5, CreditsArePraise DEF CreditedNodes, Praise
  <2>3. QED
    BY <1>2, <1>3, <2>1, <2>2 DEF Contract!cvars
<1>6. CASE Moves(pid, q)
  <2>1. delivered' = delivered /\ told' = told
    BY <1>6 DEF Moves, endVars
  <2>2. Praise' = Praise
    BY <2>1 DEF Praise
  <2>3. QED
    BY <1>5, <2>1, <2>2
<1>7. CASE Ends(pid, q)
  <2>1. CASE delivered' = Append(delivered, pid) /\ Tells(pid, q, "delivered")
    <3> DEFINE at == {h[1] : h \in q.last}
               new == {[pid |-> pid, hop |-> h, verdict |-> "delivered"] : h \in q.last}
    <3>1. at \in SUBSET Node
      BY <1>4 DEF Hop
    <3>2. pid \in 0..(Cardinality(DOMAIN packets) - 1)
      BY PacketDomain
    <3>3. pid \notin AcceptedIds
      <4>1. First \in Arrivals(pid)
        BY <1>1 DEF Arrivals
      <4>2. pid \notin Completed
        BY <4>1 DEF AccountInv
      <4>3. QED
        BY <4>2 DEF Completed, AcceptedIds
    <3>4. AcceptedIds' = AcceptedIds \cup {pid}
      <4>1. Len(delivered) \in Nat /\ DOMAIN delivered = 1..Len(delivered)
            /\ delivered \in Seq(DOMAIN packets)
        BY ListFacts DEF TypeInv, TypeOK
      <4>2. /\ DOMAIN delivered' = DOMAIN delivered \cup {Len(delivered) + 1}
            /\ \A i \in DOMAIN delivered : delivered'[i] = delivered[i]
            /\ delivered'[Len(delivered) + 1] = pid
        BY <2>1, <4>1
      <4>3. QED
        BY <4>2 DEF AcceptedIds, Range
    <3>5. told' = told \cup new
      BY <2>1 DEF Tells
    <3>6. Praise' = Praise \cup new
      BY <3>5 DEF Praise
    <3>7. CreditedNodes' = CreditedNodes \cup {<<n, pid>> : n \in at}
      <4>1. CreditedNodes' = {<<t.hop[1], t.pid>> : t \in Praise'}
        BY DEF CreditedNodes, Praise
      <4>2. {<<t.hop[1], t.pid>> : t \in new} = {<<n, pid>> : n \in at}
        <5>1. \A h \in q.last : [pid |-> pid, hop |-> h, verdict |-> "delivered"].hop = h
                                /\ [pid |-> pid, hop |-> h, verdict |-> "delivered"].pid = pid
          OBVIOUS
        <5>2. \A t \in new : \E h \in q.last : t.hop = h /\ t.pid = pid
          BY <5>1
        <5>3. \A h \in q.last : \E t \in new : t.hop = h /\ t.pid = pid
          BY <5>1
        <5> HIDE DEF new
        <5>4. QED
          BY <5>2, <5>3
      <4> HIDE DEF new, at
      <4>3. QED
        BY <3>6, <4>1, <4>2, CreditsArePraise
    <3> HIDE DEF at
    <3>8. Contract!Accept(pid, at)
      BY <1>2, <1>3, <3>3, <3>4, <3>7 DEF Contract!Accept
    <3>9. QED
      BY <3>1, <3>2, <3>8
  <2>2. CASE delivered' = delivered /\ told' = told
    <3>1. Praise' = Praise
      BY <2>2 DEF Praise
    <3>2. QED
      BY <1>5, <2>2, <3>1
  <2>3. ASSUME NEW why \in Reason, delivered' = delivered, Tells(pid, q, Observable(why))
        PROVE  UNCHANGED Contract!cvars
    <3>1. Observable(why) # "delivered"
      BY DropNotPraised
    <3>2. Praise' = Praise
      BY <2>3, <3>1 DEF Praise, Tells
    <3>3. QED
      BY <1>5, <2>3, <3>2
  <2>4. QED
    BY <1>7, <2>1, <2>2, <2>3 DEF Ends
<1>8. QED
  BY <1>1, <1>6, <1>7 DEF Takes

LEMMA SimContractStep ==
  ASSUME TypeInv, AccountInv, [Next]_vars
  PROVE  [Contract!Next]_(Contract!cvars)
<1>1. ASSUME UNCHANGED endVars, DOMAIN packets' = DOMAIN packets, running' = running
      PROVE  UNCHANGED Contract!cvars
  BY <1>1 DEF endVars, Contract!cvars, AcceptedIds, CreditedNodes
<1>2. CASE UNCHANGED vars
  BY <1>1, <1>2 DEF vars, endVars
<1>3. CASE Generate
  <2>1. PICK pid \in Nat : /\ pid \notin DOMAIN packets
                           /\ DOMAIN packets' = DOMAIN packets \cup {pid}
    BY <1>3, GenerateShape
  <2>2. Cardinality(DOMAIN packets') = Cardinality(DOMAIN packets) + 1
    BY <2>1, FS_AddElement DEF TypeInv
  <2>3. running /\ running' = running /\ UNCHANGED endVars
    BY <1>3 DEF Generate, Take
  <2>4. AcceptedIds' = AcceptedIds /\ CreditedNodes' = CreditedNodes
    BY <2>3 DEF endVars, AcceptedIds, CreditedNodes
  <2>5. Contract!Issue
    BY <2>2, <2>3, <2>4 DEF Contract!Issue
  <2>6. QED
    BY <2>5 DEF Contract!Next
<1>4. CASE Arrive
  BY <1>4, ArriveMaps DEF Contract!Next
<1>5. CASE Perturb
  BY <1>1, <1>5 DEF Perturb
<1>6. CASE Finish
  <2>1. running /\ ~running' /\ packets' = packets /\ UNCHANGED endVars
    BY <1>6 DEF Finish
  <2>2. AcceptedIds' = AcceptedIds /\ CreditedNodes' = CreditedNodes
    BY <2>1 DEF endVars, AcceptedIds, CreditedNodes
  <2>3. running' = FALSE
    BY <1>6 DEF Finish
  <2>4. Contract!Close
    BY <2>1, <2>2, <2>3 DEF Contract!Close
  <2>5. QED
    BY <2>4 DEF Contract!Next
<1>7. QED
  BY <1>2, <1>3, <1>4, <1>5, <1>6 DEF Next, Returned

LEMMA SimContractInit == Init => Contract!Init
<1> SUFFICES ASSUME Init PROVE Contract!Init
  OBVIOUS
<1>1. DOMAIN packets = {} /\ DOMAIN delivered = {} /\ told = {} /\ running = TRUE
  BY DEF Init
<1>2. AcceptedIds = {} /\ CreditedNodes = {}
  BY <1>1 DEF AcceptedIds, CreditedNodes, Range
<1>3. Cardinality(DOMAIN packets) = 0
  BY <1>1, FS_EmptySet
<1>4. QED
  BY <1>1, <1>2, <1>3 DEF Contract!Init

\* The simulator keeps the contract of the daemon for every overlay, churn, drift and
\* traffic: what the benchmarks measure on it is bound by the same promise.
THEOREM SimulatorImplementsContract == Spec => SimImplementsContract
<1>1. Init => TypeInv /\ AccountInv
  BY InitTyped, InitAccount
<1>2. TypeInv /\ AccountInv /\ [Next]_vars => TypeInv' /\ AccountInv'
  BY TypeStep, AccountStep
<1>3. TypeInv /\ AccountInv /\ [Next]_vars => [Contract!Next]_(Contract!cvars)
  BY SimContractStep
<1>4. QED
  BY <1>1, <1>2, <1>3, SimContractInit, PTL DEF Spec, SimImplementsContract, Contract!Spec
=============================================================================
