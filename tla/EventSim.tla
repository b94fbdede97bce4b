------------------------------ MODULE EventSim -------------------------------
(***************************************************************************)
(* EventDrivenSimulator of aegis_router/event_sim.py: a heap of timed      *)
(* events, packets that walk the overlay, a transmission queue per         *)
(* directed link, churn and drift.                                         *)
(*                                                                         *)
(* One action is one iteration of run's loop: it takes the first event of  *)
(* the heap and performs its whole handler.                                *)
(*                                                                         *)
(* Abstracted: time is a natural number; a link has a latency and a service*)
(* time drawn from Metric; a try is lost or not (Lossy); the solver's      *)
(* scores (NextHops); loss_risk, which only scores read.                   *)
(***************************************************************************)
EXTENDS P2PGraph, Sequences, FiniteSetsExt, Functions

CONSTANTS
  Flows,           \* the <<src, dst>> pairs rng.sample may draw
  TTL,             \* initial ttl of a packet
  LinkRetries,     \* ARQ retries on one link
  Duration,        \* traffic is generated until then
  EndTime,         \* duration + drain_time
  Gaps,            \* delays between packets that expovariate may draw
  Metric,          \* the [latency, service] records a link may have
  Lossy,           \* may a try be lost
  Churn,           \* churn_rate > 0
  DriftCount,      \* links drifted per tick, 0 when congestion_rate = 0
  PerturbInterval  \* time between perturbation ticks

Hop == {h \in Node \X Node : h[2] \in Adj[h[1]]}
Link == {{h[1], h[2]} : h \in Hop}

ASSUME EventSimAssumption ==
  /\ Flows \subseteq {f \in Node \X Node : f[1] # f[2]}
  /\ TTL \in Nat /\ LinkRetries \in Nat
  /\ Duration \in Nat /\ EndTime \in Nat /\ Duration <= EndTime
  /\ Gaps \subseteq Nat \ {0}
  /\ Metric \subseteq [latency : Nat, service : Nat \ {0}]
  /\ Lossy \in BOOLEAN /\ Churn \in BOOLEAN
  /\ DriftCount \in Nat /\ PerturbInterval \in Nat \ {0}

VARIABLES
  running,         \* the loop of run has not ended
  clock,           \* time of the last event taken
  events,          \* _events
  counter,         \* _counter
  packets,         \* _packets: packet_id -> Packet
  linkAvailable,   \* _link_available, 0 for an absent key
  metric,          \* graph.metrics of every link
  delivered,       \* _delivered
  dropped,         \* _dropped with the reason counted in _drop_reasons
  inFlight,        \* _in_flight
  retransmissions, \* _retransmissions
  told,            \* history: what observe_result was called with
  slots            \* history: every use of a link, lost or carried

netVars == <<linkAvailable, slots>>
graphVars == <<offline, metric>>
endVars == <<delivered, dropped, told>>
vars == <<running, clock, events, counter, packets, inFlight, retransmissions, netVars,
          graphVars, endVars>>

-----------------------------------------------------------------------------
(* Events and packets *)

Reason == {"node_down", "ttl_expired", "loop", "no_route", "link_loss", "sybil_drop"}

PacketType ==
  [src : Node, dst : Node, node : Node, created : Nat, ttl : Nat, hops : Nat,
   visited : SUBSET Node, latency : Nat, queueDelay : Nat, touched : BOOLEAN,
   transit : BOOLEAN, last : SUBSET Hop]

EventType ==
  [time : Nat, seq : Nat, kind : {"generate", "arrive", "perturb"}, pid : SUBSET Nat]

SlotType ==
  [pid : Nat, hop : Hop, sent : Nat, start : Nat, round : Nat, queued : Nat, due : Nat,
   failed : Nat, lost : BOOLEAN]

\* heapq orders by (time, counter).
Before(e, f) == e.time < f.time \/ (e.time = f.time /\ e.seq < f.seq)
First == CHOOSE e \in events : \A f \in events \ {e} : Before(e, f)

At(time, seq, kind, pid) == [time |-> time, seq |-> seq, kind |-> kind, pid |-> pid]

\* heappop, then _schedule each of the events in order: new[i] gets the i-th counter.
Reschedule(new) ==
  /\ events' = (events \ {First})
                 \cup {At(new[i].time, counter + i - 1, new[i].kind, new[i].pid) :
                        i \in DOMAIN new}
  /\ counter' = counter + Len(new)

Due(time, kind, pid) == [time |-> time, kind |-> kind, pid |-> pid]

\* The event loop takes the first event unless the run is over.
OverAtEnd(e) == e.time >= EndTime                         \* mutant: one tick too early
Over(e) == e.time > EndTime

Take(kind) ==
  /\ running /\ events # {}
  /\ First.kind = kind /\ ~Over(First)
  /\ clock' = First.time

CompletedDelivered == Range(delivered)                    \* mutant: drops are forgotten
Completed == Range(delivered) \cup {d.pid : d \in Range(dropped)}

NewPacket(f, time) ==
  [src |-> f[1], dst |-> f[2], node |-> f[1], created |-> time, ttl |-> TTL, hops |-> 0,
   visited |-> {}, latency |-> 0, queueDelay |-> 0, touched |-> f[1] \in Sybil,
   transit |-> FALSE, last |-> {}]

-----------------------------------------------------------------------------
(* What becomes of an arriving packet *)

\* _notify_solver: nobody is told of a packet that no hop forwarded, and a router
\* only sees that its forward failed.
Observable(why) == IF why = "sybil_drop" THEN "link_loss" ELSE why

Notify(pid, p, verdict) ==
  told' = told \cup {[pid |-> pid, hop |-> h, verdict |-> Observable(verdict)] : h \in p.last}

DropQuietly(pid, p, why) ==
  /\ packets' = [packets EXCEPT ![pid] = p]
  /\ dropped' = Append(dropped, [pid |-> pid, reason |-> why])
  /\ UNCHANGED delivered

\* _drop with notify.
Drop(pid, p, why) == DropQuietly(pid, p, why) /\ Notify(pid, p, why)

DeliverTold(pid, p) ==                                    \* mutant: told, not counted
  Notify(pid, p, "delivered") /\ UNCHANGED <<packets, delivered, dropped>>
Deliver(pid, p) ==
  /\ delivered' = Append(delivered, pid)
  /\ Notify(pid, p, "delivered")
  /\ UNCHANGED <<packets, dropped>>

DropAtOfflineBlaming(pid, p) == Drop(pid, p, "node_down") \* mutant: its hop is blamed
\* The hop that delivered the packet to a node since gone offline is not to blame.
DropAtOffline(pid, p) == DropQuietly(pid, p, "node_down") /\ UNCHANGED told

Visit(p) == [p EXCEPT !.visited = @ \cup {p.node}]

\* The frame for nxt is attempted: exposure and the hop to blame.
Attempt(p, nxt) ==
  [p EXCEPT !.touched = @ \/ nxt \in Sybil,
            !.transit = @ \/ (nxt \in Sybil /\ nxt # p.dst),
            !.last = {<<p.node, nxt>>}]
AttemptUncounted(p, nxt) == [p EXCEPT !.last = {<<p.node, nxt>>}] \* mutant: exposure lost
LossExposure(p, nxt) == Attempt(p, nxt)

LinkOf(p, nxt) == metric[{p.node, nxt}]
Round(p, nxt) == LinkOf(p, nxt).latency + LinkOf(p, nxt).service

Use(pid, p, nxt, start, failed, lost) ==
  [pid |-> pid, hop |-> <<p.node, nxt>>, sent |-> clock', start |-> start,
   round |-> Round(p, nxt), queued |-> start + LinkOf(p, nxt).service,
   due |-> start + Round(p, nxt), failed |-> failed, lost |-> lost]

\* No try got through: one transmission and every retry.
DropLost(pid, p, nxt) ==
  /\ Lossy
  /\ retransmissions' = retransmissions + LinkRetries
  /\ Drop(pid, LossExposure(p, nxt), IF nxt \in Sybil THEN "sybil_drop" ELSE "link_loss")
  /\ slots' = slots \cup {Use(pid, p, nxt, clock', LinkRetries + 1, TRUE)}
  /\ Reschedule(<<>>)
  /\ UNCHANGED linkAvailable

\* Never taken: the hop is chosen and used in one handler.
DropAtHop(pid, p, nxt) ==
  /\ nxt \in offline
  /\ Drop(pid, [p EXCEPT !.last = {<<p.node, nxt>>}], "node_down")
  /\ Reschedule(<<>>)
  /\ UNCHANGED <<retransmissions, netVars>>

\* The link transmits one frame at a time, in the order they were offered.
StartIgnoringQueue(time, hop) == time                     \* mutant: no queue
StartWhenFree(time, hop) == linkAvailable[hop]            \* mutant: a stale free time
StartTime(time, hop) == IF linkAvailable[hop] > time THEN linkAvailable[hop] ELSE time

LatencyWithoutWait(p, nxt, wait, failed) == Round(p, nxt) + failed * Round(p, nxt) \* mutant
LatencyOf(p, nxt, wait, failed) == wait + Round(p, nxt) + failed * Round(p, nxt)

Carried(p, nxt, wait, failed) ==
  [Attempt(p, nxt) EXCEPT !.node = nxt, !.hops = @ + 1, !.ttl = @ - 1,
                          !.queueDelay = @ + wait,
                          !.latency = @ + LatencyOf(p, nxt, wait, failed)]

Transmit(pid, p, nxt) ==
  \E failed \in IF Lossy THEN 0..LinkRetries ELSE {0} :
    LET hop == <<p.node, nxt>>
        start == StartTime(clock', hop)
    IN /\ retransmissions' = retransmissions + failed
       /\ packets' = [packets EXCEPT ![pid] = Carried(p, nxt, start - clock', failed)]
       /\ linkAvailable' = [linkAvailable EXCEPT ![hop] = start + LinkOf(p, nxt).service]
       /\ slots' = slots \cup {Use(pid, p, nxt, start, failed, FALSE)}
       /\ Reschedule(<<Due(start + Round(p, nxt), "arrive", {pid})>>)
       /\ UNCHANGED endVars

\* The packet goes no further: it leaves no event behind.
Settle(pid, p) ==
  CASE p.node = p.dst -> Deliver(pid, p)
    [] p.node # p.dst /\ p.node \in offline -> DropAtOffline(pid, p)
    [] p.node # p.dst /\ p.node \notin offline /\ p.ttl = 0 -> Drop(pid, p, "ttl_expired")
    [] OTHER -> Drop(pid, p, "loop")

MayRelay(p) ==
  p.node # p.dst /\ p.node \notin offline /\ p.ttl > 0 /\ p.node \notin p.visited

\* The rest of _handle_arrive: next_hop and the transmission.
Relay(pid, p) ==
  LET hops == NextHops(p.node, p.dst, p.visited) IN
  \/ /\ hops = {}
     /\ Drop(pid, p, "no_route")
     /\ Reschedule(<<>>)
     /\ UNCHANGED <<retransmissions, netVars>>
  \/ \E nxt \in hops :
       \/ DropAtHop(pid, p, nxt)
       \/ nxt \notin offline /\ (DropLost(pid, p, nxt) \/ Transmit(pid, p, nxt))

-----------------------------------------------------------------------------
(* The loop of run *)

Init ==
  /\ running = TRUE /\ clock = 0
  /\ events = {At(0, 0, "generate", {})}
                \cup (IF Churn \/ DriftCount > 0
                      THEN {At(PerturbInterval, 1, "perturb", {})} ELSE {})
  /\ counter = Cardinality(events)
  /\ packets = <<>>
  /\ linkAvailable = [h \in Hop |-> 0]
  /\ metric \in [Link -> Metric]
  /\ offline \in IF Churn THEN SUBSET Node ELSE {{}}
  /\ delivered = <<>> /\ dropped = <<>> /\ inFlight = {}
  /\ retransmissions = 0
  /\ told = {} /\ slots = {}

\* _handle_generate.  The next packet is scheduled only within the duration, so that
\* run's own test of the time of a generate event never fails.
Generate ==
  /\ Take("generate") /\ clock' <= Duration
  /\ \E f \in Flows, gap \in Gaps \cup {0} :
       LET pid == Cardinality(DOMAIN packets)
           arrive == Due(clock', "arrive", {pid})
           next == clock' + gap
       IN /\ packets' = [i \in DOMAIN packets \cup {pid} |->
                           IF i = pid THEN NewPacket(f, clock') ELSE packets[i]]
          /\ (gap = 0) <=> (Gaps = {})                    \* traffic_rate = 0
          /\ Reschedule(IF gap # 0 /\ next <= Duration
                        THEN <<arrive, Due(next, "generate", {})>> ELSE <<arrive>>)
  /\ UNCHANGED <<running, inFlight, retransmissions, netVars, graphVars, endVars>>

\* _handle_arrive.
Arrive ==
  /\ Take("arrive")
  /\ \E pid \in First.pid :
       LET p == packets[pid] IN
       \/ /\ ~MayRelay(p)
          /\ Settle(pid, p)
          /\ Reschedule(<<>>)
          /\ UNCHANGED <<retransmissions, netVars>>
       \/ MayRelay(p) /\ Relay(pid, Visit(p))
  /\ UNCHANGED <<running, inFlight, graphVars>>

\* _handle_perturb.
Perturb ==
  /\ Take("perturb")
  /\ \E drifted \in kSubset(IF DriftCount < Cardinality(Link) THEN DriftCount
                            ELSE Cardinality(Link), Link) :
       \E new \in [drifted -> Metric] :
         metric' = [l \in Link |-> IF l \in drifted THEN new[l] ELSE metric[l]]
  /\ offline' \in IF Churn THEN SUBSET Node ELSE {offline}
  /\ LET next == clock' + PerturbInterval
     IN Reschedule(IF next <= EndTime THEN <<Due(next, "perturb", {})>> ELSE <<>>)
  /\ UNCHANGED <<running, packets, inFlight, retransmissions, netVars, endVars>>

\* The loop ends when the heap is empty or its first event, which it has taken, is late.
Finish ==
  /\ running /\ (events # {} => Over(First))
  /\ running' = FALSE
  /\ inFlight' = DOMAIN packets \ Completed
  /\ events' = IF events = {} THEN events ELSE events \ {First}
  /\ UNCHANGED <<clock, counter, packets, retransmissions, netVars, graphVars, endVars>>

Returned == ~running /\ UNCHANGED vars

Next == Generate \/ Arrive \/ Perturb \/ Finish \/ Returned

Spec == Init /\ [][Next]_vars

-----------------------------------------------------------------------------
(* Properties *)

\* Every variable has its type; a ttl that would go below zero is not a natural.
TypeOK ==
  /\ running \in BOOLEAN /\ clock \in Nat /\ counter \in Nat /\ retransmissions \in Nat
  /\ events \subseteq EventType
  /\ packets \in [0..(Cardinality(DOMAIN packets) - 1) -> PacketType]
  /\ linkAvailable \in [Hop -> Nat] /\ metric \in [Link -> Metric]
  /\ offline \subseteq Node
  /\ delivered \in Seq(DOMAIN packets)
  /\ dropped \in Seq([pid : DOMAIN packets, reason : Reason])
  /\ inFlight \subseteq DOMAIN packets
  /\ slots \subseteq SlotType

Arrivals(pid) == {e \in events : e.kind = "arrive" /\ e.pid = {pid}}
Endings(pid) == Cardinality({i \in DOMAIN delivered : delivered[i] = pid})
                + Cardinality({i \in DOMAIN dropped : dropped[i].pid = pid})

\* Conservation (_handle_arrive, and the accounting at the end of run): a packet under way
\* has exactly one event in the heap and is in neither list; a finished one has none and is
\* in one list, once; what is left when the loop ends is in flight, so that generated =
\* delivered + dropped + in_flight as EventStats reports.
Conservation ==
  /\ running =>
       \A pid \in DOMAIN packets : Cardinality(Arrivals(pid)) + Endings(pid) = 1
  /\ ~running =>
       Cardinality(DOMAIN packets) = Len(delivered) + Len(dropped) + Cardinality(inFlight)

\* Simulated time never runs backwards: no handler schedules an event before the one being
\* handled, although a link's free time and its metrics change under the queue.
ClockMonotone == [][clock' >= clock]_vars

\* A link is a serial queue (_link_available): frames are transmitted one after the other
\* in the order they were offered, also when drift changes the service time in between.
LinkFifo ==
  \A s, t \in {u \in slots : ~u.lost} :
    s # t /\ s.hop = t.hop =>
      \/ s.queued <= t.start /\ s.sent <= t.sent
      \/ t.queued <= s.start /\ t.sent <= s.sent

UsesOf(pid) == {s \in slots : s.pid = pid /\ ~s.lost}
RetryCost(pid) == SumFunction([s \in UsesOf(pid) |-> s.failed * s.round])

\* The latency a packet has accumulated is the time it has really travelled plus the rounds
\* charged for failed tries, whatever queues and drift it met (lines 247-254, 265).
LatencyAccounting ==
  \A e \in {f \in events : f.kind = "arrive"} : \A pid \in e.pid :
    packets[pid].created + packets[pid].latency = e.time + RetryCost(pid)

\* Sybil exposure (lines 184, 238-241, 256-259) is exact, for packets that are delivered,
\* dropped or still under way: a packet touched a Sybil iff its source is one or a frame of
\* it was offered to one; only a relay, never the destination, counts as transit.
ExposureExact ==
  \A pid \in DOMAIN packets :
    LET p == packets[pid]
        offered == {s.hop[2] : s \in {u \in slots : u.pid = pid}} \cap Sybil
    IN /\ p.touched <=> (p.src \in Sybil \/ offered # {})
       /\ p.transit <=> (offered \ {p.dst} # {})

LastUse(pid) == {s \in slots : s.pid = pid /\ \A u \in slots : u.pid = pid => u.sent <= s.sent}
DroppedOffline(pid) == [pid |-> pid, reason |-> "node_down"] \in Range(dropped)

\* What a solver learns (_notify_solver): one verdict per finished packet, on the last hop
\* the packet tried, "delivered" only about the destination; none for a packet that no hop
\* ever forwarded or whose bearer went offline under it; a Sybil's drop looks like a loss.
BlameTheLastHop ==
  /\ \A t \in told : t.pid \in Completed /\ t.verdict # "sybil_drop"
  /\ \A pid \in Completed :
       LET verdicts == {t \in told : t.pid = pid} IN
       /\ {t.hop : t \in verdicts} = IF DroppedOffline(pid) THEN {} ELSE {s.hop : s \in LastUse(pid)}
       /\ Cardinality(verdicts) <= 1
       /\ \A t \in verdicts : t.verdict = "delivered" => t.hop[2] = packets[pid].dst

\* A node that is offline forwards nothing, and nothing is sent to it (lines 198-202, 217-221).
OfflineRelaysNothing ==
  [][\A s \in slots' \ slots : s.hop[1] \notin offline /\ s.hop[2] \notin offline]_vars

\* The run stops only when nothing that is due remains: a packet is reported in flight
\* because its next arrival lies beyond the drain, never because it was abandoned.
NothingDueAbandoned ==
  [][running /\ ~running' =>
       \A pid \in inFlight' : \A e \in Arrivals(pid) : e.time > EndTime]_vars

\* The comment at lines 87-90: each failed try costs one extra latency + service round.
RetriesTakeTime ==
  \A s \in slots : ~s.lost => s.due >= s.sent + (s.failed + 1) * s.round
=============================================================================
