# Verification of aegis-router

TLA+ specifications of aegis-router, the TLC runs that check them on small
clusters, and TLAPS proofs that hold for every cluster. Line numbers refer to
`src/aegis_router/` unless another path is given.

## 1. The system

aegis-router is a research router for peer-to-peer networks with Sybil nodes.
Packets travel hop by hop; each node asks a *solver* for the next hop; solvers
learn from what becomes of the packets they forward.

| Component | State it keeps | Operations | What makes it correct |
|---|---|---|---|
| **Daemon node** (`daemon.py` 218-580, `LocalNodeProtocol`) | dedup set, pending receipts, timers of the event loop | send redundant copies, handle an arriving packet, forward with ARQ, emit / handle / relay receipts, sweep and flush deadlines | a packet is delivered once and by an authentic copy; routes are simple; credit only with evidence; every armed hop gets one verdict |
| **Cluster statistics** (`daemon.py` 117-215) | counters, exposure id sets | `record_*` | every copy is accounted for once; exposure is exact |
| **Cluster lifecycle** (`daemon.py` 614-808) | tasks, transports, `graph.offline_nodes` | traffic, drain, cancel, grace, close, flush, save; churn and congestion ticks | nothing is accepted after the close; learned state is saved with no verdict open |
| **Event simulator** (`event_sim.py`) | event heap, packets, link queues, down nodes | generate, arrive, perturb, notify the solver | conservation of packets, no overtaking in a link queue, arrivals in time order, blame on the right hop |
| **Graph** (`graph.py`) | adjacency, metrics, offline set, landmark vectors | heap search, BFS, landmark bound, random generation | next hop lies on a shortest path; landmark bound never overestimates; the generated graph is connected |
| **Scoring solvers** (`solvers.py` 20-24, 243-424, `agent.py`) | per-peer risk, risk window and budget, Q table | `next_hop`, `observe_result` | unvisited hops first; risk stays in range; budget reacts to the window |
| **Edge learning** (`solvers.py` 391-750) | peer and edge scores, state file | `observe_result`, trusted paths, `load`, `save` | counters match observations; a trusted path uses proven edges; a restart resumes the saved state |
| **EigenTrust** (`solvers.py` 27-240) | evidence counters, trust vector | `observe`, `recompute`, `next_hop` | trust rows are stochastic, trust is a distribution |
| **RepuLink** (`repulink.py`) | endorsements, number of signed ones accepted, evidence, penalties and rewards, reputation | add (signed) endorsement, `observe`, `recompute`, `next_hop` | a signed endorsement counts once, blame follows endorsements backwards and stays bounded, rows are stochastic |
| **Signatures** (`postquantum_crypto.py`) | keys | sign / verify packet, receipt, endorsement | external library; abstracted |
| **Episode simulator, Q-learning** (`sim.py`, `agent.py` 14-68) | Q table | bounded walks, train | a walk that searches anew at every hop goes straight |
| **Training environment** (`auto_opt/trainer.py` 21-153) | one simulator, one packet | reset, step | an episode ends |
| **Benchmarks** (`scripts/adversarial_benchmark.py`, `scripts/real_network_benchmark.py`) | state files of learners, rows of results | reset, run, aggregate, compare | learning runs build on each other and on nothing else; reports compare what belongs together |
| **Searches** (`scripts/heavy_secure_search.py`, `scripts/refine_edge_multiscenario.py`) | rows, `best.json`, state files, worker pool | evaluate, checkpoint, select, next stage | workers do not share evidence; the best is kept; niches survive |
| **Arbor daemon** (`scripts/arbor_daemon.sh`) | lock, files of a cycle | loop over cycles of an external agent | one instance; an error backs off |

How they interact: solvers are plain objects called synchronously by a node
(`next_hop`) and told about outcomes (`observe_result`). In the daemon each
node has its own solver, the nodes share one graph, one statistics object and
one asyncio event loop, and exchange JSON datagrams over UDP. In the event
simulator all nodes share one solver and a packet is one mutable object.
EigenTrust and RepuLink solvers share a ledger that a periodic task recomputes.

### Hard behaviours

* Redundant copies of one packet are independent travellers that share the
  packet id in three places: the destination's dedup set, the pending receipts
  of a node two copies pass through, and the exposure sets of the statistics.
* A receipt races its deadline; it retraces the path one node at a time and any
  of its hops may be lost, altered, or refused because the node is offline.
* Churn happens between any two callbacks: a node can be offline when a frame
  reaches it, or come back before.
* Frames are sent by timers; timers outlive the transports.
* The end of a run is a sequence (drain, cancel, grace, sweep, close, flush,
  save) during which datagrams and timers are still under way.

The hazards of the code, each at its line, are in `PROJECT.json`.

## 2. The daemon: modules and their correspondence to the code

| Module | What it is |
|---|---|
| `P2PGraph` | the overlay, its churn state and the hops a solver family may return; shared with `EventSim` |
| `Daemon` | the cluster: one action per event-loop callback, its properties, and the mutated operators used to test the properties |
| `DeliveryContract` | what a run promises, abstractly; the simulator keeps it too (section 3) |
| `DaemonRefinement` | the mapping from `Daemon` to `DeliveryContract` |
| `MCDaemon` | small topologies for TLC |
| `DaemonProofs` | TLAPS proofs: types and routes |
| `DaemonDeliveryProofs` | TLAPS proofs: verdicts, acceptance, chain of credit, refinement |

State:

| Variable | Code |
|---|---|
| `phase` | where `run_local_cluster` is: traffic, drain, grace (tasks cancelled), closed (transports closed), saved |
| `sending` | the one `send_new_packet` loop under way; it never awaits, so while it is non-empty no other action is enabled |
| `timers` | `call_later(delay, _send_now, ...)` handles |
| `wire`, `receiptWire` | datagrams between `sendto` and `datagram_received` |
| `offline` | `graph.offline_nodes` |
| `deliveredIds`, `pending` | `_delivered_ids`, keys of `_pending_receipts` |
| `generated` ... `receiptTimeouts` | `ClusterStats` |
| `created`, `lost`, `reached`, `ended`, `armed`, `observed` | history, used by properties only |

Actions: `StartSend`/`SendCopy`/`SendBlocked` are the iterations of
`send_new_packet`; `SendNow` is `_send_now`; `ReceivePacket` is the whole of
`_handle_arrival`, and `Relay` with `Forward` the whole of `_forward`;
`ReceiveReceipt` is `_handle_receipt`; `SweepTimeouts`, `Perturb`,
`EndTraffic`, `CancelTasks`, `CloseTransports`, `FlushAndSave` are the tasks and
the tail of `run_local_cluster`; `LosePacket`, `LoseReceipt`, `CorruptPacket`,
`CorruptReceipt` are the network (external).

Abstractions, each on the safe side:

* Link metrics and random draws: a try may succeed or fail when `"link"` is
  among the `Faults`; the number of failed tries before a success is any number
  up to `LinkRetries`.
* Solvers: a family is the set of hops it may return. `"shortest"` is the hop
  count search with its tie break, `"scored"` any reachable unvisited neighbour
  and any reachable one when none is left (hybrid, risk-aware, adaptive, edge,
  EigenTrust, RepuLink): which of them has the best score is left open.
* Time: a deadline may pass at any sweep and datagrams travel arbitrarily long.
  `Timely` restricts deadlines and the grace period to moments when nothing is
  in flight, which is what generous timeouts mean.
* Signatures: a packet is `intact` or not. An altered datagram keeps its routing
  fields; what an attacker could write into it is not modelled.
* Packets carry a ghost `copy` number that tells sibling copies apart; the code
  never reads it.

`ForwardToOffline` (daemon.py 408-411) is a disjunct of `Forward` that TLC never
reaches: it is dead code, because there is no suspension point between the solver's
decision and the send.

## 3. The event simulator: module and correspondence

`EventSim` models `event_sim.py`; `MCEventSim` gives it small overlays and
`EventSimProofs` holds the proofs about it. `EventSimRefinement` maps it to
`DeliveryContract`, the contract the daemon implements: a generated packet is issued, a
delivered one accepted, and the `observe_result` of its delivery is a credit given on the
spot, where the daemon credits by receipts that come later. One action is one iteration of the
loop of `run` (117-138): the first event of the heap and its whole handler.

| Variable | Code |
|---|---|
| `events`, `counter` | `_events`, ordered by (time, counter), and `_counter` |
| `clock`, `running` | the time of the last event taken; the loop has not ended |
| `packets` | `_packets`: the one mutable `Packet` of each id |
| `linkAvailable` | `_link_available`, 0 for an absent key |
| `metric`, `offline` | the metrics of every link, `_down_nodes` |
| `delivered`, `dropped`, `inFlight`, `retransmissions` | the lists and counters of the statistics |
| `told`, `slots` | history: calls of `observe_result`; every use of a link |

`Generate`, `Arrive`, `Perturb` are the handlers; `Arrive` is either `Settle`
(delivery, node down, ttl, loop) or `Relay` (no route, loss, transmission).
`Finish` is the end of the loop and what `run` computes after it.

Abstractions: time is a natural number, and the latency and the transmission
time of a link are drawn from `Metric`; when a try may be lost, any number of
tries up to the ARQ bound may fail; churn may change any set of nodes at a tick,
which includes what independent coin flips do; a run with churn may begin with any
nodes down, because the simulator shares the graph's churn state and a graph outlives
a run (101-105); `loss_risk`, which only scores
read, and the averages of `EventStats` are left out. `DropAtHop` (215-221) is
kept as a disjunct although the chosen hop is never offline: it is dead code, as
in the daemon. The guard `clock' <= Duration` of `Generate` never fails either.

## 4. The searches: module and correspondence

`PathSearch` models the loops of `graph.py`; `MCPathSearch` gives it a ring with a
chord, which is what `generate_random_graph` builds. A behaviour is one call and
an action one iteration, so that what holds between iterations can be stated.

| Variable | Code |
|---|---|
| `task`, `src`, `dst`, `linkCost`, `offline` | which method is called, and on what |
| `queue`, `seen`, `answer`, `done` | the locals of the heap searches and their return |
| `landmarks`, `frontier`, `dists` | the sample, the deque and the maps of `_bfs_hops` |
| `settled` | history: the cost at which a node was popped |

`Pop` is the loop body of both heap searches, which differ only in `Length`: 1, or
the cost clipped at its lower bound. `StartBfs` and `StepBfs` are `_bfs_hops`;
`LandmarkDistance` is the hint read from its vectors. Equal heap entries are one
entry: the second one finds its node seen. Costs are integers with 1 for 0.001;
what matters is that some are below the clip.

This module is also what justifies `ShortestHop` of `P2PGraph`, the definition the
daemon and the simulator route with: `BestFirstHop` compares the two.

`Episodes` puts the walks of `sim.py` on top of it, and those of the training
environment. `router` says which walk it is, `path` holds its `node`, `hop` and
`visited`, `verdict` its `RouteResult`.

| Action | Code |
|---|---|
| `Seek`, `Forward` | `route_shortest_path`: the search for the next hop, step by step, and the hop |
| `Choose` | `route_with_agent`, `route_hybrid_scorer`: any hop a score may prefer; what the agent learns changes scores only |
| `Arrive`, `GiveUp` | the tests at the head of the loops, and their end |
| `Step` | `RouterEnv.step`, with the action of any policy |

`WalksStraight` is about the first: a walk of independent searches, each with its own
tie break, is a shortest path, and the guard against coming back (94) never fires. It
also says what `max_hops` means, in the other routers too: the destination is looked for
at the head of the loop, so a packet that reaches it by the last of `max_hops` hops is
reported lost. The walks by scores and those of the environment are modelled for their
control; no property of their own is stated.

## 5. The learning router: module and correspondence

`EdgeLearning` models `EdgeLearningSolver` with all it inherits (`solvers.py` 258-317,
331-374, 391-750): what it learns, how it plans with it, and how that survives from
one run to the next. `MCEdgeLearning` gives it a ring of five nodes,
`EdgeLearningProofs` holds the proofs. A behaviour is the life of one state file.

| Variable | Code |
|---|---|
| `owner` | whose solver it is: a node's in the daemon, `Shared` by all nodes in the simulator |
| `edges`, `known` | `edge_scores` and its keys (a defaultdict: reading inserts) |
| `peers`, `risk` | `peer_scores`, `peer_risk` |
| `budget`, `recent` | `risk_budget`, `_recent_drops` |
| `process`, `file`, `saved` | is there a process; is the state file absent, half written or whole; what it holds when whole |
| `results` | history: the outcomes told to this process |

| Action | Code |
|---|---|
| `Observe` | `observe_result` with its four levels of `super()`: fast average, window and budget, peer score and blend, edge score |
| `Score` | `next_hop` when there is no trusted path: scoring inserts the edges of the candidates |
| `BeginSave`, `EndSave`, `Crash` | `write_text` truncates, then writes; the process may die before, between or after |
| `Start`, `FailToStart` | the constructor loads and ages the file, or raises on half of one |
| `Churn` | `graph.offline_nodes` changes between calls |

`TrustedPaths` is `find_trusted_path` and `Hops` the whole of `next_hop`, as sets: of
equally short paths, and of the scored candidates, any may win. `next_hop` on a
packet with a trusted path changes nothing, so it is an operator only.

Abstractions:

* A counter is a natural number of hundredths. It is aged by 0.9 on every load, at
  most twice in a run, so that this is exact. Thresholds are compared by cross
  multiplication; risks are thousandths, rounded down. For `MaxRestarts` above 2
  counters are rounded down too, which the proofs cover and the code, with its
  doubles, does not do.
* `Observe` takes what the callers report: the simulator's outcomes with a shared
  solver (`no_route` has no counter of its own), the daemon's with an owned one, where
  a verdict by timeout is a `link_loss` of one of its own links. `node_down` is not
  reported by either, because every hop a solver returns is online when it is
  returned; the dead `ForwardToOffline` of `Daemon` and `DropAtHop` of `EventSim` are the
  other half of that argument.
* `Packets` are what a packet on the ring can be: its visited set is an arc that ends
  where it is. `_risk_aware_diverse_hop` of the daemon may also ask with the
  destination among the visited, but only after a first answer that was the
  destination, and then a neighbouring destination is answered again.
* `use_trusted_path = False` (`edge-light`) is a solver whose hops are all scored ones:
  `HopsWithinScored` covers it, its memory is the same. `PersistentLearningSolver` is
  the same without edges.

This module justifies the `"scored"` family of `P2PGraph` for the learning router:
`HopsWithinScored` says that trusted paths never leave it.

## 6. The shared ledgers: modules and correspondence

`ReputationLedger` models a cluster whose nodes route by one shared ledger, with the
part of `run_local_cluster` that drives it (690-807). `TrustRows` holds what both
ledgers share, `EigenTrust` and `RepuLink` their computations as operators (`solvers.py`
27-240, `repulink.py`), `MCReputationLedger` a ring of four, `ReputationLedgerProofs`
the proofs.

| Variable | Code |
|---|---|
| `solver` | `solver_name`: which ledger exists |
| `evidence` | `delivered`, `drops`, `_endorsements`, `pretrusted_nodes`, as one record |
| `signed` | `_signed_endorsements_accepted` |
| `pending`, `phase` | forwards awaiting a verdict; how far the end of the run has come |
| `recomputing`, `basis`, `account`, `seed`, `current`, `iteration` | the locals of `recompute`: rows (as the evidence they were drawn from), `_penalty` and `_reward`, start, vector, loop counter |
| `published` | `_trust`, `_reputation` |
| `granted` | history: the signed endorsements accepted, and when |

| Action | Code |
|---|---|
| `Forward`, `LoseFrame`, `Confirm`, `Sweep` | what a node reports of its links by `observe`: a frame lost at once, a receipt, a deadline |
| `Endorse`, `EndorseSigned` | `add_endorsement`, `add_signed_endorsement` with every refusal as a guard |
| `Tick`, `Iterate` | a recomputation by the periodic task; one iteration of its loop |
| `CancelTasks`, `FlushAndRecompute` | the end of the run: flush of every node, then the last recomputation |

`recompute` never awaits, so nothing else happens while `recomputing`; its iterations
are steps only so that `MassKept` can be stated between them.

`EvidenceDecides` compares a computation with one that knows nothing of the past: what it
publishes, also where the loop ended early, is the value of a recursive function of the
evidence. What was published, penalised or rewarded before has
no part in it, although `_trust`, `_penalty` and `_reward` are attributes that live on.
The model stops at an exact fixed point. The code stops when the change is within its
tolerance, which is one of the iterations before it and as free of the past.

`BlameFollowsEndorsements` says two things of the signals passed back: they stay within
the vouchers, none above the worst signal, and each endorser gets at least what any single
chain of at most `MaxBackwardHops` endorsements carries to it (`CarriedBack`), in the units
of the model: no cycle, no other chain and no other endorsement shields it. On a chain long
enough a weak signal comes to less than a unit and the claim says nothing. The code
passes fractions back down to 1e-10, which is the unit at a `Resolution` of a million.

Abstractions:

* EigenTrust's vectors are exact: naturals up to a common factor, in lowest terms.
  `Iterate` ends at a fixed point or after `MaxIterations`, the code when the change is
  below 1e-10 or after 200: a run sees the first iterations of the same sequence.
* RepuLink's are in units of 1/(10000 * `Resolution`), each quotient rounded down (`MassKept`
  allows for it, by four units per pair of nodes); the run takes a `Resolution` of 1. `1 - exp(-n/4)` is a table up to six
  observations of a target. The loop over hops ends when nothing is left to pass back
  or after `MaxBackwardHops` (8 in the code).
* A link has at most one forward open at a time. `node_down` outcomes leave no evidence
  and are no steps.
* The daemon supplies endorsements to the constructor only (`Corpora`); the two methods
  that add more are the library's interface and may be called at any time before the
  end. An endorsement whose issuer has no public key is one that is not authentic.
* `GreedyHops` leaves ties open, which the code breaks by landmark progress.

An accepted endorsement is never removed: expiry is a condition of acceptance only.

## 7. Campaigns: modules and correspondence

`Campaign` models the scripts that measure and search: the adversarial benchmark in
its simulator and its socket mode, the network benchmark, the heavy search and the
refinement. `Ranking` holds how rows are compared and selected, `MCCampaign` the
instances, `CampaignProofs` the proof. A behaviour is a sequence of launches, each of
which may be killed, over the state files they leave behind.

| Variable | Code |
|---|---|
| `session`, `launch`, `script`, `phase` | which scripts are launched one after the other; how far the last one is |
| `stage`, `queue`, `jobs`, `finished` | the tasks of a pool: one per candidate of a search; a benchmark is one task |
| `rows`, `results` | `rows` of a search's stage, `all_runs` of a benchmark |
| `files`, `best` | the state files, each whole or torn, with the runs its evidence comes from; `best.json` |

| Action | Code |
|---|---|
| `Launch`, `Kill` | a script is started; it and its workers are killed (external) |
| `StartTask`, `Collect` | a worker takes a task; `as_completed` hands over its result, in any order, with the checkpoint of `best.json` |
| `BeginRun` | the reset of leftovers, the constructor of the solver, its load |
| `EndRun`, `Write` | the statistics of a run; `save`, which truncates the file and then writes it |
| `EndStage`, `Finish` | survivors go on to the next stage; final `best.json`, or the report |

What a solver has learned is the sequence of the runs its evidence comes from, so
that "builds on its own runs" is an equality: `EdgeLearning` says what one run does to
the evidence, this module which runs meet in one file. Runs of the simulators are one
step with any outcome of a small set.

Abstractions: figures are small integers; `best.json` is written in one step, though
the code truncates it first; the state files of one cluster are one file. Of the solvers
of the network benchmark only `edge` is meant to build on its runs: `edge-light`, which
it does not reset, starts from whatever `edge` left in the file they share. A killed parent takes its workers
with it; orphans of a pool are not modelled. The result tables, which are only appended
to, are left out. The limits of the stages are at least 1, and a search has candidates of
different ids, as its scripts number them, so a later stage is never empty.

`DiverseElites` is the selection of the refinement loop by loop. Its list may be one
longer than `--top-k` asks for, which `NichesSurvive` allows, and for some limits (7, 8
and 13 among them) the last niches get no turn, which it allows too: it claims a place
only for the niches whose turn starts below the limit.

## 8. Runs

| Run | Instance | Question |
|---|---|---|
| `Race` | funnel of 5 nodes, 2 of them Sybil, 2 copies, datagrams lost and altered | routes, credit chains, verdicts and at-most-once acceptance when copies meet and receipts race deadlines; exposure; refinement of `DeliveryContract` |
| `Churn` | line with a spur, 2 packets between 2 flows, churn, lossy links with 1 retry, datagrams lost, TTL 1, weak fairness | accounting of copies; only the live send: no node that is offline, and nobody once the transports are closed; every verdict is reached and the run ends |
| `FunnelCredit` | funnel, no faults, generous deadlines | shows finding 1 |
| `LateExposure` | diamond, no faults | shows finding 2 |
| `Sim` | 4 nodes on a line with a spur, 2 packets over the same links, losses, 1 retry, drift between two service times, churn at every third tick | link queues, latency figures, simulated time, conservation, exposure, blame; refinement of `DeliveryContract` |
| `SimRetry` | 4 nodes, 1 retry | shows finding 3 |
| `PathSearch` | ring of 5 with a chord; all pairs, up to 2 nodes offline, every assignment of a negative and a positive cost to the links, 2 landmarks; all walks of at most 3 hops | first hop of a cheapest path with its tie break; exact and admissible landmark hints; straight walks |
| `EdgeMemory` | ring of 5, 5 links that carry traffic, window of 3, 1 of 2 nodes offline at times, up to 3 calls of a shared solver or 5 of a node's, 2 restarts | trusted paths, agreement of the two memories, restarts after saves and crashes, risk and budget against the outcomes |
| `EdgeBlacklist` | the same | shows finding 4 |
| `Ledger` | ring of 4, each ledger, with and without an anchor, no endorsements or a chain or a cycle of them, 4 calls, 3 iterations, 3 hops back | trust is kept, none for strangers or the unbacked, blame, signed endorsements, the last computation, which forgets all earlier ones |
| `Campaign` | every script but the socket mode, the benchmarks and the heavy search launched twice and killed anywhere; 2 scenarios or 2 seeds, 2 solvers, 2 learning runs; searches of up to 3 candidates on 2 workers | learning runs build on each other only; `best.json`; niches; what the reports compare |
| `SocketCampaign` | one launch of the socket mode | shows finding 5 |

Bounds. `MaxPackets` bounds the packets of a run (1, or 2 where ids must not be
confused), `TTL` the length of routes, `Redundancy` is 2 (two copies are the
smallest number that race). The diamond has two disjoint routes, the funnel two
routes that meet before the destination, the spur a dead end that exhausts ttl
and routes. Every interesting case (loop drop, ttl drop, retry, late copy, late
receipt, timer after the close) occurs in one of them: the mutants show that a
change of the code in the relevant line is noticed.

In the simulator `Duration` and `EndTime` bound the run, so its state space is
finite as it stands: with `Gaps = {1}` a run of duration 1 has two packets, which
queue on one link when the first needs retries or long service. `EndTime` is chosen so that
some packets finish and some are cut off by the end of the drain. Two values of
`Metric` are enough for drift to reorder what a queue without a free time would
transmit.

In `PathSearch`, `MaxOffline` leaves out only cases in which at most two nodes
besides the source are online; a walk of more than `MaxWalk` = 4 links visits a
node twice.

In `EdgeMemory`, `MaxCalls` counts observations, scorings and loads. Three calls of a
shared solver make a trusted path of three links (its edges may be known by scoring
alone), five of a node's fill a window of three, relax the budget and restart twice.
`Outages` takes down a relay or the destination.

In `Ledger`, `MaxCalls` counts forwards, losses, endorsements, outages and periodic
recomputations. Four suffice for two forwards that are confirmed or time out at
opposite ends of an endorsement, a recomputation between them and the last one; for a
signed endorsement that is repeated and contested by another; or for a clique of two
that praises itself beside an anchor. Three hops back go once around the cycle of two.

In `Campaign`, two learning runs are the least that can build on each other, two cells
of a benchmark (two scenarios on one seed, or two seeds) the least that can meet in a
file, and two launches the least of which the second finds leftovers; three candidates
on two workers are the least that arrive out of order and lose one to the selection.
Longer lists of rows, where the turns of the niches take two candidates and end on every
condition, are checked as an assumption of `MCCampaign`: all lists of seven rows over
three figures, without equal neighbours.

`MaxHops` = 3 is a walk's length that some pairs of `PathSearch` reach exactly.

Fairness (`Churn`): weak fairness of the callbacks that the event loop runs once
they are due (a started send, timers, readable sockets) and of the bounded
sleeps at the end of `run_local_cluster`. Nothing is assumed of churn, faults or
the periodic sweep, so the verdicts come from the final sweep and flush alone.

Deadlock is checked in every run; a finished run stutters in `Returned`.

## 9. Findings

1. **Converging copies lose credit** (`FunnelCredit`). Two copies that meet at a
   node share its key `(packet_id, next_hop)`. The first receipt pops it; the
   second is dropped there (547-548) and never reaches the other route's
   forwarders, which time out although their copy was delivered. The comment at
   334-338 says such paths must get their credit. `CreditReachesEveryHop` says that nothing
   else does: while nobody is offline and no receipt is lost or altered, a hop of a copy
   that arrived is credited unless a later link of its route is shared with a sibling that
   arrived.
2. **Late copies are not counted as exposure** (`LateExposure`). Line 341-342
   returns before `record_delivery`; the metric is documented as packets that
   touched a Sybil "at any point, delivered or not" (122-127).
3. **Retries take no simulated time** (`SimRetry`). The comment at
   event_sim.py 87-90 says each failed try costs one extra latency and service
   round. The rounds are added to the packet's latency figure (254), but its
   arrival is scheduled (265) and the link freed (251) as if the first try had
   succeeded.
4. **One lost packet blacklists a peer** (`EdgeBlacklist`). A single link loss sets the
   fast average of a fresh peer to 1.0; blended half and half with a badness of 0.15
   that is a risk of 0.575, over the threshold of 0.5 at which trusted paths avoid a
   node. The comment at solvers.py 377-379 says a handful of unlucky losses cannot
   blacklist a peer: the prior it describes tames only one half of the blend.

5. **Learning runs that do not follow each other** (`SocketCampaign`). In its socket mode
   the adversarial benchmark adds 10000 to the seed with every learning run (480), and
   the cluster names its state files after the seed (daemon.py 600, 710): the second run
   of a learner starts without what the first has learned, or from what an earlier launch
   left under that name, which nothing removes. The option calls them "Sequential runs
   for persistent solvers" (868), and the network benchmark states the rule
   (real_network_benchmark.py 114-116).

Noted while modelling, without a run of their own:

* A destination that is offline still accepts: its check (daemon.py 330) comes before the
  offline check (350), although graph.py 87-88 says an offline node cannot accept even as
  the final destination. Redundant copies on disjoint routes never blame a hop wrongly
  while nobody is offline; an offline relay swallows receipts, and finding 1 is the other
  way to lose one.
* `select_candidates.py` lets the first source of a candidate win, and the socket mode of
  the adversarial benchmark ignores the mutation of a scenario.
* The loop of `arbor_daemon.sh` tests a pipeline that ends in `tee` without `pipefail`
  (46-54), so a cycle that failed or timed out counts as completed and is followed by
  the short pause, not by the backoff.
* The seeds 30000 and up of the README's example for the network benchmark are those of
  later learning runs of the adversarial socket mode: both use the same state files.

Also: trusted paths are said to use only
edges "with proven delivery" (solvers.py 610, 640), but an edge nobody has used has a
smoothed rate of exactly the threshold 0.5, and scoring a neighbour is enough to make
it known (746). In the simulator, which reports no receipts, no edge is ever proven.

## 10. Proofs

All theorems hold for every set of nodes, topology, flow, fault set, ttl, retry
bound, redundancy, window, resolution and solver family, from the named assumptions of the
modules only (`GraphAssumption`, `DaemonAssumption`, `EventSimAssumption`,
`SearchAssumption`, `EdgeLearningAssumption`, `LedgerAssumption`,
`LinksAssumption`, `EpisodeAssumption`, `ResolutionAssumption`,
`CampaignAssumption`). One has a hypothesis more, `CreditReachesEveryHopHolds` a
`KindNetwork`: receipts are on, deadlines generous, and links and packets the only things that fail.

`Foundations` holds what the proofs share. It knows nothing of the system.

* Induction. A nonempty set of naturals has a least element (`LeastNatural`, from the
  well-foundedness of strict inclusion of finite sets), one of finite sets a smallest
  (`SmallestSet`), a bounded one of integers a largest (`LargestInteger`); a least
  counterexample stands in for an induction everywhere.
* Sums. `SumFunctionOnSet` is a fold over a set in an order nobody knows. `SumTableExists`
  builds its values over all subsets at once, and from them come the laws of sums:
  one term out (`SumRemove`), one term changed (`SumChange`), scaling, adding, a common
  bound, and the exchange of two sums (`SumSwap`).
* Recursion. A fold over a set or a sequence and a recursive function of naturals are what
  their equations say (`FoldTable`, `LeftFold`, `IteratesExist`, `RecursionIterates`): the
  provers take none for granted, because a recursive definition is a `CHOOSE`. A table of
  all partial results is built over the subsets (`PickTableExists`), and a fold over a
  sequence runs through its elements in their order (`LeftRun`).
* Ranking. Where a strict order is total on 1..n, every rank is taken by exactly one
  element (`Ranks`).

`DaemonProofs`

* `TypesHold`: `Spec => []TypeOK`. The inductive invariant is `TypeInv`, `TypeOK`
  plus the finiteness of the armed keys (needed because an expired set's
  cardinality is added to a counter).
* `PathShapeHolds`: `Spec => []PathShape`. The inductive invariant `RouteInv` adds
  what the send loop guarantees (`SendInv`): the hops chosen by earlier copies
  are neighbours of the source and none of them is the source, so taking them
  out of `visited` again removes nothing the copy itself visited.
* `ExposureExactHolds`: inductive in two parts, one per conjunct: the flags of the copies
  in flight (`Flagged`) and the counters (`Counted`), which each handler changes only
  with the copy it settles.
* `OnlyTheLiveSendHolds`: a new frame was planned by the node whose turn it is, which has
  passed its offline check in the same callback. Once the transports are closed only
  timers, planned sends and verdicts are left, and none of them touches the network or a
  figure (`ClosedSettled`); that no call of `send` is under way then is part of `SendInv`.

`DaemonDeliveryProofs`

* `VerdictAccountingHolds`: confirmed, timed-out and pending keys always add up to
  the armed ones. Inductive with `Balance`: a popped key was pending.
* `DeliveredExactlyOnceHolds`: needs that ids are below `generated` (`IdInv`) and
  that the dedup set of a node is exactly what it accepted (`AcceptInv`).
* `ConfirmedChainHolds`: needs `ChainInv`, the same statement about receipts under
  way: a receipt at position k of a route exists only if every later hop was
  credited.
* `CopyConservationHolds`: a copy is told by its packet and its index. `PlaceInv` says that
  every copy issued so far is in one place at most (waiting, on the wire, ended,
  accepted), that the counter of copies is the number of places taken plus the
  datagrams lost, and that the drop counters add up to the copies ended; each
  handler takes a copy from one place and puts it in one (`HandledIsPlaced`). `TallyInv`
  bounds the redundant copies between two sends and inside one.
* `CreditReachesEveryHopHolds`: a key belongs to a packet and a link, not to a copy, so what
  a copy may rely on is that each of its hops is `Awaited`: the key is pending, or its
  credit was given and a sibling that arrived crossed the link, for only the receipt of a
  copy that crossed a link resolves it. `CreditInv` says this of every copy under way
  and of every hop a receipt has still to pass, and of every copy that arrived that its
  receipt has come as far as some position, where it is, or stopped, or is home (`Paid`).
  Deadlines pass on an empty network only (`CalmInv`), when nobody waits any more; that a
  receipt belongs to one copy comes from `PlaceInv`, that it meets a node once from
  `ChainInv`. The constants of `FunnelCredit` are a `KindNetwork`: the exception it shows
  is the only one.
* `DaemonImplementsContract`: every step of the cluster is a step of
  `DeliveryContract` or a stutter under the mapping of `DaemonRefinement`.

`EventSimProofs`

* `SimTypesHold`: `Spec => []TypeOK`. The heap invariant `HeapInv` (a finite set of
  events with distinct counters, none before the clock) is what makes the first
  event exist and be unique, by `LeastNatural` on times and then on counters.
* `ClockMonotoneHolds`, `OfflineRelaysNothingHolds`, `NothingDueAbandonedHolds`:
  step properties from the same invariant.
* `ArriveShape`: what an arrival does to its packet, once for all outcomes: it replaces the
  packet, offers it to at most one link, tells the solver or not, and ends it or moves it
  on. The three theorems below rest on it and never reopen the handler.
* `ConservationHolds`: needs `AccountInv`, which counts the entries of the two lists and of
  the heap by packet and says that a list has no packet twice.
* `ExposureExactHolds`: the flags of a packet against every frame of it offered so far,
  stated per packet, so that a step is one packet's affair.
* `BlameTheLastHopHolds`: needs that a packet under way ends where its last frame went and
  that nothing was told of it yet, and that its frames are offered at different times,
  so that the last one is unique.
* `LatencyAccountingHolds`: needs `LatencyInv`, that every arrival of a packet under way
  comes at its creation plus its latency less what its retries have cost (`OnTime`); the
  cost is a sum over the uses of links so far, to which an arrival adds one.
* `LinkFifoHolds`: inductive with `QueueBound`: a link's free time bounds the end of
  everything it has served, and nothing was offered to it after the present.
* `SimulatorImplementsContract`: `ArriveShape` leaves two kinds of arrivals, those that end
  a packet delivered, which accept it and credit the nodes told of it, and those the
  contract does not see. That a delivered packet was not delivered before is `AccountInv`.

`PathSearchProofs`

* The inductive invariant `SearchInv` is the one of Dijkstra's algorithm: nothing in
  the heap is cheaper than what was popped (`Monotone`), and every edge of a popped
  node is accounted for by a popped node or by an entry of the heap (`Relaxed`).
* `WalkMatched`: along any walk from the source over online nodes, some entry or
  popped node is as cheap as the walk so far (least counterexample).
* `HopsMinimalHolds`: a path is found when there is one, and no walk has fewer links.
  `NothingCheaper` states the same for arbitrary lengths.
* `ReturnsReachableHolds`: what is returned is an online neighbour of the source.
* `SettledAtDistanceHolds`: `DistanceInv` adds that what was popped was walked to, with
  fewer links than nodes were popped. A walk of the table `Walks` is a sequence of
  steps of `WalkStep`, whatever its length (`WalksIs`, `TableSteps`), and is matched by the
  search like any other (`TableMatched`).
* `BestFirstHopHolds`: which of several cheapest walks wins depends on the order in which
  entries were popped, and the program forgets them. `BestInv` therefore says that there
  is a set of popped entries (`HistoryInv`) of which every one is at least as early, by cost
  and then first hop, as any that was pushed later for its node. It follows that the
  entry of the destination is the least of all walks by (cost, first hop)
  (`SearchFinds`). `ShortestReturned` compares it with `ShortestHop`, the definition the
  routing models use.
* `HintAdmissibleHolds`: `LandmarkInv` says of every map of hop counts, finished or not, that
  its counts so far are those of real ways, that the queue is in their order and spans at
  most two values, and that every node that left the queue has its neighbours counted
  (`Partial`); so the map is exact once the queue is empty (`PartialExact`).
  `Hops` is a distance (`NearComposes`, `NearReverses`; the latter is where links must go
  both ways, `LinksAssumption`), so that the difference of two distances to a landmark
  is a lower bound.
* `WalksStraightHolds`: `WalkInv` says that the search under way starts where the walk is and
  that every hop was one nearer. Each search finds what `SearchFinds` says
  (`ForwardNearer`); `EpisodeSearchesHold` carries the three properties over to all
  searches of a walk. The proof corrected the property: it used to say that a packet is
  delivered if its way is shorter than `max_hops`, which fails where `max_hops` exceeds the
  number of nodes and there is no way.

`EdgeLearningProofs`

* `TrustedPathShapeHolds`, `HopsWithinScoredHolds`: properties of the planner in every
  state, whatever was learned: they follow from the relay test, the forms a path may
  have (`PathForms`) and what a packet is (`EdgeLearningAssumption`).
* `LearningTypesHold`: inductive as it stands. The lemmas are about the arithmetic:
  badness is a fraction of its scale, a blend of two fractions is one, ageing keeps
  counters natural and zero at zero.
* `OwnedPlansDirectHolds`: needs `OwnLinks`, that neither the memory nor the state file of
  a node's solver has a key of another node, across saves, crashes and loads.
* `BudgetFollowsWindowHolds`: needs `WindowInv`, that the bounded window is the tail of
  the outcomes of this process (`SlideKeepsWindow`); `WindowCounts` carries the count of
  drops over by a bijection.
* `RiskFollowsEvidenceHolds`: the risk of a peer is a blend of what it was and of its
  badness, so it could move against the evidence where the two disagree. It cannot,
  because it is always `Poised`: the next success would not raise it, the next failure
  would not lower it. A restart, which sets the risk to the badness, establishes this.
* `RestartResumesHolds`, for up to two restarts: counters start as multiples of a hundred, so
  that nine tenths of them are whole numbers twice (`GrainInv`), and ageing that is exact
  is fair (`AgeingIsFair`). A third ageing is rounded in the model and not in the code.
* `PeersSumEdgesHolds`, for the same restarts: `SumInv` says that the memory and the state file
  each hold against a peer the sum of what they hold against the links to it. An
  observation changes one term (`BumpMatches`), exact ageing scales all (`AgedMatches`).

`ReputationLedgerProofs`

* `GrantsStandHolds`: inductive with the types of the book (`BookInv`): a granted pair is
  endorsed in the ledger, so a fresh pair cannot be among them.
* `ClosedOnAllEvidenceHolds`: needs `ClosingInv`: once flushed, the computation is over
  all evidence and nothing else can happen until it ends.
* `GreedyWithinScoredHolds`: for every vector and set of offline nodes; this carries what
  is proved of `Daemon` and `EventSim` over to the two ledger solvers.
* `TypeOKHolds` and `MassKeptHolds`: that all vectors are naturals is the hard part of the
  types (`LedgerInv`), because EigenTrust's are divided by their greatest common divisor
  (Euclid's algorithm, by common divisors: `GcdEquation`) and RepuLink's by sums that must
  not be zero. A round of trust goes out in shares that add up (`SharesAddUp`), and what is
  sent is what is received (`SumSwap`); RepuLink's rounded quotients lose at most four
  units for each pair of nodes (`LayersTyped`).
* `StrangersEarnNothingHolds`: needs `StrangerInv`, the same of the vector under way.
* `UnbackedEarnNothingHolds`: needs `NewcomerInv`, the same of the seed and of the vector under
  way. An even share that rounds to less than one unit for each node, as it would with more
  than a hundred nodes at a resolution of 1, is what `ResolutionAssumption` excludes.
* `BlameFollowsEndorsementsHolds`, for any endorsements, cycles included, any number of hops
  back and any resolution. What a hop passes back is at most half of what it received, so
  that the sum over any number of hops stays below the signal (`HalvesAddUp`), and only
  those who endorse receive it (`BackwardVouched`). What a chain carries is part of what its
  last endorser takes at that hop: a larger signal is not shared out in smaller parts
  (`PartMonotone`), a sum is at least each of its terms (`BackAtLeast`), and so on back
  along the chain (`ChainsPassedBack`).
* `EvidenceDecidesHolds`: needs `DecidesInv`, the same of the vector under way. The recursive
  function is what its equations say (`RankingIs`), so an iteration of the program is one of
  its steps (`RankingStep`); once a step changes
  nothing, none does any more (`RankingStops`), which is why the result of a loop that ended
  early is also that of the full number of iterations.

`CampaignProofs`

* `BuildsOnOwnRunsHolds`, for launches that do not include the socket mode. The property
  speaks of solvers that have loaded; its strengthening `InOrder` says what the file holds
  between the runs of a cell. That survives the steps of others because two jobs never
  share a file (`DistinctFiles`: a benchmark is one job, the candidates of a search have
  files of their own), and kills because a cell starts by removing its file
  (`RulesOfLearning`).
* `BestNeverWorsensHolds`, for every script. The keys order rows weakly (`BetterOrder`), so a
  list has a leader no row is better than (`BestIs`); the invariant `LeadInv` says that
  a `best.json` of this stage is one of its rows.
* `NichesSurviveHolds`. A loop over a ranking is followed row by row (`ChosenLoops`): a
  niche whose turn begins below the limit takes its leader and stops on the limit or on
  a multiple of the quota (`NicheTurn`, `TakesTurn`), and the loop over the rest stops on a
  list that is full, has one too many, or holds everybody (`RestFills`). `ElitesAre` puts
  the six turns and the rest together for any rows and limit. The invariant `Placed` says
  that a candidate of a stage is in the queue, at work, finished or in a row, and at one of
  these once, so that an idle stage has rows, of different candidates.
* `ReportsHoldTheorem`. `Paired`: choosing the pairs that have both means and choosing the
  seeds first come to the same, because a comprehension commutes with a map (`KeptMaps`).
  `Covered`: the means are natural sums over n runs (`RunsInv`, `TotalIs`), dominance is a
  strict order of fractions even where a solver has no runs (`DominanceNeedsRuns`,
  `DominanceTransitive`), and above every dominated solver there is one that nothing
  dominates (`FrontierCovers`).

What stays with TLC:

* `EveryVerdictReached`, a liveness property under fairness, and `ENABLED`.

## 11. Plan

1. Daemon core, its runs and proofs (done).
2. `EventSim`, its runs and proofs (done).
3. `PathSearch`, its run and proofs (done).
4. `EdgeLearning`, its runs and proofs (done). `RestartResumes` is proved for two
   restarts; for more of them counters must first be scaled to stay exact.
5. `ReputationLedger`, its runs and proofs (done). Left: joining it with `Daemon`, so that
   verdicts come from real forwards and the vector steers them.
6. `Campaign`, its runs and proofs (done). Left: joining it with `EdgeLearning`.
7. `Episodes`, its property and proof (done). Left: `QLocal`, and the random graph generator (connected, no
   duplicate links).

## 12. Not modelled

Metrics, floating-point scores and the learning of `QRoutingAgent` that only changes
them; JSON layout and latency statistics; the cryptography; the result tables,
confidence intervals and smoke gates of the benchmarks; the training library and the
rewards; `select_candidates.py`, a filter over files; demos and plots.

The Arbor daemon is a shell loop around an external agent: `flock` keeps it single, and
its one decision, the pause after a cycle, is the note of section 9.

The drain bound and the clock of the event simulator (`NothingDueAbandoned`,
`ClockMonotone`), the links a learning router or a ledger may take (`HopsWithinScored`,
`GreedyWithinScored`), what the searches find (`HopsMinimal`) and offline nodes in the
simulator (`OfflineRelaysNothing`), and the credit of every hop (`CreditReachesEveryHop`) are
proved for every instance and not checked by a run.

Of some checked properties the runs reach a part only, and the theorem the rest: redundant
copies and the early end of a send in `CopyConservation` (`Churn` sends one copy), a
RepuLink seed in which nothing is positive in `UnbackedEarnNothing`, the budget at its maximum
in `BudgetFollowsWindow`, and quotas above one in `NichesSurvive` (beside the assumption of
`MCCampaign`).
