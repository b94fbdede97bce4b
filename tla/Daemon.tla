-------------------------------- MODULE Daemon --------------------------------
(***************************************************************************)
(* The local cluster of aegis_router/daemon.py: one LocalNodeProtocol per  *)
(* node, all driven by a single asyncio event loop, exchanging signed      *)
(* packets and signed delivery receipts over UDP.                          *)
(*                                                                         *)
(* Every callback of the event loop is one action.  send_new_packet is a   *)
(* loop that never awaits: it is modelled as one action per iteration, and *)
(* while it runs (sending # {}) no other callback is enabled.              *)
(*                                                                         *)
(* Abstracted: link metrics and random draws (a try may succeed or fail),  *)
(* clock values (the deadline of a pending receipt may pass at any time,   *)
(* unless Timely), the solver's scores (any hop the solver kind may pick), *)
(* signatures (a packet is intact iff its signature still verifies).       *)
(***************************************************************************)
EXTENDS P2PGraph, Sequences, Functions

CONSTANTS
  Flows,        \* the <<src, dst>> pairs the traffic loop may draw
  TTL,          \* initial ttl of a packet
  Redundancy,   \* copies sent per packet
  LinkRetries,  \* ARQ retries on one link
  Receipts,     \* are delivery receipts on
  Faults,       \* what the environment does, see FaultKind
  Timely,       \* receipt_timeout and the drains exceed every round trip
  MaxPackets    \* bound on the packets the traffic loop generates

FaultKind == {"link", "packet_loss", "receipt_loss", "corrupt", "churn"}
Reason == {"bad_signature", "node_down", "loop", "ttl_expired", "no_route",
           "link_loss", "sybil_drop"}
Phase == {"traffic", "drain", "grace", "closed", "saved"}

ASSUME DaemonAssumption ==
  /\ Flows \subseteq {f \in Node \X Node : f[1] # f[2]}
  /\ TTL \in Nat /\ Redundancy \in Nat \ {0} /\ LinkRetries \in Nat
  /\ Receipts \in BOOLEAN /\ Timely \in BOOLEAN
  /\ Faults \subseteq FaultKind
  /\ MaxPackets \in Nat

VARIABLES
  phase,           \* progress of run_local_cluster
  sending,         \* {} or the one send_new_packet loop under way
  timers,          \* call_later(delay, _send_now, payload, nxt) not yet fired
  wire,            \* packet datagrams sent and not yet received
  receiptWire,     \* receipt datagrams sent and not yet received
  deliveredIds,    \* _delivered_ids of each node
  pending,         \* _pending_receipts of each node: its <<packet_id, next_hop>> keys
  generated,       \* stats.generated; also the next packet_id of itertools.count
  delivered,       \* stats.delivered
  dropped,         \* stats.dropped
  touchedIds,      \* stats._sybil_touched_ids
  transitIds,      \* stats._transit_touched_ids
  retransmissions, \* stats.retransmissions
  redundantCopies, \* stats.redundant_copies
  receiptsConfirmed, \* stats.receipts_confirmed
  receiptTimeouts,   \* stats.receipt_timeouts
  created,         \* history: packet objects created
  lost,            \* history: copies that vanished without a record
  reached,         \* history: copies accepted at their destination
  ended,           \* history: copies dropped with a record
  armed,           \* history: keys added to _pending_receipts
  observed         \* history: what each node told its solver about a hop

netVars == <<timers, wire, receiptWire>>
deliveryVars == <<deliveredIds, delivered, reached>>
dropVars == <<dropped, touchedIds, transitIds, ended>>
verdictVars == <<pending, receiptsConfirmed, receiptTimeouts, armed, observed>>
sendVars == <<sending, generated, redundantCopies, created>>
vars == <<phase, offline, netVars, deliveryVars, dropVars, verdictVars, sendVars,
          retransmissions, lost>>

-----------------------------------------------------------------------------
(* Packets, receipts and the solver's choice *)

SeqRange(s) == {s[i] : i \in DOMAIN s}

PacketType ==
  [pid : Nat, copy : Nat, src : Node, dst : Node, ttl : Nat, visited : SUBSET Node,
   path : Seq(Node), touched : BOOLEAN, transit : BOOLEAN, intact : BOOLEAN]

FlightType == [pkt : PacketType, to : Node]

ReceiptType ==
  [pid : Nat, copy : Nat, src : Node, dst : Node, path : Seq(Node), to : Node,
   intact : BOOLEAN]

\* A packet as send_new_packet builds and signs it.
NewPacket(s, i) ==
  [pid |-> generated, copy |-> i, src |-> s.src, dst |-> s.dst, ttl |-> TTL,
   visited |-> {}, path |-> <<>>, touched |-> FALSE, transit |-> FALSE, intact |-> TRUE]

Idle == sending = {}

\* No transport is closing.
Open == phase \in {"traffic", "drain", "grace"}

InFlight == {t.pkt : t \in timers} \cup {w.pkt : w \in wire}
Quiet == timers = {} /\ wire = {} /\ receiptWire = {}

\* _risk_aware_diverse_hop: keep the natural choice unless a sibling copy took
\* it; then the alternative may or may not be judged too risky.
DiverseHops(n, dst, visited, exclude) ==
  UNION {IF natural \in exclude
         THEN {natural} \cup NextHops(n, dst, visited \cup exclude)
         ELSE {natural} : natural \in NextHops(n, dst, visited)}

\* `visited` when the decision is taken: the sibling hops were added for the
\* second question to the solver and are taken out again.
StrippedNever(visited, exclude) == visited \cup exclude   \* mutant: they stay in
Stripped(visited, exclude) == (visited \cup exclude) \ exclude

-----------------------------------------------------------------------------
(* What happens to one packet at one node *)

TouchedBy(p) == IF p.touched THEN {p.pid} ELSE {}
TransitBy(p) == IF p.transit THEN {p.pid} ELSE {}

\* _count_sybil_touch_once: a packet id counts once however many copies touched.
CountTouch(p) ==
  /\ touchedIds' = touchedIds \cup TouchedBy(p)
  /\ transitIds' = transitIds \cup TransitBy(p)

\* record_drop.
DropCopy(p, why) ==
  /\ dropped' = [dropped EXCEPT ![why] = @ + 1]
  /\ ended' = ended \cup {p}
  /\ CountTouch(p)

\* Touch flags once the frame for nxt is attempted: the destination is never transit.
TouchCountingDst(p, nxt) ==                              \* mutant: dst counts as transit
  [p EXCEPT !.touched = @ \/ nxt \in Sybil, !.transit = @ \/ nxt \in Sybil]
Touch(p, nxt) ==
  [p EXCEPT !.touched = @ \/ nxt \in Sybil,
            !.transit = @ \/ (nxt \in Sybil /\ nxt # p.dst)]

\* The packet put on the link by n.
Forwarded(p, n) == [p EXCEPT !.path = Append(@, n), !.ttl = @ - 1]

PendingKey(p, nxt) == <<p.pid, nxt>>

\* _observe_own_link: what n reports to its solver.
Observe(n, pid, nxt, verdict) == observed' = observed \cup {<<n, pid, nxt, verdict>>}

\* Receipt mode defers the verdict, otherwise the sent frame counts as a success.
ArmVerdict(p, n, nxt) ==
  LET key == PendingKey(p, nxt) IN
  IF Receipts
  THEN /\ pending' = [pending EXCEPT ![n] = @ \cup {key}]
       /\ armed' = IF key \in pending[n] THEN armed ELSE armed + 1
       /\ UNCHANGED <<receiptsConfirmed, receiptTimeouts, observed>>
  ELSE /\ Observe(n, p.pid, nxt, "sent")
       /\ UNCHANGED <<pending, armed, receiptsConfirmed, receiptTimeouts>>

ForwardToOffline(p, n, nxt) ==
  /\ nxt \in offline
  /\ Observe(n, p.pid, nxt, "node_down")
  /\ DropCopy(p, "node_down")
  /\ UNCHANGED <<timers, retransmissions, pending, armed, receiptsConfirmed,
                 receiptTimeouts>>

\* Every try fails: 1 + LinkRetries transmissions, all but the first of them repeats.
RepeatsOfLoss == LinkRetries

ForwardLost(p, n, nxt) ==
  /\ nxt \notin offline
  /\ "link" \in Faults
  /\ retransmissions' = retransmissions + RepeatsOfLoss
  /\ Observe(n, p.pid, nxt, "link_loss")
  /\ DropCopy(Touch(p, nxt), IF nxt \in Sybil THEN "sybil_drop" ELSE "link_loss")
  /\ UNCHANGED <<timers, pending, armed, receiptsConfirmed, receiptTimeouts>>

ForwardSent(p, n, nxt) ==
  /\ nxt \notin offline
  /\ \E failedTries \in 0..(IF "link" \in Faults THEN LinkRetries ELSE 0) :
       retransmissions' = retransmissions + failedTries
  /\ timers' = timers \cup {[pkt |-> Forwarded(Touch(p, nxt), n), to |-> nxt]}
  /\ ArmVerdict(p, n, nxt)
  /\ UNCHANGED dropVars

Forward(p, n, nxt) ==
  ForwardToOffline(p, n, nxt) \/ ForwardLost(p, n, nxt) \/ ForwardSent(p, n, nxt)

\* _send_receipt: nothing is sent from a closed transport or to an offline node.
SentReceipt(r) == IF Open /\ r.to \notin offline THEN {r} ELSE {}

\* _emit_receipt: addressed to the last forwarder.
EmittedToSource(p) ==                                    \* mutant: straight to the source
  IF Receipts /\ p.path # <<>>
  THEN SentReceipt([pid |-> p.pid, copy |-> p.copy, src |-> p.src, dst |-> p.dst,
                    path |-> p.path, to |-> p.path[1], intact |-> TRUE])
  ELSE {}
EmittedReceipt(p) ==
  IF Receipts /\ p.path # <<>>
  THEN SentReceipt([pid |-> p.pid, copy |-> p.copy, src |-> p.src, dst |-> p.dst,
                    path |-> p.path, to |-> p.path[Len(p.path)], intact |-> TRUE])
  ELSE {}

NeverDelivered(p) == FALSE                               \* mutant: no dedup
AlreadyDelivered(p) == p.pid \in deliveredIds[p.dst]

\* A copy reaches its destination: rw is receiptWire before this callback.
Accept(p, rw) ==
  /\ p.intact
  /\ receiptWire' = rw \cup EmittedReceipt(p)
  /\ reached' = reached \cup {p}
  /\ IF AlreadyDelivered(p)
     THEN UNCHANGED <<deliveredIds, delivered, touchedIds, transitIds>>
     ELSE /\ deliveredIds' = [deliveredIds EXCEPT ![p.dst] = @ \cup {p.pid}]
          /\ delivered' = delivered \cup {p}
          /\ CountTouch(p)
  /\ UNCHANGED <<dropped, ended, timers, retransmissions, verdictVars>>

ReceiptBeforeVerify(p, rw) ==                            \* mutant: the receipt goes first
  /\ ~p.intact
  /\ DropCopy(p, "bad_signature")
  /\ receiptWire' = rw \cup EmittedReceipt(p)
  /\ UNCHANGED <<timers, retransmissions, deliveryVars, verdictVars>>
RejectSignature(p, rw) ==
  /\ ~p.intact
  /\ DropCopy(p, "bad_signature")
  /\ receiptWire' = rw
  /\ UNCHANGED <<timers, retransmissions, deliveryVars, verdictVars>>

\* The arrival checks of a node that is not the destination, in their order.
TransitDropNoTtl(p, n) ==                                \* mutant: no ttl check
  CASE n \in offline -> {"node_down"}
    [] n \notin offline /\ n \in p.visited -> {"loop"}
    [] OTHER -> {}
TransitDropOffline(p, n) ==                              \* mutant: no offline check
  CASE n \in p.visited -> {"loop"}
    [] n \notin p.visited /\ p.ttl = 0 -> {"ttl_expired"}
    [] OTHER -> {}
TransitDrop(p, n) ==
  CASE n \in offline -> {"node_down"}
    [] n \notin offline /\ n \in p.visited -> {"loop"}
    [] n \notin offline /\ n \notin p.visited /\ p.ttl = 0 -> {"ttl_expired"}
    [] OTHER -> {}

DropInTransit(p, n) ==
  /\ \E why \in TransitDrop(p, n) : DropCopy(p, why)
  /\ UNCHANGED <<timers, retransmissions, verdictVars>>

\* The solver's answers once n has marked itself visited.
HopsAt(p, n, exclude) ==
  IF exclude = {} THEN NextHops(n, p.dst, p.visited \cup {n})
  ELSE DiverseHops(n, p.dst, p.visited \cup {n}, exclude)

Visit(p, n, exclude) == [p EXCEPT !.visited = Stripped(@ \cup {n}, exclude)]

DropNoRoute(p, n, exclude) ==
  /\ TransitDrop(p, n) = {}
  /\ HopsAt(p, n, exclude) = {}
  /\ DropCopy(Visit(p, n, exclude), "no_route")
  /\ UNCHANGED <<timers, retransmissions, verdictVars>>

Relay(p, n, exclude, nxt) ==
  /\ TransitDrop(p, n) = {}
  /\ nxt \in HopsAt(p, n, exclude)
  /\ Forward(Visit(p, n, exclude), n, nxt)

-----------------------------------------------------------------------------
(* The traffic loop and the datagram callbacks *)

Init ==
  /\ phase = "traffic"
  /\ sending = {} /\ timers = {} /\ wire = {} /\ receiptWire = {} /\ offline = {}
  /\ deliveredIds = [n \in Node |-> {}]
  /\ pending = [n \in Node |-> {}]
  /\ delivered = {} /\ reached = {} /\ ended = {}
  /\ dropped = [r \in Reason |-> 0]
  /\ touchedIds = {} /\ transitIds = {} /\ observed = {}
  /\ generated = 0 /\ retransmissions = 0 /\ redundantCopies = 0
  /\ receiptsConfirmed = 0 /\ receiptTimeouts = 0
  /\ created = 0 /\ lost = 0 /\ armed = 0

\* One turn of the traffic loop starts: send_new_packet is entered.
StartSend(src, dst) ==
  /\ Idle /\ phase = "traffic"
  /\ generated < MaxPackets
  /\ sending' = {[src |-> src, dst |-> dst, left |-> Redundancy, chosen |-> {}]}
  /\ UNCHANGED <<phase, offline, netVars, deliveryVars, dropVars, verdictVars,
                 generated, redundantCopies, created, retransmissions, lost>>

\* The loop ended: record_generated, and the next packet id.
FinishSend ==
  /\ sending' = {}
  /\ generated' = generated + 1

NextCopy(s, nxt) ==
  IF s.left = 1 THEN FinishSend
  ELSE /\ sending' = {[s EXCEPT !.left = @ - 1, !.chosen = @ \cup {nxt}]}
       /\ UNCHANGED generated

IsExtraCopyFromFirst(i) == i > 0                         \* mutant: the first copy counts
IsExtraCopy(i) == i > 1

\* One iteration of send_new_packet that found a next hop (even one whose link
\* then lost the frame).
SendCopy(s) ==
  LET i == Redundancy - s.left + 1 IN
  /\ created' = created + 1
  /\ \E nxt \in Node :
       /\ Relay(NewPacket(s, i), s.src, s.chosen, nxt)
       /\ NextCopy(s, nxt)
  /\ redundantCopies' = redundantCopies + (IF IsExtraCopy(i) THEN 1 ELSE 0)
  /\ UNCHANGED <<phase, offline, wire, receiptWire, deliveryVars, lost>>

\* One iteration whose copy was dropped at the origin: the loop breaks.
SendBlocked(s) ==
  LET p == NewPacket(s, Redundancy - s.left + 1) IN
  /\ created' = created + 1
  /\ DropInTransit(p, s.src) \/ DropNoRoute(p, s.src, s.chosen)
  /\ FinishSend
  /\ UNCHANGED <<phase, offline, wire, receiptWire, deliveryVars, lost,
                 redundantCopies>>

SendNowAlways(t) ==                                      \* mutant: no look at the transport
  /\ Idle /\ phase # "saved"
  /\ timers' = timers \ {t} /\ wire' = wire \cup {t}
  /\ UNCHANGED <<phase, offline, receiptWire, deliveryVars, dropVars, verdictVars,
                 sendVars, retransmissions, lost>>

\* _send_now: a timer of an open cluster puts its datagram on the wire; after the
\* close it does nothing and the copy is lost past the measurement window.
SendNow(t) ==
  /\ Idle /\ phase # "saved"
  /\ timers' = timers \ {t}
  /\ IF Open THEN wire' = wire \cup {t} /\ UNCHANGED lost
     ELSE lost' = lost + 1 /\ UNCHANGED wire
  /\ UNCHANGED <<phase, offline, receiptWire, deliveryVars, dropVars, verdictVars,
                 sendVars, retransmissions>>

\* datagram_received, a packet: the whole of _handle_arrival.
ReceivePacket(w) ==
  /\ Idle /\ Open
  /\ wire' = wire \ {w}
  /\ IF w.to = w.pkt.dst
     THEN Accept(w.pkt, receiptWire) \/ RejectSignature(w.pkt, receiptWire)
     ELSE /\ \/ DropInTransit(w.pkt, w.to)
             \/ DropNoRoute(w.pkt, w.to, {})
             \/ \E nxt \in Node : Relay(w.pkt, w.to, {}, nxt)
          /\ UNCHANGED <<receiptWire, deliveryVars>>
  /\ UNCHANGED <<phase, offline, sendVars, lost>>

\* The edge a receipt speaks for at position i of its path.
EdgeEnd(r, i) == IF i < Len(r.path) THEN r.path[i + 1] ELSE r.dst

\* path.index(self.node_id): the first occurrence, {} when there is none.
Position(r) ==
  {i \in DOMAIN r.path : r.path[i] = r.to /\ \A j \in 1..(i - 1) : r.path[j] # r.to}

ReceiptKey(r, i) == <<r.pid, EdgeEnd(r, i)>>

\* The relay of a credited receipt, one hop further back towards the source.
RelayedReceipt(r, i) == IF i > 1 THEN SentReceipt([r EXCEPT !.to = r.path[i - 1]]) ELSE {}

\* _pending_receipts.pop.
Peeked(n, key) == pending                                \* mutant: read but not popped
Popped(n, key) == [pending EXCEPT ![n] = @ \ {key}]

\* A receipt that verifies and finds its key pending: credit, then relay.
CreditReceipt(r, i) ==
  /\ r.intact
  /\ ReceiptKey(r, i) \in pending[r.to]
  /\ pending' = Popped(r.to, ReceiptKey(r, i))
  /\ receiptsConfirmed' = receiptsConfirmed + 1
  /\ Observe(r.to, r.pid, EdgeEnd(r, i), "confirmed")
  /\ receiptWire' = (receiptWire \ {r}) \cup RelayedReceipt(r, i)
  /\ UNCHANGED <<receiptTimeouts, armed>>

\* Not authentic, not on the path, or already resolved: neither credit nor relay.
IgnoreReceipt(r) ==
  /\ ~r.intact \/ \A i \in Position(r) : ReceiptKey(r, i) \notin pending[r.to]
  /\ receiptWire' = receiptWire \ {r}
  /\ UNCHANGED verdictVars

\* datagram_received, a receipt: the whole of _handle_receipt.
ReceiveReceipt(r) ==
  /\ Idle /\ Open
  /\ (\E i \in Position(r) : CreditReceipt(r, i)) \/ IgnoreReceipt(r)
  /\ UNCHANGED <<phase, offline, timers, wire, deliveryVars, dropVars, sendVars,
                 retransmissions, lost>>

-----------------------------------------------------------------------------
(* Time: receipt deadlines, churn and the end of run_local_cluster *)

ArmedKeys == UNION {{n} \X pending[n] : n \in Node}

\* sweep_receipt_timeouts over the entries whose deadline passed.
Expire(expired) ==
  /\ pending' = [n \in Node |-> {key \in pending[n] : <<n, key>> \notin expired}]
  /\ receiptTimeouts' = receiptTimeouts + Cardinality(expired)
  /\ observed' = observed \cup {<<e[1], e[2][1], e[2][2], "timeout">> : e \in expired}
  /\ UNCHANGED <<receiptsConfirmed, armed>>

\* The periodic sweep task of a receipt-mode cluster.  Under Timely a deadline
\* passes only when nothing that could still confirm it is in flight.
SweepTimeouts ==
  /\ Idle /\ Receipts /\ phase \in {"traffic", "drain"}
  /\ Timely => Quiet
  /\ \E expired \in SUBSET ArmedKeys : expired # {} /\ Expire(expired)
  /\ UNCHANGED <<phase, offline, netVars, deliveryVars, dropVars, sendVars,
                 retransmissions, lost>>

\* _perturb_loop: each node may go offline or come back at a tick.
Perturb ==
  /\ Idle /\ "churn" \in Faults /\ phase \in {"traffic", "drain"}
  /\ offline' \in SUBSET Node \ {offline}
  /\ UNCHANGED <<phase, netVars, deliveryVars, dropVars, verdictVars, sendVars,
                 retransmissions, lost>>

\* The duration is over.
EndTraffic ==
  /\ Idle /\ phase = "traffic"
  /\ phase' = "drain"
  /\ UNCHANGED <<offline, netVars, deliveryVars, dropVars, verdictVars, sendVars,
                 retransmissions, lost>>

\* The drain is over, or the try block is left early: the periodic tasks stop.
CancelTasks ==
  /\ Idle /\ phase \in {"traffic", "drain"}
  /\ phase' = "grace"
  /\ UNCHANGED <<offline, netVars, deliveryVars, dropVars, verdictVars, sendVars,
                 retransmissions, lost>>

\* The grace period ends: one sweep of what is overdue, then every transport closes.
CloseTransports ==
  /\ Idle /\ phase = "grace"
  /\ Timely => Quiet
  /\ phase' = "closed"
  /\ \E expired \in SUBSET ArmedKeys : Expire(expired)
  /\ UNCHANGED <<offline, netVars, deliveryVars, dropVars, sendVars,
                 retransmissions, lost>>

FlushedNone == {}                                        \* mutant: nothing is flushed
Flushed == ArmedKeys

\* flush_pending_receipts of every node, each before its solver is saved.
FlushAndSave ==
  /\ Idle /\ phase = "closed"
  /\ phase' = "saved"
  /\ Expire(Flushed)
  /\ UNCHANGED <<offline, netVars, deliveryVars, dropVars, sendVars,
                 retransmissions, lost>>

-----------------------------------------------------------------------------
(* The network *)

\* UDP loses a datagram, or it sits in the buffer of a socket that closed.
LosePacket(w) ==
  /\ Idle
  /\ "packet_loss" \in Faults \/ ~Open
  /\ wire' = wire \ {w} /\ lost' = lost + 1
  /\ UNCHANGED <<phase, offline, timers, receiptWire, deliveryVars, dropVars,
                 verdictVars, sendVars, retransmissions>>

LoseReceipt(r) ==
  /\ Idle
  /\ "receipt_loss" \in Faults \/ ~Open
  /\ receiptWire' = receiptWire \ {r}
  /\ UNCHANGED <<phase, offline, timers, wire, deliveryVars, dropVars, verdictVars,
                 sendVars, retransmissions, lost>>

\* A datagram is altered so that its signature no longer verifies.  A closed socket
\* reads none.
CorruptPacket(w) ==
  /\ Idle /\ Open /\ "corrupt" \in Faults /\ w.pkt.intact
  /\ wire' = (wire \ {w}) \cup {[w EXCEPT !.pkt.intact = FALSE]}
  /\ UNCHANGED <<phase, offline, timers, receiptWire, deliveryVars, dropVars,
                 verdictVars, sendVars, retransmissions, lost>>

CorruptReceipt(r) ==
  /\ Idle /\ Open /\ "corrupt" \in Faults /\ r.intact
  /\ receiptWire' = (receiptWire \ {r}) \cup {[r EXCEPT !.intact = FALSE]}
  /\ UNCHANGED <<phase, offline, timers, wire, deliveryVars, dropVars, verdictVars,
                 sendVars, retransmissions, lost>>

-----------------------------------------------------------------------------

\* run_local_cluster returned.
Returned == phase = "saved" /\ UNCHANGED vars

Sending == \E s \in sending : SendCopy(s) \/ SendBlocked(s)

Next ==
  \/ \E f \in Flows : StartSend(f[1], f[2])
  \/ \E s \in sending : SendCopy(s)
  \/ \E s \in sending : SendBlocked(s)
  \/ \E t \in timers : SendNow(t)
  \/ \E w \in wire : ReceivePacket(w)
  \/ \E r \in receiptWire : ReceiveReceipt(r)
  \/ SweepTimeouts
  \/ Perturb
  \/ EndTraffic
  \/ CancelTasks
  \/ CloseTransports
  \/ FlushAndSave
  \/ \E w \in wire : LosePacket(w)
  \/ \E r \in receiptWire : LoseReceipt(r)
  \/ \E w \in wire : CorruptPacket(w)
  \/ \E r \in receiptWire : CorruptReceipt(r)
  \/ Returned

Spec == Init /\ [][Next]_vars

\* The event loop runs every callback that is due: a started send completes,
\* timers fire, readable sockets are read, and the bounded sleeps of
\* run_local_cluster end.  Nothing is assumed of churn, faults or the periodic sweep.
Fairness ==
  /\ WF_vars(Sending)
  /\ WF_vars(\E t \in timers : SendNow(t))
  /\ WF_vars(\E w \in wire : ReceivePacket(w))
  /\ WF_vars(\E r \in receiptWire : ReceiveReceipt(r))
  /\ WF_vars(CancelTasks) /\ WF_vars(CloseTransports) /\ WF_vars(FlushAndSave)

FairSpec == Spec /\ Fairness

-----------------------------------------------------------------------------
(* Properties *)

NetTypeOK ==
  /\ timers \in SUBSET FlightType
  /\ wire \in SUBSET FlightType
  /\ receiptWire \in SUBSET ReceiptType

DeliveryTypeOK ==
  /\ deliveredIds \in [Node -> SUBSET Nat]
  /\ delivered \in SUBSET PacketType
  /\ reached \in SUBSET PacketType

DropTypeOK ==
  /\ dropped \in [Reason -> Nat]
  /\ touchedIds \in SUBSET Nat
  /\ transitIds \in SUBSET Nat
  /\ ended \in SUBSET PacketType

Verdict == {"sent", "confirmed", "timeout", "link_loss", "node_down"}

VerdictTypeOK ==
  /\ pending \in [Node -> SUBSET (Nat \X Node)]
  /\ receiptsConfirmed \in Nat
  /\ receiptTimeouts \in Nat
  /\ armed \in Nat
  /\ observed \in SUBSET (Node \X Nat \X Node \X Verdict)

SendType == [src : Node, dst : Node, left : 1..Redundancy, chosen : SUBSET Node]

SendTypeOK ==
  /\ sending \in SUBSET SendType
  /\ generated \in Nat
  /\ redundantCopies \in Nat
  /\ created \in Nat

\* Every variable stays in the shape the code gives it; in particular a ttl never goes
\* below zero.
TypeOK ==
  /\ phase \in Phase
  /\ offline \in SUBSET Node
  /\ retransmissions \in Nat
  /\ lost \in Nat
  /\ NetTypeOK /\ DeliveryTypeOK /\ DropTypeOK /\ VerdictTypeOK /\ SendTypeOK

\* With copies racing over several paths, a packet id is delivered at most once, by
\* its addressee, by a copy whose signature verified; and an authentic copy that
\* arrives is never suppressed by one that did not verify (daemon.py 329-348).
DeliveredExactlyOnce ==
  /\ \A p, q \in delivered : p.pid = q.pid => p = q
  /\ \A n \in Node : deliveredIds[n] = {p.pid : p \in {q \in reached : q.dst = n}}
  /\ \A p \in reached : \E q \in delivered : q.pid = p.pid /\ q.intact
  /\ Idle => Cardinality(delivered) <= generated

\* No copy vanishes or is counted twice: each is in flight, dropped with one reason,
\* accepted, or lost with its datagram; and only copies beyond the first of a packet
\* are booked as redundancy overhead (daemon.py 297-311 and every record_drop).
CopyConservation ==
  /\ created = Cardinality(timers) + Cardinality(wire) + Cardinality(ended)
                + Cardinality(reached) + lost
  /\ Cardinality(ended) = SumFunction(dropped)
  /\ Idle => /\ generated + redundantCopies <= created
             /\ created <= Redundancy * generated

\* The route p took so far: a simple path of real links, which is exactly its visited
\* set, avoids the destination and cost one ttl per hop.
Route(p) ==
  /\ p.visited = SeqRange(p.path)
  /\ \A i, j \in DOMAIN p.path : p.path[i] = p.path[j] => i = j
  /\ \A i \in 1..(Len(p.path) - 1) : p.path[i + 1] \in Adj[p.path[i]]
  /\ p.dst \notin p.visited
  /\ p.ttl + Len(p.path) = TTL

\* A copy in flight left its source on a route and is on its way over a link: the hops
\* its siblings claimed never leak into it (daemon.py 313-328, 389-392, 459-462).
PathShape ==
  \A t \in timers \cup wire :
    LET p == t.pkt IN
    /\ Route(p)
    /\ p.path # <<>> /\ p.path[1] = p.src
    /\ t.to \in Adj[p.path[Len(p.path)]]

\* Did copy p go from n to nxt at position i of its path?
EdgeAt(p, i, n, nxt) == p.path[i] = n /\ EdgeEnd(p, i) = nxt

\* Credit is evidence: a hop confirmed for a packet lies on the path of a copy that
\* reached the destination, and every later hop of that copy was confirmed first
\* (daemon.py 515-552: receipts travel back one credited hop at a time).
ConfirmedChain ==
  \A o \in observed : o[4] = "confirmed" =>
    \E p \in reached : \E i \in DOMAIN p.path :
      /\ p.pid = o[2] /\ EdgeAt(p, i, o[1], o[3])
      /\ \A j \in i..Len(p.path) :
           <<p.path[j], p.pid, EdgeEnd(p, j), "confirmed">> \in observed

\* Each armed hop gets exactly one verdict, confirmed or timed out, whichever of the
\* receipt and the sweep comes first, and none is left open when the learned state is
\* saved (daemon.py 547-552, 566-580).
VerdictAccounting ==
  /\ armed = receiptsConfirmed + receiptTimeouts + Cardinality(ArmedKeys)
  /\ phase = "saved" => ArmedKeys = {}

\* A node is blamed by timeout for no hop through which a copy reached its
\* destination, when no datagram is lost and deadlines are generous
\* (daemon.py 334-338, 780-782).
NoFalseNegative ==
  \A o \in observed : o[4] = "timeout" /\ lost = 0 =>
    ~ \E p \in reached : p.pid = o[2] /\ \E i \in DOMAIN p.path : EdgeAt(p, i, o[1], o[3])

\* Did q cross the link of p at position i?
CrossedBy(p, i, q) == \E k \in DOMAIN q.path : EdgeAt(q, k, p.path[i], EdgeEnd(p, i))

\* Receipts come back: they are on, none is lost or altered, nobody leaves, and deadlines
\* are generous.
KindNetwork == Receipts /\ Timely /\ Faults \subseteq {"link", "packet_loss"}

\* Credit is complete: once nothing is in flight on a KindNetwork, a hop of a copy that
\* arrived is confirmed, unless a later link of that copy was crossed by a sibling that
\* arrived too, whose receipt resolved that link first.  Copies that get lost, and
\* siblings that share only the hops before it, take no credit from a hop
\* (daemon.py 334-342, 547-556).
CreditReachesEveryHop ==
  Quiet => \A p \in reached : \A i \in DOMAIN p.path :
    (\A q \in reached \ {p}, j \in (i + 1)..Len(p.path) : q.pid = p.pid => ~CrossedBy(p, j, q))
      => <<p.path[i], p.pid, EdgeEnd(p, i), "confirmed">> \in observed

\* The nodes other than its source that a copy was handed to, given it is heading for to.
HandedTo(p, to) == {p.path[i] : i \in 2..Len(p.path)} \cup {to}

\* Sybil exposure is exact: a flag is set iff a Sybil was handed the copy (a Sybil
\* destination is not transit), and a packet id is counted iff one of its recorded
\* copies was exposed (daemon.py 123-137, 174-180, 439-448).
ExposureExact ==
  /\ \A t \in timers \cup wire :
       /\ t.pkt.touched <=> HandedTo(t.pkt, t.to) \cap Sybil # {}
       /\ t.pkt.transit <=> (HandedTo(t.pkt, t.to) \ {t.pkt.dst}) \cap Sybil # {}
  /\ touchedIds = {p.pid : p \in {q \in ended \cup delivered : q.touched}}
  /\ transitIds = {p.pid : p \in {q \in ended \cup delivered : q.transit}}

\* "Packets that touched >=1 sybil node at any point, delivered or not"
\* (daemon.py 122-127), for every copy whose journey is over.
ExposureOfEveryCopy ==
  \A p \in ended \cup reached : p.touched => p.pid \in touchedIds

\* Only a live sender acts: a node that is offline puts no frame of its own or of others
\* on a link, and once the transports are closed no timer that still fires, no planned
\* copy and no late datagram puts anything on the network or moves a figure that was
\* measured, verdicts apart (daemon.py 350-352, 502-511, 784-789).
OnlyTheLiveSend ==
  [][/\ \A t \in timers' \ timers : t.pkt.path[Len(t.pkt.path)] \notin offline
     /\ ~Open =>
          /\ timers' \subseteq timers /\ wire' \subseteq wire /\ receiptWire' \subseteq receiptWire
          /\ UNCHANGED <<deliveryVars, dropVars, sendVars, retransmissions, receiptsConfirmed>>]_vars

\* Every armed hop eventually gets its verdict and the run saves what it learned, even
\* if no receipt and no periodic sweep ever comes (daemon.py 566-580, 772-807).
EveryVerdictReached == <>[](phase = "saved" /\ ArmedKeys = {})
=============================================================================
