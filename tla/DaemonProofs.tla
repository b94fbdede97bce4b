----------------------------- MODULE DaemonProofs -----------------------------
(***************************************************************************)
(* What holds of the daemon for every topology, solver family, ttl,        *)
(* redundancy and fault environment.                                       *)
(***************************************************************************)
EXTENDS DaemonRefinement, Foundations

\* Building, touching, visiting and forwarding a packet yields a packet.
LEMMA NewPacketType ==
  ASSUME generated \in Nat, NEW s, s.src \in Node, s.dst \in Node, NEW i \in Nat
  PROVE  NewPacket(s, i) \in PacketType
BY DaemonAssumption, GraphAssumption DEF NewPacket, PacketType

LEMMA TouchType ==
  ASSUME NEW p \in PacketType, NEW nxt
  PROVE  Touch(p, nxt) \in PacketType
BY DEF Touch, PacketType

LEMMA VisitType ==
  ASSUME NEW p \in PacketType, NEW n \in Node, NEW exclude
  PROVE  Visit(p, n, exclude) \in PacketType
BY DEF Visit, Stripped, PacketType

LEMMA ForwardedType ==
  ASSUME NEW p \in PacketType, NEW n \in Node, p.ttl # 0
  PROVE  Forwarded(p, n) \in PacketType
<1>1. p.ttl - 1 \in Nat
  BY DEF PacketType
<1>2. Append(p.path, n) \in Seq(Node)
  BY DEF PacketType
<1>3. QED
  BY <1>1, <1>2 DEF Forwarded, PacketType

-----------------------------------------------------------------------------
(* Type correctness *)

\* The keys of all _pending_receipts together are finitely many: they are added one
\* at a time.
FiniteArmed == IsFiniteSet(ArmedKeys)

TypeInv == TypeOK /\ FiniteArmed

LEMMA DropType ==
  ASSUME DropTypeOK, NEW p \in PacketType, NEW why \in Reason, DropCopy(p, why)
  PROVE  DropTypeOK'
<1>1. dropped' \in [Reason -> Nat]
  BY DEF DropTypeOK, DropCopy
<1>2. touchedIds' \in SUBSET Nat /\ transitIds' \in SUBSET Nat
  BY DEF DropTypeOK, DropCopy, CountTouch, TouchedBy, TransitBy, PacketType
<1>3. ended' \in SUBSET PacketType
  BY DEF DropTypeOK, DropCopy
<1>4. QED
  BY <1>1, <1>2, <1>3 DEF DropTypeOK

LEMMA ObserveType ==
  ASSUME VerdictTypeOK, NEW n \in Node, NEW m \in Node, NEW pid \in Nat,
         NEW v \in Verdict, Observe(n, pid, m, v)
  PROVE  observed' \in SUBSET (Node \X Nat \X Node \X Verdict)
BY DEF VerdictTypeOK, Observe

\* Arming adds one key, so the finitely many keys stay finitely many.
LEMMA ArmKeys ==
  ASSUME pending \in [Node -> SUBSET (Nat \X Node)], NEW n \in Node, NEW key,
         pending' = [pending EXCEPT ![n] = @ \cup {key}]
  PROVE  ArmedKeys' = ArmedKeys \cup {<<n, key>>}
BY DEF ArmedKeys

LEMMA PopKeys ==
  ASSUME pending \in [Node -> SUBSET (Nat \X Node)], NEW n \in Node, NEW key,
         pending' = [pending EXCEPT ![n] = @ \ {key}]
  PROVE  ArmedKeys' = ArmedKeys \ {<<n, key>>}
BY DEF ArmedKeys

LEMMA ExpireKeys ==
  ASSUME NEW expired, pending \in [Node -> SUBSET (Nat \X Node)],
         pending' = [n \in Node |-> {key \in pending[n] : <<n, key>> \notin expired}]
  PROVE  ArmedKeys' = ArmedKeys \ expired
<1>1. \A n \in Node : \A x :
        x \in {n} \X pending'[n] <=> x \in {n} \X pending[n] /\ x \notin expired
  OBVIOUS
<1>2. \A x : x \in ArmedKeys' <=> \E n \in Node : x \in {n} \X pending'[n]
  BY DEF ArmedKeys
<1>3. \A x : x \in ArmedKeys <=> \E n \in Node : x \in {n} \X pending[n]
  BY DEF ArmedKeys
<1>4. \A x : x \in ArmedKeys' <=> x \in ArmedKeys \ expired
  BY <1>1, <1>2, <1>3
<1>5. QED
  BY <1>4

LEMMA ArmType ==
  ASSUME VerdictTypeOK, FiniteArmed, NEW p \in PacketType, NEW n \in Node,
         NEW nxt \in Node, ArmVerdict(p, n, nxt)
  PROVE  VerdictTypeOK' /\ FiniteArmed'
<1>1. CASE Receipts
  <2>1. pending' = [pending EXCEPT ![n] = @ \cup {PendingKey(p, nxt)}]
    BY <1>1 DEF ArmVerdict
  <2>2. PendingKey(p, nxt) \in Nat \X Node
    BY DEF PendingKey, PacketType
  <2>3. VerdictTypeOK'
    BY <1>1, <2>1, <2>2 DEF ArmVerdict, VerdictTypeOK
  <2>4. FiniteArmed'
    <3>1. ArmedKeys' = ArmedKeys \cup {<<n, PendingKey(p, nxt)>>}
      BY <2>1, ArmKeys DEF VerdictTypeOK
    <3>2. QED
      BY <3>1, FS_AddElement DEF FiniteArmed
  <2>5. QED
    BY <2>3, <2>4
<1>2. CASE ~Receipts
  BY <1>2, ObserveType DEF ArmVerdict, VerdictTypeOK, FiniteArmed, ArmedKeys, Verdict,
     PacketType
<1>3. QED
  BY <1>1, <1>2

LEMMA ExpireType ==
  ASSUME VerdictTypeOK, FiniteArmed, NEW expired \in SUBSET ArmedKeys, Expire(expired)
  PROVE  VerdictTypeOK' /\ FiniteArmed'
<1>1. ArmedKeys' = ArmedKeys \ expired
  BY ExpireKeys DEF Expire, VerdictTypeOK
<1>2. FiniteArmed'
  BY <1>1, FS_Subset DEF FiniteArmed
<1>3. Cardinality(expired) \in Nat
  BY FS_Subset, FS_CardinalityType DEF FiniteArmed
<1>4. observed' \in SUBSET (Node \X Nat \X Node \X Verdict)
  BY DEF Expire, VerdictTypeOK, Verdict, ArmedKeys
<1>5. pending' \in [Node -> SUBSET (Nat \X Node)]
  BY DEF Expire, VerdictTypeOK
<1>6. QED
  BY <1>2, <1>3, <1>4, <1>5 DEF Expire, VerdictTypeOK

LEMMA ForwardType ==
  ASSUME TypeInv, NEW p \in PacketType, p.ttl # 0, NEW n \in Node, NEW nxt \in Node,
         Forward(p, n, nxt)
  PROVE  /\ timers' \in SUBSET FlightType
         /\ retransmissions' \in Nat
         /\ DropTypeOK'
         /\ VerdictTypeOK' /\ FiniteArmed'
<1> USE DaemonAssumption, GraphAssumption DEF TypeInv, TypeOK
<1>1. CASE ForwardToOffline(p, n, nxt)
  <2>1. DropTypeOK'
    BY <1>1, DropType DEF ForwardToOffline, Reason
  <2>2. VerdictTypeOK' /\ FiniteArmed'
    <3>1. p.pid \in Nat /\ "node_down" \in Verdict
      BY DEF PacketType, Verdict
    <3>2. observed' \in SUBSET (Node \X Nat \X Node \X Verdict)
      BY <1>1, <3>1, ObserveType DEF ForwardToOffline
    <3>3. VerdictTypeOK'
      BY <1>1, <3>2 DEF ForwardToOffline, VerdictTypeOK
    <3>4. FiniteArmed'
      BY <1>1 DEF ForwardToOffline, FiniteArmed, ArmedKeys
    <3>5. QED
      BY <3>3, <3>4
  <2>3. QED
    BY <1>1, <2>1, <2>2 DEF ForwardToOffline, NetTypeOK
<1>2. CASE ForwardLost(p, n, nxt)
  <2>1. DropTypeOK'
    BY <1>2, DropType, TouchType DEF ForwardLost, Reason
  <2>2. VerdictTypeOK' /\ FiniteArmed'
    <3>1. p.pid \in Nat /\ "link_loss" \in Verdict
      BY DEF PacketType, Verdict
    <3>2. observed' \in SUBSET (Node \X Nat \X Node \X Verdict)
      BY <1>2, <3>1, ObserveType DEF ForwardLost
    <3>3. VerdictTypeOK'
      BY <1>2, <3>2 DEF ForwardLost, VerdictTypeOK
    <3>4. FiniteArmed'
      BY <1>2 DEF ForwardLost, FiniteArmed, ArmedKeys
    <3>5. QED
      BY <3>3, <3>4
  <2>3. QED
    BY <1>2, <2>1, <2>2 DEF ForwardLost, NetTypeOK, RepeatsOfLoss
<1>3. CASE ForwardSent(p, n, nxt)
  <2>1. Touch(p, nxt) \in PacketType /\ Touch(p, nxt).ttl # 0
    <3>1. Touch(p, nxt).ttl = p.ttl
      BY DEF Touch, PacketType
    <3>2. QED
      BY <3>1, TouchType
  <2>2. timers' \in SUBSET FlightType
    BY <1>3, <2>1, ForwardedType DEF ForwardSent, NetTypeOK, FlightType
  <2>3. VerdictTypeOK' /\ FiniteArmed'
    BY <1>3, ArmType DEF ForwardSent
  <2>4. retransmissions' \in Nat
    BY <1>3 DEF ForwardSent
  <2>5. DropTypeOK'
    BY <1>3 DEF ForwardSent, DropTypeOK, dropVars
  <2>6. QED
    BY <2>2, <2>3, <2>4, <2>5
<1>4. QED
  BY <1>1, <1>2, <1>3 DEF Forward

\* The arrival checks all pass exactly at an online node the copy has not seen, with
\* ttl left.
LEMMA TransitClear ==
  ASSUME NEW p \in PacketType, NEW n \in Node
  PROVE  /\ TransitDrop(p, n) = {} <=> n \notin offline /\ n \notin p.visited /\ p.ttl # 0
         /\ TransitDrop(p, n) \subseteq Reason
BY DEF TransitDrop, Reason, PacketType

LEMMA RelayType ==
  ASSUME TypeInv, NEW p \in PacketType, NEW n \in Node, NEW nxt \in Node,
         NEW exclude, Relay(p, n, exclude, nxt)
  PROVE  /\ timers' \in SUBSET FlightType
         /\ retransmissions' \in Nat
         /\ DropTypeOK'
         /\ VerdictTypeOK' /\ FiniteArmed'
<1>1. Visit(p, n, exclude) \in PacketType
  BY VisitType
<1>2. Visit(p, n, exclude).ttl # 0
  BY TransitClear DEF Relay, Visit, PacketType
<1>3. Forward(Visit(p, n, exclude), n, nxt)
  BY DEF Relay
<1>4. QED
  BY <1>1, <1>2, <1>3, ForwardType

LEMMA BlockedType ==
  ASSUME TypeInv, NEW p \in PacketType, NEW n \in Node, NEW exclude,
         DropInTransit(p, n) \/ DropNoRoute(p, n, exclude)
  PROVE  /\ timers' \in SUBSET FlightType
         /\ retransmissions' \in Nat
         /\ DropTypeOK'
         /\ VerdictTypeOK' /\ FiniteArmed'
<1> USE DEF TypeInv, TypeOK
<1>1. timers' \in SUBSET FlightType /\ retransmissions' \in Nat
  BY DEF DropInTransit, DropNoRoute, NetTypeOK
<1>2. DropTypeOK'
  BY DropType, TransitClear, VisitType DEF DropInTransit, DropNoRoute, Reason
<1>3. VerdictTypeOK' /\ FiniteArmed'
  BY DEF DropInTransit, DropNoRoute, verdictVars, VerdictTypeOK, FiniteArmed, ArmedKeys
<1>4. QED
  BY <1>1, <1>2, <1>3

\* The i-th copy of the send under way is a packet.
LEMMA CopyType ==
  ASSUME TypeInv, NEW s \in sending
  PROVE  /\ s \in SendType
         /\ NewPacket(s, Redundancy - s.left + 1) \in PacketType
<1>1. s \in SendType
  BY DEF TypeInv, TypeOK, SendTypeOK
<1>2. Redundancy - s.left + 1 \in Nat
  BY <1>1, DaemonAssumption, GraphAssumption DEF SendType
<1>3. QED
  BY <1>1, <1>2, NewPacketType DEF TypeInv, TypeOK, SendTypeOK, SendType

LEMMA ReceiptSentType ==
  ASSUME NEW r \in ReceiptType
  PROVE  SentReceipt(r) \subseteq ReceiptType
BY DEF SentReceipt

LEMMA EmittedReceiptType ==
  ASSUME NEW p \in PacketType
  PROVE  EmittedReceipt(p) \subseteq ReceiptType
<1>1. CASE Receipts /\ p.path # <<>>
  <2> DEFINE r == [pid |-> p.pid, copy |-> p.copy, src |-> p.src, dst |-> p.dst,
                   path |-> p.path, to |-> p.path[Len(p.path)], intact |-> TRUE]
  <2>1. p.path \in Seq(Node)
    BY DEF PacketType
  <2>2. p.path[Len(p.path)] \in Node
    BY <1>1, <2>1
  <2>3. r \in ReceiptType
    BY <2>1, <2>2 DEF PacketType, ReceiptType
  <2>4. EmittedReceipt(p) = SentReceipt(r)
    BY <1>1 DEF EmittedReceipt
  <2>5. QED
    BY <2>3, <2>4, ReceiptSentType
<1>2. CASE ~(Receipts /\ p.path # <<>>)
  BY <1>2 DEF EmittedReceipt
<1>3. QED
  BY <1>1, <1>2

LEMMA PositionType ==
  ASSUME NEW r \in ReceiptType, NEW i \in Position(r)
  PROVE  /\ i \in 1..Len(r.path)
         /\ r.path[i] = r.to
         /\ EdgeEnd(r, i) \in Node
         /\ i > 1 => r.path[i - 1] \in Node
<1>1. r.path \in Seq(Node) /\ r.dst \in Node
  BY DEF ReceiptType
<1>2. i \in 1..Len(r.path) /\ r.path[i] = r.to
  BY <1>1 DEF Position
<1>3. QED
  BY <1>1, <1>2 DEF EdgeEnd

LEMMA TypeInit == Init => TypeInv
<1> SUFFICES ASSUME Init PROVE TypeInv
  OBVIOUS
<1>1. ArmedKeys = {}
  BY DEF Init, ArmedKeys
<1>2. FiniteArmed
  BY <1>1, FS_EmptySet DEF FiniteArmed
<1>3. TypeOK
  BY DEF Init, TypeOK, Phase, NetTypeOK, DeliveryTypeOK, DropTypeOK, VerdictTypeOK,
     SendTypeOK
<1>4. QED
  BY <1>2, <1>3 DEF TypeInv

LEMMA TypeStep == TypeInv /\ [Next]_vars => TypeInv'
<1> SUFFICES ASSUME TypeInv, [Next]_vars PROVE TypeInv'
  OBVIOUS
<1> USE DaemonAssumption, GraphAssumption DEF TypeInv, TypeOK
<1>1. ASSUME NEW f \in Flows, StartSend(f[1], f[2])
      PROVE  TypeInv'
  <2>1. SendTypeOK'
    BY <1>1 DEF StartSend, SendTypeOK, SendType
  <2>2. QED
    BY <1>1, <2>1 DEF StartSend, netVars, deliveryVars, dropVars, verdictVars, NetTypeOK,
       DeliveryTypeOK, DropTypeOK, VerdictTypeOK, FiniteArmed, ArmedKeys
<1>2. ASSUME NEW s \in sending, SendCopy(s)
      PROVE  TypeInv'
  <2> DEFINE p == NewPacket(s, Redundancy - s.left + 1)
  <2>1. s \in SendType /\ p \in PacketType
    BY CopyType
  <2>2. PICK nxt \in Node : Relay(p, s.src, s.chosen, nxt) /\ NextCopy(s, nxt)
    BY <1>2 DEF SendCopy
  <2>3. /\ timers' \in SUBSET FlightType /\ retransmissions' \in Nat
        /\ DropTypeOK' /\ VerdictTypeOK' /\ FiniteArmed'
    BY <2>1, <2>2, RelayType DEF SendType
  <2>4. SendTypeOK'
    <3>1. s.left # 1 => [s EXCEPT !.left = @ - 1, !.chosen = @ \cup {nxt}] \in SendType
      <4>1. s.left # 1 => s.left - 1 \in 1..Redundancy
        BY <2>1 DEF SendType
      <4>2. s.chosen \cup {nxt} \in SUBSET Node
        BY <2>1 DEF SendType
      <4>3. QED
        BY <2>1, <4>1, <4>2 DEF SendType
    <3>2. sending' \in SUBSET SendType /\ generated' \in Nat
      BY <2>2, <3>1 DEF NextCopy, FinishSend, SendTypeOK
    <3>3. created' \in Nat /\ redundantCopies' \in Nat
      BY <1>2 DEF SendCopy, SendTypeOK
    <3>4. QED
      BY <3>2, <3>3 DEF SendTypeOK
  <2>5. QED
    BY <1>2, <2>3, <2>4 DEF SendCopy, NetTypeOK, DeliveryTypeOK, deliveryVars
<1>3. ASSUME NEW s \in sending, SendBlocked(s)
      PROVE  TypeInv'
  <2> DEFINE p == NewPacket(s, Redundancy - s.left + 1)
  <2>1. s \in SendType /\ p \in PacketType
    BY CopyType
  <2>2. /\ timers' \in SUBSET FlightType /\ retransmissions' \in Nat
        /\ DropTypeOK' /\ VerdictTypeOK' /\ FiniteArmed'
    BY <1>3, <2>1, BlockedType DEF SendBlocked, SendType
  <2>3. SendTypeOK'
    BY <1>3 DEF SendBlocked, FinishSend, SendTypeOK
  <2>4. QED
    BY <1>3, <2>2, <2>3 DEF SendBlocked, NetTypeOK, DeliveryTypeOK, deliveryVars
<1>4. ASSUME NEW t \in timers, SendNow(t)
      PROVE  TypeInv'
  BY <1>4 DEF SendNow, NetTypeOK, deliveryVars, dropVars, verdictVars, sendVars,
     DeliveryTypeOK, DropTypeOK, VerdictTypeOK, SendTypeOK, FiniteArmed, ArmedKeys
<1>5. ASSUME NEW w \in wire, ReceivePacket(w)
      PROVE  TypeInv'
  <2>1. w.pkt \in PacketType /\ w.to \in Node
    BY DEF NetTypeOK, FlightType
  <2>2. CASE w.to = w.pkt.dst /\ Accept(w.pkt, receiptWire)
    <3>1. receiptWire' \in SUBSET ReceiptType
      BY <2>1, <2>2, EmittedReceiptType DEF Accept, NetTypeOK
    <3>2. DeliveryTypeOK'
      BY <2>1, <2>2 DEF Accept, DeliveryTypeOK, PacketType
    <3>3. touchedIds' \in SUBSET Nat /\ transitIds' \in SUBSET Nat
      BY <2>1, <2>2 DEF Accept, CountTouch, TouchedBy, TransitBy, DropTypeOK, PacketType
    <3>4. QED
      BY <1>5, <2>2, <3>1, <3>2, <3>3 DEF ReceivePacket, Accept, NetTypeOK, DropTypeOK,
         VerdictTypeOK, SendTypeOK, verdictVars, sendVars, FiniteArmed, ArmedKeys
  <2>3. CASE w.to = w.pkt.dst /\ RejectSignature(w.pkt, receiptWire)
    <3>1. DropTypeOK'
      BY <2>1, <2>3, DropType DEF RejectSignature, Reason
    <3>2. QED
      BY <1>5, <2>3, <3>1 DEF ReceivePacket, RejectSignature, NetTypeOK, deliveryVars,
         DeliveryTypeOK, VerdictTypeOK, SendTypeOK, verdictVars, sendVars, FiniteArmed,
         ArmedKeys
  <2>4. CASE w.to # w.pkt.dst
    <3>1. \/ DropInTransit(w.pkt, w.to) \/ DropNoRoute(w.pkt, w.to, {})
          \/ \E nxt \in Node : Relay(w.pkt, w.to, {}, nxt)
      BY <1>5, <2>4 DEF ReceivePacket
    <3>2. /\ timers' \in SUBSET FlightType /\ retransmissions' \in Nat
          /\ DropTypeOK' /\ VerdictTypeOK' /\ FiniteArmed'
      BY <2>1, <3>1, BlockedType, RelayType
    <3>3. QED
      BY <1>5, <2>4, <3>2 DEF ReceivePacket, NetTypeOK, deliveryVars, DeliveryTypeOK,
         SendTypeOK, sendVars
  <2>5. QED
    BY <1>5, <2>2, <2>3, <2>4 DEF ReceivePacket
<1>6. ASSUME NEW r \in receiptWire, ReceiveReceipt(r)
      PROVE  TypeInv'
  <2>1. r \in ReceiptType
    BY DEF NetTypeOK
  <2>2. ASSUME NEW i \in Position(r), CreditReceipt(r, i)
        PROVE  receiptWire' \in SUBSET ReceiptType /\ VerdictTypeOK' /\ FiniteArmed'
    <3>1. EdgeEnd(r, i) \in Node /\ (i > 1 => r.path[i - 1] \in Node)
      BY <2>1, PositionType
    <3>2. i > 1 => [r EXCEPT !.to = r.path[i - 1]] \in ReceiptType
      BY <2>1, <3>1 DEF ReceiptType
    <3>3. receiptWire' \in SUBSET ReceiptType
      BY <2>2, <3>2, ReceiptSentType DEF CreditReceipt, RelayedReceipt, NetTypeOK
    <3>4. observed' \in SUBSET (Node \X Nat \X Node \X Verdict)
      BY <2>1, <2>2, <3>1, ObserveType DEF CreditReceipt, ReceiptType, Verdict
    <3>5. ArmedKeys' = ArmedKeys \ {<<r.to, ReceiptKey(r, i)>>}
      BY <2>1, <2>2, PopKeys DEF CreditReceipt, Popped, VerdictTypeOK, ReceiptType
    <3>6. FiniteArmed'
      BY <3>5, FS_RemoveElement DEF FiniteArmed
    <3>7. pending' \in [Node -> SUBSET (Nat \X Node)]
      BY <2>2 DEF CreditReceipt, Popped, VerdictTypeOK
    <3>8. QED
      BY <2>2, <3>3, <3>4, <3>6, <3>7 DEF CreditReceipt, VerdictTypeOK
  <2>3. receiptWire' \in SUBSET ReceiptType /\ VerdictTypeOK' /\ FiniteArmed'
    BY <1>6, <2>2 DEF ReceiveReceipt, IgnoreReceipt, NetTypeOK, verdictVars, VerdictTypeOK,
       FiniteArmed, ArmedKeys
  <2>4. QED
    BY <1>6, <2>3 DEF ReceiveReceipt, NetTypeOK, deliveryVars, DeliveryTypeOK, dropVars,
       DropTypeOK, sendVars, SendTypeOK
<1>7. ASSUME NEW expired \in SUBSET ArmedKeys, Expire(expired),
             phase' \in Phase, UNCHANGED <<offline, netVars, deliveryVars, dropVars,
                                           sendVars, retransmissions, lost>>
      PROVE  TypeInv'
  <2>1. VerdictTypeOK' /\ FiniteArmed'
    BY <1>7, ExpireType
  <2>2. QED
    BY <1>7, <2>1 DEF netVars, NetTypeOK, deliveryVars, DeliveryTypeOK, dropVars,
       DropTypeOK, sendVars, SendTypeOK
<1>8. CASE SweepTimeouts \/ CloseTransports \/ FlushAndSave
  BY <1>7, <1>8 DEF SweepTimeouts, CloseTransports, FlushAndSave, Flushed, Phase
<1>9. CASE Perturb \/ EndTraffic \/ CancelTasks \/ Returned \/ UNCHANGED vars
  BY <1>9 DEF Perturb, EndTraffic, CancelTasks, Returned, vars, Phase, netVars, NetTypeOK,
     deliveryVars, DeliveryTypeOK, dropVars, DropTypeOK, verdictVars, VerdictTypeOK,
     sendVars, SendTypeOK, FiniteArmed, ArmedKeys
<1>10. ASSUME NEW w \in wire, LosePacket(w) \/ CorruptPacket(w)
       PROVE  TypeInv'
  <2> DEFINE c == [w EXCEPT !.pkt.intact = FALSE]
  <2>1. c \in FlightType
    <3>1. w.pkt \in PacketType /\ w \in FlightType
      BY DEF NetTypeOK, FlightType
    <3>2. [w.pkt EXCEPT !.intact = FALSE] \in PacketType
      BY <3>1 DEF PacketType
    <3>3. QED
      BY <3>1, <3>2 DEF FlightType
  <2>2. /\ wire' \subseteq wire \cup {c}
        /\ lost' \in {lost, lost + 1}
        /\ UNCHANGED <<phase, offline, timers, receiptWire, deliveryVars, dropVars,
                       verdictVars, sendVars, retransmissions>>
    BY <1>10 DEF LosePacket, CorruptPacket
  <2> HIDE DEF c
  <2>3. NetTypeOK' /\ lost' \in Nat
    BY <2>1, <2>2 DEF NetTypeOK
  <2>4. QED
    BY <2>2, <2>3 DEF deliveryVars, DeliveryTypeOK, dropVars, DropTypeOK, verdictVars,
       VerdictTypeOK, sendVars, SendTypeOK, FiniteArmed, ArmedKeys
<1>11. ASSUME NEW r \in receiptWire, LoseReceipt(r) \/ CorruptReceipt(r)
       PROVE  TypeInv'
  <2> DEFINE c == [r EXCEPT !.intact = FALSE]
  <2>1. c \in ReceiptType
    BY DEF NetTypeOK, ReceiptType
  <2>2. /\ receiptWire' \subseteq receiptWire \cup {c}
        /\ UNCHANGED <<phase, offline, timers, wire, deliveryVars, dropVars,
                       verdictVars, sendVars, retransmissions, lost>>
    BY <1>11 DEF LoseReceipt, CorruptReceipt
  <2> HIDE DEF c
  <2>3. NetTypeOK'
    BY <2>1, <2>2 DEF NetTypeOK
  <2>4. QED
    BY <2>2, <2>3 DEF deliveryVars, DeliveryTypeOK, dropVars, DropTypeOK, verdictVars,
       VerdictTypeOK, sendVars, SendTypeOK, FiniteArmed, ArmedKeys
<1>12. QED
  BY <1>1, <1>2, <1>3, <1>4, <1>5, <1>6, <1>8, <1>9, <1>10, <1>11 DEF Next

\* Whatever the topology, the solvers and the faults, the cluster's state keeps its
\* shape and the open verdicts stay finitely many.
THEOREM TypeCorrect == Spec => []TypeInv
BY TypeInit, TypeStep, PTL DEF Spec

\* Every variable keeps the shape the code gives it, for every cluster: the ttl in a
\* packet never goes below zero, a pending key never names a stranger.
THEOREM TypesHold == Spec => []TypeOK
<1>1. TypeInv => TypeOK
  BY DEF TypeInv
<1>2. QED
  BY <1>1, TypeCorrect, PTL

-----------------------------------------------------------------------------
(* The route of a copy *)

\* Whatever the solver family, the chosen hop is a neighbour.
LEMMA HopsAreNeighbors ==
  ASSUME NEW p \in PacketType, NEW n \in Node, NEW exclude
  PROVE  HopsAt(p, n, exclude) \subseteq Adj[n]
<1>1. ReachableNeighbors(n) \subseteq Adj[n]
  BY DEF ReachableNeighbors
<1>2. ASSUME NEW dst, NEW visited
      PROVE  NextHops(n, dst, visited) \subseteq Adj[n]
  <2>1. ShortestHop(n, dst) \subseteq Adj[n]
    BY <1>1 DEF ShortestHop
  <2>2. PreferUnvisited(ReachableNeighbors(n), visited) \subseteq Adj[n]
    BY <1>1 DEF PreferUnvisited
  <2>3. QED
    BY <1>1, <2>1, <2>2, DaemonAssumption, GraphAssumption DEF NextHops
<1>3. ASSUME NEW dst, NEW visited
      PROVE  DiverseHops(n, dst, visited, exclude) \subseteq Adj[n]
  BY <1>2 DEF DiverseHops
<1>4. QED
  BY <1>2, <1>3 DEF HopsAt

\* One hop extends a route by a fresh node when the sibling hops are not on it.
LEMMA RouteGrows ==
  ASSUME NEW p \in PacketType, Route(p), NEW n \in Node, n \notin p.visited,
         n # p.dst, p.ttl # 0, NEW exclude, exclude \cap (p.visited \cup {n}) = {},
         p.path # <<>> => n \in Adj[p.path[Len(p.path)]],
         NEW nxt
  PROVE  /\ Route(Forwarded(Touch(Visit(p, n, exclude), nxt), n))
         /\ Forwarded(Touch(Visit(p, n, exclude), nxt), n).path = Append(p.path, n)
<1> DEFINE q == Forwarded(Touch(Visit(p, n, exclude), nxt), n)
<1>1. /\ q.path = Append(p.path, n)
      /\ q.visited = p.visited \cup {n}
      /\ q.dst = p.dst
      /\ q.ttl = p.ttl - 1
  BY DEF Forwarded, Touch, Visit, Stripped, PacketType
<1>2. p.path \in Seq(Node) /\ p.ttl \in Nat
  BY DEF PacketType
<1>3. /\ Len(q.path) = Len(p.path) + 1
      /\ DOMAIN q.path = 1..(Len(p.path) + 1)
      /\ DOMAIN p.path = 1..Len(p.path)
      /\ \A i \in 1..Len(p.path) : q.path[i] = p.path[i]
      /\ q.path[Len(p.path) + 1] = n
      /\ Len(p.path) \in Nat
  BY <1>1, <1>2
<1> HIDE DEF q
<1>4. SeqRange(q.path) = SeqRange(p.path) \cup {n}
  <2>1. \A x : x \in SeqRange(q.path) <=> \E i \in 1..(Len(p.path) + 1) : q.path[i] = x
    BY <1>3 DEF SeqRange
  <2>2. \A x : x \in SeqRange(p.path) <=> \E i \in 1..Len(p.path) : p.path[i] = x
    BY <1>3 DEF SeqRange
  <2>3. \A i \in 1..(Len(p.path) + 1) : i \in 1..Len(p.path) \/ i = Len(p.path) + 1
    BY <1>3
  <2>4. /\ \A i \in 1..Len(p.path) : i \in 1..(Len(p.path) + 1)
        /\ Len(p.path) + 1 \in 1..(Len(p.path) + 1)
    BY <1>3
  <2>5. \A x : x \in SeqRange(q.path) <=> x \in SeqRange(p.path) \/ x = n
    BY <1>3, <2>1, <2>2, <2>3, <2>4
  <2>6. QED
    BY <2>5
<1>5. \A i \in DOMAIN p.path : p.path[i] # n
  BY DEF Route, SeqRange
<1>6. \A i, j \in DOMAIN q.path : q.path[i] = q.path[j] => i = j
  <2>1. \A i, j \in 1..Len(p.path) : q.path[i] = q.path[j] => i = j
    BY <1>3 DEF Route
  <2>2. \A i \in 1..Len(p.path) : q.path[i] # q.path[Len(p.path) + 1]
    BY <1>3, <1>5
  <2>3. \A i \in DOMAIN q.path : i \in 1..Len(p.path) \/ i = Len(p.path) + 1
    BY <1>3
  <2>4. QED
    BY <2>1, <2>2, <2>3
<1>7. \A i \in 1..(Len(q.path) - 1) : q.path[i + 1] \in Adj[q.path[i]]
  <2>0. Len(q.path) - 1 = Len(p.path)
    BY <1>3
  <2> SUFFICES ASSUME NEW i \in 1..Len(p.path)
               PROVE  q.path[i + 1] \in Adj[q.path[i]]
    BY <2>0
  <2>1. CASE i = Len(p.path)
    BY <1>2, <1>3, <2>1
  <2>2. CASE i < Len(p.path)
    <3>1. i \in 1..(Len(p.path) - 1) /\ i + 1 \in 1..Len(p.path)
      BY <1>3, <2>2
    <3>2. p.path[i + 1] \in Adj[p.path[i]]
      BY <3>1 DEF Route
    <3>3. QED
      BY <1>3, <3>1, <3>2
  <2>3. QED
    BY <1>3, <2>1, <2>2
<1>8. q.ttl + Len(q.path) = TTL
  <2>1. q.ttl = p.ttl - 1 /\ p.ttl + Len(p.path) = TTL
    BY <1>1 DEF Route
  <2>2. Len(q.path) = Len(p.path) + 1 /\ Len(p.path) \in Nat
    BY <1>3
  <2>3. p.ttl \in Nat
    BY <1>2
  <2> HIDE DEF q
  <2>4. QED
    BY <2>1, <2>2, <2>3
<1>9. Route(q)
  <2>1. SeqRange(q.path) = q.visited /\ n # q.dst
    BY <1>1, <1>4 DEF Route
  <2>2. QED
    BY <1>1, <1>6, <1>7, <1>8, <2>1 DEF Route
<1>10. QED
  BY <1>1, <1>9 DEF q

\* A send under way has distinct ends, and its source is not among the hops taken.
SendInv ==
  /\ \A s \in sending : /\ s.src # s.dst /\ s.src \notin s.chosen
                       /\ phase = "traffic"
  /\ \A s, u \in sending : s = u

RouteInv == PathShape /\ SendInv

\* What a relay leaves in the timers: what was there, or the copy one hop further.
LEMMA RelayTimers ==
  ASSUME NEW p \in PacketType, NEW n \in Node, NEW nxt \in Node, NEW exclude,
         Relay(p, n, exclude, nxt), NEW t \in timers', t \notin timers
  PROVE  /\ t = [pkt |-> Forwarded(Touch(Visit(p, n, exclude), nxt), n), to |-> nxt]
         /\ n \notin p.visited /\ p.ttl # 0 /\ nxt \in Adj[n]
<1>1. ForwardSent(Visit(p, n, exclude), n, nxt)
  BY DEF Relay, Forward, ForwardToOffline, ForwardLost
<1>2. t = [pkt |-> Forwarded(Touch(Visit(p, n, exclude), nxt), n), to |-> nxt]
  BY <1>1 DEF ForwardSent
<1>3. nxt \in Adj[n]
  BY HopsAreNeighbors DEF Relay
<1>4. n \notin p.visited /\ p.ttl # 0
  BY TransitClear DEF Relay
<1>5. QED
  BY <1>2, <1>3, <1>4

LEMMA RelayRoute ==
  ASSUME NEW p \in PacketType, NEW n \in Node, NEW nxt \in Node, NEW exclude,
         Relay(p, n, exclude, nxt), Route(p), n # p.dst,
         exclude \cap (p.visited \cup {n}) = {},
         \/ p.path = <<>> /\ n = p.src
         \/ p.path # <<>> /\ p.path[1] = p.src /\ n \in Adj[p.path[Len(p.path)]],
         NEW t \in timers', t \notin timers
  PROVE  /\ Route(t.pkt)
         /\ t.pkt.path # <<>> /\ t.pkt.path[1] = t.pkt.src
         /\ t.to \in Adj[t.pkt.path[Len(t.pkt.path)]]
<1> DEFINE q == Forwarded(Touch(Visit(p, n, exclude), nxt), n)
<1>1. t.pkt = q /\ t.to = nxt /\ nxt \in Adj[n] /\ n \notin p.visited /\ p.ttl # 0
  BY RelayTimers
<1>2. Route(q) /\ q.path = Append(p.path, n)
  BY <1>1, RouteGrows
<1>3. p.path \in Seq(Node) /\ q.src = p.src
  BY DEF PacketType, Forwarded, Touch, Visit
<1>4. Len(q.path) = Len(p.path) + 1 /\ q.path[Len(q.path)] = n /\ q.path # <<>>
  BY <1>2, <1>3
<1>5. q.path[1] = q.src
  <2>1. CASE p.path = <<>>
    BY <2>1, <1>2, <1>3
  <2>2. CASE p.path # <<>>
    BY <2>2, <1>2, <1>3
  <2>3. QED
    BY <2>1, <2>2
<1> HIDE DEF q
<1>6. QED
  BY <1>1, <1>2, <1>4, <1>5

LEMMA RouteInit == Init => RouteInv
BY DEF Init, RouteInv, PathShape, SendInv

LEMMA RouteStep == TypeInv /\ RouteInv /\ [Next]_vars => RouteInv'
<1> SUFFICES ASSUME TypeInv, RouteInv, [Next]_vars PROVE RouteInv'
  OBVIOUS
<1> USE DaemonAssumption, GraphAssumption DEF RouteInv
<1> DEFINE Good(t) == /\ Route(t.pkt)
                      /\ t.pkt.path # <<>> /\ t.pkt.path[1] = t.pkt.src
                      /\ t.to \in Adj[t.pkt.path[Len(t.pkt.path)]]
<1>1. PathShape <=> \A t \in timers \cup wire : Good(t)
  BY DEF PathShape
<1>2. PathShape' <=> \A t \in timers' \cup wire' : Good(t)
  BY DEF PathShape, Route
<1> HIDE DEF Good
<1>3. ASSUME NEW f \in Flows, StartSend(f[1], f[2])
      PROVE  RouteInv'
  BY <1>1, <1>2, <1>3 DEF StartSend, netVars, SendInv
<1>4. ASSUME NEW s \in sending, SendCopy(s)
      PROVE  RouteInv'
  <2> DEFINE p == NewPacket(s, Redundancy - s.left + 1)
  <2>1. s \in SendType /\ p \in PacketType
    BY CopyType
  <2>2. PICK nxt \in Node : Relay(p, s.src, s.chosen, nxt) /\ NextCopy(s, nxt)
    BY <1>4 DEF SendCopy
  <2>3. /\ Route(p) /\ p.path = <<>> /\ p.visited = {} /\ p.src = s.src /\ p.dst = s.dst
        /\ s.src # s.dst /\ s.src \notin s.chosen
    BY <2>1 DEF NewPacket, Route, SeqRange, SendInv
  <2>4. nxt \in Adj[s.src] /\ s.src \notin Adj[s.src]
    BY <2>1, <2>2, HopsAreNeighbors DEF Relay, SendType
  <2> HIDE DEF p
  <2>5. \A t \in timers' : t \notin timers => Good(t)
    <3>1. s.chosen \cap (p.visited \cup {s.src}) = {}
      BY <2>3
    <3>2. s.src \in Node /\ s.src # p.dst /\ s.src = p.src
      BY <2>1, <2>3 DEF SendType
    <3>3. Relay(p, s.src, s.chosen, nxt)
      BY <2>2
    <3>4. QED
      BY <2>1, <2>3, <3>1, <3>2, <3>3, RelayRoute DEF Good
  <2>6. PathShape'
    BY <1>1, <1>2, <1>4, <2>5 DEF SendCopy
  <2>7. SendInv'
    <3> DEFINE u == [s EXCEPT !.left = @ - 1, !.chosen = @ \cup {nxt}]
    <3>1. u.src = s.src /\ u.dst = s.dst /\ u.chosen = s.chosen \cup {nxt}
      BY <2>1 DEF SendType
    <3>2. sending' \subseteq {u} /\ phase' = phase
      BY <1>4, <2>2 DEF SendCopy, NextCopy, FinishSend
    <3> HIDE DEF u
    <3>3. phase = "traffic" /\ s.src # nxt
      BY <2>4 DEF SendInv
    <3>4. QED
      BY <2>3, <3>1, <3>2, <3>3 DEF SendInv
  <2>8. QED
    BY <2>6, <2>7
<1>5. ASSUME NEW s \in sending, SendBlocked(s)
      PROVE  RouteInv'
  BY <1>1, <1>2, <1>5 DEF SendBlocked, DropInTransit, DropNoRoute, FinishSend, SendInv
<1>6. ASSUME NEW t \in timers, SendNow(t)
      PROVE  RouteInv'
  BY <1>1, <1>2, <1>6 DEF SendNow, sendVars, SendInv
<1>7. ASSUME NEW w \in wire, ReceivePacket(w)
      PROVE  RouteInv'
  <2>1. w.pkt \in PacketType /\ w.to \in Node /\ Good(w)
    BY <1>1 DEF TypeInv, TypeOK, NetTypeOK, FlightType
  <2>2. \A t \in timers' : t \notin timers => Good(t)
    <3>1. CASE w.to = w.pkt.dst
      BY <1>7, <3>1 DEF ReceivePacket, Accept, RejectSignature
    <3>2. CASE w.to # w.pkt.dst
      BY <1>7, <2>1, <3>2, RelayRoute DEF ReceivePacket, DropInTransit, DropNoRoute, Good
    <3>3. QED
      BY <3>1, <3>2
  <2>3. wire' = wire \ {w} /\ sending' = sending /\ phase' = phase
    BY <1>7 DEF ReceivePacket, sendVars
  <2>4. QED
    BY <1>1, <1>2, <2>2, <2>3 DEF SendInv
<1>8. ASSUME NEW w \in wire, CorruptPacket(w)
      PROVE  RouteInv'
  <2> DEFINE c == [w EXCEPT !.pkt.intact = FALSE]
  <2>1. Good(w) /\ w.pkt \in PacketType /\ w \in FlightType
    BY <1>1 DEF TypeInv, TypeOK, NetTypeOK, FlightType
  <2>2. Good(c)
    BY <2>1 DEF Good, Route, FlightType, PacketType
  <2>3. wire' \subseteq wire \cup {c} /\ timers' = timers /\ UNCHANGED <<sending, phase>>
    BY <1>8 DEF CorruptPacket, sendVars
  <2> HIDE DEF c
  <2>4. QED
    BY <1>1, <1>2, <2>2, <2>3 DEF SendInv
<1>9. ASSUME UNCHANGED <<timers, sending>>, wire' \subseteq wire,
             phase' = phase \/ Idle
      PROVE  RouteInv'
  BY <1>1, <1>2, <1>9 DEF SendInv, Idle
<1>10. CASE \/ \E r \in receiptWire : ReceiveReceipt(r) \/ LoseReceipt(r) \/ CorruptReceipt(r)
            \/ \E w \in wire : LosePacket(w)
            \/ SweepTimeouts \/ Perturb \/ EndTraffic \/ CancelTasks \/ CloseTransports
            \/ FlushAndSave \/ Returned \/ UNCHANGED vars
  BY <1>9, <1>10 DEF ReceiveReceipt, LoseReceipt, CorruptReceipt, LosePacket, SweepTimeouts,
     Perturb, EndTraffic, CancelTasks, CloseTransports, FlushAndSave, Returned, vars,
     netVars, sendVars
<1>11. QED
  BY <1>3, <1>4, <1>5, <1>6, <1>7, <1>8, <1>10 DEF Next

\* Every copy in flight is on a simple path of links from its source, marked in its
\* visited set and paid for in ttl, whatever its sibling copies excluded.
THEOREM PathShapeHolds == Spec => []PathShape
<1>1. TypeInv /\ RouteInv /\ [Next]_vars => RouteInv'
  BY RouteStep
<1>2. RouteInv => PathShape
  BY DEF RouteInv
<1>3. QED
  BY <1>1, <1>2, RouteInit, TypeCorrect, PTL DEF Spec

-----------------------------------------------------------------------------
(* Exposure *)

\* The flags of the copy in flight t are right.
Flagged(t) ==
  /\ t.pkt.touched <=> HandedTo(t.pkt, t.to) \cap Sybil # {}
  /\ t.pkt.transit <=> (HandedTo(t.pkt, t.to) \ {t.pkt.dst}) \cap Sybil # {}

\* The counted ids are those of the recorded copies that were exposed.
Counted ==
  /\ touchedIds = {p.pid : p \in {q \in ended \cup delivered : q.touched}}
  /\ transitIds = {p.pid : p \in {q \in ended \cup delivered : q.transit}}

LEMMA ExposureParts == ExposureExact <=> (\A t \in timers \cup wire : Flagged(t)) /\ Counted
BY DEF ExposureExact, Flagged, Counted

\* A relayed copy was handed to whoever its predecessor was, and to the next hop.
LEMMA RelayFlagged ==
  ASSUME NEW p \in PacketType, NEW n \in Node, NEW nxt \in Node, NEW exclude,
         Relay(p, n, exclude, nxt), n # p.dst,
         \/ p.path = <<>> /\ ~p.touched /\ ~p.transit
         \/ p.path # <<>> /\ Flagged([pkt |-> p, to |-> n]),
         NEW t \in timers', t \notin timers
  PROVE  Flagged(t)
<1> DEFINE q == Forwarded(Touch(Visit(p, n, exclude), nxt), n)
<1>1. t = [pkt |-> q, to |-> nxt]
  BY RelayTimers
<1>2. /\ q.path = Append(p.path, n) /\ q.dst = p.dst
      /\ q.touched = (p.touched \/ nxt \in Sybil)
      /\ q.transit = (p.transit \/ (nxt \in Sybil /\ nxt # p.dst))
  BY DEF Forwarded, Touch, Visit, PacketType
<1>3. p.path \in Seq(Node)
  BY DEF PacketType
<1> HIDE DEF q
<1>4. Flagged(t) <=> /\ q.touched <=> HandedTo(q, nxt) \cap Sybil # {}
                     /\ q.transit <=> (HandedTo(q, nxt) \ {q.dst}) \cap Sybil # {}
  BY <1>1 DEF Flagged
<1>5. CASE p.path = <<>>
  <2>1. Len(q.path) = 1
    BY <1>2, <1>5
  <2>2. HandedTo(q, nxt) = {nxt}
    BY <2>1 DEF HandedTo
  <2>3. QED
    BY <1>2, <1>4, <1>5, <2>2
<1>6. CASE p.path # <<>>
  <2>1. /\ Len(p.path) \in Nat /\ Len(p.path) >= 1 /\ Len(q.path) = Len(p.path) + 1
        /\ \A i \in 2..Len(p.path) : q.path[i] = p.path[i]
        /\ q.path[Len(p.path) + 1] = n
    BY <1>2, <1>3, <1>6
  <2>2. HandedTo(q, nxt) = HandedTo(p, n) \cup {nxt}
    <3>1. 2..Len(q.path) = (2..Len(p.path)) \cup {Len(p.path) + 1}
      BY <2>1
    <3>2. {q.path[i] : i \in 2..Len(q.path)} = {p.path[i] : i \in 2..Len(p.path)} \cup {n}
      BY <2>1, <3>1
    <3>3. QED
      BY <3>2 DEF HandedTo
  <2>3. /\ p.touched <=> HandedTo(p, n) \cap Sybil # {}
        /\ p.transit <=> (HandedTo(p, n) \ {p.dst}) \cap Sybil # {}
    BY <1>6 DEF Flagged
  <2>4. QED
    BY <1>2, <1>4, <2>2, <2>3
<1>7. QED
  BY <1>5, <1>6

\* record_drop and record_delivered keep the counts right.
LEMMA DropCounted ==
  ASSUME Counted, NEW p, NEW why, DropCopy(p, why), delivered' = delivered
  PROVE  Counted'
BY DEF Counted, DropCopy, CountTouch, TouchedBy, TransitBy

LEMMA AcceptCounted ==
  ASSUME Counted, NEW p, NEW rw, Accept(p, rw)
  PROVE  Counted'
<1>1. CASE AlreadyDelivered(p)
  BY <1>1 DEF Counted, Accept
<1>2. CASE ~AlreadyDelivered(p)
  <2>1. delivered' = delivered \cup {p} /\ CountTouch(p) /\ ended' = ended
    BY <1>2 DEF Accept
  <2>2. QED
    BY <2>1 DEF Counted, CountTouch, TouchedBy, TransitBy
<1>3. QED
  BY <1>1, <1>2

LEMMA RelayCounted ==
  ASSUME Counted, delivered' = delivered, NEW p, NEW n, NEW exclude,
         \/ DropInTransit(p, n) \/ DropNoRoute(p, n, exclude)
         \/ \E nxt \in Node : Relay(p, n, exclude, nxt)
  PROVE  Counted'
<1>1. CASE UNCHANGED dropVars
  BY <1>1 DEF dropVars, Counted
<1>2. (\E q, why : DropCopy(q, why)) \/ UNCHANGED dropVars
  BY DEF DropInTransit, DropNoRoute, Relay, Forward, ForwardToOffline, ForwardLost, ForwardSent
<1>3. QED
  BY <1>1, <1>2, DropCounted

LEMMA ExposureStep ==
  ASSUME TypeInv, RouteInv, ExposureExact, [Next]_vars
  PROVE  ExposureExact'
<1> USE DEF TypeInv, TypeOK, NetTypeOK
<1>1. Counted /\ \A t \in timers \cup wire : Flagged(t)
  BY ExposureParts
<1>2. ASSUME Counted', \A t \in timers' \cup wire' : Flagged(t)
      PROVE  ExposureExact'
  BY <1>2 DEF ExposureExact, Flagged, Counted
<1>3. ASSUME NEW s \in sending, SendCopy(s)
      PROVE  ExposureExact'
  <2> DEFINE p == NewPacket(s, Redundancy - s.left + 1)
  <2>1. s \in SendType /\ p \in PacketType
    BY CopyType
  <2>2. PICK nxt \in Node : Relay(p, s.src, s.chosen, nxt)
    BY <1>3 DEF SendCopy
  <2>3. p.path = <<>> /\ ~p.touched /\ ~p.transit /\ s.src # p.dst
    BY DEF NewPacket, RouteInv, SendInv
  <2>4. wire' = wire /\ delivered' = delivered
    BY <1>3 DEF SendCopy, deliveryVars
  <2> HIDE DEF p
  <2>5. \A t \in timers' : t \in timers \/ Flagged(t)
    BY <2>1, <2>2, <2>3, RelayFlagged DEF SendType
  <2>6. Counted'
    BY <1>1, <2>2, <2>4, RelayCounted
  <2>7. QED
    BY <1>1, <1>2, <2>4, <2>5, <2>6
<1>4. ASSUME NEW s \in sending, SendBlocked(s)
      PROVE  ExposureExact'
  <2>1. wire' = wire /\ timers' = timers /\ delivered' = delivered
    BY <1>4 DEF SendBlocked, DropInTransit, DropNoRoute, deliveryVars
  <2>2. Counted'
    BY <1>1, <1>4, <2>1, RelayCounted DEF SendBlocked
  <2>3. QED
    BY <1>1, <1>2, <2>1, <2>2
<1>5. ASSUME NEW w \in wire, ReceivePacket(w)
      PROVE  ExposureExact'
  <2>1. w.pkt \in PacketType /\ w.to \in Node /\ w = [pkt |-> w.pkt, to |-> w.to]
    BY DEF FlightType
  <2>2. w.pkt.path # <<>> /\ Flagged([pkt |-> w.pkt, to |-> w.to])
    BY <1>1, <2>1 DEF RouteInv, PathShape
  <2>3. wire' = wire \ {w}
    BY <1>5 DEF ReceivePacket
  <2>4. CASE w.to = w.pkt.dst
    <3>1. timers' = timers
      BY <1>5, <2>4 DEF ReceivePacket, Accept, RejectSignature
    <3>2. Counted'
      BY <1>1, <1>5, <2>4, AcceptCounted, DropCounted DEF ReceivePacket, RejectSignature, deliveryVars
    <3>3. QED
      BY <1>1, <1>2, <2>3, <3>1, <3>2
  <2>5. CASE w.to # w.pkt.dst
    <3>1. \/ DropInTransit(w.pkt, w.to) \/ DropNoRoute(w.pkt, w.to, {})
          \/ \E nxt \in Node : Relay(w.pkt, w.to, {}, nxt)
      BY <1>5, <2>5 DEF ReceivePacket
    <3>2. delivered' = delivered
      BY <1>5, <2>5 DEF ReceivePacket, deliveryVars
    <3>3. \A t \in timers' : t \in timers \/ Flagged(t)
      BY <2>1, <2>2, <2>5, <3>1, RelayFlagged DEF DropInTransit, DropNoRoute
    <3>4. Counted'
      BY <1>1, <3>1, <3>2, RelayCounted
    <3>5. QED
      BY <1>1, <1>2, <2>3, <3>3, <3>4
  <2>6. QED
    BY <2>4, <2>5
<1>6. ASSUME NEW w \in wire, CorruptPacket(w)
      PROVE  ExposureExact'
  <2> DEFINE c == [w EXCEPT !.pkt.intact = FALSE]
  <2>1. c.to = w.to /\ c.pkt.path = w.pkt.path /\ c.pkt.dst = w.pkt.dst
        /\ c.pkt.touched = w.pkt.touched /\ c.pkt.transit = w.pkt.transit
    BY DEF FlightType, PacketType
  <2>2. wire' = (wire \ {w}) \cup {c} /\ timers' = timers /\ UNCHANGED <<deliveryVars, dropVars>>
    BY <1>6 DEF CorruptPacket
  <2> HIDE DEF c
  <2>3. Flagged(c)
    BY <1>1, <2>1 DEF Flagged, HandedTo
  <2>4. Counted'
    BY <1>1, <2>2 DEF Counted, deliveryVars, dropVars
  <2>5. QED
    BY <1>1, <1>2, <2>2, <2>3, <2>4
<1>7. ASSUME UNCHANGED <<deliveryVars, dropVars>>, timers' \cup wire' \subseteq timers \cup wire
      PROVE  ExposureExact'
  <2>1. Counted'
    BY <1>1, <1>7 DEF Counted, deliveryVars, dropVars
  <2>2. QED
    BY <1>1, <1>2, <1>7, <2>1
<1>8. ASSUME NEW t \in timers, SendNow(t)
      PROVE  ExposureExact'
  BY <1>7, <1>8 DEF SendNow
<1>9. CASE \/ \E f \in Flows : StartSend(f[1], f[2])
           \/ \E r \in receiptWire : ReceiveReceipt(r) \/ LoseReceipt(r) \/ CorruptReceipt(r)
           \/ \E w \in wire : LosePacket(w)
           \/ SweepTimeouts \/ Perturb \/ EndTraffic \/ CancelTasks \/ CloseTransports
           \/ FlushAndSave \/ Returned \/ UNCHANGED vars
  BY <1>7, <1>9 DEF StartSend, ReceiveReceipt, LoseReceipt, CorruptReceipt, LosePacket,
     SweepTimeouts, Perturb, EndTraffic, CancelTasks, CloseTransports, FlushAndSave, Returned,
     vars, netVars
<1>10. QED
  BY <1>3, <1>4, <1>5, <1>6, <1>8, <1>9 DEF Next

\* Exposure to Sybils is exact for every topology, redundancy and interleaving: the flags
\* of a copy say who was handed it, the counted ids are those of exposed recorded copies.
THEOREM ExposureExactHolds == Spec => []ExposureExact
<1>1. Init => TypeInv /\ RouteInv /\ ExposureExact
  BY TypeInit, RouteInit DEF Init, ExposureExact
<1>2. TypeInv /\ RouteInv /\ ExposureExact /\ [Next]_vars
        => TypeInv' /\ RouteInv' /\ ExposureExact'
  BY TypeStep, RouteStep, ExposureStep
<1>3. QED
  BY <1>1, <1>2, PTL DEF Spec

SenderOnline(t) == t.pkt.path[Len(t.pkt.path)] \notin offline

\* Whoever relays is online.
LEMMA RelayOnline ==
  ASSUME NEW p \in PacketType, NEW n \in Node, NEW nxt \in Node, NEW exclude,
         Relay(p, n, exclude, nxt), NEW t \in timers', t \notin timers
  PROVE  SenderOnline(t)
<1> DEFINE q == Forwarded(Touch(Visit(p, n, exclude), nxt), n)
<1>1. t = [pkt |-> q, to |-> nxt]
  BY RelayTimers
<1>2. t.pkt.path = Append(p.path, n)
  <2>1. q.path = Append(p.path, n)
    BY DEF Forwarded, Touch, Visit, PacketType
  <2> HIDE DEF q
  <2>2. QED
    BY <1>1, <2>1
<1>3. n \notin offline
  BY TransitClear DEF Relay
<1>4. Append(p.path, n)[Len(Append(p.path, n))] = n
  BY DEF PacketType
<1>5. QED
  BY <1>2, <1>3, <1>4 DEF SenderOnline

\* What a step after the close leaves alone.
Settled ==
  /\ timers' \subseteq timers /\ wire' \subseteq wire /\ receiptWire' \subseteq receiptWire
  /\ UNCHANGED <<deliveryVars, dropVars, sendVars, retransmissions, receiptsConfirmed>>

\* A send is never under way then, and no datagram is read.
LEMMA ClosedSettled ==
  ASSUME SendInv, [Next]_vars, ~Open
  PROVE  Settled
<1>1. sending = {} /\ phase # "traffic"
  BY DEF SendInv, Open
<1>2. ASSUME NEW t \in timers, SendNow(t)
      PROVE  Settled
  BY <1>2 DEF SendNow, Settled, verdictVars
<1>3. CASE FlushAndSave
  BY <1>3 DEF FlushAndSave, Expire, Settled, netVars
<1>4. ASSUME NEW w \in wire, LosePacket(w)
      PROVE  Settled
  BY <1>4 DEF LosePacket, Settled, verdictVars
<1>5. ASSUME NEW r \in receiptWire, LoseReceipt(r)
      PROVE  Settled
  BY <1>5 DEF LoseReceipt, Settled, verdictVars
<1>6. CASE UNCHANGED vars
  BY <1>6 DEF vars, netVars, verdictVars, Settled
<1>7. ~Perturb /\ ~SweepTimeouts /\ ~EndTraffic /\ ~CancelTasks /\ ~CloseTransports
  BY DEF Open, Perturb, SweepTimeouts, EndTraffic, CancelTasks, CloseTransports
<1>8. \A f \in Flows : ~StartSend(f[1], f[2])
  BY <1>1 DEF StartSend
<1>9. /\ \A w \in wire : ~ReceivePacket(w) /\ ~CorruptPacket(w)
      /\ \A r \in receiptWire : ~ReceiveReceipt(r) /\ ~CorruptReceipt(r)
  BY DEF ReceivePacket, CorruptPacket, ReceiveReceipt, CorruptReceipt
<1>10. QED
  BY <1>1, <1>2, <1>3, <1>4, <1>5, <1>6, <1>7, <1>8, <1>9 DEF Next, Returned

\* Whoever put a new frame on a link was online (lines 350-352), and after the close
\* nothing is sent and nothing measured any more (lines 502-511), in every cluster.
THEOREM OnlyTheLiveSendHolds == Spec => OnlyTheLiveSend
<1>1. ASSUME TypeInv, [Next]_vars
      PROVE  \A t \in timers' \ timers : SenderOnline(t)
  <2>1. ASSUME NEW s \in sending, SendCopy(s), NEW t \in timers', t \notin timers
        PROVE  SenderOnline(t)
    <3> DEFINE p == NewPacket(s, Redundancy - s.left + 1)
    <3>1. s.src \in Node /\ p \in PacketType
      BY <1>1, CopyType DEF SendType
    <3>2. PICK nxt \in Node : Relay(p, s.src, s.chosen, nxt)
      BY <2>1 DEF SendCopy
    <3> HIDE DEF p
    <3>3. QED
      BY <2>1, <3>1, <3>2, RelayOnline
  <2>2. ASSUME NEW w \in wire, ReceivePacket(w), NEW t \in timers', t \notin timers
        PROVE  SenderOnline(t)
    <3>1. w.pkt \in PacketType /\ w.to \in Node
      BY <1>1 DEF TypeInv, TypeOK, NetTypeOK, FlightType
    <3>2. PICK nxt \in Node : Relay(w.pkt, w.to, {}, nxt)
      BY <2>2 DEF ReceivePacket, Accept, RejectSignature, DropInTransit, DropNoRoute
    <3>3. QED
      BY <2>2, <3>1, <3>2, RelayOnline
  <2>3. CASE timers' \subseteq timers
    BY <2>3
  <2>4. QED
    BY <1>1, <2>1, <2>2, <2>3 DEF Next, vars, netVars, StartSend, SendBlocked, DropInTransit,
       DropNoRoute, SendNow, ReceiveReceipt, SweepTimeouts, Perturb, EndTraffic, CancelTasks,
       CloseTransports, FlushAndSave, LosePacket, LoseReceipt, CorruptPacket, CorruptReceipt,
       Returned
<1>2. TypeInv /\ RouteInv /\ [Next]_vars => TypeInv' /\ RouteInv'
  BY TypeStep, RouteStep
<1>3. RouteInv /\ [Next]_vars /\ ~Open => Settled
  BY ClosedSettled DEF RouteInv
<1>4. QED
  BY <1>1, <1>2, <1>3, TypeInit, RouteInit, PTL
  DEF Spec, OnlyTheLiveSend, SenderOnline, Settled
=============================================================================
