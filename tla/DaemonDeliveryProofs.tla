------------------------ MODULE DaemonDeliveryProofs ------------------------
(***************************************************************************)
(* At-most-once delivery, the chain of credit, the balance of verdicts and *)
(* the account of copies, for every cluster; and that a cluster implements *)
(* DeliveryContract.                                                       *)
(***************************************************************************)
EXTENDS DaemonProofs

-----------------------------------------------------------------------------
(* Every armed hop gets one verdict *)

Balance == armed = receiptsConfirmed + receiptTimeouts + Cardinality(ArmedKeys)

\* Arming a hop moves both sides of the balance, or neither when the key is there.
LEMMA ArmBalance ==
  ASSUME TypeInv, Balance, NEW p \in PacketType, NEW n \in Node, NEW nxt \in Node,
         ArmVerdict(p, n, nxt)
  PROVE  Balance'
<1> USE DEF TypeInv, TypeOK, VerdictTypeOK, Balance
<1> DEFINE key == PendingKey(p, nxt)
<1>1. CASE Receipts
  <2>1. /\ pending' = [pending EXCEPT ![n] = @ \cup {key}]
        /\ armed' = IF key \in pending[n] THEN armed ELSE armed + 1
        /\ UNCHANGED <<receiptsConfirmed, receiptTimeouts>>
    BY <1>1 DEF ArmVerdict
  <2>2. ArmedKeys' = ArmedKeys \cup {<<n, key>>}
    BY <2>1, ArmKeys
  <2>3. key \in pending[n] <=> <<n, key>> \in ArmedKeys
    BY DEF ArmedKeys
  <2>4. Cardinality(ArmedKeys) \in Nat
    BY FS_CardinalityType DEF FiniteArmed
  <2>5. Cardinality(ArmedKeys') = IF key \in pending[n] THEN Cardinality(ArmedKeys)
                                  ELSE Cardinality(ArmedKeys) + 1
    <3> DEFINE e == <<n, key>>
    <3> HIDE DEF key, e
    <3>1. Cardinality(ArmedKeys \cup {e}) = IF e \in ArmedKeys THEN Cardinality(ArmedKeys)
                                            ELSE Cardinality(ArmedKeys) + 1
      BY FS_AddElement DEF FiniteArmed
    <3>2. QED
      BY <2>2, <2>3, <3>1 DEF e
  <2> HIDE DEF key
  <2>6. QED
    BY <2>1, <2>4, <2>5
<1>2. CASE ~Receipts
  BY <1>2 DEF ArmVerdict, ArmedKeys
<1>3. QED
  BY <1>1, <1>2

LEMMA RelayBalance ==
  ASSUME TypeInv, Balance, NEW p \in PacketType, NEW n \in Node, NEW nxt \in Node,
         NEW exclude, Relay(p, n, exclude, nxt)
  PROVE  Balance'
<1> DEFINE v == Visit(p, n, exclude)
<1>1. v \in PacketType /\ Forward(v, n, nxt)
  BY VisitType DEF Relay
<1> HIDE DEF v
<1>2. CASE ForwardSent(v, n, nxt)
  BY <1>1, <1>2, ArmBalance DEF ForwardSent
<1>3. CASE ForwardToOffline(v, n, nxt) \/ ForwardLost(v, n, nxt)
  BY <1>3 DEF ForwardToOffline, ForwardLost, Balance, ArmedKeys
<1>4. QED
  BY <1>1, <1>2, <1>3 DEF Forward

LEMMA TakenOut ==
  ASSUME NEW S, IsFiniteSet(S), NEW T \in SUBSET S
  PROVE  Cardinality(S \ T) = Cardinality(S) - Cardinality(T)
<1>1. S \cap T = T
  OBVIOUS
<1>2. QED
  BY <1>1, FS_Difference

\* A timed-out key leaves the open ones and is counted as a timeout.
LEMMA ExpireBalance ==
  ASSUME TypeInv, Balance, NEW expired \in SUBSET ArmedKeys, Expire(expired)
  PROVE  Balance'
<1> USE DEF TypeInv, TypeOK, VerdictTypeOK, FiniteArmed
<1>1. ArmedKeys' = ArmedKeys \ expired
  BY ExpireKeys DEF Expire
<1>2. IsFiniteSet(expired) /\ Cardinality(expired) \in Nat
  BY FS_Subset, FS_CardinalityType
<1>3. Cardinality(ArmedKeys \ expired) = Cardinality(ArmedKeys) - Cardinality(expired)
  <2>1. IsFiniteSet(ArmedKeys)
    OBVIOUS
  <2>2. QED
    BY <2>1, TakenOut
<1>4. Cardinality(ArmedKeys) \in Nat
  BY FS_CardinalityType
<1>5. QED
  BY <1>1, <1>2, <1>3, <1>4 DEF Expire, Balance

LEMMA CreditBalance ==
  ASSUME TypeInv, Balance, NEW r \in ReceiptType, NEW i, CreditReceipt(r, i)
  PROVE  Balance'
<1> USE DEF TypeInv, TypeOK, VerdictTypeOK, FiniteArmed
<1> DEFINE key == ReceiptKey(r, i)
<1>1. r.to \in Node /\ key \in pending[r.to]
  BY DEF ReceiptType, CreditReceipt
<1>2. pending' = [pending EXCEPT ![r.to] = @ \ {key}]
  BY DEF CreditReceipt, Popped
<1> HIDE DEF key
<1>3. ArmedKeys' = ArmedKeys \ {<<r.to, key>>} /\ <<r.to, key>> \in ArmedKeys
  <2>1. ArmedKeys' = ArmedKeys \ {<<r.to, key>>}
    BY <1>1, <1>2, PopKeys
  <2>2. QED
    BY <1>1, <2>1 DEF ArmedKeys
<1>4. Cardinality(ArmedKeys') = Cardinality(ArmedKeys) - 1
  <2> DEFINE e == <<r.to, key>>
  <2> HIDE DEF e
  <2>1. Cardinality(ArmedKeys \ {e}) = IF e \in ArmedKeys THEN Cardinality(ArmedKeys) - 1
                                       ELSE Cardinality(ArmedKeys)
    BY FS_RemoveElement
  <2>2. QED
    BY <1>3, <2>1 DEF e
<1>5. Cardinality(ArmedKeys) \in Nat
  BY FS_CardinalityType
<1>6. QED
  BY <1>4, <1>5 DEF CreditReceipt, Balance

LEMMA VerdictInit == Init => VerdictAccounting
<1> SUFFICES ASSUME Init PROVE VerdictAccounting
  OBVIOUS
<1>1. ArmedKeys = {}
  BY DEF Init, ArmedKeys
<1>2. QED
  BY <1>1, FS_EmptySet DEF Init, VerdictAccounting

LEMMA VerdictStep ==
  TypeInv /\ SendInv /\ VerdictAccounting /\ [Next]_vars => VerdictAccounting'
<1> SUFFICES ASSUME TypeInv, SendInv, VerdictAccounting, [Next]_vars
             PROVE  VerdictAccounting'
  OBVIOUS
<1>1. Balance /\ (phase = "saved" => ArmedKeys = {})
  BY DEF VerdictAccounting, Balance
<1>2. VerdictAccounting' <=> Balance' /\ (phase' = "saved" => ArmedKeys' = {})
  BY DEF VerdictAccounting, Balance
<1>3. ASSUME UNCHANGED verdictVars, phase' = "saved" => phase = "saved"
      PROVE  VerdictAccounting'
  BY <1>1, <1>2, <1>3 DEF verdictVars, Balance, ArmedKeys
<1>4. ASSUME NEW s \in sending, SendCopy(s)
      PROVE  VerdictAccounting'
  <2> DEFINE p == NewPacket(s, Redundancy - s.left + 1)
  <2>1. s \in SendType /\ p \in PacketType
    BY CopyType
  <2>2. \E nxt \in Node : Relay(p, s.src, s.chosen, nxt)
    BY <1>4 DEF SendCopy
  <2> HIDE DEF p
  <2>3. Balance'
    BY <1>1, <2>1, <2>2, RelayBalance DEF SendType
  <2>4. phase' # "saved"
    BY <1>4 DEF SendInv, SendCopy
  <2>5. QED
    BY <1>2, <2>3, <2>4
<1>5. ASSUME NEW w \in wire, ReceivePacket(w)
      PROVE  VerdictAccounting'
  <2>1. w.pkt \in PacketType /\ w.to \in Node
    BY DEF TypeInv, TypeOK, NetTypeOK, FlightType
  <2>2. UNCHANGED verdictVars \/ \E nxt \in Node : Relay(w.pkt, w.to, {}, nxt)
    BY <1>5 DEF ReceivePacket, Accept, RejectSignature, DropInTransit, DropNoRoute
  <2>3. phase' = phase /\ phase # "saved"
    BY <1>5 DEF ReceivePacket, Open
  <2>4. QED
    BY <1>1, <1>2, <1>3, <2>1, <2>2, <2>3, RelayBalance
<1>6. ASSUME NEW r \in receiptWire, ReceiveReceipt(r)
      PROVE  VerdictAccounting'
  <2>1. r \in ReceiptType
    BY DEF TypeInv, TypeOK, NetTypeOK
  <2>2. phase' = phase /\ phase # "saved"
    BY <1>6 DEF ReceiveReceipt, Open
  <2>3. UNCHANGED verdictVars \/ \E i \in Position(r) : CreditReceipt(r, i)
    BY <1>6 DEF ReceiveReceipt, IgnoreReceipt
  <2>4. QED
    BY <1>1, <1>2, <1>3, <2>1, <2>2, <2>3, CreditBalance
<1>7. CASE SweepTimeouts \/ CloseTransports
  <2>1. PICK expired \in SUBSET ArmedKeys : Expire(expired)
    BY <1>7 DEF SweepTimeouts, CloseTransports
  <2>2. phase' # "saved"
    BY <1>7 DEF SweepTimeouts, CloseTransports
  <2>3. QED
    BY <1>1, <1>2, <2>1, <2>2, ExpireBalance
<1>8. CASE FlushAndSave
  <2>1. Expire(ArmedKeys)
    BY <1>8 DEF FlushAndSave, Flushed
  <2>2. ArmedKeys' = ArmedKeys \ ArmedKeys
    BY <2>1, ExpireKeys DEF Expire, TypeInv, TypeOK, VerdictTypeOK
  <2>3. QED
    BY <1>1, <1>2, <2>1, <2>2, ExpireBalance
<1>9. CASE \/ \E f \in Flows : StartSend(f[1], f[2])
           \/ \E s \in sending : SendBlocked(s)
           \/ \E t \in timers : SendNow(t)
           \/ Perturb \/ EndTraffic \/ CancelTasks \/ Returned \/ UNCHANGED vars
           \/ \E w \in wire : LosePacket(w) \/ CorruptPacket(w)
           \/ \E r \in receiptWire : LoseReceipt(r) \/ CorruptReceipt(r)
  BY <1>3, <1>9 DEF StartSend, SendBlocked, DropInTransit, DropNoRoute, SendNow, Perturb,
     EndTraffic, CancelTasks, Returned, vars, LosePacket, CorruptPacket, LoseReceipt,
     CorruptReceipt
<1>10. QED
  BY <1>4, <1>5, <1>6, <1>7, <1>8, <1>9 DEF Next

\* Receipts and sweeps resolve each armed hop exactly once between them, and the flush
\* leaves none open when the learned state is saved (daemon.py 547-552, 566-580).
THEOREM VerdictAccountingHolds == Spec => []VerdictAccounting
<1>1. TypeInv /\ RouteInv /\ VerdictAccounting /\ [Next]_vars => VerdictAccounting'
  BY VerdictStep DEF RouteInv
<1>2. TypeInv /\ RouteInv /\ [Next]_vars => RouteInv'
  BY RouteStep
<1>3. QED
  BY <1>1, <1>2, RouteInit, VerdictInit, TypeCorrect, PTL DEF Spec

-----------------------------------------------------------------------------
(* Which packet a copy belongs to *)

Copies == InFlight \cup reached

SamePacket(p, q) == p.pid = q.pid /\ p.dst = q.dst

\* Whatever becomes of a copy when it is relayed, the frame carries the same packet.
LEMMA RelaySame ==
  ASSUME NEW p \in PacketType, NEW n \in Node, NEW nxt \in Node, NEW exclude,
         Relay(p, n, exclude, nxt), NEW t \in timers', t \notin timers
  PROVE  SamePacket(t.pkt, p)
<1>1. t.pkt = Forwarded(Touch(Visit(p, n, exclude), nxt), n)
  BY RelayTimers
<1>2. QED
  BY <1>1 DEF Forwarded, Touch, Visit, SamePacket, PacketType

\* Copies come from copies of the same packet, or are new ones of the send under way.
LEMMA CopiesStep ==
  ASSUME TypeInv, [Next]_vars, NEW x \in Copies'
  PROVE  \/ \E y \in Copies : SamePacket(x, y)
         \/ \E s \in sending : SendCopy(s) /\ x.pid = generated /\ x.dst = s.dst
<1> USE DEF TypeInv, TypeOK, NetTypeOK
<1>1. x \in Copies => \E y \in Copies : SamePacket(x, y)
  BY DEF SamePacket
<1>2. \/ \E t \in timers' : t \notin timers /\ x = t.pkt
      \/ \E w \in wire' : w \notin wire /\ x = w.pkt
      \/ x \in reached' /\ x \notin reached
      \/ x \in Copies
  BY DEF Copies, InFlight
<1>3. CASE \E t \in timers' : t \notin timers /\ x = t.pkt
  <2>1. PICK t \in timers' : t \notin timers /\ x = t.pkt
    BY <1>3
  <2>2. ASSUME NEW s \in sending, SendCopy(s)
        PROVE  x.pid = generated /\ x.dst = s.dst
    <3> DEFINE p == NewPacket(s, Redundancy - s.left + 1)
    <3>1. s \in SendType /\ p \in PacketType
      BY CopyType
    <3>2. \E nxt \in Node : Relay(p, s.src, s.chosen, nxt)
      BY <2>2 DEF SendCopy
    <3>3. p.pid = generated /\ p.dst = s.dst
      BY DEF NewPacket
    <3> HIDE DEF p
    <3>4. SamePacket(x, p)
      BY <2>1, <3>1, <3>2, RelaySame DEF SendType
    <3>5. QED
      BY <3>3, <3>4 DEF SamePacket
  <2>3. ASSUME NEW w \in wire, ReceivePacket(w)
        PROVE  \E y \in Copies : SamePacket(x, y)
    <3>1. w.pkt \in PacketType /\ w.to \in Node /\ w.pkt \in Copies
      BY DEF FlightType, Copies, InFlight
    <3>2. \E nxt \in Node : Relay(w.pkt, w.to, {}, nxt)
      BY <2>1, <2>3 DEF ReceivePacket, Accept, RejectSignature, DropInTransit, DropNoRoute
    <3>3. QED
      BY <2>1, <3>1, <3>2, RelaySame
  <2>4. \/ \E s \in sending : SendCopy(s)
        \/ \E w \in wire : ReceivePacket(w)
    BY <2>1 DEF Next, vars, netVars, StartSend, SendBlocked, DropInTransit, DropNoRoute,
       SendNow, ReceiveReceipt, SweepTimeouts, Perturb, EndTraffic, CancelTasks,
       CloseTransports, FlushAndSave, LosePacket, LoseReceipt, CorruptPacket,
       CorruptReceipt, Returned
  <2>5. QED
    BY <2>2, <2>3, <2>4
<1>4. CASE \E w \in wire' : w \notin wire /\ x = w.pkt
  <2>1. PICK w \in wire' : w \notin wire /\ x = w.pkt
    BY <1>4
  <2>2. CASE \E t \in timers : SendNow(t)
    BY <2>1, <2>2, <1>1 DEF SendNow, Copies, InFlight
  <2>3. ASSUME NEW v \in wire, CorruptPacket(v)
        PROVE  \E y \in Copies : SamePacket(x, y)
    <3>1. v \in FlightType /\ v.pkt \in PacketType /\ v.pkt \in Copies
      BY DEF FlightType, Copies, InFlight
    <3>2. w = [v EXCEPT !.pkt.intact = FALSE]
      BY <2>1, <2>3 DEF CorruptPacket
    <3>3. SamePacket(x, v.pkt)
      BY <2>1, <3>1, <3>2 DEF SamePacket, FlightType, PacketType
    <3>4. QED
      BY <3>1, <3>3
  <2>4. \/ \E t \in timers : SendNow(t)
        \/ \E v \in wire : CorruptPacket(v)
    BY <2>1 DEF Next, vars, netVars, StartSend, SendCopy, SendBlocked, ReceivePacket,
       ReceiveReceipt, SweepTimeouts, Perturb, EndTraffic, CancelTasks,
       CloseTransports, FlushAndSave, LosePacket, LoseReceipt, CorruptReceipt, Returned
  <2>5. QED
    BY <2>2, <2>3, <2>4
<1>5. CASE x \in reached' /\ x \notin reached
  <2>1. \E w \in wire : x = w.pkt
    BY <1>5 DEF Next, vars, deliveryVars, StartSend, SendCopy, SendBlocked, SendNow,
       ReceivePacket, Accept, RejectSignature, ReceiveReceipt, SweepTimeouts, Perturb,
       EndTraffic, CancelTasks, CloseTransports, FlushAndSave, LosePacket, LoseReceipt,
       CorruptPacket, CorruptReceipt, Returned
  <2>2. QED
    BY <2>1, <1>1 DEF Copies, InFlight
<1>6. QED
  BY <1>1, <1>2, <1>3, <1>4, <1>5

\* A packet id is the id of one issued packet, or of the one being sent.
IdInv ==
  /\ \A x \in Copies :
       /\ x.pid \in 0..generated
       /\ x.pid = generated => \E s \in sending : s.dst = x.dst
  /\ \A x, y \in Copies : x.pid = y.pid => x.dst = y.dst

LEMMA IdInit == Init => IdInv
BY DEF Init, IdInv, Copies, InFlight

\* How the send under way moves on; every other step leaves it, or starts one.
LEMMA SendStep ==
  ASSUME TypeInv, SendInv, [Next]_vars
  PROVE  \/ generated' = generated /\ sending' = sending
         \/ generated' = generated /\ sending = {}
         \/ generated' = generated + 1 /\ sending' = {}
         \/ /\ generated' = generated
            /\ \A s \in sending : \E u \in sending' : u.dst = s.dst
<1> USE DEF TypeInv, TypeOK
<1>1. ASSUME NEW s \in sending, SendCopy(s), s.left # 1
      PROVE  generated' = generated /\ \A z \in sending : \E u \in sending' : u.dst = z.dst
  <2>1. PICK nxt : NextCopy(s, nxt)
    BY <1>1 DEF SendCopy
  <2> DEFINE u == [s EXCEPT !.left = @ - 1, !.chosen = @ \cup {nxt}]
  <2>2. u.dst = s.dst
    BY DEF SendTypeOK, SendType
  <2>3. sending' = {u} /\ generated' = generated
    BY <1>1, <2>1 DEF NextCopy
  <2> HIDE DEF u
  <2>4. QED
    BY <2>2, <2>3 DEF SendInv
<1>2. ASSUME NEW s \in sending, (SendCopy(s) /\ s.left = 1) \/ SendBlocked(s)
      PROVE  generated' = generated + 1 /\ sending' = {}
  BY <1>2 DEF SendCopy, SendBlocked, NextCopy, FinishSend
<1>3. CASE \E f \in Flows : StartSend(f[1], f[2])
  BY <1>3 DEF StartSend, Idle
<1>4. CASE \/ \E t \in timers : SendNow(t)
           \/ \E w \in wire : ReceivePacket(w) \/ LosePacket(w) \/ CorruptPacket(w)
           \/ \E r \in receiptWire : ReceiveReceipt(r) \/ LoseReceipt(r) \/ CorruptReceipt(r)
           \/ SweepTimeouts \/ Perturb \/ EndTraffic \/ CancelTasks \/ CloseTransports
           \/ FlushAndSave \/ Returned \/ UNCHANGED vars
  BY <1>4 DEF SendNow, ReceivePacket, LosePacket, CorruptPacket, ReceiveReceipt,
     LoseReceipt, CorruptReceipt, SweepTimeouts, Perturb, EndTraffic, CancelTasks,
     CloseTransports, FlushAndSave, Returned, vars, sendVars
<1>5. QED
  BY <1>1, <1>2, <1>3, <1>4 DEF Next

LEMMA IdStep == TypeInv /\ SendInv /\ IdInv /\ [Next]_vars => IdInv'
<1> SUFFICES ASSUME TypeInv, SendInv, IdInv, [Next]_vars PROVE IdInv'
  OBVIOUS
<1>1. generated \in Nat
  BY DEF TypeInv, TypeOK, SendTypeOK
<1> DEFINE Known(x) == \E y \in Copies : SamePacket(x, y)
           New(x) == \E s \in sending : SendCopy(s) /\ x.pid = generated /\ x.dst = s.dst
<1>2. \A x \in Copies' : Known(x) \/ New(x)
  BY CopiesStep
<1>3. ASSUME NEW x \in Copies'
      PROVE  /\ x.pid \in 0..generated
             /\ x.pid = generated => \E s \in sending : s.dst = x.dst
  BY <1>1, <1>2 DEF IdInv, SamePacket
<1>4. ASSUME NEW x \in Copies'
      PROVE  /\ x.pid \in 0..generated'
             /\ x.pid = generated' => \E s \in sending' : s.dst = x.dst
  <2>1. /\ x.pid \in 0..generated
        /\ x.pid = generated => \E s \in sending : s.dst = x.dst
    BY <1>3
  <2>2. CASE generated' = generated + 1
    BY <1>1, <2>1, <2>2
  <2>3. CASE generated' = generated
    BY <1>1, <2>1, <2>3, SendStep
  <2>4. QED
    BY <2>2, <2>3, SendStep
<1>5. \A x, y \in Copies' : x.pid = y.pid => x.dst = y.dst
  <2> SUFFICES ASSUME NEW x \in Copies', NEW y \in Copies', x.pid = y.pid
               PROVE  x.dst = y.dst
    OBVIOUS
  <2>1. CASE x.pid = generated
    BY <1>3, <2>1 DEF SendInv
  <2>2. CASE x.pid # generated
    BY <1>2, <2>2 DEF IdInv, SamePacket
  <2>3. QED
    BY <2>1, <2>2
<1>6. QED
  <2> HIDE DEF Known, New
  <2>1. QED
    BY <1>4, <1>5, Zenon DEF IdInv

-----------------------------------------------------------------------------
(* At-most-once delivery *)

\* The dedup sets agree with what was accepted, and the first authentic copy of each
\* packet that arrived is the one that counts.
AcceptInv ==
  /\ delivered \subseteq reached
  /\ \A p \in reached : p.intact
  /\ \A n \in Node : deliveredIds[n] = {p.pid : p \in {q \in reached : q.dst = n}}
  /\ \A p \in reached : \E q \in delivered : q.pid = p.pid
  /\ \A p, q \in delivered : p.pid = q.pid => p = q

DeliveryInv == IdInv /\ AcceptInv

LEMMA AcceptInit == Init => AcceptInv
BY DEF Init, AcceptInv

\* Only an authentic copy received at its destination changes what was delivered.
LEMMA DeliveryStep ==
  ASSUME [Next]_vars
  PROVE  \/ UNCHANGED deliveryVars
         \/ \E w \in wire : /\ Idle /\ Open /\ ReceivePacket(w)
                            /\ w.to = w.pkt.dst /\ Accept(w.pkt, receiptWire)
BY DEF Next, vars, StartSend, SendCopy, SendBlocked, SendNow, ReceivePacket,
   RejectSignature, ReceiveReceipt, SweepTimeouts, Perturb, EndTraffic, CancelTasks,
   CloseTransports, FlushAndSave, LosePacket, LoseReceipt, CorruptPacket, CorruptReceipt,
   Returned

LEMMA AcceptStep == TypeInv /\ DeliveryInv /\ [Next]_vars => AcceptInv'
<1> SUFFICES ASSUME TypeInv, DeliveryInv, [Next]_vars PROVE AcceptInv'
  OBVIOUS
<1> USE DEF DeliveryInv
<1>1. CASE UNCHANGED deliveryVars
  BY <1>1 DEF deliveryVars, AcceptInv
<1>2. ASSUME NEW w \in wire, Accept(w.pkt, receiptWire)
      PROVE  AcceptInv'
  <2> DEFINE p == w.pkt
  <2>1. p \in PacketType /\ p.dst \in Node /\ p \in Copies
    BY DEF TypeInv, TypeOK, NetTypeOK, FlightType, PacketType, Copies, InFlight
  <2>2. p.intact /\ reached' = reached \cup {p}
    BY <1>2 DEF Accept
  <2>3. deliveredIds \in [Node -> SUBSET Nat]
    BY DEF TypeInv, TypeOK, DeliveryTypeOK
  <2> HIDE DEF p
  <2>4. CASE AlreadyDelivered(p)
    <3>1. UNCHANGED <<deliveredIds, delivered>>
      BY <1>2, <2>4 DEF Accept, p
    <3>2. p.pid \in deliveredIds[p.dst]
      BY <2>4 DEF AlreadyDelivered
    <3>3. \E q \in reached : q.pid = p.pid /\ q.dst = p.dst
      BY <2>1, <3>2 DEF AcceptInv
    <3>4. \A n \in Node : deliveredIds'[n] = {x.pid : x \in {q \in reached' : q.dst = n}}
      BY <2>2, <3>1, <3>3 DEF AcceptInv
    <3>5. QED
      BY <2>2, <3>1, <3>3, <3>4 DEF AcceptInv
  <2>5. CASE ~AlreadyDelivered(p)
    <3>1. /\ deliveredIds' = [deliveredIds EXCEPT ![p.dst] = @ \cup {p.pid}]
          /\ delivered' = delivered \cup {p}
      BY <1>2, <2>5 DEF Accept, p
    <3>2. p.pid \notin deliveredIds[p.dst]
      BY <2>5 DEF AlreadyDelivered
    <3>3. \A q \in delivered : q.pid # p.pid
      <4> SUFFICES ASSUME NEW q \in delivered, q.pid = p.pid PROVE FALSE
        OBVIOUS
      <4>1. q \in reached /\ q \in Copies
        BY DEF AcceptInv, Copies
      <4>2. q.dst = p.dst
        BY <2>1, <4>1 DEF IdInv
      <4>3. QED
        BY <2>1, <3>2, <4>1, <4>2 DEF AcceptInv
    <3>4. \A n \in Node : deliveredIds'[n] = {x.pid : x \in {q \in reached' : q.dst = n}}
      <4> TAKE n \in Node
      <4>1. deliveredIds[n] = {x.pid : x \in {q \in reached : q.dst = n}}
        BY DEF AcceptInv
      <4>2. CASE n = p.dst
        BY <2>2, <2>3, <3>1, <4>1, <4>2
      <4>3. CASE n # p.dst
        BY <2>1, <2>2, <2>3, <3>1, <4>1, <4>3
      <4>4. QED
        BY <4>2, <4>3
    <3>5. QED
      BY <2>2, <3>1, <3>3, <3>4 DEF AcceptInv
  <2>6. QED
    BY <2>4, <2>5
<1>3. QED
  BY <1>1, <1>2, DeliveryStep

\* Distinct delivered copies have distinct ids, all of them issued: while no send is
\* under way they cannot outnumber the packets.
LEMMA DeliveredBound ==
  ASSUME generated \in Nat, DeliveryInv, Idle
  PROVE  Cardinality(delivered) <= generated
<1> DEFINE f == [p \in delivered |-> p.pid]
           Ids == 0..(generated - 1)
<1>1. \A p \in delivered : p.pid \in Ids
  <2> TAKE p \in delivered
  <2>1. p \in Copies
    BY DEF DeliveryInv, AcceptInv, Copies
  <2>2. p.pid \in 0..generated /\ p.pid # generated
    BY <2>1 DEF DeliveryInv, IdInv, Idle
  <2>3. QED
    BY <2>2
<1>2. f \in Injection(delivered, Ids)
  BY <1>1 DEF Injection, IsInjective, DeliveryInv, AcceptInv
<1>3. IsFiniteSet(Ids) /\ Cardinality(Ids) = generated
  BY FS_Interval
<1> HIDE DEF f, Ids
<1>4. QED
  BY <1>2, <1>3, FS_Injection

LEMMA DeliveryImplies ==
  ASSUME TypeInv, DeliveryInv
  PROVE  DeliveredExactlyOnce
<1>1. \A p \in reached : \E q \in delivered : q.pid = p.pid /\ q.intact
  BY DEF DeliveryInv, AcceptInv
<1>2. Idle => Cardinality(delivered) <= generated
  BY DeliveredBound DEF TypeInv, TypeOK, SendTypeOK
<1>3. QED
  BY <1>1, <1>2 DEF DeliveredExactlyOnce, DeliveryInv, AcceptInv

\* However many copies race and whatever the network alters, a packet is delivered at
\* most once, at its addressee, and no bad copy suppresses a good one.
THEOREM DeliveredExactlyOnceHolds == Spec => []DeliveredExactlyOnce
<1>1. Init => DeliveryInv
  BY IdInit, AcceptInit DEF DeliveryInv
<1>2. TypeInv /\ RouteInv /\ DeliveryInv /\ [Next]_vars => DeliveryInv'
  BY IdStep, AcceptStep DEF DeliveryInv, RouteInv
<1>3. TypeInv /\ RouteInv /\ [Next]_vars => RouteInv'
  BY RouteStep
<1>4. TypeInv /\ DeliveryInv => DeliveredExactlyOnce
  BY DeliveryImplies
<1>5. QED
  BY <1>1, <1>2, <1>3, <1>4, RouteInit, TypeCorrect, PTL DEF Spec

-----------------------------------------------------------------------------
(* The chain of credit *)

ConfirmedVerdicts == {o \in observed : o[4] = "confirmed"}

LEMMA ObserveOther ==
  ASSUME NEW n, NEW pid, NEW nxt, NEW v, v # "confirmed", Observe(n, pid, nxt, v)
  PROVE  ConfirmedVerdicts' = ConfirmedVerdicts
<1>1. observed' = observed \cup {<<n, pid, nxt, v>>}
  BY DEF Observe
<1>2. \A o : o \in observed' /\ o[4] = "confirmed" <=> o \in observed /\ o[4] = "confirmed"
  BY <1>1
<1>3. QED
  BY <1>2 DEF ConfirmedVerdicts

LEMMA RelayConfirms ==
  ASSUME NEW p, NEW n, NEW nxt, NEW exclude, Relay(p, n, exclude, nxt)
  PROVE  ConfirmedVerdicts' = ConfirmedVerdicts
<1> DEFINE v == Visit(p, n, exclude)
<1>1. Forward(v, n, nxt)
  BY DEF Relay
<1> HIDE DEF v
<1>2. CASE ForwardToOffline(v, n, nxt) \/ ForwardLost(v, n, nxt)
  BY <1>2, ObserveOther DEF ForwardToOffline, ForwardLost
<1>3. CASE ForwardSent(v, n, nxt)
  BY <1>3, ObserveOther DEF ForwardSent, ArmVerdict, ConfirmedVerdicts
<1>4. QED
  BY <1>1, <1>2, <1>3 DEF Forward

LEMMA ExpireConfirms ==
  ASSUME NEW expired, Expire(expired)
  PROVE  ConfirmedVerdicts' = ConfirmedVerdicts
<1>1. observed' = observed \cup {<<e[1], e[2][1], e[2][2], "timeout">> : e \in expired}
  BY DEF Expire
<1>2. \A o : o \in observed' /\ o[4] = "confirmed" <=> o \in observed /\ o[4] = "confirmed"
  BY <1>1
<1>3. QED
  BY <1>2 DEF ConfirmedVerdicts

\* A hop is confirmed only by a receipt that found its key pending.
LEMMA ConfirmStep ==
  ASSUME [Next]_vars
  PROVE  \/ ConfirmedVerdicts' = ConfirmedVerdicts
         \/ \E r \in receiptWire : /\ Idle /\ Open /\ ReceiveReceipt(r)
                                   /\ \E i \in Position(r) : CreditReceipt(r, i)
<1>1. CASE UNCHANGED verdictVars
  BY <1>1 DEF verdictVars, ConfirmedVerdicts
<1>2. CASE \E s \in sending : SendCopy(s)
  BY <1>2, RelayConfirms DEF SendCopy
<1>3. CASE \E w \in wire : ReceivePacket(w)
  <2>1. UNCHANGED verdictVars \/ \E p, n, nxt : Relay(p, n, {}, nxt)
    BY <1>3 DEF ReceivePacket, Accept, RejectSignature, DropInTransit, DropNoRoute
  <2>2. QED
    BY <1>1, <2>1, RelayConfirms
<1>4. CASE \E r \in receiptWire : ReceiveReceipt(r)
  BY <1>1, <1>4 DEF ReceiveReceipt, IgnoreReceipt
<1>5. CASE SweepTimeouts \/ CloseTransports \/ FlushAndSave
  BY <1>5, ExpireConfirms DEF SweepTimeouts, CloseTransports, FlushAndSave
<1>6. QED
  BY <1>1, <1>2, <1>3, <1>4, <1>5 DEF Next, vars, StartSend, SendBlocked, DropInTransit,
     DropNoRoute, SendNow, Perturb, EndTraffic, CancelTasks, LosePacket, LoseReceipt,
     CorruptPacket, CorruptReceipt, Returned

\* The verdict a receipt of copy p gives the hop at position j, and credit for every
\* hop from position k on.
Confirmed(p, j) == <<p.path[j], p.pid, EdgeEnd(p, j), "confirmed">>

CreditedFrom(p, k) == \A j \in k..Len(p.path) : Confirmed(p, j) \in ConfirmedVerdicts

\* r is on its way back along the path of copy p: it stands at position k, and every
\* hop beyond is credited.
Returning(r, p, k) ==
  /\ p.pid = r.pid /\ p.path = r.path /\ p.dst = r.dst
  /\ k \in 1..Len(p.path) /\ p.path[k] = r.to
  /\ CreditedFrom(p, k + 1)

SimplePath(p) == \A i, j \in DOMAIN p.path : p.path[i] = p.path[j] => i = j

ChainInv ==
  /\ \A p \in reached : SimplePath(p)
  /\ \A r \in receiptWire : r.intact => \E p \in reached : \E k \in Nat : Returning(r, p, k)
  /\ \A o \in ConfirmedVerdicts :
       \E p \in reached : \E i \in 1..Len(p.path) : o = Confirmed(p, i) /\ CreditedFrom(p, i)

LEMMA ChainInit == Init => ChainInv
BY DEF Init, ChainInv, ConfirmedVerdicts

\* Where the receipts of a step come from.
LEMMA ReceiptStep ==
  ASSUME [Next]_vars, NEW r \in receiptWire', r \notin receiptWire, r.intact
  PROVE  \/ \E w \in wire : /\ w.to = w.pkt.dst /\ ReceivePacket(w)
                            /\ Accept(w.pkt, receiptWire) /\ r \in EmittedReceipt(w.pkt)
         \/ \E q \in receiptWire : \E i \in Position(q) :
              CreditReceipt(q, i) /\ r \in RelayedReceipt(q, i)
<1>1. CASE \E q \in receiptWire : CorruptReceipt(q)
  <2>1. PICK q \in receiptWire : r = [q EXCEPT !.intact = FALSE] /\ q.intact
    BY <1>1 DEF CorruptReceipt
  <2>2. r.intact = FALSE
    BY <2>1
  <2>3. QED
    BY <2>2
<1>2. CASE \E q \in receiptWire : ReceiveReceipt(q)
  BY <1>2 DEF ReceiveReceipt, CreditReceipt, IgnoreReceipt
<1>3. CASE \E w \in wire : ReceivePacket(w)
  BY <1>3 DEF ReceivePacket, Accept, RejectSignature
<1>4. QED
  BY <1>1, <1>2, <1>3 DEF Next, vars, netVars, StartSend, SendCopy, SendBlocked, SendNow,
     SweepTimeouts, Perturb, EndTraffic, CancelTasks, CloseTransports, FlushAndSave,
     LosePacket, LoseReceipt, CorruptPacket, Returned

\* The node a receipt credits is where the receipt of that copy stands: its position
\* on a simple path is unique, and everything beyond it is credited already.
LEMMA CreditAt ==
  ASSUME TypeInv, ChainInv, NEW r \in receiptWire, NEW i \in Position(r),
         CreditReceipt(r, i), NEW p \in reached, NEW k \in Nat, Returning(r, p, k)
  PROVE  /\ i = k
         /\ ConfirmedVerdicts' = ConfirmedVerdicts \cup {Confirmed(p, k)}
         /\ CreditedFrom(p, k)'
<1>1. r \in ReceiptType /\ r.intact
  BY DEF TypeInv, TypeOK, NetTypeOK, CreditReceipt
<1>2. Returning(r, p, k)
  OBVIOUS
<1>3. i \in 1..Len(r.path) /\ r.path[i] = r.to
  BY <1>1, PositionType
<1>4. p.path \in Seq(Node)
  BY DEF TypeInv, TypeOK, DeliveryTypeOK, PacketType
<1>5. i = k
  <2>1. i \in DOMAIN p.path /\ k \in DOMAIN p.path /\ p.path[i] = p.path[k]
    BY <1>2, <1>3, <1>4 DEF Returning
  <2>2. QED
    BY <2>1 DEF ChainInv, SimplePath
<1>6. Confirmed(p, i) = <<r.to, r.pid, EdgeEnd(r, i), "confirmed">>
  BY <1>2, <1>3 DEF Confirmed, Returning, EdgeEnd
<1>7. observed' = observed \cup {Confirmed(p, i)} /\ Confirmed(p, i)[4] = "confirmed"
  BY <1>6 DEF CreditReceipt, Observe
<1>8. ConfirmedVerdicts' = ConfirmedVerdicts \cup {Confirmed(p, i)}
  <2> HIDE DEF Confirmed
  <2>1. QED
    BY <1>7 DEF ConfirmedVerdicts
<1>9. CreditedFrom(p, i)'
  <2> SUFFICES ASSUME NEW j \in i..Len(p.path)
               PROVE  Confirmed(p, j) \in ConfirmedVerdicts'
    BY DEF CreditedFrom, Confirmed, EdgeEnd
  <2>1. CASE j = i
    BY <1>8, <2>1
  <2>2. CASE j # i
    <3>1. j \in (i + 1)..Len(p.path)
      BY <1>3, <1>4, <2>2
    <3>2. Confirmed(p, j) \in ConfirmedVerdicts
      BY <1>2, <1>5, <3>1 DEF Returning, CreditedFrom
    <3>3. QED
      BY <1>8, <3>2
  <2>3. QED
    BY <2>1, <2>2
<1>10. QED
  BY <1>5, <1>8, <1>9

LEMMA CreditPosition ==
  ASSUME TypeInv, ChainInv, NEW r \in receiptWire, NEW i \in Position(r),
         CreditReceipt(r, i)
  PROVE  \E p \in reached :
           /\ Returning(r, p, i)
           /\ ConfirmedVerdicts' = ConfirmedVerdicts \cup {Confirmed(p, i)}
           /\ CreditedFrom(p, i)'
<1>1. r.intact
  BY DEF CreditReceipt
<1>2. PICK p \in reached, k \in Nat : Returning(r, p, k)
  BY <1>1 DEF ChainInv
<1>3. QED
  BY <1>2, CreditAt

LEMMA ChainStep == TypeInv /\ PathShape /\ ChainInv /\ [Next]_vars => ChainInv'
<1> SUFFICES ASSUME TypeInv, PathShape, ChainInv, [Next]_vars PROVE ChainInv'
  OBVIOUS
<1>1. reached \subseteq reached'
  BY DeliveryStep DEF deliveryVars, Accept
<1>2. ConfirmedVerdicts \subseteq ConfirmedVerdicts'
  BY ConfirmStep, CreditPosition
<1>3. ASSUME NEW p, NEW k, CreditedFrom(p, k)
      PROVE  CreditedFrom(p, k)'
  BY <1>2, <1>3 DEF CreditedFrom, Confirmed, EdgeEnd
<1>4. \A p \in reached' : SimplePath(p)
  <2> SUFFICES ASSUME NEW p \in reached', p \notin reached PROVE SimplePath(p)
    BY DEF ChainInv
  <2>1. PICK w \in wire : p = w.pkt
    BY DeliveryStep DEF deliveryVars, Accept
  <2>2. QED
    BY <2>1 DEF PathShape, Route, SimplePath
<1>5. ASSUME NEW r \in receiptWire', r.intact
      PROVE  \E p \in reached' : \E k \in Nat : Returning(r, p, k)'
  <2>1. CASE r \in receiptWire
    <3>1. PICK p \in reached, k \in Nat : Returning(r, p, k)
      BY <1>5, <2>1 DEF ChainInv
    <3>2. Returning(r, p, k)'
      BY <1>3, <3>1 DEF Returning
    <3>3. QED
      BY <1>1, <3>1, <3>2
  <2>2. ASSUME NEW w \in wire, Accept(w.pkt, receiptWire), r \in EmittedReceipt(w.pkt)
        PROVE  \E p \in reached' : \E k \in Nat : Returning(r, p, k)'
    <3> DEFINE p == w.pkt
    <3>1. p \in PacketType /\ p.path \in Seq(Node)
      BY DEF TypeInv, TypeOK, NetTypeOK, FlightType, PacketType
    <3>2. p \in reached'
      BY <2>2 DEF Accept
    <3>3. /\ p.path # <<>>
          /\ r.pid = p.pid /\ r.path = p.path /\ r.dst = p.dst
          /\ r.to = p.path[Len(p.path)]
      BY <2>2 DEF EmittedReceipt, SentReceipt
    <3> HIDE DEF p
    <3>4. Len(p.path) \in 1..Len(p.path) /\ Len(p.path) \in Nat
      BY <3>1, <3>3
    <3>5. CreditedFrom(p, Len(p.path) + 1)'
      BY <3>4 DEF CreditedFrom
    <3>6. Returning(r, p, Len(p.path))'
      BY <3>3, <3>4, <3>5 DEF Returning
    <3>7. QED
      BY <3>2, <3>4, <3>6
  <2>3. ASSUME NEW q \in receiptWire, NEW i \in Position(q), CreditReceipt(q, i),
               r \in RelayedReceipt(q, i)
        PROVE  \E p \in reached' : \E k \in Nat : Returning(r, p, k)'
    <3>1. PICK p \in reached : Returning(q, p, i) /\ CreditedFrom(p, i)'
      BY <2>3, CreditPosition
    <3>2. q \in ReceiptType /\ i > 1
      BY <2>3 DEF TypeInv, TypeOK, NetTypeOK, RelayedReceipt
    <3>3. /\ r.pid = q.pid /\ r.path = q.path /\ r.dst = q.dst
          /\ r.to = q.path[i - 1]
      BY <2>3, <3>2 DEF RelayedReceipt, SentReceipt, ReceiptType
    <3>4. i - 1 \in 1..Len(p.path) /\ i - 1 \in Nat /\ (i - 1) + 1 = i
      BY <3>1, <3>2 DEF Returning
    <3>5. Returning(r, p, i - 1)'
      BY <3>1, <3>3, <3>4 DEF Returning
    <3>6. QED
      BY <1>1, <3>4, <3>5
  <2>4. QED
    BY <1>5, <2>1, <2>2, <2>3, ReceiptStep
<1>6. ASSUME NEW o \in ConfirmedVerdicts'
      PROVE  \E p \in reached' : \E i \in 1..Len(p.path) :
               o = Confirmed(p, i) /\ CreditedFrom(p, i)'
  <2>1. CASE o \in ConfirmedVerdicts
    BY <1>1, <1>3, <2>1 DEF ChainInv
  <2>2. CASE o \notin ConfirmedVerdicts
    <3>0. PICK r \in receiptWire : \E i \in Position(r) : CreditReceipt(r, i)
      BY <2>2, ConfirmStep
    <3>1. PICK i \in Position(r) : CreditReceipt(r, i)
      BY <3>0
    <3>2. PICK p \in reached :
            /\ Returning(r, p, i)
            /\ ConfirmedVerdicts' = ConfirmedVerdicts \cup {Confirmed(p, i)}
            /\ CreditedFrom(p, i)'
      BY <3>1, CreditPosition
    <3>3. o = Confirmed(p, i)
      BY <2>2, <3>2
    <3>4. QED
      BY <1>1, <3>2, <3>3 DEF Returning
  <2>3. QED
    BY <2>1, <2>2
<1>7. QED
  BY <1>4, <1>5, <1>6 DEF ChainInv, Confirmed, EdgeEnd

LEMMA ChainImplies ==
  ASSUME TypeInv, ChainInv
  PROVE  ConfirmedChain
<1> SUFFICES ASSUME NEW o \in observed, o[4] = "confirmed"
             PROVE  \E p \in reached : \E i \in DOMAIN p.path :
                      /\ p.pid = o[2] /\ EdgeAt(p, i, o[1], o[3])
                      /\ \A j \in i..Len(p.path) :
                           <<p.path[j], p.pid, EdgeEnd(p, j), "confirmed">> \in observed
  BY DEF ConfirmedChain
<1>1. o \in ConfirmedVerdicts
  BY DEF ConfirmedVerdicts
<1>0. PICK p \in reached :
        \E i \in 1..Len(p.path) : o = Confirmed(p, i) /\ CreditedFrom(p, i)
  BY <1>1 DEF ChainInv
<1>2. PICK i \in 1..Len(p.path) : o = Confirmed(p, i) /\ CreditedFrom(p, i)
  BY <1>0
<1>3. i \in DOMAIN p.path
  BY DEF TypeInv, TypeOK, DeliveryTypeOK, PacketType
<1>4. p.pid = o[2] /\ EdgeAt(p, i, o[1], o[3])
  BY <1>2 DEF Confirmed, EdgeAt
<1>5. \A j \in i..Len(p.path) :
        <<p.path[j], p.pid, EdgeEnd(p, j), "confirmed">> \in observed
  BY <1>2 DEF CreditedFrom, Confirmed, ConfirmedVerdicts
<1>6. QED
  BY <1>3, <1>4, <1>5

\* Credit is evidence: a confirmed hop lies on the path of a copy that arrived, and
\* every hop of that copy beyond it was confirmed before.
THEOREM ConfirmedChainHolds == Spec => []ConfirmedChain
<1>1. TypeInv /\ RouteInv /\ [Next]_vars => RouteInv'
  BY RouteStep
<1>2. TypeInv /\ RouteInv /\ ChainInv /\ [Next]_vars => ChainInv'
  BY ChainStep DEF RouteInv
<1>3. TypeInv /\ ChainInv => ConfirmedChain
  BY ChainImplies
<1>4. QED
  BY <1>1, <1>2, <1>3, RouteInit, ChainInit, TypeCorrect, PTL DEF Spec

-----------------------------------------------------------------------------
(* The daemon implements DeliveryContract *)

\* The contract sees confirmed verdicts only.
LEMMA CreditsAreConfirmed ==
  CreditedNodes = {<<o[1], o[2]>> : o \in ConfirmedVerdicts}
BY DEF CreditedNodes, ConfirmedVerdicts

\* While no send is under way, a copy carries an id that was issued.
LEMMA IssuedIds ==
  ASSUME generated \in Nat, IdInv, Idle, NEW p \in Copies
  PROVE  p.pid \in 0..(generated - 1)
<1>1. p.pid \in 0..generated /\ p.pid # generated
  BY DEF IdInv, Idle
<1>2. QED
  BY <1>1

\* The first authentic copy of a packet is an Accept of the contract, a later one is
\* nothing it sees.
LEMMA AcceptMaps ==
  ASSUME TypeInv, DeliveryInv, Idle, Open, NEW w \in wire,
         ReceivePacket(w), Accept(w.pkt, receiptWire)
  PROVE  \/ \E id \in 0..(generated - 1), at \in SUBSET Node : Contract!Accept(id, at)
         \/ UNCHANGED Contract!cvars
<1> DEFINE p == w.pkt
<1>1. p \in Copies /\ p.dst \in Node
  BY DEF TypeInv, TypeOK, NetTypeOK, FlightType, PacketType, Copies, InFlight
<1>2. p.pid \in 0..(generated - 1)
  BY <1>1, IssuedIds DEF DeliveryInv, TypeInv, TypeOK, SendTypeOK
<1>3. UNCHANGED <<generated, Open, CreditedNodes>>
  BY DEF ReceivePacket, Accept, sendVars, verdictVars, Open, CreditedNodes
<1> HIDE DEF p
<1>4. CASE AlreadyDelivered(p)
  <2>1. AcceptedIds' = AcceptedIds
    BY <1>4 DEF Accept, AcceptedIds, p
  <2>2. QED
    BY <1>3, <2>1 DEF Contract!cvars
<1>5. CASE ~AlreadyDelivered(p)
  <2>1. delivered' = delivered \cup {p}
    BY <1>5 DEF Accept, p
  <2>2. AcceptedIds' = AcceptedIds \cup {p.pid}
    BY <2>1 DEF AcceptedIds
  <2>3. p.pid \notin AcceptedIds
    <3> SUFFICES ASSUME NEW q \in delivered, q.pid = p.pid PROVE FALSE
      BY DEF AcceptedIds
    <3>1. q \in reached /\ q \in Copies
      BY DEF DeliveryInv, AcceptInv, Copies
    <3>2. q.dst = p.dst
      BY <1>1, <3>1 DEF DeliveryInv, IdInv
    <3>3. p.pid \in deliveredIds[p.dst]
      BY <1>1, <3>1, <3>2 DEF DeliveryInv, AcceptInv
    <3>4. QED
      BY <1>5, <3>3 DEF AlreadyDelivered
  <2>4. CreditedNodes \cup {<<n, p.pid>> : n \in {}} = CreditedNodes
    OBVIOUS
  <2>5. Contract!Accept(p.pid, {})
    BY <1>3, <2>2, <2>3, <2>4 DEF Contract!Accept
  <2>6. QED
    BY <1>2, <2>5
<1>6. QED
  BY <1>4, <1>5

\* A credited receipt is a Credit of the contract: what it speaks for was accepted.
LEMMA CreditMaps ==
  ASSUME TypeInv, DeliveryInv, ChainInv, Idle, Open, NEW r \in receiptWire,
         ReceiveReceipt(r), NEW i \in Position(r), CreditReceipt(r, i)
  PROVE  \E n \in Node, id \in 0..(generated - 1) : Contract!Credit(n, id)
<1>1. PICK p \in reached :
        /\ Returning(r, p, i)
        /\ ConfirmedVerdicts' = ConfirmedVerdicts \cup {Confirmed(p, i)}
  BY CreditPosition
<1>2. p.pid \in 0..(generated - 1)
  BY <1>1, IssuedIds DEF DeliveryInv, Copies, TypeInv, TypeOK, SendTypeOK
<1>3. p.pid \in AcceptedIds
  BY <1>1 DEF DeliveryInv, AcceptInv, AcceptedIds
<1>4. r.to \in Node /\ p.path[i] = r.to
  BY <1>1 DEF TypeInv, TypeOK, NetTypeOK, ReceiptType, Returning
<1>5. CreditedNodes' = CreditedNodes \cup {<<r.to, p.pid>>}
  <2>1. CreditedNodes' = {<<o[1], o[2]>> : o \in ConfirmedVerdicts'}
    BY DEF CreditedNodes, ConfirmedVerdicts
  <2>2. Confirmed(p, i)[1] = r.to /\ Confirmed(p, i)[2] = p.pid
    BY <1>4 DEF Confirmed
  <2> HIDE DEF Confirmed
  <2>3. QED
    BY <1>1, <2>1, <2>2, CreditsAreConfirmed
<1>6. UNCHANGED <<generated, AcceptedIds, Open>>
  BY DEF ReceiveReceipt, sendVars, deliveryVars, AcceptedIds, Open
<1>7. Contract!Credit(r.to, p.pid)
  BY <1>3, <1>5, <1>6 DEF Contract!Credit
<1>8. QED
  BY <1>2, <1>4, <1>7

LEMMA ContractStep ==
  ASSUME TypeInv, RouteInv, DeliveryInv, ChainInv, [Next]_vars
  PROVE  [Contract!Next]_(Contract!cvars)
<1>1. CASE UNCHANGED deliveryVars /\ ConfirmedVerdicts' = ConfirmedVerdicts
  <2>1. AcceptedIds' = AcceptedIds
    BY <1>1 DEF deliveryVars, AcceptedIds
  <2>2. CreditedNodes' = CreditedNodes
    BY <1>1, CreditsAreConfirmed DEF CreditedNodes, ConfirmedVerdicts
  <2>3. CASE generated' = generated + 1 /\ sending # {}
    <3>1. phase' = phase /\ phase = "traffic"
      BY <2>3 DEF Next, vars, RouteInv, SendInv, StartSend, SendCopy, SendBlocked, SendNow,
         ReceivePacket, ReceiveReceipt, SweepTimeouts, Perturb, EndTraffic, CancelTasks,
         CloseTransports, FlushAndSave, LosePacket, LoseReceipt, CorruptPacket,
         CorruptReceipt, Returned, Idle
    <3>2. Contract!Issue
      BY <2>1, <2>2, <2>3, <3>1 DEF Contract!Issue, Open
    <3>3. QED
      BY <3>2 DEF Contract!Next
  <2>4. CASE generated' = generated
    <3>1. Open' = Open \/ (Open /\ ~Open')
      BY DEF Next, vars, StartSend, SendCopy, SendBlocked, SendNow,
         ReceivePacket, ReceiveReceipt, SweepTimeouts, Perturb, EndTraffic, CancelTasks,
         CloseTransports, FlushAndSave, LosePacket, LoseReceipt, CorruptPacket,
         CorruptReceipt, Returned, Open
    <3>2. CASE Open' = Open
      BY <2>1, <2>2, <2>4, <3>2 DEF Contract!cvars
    <3>3. CASE Open /\ ~Open'
      <4>1. Contract!Close
        BY <2>1, <2>2, <2>4, <3>3 DEF Contract!Close, Open
      <4>2. QED
        BY <4>1 DEF Contract!Next
    <3>4. QED
      BY <3>1, <3>2, <3>3
  <2>5. generated' = generated \/ (generated' = generated + 1 /\ sending # {})
    BY DEF Next, vars, sendVars, StartSend, SendCopy, SendBlocked, NextCopy, FinishSend,
       SendNow, ReceivePacket, ReceiveReceipt, SweepTimeouts, Perturb, EndTraffic,
       CancelTasks, CloseTransports, FlushAndSave, LosePacket, LoseReceipt, CorruptPacket,
       CorruptReceipt, Returned
  <2>6. QED
    BY <2>3, <2>4, <2>5
<1>2. CASE \E w \in wire : Idle /\ Open /\ ReceivePacket(w) /\ Accept(w.pkt, receiptWire)
  BY <1>2, AcceptMaps DEF Contract!Next
<1>3. CASE \E r \in receiptWire : /\ Idle /\ Open /\ ReceiveReceipt(r)
                                  /\ \E i \in Position(r) : CreditReceipt(r, i)
  BY <1>3, CreditMaps DEF Contract!Next
<1>4. QED
  BY <1>1, <1>2, <1>3, DeliveryStep, ConfirmStep

LEMMA ContractInit == Init => Contract!Init
BY DEF Init, Contract!Init, AcceptedIds, CreditedNodes, Open

\* A cluster of any size, on any topology and under any faults of the model, issues,
\* accepts, credits and closes as the contract allows.
THEOREM DaemonImplementsContract == Spec => ImplementsContract
<1>1. Init => DeliveryInv
  BY IdInit, AcceptInit DEF DeliveryInv
<1>2. TypeInv /\ RouteInv /\ DeliveryInv /\ [Next]_vars => DeliveryInv'
  BY IdStep, AcceptStep DEF DeliveryInv, RouteInv
<1>3. TypeInv /\ RouteInv /\ ChainInv /\ [Next]_vars => ChainInv'
  BY ChainStep DEF RouteInv
<1>4. TypeInv /\ RouteInv /\ [Next]_vars => RouteInv'
  BY RouteStep
<1>5. TypeInv /\ RouteInv /\ DeliveryInv /\ ChainInv /\ [Next]_vars
      => [Contract!Next]_(Contract!cvars)
  BY ContractStep
<1>6. QED
  BY <1>1, <1>2, <1>3, <1>4, <1>5, RouteInit, ChainInit, ContractInit, TypeCorrect, PTL
     DEF Spec, ImplementsContract, Contract!Spec

-----------------------------------------------------------------------------
(* No copy vanishes or is counted twice *)

\* What tells copies apart: the packet and the index of the copy.
CopyKey(p) == <<p.pid, p.copy>>

\* The copies of the flights T and W and of the records E and R.
Held(T, W, E, R) == {CopyKey(t.pkt) : t \in T \cup W} \cup {CopyKey(p) : p \in E \cup R}

\* No copy is in two places, nor twice in one.
Distinct(T, W, E, R) ==
  /\ T \cap W = {} /\ E \cap R = {}
  /\ \A t, u \in T \cup W : CopyKey(t.pkt) = CopyKey(u.pkt) => t = u
  /\ \A p, q \in E \cup R : CopyKey(p) = CopyKey(q) => p = q
  /\ \A t \in T \cup W, p \in E \cup R : CopyKey(t.pkt) # CopyKey(p)

AllFinite(T, W, E, R) ==
  IsFiniteSet(T) /\ IsFiniteSet(W) /\ IsFiniteSet(E) /\ IsFiniteSet(R)

CountOf(T, W, E, R) == Cardinality(T) + Cardinality(W) + Cardinality(E) + Cardinality(R)

\* A copy put in the timers: one more.
LEMMA PutTimer ==
  ASSUME NEW T, NEW W, NEW E, NEW R, NEW t,
         Distinct(T, W, E, R), AllFinite(T, W, E, R), CopyKey(t.pkt) \notin Held(T, W, E, R)
  PROVE  /\ Distinct(T \cup {t}, W, E, R) /\ AllFinite(T \cup {t}, W, E, R)
         /\ CountOf(T \cup {t}, W, E, R) = CountOf(T, W, E, R) + 1
<1>1. t \notin T /\ t \notin W
  BY DEF Held
<1>2. AllFinite(T \cup {t}, W, E, R) /\ Cardinality(T \cup {t}) = Cardinality(T) + 1
  BY <1>1, FS_AddElement DEF AllFinite
<1>3. CountOf(T \cup {t}, W, E, R) = CountOf(T, W, E, R) + 1
  BY <1>2, FS_CardinalityType DEF CountOf, AllFinite
<1>4. Distinct(T \cup {t}, W, E, R)
  <2>1. \A u \in T \cup W : CopyKey(u.pkt) # CopyKey(t.pkt)
    BY DEF Held
  <2>2. \A p \in E \cup R : CopyKey(p) # CopyKey(t.pkt)
    BY DEF Held
  <2>3. QED
    BY <1>1, <2>1, <2>2 DEF Distinct
<1>5. QED
  BY <1>2, <1>3, <1>4

\* The flights, and the records, may change sides.
LEMMA SwapSides ==
  ASSUME NEW T, NEW W, NEW E, NEW R
  PROVE  /\ Distinct(T, W, E, R) <=> Distinct(W, T, R, E)
         /\ AllFinite(T, W, E, R) <=> AllFinite(W, T, R, E)
         /\ AllFinite(T, W, E, R) => CountOf(T, W, E, R) = CountOf(W, T, R, E)
         /\ Held(T, W, E, R) = Held(W, T, R, E)
<1>1. T \cup W = W \cup T /\ E \cup R = R \cup E /\ T \cap W = W \cap T /\ E \cap R = R \cap E
  OBVIOUS
<1>2. AllFinite(T, W, E, R) => CountOf(T, W, E, R) = CountOf(W, T, R, E)
  BY FS_CardinalityType DEF CountOf, AllFinite
<1>3. QED
  BY <1>1, <1>2 DEF Distinct, AllFinite, Held

\* A copy taken out of the wire: one less, and its key is free.
LEMMA TakeWire ==
  ASSUME NEW T, NEW W, NEW E, NEW R, Distinct(T, W, E, R), AllFinite(T, W, E, R),
         NEW w \in W
  PROVE  /\ Distinct(T, W \ {w}, E, R) /\ AllFinite(T, W \ {w}, E, R)
         /\ CountOf(T, W \ {w}, E, R) + 1 = CountOf(T, W, E, R)
         /\ CopyKey(w.pkt) \notin Held(T, W \ {w}, E, R)
         /\ Held(T, W \ {w}, E, R) \subseteq Held(T, W, E, R)
         /\ CopyKey(w.pkt) \in Held(T, W, E, R)
<1>1. AllFinite(T, W \ {w}, E, R) /\ Cardinality(W \ {w}) = Cardinality(W) - 1
  BY FS_RemoveElement DEF AllFinite
<1>2. CountOf(T, W \ {w}, E, R) + 1 = CountOf(T, W, E, R)
  BY <1>1, FS_CardinalityType DEF CountOf, AllFinite
<1>3. Distinct(T, W \ {w}, E, R)
  BY DEF Distinct
<1>4. CopyKey(w.pkt) \notin Held(T, W \ {w}, E, R)
  <2>1. \A u \in T \cup (W \ {w}) : CopyKey(u.pkt) # CopyKey(w.pkt)
    BY DEF Distinct
  <2>2. \A p \in E \cup R : CopyKey(p) # CopyKey(w.pkt)
    BY DEF Distinct
  <2>3. QED
    BY <2>1, <2>2 DEF Held
<1>5. QED
  BY <1>1, <1>2, <1>3, <1>4 DEF Held

\* A copy recorded as dropped: one more.
LEMMA PutEnded ==
  ASSUME NEW T, NEW W, NEW E, NEW R, NEW p,
         Distinct(T, W, E, R), AllFinite(T, W, E, R), CopyKey(p) \notin Held(T, W, E, R)
  PROVE  /\ Distinct(T, W, E \cup {p}, R) /\ AllFinite(T, W, E \cup {p}, R)
         /\ CountOf(T, W, E \cup {p}, R) = CountOf(T, W, E, R) + 1
<1>1. p \notin E /\ p \notin R
  BY DEF Held
<1>2. AllFinite(T, W, E \cup {p}, R) /\ Cardinality(E \cup {p}) = Cardinality(E) + 1
  BY <1>1, FS_AddElement DEF AllFinite
<1>3. CountOf(T, W, E \cup {p}, R) = CountOf(T, W, E, R) + 1
  BY <1>2, FS_CardinalityType DEF CountOf, AllFinite
<1>4. Distinct(T, W, E \cup {p}, R)
  <2>1. \A u \in T \cup W : CopyKey(u.pkt) # CopyKey(p)
    BY DEF Held
  <2>2. \A q \in E \cup R : CopyKey(q) # CopyKey(p)
    BY DEF Held
  <2>3. QED
    BY <1>1, <2>1, <2>2 DEF Distinct
<1>5. QED
  BY <1>2, <1>3, <1>4

\* A key is used up once its packet was sent, or its copy of the send under way.
Issued(k) ==
  \/ k[1] < generated
  \/ k[1] = generated /\ \E s \in sending : k[2] <= Redundancy - s.left

Places == Held(timers, wire, ended, reached)

PlaceInv ==
  /\ Distinct(timers, wire, ended, reached)
  /\ AllFinite(timers, wire, ended, reached)
  /\ created = CountOf(timers, wire, ended, reached) + lost
  /\ Cardinality(ended) = SumFunction(dropped)
  /\ \A k \in Places : Issued(k)

\* The copy k went into the timers, was dropped with one reason, or was accepted.
Placed(k) ==
  \/ \E t : /\ CopyKey(t.pkt) = k
            /\ timers' = timers \cup {t} /\ UNCHANGED <<ended, dropped, reached>>
  \/ \E why \in Reason, q \in PacketType :
       /\ CopyKey(q) = k
       /\ ended' = ended \cup {q} /\ dropped' = [dropped EXCEPT ![why] = @ + 1]
       /\ UNCHANGED <<timers, reached>>
  \/ \E p : /\ CopyKey(p) = k
            /\ reached' = reached \cup {p} /\ UNCHANGED <<timers, ended, dropped>>

LEMMA FiniteReasons == IsFiniteSet(Reason)
<1>1. /\ IsFiniteSet({"bad_signature"}) /\ IsFiniteSet({"node_down"}) /\ IsFiniteSet({"loop"})
      /\ IsFiniteSet({"ttl_expired"}) /\ IsFiniteSet({"no_route"})
      /\ IsFiniteSet({"link_loss"}) /\ IsFiniteSet({"sybil_drop"})
  BY FS_Singleton
<1>2. IsFiniteSet({"bad_signature"} \cup {"node_down"} \cup {"loop"} \cup {"ttl_expired"})
  BY <1>1, FS_Union
<1>3. IsFiniteSet({"no_route"} \cup {"link_loss"} \cup {"sybil_drop"})
  BY <1>1, FS_Union
<1>4. Reason = ({"bad_signature"} \cup {"node_down"} \cup {"loop"} \cup {"ttl_expired"})
                 \cup ({"no_route"} \cup {"link_loss"} \cup {"sybil_drop"})
  BY DEF Reason
<1>5. QED
  BY <1>2, <1>3, <1>4, FS_Union

\* One more drop for a reason is one more drop in all.
LEMMA DropAdds ==
  ASSUME NEW d \in [Reason -> Nat], NEW why \in Reason
  PROVE  SumFunction([d EXCEPT ![why] = @ + 1]) = SumFunction(d) + 1
<1> DEFINE e == [d EXCEPT ![why] = @ + 1]
<1>1. DOMAIN e = Reason /\ DOMAIN d = Reason /\ \A r \in Reason : d[r] \in Int
  OBVIOUS
<1>2. e[why] = d[why] + 1 /\ e[why] \in Int /\ \A r \in Reason \ {why} : e[r] = d[r]
  OBVIOUS
<1> HIDE DEF e
<1>3. SumFunctionOnSet(e, Reason) = SumFunctionOnSet(d, Reason) - d[why] + e[why]
  BY <1>1, <1>2, FiniteReasons, SumChange
<1>4. SumFunctionOnSet(d, Reason) \in Int
  BY <1>1, FiniteReasons, SumType
<1>5. SumFunctionOnSet(e, Reason) = SumFunctionOnSet(d, Reason) + 1
  BY <1>1, <1>2, <1>3, <1>4
<1>6. QED
  BY <1>1, <1>5 DEF SumFunction, e

LEMMA DropPlaces ==
  ASSUME NEW q \in PacketType, NEW why \in Reason, DropCopy(q, why), UNCHANGED <<timers, reached>>
  PROVE  Placed(CopyKey(q))
<1>1. ended' = ended \cup {q} /\ dropped' = [dropped EXCEPT ![why] = @ + 1]
  BY DEF DropCopy
<1>2. QED
  BY <1>1, Zenon DEF Placed

\* A relay or a drop at a node places the copy it handles.
LEMMA HandledIsPlaced ==
  ASSUME TypeInv, NEW p \in PacketType, NEW n \in Node, NEW exclude, UNCHANGED reached,
         \/ \E nxt \in Node : Relay(p, n, exclude, nxt)
         \/ DropInTransit(p, n)
         \/ DropNoRoute(p, n, exclude)
  PROVE  Placed(CopyKey(p))
<1> DEFINE v == Visit(p, n, exclude)
<1>1. CopyKey(v) = CopyKey(p) /\ v \in PacketType
  BY VisitType DEF CopyKey, Visit, PacketType
<1>2. ASSUME NEW nxt \in Node, Relay(p, n, exclude, nxt)
      PROVE  Placed(CopyKey(p))
  <2> DEFINE u == Touch(v, nxt)
  <2>0. u \in PacketType
    BY <1>1, TouchType
  <2>1. CopyKey(u) = CopyKey(p) /\ CopyKey(Forwarded(u, n)) = CopyKey(p)
    BY <1>1 DEF CopyKey, Touch, Forwarded, PacketType
  <2>2. Forward(v, n, nxt)
    BY <1>2 DEF Relay
  <2> HIDE DEF u, v
  <2>3. CASE ForwardToOffline(v, n, nxt)
    <3>1. DropCopy(v, "node_down") /\ timers' = timers /\ "node_down" \in Reason
      BY <2>3 DEF ForwardToOffline, Reason
    <3>2. QED
      BY <1>1, <3>1, DropPlaces
  <2>4. CASE ForwardLost(v, n, nxt)
    <3>1. PICK why \in Reason : DropCopy(u, why)
      BY <2>4 DEF ForwardLost, Reason, u
    <3>2. timers' = timers
      BY <2>4 DEF ForwardLost
    <3>3. QED
      BY <2>0, <2>1, <3>1, <3>2, DropPlaces
  <2>5. CASE ForwardSent(v, n, nxt)
    <3> DEFINE t == [pkt |-> Forwarded(u, n), to |-> nxt]
    <3>1. timers' = timers \cup {t} /\ UNCHANGED <<ended, dropped>>
      BY <2>5 DEF ForwardSent, dropVars, u
    <3>2. CopyKey(t.pkt) = CopyKey(p)
      BY <2>1
    <3> HIDE DEF t
    <3>3. QED
      BY <3>1, <3>2 DEF Placed
  <2>6. QED
    BY <2>2, <2>3, <2>4, <2>5 DEF Forward
<1>3. CASE DropInTransit(p, n)
  <2>1. PICK why \in Reason : DropCopy(p, why)
    BY <1>3, TransitClear DEF DropInTransit
  <2>2. QED
    BY <1>3, <2>1, DropPlaces DEF DropInTransit
<1>4. CASE DropNoRoute(p, n, exclude)
  <2> HIDE DEF v
  <2>1. DropCopy(v, "no_route") /\ timers' = timers /\ "no_route" \in Reason
    BY <1>4 DEF DropNoRoute, v, Reason
  <2>2. QED
    BY <1>1, <2>1, DropPlaces
<1>5. QED
  BY <1>2, <1>3, <1>4

\* A copy whose key is free is placed once.
LEMMA PlacedOnce ==
  ASSUME dropped \in [Reason -> Nat], NEW W, NEW k, Placed(k),
         Distinct(timers, W, ended, reached), AllFinite(timers, W, ended, reached),
         Cardinality(ended) = SumFunction(dropped), k \notin Held(timers, W, ended, reached)
  PROVE  /\ Distinct(timers', W, ended', reached') /\ AllFinite(timers', W, ended', reached')
         /\ CountOf(timers', W, ended', reached') = CountOf(timers, W, ended, reached) + 1
         /\ Cardinality(ended') = SumFunction(dropped')
         /\ Held(timers', W, ended', reached') = Held(timers, W, ended, reached) \cup {k}
<1>1. ASSUME NEW t, CopyKey(t.pkt) = k, timers' = timers \cup {t},
             UNCHANGED <<ended, dropped, reached>>
      PROVE  /\ Distinct(timers', W, ended', reached')
             /\ AllFinite(timers', W, ended', reached')
             /\ CountOf(timers', W, ended', reached') = CountOf(timers, W, ended, reached) + 1
             /\ Cardinality(ended') = SumFunction(dropped')
             /\ Held(timers', W, ended', reached') = Held(timers, W, ended, reached) \cup {k}
  <2>1. /\ Distinct(timers \cup {t}, W, ended, reached)
        /\ AllFinite(timers \cup {t}, W, ended, reached)
        /\ CountOf(timers \cup {t}, W, ended, reached) = CountOf(timers, W, ended, reached) + 1
    BY <1>1, PutTimer
  <2>2. Held(timers \cup {t}, W, ended, reached) = Held(timers, W, ended, reached) \cup {k}
    BY <1>1 DEF Held
  <2>3. QED
    BY <1>1, <2>1, <2>2
<1>2. ASSUME NEW why \in Reason, NEW q \in PacketType, CopyKey(q) = k, ended' = ended \cup {q},
             dropped' = [dropped EXCEPT ![why] = @ + 1], UNCHANGED <<timers, reached>>
      PROVE  /\ Distinct(timers', W, ended', reached')
             /\ AllFinite(timers', W, ended', reached')
             /\ CountOf(timers', W, ended', reached') = CountOf(timers, W, ended, reached) + 1
             /\ Cardinality(ended') = SumFunction(dropped')
             /\ Held(timers', W, ended', reached') = Held(timers, W, ended, reached) \cup {k}
  <2>1. SumFunction(dropped') = SumFunction(dropped) + 1
    BY <1>2, DropAdds
  <2>2. CopyKey(q) \notin Held(timers, W, ended, reached)
    BY <1>2
  <2>3. /\ Distinct(timers, W, ended \cup {q}, reached)
        /\ AllFinite(timers, W, ended \cup {q}, reached)
        /\ CountOf(timers, W, ended \cup {q}, reached)
             = CountOf(timers, W, ended, reached) + 1
    BY <2>2, PutEnded
  <2>4. q \notin ended /\ IsFiniteSet(ended)
    BY <2>2 DEF Held, AllFinite
  <2>5. Cardinality(ended \cup {q}) = Cardinality(ended) + 1
    BY <2>4, FS_AddElement
  <2>6. Held(timers, W, ended \cup {q}, reached) = Held(timers, W, ended, reached) \cup {k}
    BY <1>2 DEF Held
  <2>7. QED
    BY <1>2, <2>1, <2>3, <2>5, <2>6
<1>3. ASSUME NEW p, CopyKey(p) = k, reached' = reached \cup {p},
             UNCHANGED <<timers, ended, dropped>>
      PROVE  /\ Distinct(timers', W, ended', reached')
             /\ AllFinite(timers', W, ended', reached')
             /\ CountOf(timers', W, ended', reached') = CountOf(timers, W, ended, reached) + 1
             /\ Cardinality(ended') = SumFunction(dropped')
             /\ Held(timers', W, ended', reached') = Held(timers, W, ended, reached) \cup {k}
  <2>1. /\ Distinct(W, timers, reached, ended) /\ AllFinite(W, timers, reached, ended)
        /\ k \notin Held(W, timers, reached, ended)
        /\ CountOf(W, timers, reached, ended) = CountOf(timers, W, ended, reached)
        /\ Held(W, timers, reached, ended) = Held(timers, W, ended, reached)
    BY SwapSides
  <2> DEFINE R == reached \cup {p}
  <2>2. /\ Distinct(W, timers, R, ended) /\ AllFinite(W, timers, R, ended)
        /\ CountOf(W, timers, R, ended) = CountOf(W, timers, reached, ended) + 1
        /\ Held(W, timers, R, ended) = Held(W, timers, reached, ended) \cup {k}
    <3>1. CopyKey(p) \notin Held(W, timers, reached, ended)
      BY <1>3, <2>1
    <3>2. /\ Distinct(W, timers, R, ended) /\ AllFinite(W, timers, R, ended)
          /\ CountOf(W, timers, R, ended) = CountOf(W, timers, reached, ended) + 1
      BY <2>1, <3>1, PutEnded DEF R
    <3>3. Held(W, timers, R, ended) = Held(W, timers, reached, ended) \cup {k}
      BY <1>3 DEF Held, R
    <3>4. QED
      BY <3>2, <3>3
  <2> HIDE DEF R
  <2>3. /\ Distinct(timers, W, ended, R) /\ AllFinite(timers, W, ended, R)
        /\ CountOf(W, timers, R, ended) = CountOf(timers, W, ended, R)
        /\ Held(W, timers, R, ended) = Held(timers, W, ended, R)
    BY <2>2, SwapSides
  <2>4. QED
    BY <1>3, <2>1, <2>2, <2>3 DEF R
<1>4. QED
  BY <1>1, <1>2, <1>3 DEF Placed

\* What was issued stays issued; the copy that a turn of the send creates is new.
LEMMA IssuedGrows ==
  ASSUME TypeInv, SendInv, NEW s \in sending, NEW k,
         \/ Issued(k) /\ k[1] \in Nat /\ k[2] \in Nat
         \/ k = <<generated, Redundancy - s.left + 1>>,
         FinishSend \/ \E nxt : NextCopy(s, nxt)
  PROVE  Issued(k)'
<1> USE DaemonAssumption
<1>1. generated \in Nat /\ s.left \in 1..Redundancy /\ \A u \in sending : u = s
  BY DEF TypeInv, TypeOK, SendTypeOK, SendType, SendInv
<1>2. CASE FinishSend
  BY <1>1, <1>2 DEF FinishSend, Issued
<1>3. ASSUME NEW nxt, NextCopy(s, nxt), ~FinishSend
      PROVE  Issued(k)'
  <2> DEFINE u == [s EXCEPT !.left = @ - 1, !.chosen = @ \cup {nxt}]
  <2>1. sending' = {u} /\ generated' = generated
    BY <1>3 DEF NextCopy
  <2>2. u.left = s.left - 1
    BY DEF TypeInv, TypeOK, SendTypeOK, SendType
  <2> HIDE DEF u
  <2>3. CASE k = <<generated, Redundancy - s.left + 1>>
    BY <1>1, <2>1, <2>2, <2>3 DEF Issued
  <2>4. CASE Issued(k) /\ k[1] \in Nat /\ k[2] \in Nat
    <3>1. CASE k[1] < generated
      BY <2>1, <3>1 DEF Issued
    <3>2. CASE k[1] = generated /\ k[2] <= Redundancy - s.left
      <4>1. k[2] <= Redundancy - u.left
        BY <1>1, <2>2, <2>4, <3>2
      <4>2. QED
        BY <2>1, <3>2, <4>1 DEF Issued
    <3>3. QED
      BY <1>1, <2>4, <3>1, <3>2 DEF Issued
  <2>5. QED
    BY <2>3, <2>4
<1>4. QED
  BY <1>2, <1>3

\* Keys are pairs of naturals.
LEMMA KeysType ==
  ASSUME TypeInv, NEW k \in Places
  PROVE  k[1] \in Nat /\ k[2] \in Nat
<1>1. \A t \in timers \cup wire : t.pkt \in PacketType
  BY DEF TypeInv, TypeOK, NetTypeOK, FlightType
<1>2. \A p \in ended \cup reached : p \in PacketType
  BY DEF TypeInv, TypeOK, DropTypeOK, DeliveryTypeOK
<1>3. \E p \in PacketType : k = CopyKey(p)
  BY <1>1, <1>2 DEF Places, Held
<1>4. QED
  BY <1>3 DEF CopyKey, PacketType

LEMMA PlaceInit == Init => PlaceInv
<1> SUFFICES ASSUME Init PROVE PlaceInv
  OBVIOUS
<1>1. timers = {} /\ wire = {} /\ ended = {} /\ reached = {} /\ created = 0 /\ lost = 0
  BY DEF Init
<1>2. IsFiniteSet({}) /\ Cardinality({}) = 0
  BY FS_EmptySet
<1>3. SumFunction(dropped) = 0
  <2>1. DOMAIN dropped = Reason /\ \A r \in Reason : dropped[r] = 0
    BY DEF Init
  <2>2. QED
    BY <2>1, FiniteReasons, SumZero DEF SumFunction
<1>4. QED
  BY <1>1, <1>2, <1>3 DEF PlaceInv, Places, Held, Distinct, AllFinite, CountOf

\* A turn of the send creates one copy, and it is somewhere.
LEMMA PlaceSend ==
  ASSUME TypeInv, SendInv, PlaceInv, NEW s \in sending, SendCopy(s) \/ SendBlocked(s)
  PROVE  PlaceInv'
<1> DEFINE i == Redundancy - s.left + 1
           p == NewPacket(s, i)
           k == <<generated, i>>
<1>1. p \in PacketType /\ CopyKey(p) = k /\ s.src \in Node
  BY CopyType DEF NewPacket, CopyKey, SendType
<1>2. s.left \in 1..Redundancy /\ generated \in Nat /\ \A u \in sending : u = s
  BY CopyType DEF TypeInv, TypeOK, SendTypeOK, SendType, SendInv
<1>3. k \notin Places
  <2>1. ~Issued(k)
    BY <1>2, DaemonAssumption DEF Issued
  <2>2. QED
    BY <2>1 DEF PlaceInv
<1>4. /\ UNCHANGED <<wire, reached, lost>> /\ created' = created + 1
      /\ FinishSend \/ \E nxt : NextCopy(s, nxt)
      /\ \/ \E nxt \in Node : Relay(p, s.src, s.chosen, nxt)
         \/ DropInTransit(p, s.src) \/ DropNoRoute(p, s.src, s.chosen)
  BY DEF SendCopy, SendBlocked, deliveryVars
<1> HIDE DEF p
<1>5. Placed(k)
  BY <1>1, <1>4, HandledIsPlaced
<1>6. dropped \in [Reason -> Nat] /\ created \in Nat /\ lost \in Nat
  BY DEF TypeInv, TypeOK, DropTypeOK, SendTypeOK
<1> HIDE DEF k
<1>7. /\ Distinct(timers', wire, ended', reached') /\ AllFinite(timers', wire, ended', reached')
      /\ CountOf(timers', wire, ended', reached') = CountOf(timers, wire, ended, reached) + 1
      /\ Cardinality(ended') = SumFunction(dropped')
      /\ Held(timers', wire, ended', reached') = Places \cup {k}
  BY <1>3, <1>5, <1>6, PlacedOnce DEF PlaceInv, Places
<1>8. \A x \in Places' : Issued(x)'
  <2>1. Places' = Places \cup {k}
    BY <1>4, <1>7 DEF Places
  <2>2. \A x \in Places : Issued(x) /\ x[1] \in Nat /\ x[2] \in Nat
    BY KeysType DEF PlaceInv
  <2>3. QED
    BY <1>4, <2>1, <2>2, IssuedGrows DEF k
<1>9. CountOf(timers, wire, ended, reached) \in Nat
  BY FS_CardinalityType DEF PlaceInv, AllFinite, CountOf
<1>10. created' = CountOf(timers', wire', ended', reached') + lost'
  BY <1>4, <1>6, <1>7, <1>9 DEF PlaceInv
<1>11. QED
  BY <1>4, <1>7, <1>8, <1>10 DEF PlaceInv

\* A packet datagram received leaves the wire, and its copy is somewhere else.
LEMMA PlaceReceive ==
  ASSUME TypeInv, PlaceInv, NEW w \in wire, ReceivePacket(w)
  PROVE  PlaceInv'
<1> DEFINE W == wire \ {w}
           k == CopyKey(w.pkt)
<1>1. w.pkt \in PacketType /\ w.to \in Node
  BY DEF TypeInv, TypeOK, NetTypeOK, FlightType
<1>2. wire' = W /\ UNCHANGED <<created, lost, generated, sending>>
  BY DEF ReceivePacket, sendVars
<1>3. Placed(k)
  <2>1. CASE Accept(w.pkt, receiptWire)
    <3>1. reached' = reached \cup {w.pkt} /\ UNCHANGED <<timers, ended, dropped>>
      BY <2>1 DEF Accept
    <3>2. QED
      BY <3>1 DEF Placed
  <2>2. CASE RejectSignature(w.pkt, receiptWire)
    <3>1. /\ DropCopy(w.pkt, "bad_signature") /\ UNCHANGED <<timers, reached>>
          /\ "bad_signature" \in Reason
      BY <2>2 DEF RejectSignature, deliveryVars, Reason
    <3>2. QED
      BY <1>1, <3>1, DropPlaces
  <2>3. CASE /\ \/ \E nxt \in Node : Relay(w.pkt, w.to, {}, nxt)
                \/ DropInTransit(w.pkt, w.to)
                \/ DropNoRoute(w.pkt, w.to, {})
             /\ UNCHANGED reached
    BY <1>1, <2>3, HandledIsPlaced
  <2>4. QED
    BY <2>1, <2>2, <2>3 DEF ReceivePacket, deliveryVars
<1>4. dropped \in [Reason -> Nat] /\ created \in Nat /\ lost \in Nat
  BY DEF TypeInv, TypeOK, DropTypeOK, SendTypeOK
<1>5. /\ Distinct(timers, W, ended, reached) /\ AllFinite(timers, W, ended, reached)
      /\ CountOf(timers, W, ended, reached) + 1 = CountOf(timers, wire, ended, reached)
      /\ k \notin Held(timers, W, ended, reached)
      /\ Held(timers, W, ended, reached) \cup {k} \subseteq Places
  BY TakeWire DEF PlaceInv, Places
<1> HIDE DEF k, W
<1>6. /\ Distinct(timers', W, ended', reached') /\ AllFinite(timers', W, ended', reached')
      /\ CountOf(timers', W, ended', reached') = CountOf(timers, W, ended, reached) + 1
      /\ Cardinality(ended') = SumFunction(dropped')
      /\ Held(timers', W, ended', reached') = Held(timers, W, ended, reached) \cup {k}
  BY <1>3, <1>4, <1>5, PlacedOnce DEF PlaceInv
<1>7. CountOf(timers, W, ended, reached) \in Nat
  BY <1>5, FS_CardinalityType DEF AllFinite, CountOf
<1>8. created' = CountOf(timers', wire', ended', reached') + lost'
  BY <1>2, <1>4, <1>5, <1>6, <1>7 DEF PlaceInv
<1>9. \A x \in Places' : Issued(x)'
  BY <1>2, <1>5, <1>6 DEF PlaceInv, Places, Issued
<1>10. QED
  BY <1>2, <1>6, <1>8, <1>9 DEF PlaceInv

\* The network and the timers move, lose or alter copies, and make none.
LEMMA PlaceNetwork ==
  ASSUME TypeInv, PlaceInv,
         \/ \E t \in timers : SendNow(t)
         \/ \E w \in wire : LosePacket(w) \/ CorruptPacket(w)
  PROVE  PlaceInv'
<1>1. created \in Nat /\ lost \in Nat
  BY DEF TypeInv, TypeOK, SendTypeOK
<1>2. UNCHANGED <<created, ended, dropped, reached, generated, sending>>
  BY DEF SendNow, LosePacket, CorruptPacket, dropVars, deliveryVars, sendVars
<1>3. ASSUME Distinct(timers', wire', ended, reached), AllFinite(timers', wire', ended, reached),
             CountOf(timers', wire', ended, reached) + lost'
               = CountOf(timers, wire, ended, reached) + lost,
             Held(timers', wire', ended, reached) \subseteq Places
      PROVE  PlaceInv'
  BY <1>2, <1>3 DEF PlaceInv, Places, Issued
<1>4. ASSUME NEW t \in timers, SendNow(t)
      PROVE  PlaceInv'
  <2> DEFINE T == timers \ {t}
  <2>1. /\ Distinct(wire, timers, reached, ended) /\ AllFinite(wire, timers, reached, ended)
        /\ CountOf(wire, timers, reached, ended) = CountOf(timers, wire, ended, reached)
        /\ Held(wire, timers, reached, ended) = Places
    BY SwapSides DEF PlaceInv, Places
  <2>2. /\ Distinct(wire, T, reached, ended) /\ AllFinite(wire, T, reached, ended)
        /\ CountOf(wire, T, reached, ended) + 1 = CountOf(wire, timers, reached, ended)
        /\ CopyKey(t.pkt) \notin Held(wire, T, reached, ended)
        /\ Held(wire, T, reached, ended) \subseteq Held(wire, timers, reached, ended)
        /\ CopyKey(t.pkt) \in Held(wire, timers, reached, ended)
    BY <2>1, TakeWire
  <2>3. timers' = T
    BY <1>4 DEF SendNow
  <2>4. CountOf(wire, T, reached, ended) \in Nat
    BY <2>2, FS_CardinalityType DEF AllFinite, CountOf
  <2> HIDE DEF T
  <2>5. CASE Open
    <3> DEFINE W == wire \cup {t}
    <3>1. wire' = W /\ lost' = lost
      BY <1>4, <2>5 DEF SendNow
    <3>2. /\ Distinct(W, T, reached, ended) /\ AllFinite(W, T, reached, ended)
          /\ CountOf(W, T, reached, ended) = CountOf(wire, T, reached, ended) + 1
          /\ Held(W, T, reached, ended) = Held(wire, T, reached, ended) \cup {CopyKey(t.pkt)}
      <4>1. /\ Distinct(wire, T, reached, ended) /\ AllFinite(wire, T, reached, ended)
            /\ CopyKey(t.pkt) \notin Held(wire, T, reached, ended)
        BY <2>2
      <4>2. Held(W, T, reached, ended) = Held(wire, T, reached, ended) \cup {CopyKey(t.pkt)}
        BY DEF Held
      <4>3. QED
        BY <4>1, <4>2, PutTimer DEF W
    <3> HIDE DEF W
    <3>3. /\ Distinct(T, W, ended, reached) /\ AllFinite(T, W, ended, reached)
          /\ CountOf(T, W, ended, reached) = CountOf(W, T, reached, ended)
          /\ Held(T, W, ended, reached) = Held(W, T, reached, ended)
      BY <3>2, SwapSides
    <3>4. QED
      BY <1>3, <2>1, <2>2, <2>3, <2>4, <3>1, <3>2, <3>3
  <2>6. CASE ~Open
    <3>1. wire' = wire /\ lost' = lost + 1
      BY <1>4, <2>6 DEF SendNow
    <3>2. /\ Distinct(T, wire, ended, reached) /\ AllFinite(T, wire, ended, reached)
          /\ CountOf(T, wire, ended, reached) = CountOf(wire, T, reached, ended)
          /\ Held(T, wire, ended, reached) = Held(wire, T, reached, ended)
      BY <2>2, SwapSides
    <3>3. QED
      BY <1>1, <1>3, <2>1, <2>2, <2>3, <2>4, <3>1, <3>2
  <2>7. QED
    BY <2>5, <2>6
<1>5. ASSUME NEW w \in wire, LosePacket(w) \/ CorruptPacket(w)
      PROVE  PlaceInv'
  <2> DEFINE W == wire \ {w}
  <2>1. /\ Distinct(timers, W, ended, reached) /\ AllFinite(timers, W, ended, reached)
        /\ CountOf(timers, W, ended, reached) + 1 = CountOf(timers, wire, ended, reached)
        /\ CopyKey(w.pkt) \notin Held(timers, W, ended, reached)
        /\ Held(timers, W, ended, reached) \subseteq Places
        /\ CopyKey(w.pkt) \in Places
    BY TakeWire DEF PlaceInv, Places
  <2>2. timers' = timers
    BY <1>5 DEF LosePacket, CorruptPacket
  <2>3. CountOf(timers, W, ended, reached) \in Nat
    BY <2>1, FS_CardinalityType DEF AllFinite, CountOf
  <2>4. CASE LosePacket(w)
    <3>1. wire' = W /\ lost' = lost + 1
      BY <2>4 DEF LosePacket
    <3> HIDE DEF W
    <3>2. QED
      BY <1>1, <1>3, <2>1, <2>2, <2>3, <3>1
  <2>5. CASE CorruptPacket(w)
    <3> DEFINE u == [w EXCEPT !.pkt.intact = FALSE]
    <3>1. wire' = W \cup {u} /\ lost' = lost
      BY <2>5 DEF CorruptPacket
    <3>2. CopyKey(u.pkt) = CopyKey(w.pkt)
      <4>1. w.pkt \in PacketType /\ w \in FlightType
        BY DEF TypeInv, TypeOK, NetTypeOK, FlightType
      <4>2. QED
        BY <4>1 DEF CopyKey, PacketType, FlightType
    <3> HIDE DEF u, W
    <3>3. /\ Distinct(W, timers, reached, ended) /\ AllFinite(W, timers, reached, ended)
          /\ CountOf(W, timers, reached, ended) = CountOf(timers, W, ended, reached)
          /\ Held(W, timers, reached, ended) = Held(timers, W, ended, reached)
      BY <2>1, SwapSides
    <3> DEFINE V == W \cup {u}
    <3>4. CopyKey(u.pkt) \notin Held(W, timers, reached, ended)
      BY <2>1, <3>2, <3>3
    <3>5. /\ Distinct(V, timers, reached, ended) /\ AllFinite(V, timers, reached, ended)
          /\ CountOf(V, timers, reached, ended) = CountOf(W, timers, reached, ended) + 1
          /\ Held(V, timers, reached, ended)
               = Held(W, timers, reached, ended) \cup {CopyKey(u.pkt)}
      <4>1. Distinct(W, timers, reached, ended) /\ AllFinite(W, timers, reached, ended)
        BY <3>3
      <4>2. Held(V, timers, reached, ended)
              = Held(W, timers, reached, ended) \cup {CopyKey(u.pkt)}
        BY DEF Held
      <4>3. V = W \cup {u}
        OBVIOUS
      <4> HIDE DEF V
      <4>4. /\ Distinct(W \cup {u}, timers, reached, ended)
            /\ AllFinite(W \cup {u}, timers, reached, ended)
            /\ CountOf(W \cup {u}, timers, reached, ended)
                 = CountOf(W, timers, reached, ended) + 1
        BY <3>4, <4>1, PutTimer
      <4>5. QED
        BY <4>2, <4>3, <4>4
    <3> HIDE DEF V
    <3>6. /\ Distinct(timers, V, ended, reached) /\ AllFinite(timers, V, ended, reached)
          /\ CountOf(timers, V, ended, reached) = CountOf(V, timers, reached, ended)
          /\ Held(timers, V, ended, reached) = Held(V, timers, reached, ended)
      BY <3>5, SwapSides
    <3>7. wire' = V
      BY <3>1 DEF V
    <3>8. CountOf(timers, V, ended, reached) + lost'
            = CountOf(timers, wire, ended, reached) + lost
      BY <1>1, <2>1, <2>3, <3>1, <3>3, <3>5, <3>6
    <3>9. QED
      BY <1>3, <2>1, <2>2, <3>2, <3>3, <3>5, <3>6, <3>7, <3>8
  <2>6. QED
    BY <1>5, <2>4, <2>5
<1>6. QED
  BY <1>4, <1>5

LEMMA PlaceStep == TypeInv /\ SendInv /\ PlaceInv /\ [Next]_vars => PlaceInv'
<1> SUFFICES ASSUME TypeInv, SendInv, PlaceInv, [Next]_vars PROVE PlaceInv'
  OBVIOUS
<1>1. CASE \E s \in sending : SendCopy(s) \/ SendBlocked(s)
  BY <1>1, PlaceSend
<1>2. CASE \E w \in wire : ReceivePacket(w)
  BY <1>2, PlaceReceive
<1>3. CASE \/ \E t \in timers : SendNow(t)
           \/ \E w \in wire : LosePacket(w) \/ CorruptPacket(w)
  BY <1>3, PlaceNetwork
<1>4. CASE \E f \in Flows : StartSend(f[1], f[2])
  <2>1. /\ sending = {} /\ generated' = generated
        /\ UNCHANGED <<timers, wire, ended, reached, dropped, created, lost>>
    BY <1>4 DEF StartSend, Idle, netVars, deliveryVars, dropVars
  <2>2. \A k \in Places' : Issued(k)'
    BY <2>1 DEF PlaceInv, Places, Issued
  <2>3. QED
    BY <2>1, <2>2 DEF PlaceInv
<1>5. CASE \/ \E r \in receiptWire : ReceiveReceipt(r) \/ LoseReceipt(r) \/ CorruptReceipt(r)
           \/ SweepTimeouts \/ Perturb \/ EndTraffic \/ CancelTasks \/ CloseTransports
           \/ FlushAndSave \/ Returned \/ UNCHANGED vars
  <2>1. UNCHANGED <<timers, wire, deliveryVars, dropVars, sendVars, lost>>
    BY <1>5 DEF ReceiveReceipt, LoseReceipt, CorruptReceipt, SweepTimeouts, Perturb,
       EndTraffic, CancelTasks, CloseTransports, FlushAndSave, Returned, vars, netVars
  <2>2. QED
    BY <2>1 DEF deliveryVars, dropVars, sendVars, PlaceInv, Places, Issued
<1>6. QED
  BY <1>1, <1>2, <1>3, <1>4, <1>5 DEF Next

\* Between two sends and within one, the copies created are those the books imply: at
\* most Redundancy for each packet, and one more than the extra copies booked.
TallyInv ==
  /\ sending = {} => /\ generated + redundantCopies <= created
                     /\ created <= Redundancy * generated
  /\ \A s \in sending :
       /\ generated + redundantCopies + (IF s.left < Redundancy THEN 1 ELSE 0) <= created
       /\ created <= Redundancy * generated + (Redundancy - s.left)

LEMMA OneMorePacket ==
  ASSUME NEW r \in Nat, NEW g \in Nat
  PROVE  r * (g + 1) = r * g + r /\ r * g \in Nat
OBVIOUS

LEMMA TallyInit == Init => TallyInv
BY DaemonAssumption DEF Init, TallyInv

LEMMA TallySend ==
  ASSUME TypeInv, SendInv, TallyInv, NEW s \in sending, SendCopy(s) \/ SendBlocked(s)
  PROVE  TallyInv'
<1> DEFINE bound == Redundancy * generated
<1>1. /\ s.left \in 1..Redundancy /\ generated \in Nat /\ created \in Nat
      /\ redundantCopies \in Nat /\ Redundancy \in Nat
  BY CopyType, DaemonAssumption DEF TypeInv, TypeOK, SendTypeOK, SendType
<1>2. bound \in Nat /\ Redundancy * (generated + 1) = bound + Redundancy
  BY <1>1, OneMorePacket
<1>3. /\ generated + redundantCopies + (IF s.left < Redundancy THEN 1 ELSE 0) <= created
      /\ created <= bound + (Redundancy - s.left)
  BY DEF TallyInv
<1>4. created' = created + 1
  BY DEF SendCopy, SendBlocked
<1>5. CASE /\ FinishSend
           /\ \/ redundantCopies' = redundantCopies
              \/ redundantCopies' = redundantCopies + (IF s.left < Redundancy THEN 1 ELSE 0)
  <2>1. sending' = {} /\ generated' = generated + 1
    BY <1>5 DEF FinishSend
  <2>2. generated' + redundantCopies' <= created'
    BY <1>1, <1>3, <1>4, <1>5, <2>1
  <2> HIDE DEF bound
  <2>3. created' <= bound + Redundancy
    BY <1>1, <1>2, <1>3, <1>4
  <2>4. QED
    BY <1>2, <2>1, <2>2, <2>3 DEF TallyInv
<1>6. ASSUME NEW nxt, NextCopy(s, nxt), s.left # 1, SendCopy(s)
      PROVE  TallyInv'
  <2> DEFINE u == [s EXCEPT !.left = @ - 1, !.chosen = @ \cup {nxt}]
  <2>1. sending' = {u} /\ generated' = generated
    BY <1>6 DEF NextCopy
  <2>2. u.left = s.left - 1
    BY DEF TypeInv, TypeOK, SendTypeOK, SendType
  <2>3. redundantCopies' = redundantCopies + (IF Redundancy - s.left + 1 > 1 THEN 1 ELSE 0)
    BY <1>6 DEF SendCopy, IsExtraCopy
  <2> HIDE DEF u, bound
  <2>4. generated + redundantCopies' + 1 <= created' /\ u.left < Redundancy
    BY <1>1, <1>3, <1>4, <2>2, <2>3
  <2>5. created' <= bound + (Redundancy - u.left)
    BY <1>1, <1>2, <1>3, <1>4, <2>2
  <2>6. QED
    BY <2>1, <2>4, <2>5 DEF TallyInv, bound
<1>7. CASE SendBlocked(s)
  BY <1>5, <1>7 DEF SendBlocked
<1>8. CASE SendCopy(s)
  <2>1. PICK nxt : NextCopy(s, nxt)
    BY <1>8 DEF SendCopy
  <2>2. redundantCopies' = redundantCopies + (IF s.left < Redundancy THEN 1 ELSE 0)
    BY <1>1, <1>8 DEF SendCopy, IsExtraCopy
  <2>3. CASE s.left = 1
    BY <1>5, <1>8, <2>1, <2>2, <2>3 DEF NextCopy
  <2>4. CASE s.left # 1
    BY <1>6, <1>8, <2>1, <2>4
  <2>5. QED
    BY <2>3, <2>4
<1>9. QED
  BY <1>7, <1>8

LEMMA TallyStep == TypeInv /\ SendInv /\ TallyInv /\ [Next]_vars => TallyInv'
<1> SUFFICES ASSUME TypeInv, SendInv, TallyInv, [Next]_vars PROVE TallyInv'
  OBVIOUS
<1>1. CASE \E s \in sending : SendCopy(s) \/ SendBlocked(s)
  BY <1>1, TallySend
<1>2. CASE \E f \in Flows : StartSend(f[1], f[2])
  <2>1. PICK f \in Flows : StartSend(f[1], f[2])
    BY <1>2
  <2> DEFINE u == [src |-> f[1], dst |-> f[2], left |-> Redundancy, chosen |-> {}]
  <2>2. /\ sending = {} /\ sending' = {u} /\ u.left = Redundancy
        /\ UNCHANGED <<generated, redundantCopies, created>>
    BY <2>1 DEF StartSend, Idle
  <2> HIDE DEF u
  <2>3. generated \in Nat /\ redundantCopies \in Nat /\ Redundancy \in Nat /\ created \in Nat
        /\ Redundancy * generated \in Nat
    BY DaemonAssumption, OneMorePacket DEF TypeInv, TypeOK, SendTypeOK
  <2>4. QED
    BY <2>2, <2>3 DEF TallyInv
<1>3. CASE \/ \E t \in timers : SendNow(t)
           \/ \E w \in wire : ReceivePacket(w) \/ LosePacket(w) \/ CorruptPacket(w)
           \/ \E r \in receiptWire : ReceiveReceipt(r) \/ LoseReceipt(r) \/ CorruptReceipt(r)
           \/ SweepTimeouts \/ Perturb \/ EndTraffic \/ CancelTasks \/ CloseTransports
           \/ FlushAndSave \/ Returned \/ UNCHANGED vars
  <2>1. UNCHANGED sendVars
    BY <1>3 DEF SendNow, ReceivePacket, LosePacket, CorruptPacket, ReceiveReceipt,
       LoseReceipt, CorruptReceipt, SweepTimeouts, Perturb, EndTraffic, CancelTasks,
       CloseTransports, FlushAndSave, Returned, vars
  <2>2. QED
    BY <2>1 DEF sendVars, TallyInv
<1>4. QED
  BY <1>1, <1>2, <1>3 DEF Next

LEMMA ConservationImplies ==
  ASSUME PlaceInv, TallyInv
  PROVE  CopyConservation
BY DEF PlaceInv, TallyInv, CopyConservation, CountOf, Idle

\* However copies race, are dropped, altered or lost, each created copy is accounted for
\* exactly once, and the drop statistics are the copies dropped.
THEOREM CopyConservationHolds == Spec => []CopyConservation
<1>1. Init => PlaceInv /\ TallyInv
  BY PlaceInit, TallyInit
<1>2. TypeInv /\ RouteInv /\ (PlaceInv /\ TallyInv) /\ [Next]_vars => (PlaceInv /\ TallyInv)'
  BY PlaceStep, TallyStep DEF RouteInv
<1>3. TypeInv /\ RouteInv /\ [Next]_vars => RouteInv'
  BY RouteStep
<1>4. PlaceInv /\ TallyInv => CopyConservation
  BY ConservationImplies
<1>5. QED
  BY <1>1, <1>2, <1>3, <1>4, RouteInit, TypeCorrect, PTL DEF Spec

-----------------------------------------------------------------------------
(* Credit reaches every hop *)

\* A copy of the same packet as copy c that arrived crossed the link from n to nxt.
Crossed(c, n, nxt) ==
  \E q \in reached : /\ q.pid = c[1] /\ q.copy # c[2]
                     /\ \E k \in 1..Len(q.path) : EdgeAt(q, k, n, nxt)

\* The hop of copy c from n to nxt waits for its receipt, or that of a sibling came first.
Awaited(c, n, nxt) ==
  \/ <<n, <<c[1], nxt>>>> \in ArmedKeys
  \/ <<n, c[1], nxt, "confirmed">> \in ConfirmedVerdicts /\ Crossed(c, n, nxt)

\* Where the hop at position i of a path leads when the copy is on its way to to.
HopEnd(path, to, i) == IF i < Len(path) THEN path[i + 1] ELSE to

HopsAwaited(c, path, to) ==
  \A i \in 1..Len(path) : Awaited(c, path[i], HopEnd(path, to, i))

UnderWay(t) == HopsAwaited(CopyKey(t.pkt), t.pkt.path, t.to)

\* r is the receipt of p, stands at position k, and so far no hop before was resolved.
Standing(r, p, k) ==
  /\ Returning(r, p, k) /\ r.copy = p.copy
  /\ \A i \in 1..k : Awaited(CopyKey(p), p.path[i], EdgeEnd(p, i))

Backed(r) == \E p \in reached : \E k \in Nat : Standing(r, p, k)

\* The receipt of p came as far as position k: it is there, or stopped there because a
\* sibling's had been there before, or has come home.
CameTo(p, k) ==
  /\ CreditedFrom(p, k + 1)
  /\ \/ k = 0
     \/ \E r \in receiptWire : Returning(r, p, k) /\ r.copy = p.copy
     \/ /\ Confirmed(p, k) \in ConfirmedVerdicts
        /\ Crossed(CopyKey(p), p.path[k], EdgeEnd(p, k))

Paid(p) == \E k \in 0..Len(p.path) : CameTo(p, k)

\* Nobody leaves, and the transports close on an empty network.
CalmInv == offline = {} /\ (~Open => Quiet)

CreditInv ==
  /\ \A t \in timers \cup wire : UnderWay(t)
  /\ \A r \in receiptWire : r.intact /\ Backed(r)
  /\ \A r, s \in receiptWire : CopyKey(r) = CopyKey(s) => r = s
  /\ \A p \in reached : Paid(p)

LEMMA CalmInit == Init => CalmInv
BY DEF Init, CalmInv, Open

LEMMA CalmStep ==
  ASSUME KindNetwork, TypeInv, SendInv, CalmInv, [Next]_vars
  PROVE  CalmInv'
<1>1. "churn" \notin Faults /\ "corrupt" \notin Faults /\ "receipt_loss" \notin Faults /\ Timely
  BY DEF KindNetwork
<1>2. offline' = {}
  <2>1. offline' = offline \/ Perturb
    BY DEF Next, vars, StartSend, SendCopy, SendBlocked, SendNow, ReceivePacket,
       ReceiveReceipt, SweepTimeouts, EndTraffic, CancelTasks, CloseTransports,
       FlushAndSave, LosePacket, LoseReceipt, CorruptPacket, CorruptReceipt, Returned
  <2>2. QED
    BY <1>1, <2>1 DEF Perturb, CalmInv
<1>3. CASE phase' = phase /\ Open
  BY <1>2, <1>3 DEF CalmInv, Open
<1>4. CASE ~Open
  <2>1. timers = {} /\ wire = {} /\ receiptWire = {} /\ sending = {} /\ phase # "traffic"
    BY <1>4 DEF CalmInv, Quiet, Open, SendInv
  <2>2. UNCHANGED netVars
    BY <1>1, <2>1 DEF Next, vars, StartSend, SweepTimeouts, Perturb, EndTraffic, CancelTasks,
       CloseTransports, FlushAndSave, Returned
  <2>3. Quiet'
    BY <2>1, <2>2 DEF netVars, Quiet
  <2>4. QED
    BY <1>2, <2>3 DEF CalmInv
<1>5. CASE EndTraffic \/ CancelTasks
  BY <1>2, <1>5 DEF EndTraffic, CancelTasks, CalmInv, Open
<1>6. CASE CloseTransports
  <2>1. Quiet /\ UNCHANGED netVars
    BY <1>1, <1>6 DEF CloseTransports
  <2>2. Quiet'
    BY <2>1 DEF netVars, Quiet
  <2>3. QED
    BY <1>2, <2>2 DEF CalmInv
<1>7. CASE FlushAndSave
  BY <1>4, <1>7 DEF FlushAndSave, Open
<1>8. QED
  BY <1>3, <1>4, <1>5, <1>6, <1>7 DEF Next, vars, StartSend, SendCopy, SendBlocked, SendNow,
     ReceivePacket, ReceiveReceipt, SweepTimeouts, Perturb, LosePacket, LoseReceipt,
     CorruptPacket, CorruptReceipt, Returned

\* Nothing that was armed, credited or accepted is forgotten.
Grows ==
  /\ ArmedKeys \subseteq ArmedKeys'
  /\ ConfirmedVerdicts \subseteq ConfirmedVerdicts'
  /\ reached \subseteq reached'

LEMMA CrossedStays ==
  ASSUME reached \subseteq reached', NEW c, NEW n, NEW nxt, Crossed(c, n, nxt)
  PROVE  Crossed(c, n, nxt)'
BY DEF Crossed, EdgeAt, EdgeEnd

LEMMA AwaitedStays ==
  ASSUME Grows, NEW c, NEW n, NEW nxt, Awaited(c, n, nxt)
  PROVE  Awaited(c, n, nxt)'
BY CrossedStays DEF Grows, Awaited

LEMMA UnderWayStays ==
  ASSUME Grows, NEW t, UnderWay(t)
  PROVE  UnderWay(t)'
BY AwaitedStays DEF UnderWay, HopsAwaited, HopEnd, CopyKey

LEMMA CreditedStays ==
  ASSUME ConfirmedVerdicts \subseteq ConfirmedVerdicts', NEW p, NEW k, CreditedFrom(p, k)
  PROVE  CreditedFrom(p, k)'
BY DEF CreditedFrom, Confirmed, EdgeEnd

LEMMA BackedStays ==
  ASSUME Grows, NEW r, Backed(r)
  PROVE  Backed(r)'
<1>1. PICK p \in reached, k \in Nat : Standing(r, p, k)
  BY DEF Backed
<1>2. Returning(r, p, k)'
  BY <1>1, CreditedStays DEF Standing, Returning, Grows
<1>3. \A i \in 1..k : Awaited(CopyKey(p), p.path[i], EdgeEnd(p, i))'
  BY <1>1, AwaitedStays DEF Standing, EdgeEnd, CopyKey
<1>4. Standing(r, p, k)'
  BY <1>1, <1>2, <1>3 DEF Standing, EdgeEnd, CopyKey
<1>5. p \in reached'
  BY DEF Grows
<1>6. QED
  BY <1>4, <1>5 DEF Backed

\* A copy stays paid unless the receipt that came for it is gone.
LEMMA PaidStays ==
  ASSUME reached \subseteq reached', ConfirmedVerdicts \subseteq ConfirmedVerdicts',
         NEW p, NEW k \in 0..Len(p.path), CameTo(p, k),
         \A r \in receiptWire : Returning(r, p, k) /\ r.copy = p.copy => r \in receiptWire'
  PROVE  Paid(p)'
<1>1. CreditedFrom(p, k + 1)'
  BY CreditedStays DEF CameTo
<1>2. CASE k = 0
  BY <1>1, <1>2 DEF Paid, CameTo
<1>3. ASSUME NEW r \in receiptWire, Returning(r, p, k), r.copy = p.copy
      PROVE  Paid(p)'
  <2>1. Returning(r, p, k)' /\ r \in receiptWire'
    BY <1>1, <1>3 DEF Returning
  <2>2. QED
    BY <1>1, <1>3, <2>1 DEF Paid, CameTo
<1>4. CASE /\ Confirmed(p, k) \in ConfirmedVerdicts
           /\ Crossed(CopyKey(p), p.path[k], EdgeEnd(p, k))
  <2>1. Crossed(CopyKey(p), p.path[k], EdgeEnd(p, k))'
    BY <1>4, CrossedStays DEF CopyKey, EdgeEnd
  <2>2. (Confirmed(p, k) \in ConfirmedVerdicts)'
    BY <1>4 DEF Confirmed, EdgeEnd
  <2>3. QED
    BY <1>1, <2>1, <2>2 DEF Paid, CameTo
<1>5. QED
  BY <1>2, <1>3, <1>4 DEF CameTo

\* Steps that move, drop or add flights whose hops are armed and touch no receipt.
LEMMA FlightsChange ==
  ASSUME CreditInv, Grows, UNCHANGED <<receiptWire, reached>>,
         \A t \in (timers \cup wire)' : t \in timers \cup wire \/ UnderWay(t)'
  PROVE  CreditInv'
<1>1. \A t \in (timers \cup wire)' : UnderWay(t)'
  BY UnderWayStays DEF CreditInv
<1>2. \A r \in receiptWire' : r.intact /\ Backed(r)'
  BY BackedStays DEF CreditInv
<1>3. \A r, s \in receiptWire' : CopyKey(r) = CopyKey(s) => r = s
  BY DEF CreditInv
<1>4. \A p \in reached' : Paid(p)'
  <2> SUFFICES ASSUME NEW p \in reached PROVE Paid(p)'
    OBVIOUS
  <2>1. PICK k \in 0..Len(p.path) : CameTo(p, k)
    BY DEF CreditInv, Paid
  <2>2. QED
    BY <2>1, PaidStays DEF Grows
<1>5. QED
  BY <1>1, <1>2, <1>3, <1>4 DEF CreditInv, CopyKey

\* A copy that is relayed has the hop to where it was armed, and now the next one.
LEMMA RelayAwaited ==
  ASSUME KindNetwork, TypeInv, NEW p \in PacketType, NEW n \in Node, NEW nxt \in Node,
         NEW exclude, Relay(p, n, exclude, nxt), HopsAwaited(CopyKey(p), p.path, n),
         UNCHANGED reached
  PROVE  Grows /\ \A t \in timers' : t \in timers \/ UnderWay(t)'
<1> DEFINE v == Visit(p, n, exclude)
           u == Touch(v, nxt)
           f == Forwarded(u, n)
<1>1. CopyKey(v) = CopyKey(p) /\ v.path = p.path /\ v \in PacketType
  BY VisitType DEF CopyKey, Visit, PacketType
<1> HIDE DEF v
<1>2. u \in PacketType
  BY <1>1, TouchType
<1>3. CopyKey(u) = CopyKey(p) /\ u.path = p.path
  BY <1>1 DEF CopyKey, Touch, PacketType
<1> HIDE DEF u
<1>4. CopyKey(f) = CopyKey(p) /\ f.path = Append(p.path, n) /\ p.path \in Seq(Node)
  BY <1>2, <1>3 DEF CopyKey, Forwarded, PacketType
<1>5. v.pid = p.pid
  BY DEF Visit, PacketType, v
<1>6. Forward(v, n, nxt) /\ ConfirmedVerdicts' = ConfirmedVerdicts
  BY RelayConfirms DEF Relay, v
<1>7. pending \in [Node -> SUBSET (Nat \X Node)] /\ Receipts
  BY DEF TypeInv, TypeOK, VerdictTypeOK, KindNetwork
<1>8. CASE ForwardToOffline(v, n, nxt) \/ ForwardLost(v, n, nxt)
  BY <1>6, <1>8 DEF ForwardToOffline, ForwardLost, Grows, ArmedKeys
<1>9. CASE ForwardSent(v, n, nxt)
  <2> DEFINE key == <<p.pid, nxt>>
             t == [pkt |-> f, to |-> nxt]
  <2>1. pending' = [pending EXCEPT ![n] = @ \cup {key}] /\ timers' = timers \cup {t}
    BY <1>5, <1>7, <1>9 DEF ForwardSent, ArmVerdict, PendingKey, u
  <2>2. ArmedKeys' = ArmedKeys \cup {<<n, key>>}
    BY <1>7, <2>1, ArmKeys
  <2>3. Grows
    BY <1>6, <2>2 DEF Grows
  <2> HIDE DEF f
  <2>4. UnderWay(t)'
    <3> SUFFICES ASSUME NEW i \in 1..Len(f.path)
                 PROVE  Awaited(CopyKey(p), f.path[i], HopEnd(f.path, nxt, i))'
      BY <1>4 DEF UnderWay, HopsAwaited, HopEnd, CopyKey
    <3>1. Len(f.path) = Len(p.path) + 1 /\ Len(p.path) \in Nat
      BY <1>4
    <3>2. CASE i \in 1..Len(p.path)
      <4>1. f.path[i] = p.path[i] /\ HopEnd(f.path, nxt, i) = HopEnd(p.path, n, i)
        <5>1. f.path[i] = p.path[i] /\ i < Len(f.path)
          BY <1>4, <3>1, <3>2
        <5>2. CASE i < Len(p.path)
          <6>1. i + 1 \in 1..Len(p.path)
            BY <3>1, <3>2, <5>2
          <6>2. f.path[i + 1] = p.path[i + 1]
            BY <1>4, <6>1
          <6>3. QED
            BY <5>1, <5>2, <6>2 DEF HopEnd
        <5>3. CASE i = Len(p.path)
          <6>1. f.path[i + 1] = n
            BY <1>4, <5>3
          <6>2. QED
            BY <5>1, <5>3, <6>1 DEF HopEnd
        <5>4. QED
          BY <3>1, <3>2, <5>2, <5>3
      <4>2. Awaited(CopyKey(p), p.path[i], HopEnd(p.path, n, i))
        BY <3>2 DEF HopsAwaited
      <4>3. Awaited(CopyKey(p), p.path[i], HopEnd(p.path, n, i))'
        BY <2>3, <4>2, AwaitedStays DEF CopyKey, HopEnd
      <4>4. QED
        BY <4>1, <4>3 DEF HopEnd, CopyKey
    <3>3. CASE i = Len(f.path)
      <4>1. f.path[i] = n /\ HopEnd(f.path, nxt, i) = nxt
        BY <1>4, <3>1, <3>3 DEF HopEnd
      <4>2. <<n, key>> \in ArmedKeys' /\ key = <<CopyKey(p)[1], nxt>>
        BY <2>2 DEF CopyKey
      <4>3. QED
        BY <4>1, <4>2 DEF Awaited, CopyKey
    <3>4. QED
      BY <3>1, <3>2, <3>3
  <2>5. QED
    BY <2>1, <2>3, <2>4
<1>10. QED
  BY <1>6, <1>8, <1>9 DEF Forward

\* A copy that arrives sends its receipt back, whether or not a sibling came first.
LEMMA AcceptCredits ==
  ASSUME KindNetwork, TypeInv, PathShape, PlaceInv, CalmInv, CreditInv,
         NEW w \in wire, ReceivePacket(w), w.to = w.pkt.dst, Accept(w.pkt, receiptWire)
  PROVE  CreditInv'
<1> DEFINE p == w.pkt
           m == Len(p.path)
           r == [pid |-> p.pid, copy |-> p.copy, src |-> p.src, dst |-> p.dst,
                 path |-> p.path, to |-> p.path[Len(p.path)], intact |-> TRUE]
<1>1. p.path \in Seq(Node) /\ p.path # <<>>
  BY DEF TypeInv, TypeOK, NetTypeOK, FlightType, PacketType, PathShape
<1>2. m \in Nat /\ m \in 1..Len(p.path)
  BY <1>1
<1>3. /\ reached' = reached \cup {p} /\ timers' = timers /\ wire' = wire \ {w}
      /\ UNCHANGED verdictVars
  BY DEF ReceivePacket, Accept
<1>4. receiptWire' = receiptWire \cup {r}
  BY <1>1 DEF Accept, EmittedReceipt, SentReceipt, ReceivePacket, CalmInv, KindNetwork
<1>5. Grows
  BY <1>3 DEF Grows, verdictVars, ArmedKeys, ConfirmedVerdicts
<1>6. r.pid = p.pid /\ r.copy = p.copy /\ r.path = p.path /\ r.dst = p.dst
      /\ r.to = p.path[m] /\ r.intact = TRUE
  OBVIOUS
<1> HIDE DEF r
<1>7. Returning(r, p, m)'
  <2>1. CreditedFrom(p, m + 1)'
    BY <1>2 DEF CreditedFrom
  <2>2. QED
    BY <1>2, <1>6, <2>1 DEF Returning
<1>8. \A i \in 1..m : Awaited(CopyKey(p), p.path[i], EdgeEnd(p, i))'
  <2> SUFFICES ASSUME NEW i \in 1..m
               PROVE  Awaited(CopyKey(p), p.path[i], EdgeEnd(p, i))'
    BY DEF EdgeEnd, CopyKey
  <2>1. HopEnd(p.path, w.to, i) = EdgeEnd(p, i)
    BY DEF HopEnd, EdgeEnd
  <2>2. UnderWay(w)
    BY DEF CreditInv
  <2>3. Awaited(CopyKey(p), p.path[i], EdgeEnd(p, i))
    BY <2>1, <2>2 DEF UnderWay, HopsAwaited
  <2>4. QED
    BY <1>5, <2>3, AwaitedStays DEF CopyKey, EdgeEnd
<1> HIDE DEF p
<1>9. Backed(r)'
  <2>1. Standing(r, p, m)'
    BY <1>6, <1>7, <1>8 DEF Standing, EdgeEnd, CopyKey
  <2>2. p \in reached'
    BY <1>3
  <2>3. QED
    BY <1>2, <2>1, <2>2 DEF Backed
<1>10. \A s \in receiptWire : CopyKey(s) # CopyKey(r)
  <2> SUFFICES ASSUME NEW s \in receiptWire PROVE CopyKey(s) # CopyKey(r)
    OBVIOUS
  <2>1. PICK q \in reached, k \in Nat : Standing(s, q, k)
    BY DEF CreditInv, Backed
  <2>2. CopyKey(s) = CopyKey(q)
    BY <2>1 DEF Standing, Returning, CopyKey
  <2>3. CopyKey(p) # CopyKey(q)
    BY DEF PlaceInv, Distinct, p
  <2>4. CopyKey(r) = CopyKey(p)
    BY <1>6 DEF CopyKey
  <2>5. QED
    BY <2>2, <2>3, <2>4
<1>11. \A t \in (timers \cup wire)' : UnderWay(t)'
  BY <1>3, <1>5, UnderWayStays DEF CreditInv
<1>12. \A s \in receiptWire' : s.intact /\ Backed(s)'
  BY <1>4, <1>5, <1>6, <1>9, BackedStays DEF CreditInv
<1>13. \A s, o \in receiptWire' : CopyKey(s) = CopyKey(o) => s = o
  BY <1>4, <1>10 DEF CreditInv
<1>14. \A q \in reached' : Paid(q)'
  <2>1. Paid(p)'
    <3>1. CameTo(p, m)'
      BY <1>4, <1>6, <1>7 DEF CameTo, Returning
    <3>2. m \in 0..Len(p.path)
      BY <1>2
    <3>3. QED
      BY <3>1, <3>2 DEF Paid
  <2>2. ASSUME NEW q \in reached
        PROVE  Paid(q)'
    <3>1. PICK k \in 0..Len(q.path) : CameTo(q, k)
      BY DEF CreditInv, Paid
    <3>2. QED
      BY <1>4, <1>5, <3>1, PaidStays DEF Grows
  <2>3. QED
    BY <1>3, <2>1, <2>2
<1>15. QED
  BY <1>11, <1>12, <1>13, <1>14 DEF CreditInv, CopyKey

\* A receipt belongs to one copy, which has no other receipt and is nowhere else.
LEMMA OwnReceipt ==
  ASSUME PlaceInv, CreditInv, NEW r \in receiptWire, NEW p \in reached,
         CopyKey(p) = CopyKey(r)
  PROVE  /\ \A t \in timers \cup wire : CopyKey(t.pkt) # CopyKey(r)
         /\ \A s \in receiptWire \ {r} : CopyKey(s) # CopyKey(r)
         /\ \A q \in reached \ {p} : CopyKey(q) # CopyKey(r)
BY DEF PlaceInv, Distinct, CreditInv

\* A receipt where it stands is credited: the hop is resolved for all copies, for its own
\* because the receipt has passed, for the others because a sibling crossed their link.
LEMMA ReceiptCredits ==
  ASSUME KindNetwork, TypeInv, ChainInv, PlaceInv, CalmInv, CreditInv,
         NEW r \in receiptWire, Open, NEW i \in Position(r), CreditReceipt(r, i),
         UNCHANGED <<timers, wire, reached>>
  PROVE  CreditInv'
<1>1. PICK p \in reached, k \in Nat : Standing(r, p, k)
  BY DEF CreditInv, Backed
<1>2. /\ Returning(r, p, k) /\ CopyKey(p) = CopyKey(r) /\ p.path \in Seq(Node)
      /\ k \in 1..Len(p.path) /\ p.path[k] = r.to
  BY <1>1 DEF Standing, Returning, CopyKey, TypeInv, TypeOK, DeliveryTypeOK, PacketType
<1>3. /\ i = k /\ ConfirmedVerdicts' = ConfirmedVerdicts \cup {Confirmed(p, k)}
      /\ CreditedFrom(p, k)'
  BY <1>2, CreditAt
<1> DEFINE hop == <<r.to, <<r.pid, EdgeEnd(p, k)>>>>
<1>4. ArmedKeys' = ArmedKeys \ {hop}
  <2>1. pending \in [Node -> SUBSET (Nat \X Node)] /\ r.to \in Node
    BY DEF TypeInv, TypeOK, VerdictTypeOK, NetTypeOK, ReceiptType
  <2>2. EdgeEnd(r, i) = EdgeEnd(p, k)
    BY <1>2, <1>3 DEF EdgeEnd, Returning
  <2>3. pending' = [pending EXCEPT ![r.to] = @ \ {<<r.pid, EdgeEnd(p, k)>>}]
    BY <2>2 DEF CreditReceipt, Popped, ReceiptKey
  <2>4. QED
    BY <2>1, <2>3, PopKeys
<1>5. ConfirmedVerdicts \subseteq ConfirmedVerdicts' /\ reached \subseteq reached'
  BY <1>3
<1>6. ASSUME NEW c, c = <<c[1], c[2]>>, NEW n, NEW nxt, Awaited(c, n, nxt),
             c # CopyKey(r) \/ n # r.to
      PROVE  Awaited(c, n, nxt)'
  <2>1. CASE <<n, <<c[1], nxt>>>> \in ArmedKeys'
    BY <2>1 DEF Awaited
  <2>2. CASE <<n, c[1], nxt, "confirmed">> \in ConfirmedVerdicts /\ Crossed(c, n, nxt)
    BY <1>5, <2>2, CrossedStays DEF Awaited
  <2>3. CASE <<n, <<c[1], nxt>>>> = hop
    <3>1. n = r.to /\ c[1] = r.pid /\ nxt = EdgeEnd(p, k)
      BY <2>3
    <3>2. c[2] # r.copy
      BY <1>6, <3>1 DEF CopyKey
    <3>3. p.pid = c[1] /\ p.copy # c[2] /\ EdgeAt(p, k, n, nxt)
      BY <1>2, <3>1, <3>2 DEF CopyKey, EdgeAt
    <3>4. Crossed(c, n, nxt)
      BY <1>2, <3>3 DEF Crossed
    <3>5. Confirmed(p, k) = <<n, c[1], nxt, "confirmed">>
      BY <1>2, <3>1, <3>3 DEF Confirmed
    <3>6. <<n, c[1], nxt, "confirmed">> \in ConfirmedVerdicts'
      BY <1>3, <3>5
    <3>7. QED
      BY <1>5, <3>4, <3>6, CrossedStays DEF Awaited
  <2>4. QED
    BY <1>4, <1>6, <2>1, <2>2, <2>3 DEF Awaited
<1> HIDE DEF hop
<1>7. /\ \A t \in timers \cup wire : CopyKey(t.pkt) # CopyKey(r)
      /\ \A s \in receiptWire \ {r} : CopyKey(s) # CopyKey(r)
      /\ \A q \in reached \ {p} : CopyKey(q) # CopyKey(r)
  BY <1>2, OwnReceipt
<1>8. \A t \in (timers \cup wire)' : UnderWay(t)'
  <2> SUFFICES ASSUME NEW t \in timers \cup wire
               PROVE  UnderWay(t)'
    OBVIOUS
  <2>1. ASSUME NEW j \in 1..Len(t.pkt.path)
        PROVE  Awaited(CopyKey(t.pkt), t.pkt.path[j], HopEnd(t.pkt.path, t.to, j))'
    <3> DEFINE c == CopyKey(t.pkt)
    <3>1. c = <<c[1], c[2]>> /\ c # CopyKey(r)
      BY <1>7 DEF CopyKey
    <3>2. Awaited(c, t.pkt.path[j], HopEnd(t.pkt.path, t.to, j))
      BY DEF CreditInv, UnderWay, HopsAwaited
    <3> HIDE DEF c
    <3>3. Awaited(c, t.pkt.path[j], HopEnd(t.pkt.path, t.to, j))'
      BY <1>6, <3>1, <3>2 DEF HopEnd, c, CopyKey
    <3>4. QED
      BY <3>3 DEF HopEnd, c, CopyKey
  <2>2. QED
    BY <2>1 DEF UnderWay, HopsAwaited, HopEnd, CopyKey
<1>9. ASSUME NEW s \in receiptWire \ {r}
      PROVE  Backed(s)'
  <2>1. PICK q \in reached, h \in Nat : Standing(s, q, h)
    BY DEF CreditInv, Backed
  <2>2. Returning(s, q, h)'
    BY <1>5, <2>1, CreditedStays DEF Standing, Returning
  <2>3. CopyKey(q) # CopyKey(r) /\ CopyKey(q) = <<CopyKey(q)[1], CopyKey(q)[2]>>
    BY <1>7, <2>1 DEF Standing, Returning, CopyKey
  <2>4. \A j \in 1..h : Awaited(CopyKey(q), q.path[j], EdgeEnd(q, j))'
    BY <1>6, <2>1, <2>3 DEF Standing, EdgeEnd, CopyKey
  <2>5. Standing(s, q, h)'
    BY <2>1, <2>2, <2>4 DEF Standing, EdgeEnd, CopyKey
  <2>6. QED
    BY <1>5, <2>1, <2>5 DEF Backed
<1> DEFINE b == [r EXCEPT !.to = r.path[k - 1]]
<1>10. /\ receiptWire' = (receiptWire \ {r}) \cup (IF k > 1 THEN {b} ELSE {})
       /\ r \in ReceiptType /\ r.intact
  BY <1>3 DEF CreditReceipt, RelayedReceipt, SentReceipt, CalmInv, TypeInv, TypeOK, NetTypeOK
<1>11. /\ b.pid = r.pid /\ b.copy = r.copy /\ b.path = r.path /\ b.dst = r.dst
       /\ b.to = r.path[k - 1] /\ b.intact = r.intact /\ CopyKey(b) = CopyKey(r)
  BY <1>10 DEF ReceiptType, CopyKey
<1> HIDE DEF b
<1>12. ASSUME k > 1
       PROVE  Standing(b, p, k - 1)' /\ k - 1 \in Nat
  <2>1. k - 1 \in 1..Len(p.path) /\ k - 1 \in Nat /\ (k - 1) + 1 = k
    BY <1>2, <1>12
  <2>2. Returning(b, p, k - 1)'
    BY <1>2, <1>3, <1>11, <2>1 DEF Returning
  <2>3. ASSUME NEW j \in 1..(k - 1)
        PROVE  Awaited(CopyKey(p), p.path[j], EdgeEnd(p, j))'
    <3>1. j \in 1..k /\ j # k /\ j \in DOMAIN p.path /\ k \in DOMAIN p.path
      BY <1>2, <2>1
    <3>2. p.path[j] # r.to
      BY <1>2, <3>1 DEF ChainInv, SimplePath
    <3>3. Awaited(CopyKey(p), p.path[j], EdgeEnd(p, j))
      BY <1>1, <3>1 DEF Standing
    <3>4. CopyKey(p) = <<CopyKey(p)[1], CopyKey(p)[2]>>
      BY DEF CopyKey
    <3>5. QED
      BY <1>6, <3>2, <3>3, <3>4 DEF CopyKey, EdgeEnd
  <2>4. b.copy = p.copy
    BY <1>2, <1>11 DEF CopyKey
  <2>5. QED
    BY <2>1, <2>2, <2>3, <2>4 DEF Standing, EdgeEnd, CopyKey
<1>13. \A s \in receiptWire' : s.intact /\ Backed(s)'
  <2>1. ASSUME NEW s \in receiptWire \ {r}
        PROVE  s.intact /\ Backed(s)'
    BY <1>9 DEF CreditInv
  <2>2. ASSUME k > 1
        PROVE  b.intact /\ Backed(b)'
    BY <1>10, <1>11, <1>12, <2>2 DEF Backed
  <2>3. QED
    BY <1>10, <2>1, <2>2
<1>14. \A s, o \in receiptWire' : CopyKey(s) = CopyKey(o) => s = o
  BY <1>7, <1>10, <1>11 DEF CreditInv
<1>15. Paid(p)'
  <2>1. CASE k = 1
    <3>1. CameTo(p, 0)'
      BY <1>3, <2>1 DEF CameTo
    <3>2. 0 \in 0..Len(p.path)
      BY <1>2
    <3>3. QED
      BY <3>1, <3>2 DEF Paid
  <2>2. CASE k > 1
    <3>1. b \in receiptWire' /\ Standing(b, p, k - 1)'
      BY <1>10, <1>12, <2>2
    <3>2. k - 1 \in 0..Len(p.path) /\ (k - 1) + 1 = k
      BY <1>2, <2>2
    <3>3. CameTo(p, k - 1)'
      BY <1>3, <3>1, <3>2 DEF CameTo, Standing
    <3>4. QED
      BY <3>2, <3>3 DEF Paid
  <2>3. QED
    BY <1>2, <2>1, <2>2
<1>16. ASSUME NEW q \in reached \ {p}
       PROVE  Paid(q)'
  <2>1. PICK h \in 0..Len(q.path) : CameTo(q, h)
    BY DEF CreditInv, Paid
  <2>2. \A s \in receiptWire : Returning(s, q, h) /\ s.copy = q.copy => s \in receiptWire'
    BY <1>7, <1>10 DEF Returning, CopyKey
  <2>3. QED
    BY <1>5, <2>1, <2>2, PaidStays
<1>17. QED
  BY <1>8, <1>13, <1>14, <1>15, <1>16 DEF CreditInv, CopyKey

\* A receipt that finds its hop resolved stops there: a sibling crossed that link.
LEMMA ReceiptStops ==
  ASSUME TypeInv, ChainInv, PlaceInv, CreditInv, NEW r \in receiptWire, IgnoreReceipt(r),
         UNCHANGED <<timers, wire, reached>>
  PROVE  CreditInv'
<1>1. PICK p \in reached, k \in Nat : Standing(r, p, k)
  BY DEF CreditInv, Backed
<1>2. /\ Returning(r, p, k) /\ CopyKey(p) = CopyKey(r) /\ p.path \in Seq(Node)
      /\ k \in 1..Len(p.path) /\ p.path[k] = r.to /\ p.path = r.path
  BY <1>1 DEF Standing, Returning, CopyKey, TypeInv, TypeOK, DeliveryTypeOK, PacketType
<1>3. receiptWire' = receiptWire \ {r} /\ UNCHANGED verdictVars
  BY DEF IgnoreReceipt
<1>4. ArmedKeys' = ArmedKeys /\ ConfirmedVerdicts' = ConfirmedVerdicts /\ Grows
  BY <1>3 DEF verdictVars, ArmedKeys, ConfirmedVerdicts, Grows
<1>5. k \in Position(r)
  <2>1. k \in DOMAIN r.path /\ r.path[k] = r.to
    BY <1>2
  <2>2. ASSUME NEW j \in 1..(k - 1)
        PROVE  r.path[j] # r.to
    <3>1. j \in DOMAIN p.path /\ k \in DOMAIN p.path /\ j # k
      BY <1>2
    <3>2. QED
      BY <1>2, <3>1 DEF ChainInv, SimplePath
  <2>3. QED
    BY <2>1, <2>2 DEF Position
<1>6. <<r.to, <<r.pid, EdgeEnd(p, k)>>>> \notin ArmedKeys
  <2>1. ReceiptKey(r, k) \notin pending[r.to]
    BY <1>5 DEF IgnoreReceipt, CreditInv
  <2>2. ReceiptKey(r, k) = <<r.pid, EdgeEnd(p, k)>>
    BY <1>2 DEF ReceiptKey, EdgeEnd, Returning
  <2>3. QED
    BY <2>1, <2>2 DEF ArmedKeys
<1>7. /\ Confirmed(p, k) \in ConfirmedVerdicts
      /\ Crossed(CopyKey(p), p.path[k], EdgeEnd(p, k))
  <2>1. Awaited(CopyKey(p), p.path[k], EdgeEnd(p, k))
    BY <1>1, <1>2 DEF Standing
  <2>2. CopyKey(p)[1] = r.pid /\ p.pid = r.pid
    BY <1>2 DEF CopyKey, Returning
  <2>3. QED
    BY <1>2, <1>6, <2>1, <2>2 DEF Awaited, Confirmed
<1>8. Paid(p)'
  <2>1. CameTo(p, k) /\ k \in 0..Len(p.path)
    BY <1>2, <1>7 DEF CameTo, Returning
  <2>2. CreditedFrom(p, k + 1)'
    BY <1>4, <2>1, CreditedStays DEF CameTo
  <2>3. Crossed(CopyKey(p), p.path[k], EdgeEnd(p, k))'
    BY <1>4, <1>7, CrossedStays DEF Grows, CopyKey, EdgeEnd
  <2>4. (Confirmed(p, k) \in ConfirmedVerdicts)'
    BY <1>4, <1>7 DEF Confirmed, EdgeEnd
  <2>5. QED
    BY <2>1, <2>2, <2>3, <2>4 DEF Paid, CameTo
<1>9. ASSUME NEW q \in reached \ {p}
      PROVE  Paid(q)'
  <2>1. PICK h \in 0..Len(q.path) : CameTo(q, h)
    BY DEF CreditInv, Paid
  <2>2. CopyKey(q) # CopyKey(r)
    BY <1>2, OwnReceipt
  <2>3. \A s \in receiptWire : Returning(s, q, h) /\ s.copy = q.copy => s \in receiptWire'
    BY <1>3, <2>2 DEF Returning, CopyKey
  <2>4. QED
    BY <1>4, <2>1, <2>3, PaidStays DEF Grows
<1>10. \A t \in (timers \cup wire)' : UnderWay(t)'
  BY <1>4, UnderWayStays DEF CreditInv
<1>11. \A s \in receiptWire' : s.intact /\ Backed(s)'
  BY <1>3, <1>4, BackedStays DEF CreditInv
<1>12. \A s, o \in receiptWire' : CopyKey(s) = CopyKey(o) => s = o
  BY <1>3 DEF CreditInv
<1>13. QED
  BY <1>8, <1>9, <1>10, <1>11, <1>12 DEF CreditInv, CopyKey

\* A sweep finds nothing in flight: what it takes away nobody waits for.
LEMMA QuietSweep ==
  ASSUME CreditInv, Quiet, UNCHANGED <<netVars, reached>>,
         NEW expired, Expire(expired)
  PROVE  CreditInv'
<1>1. timers' = {} /\ wire' = {} /\ receiptWire' = {} /\ receiptWire = {}
  BY DEF Quiet, netVars
<1>2. ConfirmedVerdicts' = ConfirmedVerdicts
  BY ExpireConfirms
<1>3. \A p \in reached' : Paid(p)'
  <2> SUFFICES ASSUME NEW p \in reached PROVE Paid(p)'
    OBVIOUS
  <2>1. PICK k \in 0..Len(p.path) : CameTo(p, k)
    BY DEF CreditInv, Paid
  <2>2. QED
    BY <1>1, <1>2, <2>1, PaidStays
<1>4. QED
  BY <1>1, <1>3 DEF CreditInv

LEMMA CreditInit == Init => CreditInv
BY DEF Init, CreditInv

\* Packets that leave, are lost or are dropped owe nobody a receipt.
LEMMA CreditFlights ==
  ASSUME CreditInv, UNCHANGED <<receiptWire, reached, verdictVars>>,
         (timers \cup wire)' \subseteq timers \cup wire
  PROVE  CreditInv'
<1>1. Grows
  BY DEF Grows, verdictVars, ArmedKeys, ConfirmedVerdicts
<1>2. QED
  BY <1>1, FlightsChange

LEMMA CreditSend ==
  ASSUME KindNetwork, TypeInv, CreditInv, NEW s \in sending, SendCopy(s)
  PROVE  CreditInv'
<1> DEFINE p == NewPacket(s, Redundancy - s.left + 1)
<1>1. PICK nxt \in Node : Relay(p, s.src, s.chosen, nxt)
  BY DEF SendCopy
<1>2. p \in PacketType /\ s.src \in Node
  BY CopyType DEF SendType
<1>3. p.path = <<>>
  BY DEF NewPacket
<1> HIDE DEF p
<1>4. HopsAwaited(CopyKey(p), p.path, s.src)
  BY <1>3 DEF HopsAwaited
<1>5. UNCHANGED <<wire, receiptWire, reached>>
  BY DEF SendCopy, deliveryVars
<1>6. Grows /\ \A t \in timers' : t \in timers \/ UnderWay(t)'
  BY <1>1, <1>2, <1>4, <1>5, RelayAwaited
<1>7. QED
  BY <1>5, <1>6, FlightsChange

LEMMA CreditReceive ==
  ASSUME KindNetwork, TypeInv, PathShape, PlaceInv, CalmInv, CreditInv,
         NEW w \in wire, ReceivePacket(w)
  PROVE  CreditInv'
<1>1. w.pkt \in PacketType /\ w.to \in Node
  BY DEF TypeInv, TypeOK, NetTypeOK, FlightType
<1>2. wire' = wire \ {w}
  BY DEF ReceivePacket
<1>3. CASE w.to = w.pkt.dst /\ Accept(w.pkt, receiptWire)
  BY <1>3, AcceptCredits
<1>4. CASE w.to = w.pkt.dst /\ RejectSignature(w.pkt, receiptWire)
  BY <1>2, <1>4, CreditFlights DEF RejectSignature, deliveryVars
<1>5. CASE /\ w.to # w.pkt.dst
           /\ DropInTransit(w.pkt, w.to) \/ DropNoRoute(w.pkt, w.to, {})
  <2>1. UNCHANGED <<timers, receiptWire, reached, verdictVars>>
    BY <1>5 DEF ReceivePacket, DropInTransit, DropNoRoute, deliveryVars
  <2>2. QED
    BY <1>2, <2>1, CreditFlights
<1>6. ASSUME w.to # w.pkt.dst, NEW nxt \in Node, Relay(w.pkt, w.to, {}, nxt)
      PROVE  CreditInv'
  <2>1. UNCHANGED <<receiptWire, reached>>
    BY <1>6 DEF ReceivePacket, deliveryVars
  <2>2. HopsAwaited(CopyKey(w.pkt), w.pkt.path, w.to)
    BY DEF CreditInv, UnderWay
  <2>3. Grows /\ \A t \in timers' : t \in timers \/ UnderWay(t)'
    BY <1>1, <1>6, <2>1, <2>2, RelayAwaited
  <2>4. QED
    BY <1>2, <2>1, <2>3, FlightsChange
<1>7. QED
  BY <1>3, <1>4, <1>5, <1>6 DEF ReceivePacket

LEMMA CreditReceiptStep ==
  ASSUME KindNetwork, TypeInv, ChainInv, PlaceInv, CalmInv, CreditInv,
         NEW r \in receiptWire, ReceiveReceipt(r)
  PROVE  CreditInv'
<1>1. UNCHANGED <<timers, wire, reached>> /\ Open
  BY DEF ReceiveReceipt, deliveryVars
<1>2. ASSUME NEW i \in Position(r), CreditReceipt(r, i)
      PROVE  CreditInv'
  BY <1>1, <1>2, ReceiptCredits
<1>3. CASE IgnoreReceipt(r)
  BY <1>1, <1>3, ReceiptStops
<1>4. QED
  BY <1>2, <1>3 DEF ReceiveReceipt

LEMMA CreditStep ==
  ASSUME KindNetwork, TypeInv, RouteInv, ChainInv, PlaceInv, CalmInv, CreditInv, [Next]_vars
  PROVE  CreditInv'
<1>1. /\ "receipt_loss" \notin Faults /\ "corrupt" \notin Faults /\ Timely
      /\ PathShape
  BY DEF KindNetwork, RouteInv
<1>2. CASE \E s \in sending : SendCopy(s)
  BY <1>2, CreditSend
<1>3. CASE \E s \in sending : SendBlocked(s)
  <2>1. UNCHANGED <<timers, wire, receiptWire, reached, verdictVars>>
    BY <1>3 DEF SendBlocked, DropInTransit, DropNoRoute, deliveryVars
  <2>2. QED
    BY <2>1, CreditFlights
<1>4. ASSUME NEW t \in timers, SendNow(t)
      PROVE  CreditInv'
  BY <1>4, CreditFlights DEF SendNow, deliveryVars
<1>5. CASE \E w \in wire : ReceivePacket(w)
  BY <1>1, <1>5, CreditReceive
<1>6. CASE \E r \in receiptWire : ReceiveReceipt(r)
  BY <1>6, CreditReceiptStep
<1>7. CASE SweepTimeouts \/ CloseTransports \/ FlushAndSave
  <2>1. UNCHANGED <<netVars, reached>> /\ \E expired : Expire(expired)
    BY <1>7 DEF SweepTimeouts, CloseTransports, FlushAndSave, deliveryVars
  <2>2. Quiet
    BY <1>1, <1>7 DEF SweepTimeouts, CloseTransports, FlushAndSave, CalmInv, Open
  <2>3. QED
    BY <2>1, <2>2, QuietSweep
<1>8. CASE \E w \in wire : LosePacket(w)
  BY <1>8, CreditFlights DEF LosePacket, deliveryVars
<1>9. CASE \E r \in receiptWire : LoseReceipt(r)
  BY <1>1, <1>9 DEF LoseReceipt, CalmInv, Quiet
<1>10. CASE \/ \E f \in Flows : StartSend(f[1], f[2])
            \/ Perturb \/ EndTraffic \/ CancelTasks \/ Returned \/ UNCHANGED vars
  <2>1. UNCHANGED <<timers, wire, receiptWire, reached, verdictVars>>
    BY <1>10 DEF StartSend, Perturb, EndTraffic, CancelTasks, Returned, vars, netVars,
       deliveryVars
  <2>2. QED
    BY <2>1, CreditFlights
<1>11. QED
  BY <1>1, <1>2, <1>3, <1>4, <1>5, <1>6, <1>7, <1>8, <1>9, <1>10
     DEF Next, CorruptPacket, CorruptReceipt

\* With nothing in flight, a receipt came home or stopped where a sibling had been.
LEMMA CreditImplies ==
  ASSUME TypeInv, CreditInv
  PROVE  CreditReachesEveryHop
<1> SUFFICES ASSUME Quiet, NEW p \in reached, NEW i \in DOMAIN p.path,
                    \A q \in reached \ {p}, j \in (i + 1)..Len(p.path) :
                      q.pid = p.pid => ~CrossedBy(p, j, q)
             PROVE  Confirmed(p, i) \in observed
  BY DEF CreditReachesEveryHop, Confirmed
<1>1. p.path \in Seq(Node) /\ i \in 1..Len(p.path) /\ Len(p.path) \in Nat
  BY DEF TypeInv, TypeOK, DeliveryTypeOK, PacketType
<1>2. PICK k \in 0..Len(p.path) : CameTo(p, k)
  BY DEF CreditInv, Paid
<1>3. k <= i
  <2> SUFFICES ASSUME k > i PROVE FALSE
    BY <1>1
  <2>1. k # 0 /\ k \in (i + 1)..Len(p.path)
    BY <1>1
  <2>2. Crossed(CopyKey(p), p.path[k], EdgeEnd(p, k))
    BY <1>2, <2>1 DEF CameTo, Quiet
  <2>3. PICK q \in reached : /\ q.pid = p.pid /\ q.copy # p.copy
                             /\ \E h \in 1..Len(q.path) : EdgeAt(q, h, p.path[k], EdgeEnd(p, k))
    BY <2>2 DEF Crossed, CopyKey
  <2>4. q.path \in Seq(Node) /\ q # p
    BY <2>3 DEF TypeInv, TypeOK, DeliveryTypeOK, PacketType
  <2>5. CrossedBy(p, k, q)
    BY <2>3, <2>4 DEF CrossedBy
  <2>6. QED
    BY <2>1, <2>3, <2>4, <2>5
<1>4. CASE i = k
  BY <1>1, <1>2, <1>4 DEF CameTo, Quiet, ConfirmedVerdicts
<1>5. CASE i # k
  <2>1. i \in (k + 1)..Len(p.path)
    BY <1>1, <1>3, <1>5
  <2>2. Confirmed(p, i) \in ConfirmedVerdicts
    BY <1>2, <2>1 DEF CameTo, CreditedFrom
  <2>3. QED
    BY <2>2 DEF ConfirmedVerdicts
<1>6. QED
  BY <1>4, <1>5

\* On a network that brings receipts back, with generous deadlines and nobody leaving,
\* every hop of every copy that arrived is credited in the end, except behind a link a
\* sibling crossed as well: losing packets and racing siblings takes credit from nobody
\* else (daemon.py 334-342, 547-556).
THEOREM CreditReachesEveryHopHolds ==
  ASSUME KindNetwork
  PROVE  Spec => []CreditReachesEveryHop
<1> DEFINE Inv == TypeInv /\ RouteInv /\ ChainInv /\ PlaceInv /\ CalmInv /\ CreditInv
<1>1. Init => Inv
  BY TypeInit, RouteInit, ChainInit, PlaceInit, CalmInit, CreditInit
<1>2. Inv /\ [Next]_vars => Inv'
  <2> SUFFICES ASSUME TypeInv, RouteInv, ChainInv, PlaceInv, CalmInv, CreditInv, [Next]_vars
               PROVE  Inv'
    OBVIOUS
  <2>1. PathShape /\ SendInv
    BY DEF RouteInv
  <2>2. TypeInv' /\ RouteInv' /\ ChainInv' /\ PlaceInv'
    BY <2>1, TypeStep, RouteStep, ChainStep, PlaceStep
  <2>3. CalmInv' /\ CreditInv'
    BY <2>1, CalmStep, CreditStep
  <2>4. QED
    BY <2>2, <2>3
<1>3. Inv => CreditReachesEveryHop
  BY CreditImplies
<1> HIDE DEF Inv
<1>4. QED
  BY <1>1, <1>2, <1>3, PTL DEF Spec
=============================================================================
