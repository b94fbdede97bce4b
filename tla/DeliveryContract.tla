--------------------------- MODULE DeliveryContract ---------------------------
(***************************************************************************)
(* What a run promises, whatever the network and the solvers do: packet    *)
(* ids are issued one after the other, an issued packet is accepted at     *)
(* most once, a node is credited for a packet only as it is accepted or    *)
(* after, and nothing is accepted or credited once the run closed.  Both   *)
(* the receipt-mode cluster and the event-driven simulator keep it: the    *)
(* cluster credits by receipts that come later, the simulator at once.     *)
(***************************************************************************)
EXTENDS Naturals

CONSTANT Node

VARIABLES
  issued,    \* packets issued so far: ids 0 .. issued - 1
  accepted,  \* ids the destination accepted
  credited,  \* <<node, id>>: nodes credited with the delivery of a packet
  open       \* the run is not over

cvars == <<issued, accepted, credited, open>>

Init == issued = 0 /\ accepted = {} /\ credited = {} /\ open = TRUE

Issue ==
  /\ open
  /\ issued' = issued + 1
  /\ UNCHANGED <<accepted, credited, open>>

\* The nodes at, if any, are credited on the spot.
Accept(id, at) ==
  /\ open
  /\ id \notin accepted
  /\ accepted' = accepted \cup {id}
  /\ credited' = credited \cup {<<n, id>> : n \in at}
  /\ UNCHANGED <<issued, open>>

Credit(n, id) ==
  /\ open
  /\ id \in accepted
  /\ credited' = credited \cup {<<n, id>>}
  /\ UNCHANGED <<issued, accepted, open>>

Close ==
  /\ open
  /\ open' = FALSE
  /\ UNCHANGED <<issued, accepted, credited>>

Next ==
  \/ Issue
  \/ \E id \in 0..(issued - 1), at \in SUBSET Node : Accept(id, at)
  \/ \E n \in Node, id \in 0..(issued - 1) : Credit(n, id)
  \/ Close

Spec == Init /\ [][Next]_cvars
=============================================================================
