--------------------------- MODULE DaemonRefinement ---------------------------
(***************************************************************************)
(* The daemon seen as a DeliveryContract: packet ids the traffic loop has  *)
(* finished sending are issued, stats.delivered is what was accepted, and  *)
(* a confirmed verdict is a credit.                                        *)
(***************************************************************************)
EXTENDS Daemon

AcceptedIds == {p.pid : p \in delivered}

CreditedNodes == {<<o[1], o[2]>> : o \in {q \in observed : q[4] = "confirmed"}}

Contract == INSTANCE DeliveryContract WITH
  issued <- generated, accepted <- AcceptedIds, credited <- CreditedNodes, open <- Open

\* The daemon implements the contract: every step is one of the contract's or leaves
\* its view unchanged (daemon.py 329-348, 534-552, 766-770).
ImplementsContract == Contract!Spec
=============================================================================
