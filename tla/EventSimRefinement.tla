-------------------------- MODULE EventSimRefinement --------------------------
(***************************************************************************)
(* The event-driven simulator seen as a DeliveryContract: a packet is      *)
(* issued when it is generated and accepted when it is delivered, and      *)
(* observe_result with "delivered" is a credit.                            *)
(***************************************************************************)
EXTENDS EventSim

AcceptedIds == Range(delivered)

CreditedNodes == {<<t.hop[1], t.pid>> : t \in {u \in told : u.verdict = "delivered"}}

Contract == INSTANCE DeliveryContract WITH
  issued <- Cardinality(DOMAIN packets), accepted <- AcceptedIds,
  credited <- CreditedNodes, open <- running

\* The simulator implements the contract that the cluster implements: every event it
\* handles is a step of the contract or leaves its view unchanged, so that no packet is
\* delivered twice, none is credited that was not delivered, and nothing is either after
\* the loop of run ended (event_sim.py 117-139, 180-198, 267-284).
SimImplementsContract == Contract!Spec
=============================================================================
