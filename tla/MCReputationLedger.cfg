SPECIFICATION Spec
CONSTANTS
  Node <- Square
  Adj <- SquareAdj
  Sybil <- None
  Routing = "scored"
  Solvers <- Both
  Anchors <- AnchorOrNot
  Endorsers <- OneTrusted
  Corpora <- NoneChainOrCycle
  Offers <- Later
  Attestations <- Signed
  Times <- Presented
  Packets <- RingPackets
  Traffic <- Flow
  Outages <- OneDown
  MaxIterations = 3
  MaxBackwardHops = 3
  Resolution = 1
  MaxCalls = 4
INVARIANT TypeOK
INVARIANT MassKept
INVARIANT StrangersEarnNothing
INVARIANT UnbackedEarnNothing
INVARIANT BlameFollowsEndorsements
INVARIANT GrantsStand
INVARIANT ClosedOnAllEvidence
PROPERTY EvidenceDecides
