SPECIFICATION Spec
CONSTANTS
  Node <- Ring
  Adj <- RingAdj
  Sybil <- None
  Routing = "scored"
  Shared = shared
  Owners <- SimAndNode
  Packets <- RingPackets
  WindowSize = 3
  InitialBudget = 350
  MaxBudget = 550
  Traffic <- Towards3
  Outages <- OneDown
  MaxCalls <- FewCalls
  MaxRestarts = 2
INVARIANT TypeOK
INVARIANT TrustedPathShape
INVARIANT PeersSumEdges
INVARIANT OwnedPlansDirect
PROPERTY RestartResumes
PROPERTY RiskFollowsEvidence
PROPERTY BudgetFollowsWindow
