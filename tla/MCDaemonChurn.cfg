SPECIFICATION FairSpec
CONSTANTS
  Node <- SpurNode
  Adj <- SpurAdj
  Sybil <- SybilTwoFour
  Flows <- NearAndFar
  Routing = "shortest"
  TTL = 1
  Redundancy = 1
  LinkRetries = 1
  Receipts = TRUE
  Faults = {"churn", "link", "packet_loss"}
  Timely = FALSE
  MaxPackets = 2
INVARIANT CopyConservation
PROPERTY OnlyTheLiveSend
PROPERTY EveryVerdictReached
