SPECIFICATION Spec
CONSTANTS
  Node <- FunnelNode
  Adj <- FunnelAdj
  Sybil <- SybilTwo
  Flows <- OneToFive
  Routing = "scored"
  TTL = 4
  Redundancy = 2
  LinkRetries = 0
  Receipts = TRUE
  Faults = {}
  Timely = TRUE
  MaxPackets = 1
INVARIANT NoFalseNegative
