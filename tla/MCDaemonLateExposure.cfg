SPECIFICATION Spec
CONSTANTS
  Node <- DiamondNode
  Adj <- DiamondAdj
  Sybil <- SybilTwo
  Flows <- OneToFour
  Routing = "scored"
  TTL = 4
  Redundancy = 2
  LinkRetries = 0
  Receipts = TRUE
  Faults = {}
  Timely = FALSE
  MaxPackets = 1
INVARIANT ExposureOfEveryCopy
