SPECIFICATION Spec
CONSTANTS
  Node <- SpurNode
  Adj <- SpurAdj
  Sybil <- SybilTwo
  Routing = "scored"
  Flows <- OneToThree
  TTL = 3
  LinkRetries = 1
  Duration = 1
  EndTime = 8
  Gaps = {1}
  Metric <- FastOrSlow
  Lossy = TRUE
  Churn = TRUE
  DriftCount = 1
  PerturbInterval = 3
INVARIANT TypeOK
INVARIANT LinkFifo
INVARIANT LatencyAccounting
INVARIANT Conservation
INVARIANT ExposureExact
INVARIANT BlameTheLastHop
PROPERTY SimImplementsContract
