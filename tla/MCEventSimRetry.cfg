SPECIFICATION Spec
CONSTANTS
  Node <- SpurNode
  Adj <- SpurAdj
  Sybil <- SybilTwo
  Routing = "scored"
  Flows <- OneToThree
  TTL = 3
  LinkRetries = 1
  Duration = 2
  EndTime = 8
  Gaps = {1}
  Metric <- Fixed
  Lossy = TRUE
  Churn = FALSE
  DriftCount = 0
  PerturbInterval = 1
INVARIANT RetriesTakeTime
