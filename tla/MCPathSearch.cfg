SPECIFICATION EpisodeSpec
CONSTANTS
  Node <- RingNode
  Adj <- RingAdj
  Sybil = {}
  Routing = "shortest"
  Cost <- NegativeAndThree
  LandmarkCount = 2
  MaxOffline = 2
  MaxWalk = 4
  MaxHops = 3
  Ttl = 3
INVARIANT SettledAtDistance
INVARIANT BestFirstHop
INVARIANT HintAdmissible
INVARIANT WalksStraight
