SPECIFICATION Spec
CONSTANTS
  Sessions <- ShortSessions
  Scenarios <- TwoScenarios
  Solvers <- BenchSolvers
  Seeds <- BenchSeeds
  SearchSeeds = 1
  Candidates <- SearchCandidates
  KindOf <- Kinds
  LearnRuns = 2
  TailRuns = 1
  Workers = 2
  TopK = 2
  FinalK = 1
  BestEvery = 2
  TargetHits = 2
  Outcome <- BenchOutcomes
  Figure <- SomeFigures
INVARIANT BuildsOnOwnRuns
INVARIANT ReportsHold
PROPERTY BestNeverWorsens
PROPERTY NichesSurvive
