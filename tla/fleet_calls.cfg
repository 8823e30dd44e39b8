SPECIFICATION TimedSpec
CONSTANTS
  RobotIds <- PairIds
  Goal <- PairGoal
  Path = 2
  Faults = {"dispatch", "reject", "abort", "refuse", "transport"}
  Stops = {"operator", "safety", "deadline"}
INVARIANTS
  TypeOK
  ReturnsABatch
  ResultsAreReal
  FailureCancelsAll
  SettledHere
PROPERTIES
  CancelledOnce
  CallEnds
