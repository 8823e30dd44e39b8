SPECIFICATION TimedSpec
CONSTANTS
  Place = {"a", "b", "c"}
  NearBlacklisted <- NearAB
  NearVisited <- Itself
  MaxGoals = 3
  Goal <- GoalIds
  Confirmations = 2
  MaxFailed = 2
  MaxCompleted = 2
  Faults = {"dispatch", "reject", "abort", "refuse", "transport"}
  ForeignCancel = TRUE
INVARIANTS
  NoPlaceTwice
  BooksAreReal
  EndIsExplained
PROPERTIES
  CancelHonoured
  Terminates
