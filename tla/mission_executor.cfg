SPECIFICATION TimedSpec
CONSTANTS
  Plan <- RouteThenHome
  MaxRetries = 1
  Goal <- Attempts
  Catalog <- TwoRoutes
  Faults = {"dispatch", "reject", "abort", "refuse", "transport"}
  Runners = {"task1", "saved_map"}
  CancelTimer = TRUE
  ForeignCancel = TRUE
INVARIANTS
  TypeOK
  HandleIsTracked
  ResultIsReal
  CrashesExplained
  LeavesNoGoalUntold
PROPERTIES
  Terminates
