SPECIFICATION TimedSpec
CONSTANTS
  MaxRuns = 2
  ConfirmationFrames = 2
  MaximumMissingFrames = 1
  WireDepth = 1
  PendingDepth = 1
  Kinds = {"away"}
  LateServices = {"start", "activate"}
  MaxLate = 1
INVARIANTS
  ForwardIsSeen
  AcquiredIsReal
PROPERTIES
  MissionsEnd
