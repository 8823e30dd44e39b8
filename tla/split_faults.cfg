SPECIFICATION TimedSpec
CONSTANTS
  RobotIds <- PairIds
  Goal <- PairGoal
  Work <- PairWork
  Reservation <- MCReservation
  ReservationOf <- PairReservationOf
  Queue <- PairQueue
  Departure <- MCDeparture
  PrivateRoute <- MCPrivateRoute
  Rank <- PairRank
  Faults = {"dispatch", "reject", "abort", "refuse", "transport"}
  Stops = {"operator", "safety", "deadline"}
INVARIANTS
  TypeOK
  CorridorExclusive
  ReleaseOrderIntact
  PendingTracked
  ResultsAreReal
  WedgedOnlyByAbandoned
  ReturnsASplit
PROPERTIES
  NoDispatchAfterStop
  KeepsReservationOrder
  SplitEnds
