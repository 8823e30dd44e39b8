SPECIFICATION Spec
CONSTANTS
  RobotIds <- TrioIds
  Goal <- DemoGoal
  Work <- DemoWork
  Reservation <- MCReservation
  ReservationOf <- DemoReservationOf
  Queue <- DemoQueue
  Departure <- MCDeparture
  PrivateRoute <- MCPrivateRoute
  Rank <- DemoRank
  Faults = {"abort"}
  Stops = {}
INVARIANT
  SurvivorsCanMove
