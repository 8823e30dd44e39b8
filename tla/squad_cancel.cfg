SPECIFICATION Spec
CONSTANTS
  RobotIds <- TrioIds
  NavigationMayRaise = FALSE
INVARIANTS
  EndsInATerminalState
