SPECIFICATION Spec
CONSTANTS
  RobotIds <- TrioIds
  NavigationMayRaise = TRUE
INVARIANTS
  TypeOK
  PhasesInOrder
  BarriersHeld
  NothingLeftActive
  RaisesInSplitOnly
  TerminalStateIsExplained
