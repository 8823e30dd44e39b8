SPECIFICATION TimedSpec
PROPERTIES
  RightOfWayKept
  EveryoneGoes
