SPECIFICATION SessionSpec
CONSTANTS
  Users = {u1, u2}
  None = None
  WindowS = 2
  DrainDeadlineS = 1
  WarmupRequests = 1
  WarmupS = 0
  ThinkTimeS = 0
  Dephase = TRUE
  ServerOutcomes = {"ok"}
  ClockSkew = 1
  WarmHorizon = 0
  Lateness = 1
  Shapes <- TwoShapes
  SessionBase = 0
INVARIANTS
  StepsInOrder
  NoStepTwice
  PeakWithinFleet
CHECK_DEADLOCK FALSE
