SPECIFICATION EvidenceSpec
CONSTANTS
  None = None
  Levels = {1, 2, 4}
  Repetitions = 3
  CollapseNum = 1
  CollapseDen = 2
  Results <- LadderResults
  MaxFiled <- LadderFiled
INVARIANTS
  PublishableIsEarned
  LoopGradesAsDeclared
  RowAndSpreadAgree
  LowerBoundIsSaid
PROPERTIES
  FailureIsFinal
CHECK_DEADLOCK FALSE
