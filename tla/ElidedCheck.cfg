SPECIFICATION ReduceSpec
CONSTANTS
  None = None
  Levels = {1, 2, 4}
  Repetitions = 3
  CollapseNum = 1
  CollapseDen = 2
  Patterns <- MCPatterns
  TtftGate = 5
INVARIANTS
  ElisionAloneChecks
CHECK_DEADLOCK FALSE
