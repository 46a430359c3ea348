SPECIFICATION BenchSpec
CONSTANTS
  None = None
  Raised = Raised
  Absent = Absent
  Todo = Todo
  NaN = NaN
  Deployments <- Deployed
  Levels = {1, 2, 4}
  Repetitions = 3
  CollapseNum = 1
  CollapseDen = 2
  WindowResults <- PassOrFail
  MaxStruck = 0
INVARIANTS
  CompleteLadderValidates
CHECK_DEADLOCK FALSE
