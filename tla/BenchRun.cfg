SPECIFICATION BenchFairSpec
CONSTANTS
  None = None
  Raised = Raised
  Absent = Absent
  Todo = Todo
  NaN = NaN
  Deployments <- Deployed
  Levels = {1, 2, 4}
  Repetitions = 3
  CollapseNum = 1
  CollapseDen = 2
  WindowResults <- PassOrFail
  MaxStruck = 2
INVARIANTS
  ExitZeroIsComplete
  GradedWindowsAreBundled
  InterruptedLadderSurvives
  PartialBundleRemoved
  DraftErrorsAreItsGaps
PROPERTIES
  BenchEnds
CHECK_DEADLOCK FALSE
