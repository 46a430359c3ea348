SPECIFICATION SizingSpec
CONSTANTS
  None = None
  Raised = Raised
  Whole = 4
  DayS = 8
  Workloads <- MCWorkloads
  Deployments <- MCDeployments
  Headrooms = {4, 5}
  MaxGpus = 8
INVARIANTS
  PoolHoldsSessions
  SmallestCluster
  BindingRunsOut
CHECK_DEADLOCK FALSE
