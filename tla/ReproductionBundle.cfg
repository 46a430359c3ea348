SPECIFICATION BundleSpec
CONSTANTS
  OwnFiles = {"records", "configs"}
  Cap = 2
  MaxLog = 5
  MaxGen = 1
INVARIANTS
  UntouchedVerifies
  ChangesReported
CHECK_DEADLOCK FALSE
