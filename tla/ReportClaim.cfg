CONSTANTS
    Nil = Nil
    Gone = Gone
    Scaffold = Scaffold
    NotANumber = NotANumber
    Null = Nil
    Absent = Gone
    Todo = Scaffold
    NaN = NotANumber
    Truths <- MCTruths
    Spoiled <- MCSpoiled
    Pairs <- MCPairs
SPECIFICATION Spec
INVARIANTS
  NothingHidden
  CaveatsRideAlong
  NoTierEscapesPrefill
PROPERTIES
  RemediesConverge
CHECK_DEADLOCK FALSE
