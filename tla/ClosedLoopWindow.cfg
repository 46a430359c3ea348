SPECIFICATION FairSpec
CONSTANTS
  Users = {u1, u2}
  None = None
  WindowS = 1
  DrainDeadlineS = 1
  WarmupRequests = 2
  WarmupS = 0
  ThinkTimeS = 1
  Dephase = TRUE
  ServerOutcomes = {"ok", "refused"}
  ClockSkew = 1
  WarmHorizon = 0
  Lateness = 1
INVARIANTS
  TypeOK
  EveryRequestOnce
  ResidualBounded
  CohortsAgree
PROPERTIES
  WarmupQuotaExact
  KeepsLedger
  WindowEnds
CHECK_DEADLOCK FALSE
