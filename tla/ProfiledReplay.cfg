SPECIFICATION ProfiledSpec
CONSTANTS
  Users = {u1, u2}
  None = None
  Missing = Missing
  Campaigns <- MCCampaigns
  Plans <- MCPlans
  SharedPrefixes = {0, 2}
  SessionBase <- MCBases
  MaxOrdinal = 3
  RecentMax = 2
SYMMETRY FleetSymmetry
INVARIANTS
  OnlySharedPrefixInCommon
  IdleFitsSession
  ProfileAgreesWithReplay
  ProfiledNeverRefused
PROPERTIES
  MemolessReplay
  PrefixExtends
CHECK_DEADLOCK FALSE
