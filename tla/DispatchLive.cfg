SPECIFICATION FairSpec
CHECK_DEADLOCK FALSE
CONSTANTS
  Process = {p1}
  Call = {c1}
  Obj = {o1, o2}
  NoObj = NoObj
  Refresh = Refresh
  Change = Change
  Overlap = FALSE
  Kinds = {"plan"}
  NoLease = NoLease
  MaxGeneration = 7
  MaxRevision = 3
  MaxEpoch = 2
  Scenarios <- MCLiveScenarios
PROPERTIES
  EveryToolEnds
