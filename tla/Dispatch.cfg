SPECIFICATION Spec
CHECK_DEADLOCK FALSE
CONSTANTS
  Process = {p1, p2}
  Call = {c1, c2}
  Obj = {o1, o2}
  NoObj = NoObj
  Refresh = Refresh
  Change = Change
  Overlap = FALSE
  Kinds = {"checkout", "plan", "checkpoint", "complete"}
  NoLease = NoLease
  MaxGeneration = 5
  MaxRevision = 3
  MaxEpoch = 3
  Scenarios <- MCScenarios
SYMMETRY Symmetry
INVARIANTS
  TypeOK
  BodyRunsUnderItsAttempt
  BodyRunsOnItsGraph
  AuthorityIsUsedOnce
  LeaseFollowsGraph
  CheckpointIsRecoverable
PROPERTIES
  RevokedAuthorityEntersNoBody
  PlanChangesUnderItsFence
  BodiesAreGuarded
