SPECIFICATION Spec
CONSTANTS
  w1 = w1  w2 = w2  reader = reader  guard = guard  none = none
  Writer = {w1, w2}
  Reader = {reader}
  SyncReader = {guard}
  Process = {"p1", "p2"}
  ProcOf <- MCProcOf
  NoFile = none
  SnapshotEvery = 2
  MaxMutation = 4
  Scenarios <- MCScenarios
INVARIANTS Recoverable FailedStaysOut
PROPERTIES ReadsAreCommitted CommitsExtendTheLog
