SPECIFICATION Spec
CHECK_DEADLOCK FALSE
CONSTANTS
  Process = {p1, p2, p3, p4}
  NoLock = none
  MaxCall = 1
  MaxCrash = 2
SYMMETRY ProcessSymmetry
INVARIANTS OwnerKeepsTheLock
