SPECIFICATION Spec
CHECK_DEADLOCK FALSE
CONSTANTS
  Process = {p1, p2, p3}
  NoLock = none
  MaxCall = 3
  MaxCrash = 2
SYMMETRY ProcessSymmetry
INVARIANTS OwnerKeepsTheLock RemovesOnlyTheDead
