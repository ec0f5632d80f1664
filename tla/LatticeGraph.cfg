SPECIFICATION Spec
CHECK_DEADLOCK FALSE
CONSTANTS
  Session = {root, child}
  Root = root
  NoLease = none
  InitialPlans <- BootstrapOrEmpty
  TopLevelLimit = 1
  NestedLimit = 2
  MaxNode = 4
  MaxContract = 2
INVARIANTS TypeOK LeasedLeafIsWorkable FinishedMeansFinishedBelow CompleteUnderTheContract FrontierShowsTheWork
PROPERTIES HistoryIsKept
