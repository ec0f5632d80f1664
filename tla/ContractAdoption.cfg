SPECIFICATION Spec
CHECK_DEADLOCK FALSE
CONSTANTS
  root = root  child = child  quiet = quiet  change = change  note = note
  Root = root
  Child = {child}
  RootInput = {quiet, change}
  ChildInput = {note}
  Material = {change}
  Recipient <- MCRecipient
  Windows = {}
  MaxRevision = 3
  Budgets <- MCBudgets
INVARIANTS TypeOK InterruptedReframeStaysFenced AnchorLeads
PROPERTIES EveryInputIsAnswered FenceClearedOnlyByAdoption  RestartAllowsReframe
