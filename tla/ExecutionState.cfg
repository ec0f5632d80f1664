SPECIFICATION Spec
CONSTANTS
  p1 = p1
  p2 = p2
  p3 = p3
  Process = {p1, p2, p3}
  Host = {"h1", "h2"}
  HostOf <- MCHostOf
  Session = {s1}
  Root = {r1}
  Node = {n1, n2}
  Contract = {c1}
  GraphRevision = {1, 2}
  MaxGeneration = 6
  NoLease = NoLease
INVARIANTS
  TypeOK
  NoAttemptForgotten
  PendingKeepsItsBasis
PROPERTIES
  OwnershipMovesOnlyFromTheDead
  ReleaseRequestHolds
  LegacyActionStaysBlocked
  GraphNeverMovesBack
  LedgerIsImplemented
