SPECIFICATION FairSpec
CONSTANTS
  t1 = t1
  t2 = t2
  t3 = t3
  p1 = p1
  p2 = p2
  p3 = p3
  Task = {t1, t2, t3}
  Process = {p1, p2, p3}
  ProcOf <- MCProcOf
  Host = {"h1", "h2"}
  HostOf <- MCHostOf
  Token = {k1, k2, k3}
  NoToken = NoToken
  MaxVersion = 1
  MaxCrash = 2
  IOFaults = FALSE
PROPERTIES
  DeadOwnersLockIsReclaimed
