CONSTANTS
  Servers = {s1, s2}
  Clients = {c1, c2, c3, c4, c5}
  Jobs = {j1, j2}
  Holders <- NoHolders
  NoClient = NoClient
  NoJob = NoJob
  Free = Free
SPECIFICATION Spec
INVARIANT ReloadConnects
CHECK_DEADLOCK FALSE
