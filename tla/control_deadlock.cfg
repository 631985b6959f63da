CONSTANTS
  r1 = r1
  r2 = r2
  Requests <- TwoRequests
  Holders <- TwoRequests
  Servers = {s1}
  Clients = {c1, c2, c3, c4}
  Jobs = {j1, j2, j3}
  NoClient = NoClient
  NoJob = NoJob
  Free = Free
SPECIFICATION ReqSpec
INVARIANT NoSelfDeadlock
CHECK_DEADLOCK FALSE
