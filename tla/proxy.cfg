CONSTANTS
  Servers = {s1, s2}
  Clients = {c1, c2, c3, c4, c5, c6}
  Jobs = {j1, j2, j3}
  Holders <- NoHolders
  NoClient = NoClient
  NoJob = NoJob
  Free = Free
SPECIFICATION FairSpec
INVARIANTS TypeOK RegistryAgrees ClientsApart CalmNoLeak CalmSettled
PROPERTIES SessionsKept
CHECK_DEADLOCK FALSE
