CONSTANTS
  Commands = {c1, c2, c3}
  ToolCalls = {c2}
  Pids = {p1, p2, p3}
  MaxCrashes = 1
  MaxAborts = 1
  AtOnce = 2
  NoPid = NoPid
  Torn = Torn
SPECIFICATION Spec
INVARIANTS TypeOK Owned
PROPERTIES OldHostEnds CommandsEnd HostManaged
CHECK_DEADLOCK FALSE
