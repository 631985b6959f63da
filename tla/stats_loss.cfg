CONSTANTS
  Records = 3
  MaxBuffer = 2
  Threads = 2
  MaxFaults = 1
SPECIFICATION Spec
PROPERTY FlushLosesNothing
CHECK_DEADLOCK FALSE
