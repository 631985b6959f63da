CONSTANTS
  Records = 3
  MaxBuffer = 2
  Threads = 2
  MaxFaults = 1
SPECIFICATION Spec
INVARIANTS TypeOK KeptUnlessOverflow StopWritesAll
PROPERTIES WriterProgresses FileIsLog
CHECK_DEADLOCK FALSE
