CONSTANTS
  Mems = {m1, m2}
  Calls = {a, b, c}
  QueueSize = 1
  MaxRetries = 2
  MaxCrashes = 1
  Unborn = Unborn
  Gone = Gone
  NoVector = NoVector
  Worker = Worker
  Nobody = Nobody
SPECIFICATION Spec
INVARIANTS TypeOK HistoryComplete HistoryExact VectorFresh NoOrphanHistory
PROPERTIES CallsEnd VectorArrives CallsAtomic
CHECK_DEADLOCK FALSE
