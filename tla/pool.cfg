CONSTANTS
  Tools = {t1}
  Calls = {a, b, c}
  Workers = {w1, w2, w3}
  NoWorker = NoWorker
  NoCall = NoCall
SPECIFICATION Spec
INVARIANTS TypeOK SoloOwnAnswer SoloNoOrphan
PROPERTIES CallsEnd PoolServes
CHECK_DEADLOCK FALSE
