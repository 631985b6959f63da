CONSTANTS
  Tools = {t1, t2}
  Calls = {a, b}
  Workers = {w1, w2}
  NoWorker = NoWorker
  NoCall = NoCall
SPECIFICATION Spec
INVARIANT OwnAnswer
CHECK_DEADLOCK FALSE
