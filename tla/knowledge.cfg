CONSTANTS
  Sections = {s1}
  Texts = {t1, t2}
  t1 = t1
  Links <- MCLinks
  FirstDisk <- MCFirstDisk
  Calls = {a, b}
  Ids = {i1,i2,i3}
  BatchSize = 1
  MaxEdits = 1
  MaxCrashes = 1
  Note = Note
  NoText = NoText
  NoChunk = NoChunk
  NoVector = NoVector
  NoId = NoId
  Unsaid = Unsaid
SPECIFICATION Spec
INVARIANTS TypeOK OrphanVectors Embedded StoredAsSaid
PROPERTIES ReportsTrue CallsEnd
CHECK_DEADLOCK FALSE
