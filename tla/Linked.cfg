SPECIFICATION MCSpec
CONSTANTS
  Threads = {t1, t2}
  Removers = {t1}
  Readers = {t2}
  Keys = {1, 3, 9}
  NoKey = 0
  Buckets = 2
  Extra = 2
  Entries = 1
  MaxUpdates = 4
  MaxTables = 4
  SoftHops = 1
  Emergency = 2
  PercHalve = 5
  PercDouble = 75
  MaxAvg = 1
INVARIANTS
  LinkedTypeOK
  LocksReleased
  KeysReachable
PROPERTIES
  LinkedImplementsMap
CHECK_DEADLOCK FALSE
