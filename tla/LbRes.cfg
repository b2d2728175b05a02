SPECIFICATION Spec
CONSTANTS
  t1 = t1
  t2 = t2
  Threads = {t1, t2}
  Putters = {t1, t2}
  Removers = {t1}
  Readers = {t2}
  Keys = {1, 2, 3}
  NoKey = 0
  NoThread = NoThread
  Buckets = 1
  Entries = 1
  PercHalve = 5
  Occup = 40
  MaxUpdates = 4
  MaxTables = 3
INVARIANTS
  TypeOK
  LockDiscipline
  ResizedOnce
PROPERTIES
  ImplementsMapUnlessRaced
