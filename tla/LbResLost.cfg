SPECIFICATION Spec
CONSTANTS
  t1 = t1
  t2 = t2
  Threads = {t1, t2}
  Putters = {t1, t2}
  Removers = {t1}
  Readers = {}
  Keys = {1, 2, 3}
  NoKey = 0
  NoThread = NoThread
  Buckets = 1
  Entries = 1
  PercHalve = 5
  Occup = 40
  MaxUpdates = 3
  MaxTables = 2
INVARIANTS
  SizeAccounts
CHECK_DEADLOCK FALSE
