SPECIFICATION Spec
CONSTANTS
  Threads = {t1, t2}
  Updaters = {t1, t2}
  Readers = {t1, t2}
  Keys = {1, 2}
  NoKey = NoKey
  Buckets = 1
  Entries = 1
  Tries = 0
  PercHalve = 2
  DoGc = FALSE
  FirstVersions = {0}
  VersionMax = 100
  MaxPuts = 2
  MaxTables = 3
INVARIANTS
  SizeAccounts
CHECK_DEADLOCK FALSE
