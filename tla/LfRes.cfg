SPECIFICATION MCSpec
CONSTANTS
  Threads = {t1, t2}
  Updaters = {t1}
  Readers = {t2}
  Keys = {1, 2, 3}
  NoKey = NoKey
  Buckets = 1
  Entries = 1
  Tries = 1
  PercHalve = 2
  DoGc = FALSE
  FirstVersions = {0}
  VersionMax = 100
  MaxPuts = 3
  MaxTables = 3
INVARIANTS
  TypeOK
  TablesLinked
  CollectorSafe
  NoTableLost
PROPERTIES
  ResImplementsMap
CHECK_DEADLOCK FALSE
