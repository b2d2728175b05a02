SPECIFICATION FairSpec
CONSTANTS
  Threads = {t1}
  Updaters = {t1}
  Readers = {}
  Keys = {64, 128, 192, 256}
  NoKey = NoKey
  Buckets = 64
  Entries = 3
  Tries = 16
  PercHalve = 2
  DoGc = FALSE
  FirstVersions = {0}
  VersionMax = 100
  MaxPuts = 4
  MaxTables = 3
PROPERTIES
  CallsReturn
CHECK_DEADLOCK FALSE
