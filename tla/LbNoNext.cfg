SPECIFICATION FairSpec
CONSTANTS
  Threads = {t1, t2}
  Removers = {t1, t2}
  Readers = {t2}
  Keys = {1, 2, 5}
  NoKey = 0
  Buckets = 2
  Extra = 0
  Entries = 1
  MaxUpdates = 3
  MaxTables = 4
  Builds = {FALSE, TRUE}
INVARIANTS
  OneSuccessor
PROPERTIES
  ImplementsMap
  CallsReturn
