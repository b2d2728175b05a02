SPECIFICATION MCSpec
CONSTANTS
  Workers = 3
  Initial = 2
  KeyRange = 4
  IntBits = 2
  ScalePut = 3
  ScaleRem = 7
  MaxOps = 1
  MaxSpurious = 1
  Threads = {1, 2}
  Objects = {1, 2}
  StressKeys = {2, 3}
  Entries = 2
  MaxAllocs = 3
  DirtySlots = {2}
  CacheKeys = {2, 3}
  CacheObjects = {1, 2, 3}
  Fills = 1
  CacheAllocs = 4
INVARIANTS BmarksTypeOK PhasesSeparate ObjectsOnce ReadsRight StressSlotsHeld Counted
PROPERTIES TestEnds
CHECK_DEADLOCK FALSE
