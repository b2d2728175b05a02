SPECIFICATION LoneSpec
CONSTANTS
  t1 = t1
  t2 = t2
  t3 = t3
  k1 = k1
  k2 = k2
  Threads = {t1, t2}
  Keys = {k1, k2}
  NoKey = NoKey
  Entries = 2
  VersionMod = 4
  MaxPuts = 2
  DistinctVals = TRUE
INVARIANTS
  IInv
PROPERTIES
  LoneCallReturns
  LoneGetReturns
