SPECIFICATION Spec
CONSTANTS
  t1 = t1
  t2 = t2
  t3 = t3
  k1 = k1
  k2 = k2
  Threads = {t1, t2}
  Keys = {k1, k2}
  NoKey = NoKey
  Entries = 2
  VersionMod = 4
  MaxPuts = 3
  DistinctVals = TRUE
SYMMETRY Symmetry
INVARIANTS
  TypeOK
  NoDuplicateKeys
  InsertSlotsHeld
PROPERTIES
  ValidSlotsStable
  ImplementsMap
