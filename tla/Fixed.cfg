SPECIFICATION Spec
CONSTANTS
  t1 = t1
  t2 = t2
  k1 = k1
  k2 = k2
  Threads = {t1, t2}
  Keys = {k1, k2}
  NoKey = NoKey
  NoThread = NoThread
  Entries = 1
  MaxPuts = 3
  Garbage = 99
  KeyBlck = KeyBlck
  MapSlots = 2
  MapPuts = 2
  t3 = t3
  RtmThreads = {t1, t2, t3}
  Counts = 3
SYMMETRY Symmetry
INVARIANTS
  TypeOK
  MarksHeld
  SizeRight
  LockExcludes
PROPERTIES
  LbImplementsMap
  LockInsImplementsMap
  PackedImplementsMap
  MapRemImplementsMap
