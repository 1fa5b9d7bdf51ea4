SPECIFICATION Spec
CONSTANTS
  Threads = {t1, t2}
  Slots = {s1, s2}
  NoThread = NoThread
  Blocks = {b1, b2, b3}
  Values = {0, 1}
  InitValue = 0
  NBUF = 2
  LOGSIZE = 2
SYMMETRY Symmetry
INVARIANTS
  RefcntExact
  PanicsOnlyFull
  SleepersOnHeldLock
PROPERTY
  ImplementsStore
CHECK_DEADLOCK FALSE
