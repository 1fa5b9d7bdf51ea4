SPECIFICATION Spec
CONSTANTS
  Threads = {t1, t2}
  Blocks = {b1, b2, b3}
  Values = {0}
  InitValue = 0
  NoThread = NoThread
  Absent = Absent
  MAXOPBLOCKS = 2
  LOGSIZE = 4
  LogBlocks = 4
SYMMETRY Symmetry
INVARIANT ReservationSuffices
