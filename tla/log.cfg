SPECIFICATION FairSpec
CONSTANTS
  Threads = {t1, t2, t3}
  Blocks = {b1, b2}
  Values = {0, 1}
  InitValue = 0
  NoThread = NoThread
  Absent = Absent
  MAXOPBLOCKS = 1
  LOGSIZE = 2
  LogBlocks = 3
INVARIANTS
  PinBalance
  NoProtocolPanic
PROPERTIES
  CrashAtomic
  SleeperWoken
