SPECIFICATION Spec
CONSTANTS
  Procs = {p1, p2}
  NoProc = NoProc
  NINODES = 5
  NBlocks = 11
  BSIZE = 2
  NDIRECT = 2
  NINODE = 5
  NFILE = 2
  NOFILE = 2
  MAXOPBLOCKS = 6
  Files <- MCFiles
  Dirs <- MCDirs
  Menu <- MCMenu
  Sizes = {1, 7}
  MaxCalls = 3
  MaxCrashes = 1
SYMMETRY Symmetry
INVARIANTS
  DiskConsistent
  RefsExact
  NoPanic
  NoDeadlock
  OpFits
CHECK_DEADLOCK FALSE
