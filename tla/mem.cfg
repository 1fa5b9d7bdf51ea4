SPECIFICATION Spec
CONSTANTS
  Procs = {p1, p2}
  InitProc = p1
  Values = {"v"}
  Addresses = {0}
  Programs <- MCPrograms
  Deltas <- MCDeltas
  ARGC = 1
  MaxSz = 6
  NPages = 20
  PGSIZE = 2
  FAN = 2
VIEW View
INVARIANTS
  PagesOwned
  NoVmPanic
PROPERTY
  ImplementsSpaces
CHECK_DEADLOCK FALSE
