SPECIFICATION FairSpec
CONSTANTS
  Procs = {p1, p2, p3}
  NoProc = NoProc
  Handler = Handler
  Values = {0, 1}
  InitValue = 0
  NUM = 7
  Word = 14
  Start = 12
  MaxCalls = 3
VIEW View
CHECK_DEADLOCK FALSE
INVARIANTS
  RequestsOwned
PROPERTIES
  Implements
  CallReturns
