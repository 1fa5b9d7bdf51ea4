SPECIFICATION Spec
CONSTANTS
  p1 = p1
  p2 = p2
  Procs = {p1, p2}
  Harts = {0, 1}
  NoHart = NoHart
  Scenarios <- MCScenarios
  INPUT_BUF = 2
  UART_TX_BUF_SIZE = 2
  Word = 4
  Start = 3
  ReadSize = 2
  WriteSize = 3
  SleepTicks = 1
CHECK_DEADLOCK FALSE
INVARIANTS
  NoTrapPanic
  ReturnsIntact
  InputInOrder
  OutputInOrder
  SleepersHaveReason
VIEW View
