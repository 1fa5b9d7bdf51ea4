SPECIFICATION Spec
CONSTANTS
  Readers = {r1, r2}
  Writers = {w1, w2}
  Bytes = {b0, b1}
  NoByte = NoByte
  NoProc = NoProc
  PIPESIZE = 2
  Word = 4
  MaxN = 2
SYMMETRY Symmetry
CHECK_DEADLOCK FALSE
INVARIANTS ReaderWoken WriterWoken NoUseAfterFree
PROPERTY IsFifo
