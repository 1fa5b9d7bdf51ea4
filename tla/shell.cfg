SPECIFICATION Spec
CONSTANTS
  MAXARGS = 4
  NPROC = 6
  NOFILE = 5
  NFILE = 6
  PIPESIZE = 1
  Files = {"f", "g"}
  Lines <- MCLines
  MaxLines = 2
CHECK_DEADLOCK FALSE
INVARIANTS
  RunsAsWritten
PROPERTIES
  PromptReturns
