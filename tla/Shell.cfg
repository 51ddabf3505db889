SPECIFICATION LiveSpec
CONSTANTS
  NPROC = 6
  NPIPE = 2
  NFD = 4
  PIPE_BUF = 1
  MayFail = TRUE
  NULL = NULL
  Lines <- MCLines
  Output = 2
  Codes = {1}
  MaxLines = 2
INVARIANTS ProcessesOK ForegroundGone NeighboursJoined
PROPERTIES ShellReturns
CHECK_DEADLOCK FALSE
