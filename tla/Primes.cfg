SPECIFICATION LiveSpec
CONSTANTS
  NPROC = 8
  NPIPE = 7
  NFD = 18
  PIPE_BUF = 2
  MayFail = TRUE
  NULL = NULL
  N = 13
  TTY = TRUE
INVARIANTS OutputOK MainIsLast
PROPERTIES Ends
CHECK_DEADLOCK FALSE
