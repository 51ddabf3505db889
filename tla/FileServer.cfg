SPECIFICATION LiveSpec
CONSTANTS
  c0 = c0
  c1 = c1
  c2 = c2
  file1 = file1
  file2 = file2
  Procs = {c0, c1}
  Root = c0
  MAXOPEN = 2
  NFds = 3
  Files = {file1, file2}
  Initial <- MCInitial
  Counts = {2}
  MaxCalls = 4
  MayFail = TRUE
  NULL = NULL
INVARIANTS ServerOK
PROPERTIES Answered ImplementsFileService
CHECK_DEADLOCK FALSE
