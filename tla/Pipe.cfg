SPECIFICATION LiveSpec
CONSTANTS
  Root = r
  Envs = {r, c1}
  NSlots = 2
  BufSize = 2
  NCPU = 1
  MaxBytes = 3
  MaxCalls = 6
  MayFail = TRUE
  NULL = NULL
INVARIANTS DescriptorsOK
PROPERTIES ClosedIsTrue ImplementsByteStream CallsEnd
CHECK_DEADLOCK FALSE
