SPECIFICATION Spec
CONSTANTS
  file1 = file1
  file2 = file2
  Files = {file1, file2}
  Blocks = {4, 5}
  BITMAP = 2
  DIR = 3
  NDirect = 1
  Values = {6}
  MaxCrashes = 1
  NONE = NONE
SYMMETRY FileSymmetry
INVARIANTS CacheOK Ownership ContentsKept
CHECK_DEADLOCK FALSE
