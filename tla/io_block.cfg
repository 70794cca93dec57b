SPECIFICATION LiveSpec
CONSTANTS
  SuperBlockCnt = 3
  CrcBytes = 1
  Geometries <- Mixed
  Modes = {"DAL_READ", "DAL_WRITE"}
  AbortReads = FALSE
  MayFail = TRUE
CHECK_DEADLOCK FALSE
INVARIANTS DataIsRight BlocksAreSafe
PROPERTIES CallsReturn
