SPECIFICATION Spec
CONSTANTS
  ObjSize = 4
  ObjFiles = 2
  HeaderLen = 1
  InfoLens <- MCInfoLens
  NewInfoLens <- MCNewInfoLens
  LongPaths = FALSE
  MaxFiles = 3
  MaxBytes = 2
  TruncLens = {1}
  MaxDegraded = 1
  CreateAfterExtend = FALSE
  Editors = {e1}
CHECK_DEADLOCK FALSE
INVARIANTS StreamIsSafe
PROPERTIES CloseCompletes
