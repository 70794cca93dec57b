\* Two data blocks and one erasure block, four stripes in ioblocks of two.
CONSTANTS
  N = 2
  E = 1
  TotSz = 7
  Split = 2
  SuperBlockCnt = 2
  Modes = {"NE_RDONLY", "NE_RDALL", "NE_REBUILD"}
  Damages <- AnyDamage
  ReadSizes = {3}
  SeekTargets = {1, 5}
  Reuse = FALSE
SPECIFICATION LiveSpec
CHECK_DEADLOCK FALSE
INVARIANTS ReadsAreRight
PROPERTIES RebuildIsSafe CallsReturn
