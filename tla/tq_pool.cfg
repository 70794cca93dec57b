SPECIFICATION FairSpec
CONSTANTS
  m1 = m1
  NoOne = NoOne
  NumProd = 1
  NumCons = 2
  MaxQDepth = 1
  InitFlags = {}
  Masters = {m1}
  Creator = m1
  Ops <- PoolOps
  SetFlags = {"FINISHED", "ABORT"}
  UnsetFlags = {"HALT"}
  CheckFirst = TRUE
  InitRes <- MayFail
  PauseRes <- MayFail
  ProdRes <- PoolResult
  ConsRes <- WriteResult
  CreateMayFail = FALSE
  Spurious = TRUE
  UintMod = 16
  MaxWork = 2
CHECK_DEADLOCK FALSE
INVARIANTS EndIsReached
PROPERTIES Drains
