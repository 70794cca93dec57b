SPECIFICATION Spec
CONSTANTS
  m1 = m1
  NoOne = NoOne
  NumProd = 1
  NumCons = 1
  MaxQDepth = 2
  InitFlags = {}
  Masters = {m1}
  Creator = m1
  Ops <- CoreOps
  SetFlags = {"HALT", "FINISHED", "ABORT"}
  UnsetFlags = {"HALT"}
  CheckFirst = FALSE
  InitRes = {0}
  PauseRes = {0}
  ProdRes = {0, 1}
  ConsRes = {0}
  CreateMayFail = TRUE
  Spurious = FALSE
  UintMod = 16
  MaxWork = 3
CHECK_DEADLOCK FALSE
INVARIANTS TypeOK WorkIsSafe ActThrdsExact HaltedThreadsStayPut PauseIsQuiescent
PROPERTIES ImplementsFifo
