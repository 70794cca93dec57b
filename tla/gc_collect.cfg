SPECIFICATION Spec
CONSTANTS
  Layouts <- MCLayouts
  Tails = {"eos", "fin", "open"}
  Consumers = {c1, c2}
  MaxCrashes = 1
  MaxFaults = 1
  SplitMayFail = FALSE
  MaxUnlinks = 2
CHECK_DEADLOCK FALSE
INVARIANTS DataIsKept StreamHoldsTogether
PROPERTIES UsageIsRight GarbageGoes
