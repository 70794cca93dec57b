SPECIFICATION Spec
CONSTANTS
  Layouts <- MCLayouts
  Tails = {"eos"}
  Consumers = {c1, c2}
  MaxCrashes = 1
  MaxFaults = 0
  SplitMayFail = FALSE
  MaxUnlinks = 3
CHECK_DEADLOCK FALSE
INVARIANT RefsThere
