SPECIFICATION Spec
CONSTANTS
  Ranks = {r1, r2}
  Producers = {p1, p2}
  NSCount = 2
  RefNodes <- MCRefNodes
  Absent <- MCAbsent
  MaxFatal = 1
CHECK_DEADLOCK FALSE
INVARIANTS ScannedOnce NoneForgotten
PROPERTIES IterationEnds
