\* One data block and two erasure blocks, stored with an offset of one; two ranks.
SPECIFICATION SceneSpec
CONSTANTS
  N = 1
  E = 2
  O = 1
  MIN_PROTECTION = 1
  MIN_MD_CONSENSUS = 2
  MaxMishaps = 2
  r1 = r1
  r2 = r2
  Ranks = {r1, r2}
  Ops <- MCOps
  Owner <- MCOwner
  Mixes <- MCMixes
  MaxFaults = 1
CHECK_DEADLOCK FALSE
INVARIANTS ObjectIsSafe LogIsTrue OnlyErrorsStay
PROPERTIES AnswersAreTrue
