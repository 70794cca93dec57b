SPECIFICATION SceneSpec
CONSTANTS
  MaxAttempts = 3
  MaxCrashes = 4
  StreamFiles = {0, 1}
  ObjsOf <- MCObjsOf
  Stripe = {1, 2}
  Spare = 2
  MarkReaders = {p1}
  Rebuilders = {t1}
  NoMark = NoMark
  MaxDamage = 2
  MaxMarkMishaps = 1
CHECK_DEADLOCK FALSE
INVARIANTS ContentIsKept RefsAgree MarkersAreSound
PROPERTIES CleanupTellsTheTruth MaintenanceEnds
