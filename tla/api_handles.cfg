SPECIFICATION Spec
CONSTANTS
  t1 = t1
  t2 = t2
  u1 = u1
  u2 = u2
  h1 = h1
  h2 = h2
  Threads <- McThreads
  Users <- McUsers
  Handles <- McHandles
  MaxOffset = 1
  Subspaces <- McSubspaces
  Entries <- McEntries
  AtRoot = TRUE
  BufSize = 2
SYMMETRY Symmetry
INVARIANTS HandlesAreSound RequestsAreRight
