CONSTANTS
  u1 = u1
  u2 = u2
  Urls = {u1, u2}
  Seeds = {u1, u2}
  MaxSeq = 3
  MaxBatch = 2
  MaxCrashes = 1
  MaxOps = 1
  JitterRepeats = FALSE
SPECIFICATION Spec
INVARIANTS TypeOK NoWorkLost LeaseKeysSafe RecrawlScheduled PendingExact
PROPERTY ImplementsWorkList
CHECK_DEADLOCK FALSE
SYMMETRY Symmetry
