CONSTANTS
  u1 = u1
  u2 = u2
  Urls = {u1, u2}
  Fingerprints <- MCFingerprints
  BandWidth = 2
  Bands = 2
  NearThreshold = 1
  RowLimit = 1
  RecentLimit = 2
  MaxDelta = 1
  None = None
  Closed = Closed
  MaxBatch = 2
  MaxPages = 3
  MaxFaults = 1
SPECIFICATION FairSpec
INVARIANTS TypeOK SuppressedHasOriginal
PROPERTY DashboardCatchesUp
CHECK_DEADLOCK FALSE
