CONSTANTS
  u1 = u1
  u2 = u2
  Urls = {u1, u2}
  MaxDocs = 3
  ReadMax = 2
  CommitDocs = 2
  MaxEngineExits = 1
  MaxAppExits = 1
  MaxFaults = 1
  StaleCounters = FALSE
  CursorWriteFails = TRUE
SPECIFICATION FairSpec
INVARIANTS TypeOK NoDocLost DepthCovers
PROPERTIES ImplementsHandoff EveryDocIndexed
CHECK_DEADLOCK FALSE
