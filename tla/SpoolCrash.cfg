CONSTANTS
  u1 = u1
  u2 = u2
  Urls = {u1, u2}
  MaxDocs = 2
  ReadMax = 2
  CommitDocs = 2
  MaxEngineExits = 1
  MaxAppExits = 0
  MaxFaults = 0
  StaleCounters = TRUE
  CursorWriteFails = FALSE
SPECIFICATION Spec
INVARIANT NoDocLost
CHECK_DEADLOCK FALSE
