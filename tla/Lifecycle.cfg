CONSTANTS
  u1 = u1
  u2 = u2
  c1 = c1
  c2 = c2
  Urls = {u1, u2}
  Callers = {c1, c2}
  Workers = 1
  Slots = 1
  MaxCalls = 3
  MaxLeases = 2
SPECIFICATION FairSpec
INVARIANTS TypeOK StoppedIsQuiet NoStuckWork
PROPERTY StopReturns
CHECK_DEADLOCK FALSE
