CONSTANTS
  e1 = e1
  e2 = e2
  e3 = e3
  Engines = {e1, e2, e3}
  NoOne = NoOne
  NoFile = NoFile
  Closed = Closed
  MaxSessions = 3
  MaxPresses = 3
  MaxFaults = 3
SPECIFICATION FairSpec
INVARIANTS TypeOK ServingIsFindable StopHolds
PROPERTY WantedIsServed
CHECK_DEADLOCK FALSE
