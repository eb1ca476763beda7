CONSTANTS
  e1 = e1
  e2 = e2
  e3 = e3
  Engines = {e1, e2, e3}
  NoOne = NoOne
  NoFile = NoFile
  Closed = Closed
  MaxSessions = 2
  MaxPresses = 0
  MaxFaults = 0
SPECIFICATION FairSpec
PROPERTY AdoptsOrLaunches
CHECK_DEADLOCK FALSE
