CONSTANTS
  h1 = h1
  h2 = h2
  a1 = a1
  a2 = a2
  b1 = b1
  NoItem = NoItem
  HostOf <- MCHostOf
  Hosts = {h1, h2}
  Items = {a1, a2, b1}
  Burst = 1
  Workers = 2
  ResultsCap = 1
  Target = 2
  MaxJobs = 2
  MaxFails = 1
  RespectRobots = {TRUE, FALSE}
  Delay = 1
  MaxDelay = 1
  MaxFaults = 1
  MaxDrops = 1
SPECIFICATION Spec
INVARIANTS TypeOK HostLoadBounded RingExact ItemsConserved
CHECK_DEADLOCK FALSE
