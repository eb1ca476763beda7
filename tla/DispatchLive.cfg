CONSTANTS
  h1 = h1
  h2 = h2
  a1 = a1
  a2 = a2
  b1 = b1
  NoItem = NoItem
  HostOf <- MCHostOf
  Hosts = {h1, h2}
  Items = {a1, a2, b1}
  Burst = 1
  Workers = 1
  ResultsCap = 1
  Target = 2
  MaxJobs = 1
  MaxFails = 1
  RespectRobots = {TRUE}
  Delay = 1
  MaxDelay = 1
  MaxFaults = 1
  MaxDrops = 0
SPECIFICATION FairSpec
PROPERTY QueuedIsReported
CHECK_DEADLOCK FALSE
