CONSTANTS
  h1 = h1
  w1 = w1
  Hosts = {h1}
  Workers = {w1}
  NoRecord = NoRecord
  Idle = Idle
  TTL = 2
  Answers = {"trouble"}
  RespectRobots = {TRUE}
  MaxChanges = 0
  MaxRuns = 1
  MaxButtons = 1
  AgentLen <- MCAgentLen
  Paths <- MCPaths
  Lines <- MCLines
SPECIFICATION MCSafety
INVARIANT TroubleBacksOff
CHECK_DEADLOCK FALSE
