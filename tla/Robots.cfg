CONSTANTS
  h1 = h1
  w1 = w1
  Hosts = {h1}
  Workers = {w1}
  NoRecord = NoRecord
  Idle = Idle
  TTL = 2
  Answers = {"rules", "none", "trouble", "down"}
  RespectRobots = {TRUE, FALSE}
  MaxChanges = 1
  MaxRuns = 2
  MaxButtons = 1
  AgentLen <- MCAgentLen
  Paths <- MCPaths
  Lines <- MCLines
SPECIFICATION MCSpec
INVARIANTS TypeOK RulesHaveReason FetchingIsServed CopyAgeBounded MatchIsGlob RulesByPosition
PROPERTY NewRulesReach
CHECK_DEADLOCK FALSE
