SPECIFICATION FairSpec
CONSTANTS
  c1 = c1
  c2 = c2
  c3 = c3
  Conns <- MCConns
  Speakers <- MCSpeakers
  MaxFd = 2
  Agents = 1
  None = None
CHECK_DEADLOCK FALSE
INVARIANTS
  Permits
  AtMostAgents
PROPERTIES
  AgentComes
