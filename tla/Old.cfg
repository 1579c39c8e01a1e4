SPECIFICATION FairSpec
CONSTANTS
  c1 = c1
  c2 = c2
  Conns <- MCConns
  MaxSay <- MCMaxSay
  Backlog = 1
  Unreached = {c2}
  MaxFd = 2
  MaxClient = 2
  Fit = 2
  Strays = {s1}
  None = None
CHECK_DEADLOCK FALSE
INVARIANTS
  ThreadsFit
  ConnectTruth
PROPERTIES
  GivenUp
