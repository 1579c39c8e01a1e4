SPECIFICATION FairSpec
CONSTANTS
  c1 = c1
  c2 = c2
  c3 = c3
  c4 = c4
  Conns <- MCConns
  MaxSay <- MCMaxSay
  Leavers <- MCLeavers
  MaxFd = 4
  MaxClients = 3
  BuffSize = 3
  Window = 1
  Shortage = TRUE
  None = None
CHECK_DEADLOCK FALSE
INVARIANTS
  BuffersExact
  StreamExact
  MarkExact
PROPERTIES
  Answered
