SPECIFICATION FairSpec
CONSTANTS
  c1 = c1
  c2 = c2
  c3 = c3
  Conns <- MCConns
  Speakers <- MCSpeakers
  MaxFd = 3
  PollSize = 3
  BuffSize = 2
  Window = 2
  MaxSay = 2
  Shortage = TRUE
  None = None
CHECK_DEADLOCK FALSE
INVARIANTS
  EntriesExact
  EchoExact
PROPERTIES
  RoundComplete
  Received
