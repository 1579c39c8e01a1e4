SPECIFICATION FairSpec
CONSTANTS
  c1 = c1
  c2 = c2
  c3 = c3
  Conns <- MCConns
  MaxFd = 2
  MaxEvents = 2
  BuffSize = 2
  Window = 2
  MaxSay <- MCMaxSay
  None = None
CHECK_DEADLOCK FALSE
INVARIANTS
  EventsFresh
  NotForgotten
  EchoExact
PROPERTIES
  DepartedClosed
