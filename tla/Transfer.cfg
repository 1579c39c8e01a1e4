SPECIFICATION FairSpec
CONSTANTS
  c1 = c1
  c2 = c2
  c3 = c3
  fa = fa
  fb = fb
  Conns <- MCConns
  Names = {fa, fb}
  Told <- MCTold
  Size <- MCSize
  OldSize <- MCOldSize
  NameRoom = 2
  BuffSize = 2
  MaxFd = 3
  Faulty = {c1}
  None = None
CHECK_DEADLOCK FALSE
INVARIANTS
  Stored
  DescriptorsExact
PROPERTIES
  Completed
