SPECIFICATION Spec
CONSTANTS
  Conns = {c1, c2, c3}
  Users = {u1, u2, u3}
  MaxFd = 2
  MaxSend = 1
  None = None
  Stdin = Stdin
  Nobody = Nobody
  Server = Server
  MaxClient = 2
  Lines <- MCLines
  Chatters = {c2}
  Leavers = {c1}
  Recorded = {"text"}
CHECK_DEADLOCK FALSE
SYMMETRY MCSymmetry
INVARIANTS
  UniqueNames
  SumExact
  PublicReaches
