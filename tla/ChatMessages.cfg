SPECIFICATION Spec
CONSTANTS
  Conns = {c1, c2}
  Users = {u1, u2}
  MaxFd = 2
  MaxSend = 1
  None = None
  Stdin = Stdin
  Nobody = Nobody
  Server = Server
  MaxClient = 2
  Fwds = {f1, f2}
  Lines <- AllLines
  Chatters = {c1, c2}
  Leavers = {c1}
  Recorded = {"text", "offline"}
CHECK_DEADLOCK FALSE
SYMMETRY UserSymmetry
INVARIANTS
  ForwardComplete
  Attribution
