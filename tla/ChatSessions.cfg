SPECIFICATION Spec
CONSTANTS
  Conns = {c1, c2, c3}
  Users = {u1, u2}
  MaxFd = 2
  MaxSend = 0
  None = None
  Stdin = Stdin
  Nobody = Nobody
  Server = Server
  MaxClient = 2
  Fwds = {f1}
  Lines <- NoLines
  Chatters = {}
  Leavers = {c1}
  Recorded = {}
CHECK_DEADLOCK FALSE
SYMMETRY StaySymmetry
INVARIANTS
  UniqueNames
  SessionOwned
  OwnConnection
PROPERTIES
  NoTakeover
