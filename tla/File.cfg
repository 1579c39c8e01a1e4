SPECIFICATION FileFairSpec
CONSTANTS
  f0 = f0
  f1 = f1
  f2 = f2
  f3 = f3
  Files = {f0, f1, f2, f3}
  Size <- MCSize
  PacketSize = 4
  Capacity = 5
  MaxSends = 2
  LinkFails = TRUE
  NoFile = NoFile
  Own = own
  Others = {o1}
  Unforked = {own, o1}
  NoConn = NoConn
CHECK_DEADLOCK FALSE
INVARIANTS
  Faithful
  WaitReturns
PROPERTIES
  Delivered
  BothStop
