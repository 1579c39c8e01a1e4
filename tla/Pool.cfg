SPECIFICATION PoolFairSpec
CONSTANTS
  w1 = w1
  w2 = w2
  w3 = w3
  Pool <- MCPool
  Sum = 3
  MaxOpened = 4
  Talkers = {1}
  MaxLines = 2
  MainThread = MainThread
  Free = Free
CHECK_DEADLOCK FALSE
INVARIANTS
  Exclusive
  NoLostWakeup
PROPERTIES
  ImplementsFifo
  Served
