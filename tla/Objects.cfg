SPECIFICATION FairSpec
CONSTANTS
  t1 = t1
  t2 = t2
  t3 = t3
  t4 = t4
  b0 = b0
  b1 = b1
  b2 = b2
  b3 = b3
  v1 = v1
  Nil = Nil
  Proc = {1, 2, 3, 4}
  First = 1
  Children = {2, 3}
  Thread = {t1, t2, t3, t4}
  Block = {b0, b1, b2, b3}
  Requester = {v1}
  Cookie = {1}
  Slots = 2
  CallMax = 3
  Init1 = t1
  TreeRing = b0
  ThreadOf <- ThreadTable
  BlocksOf <- BlockTable
  RingOf <- RingTable
  DevicesOf <- DeviceTable
INVARIANTS IndexesAgree NothingStranded DmaOnlyOwned
PROPERTIES DeadGainsNothing ReapEnds
CHECK_DEADLOCK FALSE
