CONSTANTS
  Fan = 2
  Top = 3
  Cpu = {c1, c2}
  zombie = zombie
  First = init
  KAS = KAS
  None = None
  Ram <- MCRam
  Proc = {init}
  Zombie = {}
  Alive = {init}
  Device <- NoDevice
  Start <- NoneOwned
  Prots = {}
  Watched = {0}
  ThreadMax = 2
  CallMax = 3
SPECIFICATION Spec
INVARIANT NoStaleFrame
CHECK_DEADLOCK FALSE
