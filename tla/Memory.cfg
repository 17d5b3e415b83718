CONSTANTS
  Fan = 2
  Top = 3
  Cpu = {c1, c2}
  zombie = zombie
  First = init
  KAS = KAS
  None = None
  Ram <- MCRam
  Proc = {init, child, zombie}
  Zombie = {zombie}
  Alive = {init}
  Device <- MCDevice
  Start <- OneEach
  Prots = {"none", "r"}
  Watched = {0}
  ThreadMax = 2
  CallMax = 3
SPECIFICATION Spec
SYMMETRY CpuSymmetry
INVARIANTS StaleCovered AccessHasTitle NoUseOfFreedSpace NoGridlock
PROPERTIES ImplementsFlatMap
CHECK_DEADLOCK FALSE
