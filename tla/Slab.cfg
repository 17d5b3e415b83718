SPECIFICATION FairSpec
CONSTANTS
  c1 = c1
  c2 = c2
  c3 = c3
  None = None
  Cpus = {c1, c2, c3}
  Capacity = 2
  Loads <- BothLoads
  mmap <- EightPages
  PAGE_SIZE = 4096
INVARIANTS
  ObjectsAccounted
  PageFindable
  TreeExact
PROPERTIES
  MallocReturns
