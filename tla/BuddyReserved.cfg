SPECIFICATION Spec
CONSTANTS
  c1 = c1
  c2 = c2
  c3 = c3
  None = None
  Cpus = {c1}
  Capacity = 2
  Loads <- UserLoad
  mmap <- EightPages
  PAGE_SIZE = 4096
INVARIANTS
  ReservedUnusable
