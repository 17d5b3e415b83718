SPECIFICATION Spec
CONSTANTS
  c1 = c1
  c2 = c2
  t1 = t1
  t2 = t2
  t3 = t3
  a1 = a1
  a2 = a2
  p0 = p0
  p1 = p1
  None = None
  Threads = {t1, t2, t3}
  Cpus = {c1, c2}
  Addrs = {a1, a2}
  Procs = {p0, p1}
  InitProc = p0
  ProcOf <- MCProcOf
  Completion <- NoCompletion
  BucketOf <- TwoBuckets
  BootQueue <- Boot3
  Ops <- OpsClaim
  WakeBatch = 2
  IrqBatch = 2
INVARIANTS
  OneWinner
  WaitInstalledWhole
  FreedUnreachable
  WinnerAssertsHold
  NoKernelDeadlock
PROPERTIES
  FifoWake
CHECK_DEADLOCK FALSE
SYMMETRY Symmetry
