SPECIFICATION FairSpec
CONSTANTS
  c1 = c1
  c2 = c2
  t1 = t1
  t2 = t2
  t3 = t3
  a1 = a1
  a2 = a2
  p0 = p0
  p1 = p1
  None = None
  Threads = {t1, t2, t3}
  Cpus = {c1, c2}
  Addrs = {a2}
  Procs = {p0, p1}
  InitProc = p0
  ProcOf <- MCProcOf
  Completion <- Joinable
  BucketOf <- OneBucket
  BootQueue <- Boot2
  Ops <- OpsExit
  WakeBatch = 1
  IrqBatch = 1
INVARIANTS
  NoStrandedJoiner
  OneContext
PROPERTIES
  DeadBecomesReapable
  UnblockSpinEnds
CHECK_DEADLOCK FALSE
