SPECIFICATION FairSpec
CONSTANTS
  t1 = t1
  t2 = t2
  t3 = t3
  None = None
  Threads = {t1, t2}
  NCpu = 2
  BootQueue <- Boot
  Quantum = 2
  LapicMax = 2
  IrqBatch = 1
  Waits = {}
CHECK_DEADLOCK FALSE
PROPERTY
  QueuedRuns
