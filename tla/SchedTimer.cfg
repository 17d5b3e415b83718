SPECIFICATION FairSpec
CONSTANTS
  t1 = t1
  t2 = t2
  t3 = t3
  None = None
  Threads = {t1, t2, t3}
  NCpu = 1
  BootQueue <- Boot
  Quantum = 3
  LapicMax = 2
  IrqBatch = 1
  Waits = {1, 2}
CHECK_DEADLOCK FALSE
INVARIANTS
  ShotCoversDeadlines
PROPERTIES
  TimerServes
