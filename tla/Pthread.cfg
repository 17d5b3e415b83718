SPECIFICATION FairLifeSpec
CONSTANTS
  t1 = t1
  t2 = t2
  t3 = t3
  Thread = {t1, t2, t3}
  None = None
  Reaper = Reaper
  Programs <- MCPrograms
  RecMax = 2
  RwMax = 2
INVARIANTS
  ReclaimSafe
  NoEarlyReturn
PROPERTIES
  ImplementsLocks
  EveryCallReturns
CHECK_DEADLOCK FALSE
