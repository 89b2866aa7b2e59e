SPECIFICATION FairSpec
CONSTANTS
  Tasks = {t1}
  Delays = {0, 1}
  MaxTimers = 6
  MaxTime = 1
  TimeMod = 4
  Capacity = 4
  MemFaults = TRUE
  None = None
INVARIANTS TypeOK HeapOrdered
PROPERTY KeepsPromise TimersEnd
