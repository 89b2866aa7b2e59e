SPECIFICATION Spec
CONSTANTS
  t1 = t1
  t2 = t2
  d1 = d1
  e1 = e1
  e2 = e2
  on = on
  off = off
  Tasks = {t1, t2}
  Devices = {d1}
  Writers <- WritersOf
  Sharings <- ReadersOf
  Resetters = {t2}
  Uses = {"get", "add", "update", "set", "setAsync", "remove", "removeAsync", "reset", "invalidate"}
  Elems = {e1, e2}
  Values = {on, off}
  MaxElems = 2
  QueueSize = 1
  MaxCalls <- CallsOf
  MaxStarts = 1
  DaoFaults = TRUE
  MemFaults = TRUE
  Absent = Absent
  NoData = NoData
INVARIANTS TypeOK UpdatesKept RemovedLeavesNothing RemovesIdentityFirst
SYMMETRY DataSymmetry
