SPECIFICATION BothSpec
CONSTANTS
  t1 = t1
  t2 = t2
  k1 = k1
  k2 = k2
  k3 = k3
  Tasks = {t1, t2}
  Keys = {k1, k2, k3}
  Values = {v1}
  MaxEntries = 2
  Policies = {"writeThrough", "writeBack"}
  Hash <- TwoBuckets
  UsersOf <- Private
  Uses <- SafeUse
  CounterMod = 4
  DaoFaults = TRUE
  MemFaults = TRUE
  Absent = Absent
  NoData = NoData
INVARIANTS TypeOK Linked ReadsOwnWrites AcknowledgedIsStored LruIsRecency
PROPERTY SharedOperationsEnd
