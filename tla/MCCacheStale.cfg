SPECIFICATION Spec
CONSTANTS
  t1 = t1
  t2 = t2
  k1 = k1
  k2 = k2
  k3 = k3
  Tasks = {t1, t2}
  Keys = {k1}
  Values = {v1, v2}
  MaxEntries = 2
  Policies = {"writeThrough"}
  Hash <- OneBucket
  UsersOf <- Common
  Uses <- GetSet
  CounterMod = 4
  DaoFaults = FALSE
  MemFaults = FALSE
  Absent = Absent
  NoData = NoData
INVARIANT CoherentAtRest
