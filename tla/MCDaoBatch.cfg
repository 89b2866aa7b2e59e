SPECIFICATION Spec
CONSTANTS
  k1 = k1
  k2 = k2
  Callers = {t1}
  Keys = {k1, k2}
  Batches <- OneBatch
  MaxCalls = 2
  QueueSize = 1
  Modes = {"sync"}
  Uses = {"get", "batch"}
  Shutdowns = 0
  OpTimeouts = FALSE
  FrameReuse = TRUE
  NvsFaults = TRUE
  Absent = Absent
  NotRun = NotRun
INVARIANT FailedLeavesNothing
