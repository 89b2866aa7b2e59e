SPECIFICATION FairSpec
CONSTANTS
  k1 = k1
  k2 = k2
  Callers = {t1, t2}
  Keys = {k1}
  Batches <- NoBatch
  MaxCalls = 2
  QueueSize = 2
  Modes = {"sync", "async"}
  Uses = {"remove"}
  Shutdowns = 1
  OpTimeouts = TRUE
  FrameReuse = FALSE
  NvsFaults = FALSE
  Absent = Absent
  NotRun = NotRun
PROPERTY CallsReturn AcceptedRuns
