SPECIFICATION Spec
CONSTANTS
  k1 = k1
  k2 = k2
  Callers = {t1, t2}
  Keys = {k1}
  Batches <- NoBatch
  MaxCalls = 2
  QueueSize = 1
  Modes = {"sync"}
  Uses = {"set", "get", "exists"}
  Shutdowns = 0
  OpTimeouts = TRUE
  FrameReuse = TRUE
  NvsFaults = FALSE
  Absent = Absent
  NotRun = NotRun
INVARIANT AnswerIsOwn
