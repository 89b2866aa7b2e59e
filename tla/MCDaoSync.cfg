SPECIFICATION Spec
CONSTANTS
  k1 = k1
  k2 = k2
  Callers = {t1, t2}
  Keys = {k1, k2}
  Batches <- OneBatch
  MaxCalls = 2
  QueueSize = 1
  Modes = {"sync"}
  Uses = {"get", "exists", "list", "keys", "set", "batch", "remove", "removeAll"}
  Shutdowns = 0
  OpTimeouts = FALSE
  FrameReuse = TRUE
  NvsFaults = TRUE
  Absent = Absent
  NotRun = NotRun
INVARIANTS TypeOK AnswerIsOwn
PROPERTY KeepsPromise
SYMMETRY CallerSymmetry
