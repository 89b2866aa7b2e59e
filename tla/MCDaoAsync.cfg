SPECIFICATION Spec
CONSTANTS
  k1 = k1
  k2 = k2
  Callers = {t1, t2}
  Keys = {k1}
  Batches <- ShortBatch
  MaxCalls = 2
  QueueSize = 2
  Modes = {"sync","callback"}
  Uses = {"set", "batch"}
  Shutdowns = 1
  OpTimeouts = TRUE
  FrameReuse = FALSE
  NvsFaults = TRUE
  Absent = Absent
  NotRun = NotRun
INVARIANTS PayloadOwned CallbackTellsAnswer BatchBorrowed
PROPERTY KeepsPromise
SYMMETRY CallerSymmetry
