SPECIFICATION Spec
CONSTANTS
  t1 = t1
  Task = {t1}
  Worker = {w1, w2}
  NoJob = NoJob
  NoWorker = NoWorker
  ImageTask = {}
  MaxNumber = 2
  MaxAttempts = 2
  HeavySlots = 1
  TrivySlots = 1
  NativeSlots = 1
  Job <- CRuns
  DbFaults = FALSE
  ArchiveImports = FALSE
SYMMETRY WorkerSymmetry
INVARIANTS
  RunsDriven
  RunAgreesWithJob
  ActiveRunCancellable
CONSTRAINT FollowedOrRescanned
CHECK_DEADLOCK FALSE
