SPECIFICATION Spec
CONSTANTS
  t1 = t1
  Task = {t1}
  Worker = {w1, w2}
  NoJob = NoJob
  NoWorker = NoWorker
  ImageTask = {}
  MaxNumber = 1
  MaxAttempts = 2
  HeavySlots = 1
  TrivySlots = 1
  NativeSlots = 1
  Job <- PythonRuns
  DbFaults = FALSE
  ArchiveImports = FALSE
SYMMETRY WorkerSymmetry
INVARIANTS
  RunsRetried
CHECK_DEADLOCK FALSE
