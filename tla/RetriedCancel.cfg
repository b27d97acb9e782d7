SPECIFICATION FairSpec
CONSTANTS
  t1 = t1
  Task = {t1}
  Worker = {w1}
  NoJob = NoJob
  NoWorker = NoWorker
  ImageTask = {}
  MaxNumber = 2
  MaxAttempts = 1
  HeavySlots = 1
  TrivySlots = 1
  NativeSlots = 1
  Job <- RetriedRuns
  DbFaults = FALSE
  ArchiveImports = FALSE
PROPERTIES
  CancellationCompletes
CHECK_DEADLOCK FALSE
