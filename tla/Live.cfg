SPECIFICATION FairSpec
CONSTANTS
  t1 = t1
  Task = {t1}
  Worker = {w1}
  NoJob = NoJob
  NoWorker = NoWorker
  ImageTask = {t1}
  MaxNumber = 1
  MaxAttempts = 2
  HeavySlots = 1
  TrivySlots = 1
  NativeSlots = 1
  Job <- ScanAndRun
  DbFaults = FALSE
  ArchiveImports = FALSE
PROPERTIES
  TaskSettles
  CancellationCompletes
  LeasesEnd
  RunsSettle
CHECK_DEADLOCK FALSE
