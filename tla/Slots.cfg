SPECIFICATION Spec
CONSTANTS
  t1 = t1
  Task = {t1}
  Worker = {w1, w2}
  NoJob = NoJob
  NoWorker = NoWorker
  ImageTask = {}
  MaxNumber = 1
  MaxAttempts = 2
  HeavySlots = 2
  TrivySlots = 1
  NativeSlots = 1
  Job <- PostScanJobs
  DbFaults = TRUE
  ArchiveImports = TRUE
SYMMETRY WorkerSymmetry
INVARIANTS
  SlotsFenced
  LeasesHoldSlots
  ImportExclusion
  OneAnalysis
PROPERTIES
  NoLateOverwrite
  RunsSettleOnce
CONSTRAINT ContentionOrRedelivery
CHECK_DEADLOCK FALSE
