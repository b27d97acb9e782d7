SPECIFICATION Spec
CONSTANTS
  t1 = t1
  Task = {t1}
  Worker = {w1, w2}
  NoJob = NoJob
  NoWorker = NoWorker
  ImageTask = {t1}
  MaxNumber = 2
  MaxAttempts = 2
  HeavySlots = 1
  TrivySlots = 1
  NativeSlots = 1
  Job <- ScanJobs
  DbFaults = FALSE
  ArchiveImports = FALSE
SYMMETRY WorkerSymmetry
INVARIANTS
  TypeOK
  LeaseCoherent
  ExecutionDriven
  RecoveryIsConsistent
PROPERTIES
  NoLateOverwrite
  FencesAdvance
  NoResurrection
CONSTRAINT FiveGrants
CHECK_DEADLOCK FALSE
