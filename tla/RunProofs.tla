------------------------------ MODULE RunProofs ------------------------------
(***************************************************************************)
(* The run of a C or Java analysis and its job tell the same story, as     *)
(* long as the database answers the processor (~DbFaults): a processor     *)
(* that cannot write its run returns without having settled it.            *)
(*                                                                         *)
(* Two rows are written in different transactions, so the invariant keeps  *)
(* what the worker between them knows (RunKnown), and which jobs are       *)
(* cancelled together with their task, whose runs are left alone.          *)
(***************************************************************************)
EXTENDS LeaseProofs

\* The job of anything but a scan is asked for after the task has finished.
RequestedAfterScan ==
    \A j \in Job : j.kind \notin ScanKind /\ job[j].status # "absent" =>
        \/ task[j.task] \in TerminalTask \cup {"DELETING"}
        \/ Rescanned(j.task)

\* A cancelling job is cancelled through its run, or with its task.
CancelledByRun ==
    \A j \in Job :
        /\ j.kind \in FencedAnalysisKind /\ job[j].status = "cancel_requested"
        /\ ~CancelledWithTask(j)
        => run[j] = "cancel_requested"

\* What the holder of the lease of an analysis has made of its run.
RunKnown(w) ==
    LET j == worker[w].job IN
    /\ worker[w].pc # "idle" /\ j.kind \in FencedAnalysisKind
    /\ Leases(w, {"running"})
    => /\ worker[w].pc = "running" => run[j] = "queued"
       /\ worker[w].pc = "begun" => run[j] = "running"
       /\ worker[w].pc = "done" =>
              /\ worker[w].outcome \in Outcome
              /\ worker[w].outcome \in Success => run[j] \in {"succeeded", "partial"}
              /\ worker[w].outcome = "deterministic_failure" =>
                     run[j] \in {"failed", "cancelled"}
              /\ worker[w].outcome = "transient_failure" =>
                     run[j] = IF job[j].attempt < MaxAttempts
                              THEN "queued" ELSE "failed"

RunInv ==
    /\ ResultInv
    /\ RequestedAfterScan
    /\ CancelledByRun
    /\ RunsDriven
    /\ RunAgreesWithJob
    /\ \A w \in Worker : RunKnown(w)
-----------------------------------------------------------------------------
\* A run that ended keeps its outcome and its findings, whatever fails.
THEOREM RunsEndOnce == Spec => RunsSettleOnce
<1>1. ResultInv /\ [Next]_vars =>
         [\A j \in Job : run[j] \in TerminalRun =>
            run'[j] = run[j] /\ published'[j] = published[j]]_vars
  <2> SUFFICES ASSUME ResultInv, [Next]_vars, NEW j \in Job, run[j] \in TerminalRun
               PROVE  run'[j] = run[j] /\ published'[j] = published[j]
    OBVIOUS
  <2>1. TypeOK /\ RunRows /\ PythonBegunOnce
    BY DEF ResultInv, LeaseInv, SlotInv
  <2>2. /\ j.kind \in AnalysisKind /\ job[j].status # "absent"
        /\ run[j] \notin {"queued", "running", "cancel_requested"}
    BY <2>1 DEF RunRows, TerminalRun
  <2>3. run'[j] = run[j]
    BY <2>1, <2>2, RunSteps
       DEF RunStep, CreateRun, CancelRun, CancelsAtOnce, CancelsByRequest, ActiveRun
  <2>4. published'[j] = published[j]
    BY <2>1, <2>2, StoresOwn, Kinds DEF ScanKind
  <2> QED
    BY <2>3, <2>4
<1> QED
  BY <1>1, ResultInvariant, PTL DEF Spec, RunsSettleOnce
-----------------------------------------------------------------------------
(***************************************************************************)
(* Tasks that are scanned again                                            *)
(***************************************************************************)

\* A task that was scanned again was, and a deleted task stays deleted: a job
\* cancelled with its task stays so.
LEMMA RescannedStays ==
    ASSUME LeaseInv, [Next]_vars, NEW t \in Task
    PROVE  /\ Rescanned(t) => Rescanned(t)'
           /\ task[t] = "DELETING" => task'[t] = "DELETING"
           /\ Retry(t) => Rescanned(t)'
<1>1. TypeOK /\ RowsInOrder /\ JobsFollowAttempts /\ AbsentRows
  BY DEF LeaseInv, SlotInv, Pipeline
<1>2. \A n \in 1 .. MaxNumber :
         attempt[<<t, n>>].status # "absent" => attempt'[<<t, n>>].status # "absent"
  BY <1>1, AttemptSteps, AttemptStepKeeps DEF AttemptId
<1>3. ASSUME Retry(t)
      PROVE  Rescanned(t)'
  <2> PICK last \in 1 .. MaxNumber, token \in Nat :
         /\ task[t] \in TerminalTask
         /\ last + 1 <= MaxNumber
         /\ attempt[<<t, last + 1>>].status = "absent"
         /\ ScanJob(t, last + 1) \in Job
         /\ attempt' = [attempt EXCEPT ![<<t, last + 1>>] =
                           [status |-> "queued", token |-> token]]
         /\ job' = [job EXCEPT ![ScanJob(t, last + 1)] = QueuedJob(token)]
         /\ task' = [task EXCEPT ![t] = "QUEUED"]
         /\ UNCHANGED <<slot, run, published, importer, worker>>
    BY <1>1, <1>3, RetryInserts
  <2>1. last + 1 \in 1 .. MaxNumber /\ last + 1 > 1
    BY LimitsAreValid
  <2>2. attempt'[<<t, last + 1>>].status = "queued"
    BY <1>1, <2>1 DEF TypeOK, AttemptId
  <2> QED
    BY <2>1, <2>2 DEF Rescanned
<1>4. task[t] = "DELETING" => task'[t] = "DELETING"
  BY <1>1, TaskSteps, TaskStepKeeps DEF LeaseInv
<1> QED
  BY <1>2, <1>3, <1>4 DEF Rescanned

\* Jobs of finished tasks only meet a task in execution that was scanned
\* again.
LEMMA RequestedStays ==
    ASSUME LeaseInv, RequestedAfterScan, [Next]_vars
    PROVE  RequestedAfterScan'
<1> SUFFICES ASSUME NEW j \in Job, j.kind \notin ScanKind, job'[j].status # "absent",
                    ~Rescanned(j.task)'
             PROVE  task'[j.task] \in TerminalTask \cup {"DELETING"}
  BY DEF RequestedAfterScan
<1> DEFINE t == j.task
<1>0. TypeOK /\ RowsInOrder /\ JobsFollowAttempts /\ AbsentRows
  BY DEF LeaseInv, SlotInv, Pipeline
<1>1. /\ t \in Task /\ TaskStep(t) /\ JobStep(j) /\ job[j] \in JobRow
      /\ ~Rescanned(t) /\ ~Retry(t)
      /\ task[t] = "DELETING" => task'[t] = "DELETING"
  BY <1>0, JobsTyped, TaskSteps, JobSteps, RescannedStays DEF LeaseInv, TypeOK
<1>2. CASE job[j].status # "absent"
  <2>1. task[t] \in TerminalTask \cup {"DELETING"}
    BY <1>1, <1>2 DEF RequestedAfterScan
  <2>2. ~Cancel(t) /\ (Delete(t) => task'[t] = "DELETING")
    BY <1>0, <1>1, <2>1 DEF Cancel, Delete, TerminalTask, ExecutingTask, TypeOK
  <2>3. ~CreateTask(t)
    BY <2>1 DEF CreateTask, TerminalTask
  <2> QED
    BY <1>1, <2>1, <2>2, <2>3 DEF TaskStep, TerminalTask, ExecutingTask
<1>3. CASE job[j].status = "absent"
  <2>1. Inserted(j) /\ j.kind # "trivy"
    BY <1>1, <1>3 DEF JobStep, KeptRow, Claimed, Started, Ended, Cancelling,
        ActiveJob, HeldJob, JobRow, ScanKind
  <2>2. RequestPostScan(j) \/ CreateRun(j)
    BY <2>1, JobsTyped, Kinds DEF Inserted
  <2> QED
    BY <1>1, <2>2 DEF RequestPostScan, CreateRun
<1> QED
  BY <1>2, <1>3
-----------------------------------------------------------------------------
(***************************************************************************)
(* What a step does to an analysis and its run                             *)
(***************************************************************************)

\* The holder of the lease writes the run and goes on; the job waits.
Drove(j) ==
    \E w \in Worker :
        /\ worker[w].job = j /\ DrivesRun(w)
        /\ worker'[w].pc # worker[w].pc
        /\ job'[j] = job[j] /\ run'[j] \in {"queued", "running"} \cup TerminalRun

Finished(j) == \E w \in Worker : worker[w].job = j /\ FinishOther(w)

Recovered(j) == RecoverTerminalAnalysis(j) \/ RecoverAnalysis(j) \/ RecoverCancelled(j)

AnalysisStep(j) ==
    \/ KeptRow(j) /\ run'[j] = run[j]
    \/ CreateRun(j) \/ CancelRun(j)
    \/ /\ \/ job[j].status = "queued" /\ job'[j].status = "leased"
          \/ job[j].status = "leased" /\ job'[j].status = "running"
       /\ run[j] = "queued" /\ run'[j] = "queued"
    \/ Drove(j) \/ Finished(j) \/ Recovered(j)
    \/ Cancel(j.task) \/ Delete(j.task)

\* Users: every request but those for the run and its task passes it by.
LEMMA UserAnalysis ==
    ASSUME TypeOK, User, NEW j \in Job, j.kind \in FencedAnalysisKind
    PROVE  AnalysisStep(j)
<1>0. j.kind \notin ScanKind \cup PostScanKind
  BY Kinds DEF ScanKind
<1>1. ASSUME NEW t \in Task, CreateTask(t) \/ Retry(t)
      PROVE  AnalysisStep(j)
  <2>1. \E n : \E row : job' = [job EXCEPT ![ScanJob(t, n)] = row]
    BY <1>1 DEF CreateTask, Retry
  <2>2. job'[j] = job[j]
    BY <1>0, <2>1, Names DEF TypeOK, ScanKind
  <2>3. run' = run
    BY <1>1 DEF CreateTask, Retry
  <2> QED
    BY <2>2, <2>3 DEF AnalysisStep, KeptRow
<1>2. ASSUME NEW t \in Task, Cancel(t) \/ Delete(t)
      PROVE  AnalysisStep(j)
  <2>1. CASE j.task = t
    BY <1>2, <2>1 DEF AnalysisStep
  <2>2. CASE j.task # t
    <3>1. job'[j] = job[j] /\ run' = run
      BY <1>2, <2>2 DEF Cancel, Delete, CancelActiveJobs, JobsOf
    <3> QED
      BY <3>1 DEF AnalysisStep, KeptRow
  <2> QED
    BY <2>1, <2>2
<1>3. ASSUME NEW k \in Job, RequestPostScan(k) \/ CreateRun(k) \/ CancelRun(k)
      PROVE  AnalysisStep(j)
  <2>1. CASE k = j
    BY <1>0, <1>3, <2>1 DEF AnalysisStep, RequestPostScan
  <2>2. CASE k # j
    <3>1. job'[j] = job[j] /\ run'[j] = run[j]
      BY <1>3, <2>2 DEF RequestPostScan, CreateRun, CancelRun, TypeOK
    <3> QED
      BY <3>1 DEF AnalysisStep, KeptRow
  <2> QED
    BY <2>1, <2>2
<1> QED
  BY <1>1, <1>2, <1>3 DEF User

\* Workers: a run is written by the holder of its lease alone.
LEMMA WorkAnalysis ==
    ASSUME TypeOK, ~DbFaults, NEW w \in Worker, Work(w) \/ Lose(w),
           NEW j \in Job, j.kind \in FencedAnalysisKind
    PROVE  AnalysisStep(j)
<1>0. j.kind \notin ScanKind \cup PostScanKind /\ j.kind # "python_analysis"
  BY Kinds DEF ScanKind
<1>1. CASE UNCHANGED <<job, run>>
  BY <1>1 DEF AnalysisStep, KeptRow
<1>2. CASE Start(w)
  <2> PICK k \in Job : k = worker[w].job
    BY <1>2 DEF Start, TypeOK
  <2>1. CASE k = j
    BY <1>0, <1>2, <2>1 DEF Start, StartAllowed, Leases, AnalysisStep, TypeOK,
        ScanKind, JobRow
  <2>2. CASE k # j
    BY <1>2, <2>2 DEF Start, AnalysisStep, KeptRow, TypeOK
  <2> QED
    BY <2>1, <2>2
<1>3. CASE EnqueueTrivy(w)
  BY <1>0, <1>3, Names DEF EnqueueTrivy, AnalysisStep, KeptRow, TypeOK, ScanKind
<1>4. CASE \/ Begin(w) \/ RetryRun(w)
           \/ \E status \in TerminalRun :
                 PublishRun(w, status) \/ EndRun(w, status)
  <2> PICK k \in Job : k = worker[w].job
    BY <1>4 DEF Begin, RetryRun, PublishRun, EndRun, Analyses, TypeOK
  <2>1. /\ DrivesRun(w) /\ worker'[w].pc # worker[w].pc
        /\ \E status \in {"queued", "running"} \cup TerminalRun :
              run' = [run EXCEPT ![k] = status]
        /\ job' = job
    BY <1>4 DEF Begin, RetryRun, PublishRun, EndRun, Analyses, DrivesRun, SetRun,
        StepTo, Return, TypeOK, WorkerMemory, TerminalRun
  <2>2. CASE k = j
    <3>1. worker[w].job = j /\ job'[j] = job[j]
          /\ run'[j] \in {"queued", "running"} \cup TerminalRun
      BY <2>1, <2>2 DEF TypeOK
    <3>2. Drove(j)
      BY <2>1, <3>1 DEF Drove
    <3> QED
      BY <3>2 DEF AnalysisStep
  <2>3. CASE k # j
    BY <2>1, <2>3 DEF AnalysisStep, KeptRow, TypeOK
  <2> QED
    BY <2>2, <2>3
<1>5. CASE FailPublication(w) \/ \E status \in TerminalRun : PublishPython(w, status)
  BY <1>0, <1>5 DEF FailPublication, PublishPython, CommitPython, Analyses, SetRun,
      AnalysisStep, KeptRow, TypeOK, rows
<1>6. CASE FinishScan(w) \/ FinishTrivy(w) \/ FinishOther(w)
  <2> PICK k \in Job : k = worker[w].job
    BY <1>6 DEF FinishScan, FinishTrivy, FinishOther, TypeOK
  <2>1. CASE k = j
    <3>1. FinishOther(w)
      BY <1>0, <1>6, <2>1 DEF FinishScan, FinishTrivy, ScanKind
    <3> QED
      BY <2>1, <3>1 DEF AnalysisStep, Finished
  <2>2. CASE k # j
    <3>1. run' = run /\ \E row : job' = [job EXCEPT ![k] = row]
      BY <1>6 DEF FinishScan, FinishTrivy, FinishOther, FinishLease
    <3> QED
      BY <2>2, <3>1 DEF AnalysisStep, KeptRow, TypeOK
  <2> QED
    BY <2>1, <2>2
<1>7. ~ReturnFault(w)
  BY DEF ReturnFault
<1> QED
  BY <1>1, <1>2, <1>3, <1>4, <1>5, <1>6, <1>7
     DEF Work, Lose, HeartbeatLost, Crash, StartRefused, FinishRefused,
         PublishTree, PublishFindings, ReturnScan, ReturnPostScan,
         ReturnError, Report, RetryPython, FailPython, rows

\* Maintenance: recovery finds the rows of an analysis as it expects them.
LEMMA MaintenanceAnalysis ==
    ASSUME LeaseInv, NEW k \in Job, Maintenance(k),
           NEW j \in Job, j.kind \in FencedAnalysisKind
    PROVE  AnalysisStep(j)
<1>0. TypeOK /\ j.kind \notin ScanKind \cup PostScanKind /\ j.kind # "python_analysis"
  BY Kinds DEF ScanKind, LeaseInv, SlotInv
<1>1. CASE ExpireLease(k)
  BY <1>0, <1>1 DEF ExpireLease, AnalysisStep, KeptRow, TypeOK
<1>2. CASE Recover(k)
  <2>1. CASE k = j
    <3>1. ~Quarantine(j)
      BY <1>0, <2>1, RecoveryFindsRows DEF Quarantine, LeaseInv
    <3>2. Recovered(j)
      BY <1>0, <1>2, <2>1, <3>1 DEF Recover, Recovered, RecoverScan, RecoverTrivy,
          RecoverPlain, ScanKind
    <3> QED
      BY <3>2 DEF AnalysisStep
  <2>2. CASE k # j
    <3>1. \E row : job' = [job EXCEPT ![k] = row]
      BY <1>2 DEF Recover, RecoverScan, RecoverTrivy, RecoverPlain, Quarantine,
          RecoverTerminalAnalysis, RecoverAnalysis, RecoverCancelled, RecoverLease
    <3>2. run' = run \/ \E status : run' = [run EXCEPT ![k] = status]
      BY <1>2 DEF Recover, RecoverScan, RecoverTrivy, RecoverPlain, Quarantine,
          RecoverTerminalAnalysis, RecoverAnalysis, RecoverCancelled
    <3>3. job'[j] = job[j] /\ run'[j] = run[j]
      BY <1>0, <2>2, <3>1, <3>2 DEF TypeOK
    <3> QED
      BY <3>3 DEF AnalysisStep, KeptRow
  <2> QED
    BY <2>1, <2>2
<1> QED
  BY <1>1, <1>2 DEF Maintenance

\* Every step changes an analysis and its run in one of these ways.
LEMMA AnalysisSteps ==
    ASSUME LeaseInv, ~DbFaults, [Next]_vars,
           NEW j \in Job, j.kind \in FencedAnalysisKind
    PROVE  AnalysisStep(j)
<1>0. TypeOK
  BY DEF LeaseInv, SlotInv
<1>1. CASE Import \/ UNCHANGED vars
  BY <1>1 DEF Import, ImportClaim, ImportEnd, vars, AnalysisStep, KeptRow
<1>2. ASSUME NEW w \in Worker, NEW k \in Job, Claim(w, k)
      PROVE  AnalysisStep(j)
  <2>1. CASE k = j
    BY <1>0, <1>2, <2>1, Kinds DEF Claim, Claimable, AnalysisStep, TypeOK
  <2>2. CASE k # j
    BY <1>0, <1>2, <2>2 DEF Claim, AnalysisStep, KeptRow, TypeOK
  <2> QED
    BY <2>1, <2>2
<1> QED
  BY <1>0, <1>1, <1>2, UserAnalysis, WorkAnalysis, MaintenanceAnalysis DEF Next
-----------------------------------------------------------------------------
(***************************************************************************)
(* The run and its job after a step                                        *)
(***************************************************************************)

\* What the invariant says of one analysis.
Agrees(j) ==
    /\ job[j].status = "succeeded" => run[j] \in {"succeeded", "partial"}
    /\ job[j].status = "cancelled" /\ ~CancelledWithTask(j) => run[j] = "cancelled"
    /\ job[j].status = "failed" => run[j] \in {"failed", "cancelled"}

Coupled(j) ==
    /\ ~CancelledWithTask(j) =>
           /\ RunDriven(j)
           /\ job[j].status = "cancel_requested" => run[j] = "cancel_requested"
    /\ Agrees(j)

LEMMA CoupledRuns ==
    CancelledByRun /\ RunsDriven /\ RunAgreesWithJob
        <=> \A j \in Job : j.kind \in FencedAnalysisKind => Coupled(j)
BY DEF CancelledByRun, RunsDriven, RunAgreesWithJob, Coupled, Agrees

\* The holder of a lease finishes its job as it has settled the run.
LEMMA FinishedCoupled ==
    ASSUME RunInv, NEW j \in Job, j.kind \in FencedAnalysisKind, Finished(j)
    PROVE  Coupled(j)'
<1>0. TypeOK /\ j.kind \notin ScanKind
  BY Kinds DEF RunInv, ResultInv, LeaseInv, SlotInv, ScanKind
<1> PICK w \in Worker : worker[w].job = j /\ FinishOther(w)
  BY DEF Finished
<1> DEFINE outcome == worker[w].outcome
<1>1. /\ worker[w].pc = "done" /\ Leases(w, {"running"}) /\ run' = run
      /\ job'[j].status = IF Requeues(j, outcome) THEN "queued" ELSE FinishedJob(outcome)
  BY <1>0 DEF FinishOther, FinishAllowed, FinishLease, Settled, TypeOK, JobRow
<1>2. /\ outcome \in Success => run[j] \in {"succeeded", "partial"}
      /\ outcome = "deterministic_failure" => run[j] \in {"failed", "cancelled"}
      /\ outcome = "transient_failure" =>
             run[j] = IF job[j].attempt < MaxAttempts THEN "queued" ELSE "failed"
  BY <1>1 DEF RunInv, RunKnown
<1>3. outcome \in Outcome
  BY <1>1 DEF RunInv, RunKnown
<1>4. CASE Requeues(j, outcome)
  <2>1. job'[j].status = "queued" /\ run'[j] = "queued"
    BY <1>1, <1>2, <1>4 DEF Requeues
  <2> QED
    BY <2>1 DEF Coupled, Agrees, RunDriven, WaitingJob
<1>5. CASE ~Requeues(j, outcome)
  <2>1. CASE outcome \in Success
    <3>1. job'[j].status = "succeeded" /\ run'[j] \in {"succeeded", "partial"}
      BY <1>1, <1>2, <1>5, <2>1 DEF FinishedJob
    <3> QED
      BY <3>1 DEF Coupled, Agrees, RunDriven, WaitingJob
  <2>2. CASE outcome \notin Success
    <3>1. job'[j].status = "failed" /\ run'[j] \in {"failed", "cancelled"}
      BY <1>1, <1>2, <1>3, <1>5, <2>2 DEF FinishedJob, Requeues, Outcome, Failure
    <3> QED
      BY <3>1 DEF Coupled, Agrees, RunDriven, WaitingJob
  <2> QED
    BY <2>1, <2>2
<1> QED
  BY <1>4, <1>5

\* Recovery settles the run and the job together.
LEMMA RecoveredCoupled ==
    ASSUME RunInv, [Next]_vars, NEW j \in Job, j.kind \in FencedAnalysisKind,
           Recovered(j), CancelledWithTask(j) => CancelledWithTask(j)'
    PROVE  Coupled(j)'
<1>0. TypeOK /\ RunRows
  BY DEF RunInv, ResultInv, LeaseInv, SlotInv
<1>1. Coupled(j)
  BY CoupledRuns DEF RunInv
<1>2. CASE RecoverTerminalAnalysis(j)
  <2>1. /\ run'[j] = run[j] /\ run[j] \in TerminalRun
        /\ job'[j].status = SettledByRun(run[j])
    BY <1>0, <1>2, RecoverLeaseEffect DEF RecoverTerminalAnalysis
  <2> QED
    BY <2>1 DEF Coupled, Agrees, RunDriven, WaitingJob, SettledByRun, TerminalRun
<1>3. CASE RecoverAnalysis(j)
  <2>1. run[j] # "cancel_requested"
    BY <1>0, <1>3 DEF RunRows, RecoverAnalysis, Expired, Recoverable, HeldJob
  <2>2. /\ job'[j].status = IF Retries(j) THEN "queued" ELSE "failed"
        /\ run'[j] = IF Retries(j) THEN "queued" ELSE "failed"
    BY <1>0, <1>3, <2>1, RecoverLeaseEffect DEF RecoverAnalysis, TypeOK
  <2> QED
    BY <2>2 DEF Coupled, Agrees, RunDriven, WaitingJob
<1>4. CASE RecoverCancelled(j)
  <2>1. /\ job[j].status = "cancel_requested" /\ job'[j].status = "cancelled"
        /\ run'[j] = IF run[j] \in ActiveRun THEN "cancelled" ELSE run[j]
    BY <1>0, <1>4, RecoverLeaseEffect DEF RecoverCancelled, TypeOK
  <2>2. ~CancelledWithTask(j)' => run[j] = "cancel_requested"
    BY <1>1, <2>1 DEF Coupled
  <2> QED
    BY <2>1, <2>2 DEF Coupled, Agrees, RunDriven, WaitingJob, ActiveRun
<1> QED
  BY <1>2, <1>3, <1>4 DEF Recovered

\* A job cancelled with its task stays so.
LEMMA CancelledStays ==
    ASSUME LeaseInv, [Next]_vars, NEW j \in Job, CancelledWithTask(j),
           job'[j].status \in {"cancel_requested", "cancelled"}
    PROVE  CancelledWithTask(j)'
BY RescannedStays, JobsTyped DEF CancelledWithTask

\* What is cancelled with a task is cancelled with a task that is deleted or
\* was scanned again.
LEMMA WithdrawnCoupled ==
    ASSUME RunInv, [Next]_vars, NEW j \in Job, j.kind \in FencedAnalysisKind,
           Cancel(j.task) \/ Delete(j.task)
    PROVE  Coupled(j)'
<1> DEFINE t == j.task
<1>0. TypeOK /\ LeaseInv /\ t \in Task /\ j.kind \notin ScanKind /\ RunRows
  BY Kinds, JobsTyped DEF RunInv, ResultInv, LeaseInv, SlotInv, ScanKind
<1>1. Coupled(j) /\ run'[j] = run[j]
  BY CoupledRuns DEF RunInv, Cancel, Delete
<1>2. job[j].status # "absent" => task'[t] = "DELETING" \/ Rescanned(t)'
  <2>1. CASE Delete(t)
    BY <1>0, <2>1 DEF Delete, TypeOK
  <2>2. CASE Cancel(t)
    <3>1. job[j].status # "absent" => Rescanned(t)
      BY <1>0, <2>2 DEF Cancel, RunInv, RequestedAfterScan, ExecutingTask, TerminalTask
    <3> QED
      BY <1>0, <3>1, RescannedStays
  <2> QED
    BY <2>1, <2>2
<1>3. \/ job'[j].status = "cancelled"
      \/ job'[j].status = "cancel_requested"
      \/ job'[j] = job[j] /\ job[j].status \notin WaitingJob \cup {"running"}
  <2>1. CancelActiveJobs(t)
    BY DEF Cancel, Delete
  <2>2. job'[j] = IF j \in JobsOf(t, WaitingJob) THEN Settled(j, "cancelled")
                  ELSE IF j \in JobsOf(t, {"running"})
                       THEN [job[j] EXCEPT !.status = "cancel_requested"]
                       ELSE job[j]
    BY <2>1 DEF CancelActiveJobs
  <2>3. job[j] \in JobRow /\ (job[j].status \in WaitingJob => j \in JobsOf(t, WaitingJob))
        /\ (job[j].status = "running" => j \in JobsOf(t, {"running"}))
    BY <1>0 DEF TypeOK, JobsOf
  <2> QED
    BY <2>2, <2>3 DEF Settled, JobRow
<1>4. job'[j].status \in {"cancel_requested", "cancelled"} => job[j].status # "absent"
  BY <1>0 DEF Cancel, Delete, CancelActiveJobs, JobsOf, WaitingJob
<1>5. CASE job'[j].status \in {"cancel_requested", "cancelled"}
  <2>1. CancelledWithTask(j)'
    BY <1>2, <1>4, <1>5 DEF CancelledWithTask
  <2> QED
    BY <1>5, <2>1 DEF Coupled, Agrees
<1>6. CASE /\ job'[j] = job[j]
           /\ job[j].status \notin WaitingJob \cup {"running", "cancel_requested", "cancelled"}
  BY <1>1, <1>6 DEF Coupled, Agrees, RunDriven, CancelledWithTask
<1> QED
  BY <1>3, <1>5, <1>6

\* The run and the job of an analysis agree after every step.
LEMMA CoupledStays ==
    ASSUME RunInv, ~DbFaults, [Next]_vars, NEW j \in Job, j.kind \in FencedAnalysisKind
    PROVE  Coupled(j)'
<1>0. TypeOK /\ LeaseInv /\ Coupled(j) /\ AnalysisStep(j) /\ job[j] \in JobRow
  BY CoupledRuns, AnalysisSteps DEF RunInv, ResultInv, LeaseInv, SlotInv, TypeOK
<1>1. CASE KeptRow(j) /\ run'[j] = run[j]
  <2>1. job'[j].status = job[j].status
    BY <1>0, <1>1 DEF KeptRow, JobRow
  <2>2. CancelledWithTask(j) => CancelledWithTask(j)'
    BY <1>0, <2>1, CancelledStays DEF CancelledWithTask
  <2> QED
    BY <1>0, <1>1, <2>1, <2>2 DEF Coupled, Agrees, RunDriven
<1>2. CASE CreateRun(j) \/ CancelRun(j)
  <2>1. CreateRun(j) => job'[j].status = "queued" /\ run'[j] = "queued"
    BY <1>0 DEF CreateRun, TypeOK, QueuedJob, AbsentJob
  <2>2. CancelRun(j) =>
           \/ job'[j].status = "cancelled" /\ run'[j] = "cancelled"
           \/ job'[j].status = "cancel_requested" /\ run'[j] = "cancel_requested"
    <3>1. ASSUME CancelRun(j)
          PROVE  \/ /\ job' = [job EXCEPT ![j] = Settled(j, "cancelled")]
                    /\ run' = [run EXCEPT ![j] = "cancelled"]
                 \/ /\ job' = [job EXCEPT ![j].status = "cancel_requested"]
                    /\ run' = [run EXCEPT ![j] = "cancel_requested"]
      BY <3>1 DEF CancelRun
    <3>2. /\ job \in [Job -> JobRow] /\ run \in [Job -> RunStatus]
          /\ Settled(j, "cancelled").status = "cancelled"
      BY <1>0 DEF TypeOK, Settled, JobRow
    <3> QED
      BY <1>0, <3>1, <3>2 DEF JobRow
  <2> QED
    BY <1>2, <2>1, <2>2 DEF Coupled, Agrees, RunDriven, WaitingJob
<1>3. CASE job'[j].status \in {"leased", "running"} /\ run'[j] = "queued"
  BY <1>3 DEF Coupled, Agrees, RunDriven
<1>4. CASE Drove(j)
  <2>1. job'[j].status = "running" /\ run'[j] \in {"queued", "running"} \cup TerminalRun
    BY <1>4 DEF Drove, DrivesRun, Leases
  <2> QED
    BY <2>1 DEF Coupled, Agrees, RunDriven, TerminalRun, WaitingJob
<1>5. CASE Recovered(j)
  <2>1. CancelledWithTask(j) => CancelledWithTask(j)'
    <3>1. job[j].status = "cancel_requested" => RecoverCancelled(j)
      BY <1>5 DEF Recovered, RecoverTerminalAnalysis, RecoverAnalysis, Expired
    <3>2. job[j].status # "cancelled"
      BY <1>5 DEF Recovered, RecoverTerminalAnalysis, RecoverAnalysis,
          RecoverCancelled, Expired, Recoverable, HeldJob
    <3>3. RecoverCancelled(j) => job'[j].status = "cancelled"
      BY <1>0, RecoverLeaseEffect DEF RecoverCancelled
    <3> QED
      BY <1>0, <3>1, <3>2, <3>3, CancelledStays DEF CancelledWithTask
  <2> QED
    BY <1>5, <2>1, RecoveredCoupled
<1> QED
  BY <1>0, <1>1, <1>2, <1>3, <1>4, <1>5, FinishedCoupled, WithdrawnCoupled
     DEF AnalysisStep
-----------------------------------------------------------------------------
(***************************************************************************)
(* What the worker knows after a step                                      *)
(***************************************************************************)

\* Others leave the run of a lease alone while the lease is held.
LEMMA KnownStays ==
    ASSUME RunInv, ~DbFaults, [Next]_vars, NEW w \in Worker, worker'[w] = worker[w]
    PROVE  RunKnown(w)'
<1>0. TypeOK /\ LeaseInv /\ RowsInOrder /\ AbsentRows /\ JobsFollowAttempts
  BY DEF RunInv, ResultInv, LeaseInv, SlotInv, Pipeline
<1> SUFFICES ASSUME worker[w].pc \notin {"idle", "claimed"}, Leases(w, {"running"})',
                    worker[w].job.kind \in FencedAnalysisKind
             PROVE  RunKnown(w)'
  BY DEF RunKnown
<1> PICK j \in Job : j = worker[w].job
  BY <1>0 DEF TypeOK
<1>1. job'[j] = job[j]
  BY <1>0, RunningStays
<1>2. job[j].status = "running" /\ job[j].owner = w /\ Leases(w, {"running"})
  BY <1>1 DEF Leases
<1>3. run'[j] = run[j]
  <2>1. AnalysisStep(j)
    BY <1>0, AnalysisSteps
  <2>2. ~CreateRun(j) /\ ~CancelRun(j)
    <3>1. ~CreateRun(j)
      BY <1>2 DEF CreateRun
    <3>2. ~CancelsAtOnce(j)
      BY <1>2 DEF CancelsAtOnce
    <3>3. job' # [job EXCEPT ![j].status = "cancel_requested"]
      BY <1>0, <1>1, <1>2 DEF TypeOK, JobRow
    <3> QED
      BY <3>1, <3>2, <3>3 DEF CancelRun
  <2>3. ~Drove(j)
    BY <1>0, <1>2 DEF Drove, DrivesRun, Leases
  <2>4. ~Finished(j)
    <3>1. ASSUME NEW x \in Worker, worker[x].job = j, FinishOther(x)
          PROVE  x = w
      BY <1>2, <3>1 DEF FinishOther, FinishAllowed, Leases
    <3>2. ~FinishOther(w)
      BY <1>0 DEF FinishOther, FinishLease, Idle, TypeOK
    <3> QED
      BY <3>1, <3>2 DEF Finished
  <2>5. ~Recovered(j)
    BY <1>1, <1>2 DEF Recovered, RecoverTerminalAnalysis, RecoverAnalysis,
        RecoverCancelled, Expired, Recoverable, Leases
  <2>6. Cancel(j.task) \/ Delete(j.task) => run' = run
    BY DEF Cancel, Delete
  <2> QED
    BY <1>1, <1>2, <2>1, <2>2, <2>3, <2>4, <2>5, <2>6 DEF AnalysisStep
<1>4. RunKnown(w)
  BY DEF RunInv
<1> QED
  BY <1>1, <1>2, <1>3, <1>4 DEF RunKnown

\* A worker knows what it has just written.
LEMMA KnownByWork ==
    ASSUME RunInv, ~DbFaults, [Next]_vars, NEW w \in Worker, worker'[w] # worker[w]
    PROVE  RunKnown(w)'
<1>0. TypeOK /\ LeaseInv /\ RowsInOrder /\ AbsentRows /\ JobsFollowAttempts /\ RunKnown(w)
  BY DEF RunInv, ResultInv, LeaseInv, SlotInv, Pipeline
<1>1. ASSUME NEW k \in Job, Claim(w, k)
      PROVE  RunKnown(w)'
  BY <1>0, <1>1 DEF Claim, RunKnown, TypeOK
<1>2. CASE \/ HeartbeatLost(w) \/ Crash(w) \/ StartRefused(w) \/ FinishRefused(w)
           \/ FinishScan(w) \/ FinishTrivy(w) \/ FinishOther(w) \/ FailPython(w)
  <2>1. worker'[w].pc = "idle"
    BY <1>0, <1>2 DEF HeartbeatLost, Crash, StartRefused, FinishRefused,
        FinishScan, FinishTrivy, FinishOther, FinishLease, FailPython, TypeOK, Idle
  <2> QED
    BY <2>1 DEF RunKnown
<1>3. CASE \/ PublishTree(w) \/ EnqueueTrivy(w) \/ Report(w)
           \/ \E outcome \in Outcome :
                 PublishFindings(w, outcome) \/ ReturnScan(w, outcome)
                   \/ ReturnPostScan(w, outcome)
           \/ \E status \in TerminalRun : PublishPython(w, status)
           \/ FailPublication(w) \/ RetryPython(w)
  <2>1. worker[w].job.kind \notin FencedAnalysisKind
    <3>1. worker[w].job.kind \in ScanKind \cup PostScanKind \cup {"python_analysis"}
      BY <1>3 DEF PublishTree, EnqueueTrivy, Report, PublishFindings,
          ReturnScan, ReturnPostScan, Works, PublishPython, FailPublication,
          RetryPython, Analyses, ScanKind
    <3> QED
      BY <3>1, Kinds DEF ScanKind
  <2>2. worker'[w].job = worker[w].job
    BY <1>0, <1>3, SMTT(60) DEF PublishTree, EnqueueTrivy, Report,
        PublishFindings, ReturnScan, ReturnPostScan, PublishPython,
        FailPublication, RetryPython, StepTo, Return, TypeOK, WorkerMemory
  <2> QED
    BY <2>1, <2>2 DEF RunKnown
<1>4. CASE Start(w)
  <2> PICK j \in Job : j = worker[w].job
    BY <1>0, <1>4 DEF Start, TypeOK
  <2>1. worker'[w].pc = "running" /\ worker'[w].job = j /\ run' = run
    BY <1>0, <1>4 DEF Start, StepTo, TypeOK, WorkerMemory
  <2>2. j.kind \in FencedAnalysisKind => run[j] = "queued"
    BY <1>4, Kinds DEF Start, StartAllowed
  <2> QED
    BY <2>1, <2>2 DEF RunKnown
<1>5. CASE \/ Begin(w) \/ RetryRun(w) \/ ReturnError(w)
           \/ \E status \in TerminalRun : PublishRun(w, status) \/ EndRun(w, status)
  <2> PICK j \in Job : j = worker[w].job
    <3>1. worker[w].pc # "idle"
      BY <1>5 DEF Begin, RetryRun, ReturnError, PublishRun, EndRun, Analyses
    <3> QED
      BY <1>0, <3>1 DEF TypeOK
  <2>1. worker[w] \in WorkerMemory /\ worker \in [Worker -> WorkerMemory]
        /\ run \in [Job -> RunStatus]
    BY <1>0 DEF TypeOK
  <2>2. CASE Begin(w)
    <3>1. worker'[w].pc = "begun" /\ worker'[w].job = j /\ run'[j] = "running"
      BY <2>1, <2>2 DEF Begin, SetRun, StepTo, WorkerMemory
    <3> QED
      BY <3>1 DEF RunKnown
  <2>3. CASE RetryRun(w)
    <3>1. /\ worker'[w].pc = "done" /\ worker'[w].job = j
          /\ worker'[w].outcome = "transient_failure" /\ job' = job
          /\ run'[j] = IF job[j].attempt < MaxAttempts THEN "queued" ELSE "failed"
      BY <2>1, <2>3 DEF RetryRun, SetRun, Return, WorkerMemory
    <3> QED
      BY <3>1 DEF RunKnown, Outcome, Success, Failure
  <2>4. ASSUME NEW status \in TerminalRun, EndRun(w, status)
        PROVE  RunKnown(w)'
    <3>1. /\ worker'[w].pc = "done" /\ worker'[w].job = j
          /\ worker'[w].outcome = "deterministic_failure"
          /\ run'[j] \in {"failed", "cancelled"}
      BY <2>1, <2>4 DEF EndRun, SetRun, Return, WorkerMemory
    <3> QED
      BY <3>1 DEF RunKnown, Outcome, Success, Failure
  <2>5. ASSUME NEW status \in TerminalRun, PublishRun(w, status)
        PROVE  RunKnown(w)'
    <3>1. /\ worker'[w].pc = "done" /\ worker'[w].job = j
          /\ worker'[w].outcome = OutcomeOfRun(status)
          /\ run'[j] = status /\ status \in {"succeeded", "partial", "failed"}
      BY <2>1, <2>5 DEF PublishRun, SetRun, Return, WorkerMemory
    <3> QED
      BY <3>1 DEF RunKnown, Outcome, Success, Failure, OutcomeOfRun
  <2>6. CASE ReturnError(w)
    <3>1. /\ ~DrivesRun(w) /\ UNCHANGED rows /\ worker'[w].job = j
          /\ worker'[w].token = worker[w].token
          /\ worker[w].pc \in {"running", "begun"}
      BY <2>1, <2>6 DEF ReturnError, Return, Analyses, WorkerMemory
    <3>2. j.kind \in FencedAnalysisKind => ~Leases(w, {"running"})
      BY <1>0, <3>1 DEF RunKnown, DrivesRun
    <3>3. Leases(w, {"running"})' => Leases(w, {"running"})
      BY <3>1 DEF Leases, rows
    <3> QED
      BY <3>1, <3>2, <3>3 DEF RunKnown
  <2> QED
    BY <1>5, <2>2, <2>3, <2>4, <2>5, <2>6
<1>6. ~ReturnFault(w)
  BY DEF ReturnFault
<1> QED
  BY <1>0, <1>1, <1>2, <1>3, <1>4, <1>5, <1>6, OwnMemory DEF Work, Lose
-----------------------------------------------------------------------------
\* The invariant of analyses holds from the start and is kept.
LEMMA RunInvariant == ASSUME ~DbFaults PROVE Spec => []RunInv
<1>1. Init /\ ResultInv => RunInv
  <2> SUFFICES ASSUME Init, ResultInv PROVE RunInv
    OBVIOUS
  <2>1. \A j \in Job : job[j].status = "absent" /\ run[j] = "none"
    BY DEF Init, AbsentJob
  <2>2. RequestedAfterScan /\ CancelledByRun /\ RunsDriven /\ RunAgreesWithJob
    BY <2>1 DEF RequestedAfterScan, CancelledByRun, RunsDriven, RunDriven,
        RunAgreesWithJob, WaitingJob
  <2>3. \A w \in Worker : RunKnown(w)
    BY DEF Init, RunKnown, Idle
  <2> QED
    BY <2>2, <2>3 DEF RunInv
<1>2. RunInv /\ ResultInv' /\ [Next]_vars => RunInv'
  <2> SUFFICES ASSUME RunInv, ResultInv', [Next]_vars PROVE RunInv'
    OBVIOUS
  <2>1. RequestedAfterScan'
    BY RequestedStays DEF RunInv, ResultInv
  <2>2. CancelledByRun' /\ RunsDriven' /\ RunAgreesWithJob'
    <3>1. \A j \in Job : j.kind \in FencedAnalysisKind => Coupled(j)'
      BY CoupledStays
    <3> QED
      BY <3>1 DEF CancelledByRun, RunsDriven, RunAgreesWithJob, Coupled, Agrees
  <2>3. \A w \in Worker : RunKnown(w)'
    BY KnownStays, KnownByWork
  <2> QED
    BY <2>1, <2>2, <2>3 DEF RunInv
<1> QED
  BY <1>1, <1>2, ResultInvariant, PTL DEF Spec

(***************************************************************************)
(* The theorems.  Their hypothesis is needed: when the database fails a    *)
(* processor on the last attempt of its job, the job fails and its run     *)
(* stays as it was.                                                        *)
(***************************************************************************)

\* An active run always has the unfinished job that settles it, in the state
\* in which it does.
THEOREM RunsAreDriven == ASSUME ~DbFaults PROVE Spec => []RunsDriven
BY RunInvariant, PTL DEF RunInv

\* The outcome of a run and the one of its job are never different.
THEOREM RunsAgreeWithJobs == ASSUME ~DbFaults PROVE Spec => []RunAgreesWithJob
BY RunInvariant, PTL DEF RunInv

\* A user can stop every active run: Cancel finds its job in one of the
\* states it accepts.
THEOREM ActiveRunsCancellable == ASSUME ~DbFaults PROVE Spec => []ActiveRunCancellable
<1>1. RunInv => ActiveRunCancellable
  BY DEF RunInv, RunsDriven, RunDriven, ActiveRunCancellable, CancelsAtOnce,
     CancelsByRequest, HeldJob
<1> QED
  BY <1>1, RunInvariant, PTL
=============================================================================
