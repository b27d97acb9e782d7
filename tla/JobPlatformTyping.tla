-------------------------- MODULE JobPlatformTyping --------------------------
(***************************************************************************)
(* Type correctness of the platform, for every set of tasks, workers and   *)
(* jobs and every limit the code accepts: one lemma per actor, then the    *)
(* theorem.                                                                *)
(***************************************************************************)
EXTENDS JobPlatform, TLAPS

\* A job row names a task of the platform, and its attempt when it has one.
LEMMA JobsTyped ==
    ASSUME NEW j \in Job
    PROVE  /\ j.task \in Task /\ j.kind \in Kind /\ j.n \in Nat \ {0}
           /\ j.kind \in ScanKind => AttemptOf(j) \in AttemptId
BY JobsAreRecords DEF AttemptOf, AttemptId

\* releaseResourceSlots only writes empty slots.
LEMMA FreedSlotsTyped ==
    ASSUME TypeOK, NEW Leaving
    PROVE  FreedSlots(Leaving) \in [SlotId -> SlotRow]
BY DEF TypeOK, FreedSlots, SlotRow, NoHold

\* A job that leaves its lease is still a job row.
LEMMA SettledTyped ==
    ASSUME TypeOK, NEW j \in Job, NEW status \in JobStatus
    PROVE  [job EXCEPT ![j] = Settled(j, status)] \in [Job -> JobRow]
BY DEF TypeOK, Settled, JobRow

\* A job that changes its status is still a job row.
LEMMA JobStatusTyped ==
    ASSUME TypeOK, NEW j \in Job, NEW status \in JobStatus
    PROVE  [job EXCEPT ![j].status = status] \in [Job -> JobRow]
BY DEF TypeOK, JobRow

\* The named groups of statuses are statuses of their rows.
LEMMA Statuses ==
    /\ ActiveJob \cup TerminalJob \subseteq JobStatus
    /\ ActiveRun \cup TerminalRun \subseteq RunStatus
    /\ ExecutingTask \cup TerminalTask \cup {"CANCEL_REQUESTED", "DELETING"}
          \subseteq TaskStatus
    /\ {"queued", "running", "succeeded", "failed", "cancelled"}
          \subseteq AttemptStatus
BY DEF JobStatus, RunStatus, TaskStatus, AttemptStatus

\* The migrated, empty database is well typed.
LEMMA InitTyped == Init => TypeOK
BY DEF Init, TypeOK, AttemptRow, JobRow, SlotRow, WorkerMemory, TaskStatus,
       AttemptStatus, JobStatus, RunStatus, AbsentJob, NoHold, Idle, WorkerStep

\* An attempt that changes its status is still an attempt row.
LEMMA AttemptStatusTyped ==
    ASSUME TypeOK, NEW a \in AttemptId, NEW status \in AttemptStatus
    PROVE  [attempt EXCEPT ![a].status = status] \in [AttemptId -> AttemptRow]
BY DEF TypeOK, AttemptRow

\* An attempt that moves to another fence is still an attempt row.
LEMMA AttemptTokenTyped ==
    ASSUME TypeOK, NEW a \in AttemptId, NEW token \in Nat
    PROVE  [attempt EXCEPT ![a].token = token] \in [AttemptId -> AttemptRow]
BY DEF TypeOK, AttemptRow

\* A busy worker that goes on, returns or drops its lease keeps a typed
\* memory, and names a job as long as it is busy.
LEMMA WorkerTyped ==
    ASSUME TypeOK, NEW w \in Worker, worker[w].pc # "idle",
           NEW pc \in WorkerStep, NEW outcome \in Outcome,
           \/ worker' = [worker EXCEPT ![w] = Idle]
           \/ StepTo(w, pc)
           \/ Return(w, outcome)
    PROVE  /\ worker' \in [Worker -> WorkerMemory]
           /\ \A v \in Worker : worker'[v].pc # "idle" => worker'[v].job \in Job
BY DEF TypeOK, WorkerMemory, StepTo, Return, Idle, WorkerStep

\* Claim leaves every row typed, the slots it takes included.
LEMMA ClaimTyped ==
    ASSUME TypeOK, NEW w \in Worker, NEW j \in Job, Claim(w, j)
    PROVE  TypeOK'
<1>1. job' \in [Job -> JobRow]
  BY DEF Claim, TypeOK, JobRow, JobStatus, ActiveJob, HeldJob
<1>2. slot' \in [SlotId -> SlotRow]
  BY DEF Claim, TypeOK, AcquiredSlots, Hold, SlotRow, JobRow
<1>3. attempt' \in [AttemptId -> AttemptRow]
  <2>1. job[j].token + 1 \in Nat
    BY DEF TypeOK, JobRow
  <2> QED
    BY <2>1, JobsTyped, AttemptTokenTyped DEF Claim, TypeOK
<1>4. worker' \in [Worker -> WorkerMemory]
  BY DEF Claim, TypeOK, WorkerMemory, WorkerStep, JobRow
<1>5. \A v \in Worker : worker'[v].pc # "idle" => worker'[v].job \in Job
  BY DEF Claim, TypeOK, WorkerMemory
<1> QED
  BY <1>1, <1>2, <1>3, <1>4, <1>5 DEF Claim, TypeOK

\* An inserted job is a job row.
LEMMA QueuedTyped ==
    ASSUME NEW token \in Nat
    PROVE  QueuedJob(token) \in JobRow
BY DEF QueuedJob, AbsentJob, JobRow, JobStatus, ActiveJob

\* cancelActiveJobs leaves attempts, slots and jobs typed.
LEMMA CancelActiveTyped ==
    ASSUME TypeOK, NEW t \in Task, CancelActiveJobs(t)
    PROVE  /\ attempt' \in [AttemptId -> AttemptRow]
           /\ slot' \in [SlotId -> SlotRow]
           /\ job' \in [Job -> JobRow]
<1>1. attempt' \in [AttemptId -> AttemptRow]
  BY DEF CancelActiveJobs, TypeOK, AttemptRow, AttemptStatus
<1>2. slot' \in [SlotId -> SlotRow]
  BY FreedSlotsTyped DEF CancelActiveJobs
<1>3. job' \in [Job -> JobRow]
  BY ZenonT(60) DEF CancelActiveJobs, Settled, TypeOK, JobRow, JobStatus, ActiveJob,
         HeldJob, TerminalJob
<1> QED
  BY <1>1, <1>2, <1>3

\* What users ask of the task and analysis services leaves all rows typed.
LEMMA UserTyped ==
    ASSUME TypeOK, User
    PROVE  TypeOK'
<1> USE DEF TypeOK
<1>1. CASE \E t \in Task : CreateTask(t)
  <2> PICK t \in Task : CreateTask(t)
    BY <1>1
  <2>1. attempt' \in [AttemptId -> AttemptRow]
    BY DEF CreateTask, AttemptRow, AttemptStatus
  <2>2. job' \in [Job -> JobRow]
    BY QueuedTyped DEF CreateTask
  <2>3. task' \in [Task -> TaskStatus]
    BY DEF CreateTask, TaskStatus, ExecutingTask
  <2> QED
    BY <2>1, <2>2, <2>3 DEF CreateTask
<1>2. CASE \E t \in Task : Retry(t)
  <2> PICK t \in Task, last \in 1 .. MaxNumber, top \in 1 .. MaxNumber :
         /\ attempt' = [attempt EXCEPT ![<<t, last + 1>>] =
                           [status |-> "queued",
                            token |-> attempt[<<t, top>>].token + 1]]
         /\ job' = [job EXCEPT ![ScanJob(t, last + 1)] =
                       QueuedJob(attempt[<<t, top>>].token + 1)]
         /\ task' = [task EXCEPT ![t] = "QUEUED"]
         /\ UNCHANGED <<slot, run, published, importer, worker>>
    BY <1>2 DEF Retry
  <2>0. attempt[<<t, top>>].token + 1 \in Nat
    BY DEF AttemptId, AttemptRow
  <2>1. attempt' \in [AttemptId -> AttemptRow]
    BY <2>0 DEF AttemptRow, AttemptStatus
  <2>2. job' \in [Job -> JobRow]
    BY <2>0, QueuedTyped
  <2>3. task' \in [Task -> TaskStatus]
    BY DEF TaskStatus, ExecutingTask
  <2> QED
    BY <2>1, <2>2, <2>3
<1>3. CASE \E t \in Task : Cancel(t) \/ Delete(t)
  <2> PICK t \in Task : Cancel(t) \/ Delete(t)
    BY <1>3
  <2>1. task' \in [Task -> TaskStatus]
    BY DEF Cancel, Delete, TaskStatus, TerminalTask
  <2> QED
    BY <2>1, CancelActiveTyped DEF Cancel, Delete
<1>4. CASE \E j \in Job : RequestPostScan(j)
  BY <1>4, QueuedTyped DEF RequestPostScan
<1>5. CASE \E j \in Job : CreateRun(j)
  <2>1. run' \in [Job -> RunStatus]
    BY <1>5 DEF CreateRun, RunStatus, ActiveRun
  <2> QED
    BY <1>5, <2>1, QueuedTyped DEF CreateRun
<1>6. CASE \E j \in Job : CancelRun(j)
  <2> PICK j \in Job : CancelRun(j)
    BY <1>6
  <2>1. run' \in [Job -> RunStatus]
    BY DEF CancelRun, RunStatus, ActiveRun, TerminalRun
  <2>2. job' \in [Job -> JobRow]
    BY Statuses, SettledTyped, JobStatusTyped
       DEF CancelRun, ActiveJob, HeldJob, TerminalJob
  <2> QED
    BY <2>1, <2>2 DEF CancelRun
<1> QED
  BY <1>1, <1>2, <1>3, <1>4, <1>5, <1>6 DEF User

\* The part of Finish that all kinds share leaves its rows typed.
LEMMA FinishLeaseTyped ==
    ASSUME TypeOK, NEW w \in Worker, worker[w].pc = "done",
           NEW status \in {"queued", "succeeded", "failed"},
           FinishLease(w, status)
    PROVE  /\ job' \in [Job -> JobRow]
           /\ slot' \in [SlotId -> SlotRow]
           /\ worker' \in [Worker -> WorkerMemory]
           /\ \A v \in Worker : worker'[v].pc # "idle" => worker'[v].job \in Job
           /\ UNCHANGED <<run, published, importer>>
<1>1. worker[w].job \in Job /\ status \in JobStatus
  BY Statuses DEF TypeOK, ActiveJob, TerminalJob
<1>2. job' \in [Job -> JobRow]
  BY <1>1, SettledTyped DEF FinishLease
<1> QED
  BY <1>2, FreedSlotsTyped, WorkerTyped DEF FinishLease, WorkerStep, Outcome, Success

\* Finish leaves all rows typed, kind by kind.
LEMMA FinishTyped ==
    ASSUME TypeOK, NEW w \in Worker,
           FinishScan(w) \/ FinishTrivy(w) \/ FinishOther(w)
    PROVE  TypeOK'
<1> DEFINE j == worker[w].job
           outcome == worker[w].outcome
<1>0. /\ worker[w].pc = "done" /\ j \in Job
      /\ FinishedJob(outcome) \in {"succeeded", "failed"}
      /\ FinishedTask(outcome) \in TaskStatus
  BY Statuses DEF TypeOK, FinishScan, FinishTrivy, FinishOther, FinishedJob,
                  FinishedTask, TerminalTask
<1>1. CASE FinishScan(w)
  <2>1. PICK status \in {"queued", "succeeded", "failed"} : FinishLease(w, status)
    BY <1>0, <1>1 DEF FinishScan
  <2>2. attempt' \in [AttemptId -> AttemptRow]
    BY <1>0, <1>1, Statuses, JobsTyped, AttemptStatusTyped
       DEF FinishScan, ScanKind, TypeOK
  <2>3. task' \in [Task -> TaskStatus]
    BY <1>0, <1>1, Statuses DEF FinishScan, TypeOK, ExecutingTask
  <2> QED
    BY <1>0, <2>1, <2>2, <2>3, FinishLeaseTyped DEF TypeOK
<1>2. CASE FinishTrivy(w)
  <2>1. PICK status \in {"queued", "succeeded", "failed"} : FinishLease(w, status)
    BY <1>0, <1>2 DEF FinishTrivy
  <2>2. attempt' \in [AttemptId -> AttemptRow]
    BY <1>0, <1>2, Statuses, JobsTyped, AttemptStatusTyped
       DEF FinishTrivy, ScanKind, TypeOK
  <2>3. task' \in [Task -> TaskStatus]
    BY <1>0, <1>2, Statuses DEF FinishTrivy, TypeOK, ExecutingTask
  <2> QED
    BY <1>0, <2>1, <2>2, <2>3, FinishLeaseTyped DEF TypeOK
<1>3. CASE FinishOther(w)
  <2>1. PICK status \in {"queued", "succeeded", "failed"} : FinishLease(w, status)
    BY <1>0, <1>3 DEF FinishOther
  <2> QED
    BY <1>0, <1>3, <2>1, FinishLeaseTyped DEF TypeOK, FinishOther
<1> QED
  BY <1>1, <1>2, <1>3

\* An analysis run that changes its status stays typed.
LEMMA SetRunTyped ==
    ASSUME TypeOK, NEW w \in Worker, NEW status \in RunStatus,
           SetRun(w, status)
    PROVE  /\ run' \in [Job -> RunStatus]
           /\ UNCHANGED <<task, attempt, job, slot, importer>>
BY DEF TypeOK, SetRun

\* A stored result is stored under a fencing token.
LEMMA StoreTyped ==
    ASSUME TypeOK, NEW w \in Worker, StorePublished(w)
    PROVE  published' \in [Job -> Nat]
BY DEF TypeOK, StorePublished, WorkerMemory

\* Whatever a worker does inside a lease, or when it loses it, is typed.
LEMMA WorkTyped ==
    ASSUME TypeOK, NEW w \in Worker, Work(w) \/ Lose(w)
    PROVE  TypeOK'
<1> USE DEF WorkerStep, Outcome, Success, Failure
<1>1. CASE FinishScan(w) \/ FinishTrivy(w) \/ FinishOther(w)
  BY <1>1, FinishTyped
<1>2. CASE StartRefused(w) \/ FinishRefused(w) \/ FailPython(w) \/ Lose(w)
  BY <1>2, WorkerTyped
     DEF StartRefused, FinishRefused, FailPython, Lose, HeartbeatLost, Crash,
         Analyses, rows, TypeOK
<1>3. CASE Start(w)
  <2>1. worker[w].job \in Job /\ worker[w].pc # "idle"
    BY <1>3 DEF Start, TypeOK
  <2>2. task' \in [Task -> TaskStatus]
    BY <1>3, Statuses DEF Start, TypeOK, ExecutingTask
  <2>3. attempt' \in [AttemptId -> AttemptRow]
    BY <1>3, <2>1, Statuses, JobsTyped, AttemptStatusTyped
       DEF Start, ScanKind, TypeOK
  <2>4. job' \in [Job -> JobRow]
    BY <1>3, <2>1, Statuses, JobStatusTyped DEF Start, ActiveJob, HeldJob
  <2> QED
    BY <1>3, <2>1, <2>2, <2>3, <2>4, WorkerTyped DEF Start, TypeOK
<1>4. CASE PublishTree(w)
  <2> QED
    BY <1>4, WorkerTyped DEF PublishTree, Works, TypeOK, WorkerMemory
<1>5. CASE EnqueueTrivy(w)
  <2>1. job' \in [Job -> JobRow]
    BY <1>5, QueuedTyped DEF EnqueueTrivy, TypeOK, WorkerMemory
  <2> QED
    BY <1>5, <2>1, WorkerTyped DEF EnqueueTrivy, Works, TypeOK
<1>6. CASE Report(w)
  <2>1. task' \in [Task -> TaskStatus]
    BY <1>6, Statuses DEF Report, TypeOK, ExecutingTask
  <2> QED
    BY <1>6, <2>1, WorkerTyped DEF Report, Works, TypeOK
<1>7. CASE \E outcome \in Outcome : PublishFindings(w, outcome)
  BY <1>7, WorkerTyped DEF PublishFindings, Works, TypeOK, WorkerMemory
<1>8. CASE \E outcome \in Outcome :
              ReturnScan(w, outcome) \/ ReturnPostScan(w, outcome)
  BY <1>8, WorkerTyped DEF ReturnScan, ReturnPostScan, Works, rows, TypeOK
<1>9. CASE Begin(w) \/ RetryRun(w)
  <2>1. run' \in [Job -> RunStatus]
    BY <1>9, Statuses, SetRunTyped DEF Begin, RetryRun, ActiveRun, TerminalRun
  <2> QED
    BY <1>9, <2>1, WorkerTyped DEF Begin, RetryRun, SetRun, Analyses, TypeOK
<1>10. CASE \E status \in TerminalRun : PublishRun(w, status)
                \/ EndRun(w, status) \/ PublishPython(w, status)
  <2> PICK status \in TerminalRun : PublishRun(w, status)
                \/ EndRun(w, status) \/ PublishPython(w, status)
    BY <1>10
  <2>1. run' \in [Job -> RunStatus] /\ published' \in [Job -> Nat]
    BY Statuses, SetRunTyped, StoreTyped
       DEF PublishRun, EndRun, PublishPython, CommitPython, TypeOK
  <2>2. OutcomeOfRun(status) \in Outcome
    BY DEF OutcomeOfRun
  <2> QED
    BY <2>1, <2>2, WorkerTyped
       DEF PublishRun, EndRun, PublishPython, CommitPython, SetRun, Analyses, TypeOK
<1>11. CASE ReturnError(w) \/ RetryPython(w)
  BY <1>11, WorkerTyped DEF ReturnError, RetryPython, Analyses, rows, TypeOK
<1>12. CASE ReturnFault(w)
  <2>1. run' \in [Job -> RunStatus] /\ published' \in [Job -> Nat]
    BY <1>12, Statuses, SetRunTyped, StoreTyped
       DEF ReturnFault, rows, TypeOK, TerminalRun
  <2> QED
    BY <1>12, <2>1, WorkerTyped DEF ReturnFault, SetRun, Analyses, rows, TypeOK
<1>13. CASE FailPublication(w)
  <2>1. run' \in [Job -> RunStatus] /\ published' \in [Job -> Nat]
    BY <1>13, Statuses, SetRunTyped, StoreTyped
       DEF FailPublication, CommitPython, rows, TypeOK, TerminalRun
  <2> QED
    BY <1>13, <2>1, WorkerTyped
       DEF FailPublication, CommitPython, SetRun, Analyses, rows, TypeOK
<1> QED
  BY <1>1, <1>2, <1>3, <1>4, <1>5, <1>6, <1>7, <1>8, <1>9, <1>10, <1>11, <1>12,
     <1>13 DEF Work

\* An expired or recovered lease leaves all rows typed.
LEMMA RecoverTyped ==
    ASSUME TypeOK, NEW j \in Job, Maintenance(j)
    PROVE  TypeOK'
<1> DEFINE after == {"queued", "succeeded", "failed", "cancelled"}
<1>1. CASE ExpireLease(j)
  <2>1. job' \in [Job -> JobRow]
    BY <1>1 DEF ExpireLease, TypeOK, JobRow
  <2> QED
    BY <1>1, <2>1 DEF ExpireLease, TypeOK
<1>2. ASSUME Recover(j)
      PROVE  TypeOK'
  <2>1. PICK status \in after : RecoverLease(j, status)
    BY <1>2 DEF Recover, RecoverScan, RecoverTrivy, RecoverPlain, Quarantine,
        RecoverTerminalAnalysis, RecoverAnalysis, RecoverCancelled,
        SettledByRun, TerminalRun
  <2>2. /\ job' \in [Job -> JobRow]
        /\ slot' \in [SlotId -> SlotRow]
        /\ UNCHANGED <<published, importer, worker>>
    BY <2>1, Statuses, SettledTyped, FreedSlotsTyped
       DEF RecoverLease, ActiveJob, TerminalJob
  <2>3. run' \in [Job -> RunStatus]
    BY <1>2, Statuses DEF Recover, RecoverScan, RecoverTrivy, RecoverPlain,
        RecoverTerminalAnalysis, RecoverAnalysis, RecoverCancelled,
        Quarantine, TypeOK, ActiveRun, TerminalRun
  <2>4. task' \in [Task -> TaskStatus]
    BY <1>2, Statuses DEF Recover, RecoverScan, RecoverTrivy, RecoverPlain,
        RecoverTerminalAnalysis, RecoverAnalysis, RecoverCancelled,
        Quarantine, TypeOK, ExecutingTask, TerminalTask
  <2>5. attempt' \in [AttemptId -> AttemptRow]
    <3>1. \/ attempt' = attempt
          \/ /\ j.kind \in ScanKind
             /\ \E s \in after :
                   attempt' = [attempt EXCEPT ![AttemptOf(j)].status = s]
      BY <1>2 DEF Recover, RecoverScan, RecoverTrivy, RecoverPlain,
        RecoverTerminalAnalysis, RecoverAnalysis, RecoverCancelled,
        Quarantine, ScanKind
    <3> QED
      BY <3>1, Statuses, JobsTyped, AttemptStatusTyped DEF TypeOK
  <2> QED
    BY <2>2, <2>3, <2>4, <2>5 DEF TypeOK
<1> QED
  BY <1>1, <1>2 DEF Maintenance

\* Every step of the platform preserves the types.
LEMMA NextTyped == TypeOK /\ [Next]_vars => TypeOK'
<1> SUFFICES ASSUME TypeOK, [Next]_vars PROVE TypeOK'
  OBVIOUS
<1>1. CASE UNCHANGED vars
  BY <1>1 DEF vars, TypeOK
<1>2. CASE Import
  BY <1>2 DEF Import, ImportClaim, ImportEnd, TypeOK
<1> QED
  BY <1>1, <1>2, UserTyped, WorkTyped, ClaimTyped, RecoverTyped DEF Next

\* Every row and every process memory stays of its type.
THEOREM Typing == Spec => []TypeOK
BY InitTyped, NextTyped, PTL DEF Spec
=============================================================================
