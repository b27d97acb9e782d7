----------------------------- MODULE LeaseProofs -----------------------------
(***************************************************************************)
(* The rows that a lease ties together, the job, its attempt and its task, *)
(* agree in every reachable state: a task in execution has one driver, no  *)
(* recovery finds rows to quarantine, nothing ended comes back.            *)
(*                                                                         *)
(* The invariant names the stage of every attempt: over, driven by its     *)
(* scan job, or handed to its Trivy job.  A step moves one attempt (Moves) *)
(* and it has to be the last one of its task, cancels what a task has      *)
(* (CancelActiveJobs), or leaves the pipeline alone (Still).               *)
(***************************************************************************)
EXTENDS SlotProofs, FiniteSetTheorems

\* A row that is not there is the row nobody has written.
AbsentRows ==
    /\ \A j \in Job : job[j].status = "absent" => job[j] = AbsentJob
    /\ \A a \in AttemptId : attempt[a].status = "absent" => attempt[a].token = 0

\* A waiting job has attempts left: Requeues and Retries ask for one.
QueuedHaveAttempts ==
    \A j \in Job : job[j].status = "queued" => job[j].attempt < MaxAttempts

Active(a) == attempt[a].status \in {"queued", "running"}
Is(j, statuses) == j \in Job /\ job[j].status \in statuses

\* Attempts follow one another: the active attempt is the last one, and its
\* fence is above those of all attempts before it.
AttemptsInOrder ==
    \A t \in Task, m, n \in 1 .. MaxNumber :
        /\ m < n
        /\ attempt[<<t, n>>].status # "absent"
        => /\ ~Active(<<t, m>>)
           /\ attempt[<<t, m>>].token < attempt[<<t, n>>].token

\* No scan or Trivy job is ahead of its attempt, and Trivy jobs are those of
\* scans that found images.
JobsFollowAttempts ==
    \A j \in Job : j.kind \in ScanKind =>
        /\ job[j].token <= attempt[AttemptOf(j)].token
        /\ j.kind = "trivy" /\ job[j].status # "absent" => j.task \in ImageTask

(***************************************************************************)
(* The stage of an attempt: over or not begun, driven by its scan job, or  *)
(* handed to its Trivy job.  The driver, the attempt and the task agree.   *)
(***************************************************************************)
Inactive(t, n) ==
    /\ ~Active(<<t, n>>)
    /\ ~Is(ScanJob(t, n), ActiveJob)
    /\ ~Is(TrivyJob(t, n), HeldJob)

Scanning(t, n) ==
    LET a == attempt[<<t, n>>]
        s == ScanJob(t, n)
    IN
    /\ s \in Job /\ job[s].token = a.token
    /\ ~Is(TrivyJob(t, n), HeldJob)
    /\ \/ /\ job[s].status \in WaitingJob /\ a.status = "queued"
          /\ task[t] = "QUEUED"
       \/ /\ job[s].status = "running" /\ a.status = "running"
          /\ task[t] \in {"VALIDATING", "REPORTING"}
       \/ /\ job[s].status = "cancel_requested" /\ a.status = "running"
          /\ task[t] \in {"CANCEL_REQUESTED", "DELETING"}

HandedOver(t, n) ==
    LET a == attempt[<<t, n>>]
        v == TrivyJob(t, n)
    IN
    /\ v \in Job /\ job[v].token = a.token /\ a.status = "running"
    /\ Is(ScanJob(t, n), {"succeeded"})
    /\ \/ job[v].status \in WaitingJob /\ task[t] = "SCANNING"
       \/ job[v].status = "running" /\ task[t] \in {"SCANNING", "REPORTING"}
       \/ /\ job[v].status = "cancel_requested"
          /\ task[t] \in {"CANCEL_REQUESTED", "DELETING"}

Staged(t, n) == Inactive(t, n) \/ Scanning(t, n) \/ HandedOver(t, n)

\* A task in execution has an active attempt.
TaskDriven(t) ==
    task[t] \in ExecutingTask => \E n \in 1 .. MaxNumber : Active(<<t, n>>)

Pipeline ==
    /\ AttemptsInOrder
    /\ JobsFollowAttempts
    /\ \A t \in Task, n \in 1 .. MaxNumber : Staged(t, n)
    /\ \A t \in Task : TaskDriven(t)

\* A post-scan job that is being cancelled keeps its task from going on.
CancellingHoldsTask ==
    \A j \in Job :
        job[j].status = "cancel_requested" /\ j.kind \notin AnalysisKind =>
            task[j.task] \in {"CANCEL_REQUESTED", "DELETING"}

\* A scan of images that reports success has its Trivy job ready, under its
\* own fence.
HandoverReady ==
    \A w \in Worker :
        LET j == worker[w].job
            v == TrivyJob(j.task, j.n)
        IN
        /\ \/ worker[w].pc = "reported"
           \/ worker[w].pc = "done" /\ worker[w].outcome \in Success
        /\ j.kind = "scan" /\ j.task \in ImageTask
        /\ Leases(w, {"running"})
        => job[v].status = "queued" /\ job[v].token = worker[w].token

\* A run is inserted with its job; a requested cancellation of the run is one
\* of the job.
RunRows ==
    \A j \in Job :
        /\ run[j] # "none" <=> j.kind \in AnalysisKind /\ job[j].status # "absent"
        /\ run[j] = "cancel_requested" =>
               job[j].status \in {"cancel_requested", "cancelled", "failed"}

LeaseInv ==
    /\ SlotInv
    /\ AbsentRows
    /\ QueuedHaveAttempts
    /\ Pipeline
    /\ CancellingHoldsTask
    /\ HandoverReady
    /\ RunRows
-----------------------------------------------------------------------------
(***************************************************************************)
(* Rows and their names                                                    *)
(***************************************************************************)

\* A scan or Trivy job is the one of its attempt.
LEMMA Named ==
    ASSUME NEW j \in Job
    PROVE  /\ j.kind = "scan" => j = ScanJob(j.task, j.n)
           /\ j.kind = "trivy" => j = TrivyJob(j.task, j.n)
           /\ j.kind \in ScanKind => j.n \in 1 .. MaxNumber
BY JobsAreRecords DEF ScanJob, TrivyJob, ScanKind

\* The names of the jobs of an attempt tell them apart from all others.
LEMMA Names ==
    ASSUME NEW t, NEW n
    PROVE  /\ AttemptOf(ScanJob(t, n)) = <<t, n>>
           /\ AttemptOf(TrivyJob(t, n)) = <<t, n>>
           /\ ScanJob(t, n).kind = "scan" /\ TrivyJob(t, n).kind = "trivy"
           /\ ScanJob(t, n).task = t /\ TrivyJob(t, n).task = t
           /\ ScanJob(t, n).n = n /\ TrivyJob(t, n).n = n
           /\ ScanJob(t, n) # TrivyJob(t, n)
BY DEF ScanJob, TrivyJob, AttemptOf

\* The kinds of jobs are disjoint.
LEMMA Kinds ==
    /\ "scan" \notin PostScanKind \cup AnalysisKind
    /\ "trivy" \notin PostScanKind \cup AnalysisKind
    /\ PostScanKind \cap AnalysisKind = {}
    /\ FencedAnalysisKind \subseteq AnalysisKind
    /\ "python_analysis" \notin FencedAnalysisKind
    /\ Kind = ScanKind \cup PostScanKind \cup AnalysisKind
BY DEF PostScanKind, AnalysisKind, FencedAnalysisKind, Kind
-----------------------------------------------------------------------------
(***************************************************************************)
(* What a step does to a job row                                           *)
(***************************************************************************)
KeptRow(j) ==
    \/ job'[j] = job[j]
    \/ job[j].live /\ job'[j] = [job[j] EXCEPT !.live = FALSE]

Inserted(j) ==
    /\ \/ job[j].status = "absent"
       \/ j.kind = "trivy" /\ job[j].status = "queued"
    /\ \E token \in Nat : job'[j] = QueuedJob(token) /\ job[j].token <= token
    /\ j.kind \in AnalysisKind => CreateRun(j)
    /\ j.kind \in PostScanKind => RequestPostScan(j)
    /\ j.kind = "trivy" =>
           \E w \in Worker : EnqueueTrivy(w) /\ AttemptOf(worker[w].job) = AttemptOf(j)

Claimed(j) ==
    /\ job[j].status = "queued" /\ job'[j].status = "leased"
    /\ job'[j].token = job[j].token + 1
    /\ \E w \in Worker : Claim(w, j)

Started(j) ==
    /\ job[j].status = "leased" /\ job'[j] = [job[j] EXCEPT !.status = "running"]
    /\ \E w \in Worker : Start(w) /\ worker[w].job = j

\* The job is cancelled by a user, with its task or with its run.
Withdrawn(j) == Cancel(j.task) \/ Delete(j.task) \/ CancelRun(j)

Ended(j) ==
    /\ job[j].status \in ActiveJob
    /\ \E status \in {"queued"} \cup TerminalJob :
          /\ status = "queued" => job[j].attempt < MaxAttempts
          /\ job[j].status = "cancel_requested" => status \in {"cancelled", "failed"}
          /\ job'[j] = Settled(j, status)
    /\ job[j].status = "queued" => Withdrawn(j)

Cancelling(j) ==
    /\ \/ job[j].status = "running" /\ (Cancel(j.task) \/ Delete(j.task))
       \/ job[j].status \in HeldJob /\ CancelRun(j)
    /\ job'[j] = [job[j] EXCEPT !.status = "cancel_requested"]

JobStep(j) ==
    KeptRow(j) \/ Inserted(j) \/ Claimed(j) \/ Started(j) \/ Ended(j) \/ Cancelling(j)

\* A new row changes that row only.
LEMMA InsertsNew ==
    ASSUME TypeOK, NEW j \in Job, job[j].status = "absent", AbsentRows,
           NEW token \in Nat, job' = [job EXCEPT ![j] = QueuedJob(token)],
           j.kind # "trivy", j.kind \in AnalysisKind => CreateRun(j),
           j.kind \in PostScanKind => RequestPostScan(j),
           NEW k \in Job
    PROVE  JobStep(k)
<1>1. CASE k = j
  <2>1. job[k].token = 0 /\ job'[k] = QueuedJob(token)
    BY <1>1 DEF AbsentRows, AbsentJob, TypeOK
  <2>2. job[k].token <= token
    BY <2>1
  <2> QED
    BY <1>1, <2>1, <2>2 DEF JobStep, Inserted
<1>2. CASE k # j
  BY <1>2 DEF JobStep, KeptRow, TypeOK
<1> QED
  BY <1>1, <1>2

\* What users ask for inserts new jobs, and ends or cancels unfinished ones.
LEMMA UserJobs ==
    ASSUME TypeOK, RowsInOrder, AbsentRows, User, NEW k \in Job
    PROVE  JobStep(k)
<1>1. CASE \E t \in Task : CreateTask(t)
  <2> PICK t \in Task : CreateTask(t)
    BY <1>1
  <2>1. ScanJob(t, 1) \in Job /\ <<t, 1>> \in AttemptId
    BY JobsAreRecords, LimitsAreValid DEF ScanJob, AttemptId
  <2>2. job[ScanJob(t, 1)].status = "absent"
    BY <2>1 DEF CreateTask, RowsInOrder, ScanJob, AttemptOf
  <2>3. ScanJob(t, 1).kind \notin {"trivy"} \cup AnalysisKind \cup PostScanKind
    BY Names, Kinds
  <2> QED
    BY <2>1, <2>2, <2>3, InsertsNew DEF CreateTask
<1>2. CASE \E t \in Task : Retry(t)
  <2> PICK t \in Task : Retry(t)
    BY <1>2
  <2> PICK last \in 1 .. MaxNumber, token \in Nat :
         /\ task[t] \in TerminalTask
         /\ last + 1 <= MaxNumber
         /\ attempt[<<t, last + 1>>].status = "absent"
         /\ ScanJob(t, last + 1) \in Job
         /\ attempt' = [attempt EXCEPT ![<<t, last + 1>>] =
                           [status |-> "queued", token |-> token]]
         /\ job' = [job EXCEPT ![ScanJob(t, last + 1)] = QueuedJob(token)]
         /\ task' = [task EXCEPT ![t] = "QUEUED"]
         /\ UNCHANGED <<slot, run, published, importer, worker>>
    BY RetryInserts
  <2>1. job[ScanJob(t, last + 1)].status = "absent"
    BY Names DEF RowsInOrder
  <2>2. ScanJob(t, last + 1).kind \notin {"trivy"} \cup AnalysisKind \cup PostScanKind
    BY Names, Kinds
  <2> QED
    BY <2>1, <2>2, InsertsNew
<1>3. CASE \E t \in Task : Cancel(t) \/ Delete(t)
  <2> PICK t \in Task : CancelActiveJobs(t) /\ (Cancel(t) \/ Delete(t))
    BY <1>3 DEF Cancel, Delete
  <2>1. CASE k \in JobsOf(t, WaitingJob)
    <3>1. /\ job'[k] = Settled(k, "cancelled") /\ job[k].status \in ActiveJob
          /\ k.task = t
      BY <2>1 DEF CancelActiveJobs, JobsOf, WaitingJob, ActiveJob, HeldJob
    <3> QED
      BY <3>1 DEF JobStep, Ended, TerminalJob, Withdrawn
  <2>2. CASE k \in JobsOf(t, {"running"}) \ JobsOf(t, WaitingJob)
    <3>1. /\ job'[k] = [job[k] EXCEPT !.status = "cancel_requested"]
          /\ job[k].status = "running" /\ k.task = t
      BY <2>2 DEF CancelActiveJobs, JobsOf
    <3> QED
      BY <3>1 DEF JobStep, Cancelling
  <2>3. CASE k \notin JobsOf(t, {"running"}) \cup JobsOf(t, WaitingJob)
    BY <2>3 DEF CancelActiveJobs, JobStep, KeptRow
  <2> QED
    BY <2>1, <2>2, <2>3
<1>4. CASE \E j \in Job : RequestPostScan(j) \/ CreateRun(j)
  <2> PICK j \in Job : RequestPostScan(j) \/ CreateRun(j)
    BY <1>4
  <2>1. /\ j.kind # "trivy" /\ (j.kind \in AnalysisKind => CreateRun(j))
        /\ j.kind \in PostScanKind => RequestPostScan(j)
    BY Kinds DEF RequestPostScan, CreateRun
  <2> QED
    BY <2>1, InsertsNew DEF RequestPostScan, CreateRun
<1>5. CASE \E j \in Job : CancelRun(j)
  <2> PICK j \in Job : CancelRun(j)
    BY <1>5
  <2>1. \/ /\ job[j].status = "queued"
           /\ job' = [job EXCEPT ![j] = Settled(j, "cancelled")]
        \/ /\ job[j].status \in HeldJob
           /\ job' = [job EXCEPT ![j].status = "cancel_requested"]
    BY DEF CancelRun, CancelsAtOnce, CancelsByRequest
  <2>2. CASE k = j
    BY <2>1, <2>2 DEF JobStep, Ended, Withdrawn, Cancelling, TypeOK, TerminalJob, ActiveJob
  <2>3. CASE k # j
    BY <2>1, <2>3 DEF JobStep, KeptRow, TypeOK
  <2> QED
    BY <2>2, <2>3
<1> QED
  BY <1>1, <1>2, <1>3, <1>4, <1>5 DEF User

\* A worker starts and ends its own lease, and enqueues Trivy jobs.
LEMMA WorkJobs ==
    ASSUME TypeOK, AbsentRows, JobsFollowAttempts, NEW w \in Worker,
           Work(w) \/ Lose(w), NEW k \in Job
    PROVE  JobStep(k)
<1>1. CASE UNCHANGED job
  BY <1>1 DEF JobStep, KeptRow
<1>2. CASE Start(w)
  <2> PICK j \in Job : j = worker[w].job
    BY <1>2 DEF Start, TypeOK
  <2>1. /\ job[j].status = "leased"
        /\ job' = [job EXCEPT ![j].status = "running"]
    BY <1>2 DEF Start, StartAllowed, Leases
  <2> QED
    BY <1>2, <2>1 DEF JobStep, KeptRow, Started, TypeOK
<1>3. CASE EnqueueTrivy(w)
  <2> DEFINE j == worker[w].job
             v == TrivyJob(j.task, j.n)
  <2>1. /\ j \in Job /\ j.kind = "scan" /\ worker[w].token \in Nat
        /\ attempt[AttemptOf(j)].token = worker[w].token
        /\ job[v].status \in {"absent", "queued"}
        /\ job' = [job EXCEPT ![v] = QueuedJob(worker[w].token)]
    BY <1>3 DEF EnqueueTrivy, Works, PublishingLease, TypeOK, WorkerMemory
  <2>2. CASE k = v
    <3>1. job[k].token <= worker[w].token
      BY <2>1, <2>2, Names DEF JobsFollowAttempts, AttemptOf, ScanKind
    <3>2. job'[k] = QueuedJob(worker[w].token)
      BY <2>1, <2>2 DEF TypeOK
    <3>3. k.kind = "trivy"
      BY <2>2, Names
    <3>4. AttemptOf(j) = AttemptOf(k) /\ k.kind \notin AnalysisKind \cup PostScanKind
      BY <2>1, <2>2, <3>3, Names, Kinds DEF AttemptOf
    <3> QED
      BY <1>3, <2>1, <2>2, <3>1, <3>2, <3>3, <3>4 DEF JobStep, Inserted
  <2>3. CASE k # v
    BY <2>1, <2>3 DEF JobStep, KeptRow, TypeOK
  <2> QED
    BY <2>2, <2>3
<1>4. CASE FinishScan(w) \/ FinishTrivy(w) \/ FinishOther(w)
  <2> DEFINE j == worker[w].job
  <2>1. /\ j \in Job /\ job[j].status = "running"
        /\ \E status \in {"queued"} \cup TerminalJob :
              /\ status = "queued" => job[j].attempt < MaxAttempts
              /\ FinishLease(w, status)
    BY <1>4 DEF FinishScan, FinishTrivy, FinishOther, FinishAllowed, Leases,
        FinishedJob, Requeues, TerminalJob, TypeOK
  <2> QED
    BY <2>1 DEF FinishLease, JobStep, KeptRow, Ended, ActiveJob, HeldJob, TypeOK
<1> QED
  BY <1>1, <1>2, <1>3, <1>4
     DEF Work, Lose, HeartbeatLost, Crash, StartRefused, FinishRefused,
         PublishTree, PublishFindings, ReturnScan, ReturnPostScan, Begin,
         RetryRun, ReturnError, ReturnFault, PublishRun, EndRun, Report,
         PublishPython, CommitPython, FailPublication, RetryPython, FailPython,
         SetRun, rows

\* Recovery ends the lease of the job it finds.
LEMMA RecoverJobs ==
    ASSUME TypeOK, NEW j \in Job, Maintenance(j), NEW k \in Job
    PROVE  JobStep(k)
<1>1. CASE ExpireLease(j)
  BY <1>1 DEF ExpireLease, JobStep, KeptRow, TypeOK
<1>2. CASE Recover(j)
  <2>1. /\ job[j].status \in HeldJob
        /\ \E status \in {"queued"} \cup TerminalJob :
              /\ status = "queued" => job[j].attempt < MaxAttempts
              /\ job[j].status = "cancel_requested" => status \in {"cancelled", "failed"}
              /\ RecoverLease(j, status)
    BY <1>2 DEF Recover, RecoverScan, RecoverTrivy, RecoverPlain, Quarantine,
        RecoverTerminalAnalysis, RecoverAnalysis, RecoverCancelled, Expired,
        Recoverable, Retries, SettledByRun, TerminalRun, TerminalJob
  <2> QED
    BY <2>1 DEF RecoverLease, JobStep, KeptRow, Ended, ActiveJob, HeldJob, TypeOK
<1> QED
  BY <1>1, <1>2 DEF Maintenance

\* Every step of the platform changes a job row in one of these ways.
LEMMA JobSteps ==
    ASSUME TypeOK, RowsInOrder, AbsentRows, JobsFollowAttempts, [Next]_vars,
           NEW k \in Job
    PROVE  JobStep(k)
<1>1. CASE Import \/ UNCHANGED vars
  BY <1>1 DEF Import, ImportClaim, ImportEnd, vars, JobStep, KeptRow
<1>2. ASSUME NEW w \in Worker, NEW j \in Job, Claim(w, j)
      PROVE  JobStep(k)
  <2>1. CASE k = j
    BY <1>2, <2>1, ClaimJobs DEF JobStep, Claimed
  <2>2. CASE k # j
    BY <1>2, <2>2, ClaimJobs DEF JobStep, KeptRow
  <2> QED
    BY <2>1, <2>2
<1> QED
  BY <1>1, <1>2, UserJobs, WorkJobs, RecoverJobs DEF Next

\* A row leaves the queue, is inserted or goes back with attempts left, an
\* ended job keeps its outcome and no fence goes back.
LEMMA JobStepKeeps ==
    ASSUME TypeOK, AbsentRows, QueuedHaveAttempts, NEW k \in Job, JobStep(k)
    PROVE  /\ job'[k].status = "absent" => job'[k] = AbsentJob
           /\ job'[k].status = "queued" => job'[k].attempt < MaxAttempts
           /\ job[k].token <= job'[k].token
           /\ job[k].status \in TerminalJob => job'[k].status = job[k].status
           /\ job[k].status # "absent" => job'[k].status # "absent"
<1> job[k] \in JobRow
  BY DEF TypeOK
<1>1. CASE KeptRow(k)
  <2>1. /\ job'[k].status = job[k].status /\ job'[k].token = job[k].token
        /\ job'[k].attempt = job[k].attempt
    BY <1>1 DEF KeptRow, JobRow
  <2>2. job[k].status = "absent" => job'[k] = job[k]
    BY <1>1 DEF KeptRow, AbsentRows, AbsentJob
  <2> QED
    BY <2>1, <2>2 DEF JobRow, AbsentRows, QueuedHaveAttempts
<1>2. CASE Inserted(k)
  BY <1>2, LimitsAreValid DEF Inserted, QueuedJob, AbsentJob, TerminalJob
<1>3. CASE Claimed(k)
  BY <1>3 DEF Claimed, JobRow, TerminalJob
<1>4. CASE Started(k)
  BY <1>4 DEF Started, JobRow, TerminalJob
<1>5. CASE Ended(k)
  <2> PICK status \in {"queued"} \cup TerminalJob :
         /\ status = "queued" => job[k].attempt < MaxAttempts
         /\ job'[k] = Settled(k, status)
    BY <1>5 DEF Ended
  <2>1. /\ job'[k].status = status /\ job'[k].attempt = job[k].attempt
        /\ job'[k].token = job[k].token
    BY DEF Settled, JobRow
  <2> QED
    BY <1>5, <2>1 DEF Ended, JobRow, TerminalJob, ActiveJob, HeldJob
<1>6. CASE Cancelling(k)
  BY <1>6 DEF Cancelling, JobRow, HeldJob, TerminalJob
<1> QED
  BY <1>1, <1>2, <1>3, <1>4, <1>5, <1>6 DEF JobStep
-----------------------------------------------------------------------------
(***************************************************************************)
(* What a step does to an attempt row                                      *)
(***************************************************************************)
AttemptStep(a) ==
    \/ attempt'[a] = attempt[a]
    \/ /\ attempt[a].status = "absent"
       /\ \E token \in Nat : attempt'[a] = [status |-> "queued", token |-> token]
    \/ /\ Active(a)
       /\ \/ attempt'[a] = [attempt[a] EXCEPT !.token = attempt[a].token + 1]
          \/ \E status \in {"queued", "running", "succeeded", "failed", "cancelled"} :
                attempt'[a] = [attempt[a] EXCEPT !.status = status]

\* Attempts are inserted, claimed by the job that carries their fence, and
\* end once.
LEMMA AttemptSteps ==
    ASSUME TypeOK, RowsInOrder, JobsFollowAttempts, [Next]_vars, NEW a \in AttemptId
    PROVE  AttemptStep(a)
<1>1. CASE UNCHANGED attempt
  BY <1>1 DEF AttemptStep
<1>2. CASE \E t \in Task : CreateTask(t)
  <2> PICK t \in Task : CreateTask(t)
    BY <1>2
  <2>1. <<t, 1>> \in AttemptId /\ attempt[<<t, 1>>].status = "absent"
    BY LimitsAreValid DEF CreateTask, RowsInOrder, AttemptId
  <2> QED
    BY <2>1 DEF CreateTask, AttemptStep, TypeOK
<1>3. CASE \E t \in Task : Retry(t)
  <2> PICK t \in Task : Retry(t)
    BY <1>3
  <2> PICK last \in 1 .. MaxNumber, token \in Nat :
         /\ task[t] \in TerminalTask
         /\ last + 1 <= MaxNumber
         /\ attempt[<<t, last + 1>>].status = "absent"
         /\ ScanJob(t, last + 1) \in Job
         /\ attempt' = [attempt EXCEPT ![<<t, last + 1>>] =
                           [status |-> "queued", token |-> token]]
         /\ job' = [job EXCEPT ![ScanJob(t, last + 1)] = QueuedJob(token)]
         /\ task' = [task EXCEPT ![t] = "QUEUED"]
         /\ UNCHANGED <<slot, run, published, importer, worker>>
    BY RetryInserts
  <2> QED
    BY DEF AttemptStep, TypeOK
<1>4. CASE \E t \in Task : Cancel(t) \/ Delete(t)
  <2> PICK t \in Task : CancelActiveJobs(t)
    BY <1>4 DEF Cancel, Delete
  <2>1. CASE a \in AbandonedAttempts(t)
    BY <2>1 DEF CancelActiveJobs, AbandonedAttempts, AttemptStep, Active
  <2>2. CASE a \notin AbandonedAttempts(t)
    BY <2>2 DEF CancelActiveJobs, AttemptStep
  <2> QED
    BY <2>1, <2>2
<1>5. ASSUME NEW w \in Worker, NEW j \in Job, Claim(w, j)
      PROVE  AttemptStep(a)
  <2>1. CASE j.kind \in ScanKind
    <3>1. Active(AttemptOf(j)) /\ attempt[AttemptOf(j)].token = job[j].token
      BY <1>5, <2>1, Kinds DEF Claim, Claimable, ClaimConsistent, Active, ScanKind
    <3>2. attempt' = [attempt EXCEPT ![AttemptOf(j)].token = job[j].token + 1]
      BY <1>5, <2>1 DEF Claim
    <3> QED
      BY <3>1, <3>2, JobsTyped DEF AttemptStep, TypeOK
  <2>2. CASE j.kind \notin ScanKind
    BY <1>5, <2>2 DEF Claim, AttemptStep
  <2> QED
    BY <2>1, <2>2
<1>6. ASSUME NEW w \in Worker, Start(w) \/ FinishScan(w) \/ FinishTrivy(w)
      PROVE  AttemptStep(a)
  <2> DEFINE j == worker[w].job
  <2>1. \/ attempt' = attempt
        \/ /\ Active(AttemptOf(j))
           /\ \E status \in {"queued", "running", "succeeded", "failed"} :
                 attempt' = [attempt EXCEPT ![AttemptOf(j)].status = status]
    <3>1. CASE Start(w)
      BY <3>1, Kinds, SMTT(60) DEF Start, StartAllowed, Active
    <3>2. CASE FinishScan(w) \/ FinishTrivy(w)
      BY <3>2, SMTT(60) DEF FinishScan, FinishTrivy, AttemptIsRunning, FinishedJob, Active
    <3> QED
      BY <1>6, <3>1, <3>2
  <2> QED
    BY <2>1 DEF AttemptStep, TypeOK
<1>7. ASSUME NEW j \in Job, Recover(j)
      PROVE  AttemptStep(a)
  <2>1. \/ attempt' = attempt
        \/ /\ Active(AttemptOf(j))
           /\ \E status \in {"queued", "failed", "cancelled"} :
                 attempt' = [attempt EXCEPT ![AttemptOf(j)].status = status]
    BY <1>7 DEF Recover, RecoverScan, RecoverTrivy, RecoverPlain,
        Quarantine, RecoverTerminalAnalysis, RecoverAnalysis,
        RecoverCancelled, ScanRecoverable, TrivyRecoverable,
        CancelRecoverable, AttemptIsActive, AttemptRuns, Active
  <2> QED
    BY <2>1 DEF AttemptStep, TypeOK
<1>8. CASE Next
  BY <1>1, <1>2, <1>3, <1>4, <1>5, <1>6, <1>7, <1>8, ZenonT(60)
     DEF Next, User, Maintenance, Work, Lose, Import, ImportClaim, ImportEnd,
         RequestPostScan, CreateRun, CancelRun, ExpireLease,
         HeartbeatLost, Crash, StartRefused, FinishRefused, FinishOther,
         PublishTree, PublishFindings, ReturnScan, ReturnPostScan, Begin,
         RetryRun, ReturnError, ReturnFault, PublishRun, EndRun, Report,
         EnqueueTrivy, PublishPython, CommitPython, FailPublication, RetryPython,
         FailPython, SetRun, rows
<1> QED
  BY <1>1, <1>8 DEF vars

\* An ended attempt keeps its outcome, no fence goes back, no row goes away.
LEMMA AttemptStepKeeps ==
    ASSUME TypeOK, AbsentRows, NEW a \in AttemptId, AttemptStep(a)
    PROVE  /\ attempt'[a].status = "absent" => attempt'[a].token = 0
           /\ attempt[a].token <= attempt'[a].token
           /\ attempt[a].status \in {"succeeded", "failed", "cancelled"} =>
                  attempt'[a].status = attempt[a].status
           /\ attempt[a].status # "absent" => attempt'[a].status # "absent"
<1> attempt[a] \in AttemptRow /\ (attempt[a].status = "absent" => attempt[a].token = 0)
  BY DEF TypeOK, AbsentRows
<1>1. CASE attempt'[a] = attempt[a]
  BY <1>1 DEF AttemptRow
<1>2. CASE /\ attempt[a].status = "absent"
           /\ \E token \in Nat : attempt'[a] = [status |-> "queued", token |-> token]
  BY <1>2
<1>3. CASE /\ Active(a)
           /\ attempt'[a] = [attempt[a] EXCEPT !.token = attempt[a].token + 1]
  BY <1>3 DEF AttemptRow, Active
<1>4. CASE /\ Active(a)
           /\ \E status \in {"queued", "running", "succeeded", "failed", "cancelled"} :
                 attempt'[a] = [attempt[a] EXCEPT !.status = status]
  BY <1>4 DEF AttemptRow, Active
<1> QED
  BY <1>1, <1>2, <1>3, <1>4 DEF AttemptStep

\* Absent rows stay as they were and waiting jobs keep attempts left.
LEMMA RowsKept ==
    ASSUME TypeOK, RowsInOrder, AbsentRows, QueuedHaveAttempts,
           JobsFollowAttempts, [Next]_vars
    PROVE  AbsentRows' /\ QueuedHaveAttempts'
BY JobSteps, JobStepKeeps, AttemptSteps, AttemptStepKeeps
   DEF AbsentRows, QueuedHaveAttempts, AbsentJob
-----------------------------------------------------------------------------
(***************************************************************************)
(* What a step does to the pipeline of a task                              *)
(***************************************************************************)

\* Nothing changes but the task, one of its attempts and that one's jobs.
Elsewhere(t, n) ==
    /\ \A u \in Task \ {t} : task'[u] = task[u]
    /\ \A a \in AttemptId \ {<<t, n>>} : attempt'[a] = attempt[a]
    /\ \A j \in Job : j.kind \in ScanKind /\ AttemptOf(j) # <<t, n>> =>
           job'[j].status = job[j].status /\ job'[j].token = job[j].token

\* The jobs of the attempt stay behind its fence.
JobsBehind(t, n) ==
    \A j \in Job : j.kind \in ScanKind /\ AttemptOf(j) = <<t, n>> =>
        /\ job'[j].token <= attempt'[<<t, n>>].token
        /\ j.kind = "trivy" /\ job'[j].status # "absent" => j.task \in ImageTask

\* A step that moves the last attempt of a task to a stage, or inserts one,
\* keeps the pipeline: all other attempts of the task are over.
LEMMA MovesLast ==
    ASSUME TypeOK, Pipeline, NEW t \in Task, NEW n \in 1 .. MaxNumber,
           Elsewhere(t, n), JobsBehind(t, n),
           \A m \in (1 .. MaxNumber) \ {n} : ~Active(<<t, m>>),
           \A m \in 1 .. MaxNumber : n < m => attempt[<<t, m>>].status = "absent",
           \A m \in 1 .. MaxNumber : m < n =>
               attempt[<<t, m>>].token < attempt'[<<t, n>>].token,
           Staged(t, n)',
           task'[t] \in ExecutingTask => Active(<<t, n>>)'
    PROVE  Pipeline'
<1>0. ASSUME NEW u \in Task, NEW m \in 1 .. MaxNumber, <<u, m>> # <<t, n>>
      PROVE  attempt'[<<u, m>>] = attempt[<<u, m>>]
  BY <1>0 DEF Elsewhere, AttemptId
<1>1. AttemptsInOrder'
  <2> SUFFICES ASSUME NEW u \in Task, NEW m \in 1 .. MaxNumber,
                      NEW o \in 1 .. MaxNumber,
                      m < o, attempt'[<<u, o>>].status # "absent"
               PROVE  /\ ~Active(<<u, m>>)'
                      /\ attempt'[<<u, m>>].token < attempt'[<<u, o>>].token
    BY DEF AttemptsInOrder
  <2>1. CASE <<u, m>> # <<t, n>> /\ <<u, o>> # <<t, n>>
    BY <1>0, <2>1 DEF Pipeline, AttemptsInOrder, Active
  <2>2. CASE <<u, o>> = <<t, n>>
    BY <1>0, <2>2 DEF Active
  <2>3. CASE <<u, m>> = <<t, n>> /\ <<u, o>> # <<t, n>>
    BY <1>0, <2>3
  <2> QED
    BY <2>1, <2>2, <2>3
<1>2. JobsFollowAttempts'
  <2> SUFFICES ASSUME NEW j \in Job, j.kind \in ScanKind
               PROVE  /\ job'[j].token <= attempt'[AttemptOf(j)].token
                      /\ j.kind = "trivy" /\ job'[j].status # "absent" =>
                             j.task \in ImageTask
    BY DEF JobsFollowAttempts
  <2>1. CASE AttemptOf(j) = <<t, n>>
    BY <2>1 DEF JobsBehind
  <2>2. CASE AttemptOf(j) # <<t, n>>
    BY <2>2, JobsTyped DEF Elsewhere, Pipeline, JobsFollowAttempts
  <2> QED
    BY <2>1, <2>2
<1>3. ASSUME NEW u \in Task, NEW m \in 1 .. MaxNumber
      PROVE  Staged(u, m)'
  <2>1. CASE <<u, m>> = <<t, n>>
    BY <2>1
  <2>2. CASE <<u, m>> # <<t, n>>
    <3>1. attempt'[<<u, m>>] = attempt[<<u, m>>]
      BY <1>0, <2>2
    <3>2. ASSUME NEW j \in {ScanJob(u, m), TrivyJob(u, m)}, j \in Job
          PROVE  job'[j].status = job[j].status /\ job'[j].token = job[j].token
      BY <2>2, <3>2, Names DEF Elsewhere, ScanKind
    <3>3. Staged(u, m)
      BY DEF Pipeline
    <3>4. CASE u = t
      BY <2>2, <3>1, <3>2, <3>3, <3>4
         DEF Staged, Inactive, Scanning, HandedOver, Active, Is
    <3>5. CASE u # t
      <4>1. task'[u] = task[u]
        BY <3>5 DEF Elsewhere
      <4> QED
        BY <3>1, <3>2, <3>3, <4>1
           DEF Staged, Inactive, Scanning, HandedOver, Active, Is
    <3> QED
      BY <3>4, <3>5
  <2> QED
    BY <2>1, <2>2
<1>4. ASSUME NEW u \in Task
      PROVE  TaskDriven(u)'
  BY <1>0 DEF TaskDriven, Elsewhere, Pipeline, Active
<1> QED
  BY <1>1, <1>2, <1>3, <1>4 DEF Pipeline

\* An active attempt is the last of its task and the only active one.
LEMMA ActiveIsLast ==
    ASSUME TypeOK, Pipeline, NEW t \in Task, NEW n \in 1 .. MaxNumber,
           Active(<<t, n>>)
    PROVE  /\ \A m \in (1 .. MaxNumber) \ {n} : ~Active(<<t, m>>)
           /\ \A m \in 1 .. MaxNumber : n < m => attempt[<<t, m>>].status = "absent"
           /\ \A m \in 1 .. MaxNumber : m < n =>
                  attempt[<<t, m>>].token < attempt[<<t, n>>].token
<1>1. ASSUME NEW m \in 1 .. MaxNumber, n < m
      PROVE  attempt[<<t, m>>].status = "absent"
  BY <1>1 DEF Pipeline, AttemptsInOrder
<1>2. ASSUME NEW m \in 1 .. MaxNumber, m < n
      PROVE  ~Active(<<t, m>>) /\ attempt[<<t, m>>].token < attempt[<<t, n>>].token
  BY <1>2 DEF Pipeline, AttemptsInOrder, Active
<1> QED
  BY <1>1, <1>2 DEF Active

\* A step of the job that drives an attempt keeps the pipeline.
LEMMA MovesDriver ==
    ASSUME TypeOK, TypeOK', Pipeline, NEW t \in Task, NEW n \in 1 .. MaxNumber,
           Active(<<t, n>>), Elsewhere(t, n), JobsBehind(t, n),
           attempt[<<t, n>>].token <= attempt'[<<t, n>>].token,
           Staged(t, n)',
           task'[t] \in ExecutingTask => Active(<<t, n>>)'
    PROVE  Pipeline'
<1>1. \A m \in 1 .. MaxNumber : m < n =>
          attempt[<<t, m>>].token < attempt'[<<t, n>>].token
  <2> TAKE m \in 1 .. MaxNumber
  <2>1. /\ attempt[<<t, m>>].token \in Nat /\ attempt[<<t, n>>].token \in Nat
        /\ attempt'[<<t, n>>].token \in Nat
    BY DEF TypeOK, AttemptId, AttemptRow
  <2> QED
    BY <2>1, ActiveIsLast
<1> QED
  BY <1>1, ActiveIsLast, MovesLast

\* A step that leaves tasks, attempts and their jobs alone keeps the pipeline.
Still ==
    /\ UNCHANGED <<task, attempt>>
    /\ \A j \in Job : j.kind \in ScanKind =>
           job'[j].status = job[j].status /\ job'[j].token = job[j].token

LEMMA StillKeeps ==
    ASSUME Pipeline, Still
    PROVE  Pipeline'
<1>1. AttemptsInOrder' /\ \A t \in Task : TaskDriven(t)'
  BY DEF Pipeline, Still, AttemptsInOrder, TaskDriven, Active
<1>2. JobsFollowAttempts'
  BY DEF Pipeline, Still, JobsFollowAttempts, AttemptOf
<1>3. ASSUME NEW t \in Task, NEW n \in 1 .. MaxNumber
      PROVE  Staged(t, n)'
  <2>1. ASSUME NEW j \in {ScanJob(t, n), TrivyJob(t, n)}, j \in Job
        PROVE  job'[j].status = job[j].status /\ job'[j].token = job[j].token
    BY <2>1, Names DEF Still, ScanKind
  <2> QED
    BY <2>1 DEF Pipeline, Still, Staged, Inactive, Scanning, HandedOver, Active, Is
<1> QED
  BY <1>1, <1>2, <1>3 DEF Pipeline

\* An unfinished scan job drives its attempt.
LEMMA ScanIsDriver ==
    ASSUME TypeOK, Pipeline, NEW j \in Job, j.kind = "scan",
           job[j].status \in ActiveJob
    PROVE  /\ j.task \in Task /\ j.n \in 1 .. MaxNumber
           /\ AttemptOf(j) = <<j.task, j.n>> /\ AttemptOf(j) \in AttemptId
           /\ j = ScanJob(j.task, j.n)
           /\ Scanning(j.task, j.n) /\ Active(AttemptOf(j))
<1>1. /\ j.task \in Task /\ j.n \in 1 .. MaxNumber /\ j = ScanJob(j.task, j.n)
      /\ AttemptOf(j) = <<j.task, j.n>>
  BY JobsTyped, Named DEF ScanKind, AttemptOf
<1>2. Staged(j.task, j.n)
  BY <1>1 DEF Pipeline
<1>3. Scanning(j.task, j.n)
  BY <1>1, <1>2 DEF Staged, Inactive, HandedOver, Is, ActiveJob, HeldJob
<1> QED
  BY <1>1, <1>3 DEF Scanning, Active, AttemptId

\* A leased Trivy job drives its attempt, and so does one that waits for its
\* task.
LEMMA TrivyIsDriver ==
    ASSUME TypeOK, Pipeline, NEW j \in Job, j.kind = "trivy",
           \/ job[j].status \in HeldJob
           \/ task[j.task] = "SCANNING" /\ Active(AttemptOf(j))
    PROVE  /\ j.task \in Task /\ j.n \in 1 .. MaxNumber
           /\ AttemptOf(j) = <<j.task, j.n>> /\ AttemptOf(j) \in AttemptId
           /\ j = TrivyJob(j.task, j.n)
           /\ HandedOver(j.task, j.n) /\ Active(AttemptOf(j))
<1>1. /\ j.task \in Task /\ j.n \in 1 .. MaxNumber /\ j = TrivyJob(j.task, j.n)
      /\ AttemptOf(j) = <<j.task, j.n>>
  BY JobsTyped, Named DEF ScanKind, AttemptOf
<1>2. Staged(j.task, j.n)
  BY <1>1 DEF Pipeline
<1>3. HandedOver(j.task, j.n)
  BY <1>1, <1>2 DEF Staged, Inactive, Scanning, Is
<1> QED
  BY <1>1, <1>3 DEF HandedOver, Active, AttemptId

\* Nothing changes but the rows of this lease.
OnlyLease(j) ==
    /\ \A u \in Task \ {j.task} : task'[u] = task[u]
    /\ \A a \in AttemptId \ {AttemptOf(j)} : attempt'[a] = attempt[a]
    /\ \A k \in Job \ {j} : job'[k] = job[k]

\* The moves of a scan: back to the queue, running, handed over or ended.
LEMMA ScanMoves ==
    ASSUME TypeOK, TypeOK', Pipeline, NEW j \in Job, j.kind = "scan",
           job[j].status \in ActiveJob, OnlyLease(j),
           job[j].token <= job'[j].token,
           job'[j].token = attempt'[AttemptOf(j)].token,
           \/ /\ job'[j].status \in WaitingJob
              /\ attempt'[AttemptOf(j)].status = "queued"
              /\ task'[j.task] = "QUEUED"
           \/ /\ job'[j].status = "running"
              /\ attempt'[AttemptOf(j)].status = "running"
              /\ task'[j.task] \in {"VALIDATING", "REPORTING"}
           \/ /\ job'[j].status = "succeeded"
              /\ attempt'[AttemptOf(j)].status = "running"
              /\ task'[j.task] = "SCANNING"
              /\ Is(TrivyJob(j.task, j.n), {"queued"})
              /\ job[TrivyJob(j.task, j.n)].token = job'[j].token
           \/ /\ job'[j].status \in TerminalJob
              /\ attempt'[AttemptOf(j)].status \in {"succeeded", "failed", "cancelled"}
              /\ task'[j.task] \notin ExecutingTask
    PROVE  Pipeline'
<1> DEFINE t == j.task
           n == j.n
           v == TrivyJob(t, n)
<1>1. /\ t \in Task /\ n \in 1 .. MaxNumber /\ AttemptOf(j) = <<t, n>>
      /\ AttemptOf(j) \in AttemptId /\ j = ScanJob(t, n)
      /\ Scanning(t, n) /\ Active(<<t, n>>)
  BY ScanIsDriver
<1>2. v # j /\ (v \in Job => job'[v] = job[v])
  BY <1>1, Names DEF OnlyLease
<1>3. Elsewhere(t, n)
  BY <1>1 DEF OnlyLease, Elsewhere
<1>4. attempt[<<t, n>>].token = job[j].token
  BY <1>1 DEF Scanning
<1>5. ASSUME NEW k \in Job, k.kind \in ScanKind, AttemptOf(k) = <<t, n>>
      PROVE  k = j \/ k = v
  BY <1>1, <1>5, Named DEF AttemptOf, ScanKind
<1>6. JobsBehind(t, n)
  <2> SUFFICES ASSUME NEW k \in Job, k.kind \in ScanKind, AttemptOf(k) = <<t, n>>
               PROVE  /\ job'[k].token <= attempt'[<<t, n>>].token
                      /\ k.kind = "trivy" /\ job'[k].status # "absent" =>
                             k.task \in ImageTask
    BY DEF JobsBehind
  <2>1. /\ job'[k].token \in Nat /\ attempt'[<<t, n>>].token \in Nat
        /\ attempt[<<t, n>>].token \in Nat /\ job[k].token \in Nat
    BY <1>1 DEF TypeOK, JobRow, AttemptRow
  <2>2. CASE k = j
    BY <1>1, <2>1, <2>2
  <2>3. CASE k = v
    <3>1. job[k].token <= attempt[<<t, n>>].token
      BY DEF Pipeline, JobsFollowAttempts
    <3>2. k.kind = "trivy" /\ job[k].status # "absent" => k.task \in ImageTask
      BY DEF Pipeline, JobsFollowAttempts
    <3> QED
      BY <1>1, <1>2, <1>4, <2>1, <2>3, <3>1, <3>2
  <2> QED
    BY <1>5, <2>2, <2>3
<1>7. Staged(t, n)' /\ (task'[t] \in ExecutingTask => Active(<<t, n>>)')
  <2>1. ~Is(v, HeldJob)'
    BY <1>1, <1>2 DEF Scanning, Is
  <2> QED
    BY <1>1, <1>2, <2>1
       DEF Staged, Inactive, Scanning, HandedOver, Active, Is,
           ExecutingTask, TerminalJob, ActiveJob, HeldJob, WaitingJob
<1> QED
  BY <1>1, <1>3, <1>4, <1>6, <1>7, MovesDriver

\* The moves of a Trivy scan: back to the queue, leased, running or ended.
LEMMA TrivyMoves ==
    ASSUME TypeOK, TypeOK', Pipeline, NEW j \in Job, j.kind = "trivy",
           HandedOver(j.task, j.n), OnlyLease(j),
           job[j].token <= job'[j].token,
           job'[j].token = attempt'[AttemptOf(j)].token,
           \/ /\ job'[j].status \in WaitingJob
              /\ attempt'[AttemptOf(j)].status = "running"
              /\ task'[j.task] = "SCANNING"
           \/ /\ job'[j].status = "running"
              /\ attempt'[AttemptOf(j)].status = "running"
              /\ task'[j.task] \in {"SCANNING", "REPORTING"}
           \/ /\ job'[j].status \in TerminalJob
              /\ attempt'[AttemptOf(j)].status \in {"succeeded", "failed", "cancelled"}
              /\ task'[j.task] \notin ExecutingTask
    PROVE  Pipeline'
<1> DEFINE t == j.task
           n == j.n
           s == ScanJob(t, n)
<1>1. /\ t \in Task /\ n \in 1 .. MaxNumber /\ AttemptOf(j) = <<t, n>>
      /\ AttemptOf(j) \in AttemptId /\ j = TrivyJob(t, n)
      /\ Active(<<t, n>>)
  BY JobsTyped, Named DEF ScanKind, AttemptOf, AttemptId, HandedOver, Active
<1>2. /\ s # j /\ s \in Job /\ job'[s] = job[s] /\ job[s].status = "succeeded"
  BY <1>1, Names DEF OnlyLease, HandedOver, Is
<1>3. Elsewhere(t, n)
  BY <1>1 DEF OnlyLease, Elsewhere
<1>4. attempt[<<t, n>>].token = job[j].token
  BY <1>1 DEF HandedOver
<1>5. ASSUME NEW k \in Job, k.kind \in ScanKind, AttemptOf(k) = <<t, n>>
      PROVE  k = j \/ k = s
  BY <1>1, <1>5, Named DEF AttemptOf, ScanKind
<1>6. JobsBehind(t, n)
  <2> SUFFICES ASSUME NEW k \in Job, k.kind \in ScanKind, AttemptOf(k) = <<t, n>>
               PROVE  /\ job'[k].token <= attempt'[<<t, n>>].token
                      /\ k.kind = "trivy" /\ job'[k].status # "absent" =>
                             k.task \in ImageTask
    BY DEF JobsBehind
  <2>1. /\ job'[k].token \in Nat /\ attempt'[<<t, n>>].token \in Nat
        /\ attempt[<<t, n>>].token \in Nat /\ job[k].token \in Nat
    BY <1>1 DEF TypeOK, JobRow, AttemptRow
  <2>2. CASE k = j
    <3>1. job[j].status # "absent"
      BY <1>1 DEF HandedOver, WaitingJob
    <3> QED
      BY <1>1, <2>1, <2>2, <3>1 DEF Pipeline, JobsFollowAttempts
  <2>3. CASE k = s
    <3>1. job[k].token <= attempt[<<t, n>>].token
      BY DEF Pipeline, JobsFollowAttempts
    <3> QED
      BY <1>1, <1>2, <1>4, <2>1, <2>3, <3>1, Names
  <2> QED
    BY <1>5, <2>2, <2>3
<1>7. Staged(t, n)' /\ (task'[t] \in ExecutingTask => Active(<<t, n>>)')
  BY <1>1, <1>2
     DEF Staged, Inactive, HandedOver, Active, Is,
         ExecutingTask, TerminalJob, ActiveJob, HeldJob, WaitingJob
<1> QED
  BY <1>1, <1>3, <1>4, <1>6, <1>7, MovesDriver

\* A claimed job drives its attempt under the new fence.
LEMMA ClaimMoves ==
    ASSUME TypeOK, TypeOK', Pipeline, NEW w \in Worker, NEW j \in Job, Claim(w, j)
    PROVE  Pipeline'
<1>1. /\ job[j].status = "queued" /\ job'[j].status = "leased"
      /\ job'[j].token = job[j].token + 1 /\ job[j].token \in Nat
      /\ \A k \in Job \ {j} : job'[k] = job[k]
      /\ UNCHANGED task
  <2>1. job[j].token \in Nat
    BY DEF TypeOK, JobRow
  <2>2. UNCHANGED task
    BY DEF Claim
  <2> QED
    BY <2>1, <2>2, ClaimJobs
<1>2. CASE j.kind \in ScanKind
  <2>1. /\ AttemptOf(j) \in AttemptId
        /\ attempt' = [attempt EXCEPT ![AttemptOf(j)].token = job[j].token + 1]
    BY <1>2, JobsTyped DEF Claim
  <2>2. /\ attempt'[AttemptOf(j)].token = job[j].token + 1
        /\ attempt'[AttemptOf(j)].status = attempt[AttemptOf(j)].status
        /\ OnlyLease(j)
    BY <1>1, <2>1 DEF TypeOK, AttemptRow, OnlyLease
  <2>3. CASE j.kind = "scan"
    <3>1. attempt[AttemptOf(j)].status = "queued" /\ task[j.task] = "QUEUED"
      BY <2>3, Kinds DEF Claim, Claimable, ClaimConsistent
    <3> QED
      BY <1>1, <2>2, <2>3, <3>1, ScanMoves DEF ActiveJob, WaitingJob
  <2>4. CASE j.kind = "trivy"
    <3>1. attempt[AttemptOf(j)].status = "running" /\ task[j.task] = "SCANNING"
      BY <2>4, Kinds DEF Claim, Claimable
    <3>2. HandedOver(j.task, j.n)
      BY <2>4, <3>1, TrivyIsDriver DEF Active
    <3> QED
      BY <1>1, <2>2, <2>4, <3>1, <3>2, TrivyMoves DEF WaitingJob
  <2> QED
    BY <1>2, <2>3, <2>4 DEF ScanKind
<1>3. CASE j.kind \notin ScanKind
  BY <1>1, <1>3, StillKeeps DEF Still, Claim
<1> QED
  BY <1>2, <1>3

\* A started scan begins, a started Trivy scan goes on with its task.
LEMMA StartMoves ==
    ASSUME TypeOK, TypeOK', Pipeline, NEW w \in Worker, Start(w)
    PROVE  Pipeline'
<1> DEFINE j == worker[w].job
<1>1. /\ j \in Job /\ job[j].status = "leased"
      /\ job'[j].status = "running" /\ job'[j].token = job[j].token
      /\ \A k \in Job \ {j} : job'[k] = job[k]
  BY DEF Start, StartAllowed, Leases, TypeOK, JobRow
<1>2. CASE j.kind = "scan"
  <2>1. Scanning(j.task, j.n) /\ AttemptOf(j) \in AttemptId /\ j.task \in Task
        /\ j = ScanJob(j.task, j.n) /\ AttemptOf(j) = <<j.task, j.n>>
    BY <1>1, <1>2, ScanIsDriver DEF ActiveJob, HeldJob
  <2>2. /\ attempt' = [attempt EXCEPT ![AttemptOf(j)].status = "running"]
        /\ task' = [task EXCEPT ![j.task] = "VALIDATING"]
    BY <1>2 DEF Start
  <2>3. /\ OnlyLease(j)
        /\ attempt'[AttemptOf(j)].status = "running"
        /\ attempt'[AttemptOf(j)].token = attempt[AttemptOf(j)].token
        /\ task'[j.task] = "VALIDATING"
    BY <1>1, <2>1, <2>2 DEF OnlyLease, TypeOK, AttemptRow
  <2>4. attempt[AttemptOf(j)].token = job[j].token /\ job[j].token \in Nat
    BY <1>1, <2>1 DEF Scanning, TypeOK, JobRow
  <2> QED
    BY <1>1, <1>2, <2>3, <2>4, ScanMoves DEF ActiveJob, HeldJob
<1>3. CASE j.kind = "trivy"
  <2>1. /\ HandedOver(j.task, j.n) /\ AttemptOf(j) = <<j.task, j.n>>
        /\ j = TrivyJob(j.task, j.n)
    BY <1>1, <1>3, TrivyIsDriver DEF HeldJob
  <2>2. UNCHANGED <<task, attempt>>
    BY <1>3 DEF Start
  <2>3. /\ attempt[AttemptOf(j)].token = job[j].token /\ job[j].token \in Nat
        /\ attempt[AttemptOf(j)].status = "running" /\ task[j.task] = "SCANNING"
    BY <1>1, <2>1 DEF HandedOver, TypeOK, JobRow
  <2> QED
    BY <1>1, <1>3, <2>1, <2>2, <2>3, TrivyMoves DEF OnlyLease
<1>4. CASE j.kind \notin ScanKind
  <2>1. UNCHANGED <<task, attempt>>
    BY <1>4 DEF Start, ScanKind
  <2> QED
    BY <1>1, <1>4, <2>1, StillKeeps DEF Still
<1> QED
  BY <1>2, <1>3, <1>4 DEF ScanKind

\* Enqueueing the Trivy job of a running scan leaves the scan the driver.
LEMMA EnqueueMoves ==
    ASSUME TypeOK, TypeOK', Pipeline, NEW w \in Worker, EnqueueTrivy(w)
    PROVE  Pipeline'
<1> PICK j \in Job : j = worker[w].job
  BY DEF EnqueueTrivy, Works, TypeOK
<1> DEFINE t == j.task
           n == j.n
           v == TrivyJob(t, n)
<1>1. /\ j.kind = "scan" /\ t \in ImageTask /\ UNCHANGED <<task, attempt>>
      /\ job[j].status = "running" /\ job[j].token = worker[w].token
      /\ job' = [job EXCEPT ![v] = QueuedJob(worker[w].token)]
  BY DEF EnqueueTrivy, Works, PublishingLease, Leases, TypeOK
<1>2. /\ t \in Task /\ n \in 1 .. MaxNumber /\ AttemptOf(j) = <<t, n>>
      /\ j = ScanJob(t, n) /\ Scanning(t, n) /\ Active(<<t, n>>)
  BY <1>1, ScanIsDriver DEF ActiveJob, HeldJob
<1>3. v \in Job /\ v # j
  BY <1>1, <1>2, JobsAreRecords, Names DEF TrivyJob
<1>4. /\ job'[v].status = "queued" /\ job'[v].token = attempt[<<t, n>>].token
      /\ \A k \in Job \ {v} : job'[k] = job[k]
  BY <1>1, <1>2, <1>3 DEF QueuedJob, AbsentJob, TypeOK, Scanning
<1>5. Elsewhere(t, n)
  BY <1>1, <1>4, Names, SMTT(30) DEF Elsewhere
<1>6. /\ attempt[<<t, n>>].token \in Nat /\ attempt'[<<t, n>>] = attempt[<<t, n>>]
      /\ task'[t] = task[t]
  BY <1>1, <1>2 DEF TypeOK, AttemptId, AttemptRow
<1>7. JobsBehind(t, n)
  <2> SUFFICES ASSUME NEW k \in Job, k.kind \in ScanKind, AttemptOf(k) = <<t, n>>
               PROVE  /\ job'[k].token <= attempt'[<<t, n>>].token
                      /\ k.kind = "trivy" /\ job'[k].status # "absent" =>
                             k.task \in ImageTask
    BY DEF JobsBehind
  <2>1. CASE k = v
    BY <1>1, <1>4, <1>6, <2>1, Names, SMTT(30)
  <2>2. CASE k # v
    BY <1>4, <1>6, <2>2, SMTT(30) DEF Pipeline, JobsFollowAttempts
  <2> QED
    BY <2>1, <2>2
<1>8. Staged(t, n)' /\ Active(<<t, n>>)'
  <2>1. /\ ScanJob(t, n) \in Job /\ job'[ScanJob(t, n)] = job[ScanJob(t, n)]
        /\ job[ScanJob(t, n)].status = "running"
    BY <1>1, <1>2, <1>3, <1>4
  <2>2. ~Is(v, HeldJob)'
    BY <1>4 DEF Is, HeldJob
  <2>3. Scanning(t, n)'
    BY <1>2, <1>6, <2>1, <2>2 DEF Scanning, WaitingJob
  <2> QED
    BY <1>2, <1>6, <2>3 DEF Staged, Active
<1>9. attempt[<<t, n>>].token <= attempt'[<<t, n>>].token
  BY <1>6
<1> HIDE DEF t, n
<1> QED
  BY <1>2, <1>5, <1>7, <1>8, <1>9, MovesDriver

\* Progress moves the task of a running scan or Trivy scan to its report.
LEMMA ReportMoves ==
    ASSUME TypeOK, TypeOK', Pipeline, NEW w \in Worker, Report(w)
    PROVE  Pipeline'
<1> DEFINE j == worker[w].job
<1>1. /\ j \in Job /\ j.kind \in ScanKind /\ job[j].status = "running"
      /\ UNCHANGED <<attempt, job>> /\ task' = [task EXCEPT ![j.task] = "REPORTING"]
  BY DEF Report, Works, Leases, TypeOK, ScanKind
<1>2. /\ j.task \in Task /\ task'[j.task] = "REPORTING"
      /\ \A u \in Task \ {j.task} : task'[u] = task[u]
  BY <1>1, JobsTyped DEF TypeOK
<1>3. OnlyLease(j) /\ job[j].token \in Nat
  BY <1>1, <1>2 DEF OnlyLease, TypeOK, JobRow
<1>4. CASE j.kind = "scan"
  <2>1. Scanning(j.task, j.n) /\ j = ScanJob(j.task, j.n)
        /\ AttemptOf(j) = <<j.task, j.n>>
    BY <1>1, <1>4, ScanIsDriver DEF ActiveJob, HeldJob
  <2>2. attempt[AttemptOf(j)].token = job[j].token
        /\ attempt[AttemptOf(j)].status = "running"
    BY <1>1, <2>1 DEF Scanning, WaitingJob
  <2> QED
    BY <1>1, <1>2, <1>3, <1>4, <2>2, ScanMoves DEF ActiveJob, HeldJob
<1>5. CASE j.kind = "trivy"
  <2>1. HandedOver(j.task, j.n) /\ j = TrivyJob(j.task, j.n)
        /\ AttemptOf(j) = <<j.task, j.n>>
    BY <1>1, <1>5, TrivyIsDriver DEF HeldJob
  <2>2. attempt[AttemptOf(j)].token = job[j].token
        /\ attempt[AttemptOf(j)].status = "running"
    BY <1>1, <2>1 DEF HandedOver
  <2> QED
    BY <1>1, <1>2, <1>3, <1>5, <2>1, <2>2, TrivyMoves
<1> QED
  BY <1>1, <1>4, <1>5 DEF ScanKind

\* A finished scan is retried, handed over or ended; the handover finds the
\* Trivy job under the fence of the scan.
LEMMA FinishScanMoves ==
    ASSUME TypeOK, TypeOK', Pipeline, HandoverReady, NEW w \in Worker, FinishScan(w)
    PROVE  Pipeline'
<1> PICK j \in Job : j = worker[w].job
  BY DEF FinishScan, TypeOK
<1> DEFINE a == AttemptOf(j)
           outcome == worker[w].outcome
<1>1. /\ worker[w].pc = "done" /\ j.kind = "scan" /\ Leases(w, {"running"})
      /\ job[j].status = "running" /\ job[j].token = worker[w].token
      /\ job[j].token \in Nat
  BY DEF FinishScan, FinishAllowed, Leases, TypeOK, JobRow
<1>2. /\ j.task \in Task /\ a \in AttemptId /\ a = <<j.task, j.n>>
      /\ j = ScanJob(j.task, j.n) /\ Scanning(j.task, j.n)
  BY <1>1, ScanIsDriver DEF ActiveJob, HeldJob
<1>3. attempt[a].status = "running" /\ attempt[a].token = job[j].token
  BY <1>1, <1>2 DEF Scanning, WaitingJob
<1>4. ASSUME NEW status \in {"queued"} \cup TerminalJob, FinishLease(w, status)
      PROVE  /\ job'[j].status = status /\ job'[j].token = job[j].token
             /\ \A k \in Job \ {j} : job'[k] = job[k]
  BY <1>4 DEF FinishLease, Settled, TypeOK, JobRow
<1>5. CASE /\ FinishLease(w, "queued")
           /\ attempt' = [attempt EXCEPT ![a].status = "queued"]
           /\ task' = [task EXCEPT ![j.task] = "QUEUED"]
  <2>1. /\ attempt'[a].status = "queued" /\ attempt'[a].token = attempt[a].token
        /\ task'[j.task] = "QUEUED" /\ OnlyLease(j) /\ job'[j].status = "queued"
        /\ job'[j].token = job[j].token
    BY <1>2, <1>4, <1>5, SMTT(30) DEF OnlyLease, TypeOK, AttemptRow
  <2> QED
    BY <1>1, <1>3, <2>1, ScanMoves, SMTT(30) DEF ActiveJob, HeldJob, WaitingJob
<1>6. CASE /\ HandsOff(j, outcome)
           /\ FinishLease(w, "succeeded")
           /\ task' = [task EXCEPT ![j.task] = "SCANNING"]
           /\ UNCHANGED attempt
  <2>1. /\ attempt'[a].status = "running" /\ attempt'[a].token = attempt[a].token
        /\ task'[j.task] = "SCANNING" /\ OnlyLease(j) /\ job'[j].status = "succeeded"
        /\ job'[j].token = job[j].token
    BY <1>2, <1>3, <1>4, <1>6 DEF OnlyLease, TypeOK, TerminalJob
  <2>2. /\ TrivyJob(j.task, j.n) \in Job
        /\ job[TrivyJob(j.task, j.n)].status = "queued" /\ outcome \in Success
    BY <1>6 DEF HandsOff
  <2>3. j.task \in ImageTask
    BY <2>2, Names DEF Pipeline, JobsFollowAttempts, ScanKind
  <2>4. job[TrivyJob(j.task, j.n)].token = job[j].token
    BY <1>1, <2>2, <2>3 DEF HandoverReady
  <2> QED
    BY <1>1, <1>3, <2>1, <2>2, <2>4, ScanMoves, SMTT(30) DEF ActiveJob, HeldJob, Is
<1>7. CASE /\ FinishLease(w, FinishedJob(outcome))
           /\ attempt' = [attempt EXCEPT ![a].status = FinishedJob(outcome)]
           /\ task' = [task EXCEPT ![j.task] = FinishedTask(outcome)]
  <2>1. /\ FinishedJob(outcome) \in {"succeeded", "failed"}
        /\ FinishedTask(outcome) \notin ExecutingTask
    BY DEF FinishedJob, FinishedTask, ExecutingTask
  <2>2. /\ attempt'[a].status = FinishedJob(outcome)
        /\ attempt'[a].token = attempt[a].token
        /\ task'[j.task] = FinishedTask(outcome) /\ OnlyLease(j)
        /\ job'[j].status = FinishedJob(outcome) /\ job'[j].token = job[j].token
    BY <1>2, <1>4, <1>7, <2>1, SMTT(60) DEF OnlyLease, TypeOK, AttemptRow, TerminalJob
  <2> QED
    BY <1>1, <1>3, <2>1, <2>2, ScanMoves, SMTT(60) DEF ActiveJob, HeldJob, TerminalJob
<1> QED
  BY <1>5, <1>6, <1>7 DEF FinishScan

\* A finished Trivy scan is retried or ends its task.
LEMMA FinishTrivyMoves ==
    ASSUME TypeOK, TypeOK', Pipeline, NEW w \in Worker, FinishTrivy(w)
    PROVE  Pipeline'
<1> PICK j \in Job : j = worker[w].job
  BY DEF FinishTrivy, TypeOK
<1> DEFINE a == AttemptOf(j)
           outcome == worker[w].outcome
<1>1. /\ j.kind = "trivy" /\ job[j].status = "running" /\ job[j].token \in Nat
  BY DEF FinishTrivy, FinishAllowed, Leases, TypeOK, JobRow
<1>2. /\ j.task \in Task /\ a \in AttemptId /\ a = <<j.task, j.n>>
      /\ j = TrivyJob(j.task, j.n) /\ HandedOver(j.task, j.n)
  BY <1>1, TrivyIsDriver DEF HeldJob
<1>3. attempt[a].status = "running" /\ attempt[a].token = job[j].token
  BY <1>1, <1>2 DEF HandedOver
<1>4. ASSUME NEW status \in {"queued"} \cup TerminalJob, FinishLease(w, status)
      PROVE  /\ job'[j].status = status /\ job'[j].token = job[j].token
             /\ \A k \in Job \ {j} : job'[k] = job[k]
  BY <1>4 DEF FinishLease, Settled, TypeOK, JobRow
<1>5. CASE /\ FinishLease(w, "queued")
           /\ task' = [task EXCEPT ![j.task] = "SCANNING"]
           /\ UNCHANGED attempt
  <2>1. /\ task'[j.task] = "SCANNING" /\ OnlyLease(j) /\ job'[j].status = "queued"
        /\ job'[j].token = job[j].token /\ attempt' = attempt
    BY <1>2, <1>4, <1>5 DEF OnlyLease, TypeOK
  <2> QED
    BY <1>1, <1>2, <1>3, <2>1, TrivyMoves DEF WaitingJob
<1>6. CASE /\ FinishLease(w, FinishedJob(outcome))
           /\ attempt' = [attempt EXCEPT ![a].status = FinishedJob(outcome)]
           /\ task' = [task EXCEPT ![j.task] = FinishedTask(outcome)]
  <2>1. /\ FinishedJob(outcome) \in {"succeeded", "failed"}
        /\ FinishedTask(outcome) \notin ExecutingTask
    BY DEF FinishedJob, FinishedTask, ExecutingTask
  <2>2. /\ attempt'[a].status = FinishedJob(outcome)
        /\ attempt'[a].token = attempt[a].token
        /\ task'[j.task] = FinishedTask(outcome) /\ OnlyLease(j)
        /\ job'[j].status = FinishedJob(outcome) /\ job'[j].token = job[j].token
    BY <1>2, <1>4, <1>6, <2>1, SMTT(60) DEF OnlyLease, TypeOK, AttemptRow, TerminalJob
  <2> QED
    BY <1>1, <1>2, <1>3, <2>1, <2>2, TrivyMoves, SMTT(60) DEF TerminalJob
<1> QED
  BY <1>5, <1>6 DEF FinishTrivy
-----------------------------------------------------------------------------
(***************************************************************************)
(* Recovery                                                                *)
(***************************************************************************)

\* Whatever recovery finds, it finds the rows it expects: nothing that the
\* platform does leads to a quarantine, but the cancellation of a Python
\* analysis.
LEMMA RecoveryFindsRows ==
    ASSUME SlotInv, Pipeline, CancellingHoldsTask, RunRows,
           NEW j \in Job, Recoverable(j),
           j.kind = "python_analysis" => job[j].status # "cancel_requested"
    PROVE  RecoveryConsistent(j)
<1>1. TypeOK /\ SlotsRecoverable(j) /\ job[j].status \in HeldJob /\ j.kind \in Kind
  BY SlotsAreRecoverable, JobsTyped DEF SlotInv, Recoverable
<1>2. ASSUME j.kind = "scan"
      PROVE  /\ AttemptIsActive(j)
             /\ job[j].status # "cancel_requested" => task[j.task] \notin TerminalTask
  <2>1. Scanning(j.task, j.n) /\ AttemptOf(j) = <<j.task, j.n>>
        /\ j = ScanJob(j.task, j.n)
    BY <1>1, <1>2, ScanIsDriver DEF ActiveJob
  <2> QED
    BY <1>1, <2>1 DEF Scanning, AttemptIsActive, TerminalTask, WaitingJob
<1>3. ASSUME j.kind = "trivy"
      PROVE  /\ AttemptIsActive(j) /\ AttemptRuns(j)
             /\ job[j].status # "cancel_requested" =>
                    task[j.task] \in {"SCANNING", "REPORTING"}
  <2>1. HandedOver(j.task, j.n) /\ AttemptOf(j) = <<j.task, j.n>>
        /\ j = TrivyJob(j.task, j.n) /\ AttemptOf(j) \in AttemptId
    BY <1>1, <1>3, TrivyIsDriver
  <2>2. attempt[AttemptOf(j)] \in AttemptRow
    BY <1>1, <2>1 DEF TypeOK
  <2> QED
    BY <1>1, <2>1, <2>2 DEF HandedOver, AttemptIsActive, AttemptRuns, AttemptRow
<1>4. CASE job[j].status = "cancel_requested"
  <2>1. j.kind \notin FencedAnalysisKind => task[j.task] \in {"DELETING", "CANCEL_REQUESTED"}
    BY <1>4 DEF CancellingHoldsTask, AnalysisKind
  <2>2. CancelRecoverable(j)
    BY <1>1, <1>2, <1>3, <2>1 DEF CancelRecoverable, ScanKind
  <2> QED
    BY <1>4, <2>2 DEF RecoveryConsistent
<1>5. CASE job[j].status # "cancel_requested"
  <2>1. j.kind = "scan" => ScanRecoverable(j)
    BY <1>1, <1>2, <1>5 DEF ScanRecoverable
  <2>2. j.kind = "trivy" => TrivyRecoverable(j)
    BY <1>1, <1>3, <1>5 DEF TrivyRecoverable
  <2>3. j.kind \in FencedAnalysisKind => AnalysisRecoverable(j)
    BY <1>1, <1>5, Kinds DEF AnalysisRecoverable, RunRows, HeldJob
  <2> QED
    BY <1>1, <1>5, <2>1, <2>2, <2>3, Kinds DEF RecoveryConsistent
<1> QED
  BY <1>4, <1>5

\* The effect of recovery on the job rows.
LEMMA RecoverLeaseEffect ==
    ASSUME TypeOK, NEW j \in Job, NEW status, RecoverLease(j, status)
    PROVE  /\ job'[j].status = status /\ job'[j].token = job[j].token
           /\ \A k \in Job \ {j} : job'[k] = job[k]
BY DEF RecoverLease, Settled, TypeOK, JobRow

\* Recovery of a scan puts it back into the queue or ends its attempt.
LEMMA RecoverScanMoves ==
    ASSUME TypeOK, TypeOK', Pipeline, NEW j \in Job, j.kind = "scan",
           RecoverScan(j) \/ RecoverCancelled(j)
    PROVE  Pipeline'
<1> DEFINE a == AttemptOf(j)
<1>1. job[j].status \in HeldJob /\ job[j].token \in Nat
  BY DEF RecoverScan, RecoverCancelled, Expired, Recoverable, TypeOK, JobRow
<1>2. /\ j.task \in Task /\ a \in AttemptId /\ a = <<j.task, j.n>>
      /\ j = ScanJob(j.task, j.n) /\ Scanning(j.task, j.n)
  BY <1>1, ScanIsDriver DEF ActiveJob
<1>3. attempt[a].token = job[j].token
  BY <1>2 DEF Scanning
<1>4. CASE RecoverScan(j)
  <2>1. PICK status \in {"queued", "failed"} :
           /\ RecoverLease(j, status)
           /\ attempt' = [attempt EXCEPT ![a].status = status]
           /\ task' = [task EXCEPT ![j.task] =
                          IF status = "queued" THEN "QUEUED" ELSE "FAILED"]
    BY <1>4 DEF RecoverScan
  <2>2. /\ attempt'[a].status = status /\ attempt'[a].token = attempt[a].token
        /\ task'[j.task] = (IF status = "queued" THEN "QUEUED" ELSE "FAILED")
        /\ OnlyLease(j) /\ job'[j].status = status
        /\ job'[j].token = job[j].token
    BY <1>2, <2>1, RecoverLeaseEffect DEF OnlyLease, TypeOK, AttemptRow
  <2> QED
    BY <1>1, <1>3, <2>2, ScanMoves
       DEF ActiveJob, HeldJob, WaitingJob, TerminalJob, ExecutingTask
<1>5. CASE RecoverCancelled(j)
  <2>1. /\ RecoverLease(j, "cancelled") /\ job[j].status = "cancel_requested"
        /\ attempt' = [attempt EXCEPT ![a].status = "cancelled"]
        /\ \/ task' = task
           \/ task' = [task EXCEPT ![j.task] = "CANCELLED"]
    BY <1>5 DEF RecoverCancelled, ScanKind
  <2>2. task[j.task] \in {"CANCEL_REQUESTED", "DELETING"}
    BY <1>2, <2>1 DEF Scanning, WaitingJob
  <2>3. /\ attempt'[a].status = "cancelled" /\ attempt'[a].token = attempt[a].token
        /\ task'[j.task] \notin ExecutingTask
        /\ OnlyLease(j) /\ job'[j].status = "cancelled"
        /\ job'[j].token = job[j].token
    BY <1>2, <2>1, <2>2, RecoverLeaseEffect
       DEF OnlyLease, TypeOK, AttemptRow, ExecutingTask
  <2> QED
    BY <1>1, <1>3, <2>3, ScanMoves DEF ActiveJob, TerminalJob
<1> QED
  BY <1>4, <1>5

\* Recovery of a Trivy scan puts it back into the queue or ends its attempt.
LEMMA RecoverTrivyMoves ==
    ASSUME TypeOK, TypeOK', Pipeline, NEW j \in Job, j.kind = "trivy",
           RecoverTrivy(j) \/ RecoverCancelled(j)
    PROVE  Pipeline'
<1> DEFINE a == AttemptOf(j)
<1>1. job[j].status \in HeldJob /\ job[j].token \in Nat
  BY DEF RecoverTrivy, RecoverCancelled, Expired, Recoverable, TypeOK, JobRow
<1>2. /\ j.task \in Task /\ a \in AttemptId /\ a = <<j.task, j.n>>
      /\ j = TrivyJob(j.task, j.n) /\ HandedOver(j.task, j.n)
  BY <1>1, TrivyIsDriver
<1>3. attempt[a].token = job[j].token /\ attempt[a].status = "running"
  BY <1>2 DEF HandedOver
<1>4. CASE RecoverTrivy(j)
  <2>1. CASE Retries(j)
    <3>1. /\ RecoverLease(j, "queued") /\ attempt' = attempt
          /\ task' = [task EXCEPT ![j.task] = "SCANNING"]
      BY <1>4, <2>1 DEF RecoverTrivy
    <3>2. /\ task'[j.task] = "SCANNING" /\ OnlyLease(j)
          /\ job'[j].status = "queued" /\ job'[j].token = job[j].token
      BY <1>2, <3>1, RecoverLeaseEffect DEF OnlyLease, TypeOK
    <3> QED
      BY <1>1, <1>2, <1>3, <3>1, <3>2, TrivyMoves DEF WaitingJob
  <2>2. CASE ~Retries(j)
    <3>1. /\ RecoverLease(j, "failed")
          /\ attempt' = [attempt EXCEPT ![a].status = "failed"]
          /\ task' = [task EXCEPT ![j.task] = "FAILED"]
      BY <1>4, <2>2 DEF RecoverTrivy
    <3>2. /\ attempt'[a].status = "failed" /\ attempt'[a].token = attempt[a].token
          /\ task'[j.task] = "FAILED" /\ OnlyLease(j)
          /\ job'[j].status = "failed" /\ job'[j].token = job[j].token
      BY <1>2, <3>1, RecoverLeaseEffect DEF OnlyLease, TypeOK, AttemptRow
    <3> QED
      BY <1>1, <1>2, <1>3, <3>2, TrivyMoves DEF TerminalJob, ExecutingTask
  <2> QED
    BY <2>1, <2>2
<1>5. CASE RecoverCancelled(j)
  <2>1. /\ RecoverLease(j, "cancelled") /\ job[j].status = "cancel_requested"
        /\ attempt' = [attempt EXCEPT ![a].status = "cancelled"]
        /\ \/ task' = task
           \/ task' = [task EXCEPT ![j.task] = "CANCELLED"]
    BY <1>5 DEF RecoverCancelled, ScanKind
  <2>2. task[j.task] \in {"CANCEL_REQUESTED", "DELETING"}
    BY <1>2, <2>1 DEF HandedOver, WaitingJob
  <2>3. /\ attempt'[a].status = "cancelled" /\ attempt'[a].token = attempt[a].token
        /\ task'[j.task] \notin ExecutingTask
        /\ OnlyLease(j) /\ job'[j].status = "cancelled"
        /\ job'[j].token = job[j].token
    BY <1>2, <2>1, <2>2, RecoverLeaseEffect
       DEF OnlyLease, TypeOK, AttemptRow, ExecutingTask
  <2> QED
    BY <1>1, <1>2, <1>3, <2>3, TrivyMoves DEF TerminalJob
<1> QED
  BY <1>4, <1>5

\* The last cancelled post-scan job ends a task that has no active attempt.
LEMMA RecoverOtherMoves ==
    ASSUME TypeOK, Pipeline, NEW j \in Job, j.kind \notin ScanKind,
           RecoverCancelled(j)
    PROVE  Pipeline'
<1> DEFINE t == j.task
<1>1. /\ UNCHANGED attempt /\ job[j].status = "cancel_requested"
      /\ \/ task' = task
         \/ /\ task' = [task EXCEPT ![t] = "CANCELLED"]
            /\ task[t] = "CANCEL_REQUESTED" /\ ~OthersCancelling(j)
      /\ \A k \in Job \ {j} : job'[k] = job[k]
  BY RecoverLeaseEffect DEF RecoverCancelled
<1>2. CASE task' = task
  BY <1>1, <1>2, StillKeeps DEF Still
<1>3. CASE /\ task' = [task EXCEPT ![t] = "CANCELLED"]
           /\ task[t] = "CANCEL_REQUESTED" /\ ~OthersCancelling(j)
  <2>1. t \in Task /\ task'[t] = "CANCELLED" /\ \A u \in Task \ {t} : task'[u] = task[u]
    BY <1>3, JobsTyped DEF TypeOK
  <2>2. ASSUME NEW k \in Job, k.kind \in ScanKind
        PROVE  job'[k] = job[k] /\ (k.task = t => job[k].status # "cancel_requested")
    BY <1>1, <1>3, <2>2 DEF OthersCancelling
  <2>3. ASSUME NEW u \in Task, NEW n \in 1 .. MaxNumber
        PROVE  Staged(u, n)'
    <3>1. ASSUME NEW k \in {ScanJob(u, n), TrivyJob(u, n)}, k \in Job
          PROVE  job'[k] = job[k] /\ (u = t => job[k].status # "cancel_requested")
      BY <2>2, <3>1, Names DEF ScanKind
    <3>2. Staged(u, n)
      BY DEF Pipeline
    <3>3. CASE u = t
      <4>1. Inactive(u, n)
        BY <1>3, <3>1, <3>2, <3>3 DEF Staged, Scanning, HandedOver
      <4> QED
        BY <1>1, <3>1, <4>1 DEF Staged, Inactive, Active, Is
    <3>4. CASE u # t
      BY <1>1, <2>1, <3>1, <3>2, <3>4
         DEF Staged, Inactive, Scanning, HandedOver, Active, Is
    <3> QED
      BY <3>3, <3>4
  <2>4. AttemptsInOrder'
    BY <1>1 DEF Pipeline, AttemptsInOrder, Active
  <2>5. JobsFollowAttempts'
    BY <1>1, <2>2 DEF Pipeline, JobsFollowAttempts, AttemptOf
  <2>6. \A u \in Task : TaskDriven(u)'
    BY <1>1, <2>1 DEF Pipeline, TaskDriven, Active, ExecutingTask
  <2> QED
    BY <2>3, <2>4, <2>5, <2>6 DEF Pipeline
<1> QED
  BY <1>1, <1>2, <1>3

\* An expired or recovered lease keeps the pipeline.
LEMMA RecoverMoves ==
    ASSUME TypeOK', SlotInv, Pipeline, CancellingHoldsTask, RunRows,
           NEW j \in Job, Maintenance(j)
    PROVE  Pipeline'
<1>0. TypeOK
  BY DEF SlotInv
<1>1. CASE ExpireLease(j)
  <2>1. UNCHANGED <<task, attempt>> /\ job' = [job EXCEPT ![j].live = FALSE]
    BY <1>1 DEF ExpireLease
  <2>2. \A k \in Job : job'[k].status = job[k].status /\ job'[k].token = job[k].token
    BY <1>0, <2>1 DEF TypeOK, JobRow
  <2> QED
    BY <2>1, <2>2, StillKeeps DEF Still
<1>2. CASE RecoverScan(j) \/ RecoverTrivy(j) \/ RecoverCancelled(j)
  BY <1>0, <1>2, RecoverScanMoves, RecoverTrivyMoves, RecoverOtherMoves
     DEF RecoverScan, RecoverTrivy, ScanKind
<1>3. CASE RecoverPlain(j) \/ RecoverTerminalAnalysis(j) \/ RecoverAnalysis(j)
  <2>1. j.kind \notin ScanKind /\ UNCHANGED <<task, attempt>>
    BY <1>3, Kinds DEF RecoverPlain, RecoverTerminalAnalysis, RecoverAnalysis, ScanKind
  <2>2. \A k \in Job \ {j} : job'[k] = job[k]
    BY <1>0, <1>3, RecoverLeaseEffect
       DEF RecoverPlain, RecoverTerminalAnalysis, RecoverAnalysis
  <2> QED
    BY <2>1, <2>2, StillKeeps DEF Still
<1>4. CASE Quarantine(j)
  <2>1. j.kind = "python_analysis"
    BY <1>4, RecoveryFindsRows DEF Quarantine
  <2>2. UNCHANGED <<task, attempt>> /\ j.kind \notin ScanKind
    BY <1>4, <2>1 DEF Quarantine, ScanKind
  <2>3. \A k \in Job \ {j} : job'[k] = job[k]
    BY <1>0, <1>4, RecoverLeaseEffect DEF Quarantine
  <2> QED
    BY <2>2, <2>3, StillKeeps DEF Still
<1> QED
  BY <1>1, <1>2, <1>3, <1>4 DEF Maintenance, Recover
-----------------------------------------------------------------------------
(***************************************************************************)
(* What users ask for                                                      *)
(***************************************************************************)

\* What cancelActiveJobs does to a job of the task and to all others.
LEMMA CancelEffect ==
    ASSUME TypeOK, NEW t \in Task, CancelActiveJobs(t), NEW k \in Job
    PROVE  /\ job'[k].token = job[k].token
           /\ k.task = t /\ job[k].status \in WaitingJob => job'[k].status = "cancelled"
           /\ k.task = t /\ job[k].status = "running" =>
                  job'[k].status = "cancel_requested"
           /\ k.task # t \/ job[k].status \notin {"queued", "leased", "running"} =>
                  job'[k] = job[k]
BY DEF CancelActiveJobs, JobsOf, Settled, WaitingJob, TypeOK, JobRow

\* Cancelling or deleting a task ends its attempt at once, or leaves it to
\* the job that is cancelling.
LEMMA CancelMoves ==
    ASSUME TypeOK, Pipeline, NEW t \in Task, Cancel(t) \/ Delete(t)
    PROVE  Pipeline'
<1>1. /\ CancelActiveJobs(t)
      /\ task'[t] \in {"CANCEL_REQUESTED", "CANCELLED", "DELETING"}
      /\ \A u \in Task \ {t} : task'[u] = task[u]
      /\ JobsOf(t, {"running"}) # {} => task'[t] \in {"CANCEL_REQUESTED", "DELETING"}
      /\ task[t] \in {"CANCEL_REQUESTED", "DELETING"} => task'[t] = "DELETING"
  BY DEF Cancel, Delete, ExecutingTask, TypeOK
<1>2. ASSUME NEW a \in AttemptId
      PROVE  /\ attempt'[a].token = attempt[a].token
             /\ attempt'[a].status = IF a \in AbandonedAttempts(t) THEN "cancelled"
                                     ELSE attempt[a].status
  BY <1>1 DEF CancelActiveJobs, TypeOK, AttemptRow
<1>3. ASSUME NEW a \in AttemptId
      PROVE  /\ Active(a)' => Active(a)
             /\ attempt'[a].status = "absent" <=> attempt[a].status = "absent"
  BY <1>2 DEF Active, AbandonedAttempts
<1>4. AttemptsInOrder'
  <2>1. \A u \in Task, n \in 1 .. MaxNumber : <<u, n>> \in AttemptId
    BY DEF AttemptId
  <2> QED
    BY <1>2, <1>3, <2>1 DEF Pipeline, AttemptsInOrder
<1>5. JobsFollowAttempts'
  <2> SUFFICES ASSUME NEW k \in Job, k.kind \in ScanKind
               PROVE  /\ job'[k].token <= attempt'[AttemptOf(k)].token
                      /\ k.kind = "trivy" /\ job'[k].status # "absent" =>
                             k.task \in ImageTask
    BY DEF JobsFollowAttempts
  <2>1. AttemptOf(k) \in AttemptId
    BY JobsTyped
  <2>2. job[k].status = "absent" => job'[k].status = "absent"
    BY <1>1, CancelEffect
  <2> QED
    BY <1>1, <1>2, <2>1, <2>2, CancelEffect DEF Pipeline, JobsFollowAttempts
<1>6. ASSUME NEW u \in Task, NEW n \in 1 .. MaxNumber
      PROVE  Staged(u, n)'
  <2> DEFINE s == ScanJob(u, n)
             v == TrivyJob(u, n)
  <2>0. /\ <<u, n>> \in AttemptId /\ Staged(u, n)
        /\ s.task = u /\ v.task = u
    BY Names DEF AttemptId, Pipeline
  <2>1. CASE u # t
    <3>1. attempt'[<<u, n>>].status = attempt[<<u, n>>].status
      <4>1. <<u, n>> \notin AbandonedAttempts(t)
        BY <2>1 DEF AbandonedAttempts, JobsOf, AttemptOf
      <4> QED
        BY <1>2, <2>0, <4>1
    <3>2. (s \in Job => job'[s] = job[s]) /\ (v \in Job => job'[v] = job[v])
      BY <1>1, <2>0, <2>1, CancelEffect
    <3> QED
      BY <1>1, <1>2, <2>0, <2>1, <3>1, <3>2
         DEF Staged, Inactive, Scanning, HandedOver, Active, Is
  <2>2. CASE u = t /\ Inactive(u, n)
    <3>1. ~Active(<<u, n>>)'
      BY <1>3, <2>0, <2>2 DEF Inactive
    <3>2. ~Is(s, ActiveJob)'
      BY <1>1, <2>2, CancelEffect
         DEF Inactive, Is, ActiveJob, HeldJob
    <3>3. ~Is(v, HeldJob)'
      BY <1>1, <2>0, <2>2, CancelEffect DEF Inactive, Is, HeldJob, WaitingJob
    <3> QED
      BY <3>1, <3>2, <3>3 DEF Staged, Inactive
  <2>3. CASE u = t /\ Scanning(u, n)
    <3>0. /\ s \in Job /\ s.kind \in ScanKind /\ AttemptOf(s) = <<u, n>>
          /\ job[s].token = attempt[<<u, n>>].token
          /\ ~Is(v, HeldJob)
      BY <2>3, Names DEF Scanning, ScanKind
    <3>1. ~Is(v, HeldJob)'
      BY <1>1, <2>0, <2>3, <3>0, CancelEffect DEF Is, HeldJob, WaitingJob
    <3>2. CASE job[s].status \in WaitingJob
      <4>1. <<u, n>> \in AbandonedAttempts(t)
        <5>1. attempt[<<u, n>>].status = "queued" /\ s \in JobsOf(t, WaitingJob)
          BY <2>0, <2>3, <3>0, <3>2 DEF Scanning, JobsOf, WaitingJob
        <5>2. ASSUME NEW k \in JobsOf(t, {"running", "cancel_requested"}),
                     k.kind \in ScanKind, AttemptOf(k) = <<u, n>>
              PROVE  FALSE
          <6>1. k \in Job /\ job[k].status \in {"running", "cancel_requested"}
            BY <5>2 DEF JobsOf
          <6>2. k = s \/ k = v
            BY <5>2, <6>1, Named DEF AttemptOf, ScanKind
          <6> QED
            BY <3>0, <3>2, <6>1, <6>2 DEF Is, HeldJob, WaitingJob
        <5> QED
          BY <2>0, <3>0, <5>1, <5>2 DEF AbandonedAttempts
      <4>2. job'[s].status = "cancelled"
        BY <1>1, <2>0, <2>3, <3>0, <3>2, CancelEffect
      <4>3. attempt'[<<u, n>>].status = "cancelled"
        BY <1>2, <2>0, <4>1
      <4> QED
        BY <3>1, <4>2, <4>3 DEF Staged, Inactive, Active, Is, ActiveJob, HeldJob
    <3>3. CASE job[s].status \in {"running", "cancel_requested"}
      <4>1. <<u, n>> \notin AbandonedAttempts(t)
        BY <2>0, <2>3, <3>0, <3>3 DEF AbandonedAttempts, JobsOf
      <4>2. /\ job'[s].status = "cancel_requested"
            /\ job'[s].token = job[s].token
        BY <1>1, <2>0, <2>3, <3>0, <3>3, CancelEffect
      <4>3. task'[t] \in {"CANCEL_REQUESTED", "DELETING"}
        <5>1. CASE job[s].status = "running"
          BY <1>1, <2>0, <2>3, <3>0, <5>1 DEF JobsOf
        <5>2. CASE job[s].status = "cancel_requested"
          BY <1>1, <2>3, <5>2 DEF Scanning, WaitingJob
        <5> QED
          BY <3>3, <5>1, <5>2
      <4>4. attempt'[<<u, n>>].status = "running"
        BY <1>2, <2>0, <2>3, <3>3, <4>1 DEF Scanning, WaitingJob
      <4> QED
        BY <1>2, <2>0, <2>3, <3>0, <3>1, <4>2, <4>3, <4>4 DEF Staged, Scanning
    <3> QED
      BY <2>3, <3>2, <3>3 DEF Scanning
  <2>4. CASE u = t /\ HandedOver(u, n)
    <3>0. /\ v \in Job /\ v.kind \in ScanKind /\ AttemptOf(v) = <<u, n>>
          /\ job[v].token = attempt[<<u, n>>].token
          /\ attempt[<<u, n>>].status = "running"
          /\ s \in Job /\ job[s].status = "succeeded"
      BY <2>4, Names DEF HandedOver, ScanKind, Is
    <3>1. job'[s].status = "succeeded"
      BY <1>1, <3>0, CancelEffect
    <3>2. CASE job[v].status \in WaitingJob
      <4>1. <<u, n>> \in AbandonedAttempts(t)
        <5>1. v \in JobsOf(t, WaitingJob)
          BY <2>0, <2>4, <3>0, <3>2 DEF JobsOf
        <5>2. ASSUME NEW k \in JobsOf(t, {"running", "cancel_requested"}),
                     k.kind \in ScanKind, AttemptOf(k) = <<u, n>>
              PROVE  FALSE
          <6>1. k \in Job /\ job[k].status \in {"running", "cancel_requested"}
            BY <5>2 DEF JobsOf
          <6>2. k = s \/ k = v
            BY <5>2, <6>1, Named DEF AttemptOf, ScanKind
          <6> QED
            BY <3>0, <3>2, <6>1, <6>2 DEF WaitingJob
        <5> QED
          BY <2>0, <3>0, <5>1, <5>2 DEF AbandonedAttempts
      <4>2. job'[v].status = "cancelled"
        BY <1>1, <2>0, <2>4, <3>0, <3>2, CancelEffect
      <4>3. attempt'[<<u, n>>].status = "cancelled"
        BY <1>2, <2>0, <4>1
      <4> QED
        BY <3>1, <4>2, <4>3 DEF Staged, Inactive, Active, Is, ActiveJob, HeldJob
    <3>3. CASE job[v].status \in {"running", "cancel_requested"}
      <4>1. <<u, n>> \notin AbandonedAttempts(t)
        BY <2>0, <2>4, <3>0, <3>3 DEF AbandonedAttempts, JobsOf
      <4>2. /\ job'[v].status = "cancel_requested"
            /\ job'[v].token = job[v].token
        BY <1>1, <2>0, <2>4, <3>0, <3>3, CancelEffect
      <4>3. task'[t] \in {"CANCEL_REQUESTED", "DELETING"}
        <5>1. CASE job[v].status = "running"
          BY <1>1, <2>0, <2>4, <3>0, <5>1 DEF JobsOf
        <5>2. CASE job[v].status = "cancel_requested"
          BY <1>1, <2>4, <5>2 DEF HandedOver, WaitingJob
        <5> QED
          BY <3>3, <5>1, <5>2
      <4> QED
        BY <1>2, <2>0, <2>4, <3>0, <3>1, <4>1, <4>2, <4>3
           DEF Staged, HandedOver, Is
    <3> QED
      BY <2>4, <3>2, <3>3 DEF HandedOver
  <2> QED
    BY <2>0, <2>1, <2>2, <2>3, <2>4 DEF Staged
<1>7. ASSUME NEW u \in Task
      PROVE  TaskDriven(u)'
  <2>1. CASE u = t
    BY <1>1, <2>1 DEF TaskDriven, ExecutingTask
  <2>2. CASE u # t
    <3>1. ASSUME NEW n \in 1 .. MaxNumber
          PROVE  Active(<<u, n>>)' <=> Active(<<u, n>>)
      BY <1>2, <2>2 DEF AttemptId, AbandonedAttempts, JobsOf, AttemptOf, Active
    <3> QED
      BY <1>1, <2>2, <3>1 DEF Pipeline, TaskDriven
  <2> QED
    BY <2>1, <2>2
<1> QED
  BY <1>4, <1>5, <1>6, <1>7 DEF Pipeline

\* A new attempt, with its scan job, is the last one and drives its task.
LEMMA InsertMoves ==
    ASSUME TypeOK, TypeOK', RowsInOrder, AbsentRows, Pipeline,
           NEW t \in Task, NEW n \in 1 .. MaxNumber, NEW token \in Nat,
           ScanJob(t, n) \in Job, task[t] \notin ExecutingTask,
           task[t] \notin {"CANCEL_REQUESTED", "DELETING"},
           \A m \in 1 .. MaxNumber : n <= m => attempt[<<t, m>>].status = "absent",
           \A m \in 1 .. MaxNumber : m < n => attempt[<<t, m>>].token < token,
           attempt' = [attempt EXCEPT ![<<t, n>>] =
                          [status |-> "queued", token |-> token]],
           job' = [job EXCEPT ![ScanJob(t, n)] = QueuedJob(token)],
           task' = [task EXCEPT ![t] = "QUEUED"]
    PROVE  Pipeline'
<1> DEFINE s == ScanJob(t, n)
           v == TrivyJob(t, n)
<1>1. /\ <<t, n>> \in AttemptId /\ attempt[<<t, n>>].status = "absent"
      /\ attempt[<<t, n>>].token = 0
      /\ attempt'[<<t, n>>] = [status |-> "queued", token |-> token]
      /\ job'[s].status = "queued" /\ job'[s].token = token
      /\ \A k \in Job \ {s} : job'[k] = job[k]
      /\ task'[t] = "QUEUED"
  BY DEF AttemptId, TypeOK, AbsentRows, QueuedJob, AbsentJob
<1>2. \A m \in (1 .. MaxNumber) \ {n} : ~Active(<<t, m>>)
  BY DEF Pipeline, Staged, Inactive, Scanning, HandedOver, ExecutingTask
<1>3. Elsewhere(t, n)
  <2>1. \A k \in Job : AttemptOf(k) # <<t, n>> => k # s
    BY Names
  <2> QED
    BY <1>1, <2>1 DEF Elsewhere, TypeOK
<1>4. JobsBehind(t, n)
  <2> SUFFICES ASSUME NEW k \in Job, k.kind \in ScanKind, AttemptOf(k) = <<t, n>>
               PROVE  /\ job'[k].token <= attempt'[<<t, n>>].token
                      /\ k.kind = "trivy" /\ job'[k].status # "absent" =>
                             k.task \in ImageTask
    BY DEF JobsBehind
  <2>1. CASE k = s
    BY <1>1, <2>1, Names
  <2>2. CASE k # s
    <3>1. /\ job'[k] = job[k] /\ job[k].token \in Nat /\ job[k].token <= 0
          /\ k.kind = "trivy" /\ job[k].status # "absent" => k.task \in ImageTask
      BY <1>1, <2>2 DEF TypeOK, JobRow, Pipeline, JobsFollowAttempts
    <3> QED
      BY <1>1, <3>1
  <2> QED
    BY <2>1, <2>2
<1>5. Staged(t, n)' /\ Active(<<t, n>>)'
  <2>1. ~Is(v, HeldJob)
    <3>1. Staged(t, n)
      BY DEF Pipeline
    <3> QED
      BY <1>1, <3>1 DEF Staged, Inactive, Scanning, HandedOver
  <2>2. ~Is(v, HeldJob)'
    BY <1>1, <2>1, Names DEF Is
  <2>3. Scanning(t, n)'
    BY <1>1, <2>2 DEF Scanning, WaitingJob
  <2> QED
    BY <1>1, <2>3 DEF Staged, Active
<1>6. \A m \in 1 .. MaxNumber : n < m => attempt[<<t, m>>].status = "absent"
  OBVIOUS
<1>7. \A m \in 1 .. MaxNumber : m < n =>
         attempt[<<t, m>>].token < attempt'[<<t, n>>].token
  BY <1>1
<1> HIDE DEF s, v
<1> QED
  BY <1>2, <1>3, <1>4, <1>5, <1>6, <1>7, MovesLast

\* The first attempt of a task.
LEMMA CreateMoves ==
    ASSUME TypeOK, TypeOK', RowsInOrder, AbsentRows, Pipeline,
           NEW t \in Task, CreateTask(t)
    PROVE  Pipeline'
<1>1. 1 \in 1 .. MaxNumber /\ ScanJob(t, 1) \in Job
  BY JobsAreRecords, LimitsAreValid DEF ScanJob
<1>2. \A m \in 1 .. MaxNumber : attempt[<<t, m>>].status = "absent"
  BY DEF CreateTask, RowsInOrder, AttemptId
<1>3. /\ task[t] = "absent"
      /\ attempt' = [attempt EXCEPT ![<<t, 1>>] = [status |-> "queued", token |-> 1]]
      /\ job' = [job EXCEPT ![ScanJob(t, 1)] = QueuedJob(1)]
      /\ task' = [task EXCEPT ![t] = "QUEUED"]
  BY DEF CreateTask
<1>4. \A m \in 1 .. MaxNumber : ~(m < 1)
  OBVIOUS
<1>5. task[t] \notin ExecutingTask /\ task[t] \notin {"CANCEL_REQUESTED", "DELETING"}
  BY <1>3 DEF ExecutingTask
<1> QED
  BY <1>1, <1>2, <1>3, <1>4, <1>5, InsertMoves

\* What retryOnce inserts comes after all attempts of the task.
LEMMA RetryFollows ==
    ASSUME TypeOK, NEW t \in Task, Retry(t)
    PROVE  \E n \in 1 .. MaxNumber, token \in Nat :
              /\ task[t] \in TerminalTask
              /\ ScanJob(t, n) \in Job
              /\ \A m \in 1 .. MaxNumber :
                     n <= m => attempt[<<t, m>>].status = "absent"
              /\ \A m \in 1 .. MaxNumber : attempt[<<t, m>>].token < token
              /\ attempt' = [attempt EXCEPT ![<<t, n>>] =
                                [status |-> "queued", token |-> token]]
              /\ job' = [job EXCEPT ![ScanJob(t, n)] = QueuedJob(token)]
              /\ task' = [task EXCEPT ![t] = "QUEUED"]
<1> PICK last \in 1 .. MaxNumber, top \in 1 .. MaxNumber :
       /\ task[t] \in {"FAILED", "CANCELLED", "PARTIAL_SUCCEEDED"}
       /\ LastNumber(t, last) /\ MaxToken(t, attempt[<<t, top>>].token)
       /\ last + 1 <= MaxNumber
       /\ ScanJob(t, last + 1) \in Job
       /\ attempt' = [attempt EXCEPT ![<<t, last + 1>>] =
                         [status |-> "queued",
                          token |-> attempt[<<t, top>>].token + 1]]
       /\ job' = [job EXCEPT ![ScanJob(t, last + 1)] =
                     QueuedJob(attempt[<<t, top>>].token + 1)]
       /\ task' = [task EXCEPT ![t] = "QUEUED"]
       /\ UNCHANGED <<slot, run, published, importer, worker>>
  BY DEF Retry
<1> DEFINE n == last + 1
           token == attempt[<<t, top>>].token + 1
<1>1. \A m \in 1 .. MaxNumber : attempt[<<t, m>>].token \in Nat
  BY DEF TypeOK, AttemptId, AttemptRow
<1>2. n \in 1 .. MaxNumber /\ token \in Nat /\ task[t] \in TerminalTask
  BY <1>1, LimitsAreValid DEF TerminalTask
<1>3. \A m \in 1 .. MaxNumber : n <= m => attempt[<<t, m>>].status = "absent"
  BY DEF LastNumber
<1>4. \A m \in 1 .. MaxNumber : attempt[<<t, m>>].token < token
  BY <1>1 DEF MaxToken
<1>5. /\ ScanJob(t, n) \in Job
      /\ attempt' = [attempt EXCEPT ![<<t, n>>] = [status |-> "queued", token |-> token]]
      /\ job' = [job EXCEPT ![ScanJob(t, n)] = QueuedJob(token)]
      /\ task' = [task EXCEPT ![t] = "QUEUED"]
  OBVIOUS
<1> HIDE DEF n, token
<1> QED
  BY <1>2, <1>3, <1>4, <1>5

\* The next attempt of a task.
LEMMA RetryMoves ==
    ASSUME TypeOK, TypeOK', RowsInOrder, AbsentRows, Pipeline,
           NEW t \in Task, Retry(t)
    PROVE  Pipeline'
<1> PICK n \in 1 .. MaxNumber, token \in Nat :
       /\ task[t] \in TerminalTask
       /\ ScanJob(t, n) \in Job
       /\ \A m \in 1 .. MaxNumber : n <= m => attempt[<<t, m>>].status = "absent"
       /\ \A m \in 1 .. MaxNumber : attempt[<<t, m>>].token < token
       /\ attempt' = [attempt EXCEPT ![<<t, n>>] =
                         [status |-> "queued", token |-> token]]
       /\ job' = [job EXCEPT ![ScanJob(t, n)] = QueuedJob(token)]
       /\ task' = [task EXCEPT ![t] = "QUEUED"]
  BY RetryFollows
<1>1. task[t] \notin ExecutingTask /\ task[t] \notin {"CANCEL_REQUESTED", "DELETING"}
  BY DEF ExecutingTask, TerminalTask
<1> QED
  BY <1>1, InsertMoves

\* Requests and analyses leave scans alone.
LEMMA RequestsAreStill ==
    ASSUME TypeOK, Pipeline, RunRows, NEW j \in Job,
           RequestPostScan(j) \/ CreateRun(j) \/ CancelRun(j)
    PROVE  Pipeline'
<1>1. j.kind \notin ScanKind /\ UNCHANGED <<task, attempt>>
  BY Kinds DEF RequestPostScan, CreateRun, CancelRun, CancelsAtOnce,
     CancelsByRequest, RunRows, ScanKind
<1>2. \A k \in Job \ {j} : job'[k] = job[k]
  BY DEF RequestPostScan, CreateRun, CancelRun, TypeOK
<1> QED
  BY <1>1, <1>2, StillKeeps DEF Still

\* Whatever users ask for, the pipeline stays in order.
LEMMA UserMoves ==
    ASSUME TypeOK, TypeOK', RowsInOrder, AbsentRows, Pipeline, RunRows, User
    PROVE  Pipeline'
BY CreateMoves, RetryMoves, CancelMoves, RequestsAreStill DEF User
-----------------------------------------------------------------------------
\* So does what workers do inside their leases.
LEMMA WorkMoves ==
    ASSUME TypeOK, TypeOK', Pipeline, HandoverReady, NEW w \in Worker,
           Work(w) \/ Lose(w)
    PROVE  Pipeline'
<1>1. CASE UNCHANGED <<task, attempt, job>>
  BY <1>1, StillKeeps DEF Still
<1>2. CASE FinishOther(w)
  <2> PICK j \in Job : j = worker[w].job
    BY <1>2 DEF FinishOther, TypeOK
  <2>1. /\ j.kind \notin ScanKind /\ UNCHANGED <<task, attempt>>
        /\ \A k \in Job \ {j} : job'[k] = job[k]
    BY <1>2 DEF FinishOther, FinishLease, TypeOK
  <2> QED
    BY <2>1, StillKeeps DEF Still
<1> QED
  BY <1>1, <1>2, StartMoves, EnqueueMoves, ReportMoves, FinishScanMoves,
     FinishTrivyMoves
     DEF Work, Lose, HeartbeatLost, Crash, StartRefused, FinishRefused,
         PublishTree, PublishFindings, ReturnScan, ReturnPostScan, Begin,
         RetryRun, ReturnError, ReturnFault, PublishRun, EndRun,
         PublishPython, CommitPython, FailPublication, RetryPython, FailPython,
         SetRun, rows

\* Every step keeps the pipeline of every task.
LEMMA PipelineKept ==
    ASSUME TypeOK', SlotInv, AbsentRows, Pipeline, CancellingHoldsTask,
           HandoverReady, RunRows, [Next]_vars
    PROVE  Pipeline'
<1>1. TypeOK /\ RowsInOrder
  BY DEF SlotInv
<1>2. CASE Import \/ UNCHANGED vars
  <2>1. Still
    BY <1>2 DEF Import, ImportClaim, ImportEnd, vars, Still
  <2> QED
    BY <2>1, StillKeeps
<1> QED
  BY <1>1, <1>2, UserMoves, WorkMoves, ClaimMoves, RecoverMoves DEF Next
-----------------------------------------------------------------------------
(***************************************************************************)
(* What a step does to a task row                                          *)
(***************************************************************************)
TaskStep(t) ==
    \/ task'[t] = task[t]
    \/ /\ CreateTask(t) \/ Retry(t)
       /\ task[t] \in {"absent"} \cup TerminalTask /\ task'[t] = "QUEUED"
    \/ task[t] \in ExecutingTask /\ task'[t] \in ExecutingTask \cup TerminalTask
    \/ Cancel(t) \/ Delete(t)
    \/ /\ task[t] = "CANCEL_REQUESTED" /\ task'[t] = "CANCELLED"
       /\ \A k \in Job : k.task = t /\ job[k].status = "cancel_requested" =>
             job'[k].status # "cancel_requested"

\* The task of a scan in progress is in execution.
LEMMA ScansExecute ==
    ASSUME TypeOK, Pipeline, NEW j \in Job, j.kind \in ScanKind,
           job[j].status \in {"leased", "running"}
    PROVE  task[j.task] \in ExecutingTask
<1>1. j.kind = "scan" => Scanning(j.task, j.n) /\ j = ScanJob(j.task, j.n)
  BY ScanIsDriver DEF ActiveJob, HeldJob
<1>2. j.kind = "trivy" => HandedOver(j.task, j.n) /\ j = TrivyJob(j.task, j.n)
  BY TrivyIsDriver DEF HeldJob
<1> QED
  BY <1>1, <1>2 DEF ScanKind, Scanning, HandedOver, ExecutingTask, WaitingJob

\* Users create, retry, cancel and delete tasks.
LEMMA UserTasks ==
    ASSUME TypeOK, User, NEW t \in Task
    PROVE  TaskStep(t)
<1>1. ASSUME NEW u \in Task, CreateTask(u) \/ Retry(u)
      PROVE  TaskStep(t)
  <2>1. /\ task[u] \in {"absent"} \cup TerminalTask
        /\ task' = [task EXCEPT ![u] = "QUEUED"]
    BY <1>1, RetryInserts DEF CreateTask
  <2>2. CASE u = t
    BY <1>1, <2>1, <2>2 DEF TaskStep, TypeOK
  <2>3. CASE u # t
    BY <2>1, <2>3 DEF TaskStep, TypeOK
  <2> QED
    BY <2>2, <2>3
<1>2. ASSUME NEW u \in Task, Cancel(u) \/ Delete(u)
      PROVE  TaskStep(t)
  <2>1. CASE u = t
    BY <1>2, <2>1 DEF TaskStep
  <2>2. CASE u # t
    BY <1>2, <2>2 DEF TaskStep, Cancel, Delete, TypeOK
  <2> QED
    BY <2>1, <2>2
<1>3. ASSUME NEW j \in Job, RequestPostScan(j) \/ CreateRun(j) \/ CancelRun(j)
      PROVE  TaskStep(t)
  BY <1>3 DEF TaskStep, RequestPostScan, CreateRun, CancelRun
<1> QED
  BY <1>1, <1>2, <1>3 DEF User

\* Workers move tasks in execution on, or end them.
LEMMA WorkTasks ==
    ASSUME TypeOK, Pipeline, NEW w \in Worker, Work(w) \/ Lose(w), NEW t \in Task
    PROVE  TaskStep(t)
<1>1. CASE UNCHANGED task
  BY <1>1 DEF TaskStep
<1>2. CASE Start(w) \/ Report(w) \/ FinishScan(w) \/ FinishTrivy(w)
  <2> PICK j \in Job : j = worker[w].job
    BY <1>2 DEF Start, Report, Works, FinishScan, FinishTrivy, TypeOK
  <2>1. CASE UNCHANGED task
    BY <2>1 DEF TaskStep
  <2>2. CASE ~UNCHANGED task
    <3>1. /\ j.kind \in ScanKind /\ job[j].status \in {"leased", "running"}
          /\ \E status \in ExecutingTask \cup TerminalTask :
                task' = [task EXCEPT ![j.task] = status]
      <4>1. CASE Start(w)
        BY <2>2, <4>1 DEF Start, StartAllowed, Leases, ScanKind, ExecutingTask
      <4>2. CASE Report(w)
        BY <4>2 DEF Report, Works, Leases, ScanKind, ExecutingTask
      <4>3. CASE FinishScan(w)
        BY <4>3 DEF FinishScan, FinishAllowed, Leases, ScanKind, ExecutingTask,
            TerminalTask, FinishedTask
      <4>4. CASE FinishTrivy(w)
        BY <4>4 DEF FinishTrivy, FinishAllowed, Leases, ScanKind, ExecutingTask,
            TerminalTask, FinishedTask
      <4> QED
        BY <1>2, <4>1, <4>2, <4>3, <4>4
    <3>2. task[j.task] \in ExecutingTask
      BY <3>1, ScansExecute
    <3> QED
      BY <3>1, <3>2 DEF TaskStep, TypeOK
  <2> QED
    BY <2>1, <2>2
<1> QED
  BY <1>1, <1>2
     DEF Work, Lose, HeartbeatLost, Crash, StartRefused, FinishRefused,
         PublishTree, EnqueueTrivy, PublishFindings, ReturnScan, ReturnPostScan,
         Begin, RetryRun, ReturnError, ReturnFault, PublishRun, EndRun,
         FinishOther, PublishPython, CommitPython, FailPublication, RetryPython,
         FailPython, SetRun, rows

\* Recovery puts tasks in execution back or ends them, and completes a
\* requested cancellation with the last job that is cancelling.
LEMMA RecoverTasks ==
    ASSUME SlotInv, Pipeline, CancellingHoldsTask, RunRows, NEW j \in Job,
           Maintenance(j), NEW t \in Task
    PROVE  TaskStep(t)
<1>0. TypeOK
  BY DEF SlotInv
<1>1. CASE UNCHANGED task
  BY <1>1 DEF TaskStep
<1>2. CASE RecoverScan(j) \/ RecoverTrivy(j)
  <2>1. /\ j.kind \in ScanKind /\ job[j].status \in {"leased", "running"}
        /\ \E status \in ExecutingTask \cup TerminalTask :
              task' = [task EXCEPT ![j.task] = status]
    BY <1>2 DEF RecoverScan, RecoverTrivy, Expired, Recoverable, HeldJob,
        ScanKind, ExecutingTask, TerminalTask
  <2>2. task[j.task] \in ExecutingTask
    BY <1>0, <2>1, ScansExecute
  <2> QED
    BY <1>0, <2>1, <2>2 DEF TaskStep, TypeOK
<1>3. CASE RecoverCancelled(j) /\ ~UNCHANGED task
  <2>1. /\ task[j.task] = "CANCEL_REQUESTED" /\ ~OthersCancelling(j)
        /\ task' = [task EXCEPT ![j.task] = "CANCELLED"]
        /\ job'[j].status = "cancelled"
    BY <1>0, <1>3, RecoverLeaseEffect DEF RecoverCancelled
  <2>2. \A k \in Job : k.task = j.task /\ job[k].status = "cancel_requested" =>
            job'[k].status # "cancel_requested"
    BY <2>1 DEF OthersCancelling
  <2> QED
    BY <1>0, <2>1, <2>2 DEF TaskStep, TypeOK
<1>4. CASE Quarantine(j)
  <2>1. j.kind = "python_analysis"
    BY <1>4, RecoveryFindsRows DEF Quarantine
  <2> QED
    BY <1>4, <2>1 DEF Quarantine, ScanKind, TaskStep
<1> QED
  BY <1>1, <1>2, <1>3, <1>4
     DEF Maintenance, Recover, ExpireLease, RecoverPlain,
         RecoverTerminalAnalysis, RecoverAnalysis

\* Every step changes a task row in one of these ways.
LEMMA TaskSteps ==
    ASSUME SlotInv, Pipeline, CancellingHoldsTask, RunRows, [Next]_vars,
           NEW t \in Task
    PROVE  TaskStep(t)
<1>1. CASE Import \/ UNCHANGED vars
  BY <1>1 DEF Import, ImportClaim, ImportEnd, vars, TaskStep
<1>2. ASSUME NEW w \in Worker, NEW j \in Job, Claim(w, j)
      PROVE  TaskStep(t)
  BY <1>2 DEF Claim, TaskStep
<1> QED
  BY <1>1, <1>2, UserTasks, WorkTasks, RecoverTasks DEF Next, SlotInv

\* A deletion is never undone and a requested cancellation not overtaken.
LEMMA TaskStepKeeps ==
    ASSUME NEW t \in Task, TypeOK, TaskStep(t)
    PROVE  /\ task[t] = "DELETING" => task'[t] = "DELETING"
           /\ task[t] = "CANCEL_REQUESTED" =>
                  task'[t] \in {"CANCEL_REQUESTED", "CANCELLED", "DELETING"}
           /\ task'[t] = "absent" => task[t] = "absent"
<1>1. CASE Cancel(t) \/ Delete(t)
  BY <1>1 DEF Cancel, Delete, ExecutingTask, TypeOK
<1>2. CASE ~(Cancel(t) \/ Delete(t))
  BY <1>2 DEF TaskStep, ExecutingTask, TerminalTask
<1> QED
  BY <1>1, <1>2
-----------------------------------------------------------------------------
\* A scan or Trivy job that is cancelling has the stage of its attempt to
\* say so; the other jobs of a task are cancelled with it, and the task only
\* goes on when none of them is left.
LEMMA CancellingStays ==
    ASSUME TypeOK', SlotInv, AbsentRows, Pipeline, Pipeline',
           CancellingHoldsTask, RunRows, [Next]_vars
    PROVE  CancellingHoldsTask'
<1>0. TypeOK /\ RowsInOrder /\ JobsFollowAttempts
  BY DEF SlotInv, Pipeline
<1> SUFFICES ASSUME NEW k \in Job, job'[k].status = "cancel_requested",
                    k.kind \notin AnalysisKind
             PROVE  task'[k.task] \in {"CANCEL_REQUESTED", "DELETING"}
  BY DEF CancellingHoldsTask
<1> DEFINE t == k.task
<1>1. t \in Task /\ TaskStep(t) /\ JobStep(k)
  BY <1>0, JobsTyped, TaskSteps, JobSteps
<1>2. CASE KeptRow(k)
  <2>1. job[k].status = "cancel_requested"
    BY <1>0, <1>2 DEF KeptRow, TypeOK, JobRow
  <2>2. task[t] \in {"CANCEL_REQUESTED", "DELETING"}
    BY <2>1 DEF CancellingHoldsTask
  <2>3. CASE Cancel(t) \/ Delete(t)
    BY <1>0, <1>1, <2>2, <2>3 DEF Cancel, Delete, ExecutingTask, TypeOK
  <2>4. CASE ~(Cancel(t) \/ Delete(t))
    BY <1>1, <2>1, <2>2, <2>4 DEF TaskStep, ExecutingTask, TerminalTask
  <2> QED
    BY <2>3, <2>4
<1>3. CASE Cancelling(k)
  <2>1. ~CancelRun(k)
    BY DEF CancelRun, CancelsAtOnce, CancelsByRequest, RunRows
  <2>2. k \in JobsOf(t, {"running"}) /\ (Cancel(t) \/ Delete(t))
    BY <1>3, <2>1 DEF Cancelling, JobsOf
  <2> QED
    BY <1>0, <1>1, <2>2 DEF Cancel, Delete, TypeOK
<1>4. CASE Inserted(k) \/ Claimed(k) \/ Started(k) \/ Ended(k)
  <2>1. job[k] \in JobRow
    BY <1>0 DEF TypeOK
  <2>2. ~Inserted(k) /\ ~Claimed(k) /\ ~Started(k)
    BY <2>1 DEF Inserted, Claimed, Started, QueuedJob, AbsentJob, JobRow
  <2>3. ~Ended(k)
    BY <2>1 DEF Ended, Settled, TerminalJob, JobRow
  <2> QED
    BY <1>4, <2>2, <2>3
<1> QED
  BY <1>1, <1>2, <1>3, <1>4 DEF JobStep
-----------------------------------------------------------------------------
(***************************************************************************)
(* What a step does to the run of a job                                    *)
(***************************************************************************)
RunStep(j) ==
    \/ run'[j] = run[j]
    \/ CreateRun(j) \/ CancelRun(j)
    \/ /\ run[j] \in ActiveRun
       /\ run'[j] \in {"queued", "running"} \cup TerminalRun
       /\ run'[j] = "queued" => j.kind \in FencedAnalysisKind

\* The run of an analysis is begun, requeued and settled while it is active.
LEMMA WorkRuns ==
    ASSUME TypeOK, RunRows, NEW w \in Worker, Work(w) \/ Lose(w), NEW k \in Job
    PROVE  RunStep(k)
<1>1. CASE UNCHANGED run
  BY <1>1 DEF RunStep
<1>2. CASE Begin(w) \/ RetryRun(w)
  BY <1>2 DEF Begin, RetryRun, Analyses, DrivesRun, SetRun, RunStep, ActiveRun,
      TerminalRun, TypeOK
<1>3. ASSUME NEW status \in TerminalRun,
             PublishRun(w, status) \/ EndRun(w, status) \/ PublishPython(w, status)
      PROVE  RunStep(k)
  BY <1>3 DEF PublishRun, EndRun, PublishPython, CommitPython, DrivesRun, SetRun,
      RunStep, ActiveRun, TerminalRun, TypeOK
<1>4. CASE ReturnFault(w) \/ FailPublication(w)
  BY <1>4 DEF ReturnFault, FailPublication, CommitPython, rows, SetRun, RunStep,
      ActiveRun, TerminalRun, TypeOK
<1> QED
  BY <1>1, <1>2, <1>3, <1>4
     DEF Work, Lose, HeartbeatLost, Crash, Start, StartRefused, FinishRefused,
         FinishScan, FinishTrivy, FinishOther, FinishLease, PublishTree,
         EnqueueTrivy, PublishFindings, Report, ReturnScan, ReturnPostScan,
         ReturnError, RetryPython, FailPython, rows

\* Every step changes the run of a job in one of these ways.
LEMMA RunSteps ==
    ASSUME TypeOK, RunRows, [Next]_vars, NEW k \in Job
    PROVE  RunStep(k)
<1>1. CASE User
  <2>1. ASSUME NEW j \in Job, CreateRun(j) \/ CancelRun(j)
        PROVE  RunStep(k)
    <3>1. CASE j = k
      BY <2>1, <3>1 DEF RunStep
    <3>2. CASE j # k
      BY <2>1, <3>2 DEF CreateRun, CancelRun, RunStep, TypeOK
    <3> QED
      BY <3>1, <3>2
  <2> QED
    BY <1>1, <2>1 DEF User, CreateTask, Retry, Cancel, Delete, RequestPostScan, RunStep
<1>2. ASSUME NEW j \in Job, Maintenance(j)
      PROVE  RunStep(k)
  <2>1. CASE UNCHANGED run
    BY <2>1 DEF RunStep
  <2>2. CASE RecoverAnalysis(j)
    BY <2>2 DEF RecoverAnalysis, RunStep, TerminalRun, TypeOK
  <2>3. CASE RecoverCancelled(j)
    BY <2>3 DEF RecoverCancelled, RunStep, TerminalRun, TypeOK
  <2> QED
    BY <1>2, <2>1, <2>2, <2>3
       DEF Maintenance, Recover, ExpireLease, RecoverScan, RecoverTrivy,
           RecoverPlain, RecoverTerminalAnalysis, Quarantine
<1>3. CASE Import \/ UNCHANGED vars
  BY <1>3 DEF Import, ImportClaim, ImportEnd, vars, RunStep
<1>4. ASSUME NEW w \in Worker, NEW j \in Job, Claim(w, j)
      PROVE  RunStep(k)
  BY <1>4 DEF Claim, RunStep
<1> QED
  BY <1>1, <1>2, <1>3, <1>4, WorkRuns DEF Next

\* A run comes and goes on with its job.
LEMMA RunRowsStay ==
    ASSUME SlotInv, AbsentRows, QueuedHaveAttempts, Pipeline, RunRows, [Next]_vars
    PROVE  RunRows'
<1>0. TypeOK /\ RowsInOrder /\ JobsFollowAttempts
  BY DEF SlotInv, Pipeline
<1> SUFFICES ASSUME NEW k \in Job
             PROVE  /\ run'[k] # "none" <=>
                           k.kind \in AnalysisKind /\ job'[k].status # "absent"
                    /\ run'[k] = "cancel_requested" =>
                           job'[k].status \in {"cancel_requested", "cancelled", "failed"}
  BY DEF RunRows
<1>1. JobStep(k) /\ RunStep(k) /\ job[k] \in JobRow
  BY <1>0, JobSteps, RunSteps DEF TypeOK
<1>2. /\ run[k] # "none" <=> k.kind \in AnalysisKind /\ job[k].status # "absent"
      /\ run[k] = "cancel_requested" =>
             job[k].status \in {"cancel_requested", "cancelled", "failed"}
      /\ job[k].status # "absent" => job'[k].status # "absent"
  BY <1>0, <1>1, JobStepKeeps DEF RunRows
<1>3. CASE CreateRun(k)
  <2>1. /\ k.kind \in AnalysisKind /\ run'[k] = "queued"
        /\ job'[k] = QueuedJob(0)
    BY <1>0, <1>3 DEF CreateRun, TypeOK
  <2> QED
    BY <2>1 DEF QueuedJob, AbsentJob
<1>4. CASE CancelRun(k)
  BY <1>0, <1>2, <1>4
     DEF CancelRun, CancelsAtOnce, CancelsByRequest, TypeOK, JobRow
<1>5. CASE run'[k] = run[k] /\ ~CreateRun(k) /\ ~CancelRun(k)
  <2>1. k.kind \in AnalysisKind /\ job[k].status = "absent" => job'[k].status = "absent"
    BY <1>1, <1>5 DEF JobStep, KeptRow, Inserted, Claimed, Started, Ended,
        Cancelling, ActiveJob, HeldJob, JobRow
  <2>2. job[k].status \in {"cancel_requested", "cancelled", "failed"} =>
            job'[k].status \in {"cancel_requested", "cancelled", "failed"}
    BY <1>1, <1>5 DEF JobStep, KeptRow, Inserted, Claimed, Started, Ended,
        Cancelling, Settled, ActiveJob, HeldJob, JobRow
  <2> QED
    BY <1>2, <1>5, <2>1, <2>2
<1>6. CASE run[k] \in ActiveRun /\ run'[k] \in {"queued", "running"} \cup TerminalRun
  BY <1>2, <1>6 DEF ActiveRun, TerminalRun
<1> QED
  BY <1>1, <1>3, <1>4, <1>5, <1>6 DEF RunStep
-----------------------------------------------------------------------------
(***************************************************************************)
(* The handover                                                            *)
(***************************************************************************)

\* The memory of a worker changes with its own steps only.
LEMMA OwnMemory ==
    ASSUME TypeOK, [Next]_vars, NEW w \in Worker, worker'[w] # worker[w]
    PROVE  Work(w) \/ Lose(w) \/ \E j \in Job : Claim(w, j)
<1>1. ASSUME NEW x \in Worker, Work(x) \/ Lose(x)
      PROVE  x = w
  <2>1. \A y \in Worker \ {x} : worker'[y] = worker[y]
    BY <1>1 DEF TypeOK, Work, Lose, HeartbeatLost, Crash, Start, StartRefused,
        FinishRefused, FinishScan, FinishTrivy, FinishOther, FinishLease,
        PublishTree, EnqueueTrivy, PublishFindings, Report, ReturnScan,
        ReturnPostScan, Begin, RetryRun, ReturnError, ReturnFault, PublishRun,
        EndRun, PublishPython, FailPublication, RetryPython, FailPython, StepTo,
        Return
  <2> QED
    BY <2>1
<1>2. ASSUME NEW x \in Worker, NEW j \in Job, Claim(x, j)
      PROVE  x = w
  BY <1>2 DEF Claim, TypeOK
<1> QED
  BY <1>1, <1>2
     DEF Next, User, CreateTask, Retry, Cancel, Delete, RequestPostScan,
         CreateRun, CancelRun, Maintenance, ExpireLease, Recover, RecoverScan,
         RecoverTrivy, RecoverPlain, RecoverTerminalAnalysis, RecoverAnalysis,
         RecoverCancelled, Quarantine, RecoverLease, Import, ImportClaim,
         ImportEnd, vars

\* A worker that finished a scan of images has just enqueued the Trivy job,
\* or had done so.
LEMMA ScansReported ==
    ASSUME TypeOK, [Next]_vars, NEW w \in Worker, worker'[w] # worker[w],
           \/ worker'[w].pc = "reported"
           \/ worker'[w].pc = "done" /\ worker'[w].outcome \in Success,
           worker'[w].job.kind = "scan", worker'[w].job.task \in ImageTask
    PROVE  /\ worker'[w].job = worker[w].job /\ worker'[w].token = worker[w].token
           /\ EnqueueTrivy(w) \/ (worker[w].pc = "reported" /\ UNCHANGED job)
<1>1. ASSUME Work(w) \/ Lose(w)
      PROVE  /\ worker'[w].job = worker[w].job /\ worker'[w].token = worker[w].token
             /\ EnqueueTrivy(w) \/ (worker[w].pc = "reported" /\ UNCHANGED job)
  <2>1. worker[w] \in WorkerMemory
    BY DEF TypeOK
  <2>2. worker' # [worker EXCEPT ![w] = Idle]
    BY DEF Idle, TypeOK
  <2>3. ~(\/ HeartbeatLost(w) \/ Crash(w) \/ StartRefused(w) \/ FinishRefused(w)
          \/ FinishScan(w) \/ FinishTrivy(w) \/ FinishOther(w) \/ FailPython(w))
    BY <2>2 DEF HeartbeatLost, Crash, StartRefused, FinishRefused, FinishScan,
        FinishTrivy, FinishOther, FinishLease, FailPython
  <2>4. ~Start(w) /\ ~PublishTree(w)
    BY <2>1 DEF Start, PublishTree, StepTo, TypeOK, WorkerMemory
  <2>5. CASE EnqueueTrivy(w)
    BY <2>1, <2>5 DEF EnqueueTrivy, StepTo, TypeOK, WorkerMemory
  <2>6. ~Report(w)
    BY <2>1 DEF Report, Works, StepTo, TypeOK, WorkerMemory
  <2>7. ASSUME NEW outcome \in Outcome, ReturnScan(w, outcome)
        PROVE  /\ worker'[w].job = worker[w].job /\ worker'[w].token = worker[w].token
               /\ worker[w].pc = "reported" /\ UNCHANGED job
    <3>1. /\ worker'[w] = [worker[w] EXCEPT !.pc = "done", !.outcome = outcome]
          /\ UNCHANGED job
      BY <2>7 DEF ReturnScan, Return, rows, TypeOK
    <3>2. outcome \in Success
      BY <2>1, <3>1 DEF WorkerMemory
    <3>3. worker[w].pc = "reported"
      BY <2>7, <3>2 DEF ReturnScan, Works, Success, Failure
    <3> QED
      BY <2>1, <3>1, <3>3 DEF WorkerMemory
  <2>8. ASSUME NEW outcome \in Outcome,
               PublishFindings(w, outcome) \/ ReturnPostScan(w, outcome)
        PROVE  FALSE
    <3>1. worker'[w].job = worker[w].job
      BY <2>1, <2>8 DEF PublishFindings, ReturnPostScan, Return, TypeOK, WorkerMemory
    <3>2. worker[w].job.kind # "scan"
      BY <2>8 DEF PublishFindings, ReturnPostScan, Works, PostScanKind
    <3> QED
      BY <3>1, <3>2
  <2>9. ~(\/ Begin(w) \/ RetryRun(w) \/ ReturnError(w) \/ ReturnFault(w)
          \/ FailPublication(w) \/ RetryPython(w))
    <3>1. ASSUME \/ Begin(w) \/ RetryRun(w) \/ ReturnError(w) \/ ReturnFault(w)
                 \/ FailPublication(w) \/ RetryPython(w)
          PROVE  worker'[w].job = worker[w].job /\ worker[w].job.kind \in AnalysisKind
      BY <2>1, <3>1 DEF Begin, RetryRun, ReturnError, ReturnFault, FailPublication,
          RetryPython, Analyses, StepTo, Return, TypeOK, WorkerMemory, AnalysisKind
    <3> QED
      BY <3>1, Kinds
  <2>10. ASSUME NEW status \in TerminalRun,
                PublishRun(w, status) \/ EndRun(w, status) \/ PublishPython(w, status)
         PROVE  FALSE
    <3>1. worker'[w].job = worker[w].job /\ worker[w].job.kind \in AnalysisKind
      BY <2>1, <2>10 DEF PublishRun, EndRun, PublishPython, Analyses, Return,
          TypeOK, WorkerMemory, AnalysisKind
    <3> QED
      BY <3>1, Kinds
  <2> QED
    BY <1>1, <2>3, <2>4, <2>5, <2>6, <2>7, <2>8, <2>9, <2>10 DEF Work, Lose
<1>2. ASSUME NEW j \in Job, Claim(w, j)
      PROVE  FALSE
  BY <1>2 DEF Claim, TypeOK
<1> QED
  BY <1>1, <1>2, OwnMemory

\* A lease that runs after a step and whose worker has got further than its
\* start ran before it as well.
LEMMA RunningStays ==
    ASSUME TypeOK, RowsInOrder, AbsentRows, JobsFollowAttempts, [Next]_vars,
           NEW w \in Worker, NEW j \in Job, worker'[w].job = j,
           Leases(w, {"running"})', worker[w].pc # "claimed"
    PROVE  job'[j] = job[j]
<1>1. JobStep(j) /\ job[j] \in JobRow
  BY JobSteps DEF TypeOK
<1>2. job'[j].status = "running" /\ job'[j].owner = w /\ job'[j].live
  BY DEF Leases
<1>3. ~Inserted(j) /\ ~Claimed(j) /\ ~Ended(j) /\ ~Cancelling(j)
  BY <1>1, <1>2 DEF Inserted, QueuedJob, AbsentJob, Claimed, Ended, Settled,
     Cancelling, TerminalJob, JobRow
<1>4. ~Started(j)
  <2> SUFFICES ASSUME Started(j) PROVE FALSE
    OBVIOUS
  <2>1. PICK x \in Worker : Start(x) /\ worker[x].job = j
    BY DEF Started
  <2>2. job[j].owner = w
    BY <1>1, <1>2 DEF Started, JobRow
  <2>3. x = w
    BY <2>1, <2>2 DEF Start, StartAllowed, Leases
  <2> QED
    BY <2>1, <2>3 DEF Start
<1>5. KeptRow(j)
  BY <1>1, <1>3, <1>4 DEF JobStep
<1> QED
  BY <1>1, <1>2, <1>5 DEF KeptRow, JobRow

\* The Trivy job of a running scan stays in the queue under the scan's fence
\* once the scan has enqueued it.
LEMMA HandoverWaits ==
    ASSUME TypeOK, RowsInOrder, AbsentRows, Pipeline, RunRows, [Next]_vars,
           NEW w \in Worker, NEW j \in Job, worker[w].job = j, j.kind = "scan",
           ~EnqueueTrivy(w), Leases(w, {"running"}), job'[j] = job[j],
           NEW v \in Job, v = TrivyJob(j.task, j.n), job[v].status = "queued"
    PROVE  job'[v].status = "queued" /\ job'[v].token = job[v].token
<1>1. /\ JobStep(v) /\ job[v] \in JobRow /\ job[j].status = "running"
      /\ v.kind = "trivy" /\ v.task = j.task /\ AttemptOf(v) = AttemptOf(j)
      /\ AttemptOf(j) = <<j.task, j.n>>
  BY JobSteps, Names DEF TypeOK, Leases, Pipeline, AttemptOf
<1>2. Scanning(j.task, j.n) /\ j = ScanJob(j.task, j.n)
  BY <1>1, ScanIsDriver DEF ActiveJob, HeldJob
<1>3. ~Inserted(v)
  <2> SUFFICES ASSUME Inserted(v) PROVE FALSE
    OBVIOUS
  <2>1. PICK x \in Worker : EnqueueTrivy(x) /\ AttemptOf(worker[x].job) = AttemptOf(v)
    BY <1>1 DEF Inserted
  <2>2. worker[x].job \in Job /\ worker[x].job.kind = "scan"
    BY <2>1 DEF EnqueueTrivy, Works, TypeOK
  <2>3. worker[x].job = j
    BY <1>1, <1>2, <2>1, <2>2, Named DEF AttemptOf
  <2>4. x = w
    BY <2>1, <2>3 DEF EnqueueTrivy, PublishingLease, Leases
  <2> QED
    BY <2>1, <2>4
<1>4. ~Claimed(v)
  <2> SUFFICES ASSUME Claimed(v) PROVE FALSE
    OBVIOUS
  <2>1. task[j.task] = "SCANNING"
    BY <1>1, Kinds DEF Claimed, Claim, Claimable
  <2> QED
    BY <1>1, <1>2, <2>1 DEF Scanning
<1>5. ~Ended(v)
  <2> SUFFICES ASSUME Ended(v) PROVE FALSE
    OBVIOUS
  <2>1. ~CancelRun(v)
    BY <1>1, Kinds DEF CancelRun, CancelsAtOnce, CancelsByRequest, RunRows
  <2>2. CancelActiveJobs(j.task)
    BY <1>1, <2>1 DEF Ended, Withdrawn, Cancel, Delete
  <2>3. job'[j].status = "cancel_requested"
    BY <1>1, <2>2, CancelEffect, JobsTyped
  <2> QED
    BY <1>1, <2>3
<1> QED
  BY <1>1, <1>3, <1>4, <1>5
     DEF JobStep, KeptRow, Started, Cancelling, HeldJob, JobRow

\* Once a scan of images has reported, its Trivy job waits for the handover.
LEMMA HandoverStays ==
    ASSUME TypeOK', SlotInv, AbsentRows, Pipeline, HandoverReady, RunRows, [Next]_vars
    PROVE  HandoverReady'
<1>0. TypeOK /\ RowsInOrder /\ JobsFollowAttempts
  BY DEF SlotInv, Pipeline
<1> SUFFICES ASSUME NEW w \in Worker,
                    \/ worker'[w].pc = "reported"
                    \/ worker'[w].pc = "done" /\ worker'[w].outcome \in Success,
                    worker'[w].job.kind = "scan", worker'[w].job.task \in ImageTask,
                    Leases(w, {"running"})'
             PROVE  LET v == TrivyJob(worker'[w].job.task, worker'[w].job.n) IN
                    job'[v].status = "queued" /\ job'[v].token = worker'[w].token
  BY DEF HandoverReady
<1> PICK j \in Job : j = worker'[w].job
  BY DEF TypeOK
<1> DEFINE v == TrivyJob(j.task, j.n)
<1>1. v \in Job /\ v # j /\ j.kind = "scan" /\ j.task \in ImageTask
  BY JobsAreRecords, Names DEF TrivyJob
<1>2. CASE worker'[w] # worker[w]
  <2>1. /\ worker[w].job = j /\ worker[w].token = worker'[w].token
        /\ EnqueueTrivy(w) \/ (worker[w].pc = "reported" /\ UNCHANGED job)
    BY <1>0, <1>2, ScansReported
  <2>2. CASE EnqueueTrivy(w)
    <3>1. job' = [job EXCEPT ![v] = QueuedJob(worker[w].token)]
      BY <2>1, <2>2 DEF EnqueueTrivy
    <3> QED
      BY <1>0, <1>1, <2>1, <3>1 DEF QueuedJob, AbsentJob, TypeOK
  <2>3. CASE worker[w].pc = "reported" /\ UNCHANGED job
    <3>1. Leases(w, {"running"})
      BY <2>1, <2>3 DEF Leases
    <3> QED
      BY <1>1, <2>1, <2>3, <3>1 DEF HandoverReady
  <2> QED
    BY <2>1, <2>2, <2>3
<1>3. CASE worker'[w] = worker[w]
  <2>1. job'[j] = job[j]
    BY <1>0, <1>3, RunningStays
  <2>2. Leases(w, {"running"})
    BY <1>3, <2>1 DEF Leases
  <2>3. job[v].status = "queued" /\ job[v].token = worker[w].token
    BY <1>1, <1>3, <2>2 DEF HandoverReady
  <2>4. ~EnqueueTrivy(w)
    BY <1>0, <1>3 DEF EnqueueTrivy, Works
  <2>5. job'[v].status = "queued" /\ job'[v].token = job[v].token
    BY <1>0, <1>1, <1>3, <2>1, <2>2, <2>3, <2>4, HandoverWaits
  <2> QED
    BY <1>3, <2>3, <2>5
<1> QED
  BY <1>2, <1>3
-----------------------------------------------------------------------------
(***************************************************************************)
(* The invariant                                                           *)
(***************************************************************************)
LEMMA LeaseInit == Init => LeaseInv
<1> SUFFICES ASSUME Init PROVE LeaseInv
  OBVIOUS
<1>1. SlotInv
  BY SlotInit
<1>2. /\ \A j \in Job : job[j] = AbsentJob /\ run[j] = "none"
      /\ \A a \in AttemptId : attempt[a] = [status |-> "absent", token |-> 0]
      /\ \A t \in Task : task[t] = "absent"
      /\ \A w \in Worker : worker[w] = Idle
  BY DEF Init
<1>3. AbsentRows /\ QueuedHaveAttempts
  <2>1. AbsentJob.status = "absent"
    BY DEF AbsentJob
  <2> QED
    BY <1>2, <2>1 DEF AbsentRows, QueuedHaveAttempts
<1>4. Pipeline
  <2>1. \A t \in Task, n \in 1 .. MaxNumber :
           attempt[<<t, n>>] = [status |-> "absent", token |-> 0]
    BY <1>2 DEF AttemptId
  <2>2. AttemptsInOrder
    BY <2>1 DEF AttemptsInOrder
  <2>3. JobsFollowAttempts
    BY <1>2, JobsTyped DEF JobsFollowAttempts, AbsentJob
  <2>4. \A t \in Task, n \in 1 .. MaxNumber : Staged(t, n)
    <3>1. AbsentJob.status \notin ActiveJob \cup HeldJob
      BY DEF AbsentJob, ActiveJob, HeldJob
    <3>2. ASSUME NEW t \in Task, NEW n \in 1 .. MaxNumber
          PROVE  Inactive(t, n)
      BY <1>2, <2>1, <3>1 DEF Is, Inactive, Active
    <3> QED
      BY <3>2 DEF Staged
  <2>5. \A t \in Task : TaskDriven(t)
    BY <1>2 DEF TaskDriven, ExecutingTask
  <2> QED
    BY <2>2, <2>3, <2>4, <2>5 DEF Pipeline
<1>5. CancellingHoldsTask /\ RunRows
  BY <1>2, Kinds DEF CancellingHoldsTask, RunRows, AbsentJob
<1>6. HandoverReady
  BY <1>2 DEF HandoverReady, Idle
<1> QED
  BY <1>1, <1>3, <1>4, <1>5, <1>6 DEF LeaseInv

\* The invariant holds in every reachable state.
LEMMA LeaseStep == LeaseInv /\ [Next]_vars => LeaseInv'
<1> SUFFICES ASSUME LeaseInv, [Next]_vars PROVE LeaseInv'
  OBVIOUS
<1>1. SlotInv' /\ TypeOK' /\ TypeOK /\ RowsInOrder /\ JobsFollowAttempts
  BY NextTyped, RowsStayInOrder, SlotsStayFenced, SlotsStayHeld
     DEF LeaseInv, SlotInv, Pipeline
<1>2. AbsentRows' /\ QueuedHaveAttempts'
  BY <1>1, RowsKept DEF LeaseInv
<1>3. Pipeline'
  BY <1>1, PipelineKept DEF LeaseInv
<1>4. CancellingHoldsTask'
  BY <1>1, <1>3, CancellingStays DEF LeaseInv
<1>5. HandoverReady'
  BY <1>1, HandoverStays DEF LeaseInv
<1>6. RunRows'
  BY <1>1, RunRowsStay DEF LeaseInv
<1> QED
  BY <1>1, <1>2, <1>3, <1>4, <1>5, <1>6 DEF LeaseInv

LEMMA LeaseInvariant == Spec => []LeaseInv
BY LeaseInit, LeaseStep, PTL DEF Spec
-----------------------------------------------------------------------------
(***************************************************************************)
(* What follows from the invariant in a state                              *)
(***************************************************************************)

\* The job, attempt and task rows of a lease agree at every commit.
THEOREM LeasesCohere == Spec => []LeaseCoherent
<1>1. LeaseInv => LeaseCoherent
  <2> SUFFICES ASSUME LeaseInv, NEW j \in Job
               PROVE  /\ j.kind = "scan" => ScanLeaseCoherent(j)
                      /\ j.kind = "trivy" => TrivyLeaseCoherent(j)
    BY DEF LeaseCoherent
  <2>0. TypeOK /\ Pipeline
    BY DEF LeaseInv, SlotInv
  <2>1. ASSUME j.kind = "scan"
        PROVE  ScanLeaseCoherent(j)
    <3>1. CASE job[j].status \in ActiveJob
      <4>1. /\ Scanning(j.task, j.n) /\ j = ScanJob(j.task, j.n)
            /\ AttemptOf(j) = <<j.task, j.n>> /\ attempt[AttemptOf(j)] \in AttemptRow
        BY <2>0, <2>1, <3>1, ScanIsDriver DEF TypeOK
      <4> QED
        BY <4>1 DEF Scanning, ScanLeaseCoherent, AttemptRow, WaitingJob
    <3>2. CASE job[j].status \notin ActiveJob
      BY <3>2 DEF ScanLeaseCoherent, ActiveJob, HeldJob, WaitingJob
    <3> QED
      BY <3>1, <3>2
  <2>2. ASSUME j.kind = "trivy"
        PROVE  TrivyLeaseCoherent(j)
    <3>1. CASE job[j].status \in HeldJob
      <4>1. /\ HandedOver(j.task, j.n) /\ j = TrivyJob(j.task, j.n)
            /\ AttemptOf(j) = <<j.task, j.n>> /\ attempt[AttemptOf(j)] \in AttemptRow
        BY <2>0, <2>2, <3>1, TrivyIsDriver DEF TypeOK
      <4> QED
        BY <4>1 DEF HandedOver, TrivyLeaseCoherent, AttemptRow, WaitingJob
    <3>2. CASE job[j].status \notin HeldJob
      BY <3>2 DEF TrivyLeaseCoherent, HeldJob
    <3> QED
      BY <3>1, <3>2
  <2> QED
    BY <2>1, <2>2
<1> QED
  BY <1>1, LeaseInvariant, PTL

\* The job that drives a task is the one its active attempt is staged for.
LEMMA DriverIsStaged ==
    ASSUME TypeOK, Pipeline, NEW k \in Job, Drives(k)
    PROVE  /\ k.task \in Task /\ k.n \in 1 .. MaxNumber
           /\ Active(<<k.task, k.n>>)
           /\ \/ k = ScanJob(k.task, k.n) /\ Scanning(k.task, k.n)
              \/ k = TrivyJob(k.task, k.n) /\ HandedOver(k.task, k.n)
<1>1. CASE k.kind = "scan"
  <2>1. job[k].status \in ActiveJob
    BY DEF Drives, Claimable, ActiveJob, HeldJob
  <2> QED
    BY <1>1, <2>1, ScanIsDriver
<1>2. CASE k.kind = "trivy"
  <2>1. \/ job[k].status \in HeldJob
        \/ task[k.task] = "SCANNING" /\ Active(AttemptOf(k))
    BY <1>2, Kinds DEF Drives, Claimable, HeldJob, Active
  <2> QED
    BY <1>2, <2>1, TrivyIsDriver
<1> QED
  BY <1>1, <1>2 DEF Drives, ScanKind

\* The job an active attempt is staged for drives its task, unless the task
\* is being stopped.
LEMMA StageDrives ==
    ASSUME TypeOK, Pipeline, QueuedHaveAttempts, NEW t \in Task,
           NEW n \in 1 .. MaxNumber, Active(<<t, n>>), task[t] \in ExecutingTask
    PROVE  \E k \in {ScanJob(t, n), TrivyJob(t, n)} : k \in Job /\ Drives(k)
<1> DEFINE s == ScanJob(t, n)
           v == TrivyJob(t, n)
<1>0. /\ AttemptOf(s) = <<t, n>> /\ AttemptOf(v) = <<t, n>>
      /\ s.kind = "scan" /\ v.kind = "trivy" /\ s.task = t /\ v.task = t
      /\ attempt[<<t, n>>] \in AttemptRow
  BY Names DEF TypeOK, AttemptId
<1>1. CASE Scanning(t, n)
  <2>1. CASE job[s].status = "queued"
    <3>1. attempt[<<t, n>>] = [status |-> "queued", token |-> job[s].token]
      BY <1>0, <1>1, <2>1 DEF Scanning, AttemptRow
    <3> QED
      BY <1>0, <1>1, <2>1, <3>1
         DEF Scanning, Drives, Claimable, ClaimConsistent, QueuedHaveAttempts, ScanKind
  <2>2. CASE job[s].status # "queued"
    BY <1>0, <1>1, <2>2 DEF Scanning, Drives, WaitingJob, ExecutingTask, ScanKind
  <2> QED
    BY <2>1, <2>2
<1>2. CASE HandedOver(t, n)
  <2>1. CASE job[v].status = "queued"
    <3>1. attempt[<<t, n>>] = [status |-> "running", token |-> job[v].token]
      BY <1>0, <1>2 DEF HandedOver, AttemptRow
    <3> QED
      BY <1>0, <1>2, <2>1, <3>1
         DEF HandedOver, Drives, Claimable, ClaimConsistent, QueuedHaveAttempts, ScanKind
  <2>2. CASE job[v].status # "queued"
    BY <1>0, <1>2, <2>2 DEF HandedOver, Drives, WaitingJob, ExecutingTask, ScanKind
  <2> QED
    BY <2>1, <2>2
<1> QED
  BY <1>1, <1>2 DEF Pipeline, Staged, Inactive

\* A task in execution is driven by exactly one job, which runs or may be
\* claimed.
THEOREM TasksAreDriven == Spec => []ExecutionDriven
<1>1. LeaseInv => ExecutionDriven
  <2> SUFFICES ASSUME LeaseInv, NEW t \in Task, task[t] \in ExecutingTask
               PROVE  Cardinality({j \in Job : j.task = t /\ Drives(j)}) = 1
    BY DEF ExecutionDriven
  <2>0. TypeOK /\ Pipeline /\ QueuedHaveAttempts
    BY DEF LeaseInv, SlotInv
  <2>1. PICK n \in 1 .. MaxNumber : Active(<<t, n>>)
    BY <2>0 DEF Pipeline, TaskDriven
  <2>2. PICK k \in {ScanJob(t, n), TrivyJob(t, n)} : k \in Job /\ Drives(k)
    BY <2>0, <2>1, StageDrives
  <2>3. k.task = t /\ k.n = n
    BY <2>2, Names
  <2>4. ASSUME NEW j \in Job, j.task = t, Drives(j)
        PROVE  j = k
    <3>1. /\ j.n \in 1 .. MaxNumber /\ Active(<<t, j.n>>)
          /\ \/ j = ScanJob(t, j.n) /\ Scanning(t, j.n)
             \/ j = TrivyJob(t, j.n) /\ HandedOver(t, j.n)
      BY <2>0, <2>4, DriverIsStaged
    <3>2. j.n = n
      BY <2>0, <2>1, <3>1, ActiveIsLast
    <3>3. \/ k = ScanJob(t, n) /\ Scanning(t, n)
          \/ k = TrivyJob(t, n) /\ HandedOver(t, n)
      BY <2>0, <2>2, <2>3, DriverIsStaged
    <3>4. ~(Scanning(t, n) /\ HandedOver(t, n))
      BY DEF Scanning, HandedOver, Is, WaitingJob
    <3> QED
      BY <3>1, <3>2, <3>3, <3>4
  <2>5. {j \in Job : j.task = t /\ Drives(j)} = {k}
    BY <2>2, <2>3, <2>4
  <2> QED
    BY <2>5, FS_Singleton
<1> QED
  BY <1>1, LeaseInvariant, PTL

\* Recovery quarantines nothing but cancelled Python analyses.
THEOREM RecoveryAgrees == Spec => []RecoveryIsConsistent
<1>1. LeaseInv => RecoveryIsConsistent
  BY RecoveryFindsRows DEF LeaseInv, RecoveryIsConsistent
<1> QED
  BY <1>1, LeaseInvariant, PTL
-----------------------------------------------------------------------------
(***************************************************************************)
(* What no step does                                                       *)
(***************************************************************************)

\* Ended jobs and attempts keep their outcome, no deletion is undone and no
\* cancellation overtaken.
THEOREM NothingResurrects == Spec => NoResurrection
<1>1. LeaseInv /\ [Next]_vars =>
         [/\ \A t \in Task :
               /\ task[t] = "DELETING" => task'[t] = "DELETING"
               /\ task[t] = "CANCEL_REQUESTED" =>
                      task'[t] \in {"CANCEL_REQUESTED", "CANCELLED", "DELETING"}
          /\ \A j \in Job : job[j].status \in TerminalJob =>
               job'[j].status = job[j].status
          /\ \A a \in AttemptId :
               attempt[a].status \in {"succeeded", "failed", "cancelled"} =>
                   attempt'[a].status = attempt[a].status]_vars
  <2> SUFFICES ASSUME LeaseInv, [Next]_vars
               PROVE  /\ \A t \in Task :
                           /\ task[t] = "DELETING" => task'[t] = "DELETING"
                           /\ task[t] = "CANCEL_REQUESTED" =>
                                  task'[t] \in {"CANCEL_REQUESTED", "CANCELLED", "DELETING"}
                      /\ \A j \in Job : job[j].status \in TerminalJob =>
                           job'[j].status = job[j].status
                      /\ \A a \in AttemptId :
                           attempt[a].status \in {"succeeded", "failed", "cancelled"} =>
                               attempt'[a].status = attempt[a].status
    OBVIOUS
  <2>1. TypeOK /\ RowsInOrder /\ JobsFollowAttempts
    BY DEF LeaseInv, SlotInv, Pipeline
  <2> QED
    BY <2>1, TaskSteps, TaskStepKeeps, JobSteps, JobStepKeeps, AttemptSteps,
       AttemptStepKeeps DEF LeaseInv
<1> QED
  BY <1>1, LeaseInvariant, PTL DEF Spec, NoResurrection

\* Fences only advance, over the leases of a job and the attempts of a task.
THEOREM FencesOnlyAdvance == Spec => FencesAdvance
<1>1. LeaseInv /\ LeaseInv' /\ [Next]_vars =>
         [/\ \A j \in Job : job[j].token <= job'[j].token
          /\ \A t \in Task, m, n \in 1 .. MaxNumber :
                /\ m < n
                /\ attempt[<<t, n>>].status = "absent"
                /\ attempt'[<<t, n>>].status # "absent"
                => attempt[<<t, m>>].token < attempt'[<<t, n>>].token]_vars
  <2> SUFFICES ASSUME LeaseInv, LeaseInv', [Next]_vars
               PROVE  /\ \A j \in Job : job[j].token <= job'[j].token
                      /\ \A t \in Task, m, n \in 1 .. MaxNumber :
                            /\ m < n
                            /\ attempt[<<t, n>>].status = "absent"
                            /\ attempt'[<<t, n>>].status # "absent"
                            => attempt[<<t, m>>].token < attempt'[<<t, n>>].token
    OBVIOUS
  <2>1. /\ TypeOK /\ TypeOK' /\ RowsInOrder /\ JobsFollowAttempts
        /\ AbsentRows /\ QueuedHaveAttempts /\ AttemptsInOrder'
    BY DEF LeaseInv, SlotInv, Pipeline
  <2>2. \A j \in Job : job[j].token <= job'[j].token
    BY <2>1, JobSteps, JobStepKeeps
  <2>3. ASSUME NEW t \in Task, NEW m \in 1 .. MaxNumber, NEW n \in 1 .. MaxNumber,
               m < n, attempt'[<<t, n>>].status # "absent"
        PROVE  attempt[<<t, m>>].token < attempt'[<<t, n>>].token
    <3>1. attempt'[<<t, m>>].token < attempt'[<<t, n>>].token
      BY <2>1, <2>3 DEF AttemptsInOrder
    <3>2. <<t, m>> \in AttemptId /\ <<t, n>> \in AttemptId
      BY DEF AttemptId
    <3>3. attempt[<<t, m>>].token <= attempt'[<<t, m>>].token
      BY <2>1, <3>2, AttemptSteps, AttemptStepKeeps
    <3>4. /\ attempt[<<t, m>>].token \in Nat /\ attempt'[<<t, m>>].token \in Nat
          /\ attempt'[<<t, n>>].token \in Nat
      BY <2>1, <3>2 DEF TypeOK, AttemptRow
    <3> QED
      BY <3>1, <3>3, <3>4
  <2> QED
    BY <2>2, <2>3
<1> QED
  BY <1>1, LeaseInvariant, PTL DEF Spec, FencesAdvance
-----------------------------------------------------------------------------
(***************************************************************************)
(* Stored results                                                          *)
(***************************************************************************)

\* No stored result is ahead of its job.
PublishedBehind == \A j \in Job : published[j] <= job[j].token

\* A Python analysis begins once, since its run never goes back to the
\* queue: the worker that has begun it is the only one that ever will, though
\* its publication does not check the lease.
PythonBegunOnce ==
    \A w \in Worker :
        worker[w].pc = "begun" /\ worker[w].job.kind = "python_analysis" =>
            /\ run[worker[w].job] \notin {"none", "queued"}
            /\ worker[w].token = job[worker[w].job].token

ResultInv == LeaseInv /\ PublishedBehind /\ PythonBegunOnce

\* A result is stored by the running job whose fence it carries.
LEMMA StoresOwn ==
    ASSUME TypeOK, PythonBegunOnce, [Next]_vars, NEW j \in Job,
           published'[j] # published[j]
    PROVE  /\ job[j].status = "running" /\ published'[j] = job[j].token
           /\ job' = job
           /\ \/ j.kind \in ScanKind /\ attempt[AttemptOf(j)].status = "running"
              \/ j.kind \in AnalysisKind /\ run[j] = "running"
<1>1. PICK w \in Worker : /\ Work(w)
                          /\ published' # published
  BY DEF Next, User, CreateTask, Retry, Cancel, Delete, RequestPostScan,
     CreateRun, CancelRun, Maintenance, ExpireLease, Recover, RecoverScan,
     RecoverTrivy, RecoverPlain, RecoverTerminalAnalysis, RecoverAnalysis,
     RecoverCancelled, Quarantine, RecoverLease, Import, ImportClaim,
     ImportEnd, vars, Claim, Lose, HeartbeatLost, Crash, rows
<1>2. ASSUME NEW k \in Job, k = worker[w].job,
             published' = [published EXCEPT ![k] = worker[w].token]
      PROVE  j = k /\ published'[j] = worker[w].token
  BY <1>2 DEF TypeOK
<1>3. ASSUME PublishTree(w) \/ \E outcome \in Outcome : PublishFindings(w, outcome)
      PROVE  /\ job[j].status = "running" /\ published'[j] = job[j].token
             /\ job' = job /\ attempt[AttemptOf(j)].status = "running"
             /\ j.kind \in ScanKind
  <2>1. PICK k \in Job : k = worker[w].job
    BY <1>3 DEF PublishTree, PublishFindings, Works, TypeOK
  <2>2. /\ published' = [published EXCEPT ![k] = worker[w].token]
        /\ job[k].status = "running" /\ job[k].token = worker[w].token
        /\ attempt[AttemptOf(k)].status = "running" /\ job' = job
        /\ k.kind \in ScanKind
    BY <1>3, <2>1, SMTT(30) DEF PublishTree, PublishFindings, PublishingLease, Leases,
        Works, ScanKind
  <2> QED
    BY <1>2, <2>1, <2>2
<1>4. ASSUME \/ \E status \in TerminalRun : PublishRun(w, status)
             \/ ReturnFault(w)
      PROVE  /\ job[j].status = "running" /\ published'[j] = job[j].token
             /\ job' = job /\ j.kind \in AnalysisKind /\ run[j] = "running"
  <2>1. PICK k \in Job : k = worker[w].job
    BY <1>4 DEF PublishRun, ReturnFault, Analyses, TypeOK
  <2>2. /\ published' = [published EXCEPT ![k] = worker[w].token]
        /\ job[k].status = "running" /\ job[k].token = worker[w].token
        /\ job' = job /\ k.kind \in AnalysisKind /\ run[k] = "running"
    BY <1>1, <1>4, <2>1 DEF PublishRun, ReturnFault, Analyses, Leases, SetRun,
        StorePublished, rows, AnalysisKind
  <2> QED
    BY <1>2, <2>1, <2>2
<1>5. ASSUME \/ \E status \in TerminalRun : PublishPython(w, status)
             \/ FailPublication(w)
      PROVE  /\ job[j].status = "running" /\ published'[j] = job[j].token
             /\ job' = job /\ j.kind \in AnalysisKind /\ run[j] = "running"
  <2>1. PICK k \in Job : k = worker[w].job
    BY <1>5 DEF PublishPython, FailPublication, Analyses, TypeOK
  <2>2. /\ published' = [published EXCEPT ![k] = worker[w].token]
        /\ job[k].status = "running" /\ job' = job
        /\ k.kind = "python_analysis" /\ worker[w].pc = "begun"
        /\ run[k] = "running"
    BY <1>1, <1>5, <2>1 DEF PublishPython, FailPublication, CommitPython, Analyses,
        SetRun, StorePublished, rows
  <2>3. job[k].token = worker[w].token
    BY <2>1, <2>2 DEF PythonBegunOnce
  <2> QED
    BY <1>2, <2>1, <2>2, <2>3 DEF AnalysisKind
<1> QED
  BY <1>1, <1>3, <1>4, <1>5
     DEF Work, Start, StartRefused, FinishRefused, FinishScan, FinishTrivy,
         FinishOther, FinishLease, EnqueueTrivy, Report, ReturnScan,
         ReturnPostScan, Begin, RetryRun, ReturnError, EndRun, RetryPython,
         FailPython, rows

\* A worker has begun an analysis with Begin, under its lease.
LEMMA BegunByBegin ==
    ASSUME TypeOK, [Next]_vars, NEW w \in Worker, worker'[w] # worker[w],
           worker'[w].pc = "begun"
    PROVE  Begin(w)
<1>1. worker[w] \in WorkerMemory
  BY DEF TypeOK
<1>2. ~(\/ HeartbeatLost(w) \/ Crash(w) \/ StartRefused(w) \/ FinishRefused(w)
        \/ FinishScan(w) \/ FinishTrivy(w) \/ FinishOther(w) \/ FailPython(w))
  BY DEF HeartbeatLost, Crash, StartRefused, FinishRefused, FinishScan,
     FinishTrivy, FinishOther, FinishLease, FailPython, Idle, TypeOK
<1>3. ~(Start(w) \/ PublishTree(w) \/ EnqueueTrivy(w) \/ Report(w))
  BY <1>1 DEF Start, PublishTree, EnqueueTrivy, Report, StepTo, TypeOK, WorkerMemory
<1>4. \A outcome \in Outcome :
         ~(Return(w, outcome))
  BY <1>1 DEF Return, TypeOK, WorkerMemory
<1>5. \A j \in Job : ~Claim(w, j)
  BY DEF Claim, TypeOK
<1>6. ~(\E outcome \in Outcome : \/ PublishFindings(w, outcome)
                                 \/ ReturnScan(w, outcome)
                                 \/ ReturnPostScan(w, outcome))
  BY <1>4 DEF PublishFindings, ReturnScan, ReturnPostScan
<1>7. ~(\/ RetryRun(w) \/ ReturnError(w) \/ ReturnFault(w) \/ FailPublication(w)
        \/ RetryPython(w))
  BY <1>4 DEF RetryRun, ReturnError, ReturnFault, FailPublication, RetryPython,
      Outcome, Failure
<1>8. ~(\E status \in TerminalRun :
           PublishRun(w, status) \/ EndRun(w, status) \/ PublishPython(w, status))
  BY <1>4 DEF PublishRun, OutcomeOfRun, EndRun, PublishPython, Outcome, Success, Failure
<1> QED
  BY <1>2, <1>3, <1>5, <1>6, <1>7, <1>8, OwnMemory DEF Work, Lose

\* The fence of a begun Python analysis stays that of its worker.
LEMMA BegunStays ==
    ASSUME TypeOK', LeaseInv, PythonBegunOnce, [Next]_vars
    PROVE  PythonBegunOnce'
<1>0. TypeOK /\ RowsInOrder /\ JobsFollowAttempts /\ AbsentRows /\ RunRows
  BY DEF LeaseInv, SlotInv, Pipeline
<1> SUFFICES ASSUME NEW w \in Worker, worker'[w].pc = "begun",
                    worker'[w].job.kind = "python_analysis"
             PROVE  /\ run'[worker'[w].job] \notin {"none", "queued"}
                    /\ worker'[w].token = job'[worker'[w].job].token
  BY DEF PythonBegunOnce
<1> PICK j \in Job : j = worker'[w].job
  BY DEF TypeOK
<1>1. CASE worker'[w] # worker[w]
  <2>1. Begin(w)
    BY <1>0, <1>1, BegunByBegin
  <2>2. worker[w].job = j /\ worker'[w].token = worker[w].token
    BY <1>0, <2>1 DEF Begin, StepTo, TypeOK, WorkerMemory
  <2> QED
    BY <1>0, <2>1, <2>2 DEF Begin, DrivesRun, Leases, SetRun, TypeOK
<1>2. CASE worker'[w] = worker[w]
  <2>1. /\ run[j] \notin {"none", "queued"} /\ worker[w].token = job[j].token
        /\ j.kind = "python_analysis"
    BY <1>2 DEF PythonBegunOnce
  <2>2. job[j].status # "absent" /\ JobStep(j) /\ RunStep(j) /\ job[j] \in JobRow
    BY <1>0, <2>1, JobSteps, RunSteps DEF RunRows, TypeOK
  <2>3. ~CreateRun(j) /\ ~Inserted(j)
    BY <2>1, <2>2 DEF CreateRun, Inserted
  <2>4. run'[j] \notin {"none", "queued"}
    <3>1. CASE CancelRun(j)
      BY <1>0, <3>1 DEF CancelRun, TypeOK
    <3>2. CASE ~CancelRun(j)
      BY <2>1, <2>2, <2>3, <3>2, Kinds DEF RunStep, TerminalRun
    <3> QED
      BY <3>1, <3>2
  <2>5. ~Claimed(j)
    <3>1. \A x \in Worker : ~Claim(x, j)
      BY <2>1, Kinds DEF Claim, Claimable, AnalysisKind, ScanKind
    <3> QED
      BY <3>1 DEF Claimed
  <2>6. job'[j].token = job[j].token
    BY <2>2, <2>3, <2>5
       DEF JobStep, KeptRow, Started, Ended, Settled, Cancelling, JobRow
  <2> QED
    BY <1>2, <2>1, <2>4, <2>6
<1> QED
  BY <1>1, <1>2

LEMMA ResultInvariant == Spec => []ResultInv
<1>1. Init => ResultInv
  <2> SUFFICES ASSUME Init PROVE ResultInv
    OBVIOUS
  <2>1. PublishedBehind /\ PythonBegunOnce
    BY DEF Init, PublishedBehind, PythonBegunOnce, AbsentJob, Idle
  <2> QED
    BY <2>1, LeaseInit DEF ResultInv
<1>2. ResultInv /\ [Next]_vars => ResultInv'
  <2> SUFFICES ASSUME ResultInv, [Next]_vars PROVE ResultInv'
    OBVIOUS
  <2>1. LeaseInv' /\ TypeOK' /\ TypeOK
    BY LeaseStep DEF ResultInv, LeaseInv, SlotInv
  <2>2. PythonBegunOnce'
    BY <2>1, BegunStays DEF ResultInv
  <2>3. PublishedBehind'
    <3> SUFFICES ASSUME NEW j \in Job
                 PROVE  published'[j] <= job'[j].token
      BY DEF PublishedBehind
    <3>1. /\ RowsInOrder /\ JobsFollowAttempts /\ AbsentRows /\ QueuedHaveAttempts
      BY DEF ResultInv, LeaseInv, SlotInv, Pipeline
    <3>2. job[j].token <= job'[j].token /\ published[j] <= job[j].token
      BY <2>1, <3>1, JobSteps, JobStepKeeps DEF ResultInv, PublishedBehind
    <3>3. published[j] \in Nat /\ job[j].token \in Nat /\ job'[j].token \in Nat
      BY <2>1 DEF TypeOK, JobRow
    <3>4. CASE published'[j] = published[j]
      BY <3>2, <3>3, <3>4
    <3>5. CASE published'[j] # published[j]
      BY <2>1, <3>3, <3>5, StoresOwn DEF ResultInv
    <3> QED
      BY <3>4, <3>5
  <2> QED
    BY <2>1, <2>2, <2>3 DEF ResultInv
<1> QED
  BY <1>1, <1>2, PTL DEF Spec

\* The stored results of all other attempts of the task are older than the
\* fence of the attempt that runs.
LEMMA ResultsAreOlder ==
    ASSUME ResultInv, NEW j \in Job, NEW k \in Job, j.kind \in ScanKind,
           attempt[AttemptOf(j)].status = "running", job[j].status = "running",
           k.task = j.task, k.kind = j.kind
    PROVE  published[k] <= job[j].token
<1>0. TypeOK /\ Pipeline /\ AbsentRows /\ PublishedBehind
  BY DEF ResultInv, LeaseInv, SlotInv
<1>1. /\ j.task \in Task /\ j.n \in 1 .. MaxNumber /\ k.n \in 1 .. MaxNumber
      /\ AttemptOf(j) = <<j.task, j.n>> /\ AttemptOf(k) = <<j.task, k.n>>
      /\ Active(<<j.task, j.n>>)
  BY JobsTyped, Named DEF AttemptOf, Active
<1>2. job[j].token = attempt[<<j.task, j.n>>].token
  <2>1. CASE j.kind = "scan"
    BY <1>0, <2>1, ScanIsDriver DEF ActiveJob, HeldJob, Scanning
  <2>2. CASE j.kind = "trivy"
    BY <1>0, <2>2, TrivyIsDriver DEF HeldJob, HandedOver
  <2> QED
    BY <2>1, <2>2 DEF ScanKind
<1>3. /\ attempt[<<j.task, k.n>>].token \in Nat /\ job[k].token \in Nat
      /\ attempt[<<j.task, j.n>>].token \in Nat /\ published[k] \in Nat
  BY <1>0, <1>1 DEF TypeOK, AttemptId, AttemptRow, JobRow
<1>4. published[k] <= job[k].token /\ job[k].token <= attempt[<<j.task, k.n>>].token
  BY <1>0, <1>1 DEF PublishedBehind, Pipeline, JobsFollowAttempts
<1>5. attempt[<<j.task, k.n>>].token <= attempt[<<j.task, j.n>>].token
  <2>1. CASE k.n < j.n
    BY <1>0, <1>1, <1>3, <2>1, ActiveIsLast
  <2>2. CASE j.n < k.n
    <3>1. attempt[<<j.task, k.n>>].status = "absent"
      BY <1>0, <1>1, <2>2, ActiveIsLast
    <3>2. attempt[<<j.task, k.n>>].token = 0
      BY <1>0, <1>1, <3>1 DEF AbsentRows, AttemptId
    <3> QED
      BY <1>3, <3>2
  <2>3. CASE k.n = j.n
    BY <1>3, <2>3
  <2> QED
    BY <1>1, <2>1, <2>2, <2>3
<1> QED
  BY <1>2, <1>3, <1>4, <1>5

\* Results are stored under the current fence and never over newer ones, also
\* when Finish requeues a Python job whose publication failed or was committed
\* unheard (FailPublication): its run has begun, and no claim takes it again.
THEOREM ResultsAreFenced == Spec => NoLateOverwrite
<1>1. ResultInv /\ [Next]_vars =>
         [\A j \in Job : published'[j] # published[j] =>
            /\ job[j].status = "running"
            /\ published'[j] = job[j].token
            /\ j.kind \in ScanKind =>
                   \A k \in Job : k.task = j.task /\ k.kind = j.kind =>
                       published[k] <= published'[j]]_vars
  <2> SUFFICES ASSUME ResultInv, [Next]_vars, NEW j \in Job,
                      published'[j] # published[j]
               PROVE  /\ job[j].status = "running"
                      /\ published'[j] = job[j].token
                      /\ j.kind \in ScanKind =>
                             \A k \in Job : k.task = j.task /\ k.kind = j.kind =>
                                 published[k] <= published'[j]
    OBVIOUS
  <2>1. /\ job[j].status = "running" /\ published'[j] = job[j].token
        /\ j.kind \in ScanKind => attempt[AttemptOf(j)].status = "running"
    BY StoresOwn, Kinds DEF ResultInv, LeaseInv, SlotInv, ScanKind
  <2> QED
    BY <2>1, ResultsAreOlder
<1> QED
  BY <1>1, ResultInvariant, PTL DEF Spec, NoLateOverwrite
=============================================================================
