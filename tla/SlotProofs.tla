----------------------------- MODULE SlotProofs -----------------------------
(***************************************************************************)
(* The resource slots of the queue never leak and are never shared.        *)
(*                                                                         *)
(* SlotsFenced and LeasesHoldSlots are inductive together, once it is      *)
(* known that createOnce and retryOnce insert new rows (RowsInOrder): an   *)
(* upsert over a leased job would drop its lease and keep its slots.  The  *)
(* step splits in two: a claim grants one lease with its slots, and every  *)
(* other step only releases leases, each with all of its slots.            *)
(***************************************************************************)
EXTENDS JobPlatformTyping

(***************************************************************************)
(* Rows are inserted in order: a scan job after its attempt, an attempt    *)
(* after its task.  So what createOnce and retryOnce insert is new.        *)
(***************************************************************************)
RowsInOrder ==
    /\ \A a \in AttemptId :
          attempt[a].status # "absent" => task[a[1]] # "absent"
    /\ \A j \in Job :
          j.kind = "scan" /\ job[j].status # "absent" =>
              attempt[AttemptOf(j)].status # "absent"

\* A step that inserts no task, attempt or scan job and removes no row.
InsertsNoScan ==
    /\ \A t \in Task : task[t] # "absent" => task'[t] # "absent"
    /\ \A a \in AttemptId :
          (attempt'[a].status = "absent") <=> (attempt[a].status = "absent")
    /\ \A j \in Job : j.kind = "scan" /\ job[j].status = "absent" =>
          job'[j].status = "absent"

\* Cancelling or deleting a task inserts no attempt and no scan job.
LEMMA CancelInserts ==
    ASSUME TypeOK, NEW t \in Task, Cancel(t) \/ Delete(t)
    PROVE  InsertsNoScan
<1>1. \A u \in Task : task[u] # "absent" => task'[u] # "absent"
  BY DEF Cancel, Delete, TypeOK
<1>2. \A a \in AttemptId :
         (attempt'[a].status = "absent") <=> (attempt[a].status = "absent")
  BY DEF Cancel, Delete, CancelActiveJobs, AbandonedAttempts, TypeOK, AttemptRow
<1>3. \A j \in Job : j.kind = "scan" /\ job[j].status = "absent" =>
          job'[j].status = "absent"
  BY DEF Cancel, Delete, CancelActiveJobs, JobsOf, WaitingJob, TypeOK
<1> QED
  BY <1>1, <1>2, <1>3 DEF InsertsNoScan

\* Post-scan requests and analyses insert no attempt and no scan job.
LEMMA OtherUserInserts ==
    ASSUME TypeOK, NEW j \in Job,
           RequestPostScan(j) \/ CreateRun(j) \/ CancelRun(j)
    PROVE  InsertsNoScan
<1>1. UNCHANGED <<task, attempt>>
  BY DEF RequestPostScan, CreateRun, CancelRun
<1>2. \A k \in Job : k.kind = "scan" /\ job[k].status = "absent" =>
          job'[k].status = "absent"
  BY DEF RequestPostScan, CreateRun, CancelRun, CancelsAtOnce,
         CancelsByRequest, HeldJob, PostScanKind, AnalysisKind,
         FencedAnalysisKind, TypeOK
<1> QED
  BY <1>1, <1>2 DEF InsertsNoScan

\* A claim inserts no attempt and no scan job.
LEMMA ClaimInserts ==
    ASSUME TypeOK, NEW w \in Worker, NEW j \in Job, Claim(w, j)
    PROVE  InsertsNoScan
<1>1. \A a \in AttemptId :
         (attempt'[a].status = "absent") <=> (attempt[a].status = "absent")
  BY DEF Claim, TypeOK, AttemptRow
<1>2. \A k \in Job : k.kind = "scan" /\ job[k].status = "absent" =>
          job'[k].status = "absent"
  BY DEF Claim, Claimable, TypeOK
<1> QED
  BY <1>1, <1>2 DEF InsertsNoScan, Claim

\* A worker inserts no attempt and no scan job; its Trivy jobs are not.
LEMMA WorkInserts ==
    ASSUME TypeOK, NEW w \in Worker, Work(w) \/ Lose(w)
    PROVE  InsertsNoScan
<1>1. CASE UNCHANGED <<task, attempt, job>>
  BY <1>1 DEF InsertsNoScan
<1>2. CASE Start(w)
  <2>1. worker[w].job \in Job
    BY <1>2 DEF Start, TypeOK
  <2>2. \A a \in AttemptId :
           (attempt'[a].status = "absent") <=> (attempt[a].status = "absent")
    BY <1>2, <2>1, JobsTyped
       DEF Start, StartAllowed, TypeOK, AttemptRow, ScanKind, PostScanKind,
           AnalysisKind, FencedAnalysisKind
  <2>3. \A k \in Job : k.kind = "scan" /\ job[k].status = "absent" =>
            job'[k].status = "absent"
    BY <1>2, <2>1 DEF Start, StartAllowed, Leases, TypeOK, JobRow
  <2>4. \A t \in Task : task[t] # "absent" => task'[t] # "absent"
    BY <1>2 DEF Start, TypeOK
  <2> QED
    BY <2>2, <2>3, <2>4 DEF InsertsNoScan
<1>3. CASE EnqueueTrivy(w)
  <2>1. \A k \in Job : k.kind = "scan" => job'[k] = job[k]
    BY <1>3 DEF EnqueueTrivy, TrivyJob, TypeOK
  <2> QED
    BY <1>3, <2>1 DEF EnqueueTrivy, InsertsNoScan
<1>4. CASE Report(w)
  BY <1>4 DEF Report, InsertsNoScan, TypeOK
<1>5. CASE FinishScan(w) \/ FinishTrivy(w) \/ FinishOther(w)
  <2> DEFINE j == worker[w].job
  <2>1. j \in Job /\ job[j].status = "running"
    BY <1>5 DEF FinishScan, FinishTrivy, FinishOther, FinishAllowed, Leases, TypeOK
  <2>2. \A t \in Task : task[t] # "absent" => task'[t] # "absent"
    BY <1>5 DEF FinishScan, FinishTrivy, FinishOther, FinishedTask, TypeOK
  <2>3. \A k \in Job : k.kind = "scan" /\ job[k].status = "absent" =>
            job'[k].status = "absent"
    BY <1>5, <2>1 DEF FinishScan, FinishTrivy, FinishOther, FinishLease, TypeOK
  <2>4. \A a \in AttemptId :
           (attempt'[a].status = "absent") <=> (attempt[a].status = "absent")
    <3>1. \/ attempt' = attempt
          \/ /\ attempt[AttemptOf(j)].status = "running"
             /\ \E status \in {"queued", "succeeded", "failed"} :
                   attempt' = [attempt EXCEPT ![AttemptOf(j)].status = status]
      BY SMTT(60), <1>5 DEF FinishScan, FinishTrivy, FinishOther, AttemptIsRunning,
                  FinishedJob
    <3> QED
      BY <3>1 DEF TypeOK, AttemptRow
  <2> QED
    BY <2>2, <2>3, <2>4 DEF InsertsNoScan
<1> QED
  BY <1>1, <1>2, <1>3, <1>4, <1>5
     DEF Work, Lose, HeartbeatLost, Crash, StartRefused, FinishRefused,
         PublishTree, PublishFindings, ReturnScan, ReturnPostScan, Begin,
         RetryRun, ReturnError, ReturnFault, PublishRun, EndRun,
         PublishPython, CommitPython, FailPublication, RetryPython, FailPython,
         SetRun, rows

\* Recovery inserts no attempt and no scan job.
LEMMA RecoverInserts ==
    ASSUME TypeOK, NEW j \in Job, Maintenance(j)
    PROVE  InsertsNoScan
<1>1. CASE ExpireLease(j)
  BY <1>1 DEF ExpireLease, InsertsNoScan, TypeOK, JobRow
<1>2. CASE Recover(j)
  <2>1. Recoverable(j) /\ \E status \in JobStatus : RecoverLease(j, status)
    BY <1>2, Statuses DEF Recover, RecoverScan, RecoverTrivy, RecoverPlain,
        Quarantine, RecoverTerminalAnalysis, RecoverAnalysis,
        RecoverCancelled, Expired, SettledByRun, TerminalRun, TerminalJob,
        ActiveJob
  <2>2. \A k \in Job : job[k].status = "absent" => job'[k].status = "absent"
    BY <2>1 DEF RecoverLease, Recoverable, HeldJob, TypeOK
  <2>3. \A t \in Task : task[t] # "absent" => task'[t] # "absent"
    BY <1>2 DEF Recover, RecoverScan, RecoverTrivy, RecoverPlain,
        Quarantine, RecoverTerminalAnalysis, RecoverAnalysis,
        RecoverCancelled, TypeOK
  <2>4. \A a \in AttemptId :
           (attempt'[a].status = "absent") <=> (attempt[a].status = "absent")
    <3>1. \/ attempt' = attempt
          \/ /\ attempt[AttemptOf(j)].status # "absent"
             /\ \E status \in {"queued", "failed", "cancelled"} :
                   attempt' = [attempt EXCEPT ![AttemptOf(j)].status = status]
      BY <1>2 DEF Recover, RecoverScan, RecoverTrivy, RecoverPlain,
        Quarantine, RecoverTerminalAnalysis, RecoverAnalysis,
        RecoverCancelled, ScanRecoverable, TrivyRecoverable,
        CancelRecoverable, AttemptIsActive, AttemptRuns
    <3> QED
      BY <3>1 DEF TypeOK, AttemptRow
  <2> QED
    BY <2>2, <2>3, <2>4 DEF InsertsNoScan
<1> QED
  BY <1>1, <1>2 DEF Maintenance

\* retryOnce numbers the attempt it inserts after the last one, so the row
\* is new, and with RowsInOrder its scan job is new as well.
LEMMA RetryInserts ==
    ASSUME TypeOK, NEW t \in Task, Retry(t)
    PROVE  \E last \in 1 .. MaxNumber, token \in Nat :
              /\ task[t] \in TerminalTask
              /\ last + 1 <= MaxNumber
              /\ attempt[<<t, last + 1>>].status = "absent"
              /\ ScanJob(t, last + 1) \in Job
              /\ attempt' = [attempt EXCEPT ![<<t, last + 1>>] =
                                [status |-> "queued", token |-> token]]
              /\ job' = [job EXCEPT ![ScanJob(t, last + 1)] = QueuedJob(token)]
              /\ task' = [task EXCEPT ![t] = "QUEUED"]
              /\ UNCHANGED <<slot, run, published, importer, worker>>
<1> PICK last \in 1 .. MaxNumber, top \in 1 .. MaxNumber :
       /\ task[t] \in {"FAILED", "CANCELLED", "PARTIAL_SUCCEEDED"}
       /\ LastNumber(t, last)
       /\ last + 1 <= MaxNumber
       /\ ScanJob(t, last + 1) \in Job
       /\ attempt' = [attempt EXCEPT ![<<t, last + 1>>] =
                         [status |-> "queued",
                          token |-> attempt[<<t, top>>].token + 1]]
       /\ job' = [job EXCEPT ![ScanJob(t, last + 1)] =
                     QueuedJob(attempt[<<t, top>>].token + 1)]
       /\ task' = [task EXCEPT ![t] = "QUEUED"]
       /\ UNCHANGED <<slot, run, published, importer, worker>>
  BY DEF Retry
<1>1. attempt[<<t, top>>].token + 1 \in Nat
  BY DEF TypeOK, AttemptId, AttemptRow
<1>2. attempt[<<t, last + 1>>].status = "absent"
  BY LimitsAreValid DEF LastNumber
<1> QED
  BY <1>1, <1>2 DEF TerminalTask

\* Every step inserts attempts after their task and scan jobs after their
\* attempt.
LEMMA RowsStayInOrder ==
    TypeOK /\ RowsInOrder /\ [Next]_vars => RowsInOrder'
<1> SUFFICES ASSUME TypeOK, RowsInOrder, [Next]_vars PROVE RowsInOrder'
  OBVIOUS
<1>1. CASE InsertsNoScan
  <2>1. \A a \in AttemptId : attempt'[a].status # "absent" => task'[a[1]] # "absent"
    BY <1>1 DEF InsertsNoScan, RowsInOrder, AttemptId
  <2>2. ASSUME NEW j \in Job, j.kind = "scan", job'[j].status # "absent"
        PROVE  attempt'[AttemptOf(j)].status # "absent"
    BY <1>1, <2>2, JobsTyped DEF InsertsNoScan, RowsInOrder, ScanKind
  <2> QED
    BY <2>1, <2>2 DEF RowsInOrder
<1>2. CASE \E t \in Task : CreateTask(t)
  <2> PICK t \in Task : CreateTask(t)
    BY <1>2
  <2>1. <<t, 1>> \in AttemptId
    BY LimitsAreValid DEF AttemptId
  <2>2. \A a \in AttemptId : attempt'[a].status # "absent" => task'[a[1]] # "absent"
    BY <2>1 DEF CreateTask, RowsInOrder, TypeOK, AttemptId
  <2>3. ASSUME NEW j \in Job, j.kind = "scan", job'[j].status # "absent"
        PROVE  attempt'[AttemptOf(j)].status # "absent"
    <3>1. CASE j = ScanJob(t, 1)
      BY <2>1, <3>1 DEF CreateTask, TypeOK, ScanJob, AttemptOf
    <3>2. CASE j # ScanJob(t, 1)
      BY <2>3, <3>2, JobsTyped
         DEF CreateTask, RowsInOrder, TypeOK, ScanKind
    <3> QED
      BY <3>1, <3>2
  <2> QED
    BY <2>2, <2>3 DEF RowsInOrder
<1>3. CASE \E t \in Task : Retry(t)
  <2> PICK t \in Task, last \in 1 .. MaxNumber, token \in Nat :
         /\ task[t] \in TerminalTask
         /\ last + 1 <= MaxNumber
         /\ attempt' = [attempt EXCEPT ![<<t, last + 1>>] =
                           [status |-> "queued", token |-> token]]
         /\ job' = [job EXCEPT ![ScanJob(t, last + 1)] = QueuedJob(token)]
         /\ task' = [task EXCEPT ![t] = "QUEUED"]
    BY <1>3, RetryInserts
  <2>1. <<t, last + 1>> \in AttemptId
    BY LimitsAreValid DEF AttemptId
  <2>2. \A a \in AttemptId : attempt'[a].status # "absent" => task'[a[1]] # "absent"
    BY <2>1 DEF RowsInOrder, TypeOK, AttemptId
  <2>3. ASSUME NEW j \in Job, j.kind = "scan", job'[j].status # "absent"
        PROVE  attempt'[AttemptOf(j)].status # "absent"
    <3>1. CASE j = ScanJob(t, last + 1)
      BY <2>1, <3>1 DEF TypeOK, ScanJob, AttemptOf
    <3>2. CASE j # ScanJob(t, last + 1)
      BY <2>3, <3>2, JobsTyped DEF RowsInOrder, TypeOK, ScanKind
    <3> QED
      BY <3>1, <3>2
  <2> QED
    BY <2>2, <2>3 DEF RowsInOrder
<1>4. CASE Import \/ UNCHANGED vars
  BY <1>1, <1>4 DEF Import, ImportClaim, ImportEnd, vars, InsertsNoScan
<1> QED
  BY <1>1, <1>2, <1>3, <1>4, CancelInserts, OtherUserInserts, ClaimInserts,
     WorkInserts, RecoverInserts DEF Next, User
-----------------------------------------------------------------------------
(***************************************************************************)
(* What a step does to leases and slots: it grants one lease (Claim), or   *)
(* it ends the leases of a set of jobs and keeps all others.               *)
(***************************************************************************)
KeepsLease(j) ==
    /\ (job'[j].status \in HeldJob) <=> (job[j].status \in HeldJob)
    /\ job[j].status \in HeldJob =>
           job'[j].token = job[j].token /\ job'[j].owner = job[j].owner

Releases(Leaving) ==
    /\ slot' = FreedSlots(Leaving)
    /\ \A j \in Job : IF j \in Leaving THEN job'[j].status \notin HeldJob
                      ELSE KeepsLease(j)

\* A step that leaves the slots alone frees those of no job.
LEMMA NoneFreed ==
    ASSUME TypeOK, UNCHANGED slot
    PROVE  slot' = FreedSlots({})
BY DEF TypeOK, FreedSlots

\* A step that leaves slots and leases alone releases nothing.
LEMMA KeepingReleases ==
    ASSUME TypeOK, UNCHANGED slot, \A j \in Job : KeepsLease(j)
    PROVE  Releases({})
BY NoneFreed DEF Releases

\* What users ask for ends leases with their slots, or none: in particular
\* cancelActiveJobs frees the slots of exactly the leases it ends.
LEMMA UserReleases ==
    ASSUME TypeOK, RowsInOrder, User
    PROVE  \E Leaving \in SUBSET Job : Releases(Leaving)
<1>1. CASE \E t \in Task : CreateTask(t)
  <2> PICK t \in Task : CreateTask(t)
    BY <1>1
  <2>1. ScanJob(t, 1) \in Job /\ <<t, 1>> \in AttemptId
    BY JobsAreRecords, LimitsAreValid DEF ScanJob, AttemptId
  <2>2. job[ScanJob(t, 1)].status = "absent"
    BY <2>1 DEF CreateTask, RowsInOrder, ScanJob, AttemptOf
  <2>3. \A j \in Job : KeepsLease(j)
    BY <2>1, <2>2 DEF CreateTask, KeepsLease, QueuedJob, AbsentJob, HeldJob, TypeOK
  <2> QED
    BY <2>3, KeepingReleases DEF CreateTask
<1>2. CASE \E t \in Task : Retry(t)
  <2> PICK t \in Task, last \in 1 .. MaxNumber, token \in Nat :
         /\ last + 1 <= MaxNumber
         /\ attempt[<<t, last + 1>>].status = "absent"
         /\ ScanJob(t, last + 1) \in Job
         /\ job' = [job EXCEPT ![ScanJob(t, last + 1)] = QueuedJob(token)]
         /\ UNCHANGED slot
    BY <1>2, RetryInserts
  <2>1. job[ScanJob(t, last + 1)].status = "absent"
    BY DEF RowsInOrder, ScanJob, AttemptOf
  <2>2. \A j \in Job : KeepsLease(j)
    BY <2>1 DEF KeepsLease, QueuedJob, AbsentJob, HeldJob, TypeOK
  <2> QED
    BY <2>2, KeepingReleases
<1>3. CASE \E t \in Task : Cancel(t) \/ Delete(t)
  <2> PICK t \in Task : CancelActiveJobs(t)
    BY <1>3 DEF Cancel, Delete
  <2>1. Releases(JobsOf(t, WaitingJob))
    BY DEF Releases, CancelActiveJobs, KeepsLease, JobsOf, WaitingJob,
           HeldJob, Settled, TypeOK, JobRow
  <2> QED
    BY <2>1 DEF JobsOf
<1>4. CASE \E j \in Job : RequestPostScan(j) \/ CreateRun(j)
  <2> PICK k \in Job : RequestPostScan(k) \/ CreateRun(k)
    BY <1>4
  <2>1. /\ job[k].status = "absent" /\ UNCHANGED slot
        /\ job' = [job EXCEPT ![k] = QueuedJob(0)]
    BY DEF RequestPostScan, CreateRun
  <2>2. \A j \in Job : KeepsLease(j)
    BY <2>1 DEF KeepsLease, QueuedJob, AbsentJob, HeldJob, TypeOK
  <2> QED
    BY <2>1, <2>2, KeepingReleases
<1>5. CASE \E j \in Job : CancelRun(j)
  <2> PICK k \in Job : CancelRun(k)
    BY <1>5
  <2>1. /\ UNCHANGED slot
        /\ \/ /\ job[k].status = "queued"
              /\ job' = [job EXCEPT ![k] = Settled(k, "cancelled")]
           \/ /\ job[k].status \in HeldJob
              /\ job' = [job EXCEPT ![k].status = "cancel_requested"]
    BY DEF CancelRun, CancelsAtOnce, CancelsByRequest
  <2>2. \A j \in Job : KeepsLease(j)
    <3> TAKE j \in Job
    <3>1. CASE j # k
      BY <2>1, <3>1 DEF KeepsLease, TypeOK
    <3>2. CASE j = k /\ job[k].status = "queued"
      <4>1. job'[k] = Settled(k, "cancelled")
        BY <2>1, <3>2 DEF HeldJob, TypeOK
      <4>2. job'[k].status = "cancelled"
        BY <4>1 DEF Settled, TypeOK, JobRow
      <4> QED
        BY <3>2, <4>2 DEF KeepsLease, HeldJob
    <3>3. CASE j = k /\ job[k].status # "queued"
      BY <2>1, <3>3 DEF KeepsLease, HeldJob, TypeOK, JobRow
    <3> QED
      BY <3>1, <3>2, <3>3
  <2> QED
    BY <2>1, <2>2, KeepingReleases
<1> QED
  BY <1>1, <1>2, <1>3, <1>4, <1>5 DEF User

\* A worker gives its own lease back with its slots, or none.
LEMMA WorkReleases ==
    ASSUME TypeOK, NEW w \in Worker, Work(w) \/ Lose(w)
    PROVE  \E Leaving \in SUBSET Job : Releases(Leaving)
<1>1. CASE UNCHANGED <<job, slot>>
  BY <1>1, KeepingReleases DEF KeepsLease
<1>2. CASE Start(w)
  <2>1. \A j \in Job : KeepsLease(j)
    BY <1>2 DEF Start, StartAllowed, Leases, KeepsLease, HeldJob, TypeOK, JobRow
  <2> QED
    BY <1>2, <2>1, KeepingReleases DEF Start
<1>3. CASE EnqueueTrivy(w)
  <2>1. \A j \in Job : KeepsLease(j)
    BY <1>3 DEF EnqueueTrivy, KeepsLease, QueuedJob, AbsentJob, HeldJob, TypeOK
  <2> QED
    BY <1>3, <2>1, KeepingReleases DEF EnqueueTrivy
<1>4. CASE FinishScan(w) \/ FinishTrivy(w) \/ FinishOther(w)
  <2>1. /\ worker[w].job \in Job
        /\ \E status \in {"queued", "succeeded", "failed"} : FinishLease(w, status)
    BY <1>4 DEF FinishScan, FinishTrivy, FinishOther, FinishedJob, TypeOK
  <2>2. Releases({worker[w].job})
    BY <2>1 DEF FinishLease, Releases, KeepsLease, Settled, HeldJob, TypeOK, JobRow
  <2> QED
    BY <2>1, <2>2
<1> QED
  BY <1>1, <1>2, <1>3, <1>4
     DEF Work, Lose, HeartbeatLost, Crash, StartRefused, FinishRefused,
         PublishTree, PublishFindings, ReturnScan, ReturnPostScan, Begin,
         RetryRun, ReturnError, ReturnFault, PublishRun, EndRun, Report,
         PublishPython, CommitPython, FailPublication, RetryPython, FailPython,
         SetRun, rows

\* Recovery, quarantine included, gives the expired lease back with its slots.
LEMMA RecoverReleases ==
    ASSUME TypeOK, NEW j \in Job, Maintenance(j)
    PROVE  \E Leaving \in SUBSET Job : Releases(Leaving)
<1>1. CASE ExpireLease(j)
  <2>1. \A k \in Job : KeepsLease(k)
    BY <1>1 DEF ExpireLease, KeepsLease, TypeOK, JobRow
  <2> QED
    BY <1>1, <2>1, KeepingReleases DEF ExpireLease
<1>2. CASE Recover(j)
  <2>1. \E status \in {"queued", "succeeded", "failed", "cancelled"} :
           RecoverLease(j, status)
    BY <1>2 DEF Recover, RecoverScan, RecoverTrivy, RecoverPlain,
        Quarantine, RecoverTerminalAnalysis, RecoverAnalysis,
        RecoverCancelled, SettledByRun, TerminalRun
  <2>2. Releases({j})
    BY <2>1 DEF RecoverLease, Releases, KeepsLease, Settled, HeldJob, TypeOK, JobRow
  <2> QED
    BY <2>2
<1> QED
  BY <1>1, <1>2 DEF Maintenance

\* Every step grants a lease or releases some.
LEMMA GrantsOrReleases ==
    ASSUME TypeOK, RowsInOrder, [Next]_vars
    PROVE  \/ \E w \in Worker, j \in Job : Claim(w, j)
           \/ \E Leaving \in SUBSET Job : Releases(Leaving)
<1>1. CASE Import \/ UNCHANGED vars
  BY <1>1, KeepingReleases
     DEF Import, ImportClaim, ImportEnd, vars, KeepsLease
<1> QED
  BY <1>1, UserReleases, WorkReleases, RecoverReleases DEF Next
-----------------------------------------------------------------------------
(***************************************************************************)
(* Acquiring slots                                                         *)
(***************************************************************************)
\* The limit of a job in a pool is at least one slot and at most the pool.
LEMMA LimitTyped ==
    ASSUME NEW kind \in Kind, NEW pool \in Pool
    PROVE  /\ SlotLimit(kind, pool) \in 1 .. HeavySlots
           /\ HeavySlots \in 1 .. 4
BY LimitsAreValid DEF SlotLimit, Pool

\* acquireResourceSlot picks a free slot when there is one.
LEMMA LowestIsFree ==
    ASSUME NEW kind \in Kind, NEW pool \in Pool, FreeSlots(kind, pool) # {}
    PROVE  LowestFree(kind, pool) \in FreeSlots(kind, pool)
<1> DEFINE free == FreeSlots(kind, pool)
<1>1. free \subseteq 1 .. 4 /\ free # {}
  BY LimitTyped DEF FreeSlots
<1>2. \E i \in free : \A k \in free : i <= k
  <2> HIDE DEF free
  <2>1. CASE 1 \in free
    BY <1>1, <2>1
  <2>2. CASE 1 \notin free /\ 2 \in free
    BY <1>1, <2>2
  <2>3. CASE 1 \notin free /\ 2 \notin free /\ 3 \in free
    BY <1>1, <2>3
  <2>4. CASE 1 \notin free /\ 2 \notin free /\ 3 \notin free
    <3>1. \A k \in free : k = 4
      BY <1>1, <2>4
    <3>2. PICK i \in free : TRUE
      BY <1>1
    <3>3. \A k \in free : i <= k
      BY <3>1, <3>2
    <3> QED
      BY <3>3
  <2> QED
    BY <2>1, <2>2, <2>3, <2>4
<1> QED
  BY <1>2 DEF LowestFree

\* A claim takes a free slot of each of its pools.
LEMMA ClaimTakesFreeSlots ==
    ASSUME TypeOK, NEW w \in Worker, NEW j \in Job, Claim(w, j),
           NEW p \in PoolsOf(j.kind)
    PROVE  LowestFree(j.kind, p) \in FreeSlots(j.kind, p)
<1>1. j.kind \in Kind /\ p \in Pool
  BY JobsTyped DEF PoolsOf, Pool
<1> QED
  BY <1>1, LowestIsFree DEF Claim

\* After Claim the new lease has one slot in each of its pools, and no other
\* slot has changed.
LEMMA ClaimSlots ==
    ASSUME TypeOK, NEW w \in Worker, NEW j \in Job, Claim(w, j),
           NEW p \in Pool, NEW i \in 1 .. HeavySlots
    PROVE  \/ /\ p \in PoolsOf(j.kind) /\ i = LowestFree(j.kind, p)
              /\ slot[<<p, i>>] = NoHold
              /\ slot'[<<p, i>>] = Hold(j, job[j].token + 1, w)
           \/ /\ ~(p \in PoolsOf(j.kind) /\ i = LowestFree(j.kind, p))
              /\ slot'[<<p, i>>] = slot[<<p, i>>]
<1>1. <<p, i>> \in SlotId
  BY DEF SlotId
<1>2. CASE p \in PoolsOf(j.kind) /\ i = LowestFree(j.kind, p)
  <2>1. slot'[<<p, i>>] = Hold(j, job[j].token + 1, w)
    BY <1>1, <1>2 DEF Claim, AcquiredSlots
  <2>2. slot[<<p, i>>] = NoHold
    BY <1>2, ClaimTakesFreeSlots DEF FreeSlots
  <2> QED
    BY <1>2, <2>1, <2>2
<1>3. CASE ~(p \in PoolsOf(j.kind) /\ i = LowestFree(j.kind, p))
  BY <1>1, <1>3 DEF Claim, AcquiredSlots
<1> QED
  BY <1>2, <1>3

\* A claim leases a queued job under the next fence, and touches no other.
LEMMA ClaimJobs ==
    ASSUME TypeOK, NEW w \in Worker, NEW j \in Job, Claim(w, j)
    PROVE  /\ job[j].status = "queued" /\ job'[j].status = "leased"
           /\ job'[j].token = job[j].token + 1 /\ job'[j].owner = w
           /\ \A k \in Job \ {j} : job'[k] = job[k]
BY DEF Claim, Claimable, TypeOK
-----------------------------------------------------------------------------
(***************************************************************************)
(* A taken slot belongs to the current lease of its job.                   *)
(***************************************************************************)
\* Every step keeps taken slots with the current lease of their job.
LEMMA SlotsStayFenced ==
    TypeOK /\ RowsInOrder /\ SlotsFenced /\ [Next]_vars => SlotsFenced'
<1> SUFFICES ASSUME TypeOK, RowsInOrder, SlotsFenced, [Next]_vars,
                    NEW s \in SlotId, slot'[s].job # NoJob
             PROVE  /\ job'[slot'[s].job].status \in HeldJob
                    /\ job'[slot'[s].job].token = slot'[s].token
                    /\ job'[slot'[s].job].owner = slot'[s].owner
  BY DEF SlotsFenced
<1>1. ASSUME NEW w \in Worker, NEW j \in Job, Claim(w, j)
      PROVE  /\ job'[slot'[s].job].status \in HeldJob
             /\ job'[slot'[s].job].token = slot'[s].token
             /\ job'[slot'[s].job].owner = slot'[s].owner
  <2> PICK p \in Pool, i \in 1 .. HeavySlots : s = <<p, i>>
    BY DEF SlotId
  <2>1. CASE slot'[s] = Hold(j, job[j].token + 1, w)
    BY <1>1, <2>1, ClaimJobs DEF Hold, HeldJob
  <2>2. CASE slot'[s] = slot[s]
    <3>1. /\ slot[s].job \in Job
          /\ job[slot[s].job].status \in HeldJob
          /\ job[slot[s].job].token = slot[s].token
          /\ job[slot[s].job].owner = slot[s].owner
      BY <2>2 DEF SlotsFenced, TypeOK, SlotRow
    <3>2. job'[slot[s].job] = job[slot[s].job]
      BY <1>1, <3>1, ClaimJobs DEF HeldJob
    <3> QED
      BY <2>2, <3>1, <3>2
  <2> QED
    BY <1>1, <2>1, <2>2, ClaimSlots
<1>2. ASSUME NEW Leaving \in SUBSET Job, Releases(Leaving)
      PROVE  /\ job'[slot'[s].job].status \in HeldJob
             /\ job'[slot'[s].job].token = slot'[s].token
             /\ job'[slot'[s].job].owner = slot'[s].owner
  <2>1. /\ slot'[s] = slot[s]
        /\ ~(slot[s].job \in Leaving /\ slot[s].token = job[slot[s].job].token)
    BY <1>2 DEF Releases, FreedSlots, NoHold
  <2>2. /\ slot[s].job \in Job
        /\ job[slot[s].job].status \in HeldJob
        /\ job[slot[s].job].token = slot[s].token
        /\ job[slot[s].job].owner = slot[s].owner
    BY <2>1 DEF SlotsFenced, TypeOK, SlotRow
  <2> QED
    BY <1>2, <2>1, <2>2 DEF Releases, KeepsLease
<1> QED
  BY <1>1, <1>2, GrantsOrReleases

\* The inductive invariant: the two slot properties and what they rest on.
SlotInv == TypeOK /\ RowsInOrder /\ SlotsFenced /\ LeasesHoldSlots

\* All slots of the migrated database are free and no job is leased.
LEMMA SlotInit == Init => SlotInv
<1> SUFFICES ASSUME Init PROVE SlotInv
  OBVIOUS
<1>1. TypeOK
  BY InitTyped
<1>2. RowsInOrder
  BY JobsTyped DEF Init, RowsInOrder, AbsentJob
<1>3. SlotsFenced
  BY DEF Init, SlotsFenced, NoHold
<1>4. LeasesHoldSlots
  BY DEF Init, LeasesHoldSlots, AbsentJob, HeldJob
<1> QED
  BY <1>1, <1>2, <1>3, <1>4 DEF SlotInv

\* The slots a job holds are the same before and after, or those it claimed.
LEMMA SlotsStayHeld == SlotInv /\ [Next]_vars => LeasesHoldSlots'
<1> SUFFICES ASSUME SlotInv, [Next]_vars,
                    NEW j \in Job, job'[j].status \in HeldJob, NEW p \in Pool
             PROVE  IF p \in PoolsOf(j.kind)
                    THEN \E i \in 1 .. SlotLimit(j.kind, p) :
                            {k \in 1 .. HeavySlots : slot'[<<p, k>>].job = j} = {i}
                    ELSE {k \in 1 .. HeavySlots : slot'[<<p, k>>].job = j} = {}
  BY DEF LeasesHoldSlots
<1> USE DEF SlotInv
<1> DEFINE before == {k \in 1 .. HeavySlots : slot[<<p, k>>].job = j}
           after  == {k \in 1 .. HeavySlots : slot'[<<p, k>>].job = j}
<1>1. ASSUME job[j].status \in HeldJob, after = before
      PROVE  IF p \in PoolsOf(j.kind)
             THEN \E i \in 1 .. SlotLimit(j.kind, p) : after = {i}
             ELSE after = {}
  BY <1>1 DEF LeasesHoldSlots
<1>2. ASSUME NEW w \in Worker, NEW k \in Job, Claim(w, k)
      PROVE  IF p \in PoolsOf(j.kind)
             THEN \E i \in 1 .. SlotLimit(j.kind, p) : after = {i}
             ELSE after = {}
  <2>1. CASE j # k
    <3>1. job[j].status \in HeldJob
      BY <1>2, <2>1, ClaimJobs
    <3>2. ASSUME NEW i \in 1 .. HeavySlots
          PROVE  (slot'[<<p, i>>].job = j) <=> (slot[<<p, i>>].job = j)
      <4>1. \/ /\ slot[<<p, i>>] = NoHold
               /\ slot'[<<p, i>>] = Hold(k, job[k].token + 1, w)
            \/ slot'[<<p, i>>] = slot[<<p, i>>]
        BY <1>2, ClaimSlots
      <4> QED
        BY <2>1, <4>1, NullsAreNotRows DEF Hold, NoHold
    <3> QED
      BY <1>1, <3>1, <3>2
  <2>2. CASE j = k
    <3>1. ASSUME NEW i \in 1 .. HeavySlots
          PROVE  /\ slot[<<p, i>>].job # j
                 /\ slot'[<<p, i>>].job = j <=>
                       p \in PoolsOf(j.kind) /\ i = LowestFree(j.kind, p)
      <4>1. slot[<<p, i>>].job # j
        BY <1>2, <2>2, ClaimJobs, NullsAreNotRows
           DEF SlotsFenced, SlotId, HeldJob
      <4>2. \/ /\ p \in PoolsOf(j.kind) /\ i = LowestFree(j.kind, p)
               /\ slot'[<<p, i>>] = Hold(j, job[j].token + 1, w)
            \/ /\ ~(p \in PoolsOf(j.kind) /\ i = LowestFree(j.kind, p))
               /\ slot'[<<p, i>>] = slot[<<p, i>>]
        BY <1>2, <2>2, ClaimSlots
      <4> QED
        BY <4>1, <4>2 DEF Hold
    <3>2. CASE p \in PoolsOf(j.kind)
      <4>1. LowestFree(j.kind, p) \in 1 .. SlotLimit(j.kind, p)
        BY <1>2, <2>2, <3>2, ClaimTakesFreeSlots DEF FreeSlots
      <4>2. SlotLimit(j.kind, p) \in 1 .. HeavySlots /\ HeavySlots \in 1 .. 4
        BY JobsTyped, LimitTyped
      <4>3. after = {LowestFree(j.kind, p)}
        BY <3>1, <3>2, <4>1, <4>2
      <4> QED
        BY <3>2, <4>1, <4>3
    <3>3. CASE p \notin PoolsOf(j.kind)
      BY <3>1, <3>3
    <3> QED
      BY <3>2, <3>3
  <2> QED
    BY <2>1, <2>2
<1>3. ASSUME NEW Leaving \in SUBSET Job, Releases(Leaving)
      PROVE  IF p \in PoolsOf(j.kind)
             THEN \E i \in 1 .. SlotLimit(j.kind, p) : after = {i}
             ELSE after = {}
  <2>1. j \notin Leaving /\ job[j].status \in HeldJob
    BY <1>3 DEF Releases, KeepsLease
  <2>2. ASSUME NEW i \in 1 .. HeavySlots
        PROVE  (slot'[<<p, i>>].job = j) <=> (slot[<<p, i>>].job = j)
    BY <1>3, <2>1, NullsAreNotRows DEF Releases, FreedSlots, SlotId, NoHold
  <2> QED
    BY <1>1, <2>1, <2>2
<1> QED
  BY <1>2, <1>3, GrantsOrReleases

\* The inductive invariant behind the theorems of this module.
LEMMA SlotInvariant == Spec => []SlotInv
<1>1. SlotInv /\ [Next]_vars => SlotInv'
  BY NextTyped, RowsStayInOrder, SlotsStayFenced, SlotsStayHeld DEF SlotInv
<1> QED
  BY SlotInit, <1>1, PTL DEF Spec

\* No path that ends, requeues or replaces a lease leaves a slot behind.
THEOREM SlotsNeverLeak == Spec => []SlotsFenced
<1>1. SlotInv => SlotsFenced
  BY DEF SlotInv
<1> QED
  BY <1>1, SlotInvariant, PTL

\* Every lease holds one slot of each of its pools and none elsewhere.
THEOREM LeasesKeepSlots == Spec => []LeasesHoldSlots
<1>1. SlotInv => LeasesHoldSlots
  BY DEF SlotInv
<1> QED
  BY <1>1, SlotInvariant, PTL
-----------------------------------------------------------------------------
\* At most one analysis is leased, however many global slots there are: the
\* claim of an analysis only takes the first one.
THEOREM AnalysesExclude == Spec => []OneAnalysis
<1>1. SlotInv => OneAnalysis
  <2> SUFFICES ASSUME SlotInv, NEW j \in Job, NEW k \in Job,
                      {j.kind, k.kind} \subseteq AnalysisKind,
                      {job[j].status, job[k].status} \subseteq HeldJob
               PROVE  j = k
    BY DEF OneAnalysis
  <2> DEFINE held(l) == {i \in 1 .. HeavySlots : slot[<<"global", i>>].job = l}
  <2>1. ASSUME NEW l \in {j, k}
        PROVE  1 \in held(l)
    <3>1. "global" \in PoolsOf(l.kind) /\ SlotLimit(l.kind, "global") = 1
      BY DEF PoolsOf, SlotLimit
    <3>2. \E i \in 1 .. SlotLimit(l.kind, "global") : held(l) = {i}
      BY <3>1 DEF SlotInv, LeasesHoldSlots, Pool
    <3> QED
      BY <3>1, <3>2
  <2> QED
    BY <2>1
<1> QED
  BY <1>1, SlotInvariant, PTL

\* Nothing but the archive import queue starts or ends an import.
LEMMA OnlyImports ==
    ASSUME [Next]_vars, ~Import
    PROVE  importer' = importer
<1>1. CASE User
  BY <1>1 DEF User, CreateTask, Retry, Cancel, Delete, RequestPostScan,
      CreateRun, CancelRun
<1>2. ASSUME NEW w \in Worker, Work(w) \/ Lose(w)
      PROVE  importer' = importer
  <2>1. CASE FinishScan(w) \/ FinishTrivy(w) \/ FinishOther(w)
    <3>1. \E status : FinishLease(w, status)
      BY <2>1 DEF FinishScan, FinishTrivy, FinishOther
    <3> QED
      BY <3>1 DEF FinishLease
  <2>2. CASE \/ \E outcome \in Outcome :
                   PublishFindings(w, outcome) \/ ReturnScan(w, outcome)
                     \/ ReturnPostScan(w, outcome)
             \/ \E status \in TerminalRun : PublishRun(w, status)
                  \/ EndRun(w, status) \/ PublishPython(w, status)
    BY <2>2 DEF PublishFindings, ReturnScan, ReturnPostScan, PublishRun,
        EndRun, PublishPython, CommitPython, SetRun, rows
  <2> QED
    BY <1>2, <2>1, <2>2
       DEF Work, Lose, HeartbeatLost, Crash, Start, StartRefused,
           FinishRefused, PublishTree, EnqueueTrivy, Report, Begin, RetryRun,
           ReturnError, ReturnFault, CommitPython, FailPublication, RetryPython,
           FailPython, SetRun, rows
<1>3. CASE \E j \in Job : Maintenance(j)
  BY <1>3 DEF Maintenance, ExpireLease, Recover, RecoverScan, RecoverTrivy,
      RecoverPlain, Quarantine, RecoverTerminalAnalysis, RecoverAnalysis,
      RecoverCancelled, RecoverLease
<1>4. CASE UNCHANGED vars
  BY <1>4 DEF vars
<1> QED
  BY <1>1, <1>2, <1>3, <1>4 DEF Next, Claim

\* No job is leased while an archive import runs, and no import starts while
\* a job is: each claim sees what the other has taken.
THEOREM ImportsExclude == Spec => []ImportExclusion
<1>1. Init => ImportExclusion
  BY DEF Init, ImportExclusion
<1>2. SlotInv /\ ImportExclusion /\ [Next]_vars => ImportExclusion'
  <2> SUFFICES ASSUME SlotInv, ImportExclusion, [Next]_vars,
                      importer' = "running", NEW i \in 1 .. HeavySlots
               PROVE  slot'[<<"global", i>>] = NoHold
    BY DEF ImportExclusion
  <2>1. CASE Import
    BY <2>1 DEF Import, ImportClaim, ImportEnd
  <2>2. CASE ~Import
    <3>1. importer = "running" /\ slot[<<"global", i>>] = NoHold
      BY <2>2, OnlyImports DEF ImportExclusion
    <3>2. ASSUME NEW w \in Worker, NEW j \in Job, Claim(w, j)
          PROVE  FALSE
      BY <3>1, <3>2 DEF Claim
    <3>3. ASSUME NEW Leaving \in SUBSET Job, Releases(Leaving)
          PROVE  slot'[<<"global", i>>] = NoHold
      BY <3>1, <3>3 DEF Releases, FreedSlots, SlotId, Pool
    <3> QED
      BY <3>2, <3>3, GrantsOrReleases DEF SlotInv
  <2> QED
    BY <2>1, <2>2
<1> QED
  BY <1>1, <1>2, SlotInvariant, PTL DEF Spec

\* A lease that ran out still has its slots, one of each pool.
LEMMA SlotsAreRecoverable ==
    ASSUME SlotInv, NEW j \in Job, Recoverable(j)
    PROVE  SlotsRecoverable(j)
<1>1. job[j].status \in HeldJob
  BY DEF Recoverable
<1>2. ASSUME NEW p \in PoolsOf(j.kind)
      PROVE  \E i \in 1 .. HeavySlots :
                /\ slot[<<p, i>>].job = j
                /\ slot[<<p, i>>].token = job[j].token
                /\ \A k \in (1 .. HeavySlots) \ {i} :
                      ~(/\ slot[<<p, k>>].job = j
                        /\ slot[<<p, k>>].token = job[j].token)
  <2>1. p \in Pool
    BY DEF PoolsOf, Pool
  <2>2. PICK i : {k \in 1 .. HeavySlots : slot[<<p, k>>].job = j} = {i}
    BY <1>1, <2>1 DEF SlotInv, LeasesHoldSlots
  <2>3. i \in 1 .. HeavySlots /\ slot[<<p, i>>].job = j
    BY <2>2
  <2>4. slot[<<p, i>>].token = job[j].token
    BY <2>1, <2>3, NullsAreNotRows DEF SlotInv, SlotsFenced, SlotId
  <2> QED
    BY <2>2, <2>3, <2>4
<1> QED
  BY <1>2 DEF SlotsRecoverable

\* Recovery always finds exactly one slot of each pool to release: no lease
\* is ever quarantined for its slots.
THEOREM RecoveryFindsSlots ==
    Spec => [](\A j \in Job : Recoverable(j) => SlotsRecoverable(j))
<1>1. SlotInv => \A j \in Job : Recoverable(j) => SlotsRecoverable(j)
  BY SlotsAreRecoverable
<1> QED
  BY <1>1, SlotInvariant, PTL
=============================================================================
