------------------------------ MODULE JobQueue ------------------------------
(***************************************************************************)
(* internal/queue: the transactions that claim, start, finish and recover  *)
(* jobs, with the slots of the resource pools.  A refused transaction      *)
(* rolls back, and the runner drops the lease, so a refusal only changes   *)
(* the worker's memory.                                                    *)
(***************************************************************************)
EXTENDS JobStore

\* claimCandidateSQL: the eligibility of a queued job, kind by kind.
Claimable(j) ==
    /\ job[j].status = "queued"
    /\ job[j].attempt < MaxAttempts
    /\ \/ j.kind = "scan" /\ task[j.task] = "QUEUED"
       \/ /\ j.kind = "trivy"
          /\ task[j.task] = "SCANNING"
          /\ attempt[AttemptOf(j)] =
                [status |-> "running", token |-> job[j].token]
       \/ j.kind \in PostScanKind /\ task[j.task] \in TerminalTask
       \/ /\ j.kind \in AnalysisKind
          /\ task[j.task] \in TerminalTask
          /\ run[j] = "queued"

\* The check of the attempt row after the candidate was leased; when it
\* fails the claim reports ErrInconsistentState and the worker exits.
ClaimConsistent(j) ==
    j.kind = "scan" =>
        attempt[AttemptOf(j)] = [status |-> "queued", token |-> job[j].token]

\* acquireResourceSlot: the free slots of the pool within the job's limit.
FreeSlots(kind, pool) ==
    {i \in 1 .. SlotLimit(kind, pool) : slot[<<pool, i>>] = NoHold}

LowestFree(kind, pool) ==
    CHOOSE i \in FreeSlots(kind, pool) :
        \A k \in FreeSlots(kind, pool) : i <= k

AcquiredSlots(j, hold) ==
    [s \in SlotId |->
        IF s[1] \in PoolsOf(j.kind) /\ s[2] = LowestFree(j.kind, s[1])
        THEN hold ELSE slot[s]]

Claim(w, j) ==
    LET token == job[j].token + 1 IN
    /\ worker[w].pc = "idle"
    /\ Claimable(j)
    /\ ClaimConsistent(j)
    /\ importer = "idle"
    /\ \A p \in PoolsOf(j.kind) : FreeSlots(j.kind, p) # {}
    /\ job' = [job EXCEPT ![j] =
                  [status |-> "leased", attempt |-> job[j].attempt + 1,
                   token |-> token, owner |-> w, live |-> TRUE]]
    /\ attempt' = IF j.kind \in ScanKind
                  THEN [attempt EXCEPT ![AttemptOf(j)].token = token]
                  ELSE attempt
    /\ slot' = AcquiredSlots(j, Hold(j, token, w))
    /\ worker' = [worker EXCEPT ![w] =
                     [pc |-> "claimed", job |-> j,
                      token |-> token, outcome |-> "none"]]
    /\ UNCHANGED <<task, run, published, importer>>
-----------------------------------------------------------------------------
\* Start: what each kind still requires of the task, attempt and run rows.
StartAllowed(w) ==
    LET j == worker[w].job IN
    /\ Leases(w, {"leased"})
    /\ SlotsValid(w)
    /\ \/ /\ j.kind = "scan"
          /\ attempt[AttemptOf(j)] =
                [status |-> "queued", token |-> worker[w].token]
          /\ task[j.task] = "QUEUED"
       \/ /\ j.kind = "trivy"
          /\ attempt[AttemptOf(j)] =
                [status |-> "running", token |-> worker[w].token]
          /\ task[j.task] = "SCANNING"
       \/ j.kind \in PostScanKind /\ task[j.task] \in TerminalTask
       \/ /\ j.kind \in AnalysisKind
          /\ task[j.task] \in TerminalTask
          /\ run[j] = "queued"

Start(w) ==
    LET j == worker[w].job IN
    /\ worker[w].pc = "claimed"
    /\ StartAllowed(w)
    /\ job' = [job EXCEPT ![j].status = "running"]
    /\ attempt' = IF j.kind = "scan"
                  THEN [attempt EXCEPT ![AttemptOf(j)].status = "running"]
                  ELSE attempt
    /\ task' = IF j.kind = "scan"
               THEN [task EXCEPT ![j.task] = "VALIDATING"] ELSE task
    /\ StepTo(w, "running")
    /\ UNCHANGED <<slot, run, published, importer>>

\* ErrLeaseLost makes the runner poll again, any other refusal makes the
\* process exit; a restarted process is an idle one.
StartRefused(w) ==
    /\ worker[w].pc = "claimed"
    /\ ~StartAllowed(w)
    /\ worker' = [worker EXCEPT ![w] = Idle]
    /\ UNCHANGED rows

\* A failed heartbeat cancels the processor and the result is dropped.
HeartbeatLost(w) ==
    /\ worker[w].pc # "idle"
    /\ ~(Leases(w, {"leased", "running"}) /\ SlotsValid(w))
    /\ worker' = [worker EXCEPT ![w] = Idle]
    /\ UNCHANGED rows

\* The process dies; the supervisor starts another one with a new owner.
Crash(w) ==
    /\ worker[w].pc # "idle"
    /\ worker' = [worker EXCEPT ![w] = Idle]
    /\ UNCHANGED rows

\* The lease runs out: no heartbeat was committed in time.
ExpireLease(j) ==
    /\ job[j].live
    /\ job' = [job EXCEPT ![j].live = FALSE]
    /\ UNCHANGED <<task, attempt, slot, run, published, importer, worker>>
-----------------------------------------------------------------------------
Requeues(j, outcome) ==
    outcome = "transient_failure" /\ job[j].attempt < MaxAttempts

\* Mutant of FinishedJob: the outcome is stored as the status.
FinishedJobIsOutcome(outcome) == outcome

FinishedJob(outcome) == IF outcome \in Success THEN "succeeded" ELSE "failed"

FinishedTask(outcome) ==
    CASE outcome = "succeeded"         -> "SUCCEEDED"
      [] outcome = "partial_succeeded" -> "PARTIAL_SUCCEEDED"
      [] OTHER                         -> "FAILED"

\* The part of Finish that every kind shares: the fenced write of the job
\* row and the release of the lease's slots.
FinishAllowed(w) == Leases(w, {"running"}) /\ SlotsValid(w)

FinishLease(w, status) ==
    LET j == worker[w].job IN
    /\ job' = [job EXCEPT ![j] = Settled(j, status)]
    /\ slot' = FreedSlots({j})
    /\ worker' = [worker EXCEPT ![w] = Idle]
    /\ UNCHANGED <<run, published, importer>>

\* finishScanTask and finishTrivyTask require the running attempt of the
\* lease, and an unfinished task.
AttemptIsRunning(w) ==
    attempt[AttemptOf(worker[w].job)] =
        [status |-> "running", token |-> worker[w].token]

HandsOff(j, outcome) ==
    /\ outcome \in Success
    /\ TrivyJob(j.task, j.n) \in Job
    /\ job[TrivyJob(j.task, j.n)].status = "queued"

\* The statuses a task may have when the scan job is finished this way.
ScanFinishFrom(w) ==
    LET j == worker[w].job IN
    IF HandsOff(j, worker[w].outcome)
    THEN TaskStatus \ (TerminalTask \cup {"CANCEL_REQUESTED", "DELETING"})
    ELSE TaskStatus \ TerminalTask

FinishScan(w) ==
    LET j == worker[w].job
        a == AttemptOf(j)
        outcome == worker[w].outcome
    IN
    /\ worker[w].pc = "done" /\ j.kind = "scan"
    /\ FinishAllowed(w)
    /\ AttemptIsRunning(w)
    /\ task[j.task] \in ScanFinishFrom(w)
    /\ \/ /\ Requeues(j, outcome)
          /\ FinishLease(w, "queued")
          /\ attempt' = [attempt EXCEPT ![a].status = "queued"]
          /\ task' = [task EXCEPT ![j.task] = "QUEUED"]
       \/ /\ HandsOff(j, outcome)
          /\ FinishLease(w, "succeeded")
          /\ task' = [task EXCEPT ![j.task] = "SCANNING"]
          /\ UNCHANGED attempt
       \/ /\ ~Requeues(j, outcome) /\ ~HandsOff(j, outcome)
          /\ FinishLease(w, FinishedJob(outcome))
          /\ attempt' = [attempt EXCEPT ![a].status = FinishedJob(outcome)]
          /\ task' = [task EXCEPT ![j.task] = FinishedTask(outcome)]

\* A partial outcome of the scan, carried in the payload, or of Trivy makes
\* the task partial; the payload is abstracted to either.
FinishTrivy(w) ==
    LET j == worker[w].job
        outcome == worker[w].outcome
    IN
    /\ worker[w].pc = "done" /\ j.kind = "trivy"
    /\ FinishAllowed(w)
    /\ AttemptIsRunning(w)
    /\ task[j.task] \in {"SCANNING", "REPORTING"}
    /\ \/ /\ Requeues(j, outcome)
          /\ FinishLease(w, "queued")
          /\ task' = [task EXCEPT ![j.task] = "SCANNING"]
          /\ UNCHANGED attempt
       \/ /\ ~Requeues(j, outcome)
          /\ FinishLease(w, FinishedJob(outcome))
          /\ attempt' =
                [attempt EXCEPT ![AttemptOf(j)].status = FinishedJob(outcome)]
          /\ task' = [task EXCEPT ![j.task] = FinishedTask(outcome)]

\* The other kinds leave the task alone; analyses settled their run before.
FinishOther(w) ==
    LET j == worker[w].job
        outcome == worker[w].outcome
    IN
    /\ worker[w].pc = "done" /\ j.kind \notin ScanKind
    /\ FinishAllowed(w)
    /\ FinishLease(w, IF Requeues(j, outcome) THEN "queued"
                      ELSE FinishedJob(outcome))
    /\ UNCHANGED <<task, attempt>>

\* ErrLeaseLost, or an inconsistency on which the worker process exits.
FinishConsistent(w) ==
    LET j == worker[w].job IN
    /\ j.kind \in ScanKind => AttemptIsRunning(w)
    /\ j.kind = "scan" => task[j.task] \in ScanFinishFrom(w)
    /\ j.kind = "trivy" => task[j.task] \in {"SCANNING", "REPORTING"}

FinishRefused(w) ==
    /\ worker[w].pc = "done"
    /\ ~(FinishAllowed(w) /\ FinishConsistent(w))
    /\ worker' = [worker EXCEPT ![w] = Idle]
    /\ UNCHANGED rows
-----------------------------------------------------------------------------
(***************************************************************************)
(* RecoverExpired.  A batch locks its jobs and treats them one after the   *)
(* other, each under a savepoint; here each job of a batch is one step.    *)
(* The quarantine of an inconsistent job that is alone in its batch is a   *)
(* transaction of its own in the code, after the same checks.              *)
(***************************************************************************)
\* Mutant of Recoverable: jobs being cancelled are not looked for.
RecoverableUncancelled(j) == job[j].status \in {"leased", "running"} /\ ~job[j].live

Recoverable(j) == job[j].status \in HeldJob /\ ~job[j].live

Expired(j) == Recoverable(j) /\ job[j].status # "cancel_requested"

Retries(j) == job[j].attempt < MaxAttempts

\* releaseRecoveredResourceSlots: one slot of each pool is (job, token)'s.
SlotsRecoverable(j) ==
    \A p \in PoolsOf(j.kind) :
        \E i \in 1 .. HeavySlots :
            /\ slot[<<p, i>>].job = j /\ slot[<<p, i>>].token = job[j].token
            /\ \A k \in (1 .. HeavySlots) \ {i} :
                  ~(/\ slot[<<p, k>>].job = j
                    /\ slot[<<p, k>>].token = job[j].token)

AttemptIsActive(j) ==
    /\ attempt[AttemptOf(j)].token = job[j].token
    /\ attempt[AttemptOf(j)].status \in {"queued", "running"}

AttemptRuns(j) ==
    attempt[AttemptOf(j)] = [status |-> "running", token |-> job[j].token]

RecoverLease(j, status) ==
    /\ job' = [job EXCEPT ![j] = Settled(j, status)]
    /\ slot' = FreedSlots({j})
    /\ UNCHANGED <<published, importer, worker>>

ScanRecoverable(j) ==
    SlotsRecoverable(j) /\ AttemptIsActive(j) /\ task[j.task] \notin TerminalTask

RecoverScan(j) ==
    LET status == IF Retries(j) THEN "queued" ELSE "failed" IN
    /\ j.kind = "scan" /\ Expired(j) /\ ScanRecoverable(j)
    /\ RecoverLease(j, status)
    /\ attempt' = [attempt EXCEPT ![AttemptOf(j)].status = status]
    /\ task' = [task EXCEPT ![j.task] =
                   IF Retries(j) THEN "QUEUED" ELSE "FAILED"]
    /\ UNCHANGED run

TrivyRecoverable(j) ==
    /\ SlotsRecoverable(j) /\ AttemptRuns(j)
    /\ task[j.task] \in {"SCANNING", "REPORTING"}

RecoverTrivy(j) ==
    /\ j.kind = "trivy" /\ Expired(j) /\ TrivyRecoverable(j)
    /\ RecoverLease(j, IF Retries(j) THEN "queued" ELSE "failed")
    /\ attempt' = IF Retries(j) THEN attempt
                  ELSE [attempt EXCEPT ![AttemptOf(j)].status = "failed"]
    /\ task' = [task EXCEPT ![j.task] =
                   IF Retries(j) THEN "SCANNING" ELSE "FAILED"]
    /\ UNCHANGED run

\* Mutant of RecoverPlain: it requeues the run of a Python analysis too, so
\* that the job can be claimed while the unfenced old worker still publishes.
RecoverPlainWithRun(j) ==
    /\ j.kind \in PostScanKind \cup {"python_analysis"}
    /\ Expired(j) /\ SlotsRecoverable(j)
    /\ RecoverLease(j, IF Retries(j) THEN "queued" ELSE "failed")
    /\ run' = IF run[j] = "running" THEN [run EXCEPT ![j] = "queued"] ELSE run
    /\ UNCHANGED <<task, attempt>>

\* Every kind without a branch of its own, the Python analysis included:
\* only the job row and its slots are recovered.
RecoverPlain(j) ==
    /\ j.kind \in PostScanKind \cup {"python_analysis"}
    /\ Expired(j) /\ SlotsRecoverable(j)
    /\ RecoverLease(j, IF Retries(j) THEN "queued" ELSE "failed")
    /\ UNCHANGED <<task, attempt, run>>

\* Mutant of SettledByRun: a published run is taken for a successful one.
SettledAsSuccess(status) == "succeeded"

SettledByRun(status) ==
    IF status \in {"succeeded", "partial"} THEN "succeeded" ELSE status

\* recoverTerminalCAnalysisJob and its Java twin: the published run decides.
RecoverTerminalAnalysis(j) ==
    /\ j.kind \in FencedAnalysisKind /\ Expired(j) /\ SlotsRecoverable(j)
    /\ run[j] \in TerminalRun
    /\ RecoverLease(j, SettledByRun(run[j]))
    /\ UNCHANGED <<task, attempt, run>>

AnalysisRecoverable(j) ==
    /\ SlotsRecoverable(j)
    /\ run[j] # "none"
    /\ Retries(j) \/ run[j] # "cancel_requested"

\* A requeue moves a queued or running run back and ignores a requested
\* cancellation; the final failure requires a queued or running run.
RecoverAnalysis(j) ==
    /\ j.kind \in FencedAnalysisKind /\ Expired(j)
    /\ run[j] \in ActiveRun /\ AnalysisRecoverable(j)
    /\ RecoverLease(j, IF Retries(j) THEN "queued" ELSE "failed")
    /\ run' = IF run[j] = "cancel_requested" THEN run
              ELSE [run EXCEPT ![j] = IF Retries(j) THEN "queued" ELSE "failed"]
    /\ UNCHANGED <<task, attempt>>

\* Mutant of OthersCancelling: the job that is recovered counts as well.
AnyCancelling(j) ==
    \E k \in Job : k.task = j.task /\ job[k].status = "cancel_requested"

\* recoverCancelledJob.  C and Java analyses settle their run and return;
\* the other kinds go on to the task when no other cancellation remains.
OthersCancelling(j) ==
    \E k \in Job \ {j} :
        k.task = j.task /\ job[k].status = "cancel_requested"

CancelRecoverable(j) ==
    /\ SlotsRecoverable(j)
    /\ j.kind \in ScanKind => AttemptIsActive(j)
    /\ j.kind \notin FencedAnalysisKind /\ ~OthersCancelling(j) =>
           task[j.task] \in {"DELETING", "CANCEL_REQUESTED"}

RecoverCancelled(j) ==
    /\ Recoverable(j) /\ job[j].status = "cancel_requested"
    /\ CancelRecoverable(j)
    /\ RecoverLease(j, "cancelled")
    /\ run' = IF j.kind \in FencedAnalysisKind /\ run[j] \in ActiveRun
              THEN [run EXCEPT ![j] = "cancelled"] ELSE run
    /\ attempt' = IF j.kind \in ScanKind
                  THEN [attempt EXCEPT ![AttemptOf(j)].status = "cancelled"]
                  ELSE attempt
    /\ task' = IF /\ j.kind \notin FencedAnalysisKind
                  /\ ~OthersCancelling(j)
                  /\ task[j.task] = "CANCEL_REQUESTED"
               THEN [task EXCEPT ![j.task] = "CANCELLED"] ELSE task

\* What recoverExpiredJob requires of the rows around an expired job.
RecoveryConsistent(j) ==
    CASE job[j].status = "cancel_requested" -> CancelRecoverable(j)
      [] job[j].status # "cancel_requested" /\ j.kind = "scan" ->
            ScanRecoverable(j)
      [] job[j].status # "cancel_requested" /\ j.kind = "trivy" ->
            TrivyRecoverable(j)
      [] job[j].status # "cancel_requested" /\ j.kind \in FencedAnalysisKind ->
            AnalysisRecoverable(j)
      [] OTHER -> SlotsRecoverable(j)

\* quarantineExpiredJob: otherwise the job fails for good, with its task.
Quarantine(j) ==
    /\ Recoverable(j) /\ ~RecoveryConsistent(j)
    /\ RecoverLease(j, "failed")
    /\ attempt' = IF j.kind \in ScanKind /\ AttemptIsActive(j)
                  THEN [attempt EXCEPT ![AttemptOf(j)].status = "failed"]
                  ELSE attempt
    /\ task' = IF j.kind \in ScanKind /\ task[j.task] \notin TerminalTask
               THEN [task EXCEPT ![j.task] = "FAILED"] ELSE task
    /\ UNCHANGED run

Recover(j) ==
    \/ RecoverScan(j) \/ RecoverTrivy(j) \/ RecoverPlain(j)
    \/ RecoverTerminalAnalysis(j) \/ RecoverAnalysis(j)
    \/ RecoverCancelled(j)
    \/ Quarantine(j)
-----------------------------------------------------------------------------
(***************************************************************************)
(* The archive import queue as the job queue sees it: an import runs only  *)
(* when no global slot is taken, and no job starts while one runs.  Both   *)
(* claims lock the rows of job_resource_limits first, so each is a step.   *)
(***************************************************************************)
\* Mutant of ImportClaim: the global pool is taken for a single slot.
ImportClaimFirstSlot ==
    /\ importer = "idle"
    /\ slot[<<"global", 1>>] = NoHold
    /\ importer' = "running"
    /\ UNCHANGED <<task, attempt, job, slot, run, published, worker>>

ImportClaim ==
    /\ importer = "idle"
    /\ \A i \in 1 .. HeavySlots : slot[<<"global", i>>] = NoHold
    /\ importer' = "running"
    /\ UNCHANGED <<task, attempt, job, slot, run, published, worker>>

\* The import completes, fails, or its expired lease is recovered.
ImportEnd ==
    /\ importer = "running"
    /\ importer' = "idle"
    /\ UNCHANGED <<task, attempt, job, slot, run, published, worker>>
=============================================================================
