----------------------------- MODULE JobPlatform -----------------------------
(***************************************************************************)
(* The platform: users, worker processes, the maintenance loop that        *)
(* recovers leases, and archive imports, over one database.                *)
(***************************************************************************)
EXTENDS JobQueue, TaskLifecycle, ScanWorkers, AnalysisRuns

CONSTANT ArchiveImports   \* do archive imports compete for the global pool?

ASSUME ImportsAreASwitch == ArchiveImports \in BOOLEAN

User ==
    \/ \E t \in Task : CreateTask(t) \/ Retry(t) \/ Cancel(t) \/ Delete(t)
    \/ \E j \in Job : RequestPostScan(j) \/ CreateRun(j) \/ CancelRun(j)

\* What a worker process does on its own inside a lease.
Work(w) ==
    \/ Start(w) \/ StartRefused(w)
    \/ PublishTree(w) \/ EnqueueTrivy(w) \/ Report(w)
    \/ \E outcome \in Outcome :
          PublishFindings(w, outcome) \/ ReturnScan(w, outcome)
            \/ ReturnPostScan(w, outcome)
    \/ Begin(w) \/ RetryRun(w) \/ ReturnError(w) \/ ReturnFault(w)
    \/ \E status \in TerminalRun :
          PublishRun(w, status) \/ EndRun(w, status) \/ PublishPython(w, status)
    \/ FailPublication(w) \/ RetryPython(w) \/ FailPython(w)
    \/ FinishScan(w) \/ FinishTrivy(w) \/ FinishOther(w) \/ FinishRefused(w)

Lose(w) == HeartbeatLost(w) \/ Crash(w)

Maintenance(j) == ExpireLease(j) \/ Recover(j)

Import == ArchiveImports /\ (ImportClaim \/ ImportEnd)

Next ==
    \/ User
    \/ \E w \in Worker : Work(w) \/ Lose(w) \/ \E j \in Job : Claim(w, j)
    \/ \E j \in Job : Maintenance(j)
    \/ Import

Spec == Init /\ [][Next]_vars

(***************************************************************************)
(* Fairness.  The runner loops on Claim and on the processor; a lease that *)
(* nobody renews runs out; the maintenance loop recovers every lease it    *)
(* finds.  Users, crashes and the expiry of a lease that is still worked   *)
(* on are never forced.                                                    *)
(***************************************************************************)
Orphaned(j) ==
    ~\E w \in Worker : /\ worker[w].pc # "idle" /\ worker[w].job = j
                       /\ worker[w].token = job[j].token

Fairness ==
    /\ \A w \in Worker : WF_vars(Work(w)) /\ WF_vars(HeartbeatLost(w))
    /\ \A j \in Job : /\ WF_vars(\E w \in Worker : Claim(w, j))
                      /\ WF_vars(Orphaned(j) /\ ExpireLease(j))
                      /\ WF_vars(Recover(j))
    /\ WF_vars(ImportEnd)

FairSpec == Spec /\ Fairness
-----------------------------------------------------------------------------
(***************************************************************************)
(* Slots and leases                                                        *)
(***************************************************************************)

\* A taken slot belongs to the current lease of a job that still holds one:
\* no path that ends, requeues or replaces a lease leaves a slot behind.
SlotsFenced ==
    \A s \in SlotId : slot[s].job # NoJob =>
        LET r == job[slot[s].job] IN
        /\ r.status \in HeldJob
        /\ r.token = slot[s].token
        /\ r.owner = slot[s].owner

\* A leased, running or cancelling job holds exactly one slot of each of
\* its pools and none elsewhere, so that recovery finds what it releases.
LeasesHoldSlots ==
    \A j \in Job : job[j].status \in HeldJob =>
        \A p \in Pool :
            LET held == {i \in 1 .. HeavySlots : slot[<<p, i>>].job = j} IN
            IF p \in PoolsOf(j.kind)
            THEN \E i \in 1 .. SlotLimit(j.kind, p) : held = {i}
            ELSE held = {}

\* An archive import and a job never use heavy resources together.  Each
\* side looks at the other's rows before it takes its own.
ImportExclusion ==
    importer = "running" =>
        \A i \in 1 .. HeavySlots : slot[<<"global", i>>] = NoHold

\* At most one analysis runs at a time, whatever its language and however
\* many global slots are configured (ARCHITECTURE.md).
OneAnalysis ==
    \A j, k \in Job :
        /\ {j.kind, k.kind} \subseteq AnalysisKind
        /\ {job[j].status, job[k].status} \subseteq HeldJob
        => j = k
-----------------------------------------------------------------------------
(***************************************************************************)
(* Tasks, attempts and their jobs                                          *)
(***************************************************************************)

\* The job, attempt and task rows of a scan or Trivy lease agree in status
\* and fencing token at every commit, whatever the order of retries,
\* cancellations and recoveries.  Each WHERE clause of the queue relies on
\* it: a disagreement is an ErrInconsistentState and a dead worker.
ScanLeaseCoherent(j) ==
    LET a == attempt[AttemptOf(j)] IN
    /\ job[j].status \in WaitingJob =>
           /\ a = [status |-> "queued", token |-> job[j].token]
           /\ task[j.task] = "QUEUED"
    /\ job[j].status \in {"running", "cancel_requested"} =>
           a = [status |-> "running", token |-> job[j].token]
    /\ job[j].status = "running" => task[j.task] \in {"VALIDATING", "REPORTING"}

TrivyLeaseCoherent(j) ==
    /\ job[j].status \in HeldJob =>
           attempt[AttemptOf(j)] = [status |-> "running", token |-> job[j].token]
    /\ job[j].status = "leased" => task[j.task] = "SCANNING"
    /\ job[j].status = "running" => task[j.task] \in {"SCANNING", "REPORTING"}

LeaseCoherent ==
    \A j \in Job : /\ j.kind = "scan" => ScanLeaseCoherent(j)
                   /\ j.kind = "trivy" => TrivyLeaseCoherent(j)

\* A task in execution is never stranded: exactly one scan or Trivy job
\* drives it, and when that job waits in the queue a worker may claim it.
\* In particular the Trivy job of a handoff is claimable, however often the
\* scan that enqueued it was retried under a new fence.
Drives(j) ==
    /\ j.kind \in ScanKind
    /\ \/ job[j].status \in {"leased", "running"}
       \/ Claimable(j) /\ ClaimConsistent(j)

ExecutionDriven ==
    \A t \in Task : task[t] \in ExecutingTask =>
        Cardinality({j \in Job : j.task = t /\ Drives(j)}) = 1

\* Recovery never finds rows it has to quarantine; only the cancelled job of
\* a Python analysis is left out, which recovery takes for a task's.
RecoveryIsConsistent ==
    \A j \in Job :
        /\ Recoverable(j)
        /\ j.kind = "python_analysis" => job[j].status # "cancel_requested"
        => RecoveryConsistent(j)

\* A result is stored under the current fence of a running job, never by an
\* older lease over a newer one, nor over that of a later attempt of the task.
NoLateOverwrite ==
    [][\A j \in Job : published'[j] # published[j] =>
          /\ job[j].status = "running"
          /\ published'[j] = job[j].token
          /\ j.kind \in ScanKind =>
                 \A k \in Job : k.task = j.task /\ k.kind = j.kind =>
                     published[k] <= published'[j]]_vars

\* Fences only advance: of a job over its leases, of a task over its
\* attempts, so that a token never names two leases.
FencesAdvance ==
    [][/\ \A j \in Job : job[j].token <= job'[j].token
       /\ \A t \in Task, m, n \in 1 .. MaxNumber :
             /\ m < n
             /\ attempt[<<t, n>>].status = "absent"
             /\ attempt'[<<t, n>>].status # "absent"
             => attempt[<<t, m>>].token < attempt'[<<t, n>>].token]_vars

\* Nothing ended comes back: a deletion is never undone, a requested
\* cancellation is not overtaken by a result, an ended job or attempt keeps
\* its outcome.
NoResurrection ==
    [][/\ \A t \in Task :
             /\ task[t] = "DELETING" => task'[t] = "DELETING"
             /\ task[t] = "CANCEL_REQUESTED" =>
                    task'[t] \in {"CANCEL_REQUESTED", "CANCELLED", "DELETING"}
       /\ \A j \in Job : job[j].status \in TerminalJob =>
             job'[j].status = job[j].status
       /\ \A a \in AttemptId :
             attempt[a].status \in {"succeeded", "failed", "cancelled"} =>
                 attempt'[a].status = attempt[a].status]_vars
-----------------------------------------------------------------------------
(***************************************************************************)
(* Analyses                                                                *)
(***************************************************************************)

\* The task was scanned again after its first attempt, and so may have been
\* cancelled after it was finished.
Rescanned(t) ==
    \E n \in 1 .. MaxNumber : n > 1 /\ attempt[<<t, n>>].status # "absent"

\* The job was cancelled with its task: cancelActiveJobs leaves the run alone.
CancelledWithTask(j) ==
    /\ job[j].status \in {"cancel_requested", "cancelled"}
    /\ task[j.task] = "DELETING" \/ Rescanned(j.task)

\* An unfinished run of a C or Java analysis has an unfinished job in the
\* state that settles it: a queued run a job that will be claimed or is in
\* progress, a running run a job in progress, a requested cancellation a job
\* that is cancelling; and a job that waits has a run to begin.
RunDriven(j) ==
    /\ run[j] = "queued" => job[j].status \in {"queued", "leased", "running"}
    /\ run[j] = "running" => job[j].status = "running"
    /\ run[j] = "cancel_requested" => job[j].status = "cancel_requested"
    /\ job[j].status \in WaitingJob => run[j] = "queued"

RunsDriven ==
    \A j \in Job : j.kind \in FencedAnalysisKind /\ ~CancelledWithTask(j) =>
        RunDriven(j)

\* The outcome a user reads in the run and the one in the job agree.
RunAgreesWithJob ==
    \A j \in Job : j.kind \in FencedAnalysisKind =>
        /\ job[j].status = "succeeded" => run[j] \in {"succeeded", "partial"}
        /\ job[j].status = "cancelled" /\ ~CancelledWithTask(j) =>
               run[j] = "cancelled"
        /\ job[j].status = "failed" => run[j] \in {"failed", "cancelled"}

\* A run that ended keeps its outcome, and its findings are stored once.
RunsSettleOnce ==
    [][\A j \in Job : run[j] \in TerminalRun =>
          run'[j] = run[j] /\ published'[j] = published[j]]_vars

\* A user can always stop the active C or Java run of a project: nothing
\* else may be started on the project while it is active.
ActiveRunCancellable ==
    \A j \in Job :
        /\ j.kind \in FencedAnalysisKind /\ run[j] \in {"queued", "running"}
        /\ ~CancelledWithTask(j)
        => CancelsAtOnce(j) \/ CancelsByRequest(j)

\* The job of a run that can still go on fails for good only on its last
\* attempt: a failure is retried, or recorded in the run.
RunsRetried ==
    \A j \in Job : job[j].status = "failed" /\ run[j] \in {"queued", "running"}
        => job[j].attempt >= MaxAttempts
-----------------------------------------------------------------------------
(***************************************************************************)
(* Progress                                                                *)
(***************************************************************************)

\* A task in execution reaches an outcome, or the user stops it.
TaskSettles ==
    \A t \in Task : task[t] \in ExecutingTask ~> task[t] \notin ExecutingTask

\* A requested cancellation completes.
CancellationCompletes ==
    \A t \in Task : task[t] = "CANCEL_REQUESTED"
                        ~> task[t] \in {"CANCELLED", "DELETING"}

\* A lease is always given back, and its slots with it.
LeasesEnd ==
    \A j \in Job : job[j].status \in HeldJob ~>
        /\ job[j].status \notin HeldJob
        /\ \A s \in SlotId : slot[s].job # j

\* Every analysis run comes to an outcome, unless its task is deleted.
RunsSettle ==
    \A j \in Job : run[j] \in ActiveRun ~>
        run[j] \in TerminalRun \/ task[j.task] = "DELETING"
=============================================================================
