------------------------------ MODULE JobStore ------------------------------
(***************************************************************************)
(* The rows of the MySQL schema that the job queue, the task service and   *)
(* the analysis services share, and the memory of the worker processes.    *)
(* Every other module of the platform is a set of transactions over this   *)
(* state: a transaction of the code is one action.                         *)
(*                                                                         *)
(* Clocks are abstracted: a lease is live until ExpireLease, available_at  *)
(* delays a claim by an arbitrary finite time, samples do not expire.      *)
(***************************************************************************)
EXTENDS Naturals, FiniteSets

CONSTANTS
    Task,          \* rows of tasks
    Worker,        \* worker processes; a process keeps nothing between two leases
    Job,           \* the rows that may be inserted into jobs, see JobsAreRecords
    NoJob,
    NoWorker,
    ImageTask,     \* the tasks whose scan finds container images to hand to Trivy
    MaxNumber,     \* bound: task_attempts rows per task (1 + user retries)
    MaxAttempts,   \* jobs.max_attempts (3 in the code)
    HeavySlots,    \* slots of the global pool
    TrivySlots,
    NativeSlots

ScanKind     == {"scan", "trivy"}
PostScanKind == {"decompile_native", "decompile_bytecode", "image"}
FencedAnalysisKind == {"c_analysis", "java_analysis"}
AnalysisKind == FencedAnalysisKind \cup {"python_analysis"}
Kind == ScanKind \cup PostScanKind \cup AnalysisKind

(***************************************************************************)
(* A job row is named by what never changes in it: its task, its kind and  *)
(* a number.  For scan and trivy jobs the number is that of the task       *)
(* attempt the job belongs to; for the others it tells requests apart.     *)
(***************************************************************************)
ASSUME JobsAreRecords ==
    /\ Job \subseteq [task : Task, kind : Kind, n : Nat \ {0}]
    /\ \A j \in Job : j.kind \in ScanKind => j.n \in 1 .. MaxNumber
    /\ \A j \in Job : j.kind = "scan" /\ j.task \in ImageTask =>
           [task |-> j.task, kind |-> "trivy", n |-> j.n] \in Job
    /\ \A t \in Task : [task |-> t, kind |-> "scan", n |-> 1] \in Job

ASSUME NullsAreNotRows == NoJob \notin Job /\ NoWorker \notin Worker

\* claimResourceRequirements: 1 <= trivy, native <= heavy <= 4.  The
\* configuration of the deployment is stricter, heavy <= 2.
ASSUME LimitsAreValid ==
    /\ ImageTask \subseteq Task
    /\ MaxNumber \in Nat \ {0}
    /\ MaxAttempts \in Nat \ {0}
    /\ HeavySlots \in 1 .. 4
    /\ TrivySlots \in 1 .. HeavySlots
    /\ NativeSlots \in 1 .. HeavySlots

VARIABLES
    task,       \* tasks.status; "VALIDATING" stands for the stages up to INDEXING
    attempt,    \* task_attempts: status and fencing token
    job,        \* jobs: status, attempt, fencing token, owner, lease_until > now
    slot,       \* job_resource_slots: the lease that holds the slot
    run,        \* {c,java,python}_analysis_runs.status of an analysis job
    published,  \* fencing token of the lease whose result is stored, 0 if none
    importer,   \* is an archive_imports row running?
    worker      \* memory of each worker process

rows == <<task, attempt, job, slot, run, published, importer>>
vars == <<task, attempt, job, slot, run, published, importer, worker>>
-----------------------------------------------------------------------------
TerminalTask  == {"SUCCEEDED", "PARTIAL_SUCCEEDED", "FAILED", "CANCELLED"}
ExecutingTask == {"QUEUED", "VALIDATING", "SCANNING", "REPORTING"}
TaskStatus    == {"absent", "CANCEL_REQUESTED", "DELETING"}
                   \cup TerminalTask \cup ExecutingTask

AttemptStatus ==
    {"absent", "queued", "running", "succeeded", "failed", "cancelled"}

WaitingJob  == {"queued", "leased"}
HeldJob     == {"leased", "running", "cancel_requested"}
ActiveJob   == {"queued"} \cup HeldJob
TerminalJob == {"succeeded", "failed", "cancelled"}
JobStatus   == {"absent"} \cup ActiveJob \cup TerminalJob

ActiveRun   == {"queued", "running", "cancel_requested"}
TerminalRun == {"succeeded", "partial", "failed", "cancelled"}
RunStatus   == {"none"} \cup ActiveRun \cup TerminalRun

Success == {"succeeded", "partial_succeeded"}
Failure == {"transient_failure", "deterministic_failure"}
Outcome == Success \cup Failure

WorkerStep ==
    {"idle", "claimed", "running", "treed", "reported", "begun", "done"}

Pool   == {"global", "trivy", "native"}
SlotId == Pool \X (1 .. HeavySlots)

\* resourcePoolsForJob: the pools a job of this kind takes one slot of.
PoolsOf(kind) ==
    {"global"} \cup {p \in {"trivy"}  : kind \in {"trivy", "image"}}
               \cup {p \in {"native"} : kind = "decompile_native"}

\* Mutant of SlotLimit: analyses may use every global slot.
SlotLimitPerPool(kind, pool) ==
    CASE pool = "trivy"  -> TrivySlots
      [] pool = "native" -> NativeSlots
      [] OTHER           -> HeavySlots

\* claimResourceRequirements: the slots of the pool such a job may take.
SlotLimit(kind, pool) ==
    CASE pool = "trivy"  -> TrivySlots
      [] pool = "native" -> NativeSlots
      [] pool = "global" -> IF kind \in AnalysisKind THEN 1 ELSE HeavySlots

AttemptId == Task \X (1 .. MaxNumber)
AttemptOf(j) == <<j.task, j.n>>
ScanJob(t, n)  == [task |-> t, kind |-> "scan",  n |-> n]
TrivyJob(t, n) == [task |-> t, kind |-> "trivy", n |-> n]

NoHold        == [job |-> NoJob, token |-> 0, owner |-> NoWorker]
Hold(j, k, w) == [job |-> j, token |-> k, owner |-> w]
Idle ==
    [pc |-> "idle", job |-> NoJob, token |-> 0, outcome |-> "none"]
AbsentJob ==
    [status |-> "absent", attempt |-> 0, token |-> 0,
     owner |-> NoWorker, live |-> FALSE]
QueuedJob(k) == [AbsentJob EXCEPT !.status = "queued", !.token = k]

AttemptRow == [status : AttemptStatus, token : Nat]
JobRow ==
    [status : JobStatus, attempt : Nat, token : Nat,
     owner : Worker \cup {NoWorker}, live : BOOLEAN]
SlotRow ==
    [job : Job \cup {NoJob}, token : Nat, owner : Worker \cup {NoWorker}]
WorkerMemory ==
    [pc : WorkerStep, job : Job \cup {NoJob}, token : Nat,
     outcome : Outcome \cup {"none"}]

TypeOK ==
    /\ task \in [Task -> TaskStatus]
    /\ attempt \in [AttemptId -> AttemptRow]
    /\ job \in [Job -> JobRow]
    /\ slot \in [SlotId -> SlotRow]
    /\ run \in [Job -> RunStatus]
    /\ published \in [Job -> Nat]
    /\ importer \in {"idle", "running"}
    /\ worker \in [Worker -> WorkerMemory]
    /\ \A w \in Worker : worker[w].pc # "idle" => worker[w].job \in Job

Init ==
    /\ task = [t \in Task |-> "absent"]
    /\ attempt = [a \in AttemptId |-> [status |-> "absent", token |-> 0]]
    /\ job = [j \in Job |-> AbsentJob]
    /\ slot = [s \in SlotId |-> NoHold]
    /\ run = [j \in Job |-> "none"]
    /\ published = [j \in Job |-> 0]
    /\ importer = "idle"
    /\ worker = [w \in Worker |-> Idle]
-----------------------------------------------------------------------------
(***************************************************************************)
(* Guards and updates that many transactions repeat.                       *)
(***************************************************************************)

\* Mutants of Leases: a requested cancellation does not stop the worker; the
\* status of the job is taken for the possession of its lease.
LeasesEvenCancelled(w, statuses) ==
    LET r == job[worker[w].job] IN
    r.status \in HeldJob /\ r.owner = w /\ r.token = worker[w].token /\ r.live
LeasesByStatus(w, statuses) == job[worker[w].job].status \in statuses

\* The WHERE clause of every write of a worker: its owner, its fencing
\* token and a lease that has not expired, on a job in one of these states.
Leases(w, statuses) ==
    LET r == job[worker[w].job] IN
    /\ r.status \in statuses
    /\ r.owner = w
    /\ r.token = worker[w].token
    /\ r.live

\* validateResourceSlots: the lease still holds a slot of each of its pools.
SlotsValid(w) ==
    LET j == worker[w].job IN
    \A p \in PoolsOf(j.kind) : \E i \in 1 .. HeavySlots :
        slot[<<p, i>>] = Hold(j, worker[w].token, w)

\* Mutant of Settled: the fencing token is cleared with the lease.
SettledUnfenced(j, status) ==
    [job[j] EXCEPT !.status = status, !.owner = NoWorker, !.live = FALSE,
                   !.token = 0]

\* The job leaves the lease: lease_owner and lease_until become NULL.
Settled(j, status) ==
    [job[j] EXCEPT !.status = status, !.owner = NoWorker, !.live = FALSE]

\* Mutant of FreedSlots: the slot of the kind's own pool is forgotten.
FreedGlobalSlots(Leaving) ==
    [s \in SlotId |->
        IF s[1] = "global" /\ slot[s].job \in Leaving THEN NoHold ELSE slot[s]]

\* The slots after those of every (job, fencing token) in Leaving are freed.
FreedSlots(Leaving) ==
    [s \in SlotId |->
        IF slot[s].job \in Leaving /\ slot[s].token = job[slot[s].job].token
        THEN NoHold ELSE slot[s]]

\* The task has file nodes: a decompilation may be asked for, and the source
\* project of one may exist.
HasTree(t) ==
    \E j \in Job : j.task = t /\ j.kind = "scan" /\ published[j] # 0

\* The worker moves on inside its lease, or returns an outcome.
StepTo(w, pc) == worker' = [worker EXCEPT ![w].pc = pc]
Return(w, outcome) ==
    worker' = [worker EXCEPT ![w].pc = "done", ![w].outcome = outcome]
=============================================================================
