# Formal model of the BinaryScan platform

TLA+ specifications of the coordination of this repository: what its
processes do to the shared MySQL rows and to the files beside them, and what
goes right whichever way they interleave, crash, lose leases and are retried.
TLC checks four clusters of modules on small instances; TLAPS proves most of
their safety properties for every instance. Paths are relative to the
repository; `queue/repository.go` stands for `src/internal/queue/repository.go`.

## 1. The system

A user uploads a sample. `internal/upload` stores it as a blob, `internal/task`
creates a task with a first attempt and a scan job, and a worker process scans
it. A scan that finds container images enqueues a Trivy job that finishes the
task. On a finished task the user may ask for decompilations (which publish a
*source project*), image scans, C, Java or Python analyses of a project, and
reports. An uploaded archive is imported instead: its members become uploads
with tasks of their own. Containers: `app` (supervisor, web gateway, API,
maintenance loop), `mysql`, `scanner` (workers for scans, images, Trivy, archive
imports and the three analyses), `java` and `ghidra` (decompilers), and three
checker services. All coordination goes through MySQL transactions that lock
rows; processes share no memory. Samples, blobs, source projects and reports are
files next to the rows that refer to them, and no transaction covers both.

| Component | State | Operations | Interacts with | Hard behaviour | Correct when |
|---|---|---|---|---|---|
| Job queue `internal/queue` | `jobs`, `job_resource_slots`, `job_resource_limits` | Claim, Start, Heartbeat, TaskProgress, Finish, RecoverExpired | all workers, task service, maintenance, archive import | expiring leases, late workers, three pools of slots, eight kinds with recoveries of their own | no slot leaks, exclusions hold, rows agree, every lease ends |
| Worker runner `internal/workerrunner` | one lease in memory | poll, heartbeat, process, finish | queue, processors, checkers | crash at any point, result dropped when a heartbeat fails | a lost lease has no effect |
| Task service `internal/task` | `tasks`, `task_attempts` | create, retry, cancel, delete | queue rows of the task | races with every worker of the task | nothing ended comes back, cancellation completes, a task in execution is driven |
| Scan and Trivy `internal/scan`, `trivyscan` | `file_nodes`, findings | PublishTree, EnqueueTrivy, PublishWithSummary | queue, task | publication under an expired lease, hand-off under an old fence | results never overwritten by an older lease |
| Analyses `internal/canalysis`, `javaanalysis`, `pythonanalysis` | `*_analysis_runs`, `analyzer_runs`, findings | Create, Cancel, Begin, Publish, Retry, Fail, CancelRun | queue, checkers | run and job move in separate transactions | run and job agree, a run settles once |
| Uploads `internal/upload` | `uploads`, parts | create, chunk, PrepareCompletion, FinalizeCompletion, recovery | blobs, tasks, archive imports | crash between rows and files, repeated completion | one task per upload, no lost blob |
| Archive import `internal/archiveimport` | `archive_imports`, entries, batches | Claim, heartbeat, store, complete, FailLease, RecoverExpired, batch, delete | global pool, blobs, uploads, tasks | lease, blob references and files at once; a deletion saga | excludes jobs, loses no blob, is complete when ready |
| Blobs `blobfence`, `retention`, `orphanreaper` | `blobs`, reference counts, files | acquire, release, expire, reap | uploads, imports, tasks | delete racing a new reference | a referenced blob has its file, counts are exact |
| Task cleanup `internal/taskcleanup` | claims on DELETING tasks | claim, delete files, complete | task rows, files | expired claim, crash between files and rows | the references of a deleted task go, once |
| Source projects `internal/decompile` | projects, directories | request, publish, delete, cascade | analyses, reports | publication through a directory and a commit, either of which may be in doubt | a live project has its directory, is published once |
| Reports `internal/report` | `reports`, files | claim, authorize, complete, invalidate, delete | findings, projects | results change while a report is rendered | no stale report is current |
| Remote analyses: clients and `c-checker`, `java-checker`, `python-checker` | one analysis and pending cancellations in a checker's memory | analyse, cancel | analysis processors | late or repeated requests | a cancellation hits its own delivery |
| Workspaces `internal/workspace` | directories per lease | create, clean up, sweep | queue | the directory of a lease that is being renewed | only dead leases' directories go, and they all do |
| Maintenance `internal/maintenance` | none | one loop over all sweeps | all of the above | a failing sweep delays the others | every recovery is tried for ever |
| Supervisor `cmd/supervisor` | child processes | start, restart | workers | crash loops | restarts |

`PROJECT.json` lists every component with its sources, what is modelled of it
and why the rest is not; section 7 says what is left.

## 2. Modules

Each cluster is a set of modules over one set of variables: a *store* module
declares the rows, files and process memories with their initial states; a module
per component has one action per transaction or step of that component; the
*composition* has `Next`, the fairness and the properties; `MC…` has the
instances. Proofs are in modules of their own.

| Cluster | Store | Components | Composition | Proofs |
|---|---|---|---|---|
| Job platform | `JobStore` | `JobQueue` (queue, worker runner), `TaskLifecycle` (task service, requests of decompilation and image scan), `ScanWorkers`, `AnalysisRuns` | `JobPlatform` | `JobPlatformTyping`, `SlotProofs`, `LeaseProofs`, `RunProofs` |
| Sample storage | `SampleStore` (blobs, files, fences, uploads, imports, tasks, retention and cleanup claims) | `UploadService`, `SampleTasks` (task creation, jobs, cleanup), `SampleRetention` (retention, upload expiry, orphan blobs), `ArchiveImport` | `SampleStorage` | `StorageProofs` |
| Source evidence | `EvidenceStore` (projects, directories, runs, reports, operations) | `SourcePublication` (decompile jobs), `SourceAnalysis` (runs), `ReportGeneration`, `EvidenceDeletion` (deletions of projects and runs, orphans) | `SourceEvidence`, which implements the abstract `ReportShelf` | `ReportProofs`, `EvidenceProofs` |
| Remote analysis | `DeliveryStore` (the lease, request and answer of each delivery) | `AnalysisDelivery` (processor and client), `CheckerService`, `Workspaces` | `RemoteAnalysis` | `RemoteProofs` |

### Conventions

A transaction of the code is one action, with its checks as guards. A
transaction that refuses changes no row; what the process does then (drop the
lease, return an error, exit) is an action on its memory alone. Work between two
transactions (a file made, linked, renamed or removed; a request sent) is an
action of its own, and a process may stop between any two. A worker's copy of a
fence or of a row it read may be stale, the rows never are: that is the race the
models are about. Transactions are serialised, because the code locks the rows it
reads with `FOR UPDATE`; exceptions are named in section 7.

Time appears only as what may happen next. A lease is live until an action
expires it, with its holder still at work; an `available_at` delay is absorbed by
the claim being optional; retention, grace periods and time limits are actions
enabled when the period can have passed. A claim may take any eligible row,
where the code takes the oldest it can lock. Data is abstracted to what the
properties tell apart: a blob is its content, a report the set of runs it was
made from, a result the fence it was stored under.

### Job platform

`task`, `attempt`, `job`, `slot`, `run` and `published` are columns of the tables
of the same names; `importer` says whether an archive import runs; `worker` is
what a process remembers of its lease (`pc`, job, token, outcome). A job row is
named by task, kind and a number (the attempt, for scan and Trivy jobs). A slot
holds a (job, token, owner). `Leases` is the fenced WHERE clause that every
transaction of a worker repeats, `FreedSlots` the release of its slots.
`VALIDATING` stands for all stages up to `INDEXING`. A run and its row in
`analyzer_runs` always move together and are one status. `published` records the
fence a result was stored under. The analyses of a task are all of the project
of its root node. The partial result of a scan, carried to Trivy in a payload,
is a free choice of Trivy's outcome. `DbFaults` adds the database failures of the
processors' calls, commits that are not heard of among them; a Python publication
that fails (`FailPublication`) leaves the run begun, or even published, when `Finish`
queues its job again.

### Sample storage

`blob` is a row (status, reference count), `file` the file of a content, `fence`
who holds the named lock of a content (`blobfence/mysql.go`). A *reference* is a
row that names a blob: an upload, an import's member, a task, an entry;
`References` collects them from the rows, the count is what the code maintains
beside them. Uploads, imports, tasks and members are named by one identifier each,
fixed with its content (`Content`, `Parent`); `Plan` is what users do in one
behaviour. An upload has one part. The completion of an upload and the storing
of a member are several steps: row `deleting` or `preparing`, file linked, row
finalised. A job of a task has no type here; it is a lease that needs the
sample (`HeldJobsHaveSamples`).

### Source evidence

A decompile job publishes one project: a directory is prepared (or copied, for
a cached bytecode project), then a commit inserts the row; the commit may fail,
be unheard of, or be heard of when the lease is over. Runs over a project store
results, which invalidate reports; a report is claimed, its snapshot read in
one repeatable-read transaction, rendered, authorised, renamed and completed.
Deletions of projects and of runs tombstone rows, remove files and delete rows,
by sweepers that claim an operation and may lose it.
The publisher's lock on the task row only delays others and is left out; so are
bytecode results without readable sources (no project), previews and
confirmation tokens, and Python runs. One decompile job runs at a time, one
process deletes a given run, and one holder identity stands for owner and fence.
Erased projects keep the cache keys of their results. A directory or a file
becomes old enough for the orphan reaper only when nobody is at work on it: that
is the grace period's assumption, made explicit.

### Remote analysis

One job of a remote kind is delivered up to `MaxAttempts` times. Each delivery has
a lease, a workspace with an owner marker, a request in the network or at the
checker, and perhaps a cancellation under way. The checker has one analysis at a
time, a registry of active ones, and tombstones for cancellations of analyses it
does not know. The C processor names its requests by run, the Java one by
delivery. Claim and Start are one step; the client may give up with its DELETE
still on its way; a checker's answer may ignore a late cancellation, and a checker that
stops answers that the request was cancelled; the C checker validates a request
before it asks for the one place there is, the Java checker after. A statement that
locks a row waits for the heartbeat that has it. Tombstones expire only when no
request older than the retention is in flight, and there is room for them (the
checkers keep 4096). `Settings` (kind, mishaps, victims) says which mishaps a
behaviour may have, and to which deliveries they happen.

## 3. What TLC checks

| Run | Instance | Question |
|---|---|---|
| `scan` | one task with images, 2 scans, 2 deliveries per job, 2 workers, at most five grants of a lease (`FiveGrants`) | Does anything strand or resurrect a task, make rows disagree, quarantine a job, or let a late worker overwrite a newer result? |
| `slots` | a scan, a native decompilation, a C, a Java and a Python analysis, pools of 2 global, 1 Trivy and 1 native slot, archive imports, database faults, 2 workers; two jobs that compete, or one that is redelivered (`ContentionOrRedelivery`) | Do slots leak, do the exclusions hold, is a run's result stored once? |
| `analysis` | two C analyses of one project, or one and a second scan of the task (`FollowedOrRescanned`), 2 workers | Do runs and jobs stay together? |
| `live` | a scan with images and a C analysis, 1 worker | Does everything that is started come to an end? |
| `storage` | an upload; two uploads of one content; an archive with two tries of a batch; an archive with a member of the content of an upload. One worker's jobs (`Worked`), retention of one blob's orphan (`Swept`), 2 leases per job, 2 attempts per import, `Unhurried` | Are references exact, does every referenced blob keep its file, do uploads and imports end? |
| `evidence` | eight plans (`EvidencePlans`): a native job, a bytecode job that copies, two runs of one and of two languages, deletions of a run, of two runs, of a project, two sweepers | Is a visible report current and on disk, is a project published once with its directory, do deletions end? |
| `remote` | kinds and mishaps that may befall the first of 2 deliveries, or the last (`EverySetting`) | Do cancellations hit their own delivery, do workspaces go and only when dead, does the run end? |
| `python_failure`, `retried_cancel`, `nested_blob`, `stuck_deletion`, `late_cancel` | | the disagreements of section 6 |

Properties, by hazard (`PROJECT.json` has the lines of each):

* *Slots.* `SlotsFenced`, `LeasesHoldSlots`: claim, finish, six recoveries,
  quarantine, task and run cancellation all touch slots; any of them could leave
  one behind or free one too many. `OneAnalysis`, `ImportExclusion`: exclusions
  that rest on slot indices and on two queues reading each other's rows.
* *Coherence.* `LeaseCoherent`: job, attempt and task agree in status and fence,
  as every WHERE clause assumes. `RecoveryIsConsistent`: recovery finds the rows
  as it requires them and does not have to quarantine, a cancelled Python analysis
  excepted (section 6). `ExecutionDriven`: a task in execution has exactly one job
  that drives it. `NoResurrection`: cancellation and deletion win.
* *Fencing.* `NoLateOverwrite`, `FencesAdvance`.
* *Runs.* `RunsDriven`, `RunAgreesWithJob`, `RunsSettleOnce`, `ActiveRunCancellable`,
  all but those of a job that was cancelled together with its task.
* *Storage.* `ReferencesAreExact`, `AvailableBlobHasFile`, `HeldJobsHaveSamples`,
  `ReadyImportIsComplete`, `TaskMadeOnce`.
* *Evidence.* `CurrentReportShowsLatest`, `VisibleReportHasFile` (except for one
  whose completion was not heard of, section 6), `LiveProjectHasDirectory`,
  `PublishedOnce`, `DeletedProjectHasNoEvidence`, and the refinement
  `ReportsAreAShelf`: whatever workers, sweepers and users do, a report is an
  item that is put on a shelf once, shows the latest results as long as it is
  current, and does not come back when it was taken down.
* *Remote.* `JavaCancellationsAreOwn`, `JavaCancellationsLand`, `OwnedWorkspaceKept`.
* *Progress.* `TaskSettles`, `CancellationCompletes`, `LeasesEnd`, `RunsSettle`;
  `UploadsGetTasks`, `ImportsEnd`; `DeletionsEnd`, `OrphansAreReclaimed`;
  `WorkspacesReclaimed`, `RunSettles` (except for the two cases of `LeftByShutdown`,
  section 6).

**Bounds.** `MaxNumber`, the attempts of a task, the sets of rows, and plans and
settings are bounds of the model: what users ask for in one behaviour. The code
has no limit. Two attempts are enough for a late worker of the first to meet the
second, two workers for an old and a new holder of one lease. `MaxAttempts` is 3
in the code; with 2 there is a delivery that is retried and one that is not.
Pools of two are the largest the configuration accepts
(`config/config.go:493`), and the smallest in which a limit of one differs from
the size of the pool. Tasks meet only in slots, blobs and files: one task with
jobs of every shape, and two uploads or an upload and a member of one content,
exercise them. The state constraints (`FiveGrants`, `FollowedOrRescanned`,
`ContentionOrRedelivery`, `Unhurried`) cut combinations of two independent long
behaviours, each of which is explored on its own; no run with liveness over an
unbounded part has one that could hide a cycle (`Unhurried` excludes expiring an
upload early, a state that is never left). The proofs have none of these bounds.
Runs without liveness identify the workers (`WorkerSymmetry`). Deadlock is not
checked: when all requests of the plan are used up and their work has ended, the
instance rightly stops.

**Fairness.** *Job platform*: weak fairness of `Work` (a process that is alive
goes on), of `HeartbeatLost` (heartbeats are periodic, and a refused one drops the
lease), of the claim of each job (the runner polls), of `ExpireLease` for a lease
nobody holds (`lease_until` passes), of `Recover` (the maintenance loop runs for
ever) and of `ImportEnd`. Nothing forces users, crashes, or the expiry of a lease
that is worked on. `MaxAttempts` bounds the deliveries of a job, so that crashes,
though never excluded, cannot go on for ever. Fairness of the claim per job is
stronger than the code: a stream of other jobs or imports may starve one.
*Storage*: weak fairness of the sweeps (tasks of completed uploads, claims, expiry and
recovery of imports); `stuck_deletion` adds what the maintenance loop does for
interrupted deletions. *Evidence*: weak fairness of the steps of processes, of
leases that run out and of the sweeps; strong fairness of the steps of a deletion
that a crash or an expiring claim may interrupt again and again: among its tries,
which the maintenance loop repeats for ever, some are not interrupted. *Remote*:
strong fairness of the worker's steps for each delivery, since its statements wait
for a heartbeat that holds the row and get it between two heartbeats; weak fairness
of a late heartbeat's commit, of queue and recovery, of the expiry of an unattended
lease, and of the workspace reaper.

## 4. What TLAPS proves

The theorems hold for every value of the constants that satisfies the named
assumptions of the modules: any number of tasks, jobs, workers, blobs, uploads,
archives, projects, runs, reports, sweepers, every `MaxAttempts`, and all slot
limits with 1 <= trivy, native <= heavy <= 4. The assumptions say that rows are
identified by what identifies them (`JobsAreRecords`, `SamplesAreWellFormed`,
`EvidenceIsWellFormed`), that null values are not rows, that limits are those the
configuration accepts, and that plans and settings are plans and settings
(`PlansAreValid`, `PlansAreOfTasks`, `SettingsAreOfRemoteAnalyses`). TLC evaluates
all of them. Every strengthening below was an invariant of a TLC run before it was
proved. Every safety property of the passing runs is among the theorems.

| Module | Theorem | Property |
|---|---|---|
| `JobPlatformTyping` | `Typing` | `TypeOK` of `JobPlatform` |
| `SlotProofs` | `SlotsNeverLeak`, `LeasesKeepSlots` | `SlotsFenced`, `LeasesHoldSlots` |
| | `AnalysesExclude`, `ImportsExclude` | `OneAnalysis`, `ImportExclusion` |
| | `RecoveryFindsSlots` | whatever lease expires, recovery finds exactly one slot of each pool |
| `LeaseProofs` | `LeasesCohere`, `TasksAreDriven`, `RecoveryAgrees` | `LeaseCoherent`, `ExecutionDriven`, `RecoveryIsConsistent` |
| | `NothingResurrects`, `FencesOnlyAdvance`, `ResultsAreFenced` | `NoResurrection`, `FencesAdvance`, `NoLateOverwrite` |
| `RunProofs` | `RunsEndOnce` | `RunsSettleOnce` |
| | `RunsAreDriven`, `RunsAgreeWithJobs`, `ActiveRunsCancellable` | `RunsDriven`, `RunAgreesWithJob`, `ActiveRunCancellable`, without `DbFaults` |
| `StorageProofs` | `StorageTyped`, `CountsAreExact`, `AvailableFilesExist` | `TypeOK` of `SampleStorage`, `ReferencesAreExact`, `AvailableBlobHasFile` |
| | `WorkersKeepSamples`, `ReadyImportsAreComplete`, `TasksAreMadeOnce` | `HeldJobsHaveSamples`, `ReadyImportIsComplete`, `TaskMadeOnce` |
| `ReportProofs` | `ReportsShowLatest` | `CurrentReportShowsLatest` |
| | `ReportsImplementShelf` | the safety part of `ReportsAreAShelf` |
| `EvidenceProofs` | `LiveProjectsHaveDirectories`, `ProjectsArePublishedOnce` | `LiveProjectHasDirectory`, `PublishedOnce` |
| | `DeletionsLeaveNothing`, `VisibleReportsHaveFiles` | `DeletedProjectHasNoEvidence`, `VisibleReportHasFile` |
| | `EvidenceTyped` | `TypeOK` of `SourceEvidence` |
| `RemoteProofs` | `WorkspacesAreKept` | `OwnedWorkspaceKept` |
| | `CancellationsBelong`, `CancellationsArrive` | `JavaCancellationsAreOwn`, `JavaCancellationsLand` |
| | `RemoteTyping` | `TypeOK` of `RemoteAnalysis` |

**Slots** (`SlotProofs`). The inductive invariant is `TypeOK /\ RowsInOrder /\
SlotsFenced /\ LeasesHoldSlots`. `SlotsFenced` alone is not inductive:
`FreedSlots` compares tokens, so that the release of a lease frees all its slots
only if they carry its fence, and `LeasesHoldSlots` needs that in turn.
`RowsInOrder` (scan jobs are inserted after their attempt, attempts after their
task) is needed because `CreateTask` and `Retry` write a job row whole: were that
row a leased one, its slots would be lost. The step is proved once for all actions
through `GrantsOrReleases`: every step either is a claim, or releases a set of
leases together with their slots and leaves all other leases as they were.
`OneAnalysis` follows because the limit of an analysis is slot 1 of the global
pool, which two leases cannot both hold.

**Leases** (`LeaseProofs`). The invariant assigns every attempt of a task a
*stage*: it is over, it is driven by its scan job, or it has been handed to its
Trivy job; each stage says which rows the three tables may have, and what fences.
Only the last attempt of a task can be unfinished. A step then does one of three
things, and the module proves each action to be one of them: it moves the last
attempt to a stage the code means it to reach, it cancels what a task has running,
or it leaves the pipeline alone (all post-scan jobs and their runs). `LeaseCoherent`,
`ExecutionDriven` and `RecoveryIsConsistent` are read off the stages: recovery
quarantines nothing but cancelled Python analyses. `NoLateOverwrite` needs two
more facts: a result is stored under a fence not above that of its job
(`PublishedBehind`), and, because a Python publication does not compare fences, a
Python job whose run has begun is not granted again (`PythonBegunOnce`): not after
recovery, nor when `Finish` has queued it after a failed publication.

**Runs** (`RunProofs`). Run and job are written by different transactions, so
that no invariant over the rows alone is inductive. `RunKnown` says for every
position of a worker that holds a lease what it knows of the run: begun, already
terminal, requeued. Every step is classified (`AnalysisStep`) by what it does
to run, job and holder together. The hypothesis `~DbFaults` of three of the theorems
is needed: when a call of the processor fails at the database on the last delivery,
the code ends the job and the run stays active, until its deletion. `RunsEndOnce`
holds with faults. Jobs that were cancelled together with their task are excepted by
the properties themselves, since the code leaves their runs as they are (section 6).

**Storage** (`StorageProofs`). `StorageInv` has four parts. *References*: the set
`References` is finite, counts are exact, and a row that is just being inserted
refers to nothing yet; every step keeps the references, takes one or gives some
back (`RefStep`). *Disk*: a fence names not only its holder but what the holder has
seen of row and file, so that `FencesHeld` says what cannot have changed since;
an import between storing and recording a member still holds its fence
(`ImportersFence`); an upload between preparing and completing has the row it
prepared (`CompletionsHold`). Every step moves rows, files and fences in ways
listed once (`DiskMoves`: a row stays, is touched or is buried), and
`AvailableBlobHasFile` follows for each way. *Samples*: a leased job's task has its
sample and no live retention claim. *Imports*: the holder of the current attempt
has stored what it says, and an old holder cannot complete. Nested images, whose
publication takes no fence, are outside `AvailableBlobHasFile`; with them it is
false (section 6).

**Reports** (`ReportProofs`). `CurrentReportShowsLatest` is not inductive: a
generator that still owns its report must hold the latest results as well.
`Sound` = `Rows` (types, but for the completion times) /\ `Guards` (four facts about
operations and attempts) /\ `Carries` (the strengthening). Every step keeps the results and adds no
report, or takes every report away, but for the snapshot and the completion of a
generator. `ReportsImplementShelf` maps each step to a step of `ReportShelf` or a
stutter.

**Evidence on the disk** (`EvidenceProofs`). `EvidenceInv` adds three parts to `Sound`.
*Disk*: an attempt at work has no row yet (`UnpublishedAtWork`), so that a rollback
removes nobody's files; its directory is too young for the reaper (`PreparedHere`);
and a sweeper works on a project that can never be live again whether or not it
still has its claim (`ClaimsAreOfDeleted`), so that the code may remove directories
without comparing leases. *Erasure*: the holder of a deletion has collected every
run and report there is (`HeldRuns`, `HeldReports`), and none is added before it
finalizes, as no report is claimed or completed while a deletion is open
(`NothingShown`). *Files*: lists of files are read once and worked off later, by
processes that may have lost their claim. What saves the files of other reports is
that a completed report is done with for ever: its request is not made again and
its generator renames nothing more (`KeyedDone`, `SweptDone`, `DeletedDone`). The
parts rest on lemmas that say, variable by variable, what a step may do
(`ReportsMove`, `DeletionsMove`, `RunsMove`, `GeneratorsMove`, `ListsMove`,
`FilesMove`). `EvidenceTyped` needs one more induction: a completion time is one more
than the greatest there is, which exists because only finitely many runs have been
completed at any time (`Timed`, `GreatestIsThere`). The library's induction over
finite sets takes an operator and cannot be used; `WFMin`, which yields a smallest
set without a greatest element, takes its place. `Kempt` and `LeasesInOrder` are two
CHECK constraints of the schema, which no statement of the code violates.

**Remote analyses** (`RemoteProofs`). `WorkspaceInv` rests on `LookStaysTrue`: a lease
that the reaper saw inactive can never be active again, because fences only
advance; so what it decides between its look and its removal stays right. `JavaInv`
rests on identifiers per delivery: a tombstone or a registered analysis is the
delivery's own (`OwnTombstones`), a cancellation is the last request of its delivery
(`CancelledLast`), and a request that is still to be read precedes the analysis being
active (`ActiveRead`), so that a tombstone waits for exactly the request it is meant
for. For the C identifiers the same statement is false (section 6).

Liveness under fairness (`TaskSettles`, `CancellationCompletes`, `LeasesEnd`,
`RunsSettle`, `UploadsGetTasks`, `ImportsEnd`, `DeletionsEnd`,
`OrphansAreReclaimed`, `WorkspacesReclaimed`, `RunSettles`) is out of this prover's reach
and stays with TLC.

## 5. Modelling notes worth a second look

* The claim of a job is one action over all eligible rows; the code takes the
  head of a sorted list of candidates, so that a candidate that cannot take its
  slots may delay those behind it (`queue/repository.go:20`). Starvation is not
  a question the models ask.
* A deletion's row lock order, gap locks and deadlock retries are below the grain
  of an action.
* `VisibleReportHasFile` excepts `withdrawn` generators, `RecoveryIsConsistent`
  excepts cancelled Python analyses, the run properties except jobs cancelled with
  their task, `RunSettles` the runs of `LeftByShutdown`: each exception is a
  behaviour of the code, described in section 6, and none is wider than it.
* `AbandonedAttempts` looks for jobs of the scan only: all other kinds belong to
  attempts that have ended. A queued run whose job has been started ends with the
  request of its project's deletion in `EvidenceDeletion`; the code awaits the worker,
  which `Begin` refuses since the project is no longer live.
* Code that nothing calls is not modelled: the reaper's `CleanupPending` and the
  older `BeginSourceProjectDeletion`/`CompleteSourceProjectDeletion`.

## 6. Disagreements between the code and what it says

Five have a run of their own, whose counterexample shows them:

* **`python_failure`.** `Retry` and `Fail` of the Python repository look for a run
  with the id of the *job* (`pythonanalysis/repository.go:540`); the two ids differ,
  so they always report a lost lease. A transient failure of the first delivery ends
  the job, its run stays `running`, and no other run of the project can be created.
  Violates `RunsRetried`.
* **`retried_cancel`.** The recovery of a cancelled C or Java analysis returns
  before the check that completes the task's cancellation
  (`queue/repository.go:2548`, `:2614`). When it was the last running job of a
  cancelled task, the task stays in `CANCEL_REQUESTED`. Violates
  `CancellationCompletes`; the passing run `live` has one scan, where this cannot
  arise.
* **`nested_blob`.** A scan links or verifies the file of a nested image without the
  blob fence (`scan/derived_blob.go:25`) and inserts the row later; the orphan reaper
  may remove an old file in between. Violates `NestedBlobHasFile`.
* **`stuck_deletion`.** The deletion of an archive, interrupted after it cancelled a
  derived upload, is refused by the reconciliation of every later try
  (`archiveimport/reconciliation_repository.go:15`). Violates `DeletionsEnd` of
  `SampleStorage`.
* **`late_cancel`.** The C processor cancels by run id, which the next delivery
  reuses (`canalysis/processor.go:294`); a late DELETE stops the new delivery.
  Violates `CancellationsAreOwn`, which the Java identifiers satisfy.

Met while modelling, read in the code, without a run of their own:

1. Deletion of Python runs is wired to the Java deleter (`cmd/api/main.go:349`);
   Python runs cannot be deleted, and the deletion of a project ignores them.
2. The JSON report has no Python section, though `ACCEPTANCE.md:115` promises one.
3. A decompile job that published a partial project and is retried finds its
   cache key taken, fails, and leaves a live project of a failed job
   (`Begin` replays `succeeded` only).
4. A report completion whose acknowledgement is lost removes the file of a visible
   report; this is the `withdrawn` exception of `VisibleReportHasFile`.
5. A current report is not invalidated by a later publication of a project.
6. The Python publication locks its job but not the task
   (`pythonanalysis/repository.go:600`): a report may be snapshot between its
   invalidation and its commit. The evidence model has no Python runs.
7. Cancelling a task cancels its queued analysis jobs without their runs
   (`task/repository.go:957`); such a run stays `queued`, occupies its project and
   cannot be cancelled. `CancelledWithTask` excepts it from the run properties.
8. A Python analysis cancelled by the user ends in quarantine: its recovery expects
   the task to be cancelled too (`queue/repository.go:2516`).
9. A checker's cancellation that looks for the analysis before it registers, and
   records its tombstone after the registration looked, is lost for its delivery
   and meets the next one of the same identifier.
10. Extraction hands on container images of nodes marked corrupt (`model.go` calls
   them verified), and the depth check of image partitions uses the display depth.

11. A shutdown that cancels the context of `Begin` makes `Process` return an error
   without touching the run (`canalysis/processor.go:82`), and `Finish` reports it in
   a context of its own (`workerrunner/runner.go:245`). On the last delivery the job
   ends as failed and the run stays `queued`. The same happens in `CancelRun` after
   a checker answered that the analysis was cancelled (`canalysis/processor.go:242`):
   the run stays `running`, with a job that has ended or, before the last delivery, is
   queued and not claimed again. `RunSettles` excepts these runs by `LeftByShutdown`.
12. A failed Python publication returns an error while the lease is held
   (`pythonanalysis/processor.go:187`), and `Finish` queues the job again. Its run is
   `running`, or terminal when the commit was not heard of; no claim takes such a
   job, and a run that is `running` blocks its project as in `python_failure`.

## 7. What is not modelled, and why

* *Unlocked reads.* `recoverCancelledJob` counts the other cancelling jobs
  without a lock; two recoveries in parallel may each count the other. One
  recovery is one action here.
* *Nested projects.* A retried scan deletes nested nodes with their projects and
  runs; all analyses of the model are of root nodes.
* *Begin failing on the last attempt* leaves a run queued; `RunsDriven` is checked
  and proved without database faults. The remote analysis has it, for a shutdown.
* *Python runs* are in `AnalysisRuns` only, not among the evidence of a project nor
  among the remote analyses.
* *Extraction, file formats, decompilers, rendering of reports, Trivy and its
  database*: data, parsers and external tools; the models take their outcome as a
  free choice.
* *HTTP API, authentication, users and audit, vulnerability queries, export,
  configuration, logging, supervisor, web interface, scripts*: they validate and
  forward requests, or only read.
* *The archive sandbox* (`src/internal/archivesandbox`), which runs extraction tools
  for the scan in another process, is coordination and the next cluster to model.

Next, in this order: the archive sandbox (leases of output directories, slots of
tools, calls that are cut off), recovery with its reads and its commit apart,
projects of nested nodes with the retried scan, Python runs among the evidence.
