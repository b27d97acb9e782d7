---------------------------- MODULE SourceEvidence ----------------------------
(***************************************************************************)
(* The evidence of one finished task: publication of sources, runs over    *)
(* them, reports of their results, and the deletions of projects, runs and *)
(* orphans, each step in a transaction of its own.                         *)
(***************************************************************************)
EXTENDS EvidenceDeletion

CONSTANT Plans   \* what happens to a task: [live, engine, requests, loops]

\* Either no decompile job is queued, or one of the two kinds.
ASSUME PlansAreOfTasks ==
    \A plan \in Plans : plan.engine \in {"none", "native", "bytecode"}

Init == \E plan \in Plans : InitWith(plan.live, plan.engine, plan.requests, plan.loops)

PublisherStep(p) ==
    \/ BeginRun(p) \/ RefuseRun(p)
    \/ \E q \in Project : CopyCached(p, q)
    \/ PublishCacheHit(p) \/ DropCopy(p)
    \/ PreparePublication(p) \/ CommitPublication(p) \/ RollBackPublication(p)
    \/ AbandonAnalysis(p) \/ FailRun(p) \/ FinishJob(p) \/ CrashPublisher(p)

JobStep == (\E p \in Project : LeaseJob(p)) \/ ExpireJobLease \/ RecoverJob

RunStep(r) ==
    \/ CreateRun(r) \/ BeginAnalysis(r) \/ PublishAnalysis(r) \/ EndAnalysis(r)
    \/ RequeueAnalysis(r) \/ CancelRun(r)

GeneratorStep(s) ==
    \/ WriteSnapshot(s) \/ AuthorizePublish(s) \/ RenameArtifact(s)
    \/ CompleteReport(s) \/ RejectCompletion(s) \/ RemoveArtifact(s)
    \/ AbandonGeneration(s) \/ FailReport(s) \/ CrashGenerator(s)

ReportStep(s) ==
    ClaimReport(s) \/ ExpireReportLease(s) \/ RenewReport(s) \/ RecoverReport(s)

ProjectDeletionStep(p) ==
    \/ RequestProjectDeletion(p) \/ ExpireDeletionLease(p)
    \/ \E w \in Sweeper : DeferDeletion(w, p) \/ ClaimDeletion(w, p)

SweeperStep(w) ==
    \/ \E files \in SUBSET Report : RemoveReportFiles(w, files)
    \/ RemoveDirectory(w) \/ FinalizeProjectDeletion(w) \/ LeaveProjectDeletion(w)
    \/ RenewDeletion(w)

RunDeletionStep(r) ==
    \/ RequestRunDeletion(r) \/ RecoverRunDeletion(r)
    \/ \E files \in SUBSET Report : RemoveRunReportFiles(r, files)
    \/ FinalizeRunDeletion(r) \/ InterruptRunDeletion(r)

ReaperStep ==
    \/ \E p \in Project : AgeDirectory(p) \/ ReapDirectory(p)
    \/ \E s \in Report : AgeReportFile(s) \/ ReapReportFile(s)

Next ==
    \/ JobStep \/ ReaperStep
    \/ \E p \in Project : PublisherStep(p) \/ ProjectDeletionStep(p)
    \/ \E r \in Run : RunStep(r) \/ RunDeletionStep(r)
    \/ \E s \in Report : GeneratorStep(s) \/ ReportStep(s)
    \/ \E w \in Sweeper : SweeperStep(w)

(***************************************************************************)
(* A process comes to its end or dies; a worker heeds the cancellation of  *)
(* a run; leases end; the maintenance loop sweeps again and again, and     *)
(* among its tries there are some that nothing interrupts.                 *)
(***************************************************************************)
EndCancelled(r) == run[r].status = "cancelling" /\ EndAnalysis(r)

InTime(w) == HoldsDeletion(w) /\ op[sweeper[w].on].live

Fairness ==
    /\ \A p \in Project :
          /\ WF_vars(PublisherStep(p)) /\ WF_vars(ExpireDeletionLease(p))
          /\ WF_vars(\E w \in Sweeper : ClaimDeletion(w, p))
          /\ WF_vars(AgeDirectory(p)) /\ WF_vars(ReapDirectory(p))
    /\ \A r \in Run :
          WF_vars(EndCancelled(r)) /\ WF_vars(RecoverRunDeletion(r))
            /\ WF_vars(InterruptRunDeletion(r))
    /\ SF_vars(\E r \in Run : RemoveRunReportFiles(r, deleter[r].files))
    /\ SF_vars(\E r \in Run : FinalizeRunDeletion(r))
    /\ \A s \in Report :
          WF_vars(GeneratorStep(s)) /\ WF_vars(AgeReportFile(s)) /\ WF_vars(ReapReportFile(s))
    /\ \A w \in Sweeper : WF_vars(LeaveProjectDeletion(w))
    /\ SF_vars(\E w \in Sweeper : InTime(w) /\ RemoveReportFiles(w, sweeper[w].files))
    /\ SF_vars(\E w \in Sweeper : InTime(w) /\ RemoveDirectory(w))
    /\ SF_vars(\E w \in Sweeper : FinalizeProjectDeletion(w))

Spec == Init /\ [][Next]_vars /\ Fairness
-----------------------------------------------------------------------------
TypeOK ==
    /\ project \in [Project -> {"none", "live", "deleted", "erased"}]
    /\ directory \in [Project -> {"none", "fresh", "old"}]
    /\ job \in [status : {"none", "queued", "running", "succeeded", "failed"},
                engine : {"none", "native", "bytecode"}, attempt : 0 .. MaxAttempts,
                holder : Project \cup {NoHolder}, live : BOOLEAN]
    /\ arun \in [Project -> {"none", "running", "succeeded", "partial", "failed"}]
    /\ publisher \in [Project -> [step : {"idle", "leased", "begun", "copied", "prepared",
                                          "published", "failing", "failed"},
                                  source : Project \cup {NoHolder}]]
    /\ run \in [Run -> [status : RunStatus, tombstone : BOOLEAN, at : Nat]]
    /\ report \in [Report -> [status : {"absent", "generating", "complete", "failed"},
                              snapshot : {"staged", "current", "stale"}, deleted : BOOLEAN,
                              owned : BOOLEAN, live : BOOLEAN, shows : SUBSET Run]]
    /\ \A s \in ReportRows :   \* chk_reports_snapshot_lifecycle
          report[s].snapshot # "stale" =>
              /\ report[s].status = IF report[s].snapshot = "current" THEN "complete"
                                                                     ELSE "generating"
              /\ ~report[s].deleted
    /\ generator \in [Report -> [step : {"idle", "claimed", "written", "authorized",
                                         "renamed", "unheard", "rejected", "failing",
                                         "withdrawn"},
                                 shows : SUBSET Run]]
    /\ reportFile \in [Report -> {"none", "fresh", "old"}]
    /\ op \in [Project -> [status : {"none", "pending", "cancelling", "deleting", "failed",
                                     "complete"},
                           holder : Sweeper \cup {NoHolder}, live : BOOLEAN]]
    /\ \A p \in Project :   \* chk_source_project_deletion_operation_lease
          /\ op[p].holder # NoHolder <=> op[p].status = "deleting"
          /\ op[p].live => op[p].holder # NoHolder
    /\ sweeper \in [Sweeper -> [step : {"stopped", "idle", "claimed", "removed"},
                                on : Project \cup {NoHolder}, reports : SUBSET Report,
                                files : SUBSET Report, runs : SUBSET Run]]
    /\ deleter \in [Run -> [step : {"none", "prepared"}, reports : SUBSET Report,
                            files : SUBSET Report]]

(***************************************************************************)
(* The visible report shows, of each live project and language, exactly    *)
(* the run completed last: "an older snapshot can never become current     *)
(* after those results are visible" (internal/report/repository.go:600).   *)
(***************************************************************************)
CurrentReportShowsLatest == \A s \in CurrentReports : report[s].shows = Latest

(***************************************************************************)
(* A report that can be downloaded has its file, whatever its generator,   *)
(* the deletions and the reaper do; the exception is a generator that did  *)
(* not hear of the commit of its completion and removes its file.          *)
(***************************************************************************)
VisibleReportHasFile ==
    \A s \in CurrentReports : reportFile[s] = "none" => generator[s].step = "withdrawn"

\* A project that can be browsed has its directory: no attempt, deletion or
\* reaper removes the files of rows that were committed.
LiveProjectHasDirectory ==
    \A p \in Project : project[p] = "live" => directory[p] # "none"

\* The attempts of a decompile job publish at most one project between them.
PublishedOnce == Cardinality({p \in AttemptsOfJob : project[p] # "none"}) <= 1

(***************************************************************************)
(* When the deletion of a project is complete, no C or Java run over it is *)
(* left, nor its directory, nor a report that shows one of its runs.       *)
(***************************************************************************)
DeletedProjectHasNoEvidence ==
    \A p \in Project : op[p].status = "complete" =>
        /\ directory[p] = "none"
        /\ \A r \in RunsOf(p) : run[r].status = "absent"
        /\ \A s \in Report : report[s].shows \cap RunsOf(p) = {}

\* The reports keep the promise of ReportShelf.
Shelf == INSTANCE ReportShelf WITH
    Evidence <- SUBSET Run, evidence <- Latest,
    shown <- {report[s].shows : s \in CurrentReports}
ReportsAreAShelf == Shelf!Spec
-----------------------------------------------------------------------------
(***************************************************************************)
(* The deletions of projects that were confirmed and of runs that have     *)
(* begun are carried out, by whom ever: the loop "completes deletions      *)
(* whose durable tombstone was committed before the API process could      *)
(* remove files or finalize database rows"                                 *)
(* (internal/report/c_analysis_run_deletion.go:76).                        *)
(***************************************************************************)
DeletionsEnd ==
    (\/ \E p \in Project : project[p] = "deleted"
     \/ \E r \in Run : run[r].tombstone)
    ~> (/\ \A p \in Project : project[p] # "deleted"
        /\ \A r \in Run : ~run[r].tombstone)

\* Files that no row refers to.
Orphans == {p \in Project : directory[p] # "none" /\ project[p] # "live"}
               \cup {s \in Report : reportFile[s] # "none" /\ s \notin KeyedReports}

\* What no row refers to is removed from the disk, or a row appears for it.
OrphansAreReclaimed == Orphans # {} ~> Orphans = {}
=============================================================================
