---------------------------- MODULE ReportProofs ----------------------------
(***************************************************************************)
(* The reports of a task show the latest results, and keep the promise of  *)
(* ReportShelf, for any number of projects, runs, reports and processes.   *)
(*                                                                         *)
(* The invariant that is inductive says two things more than the property: *)
(* a generator that still owns its report holds the latest results (Armed  *)
(* in Carries), and four facts about the rows (Guards) of which the        *)
(* argument needs that the results never change without a report being     *)
(* taken away.  Every step then either keeps the results and adds no       *)
(* report (Kept), or takes every report away (Taken), but for the snapshot *)
(* and the completion of a generator, which have lemmas of their own.      *)
(***************************************************************************)
EXTENDS SourceEvidence, TLAPS

ReportStatus == {"absent", "generating", "complete", "failed"}

ReportRow == [status : ReportStatus, snapshot : {"staged", "current", "stale"},
              deleted : BOOLEAN, owned : BOOLEAN, live : BOOLEAN, shows : SUBSET Run]

\* That the completion time of a run is a number is shown in EvidenceProofs.
RunRow(row) == row \in [status : RunStatus, tombstone : BOOLEAN, at : {row.at}]

RunOutcome  == {"none", "running", "succeeded", "partial", "failed"}
PublisherRow == [step : {"idle", "leased", "begun", "copied", "prepared", "published",
                         "failing", "failed"},
                 source : Project \cup {NoHolder}]
GeneratorRow == [step : {"idle", "claimed", "written", "authorized", "renamed", "unheard",
                         "rejected", "failing", "withdrawn"},
                 shows : SUBSET Run]
OperationRow == [status : {"none", "pending", "cancelling", "deleting", "failed", "complete"},
                 holder : Sweeper \cup {NoHolder}, live : BOOLEAN]
ClaimRow == [step : {"stopped", "idle", "claimed", "removed"},
             on : Project \cup {NoHolder}, reports : SUBSET Report,
             files : SUBSET Report, runs : SUBSET Run]

Reports    == report \in [Report -> ReportRow]
Generators == generator \in [Report -> GeneratorRow]
Runs       == run = [r \in Run |-> run[r]] /\ \A r \in Run : RunRow(run[r])
Projects   == project \in [Project -> {"none", "live", "deleted", "erased"}]
Attempts   == arun \in [Project -> RunOutcome] /\ publisher \in [Project -> PublisherRow]
Operations == op \in [Project -> OperationRow]
Claims     == sweeper \in [Sweeper -> ClaimRow]

Rows == Reports /\ Generators /\ Runs /\ Projects /\ Attempts /\ Operations /\ Claims

\* The rows are of their types in the beginning.
LEMMA InitRows == Init => Rows
<1> SUFFICES ASSUME Init PROVE Rows
  OBVIOUS
<1>1. PICK plan \in Plans :
         InitWith(plan.live, plan.engine, plan.requests, plan.loops)
  BY DEF Init
<1>2. NoReport \in ReportRow
  BY DEF NoReport, ReportRow, ReportStatus
<1>3. Reports
  BY <1>1, <1>2 DEF InitWith, Reports
<1>4. Generators
  BY <1>1 DEF InitWith, Generators, GeneratorRow
<1>5. Runs
  BY <1>1 DEF InitWith, Runs, RunRow, RunStatus, NoRun
<1>6. Projects
  BY <1>1 DEF InitWith, Projects
<1>7. Attempts
  BY <1>1 DEF InitWith, Attempts, RunOutcome, PublisherRow
<1>8. Operations
  BY <1>1 DEF InitWith, Operations, OperationRow
<1>9. Claims
  <2>1. {NoClaim, [NoClaim EXCEPT !.step = "stopped"]} \subseteq ClaimRow
    BY DEF NoClaim, ClaimRow
  <2> QED
    BY <1>1, <2>1 DEF InitWith, Claims
<1> QED
  BY <1>3, <1>4, <1>5, <1>6, <1>7, <1>8, <1>9 DEF Rows

\* A report that loses its owner is still a row.
LEMMA StaleRow ==
    ASSUME NEW row \in ReportRow, NEW status \in ReportStatus
    PROVE  [row EXCEPT !.snapshot = "stale", !.owned = FALSE, !.live = FALSE,
                       !.status = status] \in ReportRow
BY DEF ReportRow

\* InvalidateCurrentTx leaves rows.
LEMMA InvalidatedRows ==
    ASSUME Reports
    PROVE  Invalidated \in [Report -> ReportRow]
<1>1. ASSUME NEW s \in Report
      PROVE  [report[s] EXCEPT !.snapshot = "stale", !.owned = FALSE, !.live = FALSE,
                               !.status = IF @ = "generating" THEN "failed" ELSE @] \in ReportRow
  <2>1. report[s] \in ReportRow
    BY DEF Reports
  <2>2. (IF report[s].status = "generating" THEN "failed" ELSE report[s].status)
            \in ReportStatus
    BY <2>1 DEF ReportRow, ReportStatus
  <2> QED
    BY <2>1, <2>2, StaleRow
<1> QED
  BY <1>1 DEF Reports, Invalidated

\* So does every step of an analysis run.
LEMMA RunsRows ==
    ASSUME Rows, NEW r \in Run, RunStep(r)
    PROVE  Rows'
<1>1. /\ \E new : RunRow(new) /\ run' = [run EXCEPT ![r] = new]
      /\ report' = Invalidated
      /\ UNCHANGED unchangedButRuns
  BY DEF RunStep, CreateRun, BeginAnalysis, PublishAnalysis, EndAnalysis, RequeueAnalysis,
         CancelRun, Advance, RunRow, RunStatus, Rows, Runs
<1>2. Runs'
  BY <1>1 DEF Rows, Runs, RunRow, RunStatus
<1>3. Reports'
  BY <1>1, InvalidatedRows DEF Rows, Reports
<1> QED
  BY <1>1, <1>2, <1>3 DEF unchangedButRuns, publicationVars, deletionVars, Rows,
     Generators, Projects, Attempts, Operations, Claims
-----------------------------------------------------------------------------
\* A project with an open deletion is hidden.
DeletionsTombstone == \A p \in Project : DeletionActive(p) => project[p] = "deleted"

\* A deletion removes runs of its own project only.
ClaimsOwnRuns == \A w \in Sweeper : sweeper[w].runs \subseteq RunsOf(sweeper[w].on)

\* A result is the result over a project that has been published.
RunsHaveProjects ==
    \A r \in Run : run[r].status = "done" => project[RunProject[r]] # "none"

\* An attempt prepares a publication only after its run has begun.
AttemptsBegun ==
    \A p \in Project : publisher[p].step \in {"begun", "copied", "prepared"} => arun[p] # "none"

Guards == DeletionsTombstone /\ ClaimsOwnRuns /\ RunsHaveProjects /\ AttemptsBegun

\* A report that can be downloaded; a generator whose report will be, if it
\* is let finish.
Visible(s) == s \in CurrentReports
Armed(s) == Owned(s) /\ generator[s].step \in {"written", "authorized", "renamed"}

\* The results stay, and nothing becomes visible.
Kept ==
    /\ Latest' = Latest
    /\ \A s \in Report : Visible(s)' => Visible(s) /\ report'[s].shows = report[s].shows
    /\ \A s \in Report : Armed(s)' => Armed(s) /\ generator'[s].shows = generator[s].shows

\* No report is left, and none can be completed.
Taken == \A s \in Report : ~Visible(s)' /\ ~Owned(s)'

\* A run that a report may show.
Counts(r) == /\ run[r].status = "done" /\ ~run[r].tombstone
             /\ project[RunProject[r]] = "live"

\* Latest, in terms of the runs that count.
LEMMA LatestCounts ==
    Latest = {r \in Run :
                 /\ Counts(r)
                 /\ \A q \in Run :
                       /\ Counts(q) /\ RunProject[q] = RunProject[r]
                       /\ RunLanguage[q] = RunLanguage[r]
                       => run[q].at <= run[r].at}
BY DEF Latest, Shown, RunsOf, Counts

\* The latest results are a function of which runs count, and since when.
LEMMA LatestSame ==
    ASSUME \A r \in Run : Counts(r)' <=> Counts(r),
           \A r \in Run : Counts(r) => run'[r].at = run[r].at
    PROVE  Latest' = Latest
<1>1. Latest' = {r \in Run :
                 /\ Counts(r)'
                 /\ \A q \in Run :
                       /\ Counts(q)' /\ RunProject[q] = RunProject[r]
                       /\ RunLanguage[q] = RunLanguage[r]
                       => run'[q].at <= run'[r].at}
  BY DEF Latest, Shown, RunsOf, Counts
<1> QED
  BY <1>1, LatestCounts

\* A step that touches no project, run or report keeps them.
LEMMA UntouchedKept ==
    ASSUME UNCHANGED <<project, run, report, generator>>
    PROVE  Kept
<1>1. Latest' = Latest
  BY LatestSame DEF Counts
<1> QED
  BY <1>1 DEF Kept, Visible, Armed, Owned, Staged, CurrentReports

\* InvalidateCurrentTx takes every report away, the staged ones included.
LEMMA InvalidatedTaken ==
    ASSUME Reports, report' = Invalidated
    PROVE  Taken
BY ZenonT(60) DEF Taken, Visible, CurrentReports, Owned, Staged, Invalidated, Reports, ReportRow, ReportStatus

Step == Rows' /\ Guards' /\ (Kept \/ Taken)

\* Steps that touch none of the rows the reports depend on.
LEMMA UntouchedStep ==
    ASSUME Rows, Guards,
           UNCHANGED <<project, run, report, generator, arun>>,
           Attempts', Operations', Claims', DeletionsTombstone', ClaimsOwnRuns', AttemptsBegun'
    PROVE  Step
<1>1. Reports' /\ Generators' /\ Runs' /\ Projects'
  BY DEF Rows, Reports, Generators, Runs, Projects
<1>2. RunsHaveProjects'
  BY DEF Guards, RunsHaveProjects
<1> QED
  BY <1>1, <1>2, UntouchedKept DEF Step, Rows, Guards

\* Every step of a run takes the reports away.
LEMMA RunsTake ==
    ASSUME Rows, Guards, NEW r \in Run, RunStep(r)
    PROVE  Step
<1>1. report' = Invalidated /\ UNCHANGED unchangedButRuns
  BY DEF RunStep, CreateRun, BeginAnalysis, PublishAnalysis, EndAnalysis, RequeueAnalysis,
         CancelRun, Advance
<1>2. Taken
  BY <1>1, InvalidatedTaken DEF Rows
<1>3. \A q \in Run : run'[q].status = "done" => run[q].status = "done" \/ ProjectLive(q)
  BY DEF RunStep, CreateRun, BeginAnalysis, PublishAnalysis, EndAnalysis, RequeueAnalysis,
         CancelRun, Advance, Rows, Runs, RunRow, RunStatus
<1>4. RunsHaveProjects'
  BY <1>1, <1>3 DEF Guards, RunsHaveProjects, ProjectLive, unchangedButRuns
<1>5. DeletionsTombstone' /\ ClaimsOwnRuns' /\ AttemptsBegun'
  BY <1>1 DEF Guards, DeletionsTombstone, DeletionActive, ClaimsOwnRuns, AttemptsBegun,
     unchangedButRuns, publicationVars, deletionVars
<1> QED
  BY <1>2, <1>4, <1>5, RunsRows DEF Step, Guards

\* Publication of a project adds no result: no run can be over it yet.
LEMMA PublisherKeeps ==
    ASSUME Rows, Guards, NEW p \in Project, PublisherStep(p)
    PROVE  Step
<1> USE DEF Moved, At
<1>1. UNCHANGED unchangedButPublication
  BY DEF PublisherStep, BeginRun, RefuseRun, CopyCached, PublishCacheHit, DropCopy,
     PreparePublication, CommitPublication, RollBackPublication, AbandonAnalysis, FailRun,
     FinishJob, CrashPublisher
<1>2. Attempts'
  <2>1. arun' \in [Project -> RunOutcome]
    BY DEF PublisherStep, BeginRun, RefuseRun, CopyCached, PublishCacheHit, DropCopy,
       PreparePublication, CommitPublication, RollBackPublication, AbandonAnalysis, FailRun,
       FinishJob, CrashPublisher, Rows, Attempts, RunOutcome, Insert, Superseded
  <2>2. \/ \E step \in {"published", "begun", "failed", "failing", "prepared", "idle"} :
               publisher' = [publisher EXCEPT ![p].step = step]
        \/ \E q \in Project : publisher' = [publisher EXCEPT ![p] = [step |-> "copied", source |-> q]]
    BY DEF PublisherStep, BeginRun, RefuseRun, CopyCached, PublishCacheHit, DropCopy,
       PreparePublication, CommitPublication, RollBackPublication, AbandonAnalysis, FailRun,
       FinishJob, CrashPublisher
  <2>3. publisher' \in [Project -> PublisherRow]
    <3>1. \A step \in {"published", "begun", "failed", "failing", "prepared", "idle"} :
              [publisher[p] EXCEPT !.step = step] \in PublisherRow
      BY DEF Rows, Attempts, PublisherRow
    <3>2. \A q \in Project : [step |-> "copied", source |-> q] \in PublisherRow
      BY DEF PublisherRow
    <3> QED
      BY <2>2, <3>1, <3>2 DEF Rows, Attempts
  <2> QED
    BY <2>1, <2>3 DEF Attempts
<1>3. AttemptsBegun'
  BY DEF PublisherStep, BeginRun, RefuseRun, CopyCached, PublishCacheHit, DropCopy,
     PreparePublication, CommitPublication, RollBackPublication, AbandonAnalysis, FailRun,
     FinishJob, CrashPublisher, Rows, Attempts, PublisherRow, RunOutcome, Insert, Superseded,
     Guards, AttemptsBegun
<1>4. \/ project' = project
      \/ project[p] = "none" /\ project' = [project EXCEPT ![p] = "live"]
  <2>1. CASE CommitPublication(p)
    <3>1. arun[p] # "none"
      BY <2>1 DEF CommitPublication, Guards, AttemptsBegun
    <3> QED
      BY <2>1, <3>1 DEF CommitPublication, Insert, NoneInserted, AttemptsOfJob
  <2>2. CASE PublishCacheHit(p)
    BY <2>2 DEF PublishCacheHit, Insert, NoneInserted, AttemptsOfJob
  <2> QED
    BY <2>1, <2>2 DEF PublisherStep, BeginRun, RefuseRun, CopyCached, DropCopy,
       PreparePublication, RollBackPublication, AbandonAnalysis, FailRun, FinishJob,
       CrashPublisher
<1>5. Latest' = Latest
  <2>1. run' = run
    BY <1>1 DEF unchangedButPublication
  <2>2. \A r \in Run : Counts(r)' <=> Counts(r)
    BY <2>1, <1>4, EvidenceIsWellFormed DEF Counts, Guards, RunsHaveProjects, Rows, Projects
  <2> QED
    BY <2>1, <2>2, LatestSame
<1>6. Kept
  BY <1>1, <1>5 DEF Kept, Visible, Armed, Owned, Staged, CurrentReports,
     unchangedButPublication, reportVars
<1>7. Rows'
  BY <1>1, <1>2, <1>4 DEF unchangedButPublication, reportVars, deletionVars, Rows, Reports,
     Generators, Runs, Projects, Operations, Claims
<1>8. DeletionsTombstone' /\ ClaimsOwnRuns' /\ RunsHaveProjects'
  BY <1>1, <1>4, EvidenceIsWellFormed DEF Guards, DeletionsTombstone, DeletionActive,
     ClaimsOwnRuns, RunsHaveProjects, unchangedButPublication, deletionVars, Rows, Projects
<1> QED
  BY <1>3, <1>6, <1>7, <1>8 DEF Step, Guards

\* The lease of the decompile job is none of the reports' business.
LEMMA JobKeeps ==
    ASSUME Rows, Guards, JobStep
    PROVE  Step
<1> USE DEF Moved, At
<1>1. UNCHANGED <<project, run, report, generator, arun, op, sweeper>>
  BY DEF JobStep, LeaseJob, ExpireJobLease, RecoverJob, unchangedButPublication, reportVars,
     deletionVars
<1>2. Attempts' /\ AttemptsBegun'
  <2>1. CASE UNCHANGED publisher
    BY <1>1, <2>1 DEF Rows, Attempts, Guards, AttemptsBegun
  <2>2. ASSUME NEW p \in Project, publisher' = [publisher EXCEPT ![p].step = "leased"]
        PROVE  Attempts' /\ AttemptsBegun'
    BY <1>1, <2>2 DEF Rows, Attempts, PublisherRow, Guards, AttemptsBegun
  <2> QED
    BY <2>1, <2>2 DEF JobStep, LeaseJob, ExpireJobLease, RecoverJob
<1>3. Operations' /\ Claims' /\ DeletionsTombstone' /\ ClaimsOwnRuns'
  BY <1>1 DEF Rows, Operations, Claims, Guards, DeletionsTombstone, DeletionActive,
     ClaimsOwnRuns
<1> QED
  BY <1>1, <1>2, <1>3, UntouchedStep

\* Nor are the reaper's steps.
LEMMA ReaperKeeps ==
    ASSUME Rows, Guards, ReaperStep
    PROVE  Step
<1>1. UNCHANGED <<project, run, report, generator, arun, publisher, op, sweeper>>
  BY DEF ReaperStep, AgeDirectory, ReapDirectory, AgeReportFile, ReapReportFile,
     publicationVars, reportVars, deletionVars
<1> QED
  BY <1>1, UntouchedStep DEF Rows, Attempts, Operations, Claims, Guards, DeletionsTombstone,
     DeletionActive, ClaimsOwnRuns, AttemptsBegun

\* Claim, renewal, expiry and recovery of a report make none visible.
LEMMA ReportKeeps ==
    ASSUME Rows, Guards, NEW s \in Report, ReportStep(s)
    PROVE  Step
<1>1. /\ UNCHANGED unchangedButReports
      /\ generator' = generator \/ generator' = [generator EXCEPT ![s].step = "claimed"]
  BY DEF ReportStep, ClaimReport, ExpireReportLease, RenewReport, RecoverReport, Turned
<1>2. Reports'
  <2>1. [NoReport EXCEPT !.status = "generating", !.owned = TRUE, !.live = TRUE] \in ReportRow
    BY DEF NoReport, ReportRow, ReportStatus
  <2>2. Failed(report[s]) \in ReportRow
    BY DEF Failed, Rows, Reports, ReportRow, ReportStatus
  <2>3. \A up \in BOOLEAN : [report[s] EXCEPT !.live = up] \in ReportRow
    BY DEF Rows, Reports, ReportRow
  <2>4. \E row \in ReportRow : report' = [report EXCEPT ![s] = row]
    <3>1. CASE ClaimReport(s)
      BY <3>1, <2>1 DEF ClaimReport
    <3>2. CASE RecoverReport(s)
      BY <3>2, <2>2 DEF RecoverReport
    <3>3. CASE ExpireReportLease(s) \/ RenewReport(s)
      BY <3>3, <2>3 DEF ExpireReportLease, RenewReport
    <3> QED
      BY <3>1, <3>2, <3>3 DEF ReportStep
  <2> QED
    BY <2>4 DEF Rows, Reports
<1>3. Generators'
  BY <1>1 DEF Rows, Generators, GeneratorRow
<1>4. Latest' = Latest
  BY <1>1, LatestSame DEF Counts, unchangedButReports
<1>5. Kept
  <2>1. ASSUME NEW t \in Report, Visible(t)'
        PROVE  Visible(t) /\ report'[t].shows = report[t].shows
    <3>1. CASE ClaimReport(s)
      BY <2>1, <3>1 DEF ClaimReport, NoReport, Visible, CurrentReports, Rows, Reports
    <3>2. CASE RecoverReport(s)
      BY <2>1, <3>2 DEF RecoverReport, Visible, CurrentReports, Failed, Rows, Reports,
         ReportRow, ReportStatus
    <3>3. CASE ExpireReportLease(s) \/ RenewReport(s)
      BY <2>1, <3>3 DEF ExpireReportLease, RenewReport, Visible, CurrentReports, Rows, Reports,
         ReportRow
    <3> QED
      BY <3>1, <3>2, <3>3 DEF ReportStep
  <2>2. ASSUME NEW t \in Report, Armed(t)'
        PROVE  Armed(t) /\ generator'[t].shows = generator[t].shows
    <3>1. CASE ClaimReport(s)
      BY <2>2, <3>1 DEF ClaimReport, Turned, Armed, Owned, Staged, Rows, Reports, Generators,
         GeneratorRow
    <3>2. CASE RecoverReport(s)
      BY <2>2, <3>2 DEF RecoverReport, Armed, Owned, Staged, Failed, Rows, Reports, ReportRow
    <3>3. CASE ExpireReportLease(s) \/ RenewReport(s)
      BY <2>2, <3>3 DEF ExpireReportLease, RenewReport, Armed, Owned, Staged, Rows, Reports,
         ReportRow
    <3> QED
      BY <3>1, <3>2, <3>3 DEF ReportStep
  <2> QED
    BY <1>4, <2>1, <2>2 DEF Kept
<1>6. Runs' /\ Projects' /\ Attempts' /\ Operations' /\ Claims'
  BY <1>1 DEF unchangedButReports, publicationVars, deletionVars, Rows, Runs, Projects,
     Attempts, Operations, Claims
<1>7. Guards'
  BY <1>1 DEF unchangedButReports, publicationVars, deletionVars, Guards, DeletionsTombstone,
     DeletionActive, ClaimsOwnRuns, RunsHaveProjects, AttemptsBegun
<1> QED
  BY <1>2, <1>3, <1>5, <1>6, <1>7 DEF Step, Rows

\* Cancelling the runs of a project changes no result.
LEMMA CancelledRuns ==
    ASSUME Runs, NEW p \in Project, run' = Cancelled(p)
    PROVE  /\ Runs'
           /\ \A r \in Run : /\ run'[r].status = "done" <=> run[r].status = "done"
                             /\ run'[r].tombstone = run[r].tombstone
                             /\ run'[r].at = run[r].at
<1>1. \A r \in Run : \/ run'[r] = run[r]
                     \/ /\ run[r].status \in {"queued", "running"}
                        /\ \/ run'[r] = [run[r] EXCEPT !.status = "ended"]
                           \/ run'[r] = [run[r] EXCEPT !.status = "cancelling"]
  BY DEF Cancelled
<1>2. run' = [r \in Run |-> run'[r]]
  BY DEF Cancelled
<1> QED
  BY <1>1, <1>2 DEF Runs, RunRow, RunStatus

\* So the reports stay what they are.
LEMMA CancelledKeeps ==
    ASSUME Rows, Guards, NEW p \in Project, run' = Cancelled(p),
           UNCHANGED <<project, report, generator>>
    PROVE  Runs' /\ Kept /\ RunsHaveProjects'
<1>1. Latest' = Latest
  BY CancelledRuns, LatestSame DEF Counts, Rows
<1>2. Kept
  BY <1>1 DEF Kept, Visible, CurrentReports, Armed, Owned, Staged
<1> QED
  BY <1>2, CancelledRuns DEF Rows, Guards, RunsHaveProjects

\* Hiding the reports of a task takes all of them away.
LEMMA HiddenTakes ==
    ASSUME Reports, report' = Hidden
    PROVE  Reports' /\ Taken
<1>1. \A s \in Report : report'[s] = report[s] \/
          report'[s] = [report[s] EXCEPT !.snapshot = "stale", !.owned = FALSE, !.live = FALSE]
  BY DEF Hidden
<1>2. \A s \in Report : [report[s] EXCEPT !.snapshot = "stale", !.owned = FALSE,
                                          !.live = FALSE] \in ReportRow
  BY DEF Reports, ReportRow
<1>3. Reports'
  BY <1>1, <1>2 DEF Hidden, Reports
<1>4. ASSUME NEW s \in Report
      PROVE  ~Visible(s)' /\ ~Owned(s)'
  BY DEF Hidden, Reports, ReportRow, ReportStatus, Visible, CurrentReports, Owned, Staged
<1> QED
  BY <1>3, <1>4 DEF Taken

\* The request to delete a project does so with the project's tombstone.
LEMMA RequestTakes ==
    ASSUME Rows, Guards, NEW p \in Project, RequestProjectDeletion(p)
    PROVE  Step
<1>1. /\ run' = Cancelled(p) /\ report' = Hidden
      /\ project' = [project EXCEPT ![p] = "deleted"]
      /\ UNCHANGED <<arun, publisher, generator, sweeper>>
      /\ \E status \in {"cancelling", "pending"} : op' = [op EXCEPT ![p].status = status]
  BY DEF RequestProjectDeletion, unchangedButEvidence, publicationVars
<1>2. Runs' /\ \A r \in Run : run'[r].status = "done" <=> run[r].status = "done"
  BY <1>1, CancelledRuns DEF Rows
<1>3. Reports' /\ Taken
  BY <1>1, HiddenTakes DEF Rows
<1>4. Generators' /\ Projects' /\ Attempts' /\ Operations' /\ Claims'
  BY <1>1 DEF Rows, Generators, Projects, Attempts, Operations, OperationRow, Claims
<1>5. RunsHaveProjects' /\ DeletionsTombstone'
  BY <1>1, <1>2, EvidenceIsWellFormed DEF Guards, RunsHaveProjects, DeletionsTombstone,
     DeletionActive, Rows, Projects, Operations, OperationRow
<1>6. ClaimsOwnRuns' /\ AttemptsBegun'
  BY <1>1 DEF Guards, ClaimsOwnRuns, AttemptsBegun
<1> QED
  BY <1>2, <1>3, <1>4, <1>5, <1>6 DEF Step, Rows, Guards

\* Claiming or deferring the deletion finds the project already hidden.
LEMMA DeferKeeps ==
    ASSUME Rows, Guards, NEW p \in Project, NEW w \in Sweeper,
           DeferDeletion(w, p) \/ ClaimDeletion(w, p)
    PROVE  Step
<1>1. /\ run' = Cancelled(p) /\ Claimable(p)
      /\ UNCHANGED <<project, report, generator, arun, publisher>>
  BY DEF DeferDeletion, ClaimDeletion, unchangedButEvidence, publicationVars
<1>2. \E row \in OperationRow : op' = [op EXCEPT ![p] = row]
  BY DEF DeferDeletion, ClaimDeletion, OperationRow
<1>3. \/ UNCHANGED sweeper
      \/ \E row \in ClaimRow : /\ sweeper' = [sweeper EXCEPT ![w] = row]
                               /\ row.runs \subseteq RunsOf(row.on)
  <2>1. [step |-> "claimed", on |-> p, reports |-> ReportRows, files |-> KeyedReports,
         runs |-> {r \in RunsOf(p) : run'[r].status \in TerminalRun}] \in ClaimRow
    BY DEF ClaimRow, ReportRows, KeyedReports, RunsOf
  <2> QED
    BY <2>1 DEF DeferDeletion, ClaimDeletion
<1>4. Operations' /\ Claims' /\ Attempts' /\ Reports' /\ Generators' /\ Projects'
  BY <1>1, <1>2, <1>3 DEF Rows, Operations, Claims, Attempts, Reports, Generators, Projects
<1>5. DeletionsTombstone'
  BY <1>1, <1>2 DEF Guards, DeletionsTombstone, DeletionActive, Claimable, Rows, Operations
<1>6. ClaimsOwnRuns' /\ AttemptsBegun'
  BY <1>1, <1>3 DEF Guards, ClaimsOwnRuns, AttemptsBegun, Rows, Claims
<1> QED
  BY <1>1, <1>4, <1>5, <1>6, CancelledKeeps DEF Step, Rows, Guards

\* The end of a deletion's lease changes nothing of it.
LEMMA ExpiryKeeps ==
    ASSUME Rows, Guards, NEW p \in Project, ExpireDeletionLease(p)
    PROVE  Step
<1>1. /\ UNCHANGED <<project, run, report, generator, arun, publisher, sweeper>>
      /\ op' = [op EXCEPT ![p].live = FALSE]
  BY DEF ExpireDeletionLease, unchangedButEvidence, publicationVars
<1>2. Operations' /\ DeletionsTombstone'
  BY <1>1 DEF Rows, Operations, OperationRow, Guards, DeletionsTombstone, DeletionActive
<1> QED
  BY <1>1, <1>2, UntouchedStep DEF Rows, Attempts, Claims, Guards, ClaimsOwnRuns, AttemptsBegun

\* Removing rows of reports makes none visible.
LEMMA WithoutKeeps ==
    ASSUME Rows, NEW gone, report' = Without(report, gone), UNCHANGED generator,
           Latest' = Latest
    PROVE  Reports' /\ Kept
<1>1. NoReport \in ReportRow
  BY DEF NoReport, ReportRow, ReportStatus
<1>2. Reports'
  BY <1>1 DEF Without, Rows, Reports
<1> QED
  BY <1>2 DEF Without, NoReport, Kept, Visible, CurrentReports, Armed, Owned, Staged

\* The end of a deletion removes runs that no report shows any more.
LEMMA FinalizeKeeps ==
    ASSUME Rows, Guards, NEW w \in Sweeper, FinalizeProjectDeletion(w)
    PROVE  Step
<1> DEFINE p == sweeper[w].on
<1>1. /\ HoldsDeletion(w)
      /\ report' = Without(report, sweeper[w].reports)
      /\ run' = [r \in Run |-> IF r \in sweeper[w].runs THEN NoRun ELSE run[r]]
      /\ project' = [project EXCEPT ![p] = "erased"]
      /\ op' = [op EXCEPT ![p] = [status |-> "complete", holder |-> NoHolder, live |-> FALSE]]
      /\ sweeper' = [sweeper EXCEPT ![w] = NoClaim]
      /\ UNCHANGED <<generator, arun, publisher>>
  BY DEF FinalizeProjectDeletion, unchangedButEvidence, publicationVars
<1>2. p \in Project => project[p] = "deleted"
  BY <1>1 DEF HoldsDeletion, Guards, DeletionsTombstone, DeletionActive
<1>3. sweeper[w].runs \subseteq RunsOf(p)
  BY DEF Guards, ClaimsOwnRuns
<1>4. Latest' = Latest
  <2>1. \A r \in Run : Counts(r)' <=> Counts(r)
    BY <1>1, <1>2, <1>3, EvidenceIsWellFormed DEF Counts, NoRun, RunsOf, Rows, Projects
  <2>2. \A r \in Run : Counts(r) => run'[r].at = run[r].at
    BY <1>1, <1>2, <1>3, EvidenceIsWellFormed DEF Counts, RunsOf
  <2> QED
    BY <2>1, <2>2, LatestSame
<1>5. Reports' /\ Kept
  BY <1>1, <1>4, WithoutKeeps
<1>6. Runs' /\ RunsHaveProjects'
  BY <1>1, EvidenceIsWellFormed DEF Rows, Runs, RunRow, RunStatus, NoRun, Guards, RunsHaveProjects, Projects
<1>7. Operations' /\ Claims' /\ Projects' /\ Generators' /\ Attempts'
  <2>1. NoClaim \in ClaimRow
    BY DEF NoClaim, ClaimRow
  <2>2. [status |-> "complete", holder |-> NoHolder, live |-> FALSE] \in OperationRow
    BY DEF OperationRow
  <2> QED
    BY <1>1, <2>1, <2>2 DEF Rows, Operations, Claims, Projects, Generators, Attempts
<1>8. DeletionsTombstone' /\ ClaimsOwnRuns' /\ AttemptsBegun'
  BY <1>1, <1>2 DEF Guards, DeletionsTombstone, DeletionActive, ClaimsOwnRuns, AttemptsBegun,
     NoClaim, Rows, Operations, Projects, Claims
<1> QED
  BY <1>5, <1>6, <1>7, <1>8 DEF Step, Rows, Guards

\* No step of the maintenance loop changes what the reports show.
LEMMA SweeperKeeps ==
    ASSUME Rows, Guards, NEW w \in Sweeper, SweeperStep(w)
    PROVE  Step
<1>1. CASE FinalizeProjectDeletion(w)
  BY <1>1, FinalizeKeeps
<1>2. CASE LeaveProjectDeletion(w)
  <2>1. UNCHANGED <<project, run, report, generator, arun, publisher>>
    BY <1>2 DEF LeaveProjectDeletion, unchangedButEvidence, publicationVars
  <2>2. Operations' /\ DeletionsTombstone'
    <3>1. [status |-> "failed", live |-> FALSE, holder |-> NoHolder] \in OperationRow
      BY DEF OperationRow
    <3> QED
      BY <1>2, <2>1, <3>1 DEF LeaveProjectDeletion, HoldsDeletion, Rows, Operations, Guards,
         DeletionsTombstone, DeletionActive
  <2>3. Claims' /\ ClaimsOwnRuns'
    <3>1. NoClaim \in ClaimRow /\ NoClaim.runs = {}
      BY DEF NoClaim, ClaimRow
    <3> QED
      BY <1>2, <3>1 DEF LeaveProjectDeletion, Rows, Claims, Guards, ClaimsOwnRuns
  <2> QED
    BY <2>1, <2>2, <2>3, UntouchedStep DEF Rows, Attempts, Guards, AttemptsBegun
<1>3. CASE RenewDeletion(w)
  <2>1. /\ UNCHANGED <<project, run, report, generator, arun, publisher, sweeper>>
        /\ op' = [op EXCEPT ![sweeper[w].on].live = TRUE]
    BY <1>3 DEF RenewDeletion, unchangedButEvidence, publicationVars
  <2>2. Operations' /\ DeletionsTombstone'
    BY <2>1 DEF Rows, Operations, OperationRow, Guards, DeletionsTombstone, DeletionActive
  <2> QED
    BY <2>1, <2>2, UntouchedStep DEF Rows, Attempts, Claims, Guards, ClaimsOwnRuns,
       AttemptsBegun
<1>4. CASE RemoveDirectory(w) \/ \E files \in SUBSET Report : RemoveReportFiles(w, files)
  <2>1. UNCHANGED <<project, run, report, generator, arun, publisher, op>>
    BY <1>4 DEF RemoveDirectory, RemoveReportFiles, publicationVars, reportVars
  <2>2. \/ sweeper' = [sweeper EXCEPT ![w].step = "removed"]
        \/ \E files \in SUBSET Report : sweeper' = [sweeper EXCEPT ![w].files = @ \ files]
    BY <1>4 DEF RemoveDirectory, RemoveReportFiles
  <2>3. Claims' /\ ClaimsOwnRuns'
    BY <2>2 DEF Rows, Claims, ClaimRow, Guards, ClaimsOwnRuns
  <2> QED
    BY <2>1, <2>3, UntouchedStep DEF Rows, Attempts, Operations, Guards, DeletionsTombstone,
       DeletionActive, AttemptsBegun
<1> QED
  BY <1>1, <1>2, <1>3, <1>4 DEF SweeperStep

\* The tombstone of a run takes every report of the task away.
LEMMA EntombTakes ==
    ASSUME Rows, Guards, NEW r \in Run, Entomb(r)
    PROVE  Step
<1>1. /\ run' = [run EXCEPT ![r].tombstone = TRUE]
      /\ UNCHANGED <<project, op, sweeper, generator, arun, publisher>>
  BY DEF Entomb, unchangedButEvidence, publicationVars
<1>2. Reports'
  <2>1. \A s \in Report : [report[s] EXCEPT !.snapshot = "stale", !.deleted = TRUE,
                                            !.owned = FALSE, !.live = FALSE] \in ReportRow
    BY DEF Rows, Reports, ReportRow
  <2> QED
    BY <2>1 DEF Entomb, Rows, Reports
<1>3. Taken
  BY DEF Entomb, Taken, ReportRows, Visible, CurrentReports, Owned, Staged, Rows, Reports,
     ReportRow
<1>4. Runs'
  <2>1. RunRow([run[r] EXCEPT !.tombstone = TRUE])
    BY DEF Rows, Runs, RunRow, RunStatus
  <2> QED
    BY <1>1, <2>1 DEF Rows, Runs
<1>7. RunsHaveProjects'
  <2>1. \A q \in Run : run'[q].status = run[q].status
    BY <1>1 DEF Rows, Runs, RunRow, RunStatus
  <2> QED
    BY <1>1, <2>1 DEF Guards, RunsHaveProjects
<1>5. Projects' /\ Attempts' /\ Operations' /\ Claims' /\ Generators'
  BY <1>1 DEF Rows, Projects, Attempts, Operations, Claims, Generators
<1>6. DeletionsTombstone' /\ ClaimsOwnRuns' /\ AttemptsBegun'
  BY <1>1 DEF Guards, DeletionsTombstone, DeletionActive, ClaimsOwnRuns, AttemptsBegun
<1> QED
  BY <1>2, <1>3, <1>4, <1>5, <1>6, <1>7 DEF Step, Rows, Guards

\* Every step that deletes a run keeps or takes.
LEMMA RunDeletionKeeps ==
    ASSUME Rows, Guards, NEW r \in Run, RunDeletionStep(r)
    PROVE  Step
<1>1. CASE RequestRunDeletion(r) \/ RecoverRunDeletion(r)
  BY <1>1, EntombTakes DEF RequestRunDeletion, RecoverRunDeletion
<1>2. CASE \/ InterruptRunDeletion(r)
           \/ \E files \in SUBSET Report : RemoveRunReportFiles(r, files)
  <2>1. UNCHANGED <<project, run, report, generator, arun, publisher, op, sweeper>>
    BY <1>2 DEF InterruptRunDeletion, RemoveRunReportFiles, unchangedButEvidence,
       publicationVars, reportVars
  <2> QED
    BY <2>1, UntouchedStep DEF Rows, Attempts, Operations, Claims, Guards,
       DeletionsTombstone, DeletionActive, ClaimsOwnRuns, AttemptsBegun
<1>3. CASE FinalizeRunDeletion(r)
  <2>1. /\ run[r].tombstone
        /\ report' = Without(report, deleter[r].reports)
        /\ run' = [run EXCEPT ![r] = NoRun]
        /\ UNCHANGED <<project, op, sweeper, generator, arun, publisher>>
    BY <1>3 DEF FinalizeRunDeletion, unchangedButEvidence, publicationVars
  <2>2. Latest' = Latest
    BY <2>1, LatestSame DEF Counts, NoRun, Rows, Runs
  <2>3. Reports' /\ Kept
    BY <2>1, <2>2, WithoutKeeps
  <2>4. Runs' /\ RunsHaveProjects'
    BY <2>1 DEF Rows, Runs, RunRow, RunStatus, NoRun, Guards, RunsHaveProjects
  <2>5. Projects' /\ Attempts' /\ Operations' /\ Claims' /\ Generators'
    BY <2>1 DEF Rows, Projects, Attempts, Operations, Claims, Generators
  <2>6. DeletionsTombstone' /\ ClaimsOwnRuns' /\ AttemptsBegun'
    BY <2>1 DEF Guards, DeletionsTombstone, DeletionActive, ClaimsOwnRuns, AttemptsBegun
  <2> QED
    BY <2>3, <2>4, <2>5, <2>6 DEF Step, Rows, Guards
<1> QED
  BY <1>1, <1>2, <1>3 DEF RunDeletionStep
-----------------------------------------------------------------------------
\* What is visible, and what will be visible if its generator gets to an end,
\* shows the latest results.
Carries ==
    \A s \in Report : /\ Visible(s) => report[s].shows = Latest
                      /\ Armed(s) => generator[s].shows = Latest

\* What the shelf holds, and a step of it.
ShownSet == {report[s].shows : s \in CurrentReports}

ShelfStep == Shelf!Next \/ UNCHANGED <<Latest, ShownSet>>

\* What the shelf holds is what visible reports show.
LEMMA ShownWhatVisible ==
    /\ ShownSet = {report[s].shows : s \in {t \in Report : Visible(t)}}
    /\ ShownSet' = {report'[s].shows : s \in {t \in Report : Visible(t)'}}
BY DEF ShownSet, Visible, CurrentReports

\* A step that keeps the results withdraws some reports or none.
LEMMA KeptCarries ==
    ASSUME Carries, Kept
    PROVE  Carries' /\ ShelfStep
<1>1. Carries'
  BY DEF Carries, Kept
<1>2. ShownSet' = {} \/ ShownSet' = ShownSet
  BY ShownWhatVisible DEF Carries, Kept
<1> QED
  BY <1>1, <1>2 DEF ShelfStep, Kept, ShownSet, Shelf!Next, Shelf!Withdraw

\* A step that takes the reports away may change the results.
LEMMA TakenCarries ==
    ASSUME Taken
    PROVE  Carries' /\ ShelfStep
<1>1. Carries'
  BY DEF Taken, Carries, Armed
<1>2. ShownSet' = {}
  BY ShownWhatVisible DEF Taken
<1>3. Latest' \in SUBSET Run
  BY DEF Latest
<1> QED
  BY <1>1, <1>2, <1>3 DEF ShelfStep, ShownSet, Shelf!Next, Shelf!Change
-----------------------------------------------------------------------------
\* A step of a generator that touches no row of a report.
LEMMA TurnKeeps ==
    ASSUME Rows, Guards, NEW s \in Report,
           NEW step \in {"authorized", "renamed", "rejected", "failing", "withdrawn", "idle"},
           Turned(s, step), UNCHANGED <<report, unchangedButReports>>,
           step = "authorized" => Generating(s, "written"),
           step = "renamed" => Generating(s, "authorized")
    PROVE  Step
<1>1. UNCHANGED <<project, run, report, arun, publisher, op, sweeper>>
  BY DEF unchangedButReports, publicationVars, deletionVars
<1>2. Generators'
  BY DEF Turned, Rows, Generators, GeneratorRow
<1>3. Latest' = Latest
  BY <1>1, LatestSame DEF Counts
<1>4. Kept
  BY <1>1, <1>3 DEF Kept, Visible, CurrentReports, Armed, Owned, Staged, Turned, Generating,
     Rows, Generators, GeneratorRow
<1>5. Reports' /\ Runs' /\ Projects' /\ Attempts' /\ Operations' /\ Claims'
  BY <1>1 DEF Rows, Reports, Runs, Projects, Attempts, Operations, Claims
<1>6. Guards'
  BY <1>1 DEF Guards, DeletionsTombstone, DeletionActive, ClaimsOwnRuns, RunsHaveProjects,
     AttemptsBegun
<1> QED
  BY <1>2, <1>4, <1>5, <1>6 DEF Step, Rows

\* The inductive invariant.
Sound == Rows /\ Guards /\ Carries

\* Keeping and taking both preserve it.
LEMMA StepSound ==
    ASSUME Sound, Step
    PROVE  Sound' /\ ShelfStep
BY KeptCarries, TakenCarries DEF Sound, Step

\* What a generator leaves alone.
LEMMA GeneratorSame ==
    ASSUME Rows, Guards, UNCHANGED unchangedButReports, Reports', Generators'
    PROVE  Rows' /\ Guards' /\ Latest' = Latest
<1>1. UNCHANGED <<project, run, arun, publisher, op, sweeper>>
  BY DEF unchangedButReports, publicationVars, deletionVars
<1>2. Latest' = Latest
  BY <1>1, LatestSame DEF Counts
<1>3. Runs' /\ Projects' /\ Attempts' /\ Operations' /\ Claims'
  BY <1>1 DEF Rows, Runs, Projects, Attempts, Operations, Claims
<1>4. Guards'
  BY <1>1 DEF Guards, DeletionsTombstone, DeletionActive, ClaimsOwnRuns, RunsHaveProjects,
     AttemptsBegun
<1> QED
  BY <1>2, <1>3, <1>4 DEF Rows

\* A generator reads the latest results in one transaction.
LEMMA SnapshotSound ==
    ASSUME Sound, NEW s \in Report, WriteSnapshot(s)
    PROVE  Sound' /\ ShelfStep
<1>1. /\ generator' = [generator EXCEPT ![s] = [step |-> "written", shows |-> Latest]]
      /\ report' = report /\ UNCHANGED unchangedButReports
  BY DEF WriteSnapshot
<1>2. [step |-> "written", shows |-> Latest] \in GeneratorRow
  BY DEF GeneratorRow, Latest
<1>3. Rows' /\ Guards' /\ Latest' = Latest
  BY <1>1, <1>2, GeneratorSame DEF Sound, Rows, Reports, Generators
<1>4. \A t \in Report : Visible(t)' => Visible(t)
  BY <1>1 DEF Visible, CurrentReports
<1>5. \A t \in Report \ {s} : Armed(t)' => Armed(t) /\ generator'[t] = generator[t]
  BY <1>1 DEF Armed, Owned, Staged, Sound, Rows, Generators
<1>6. generator'[s].shows = Latest
  BY <1>1 DEF Sound, Rows, Generators
<1>7. Carries'
  BY <1>1, <1>3, <1>4, <1>5, <1>6 DEF Sound, Carries
<1>8. ShownSet' = ShownSet
  BY <1>1 DEF ShownSet, CurrentReports
<1> QED
  BY <1>3, <1>7, <1>8 DEF Sound, ShelfStep

\* A generator that still owns its report completes it with the latest
\* results, and makes every other report stale.
LEMMA CompletionSound ==
    ASSUME Sound, NEW s \in Report, CompleteReport(s)
    PROVE  Sound' /\ ShelfStep
<1> DEFINE made == [report[s] EXCEPT !.status = "complete", !.snapshot = "current",
                                     !.owned = FALSE, !.live = FALSE,
                                     !.shows = generator[s].shows]
<1>1. /\ Generating(s, "renamed") /\ Owned(s)
      /\ report' = [t \in Report |->
            IF t = s THEN made
            ELSE IF t \in CurrentReports THEN [report[t] EXCEPT !.snapshot = "stale"]
            ELSE report[t]]
      /\ Turned(s, "idle") \/ Turned(s, "unheard")
      /\ UNCHANGED unchangedButReports
  BY DEF CompleteReport
<1>2. generator[s].shows = Latest
  BY <1>1 DEF Sound, Carries, Armed, Generating
<1>3. made \in ReportRow /\ made.shows = Latest /\ made.status = "complete"
  BY ZenonT(60), <1>2 DEF Sound, Rows, Reports, Generators, GeneratorRow, ReportRow, ReportStatus
<1>4. Reports'
  <2>1. \A t \in Report : [report[t] EXCEPT !.snapshot = "stale"] \in ReportRow
    BY DEF Sound, Rows, Reports, ReportRow
  <2> QED
    BY <1>1, <1>3, <2>1 DEF Sound, Rows, Reports
<1>5. Generators'
  BY <1>1 DEF Turned, Sound, Rows, Generators, GeneratorRow
<1>6. Rows' /\ Guards' /\ Latest' = Latest
  BY <1>1, <1>4, <1>5, GeneratorSame DEF Sound
<1>7. \A t \in Report : Visible(t)' => t = s
  BY <1>1 DEF Visible, CurrentReports, Sound, Rows, Reports, ReportRow
<1>8. Visible(s)' /\ report'[s].shows = Latest
  BY <1>1, <1>2 DEF Owned, Staged, Visible, CurrentReports, Sound, Rows, Reports, ReportRow
<1>9. \A t \in Report : Armed(t)' => Armed(t) /\ generator'[t].shows = generator[t].shows
  <2>1. ~Owned(s)'
    BY <1>1, <1>3 DEF Owned, Staged
  <2>2. \A t \in Report \ {s} : Owned(t)' => Owned(t) /\ generator'[t] = generator[t]
    BY <1>1 DEF Owned, Staged, Turned, Sound, Rows, Reports, ReportRow, Generators
  <2> QED
    BY <2>1, <2>2 DEF Armed
<1>10. Carries'
  BY <1>6, <1>7, <1>8, <1>9 DEF Sound, Carries
<1>11. ShownSet' = {Latest}
  BY <1>7, <1>8, ShownWhatVisible
<1> QED
  BY <1>6, <1>10, <1>11 DEF Sound, ShelfStep, ShownSet, Shelf!Next, Shelf!Publish

\* A generator that fails makes nothing visible.
LEMMA FailureKeeps ==
    ASSUME Sound, NEW s \in Report, FailReport(s)
    PROVE  Step
<1>1. /\ report' = report \/ report' = [report EXCEPT ![s] = Failed(report[s])]
      /\ Turned(s, "idle") /\ UNCHANGED unchangedButReports
  BY DEF FailReport
<1>2. Failed(report[s]) \in ReportRow
  BY DEF Failed, Sound, Rows, Reports, ReportRow, ReportStatus
<1>3. Reports' /\ Generators'
  BY <1>1, <1>2 DEF Turned, Sound, Rows, Reports, Generators, GeneratorRow
<1>4. Rows' /\ Guards' /\ Latest' = Latest
  BY <1>1, <1>3, GeneratorSame DEF Sound
<1>5. \A t \in Report : Visible(t)' => Visible(t) /\ report'[t] = report[t]
  BY <1>1 DEF Visible, CurrentReports, Failed, Sound, Rows, Reports, ReportRow
<1>6. \A t \in Report : Armed(t)' => Armed(t) /\ generator'[t].shows = generator[t].shows
  BY <1>1 DEF Armed, Owned, Staged, Turned, Failed, Sound, Rows, Reports, ReportRow, Generators,
     GeneratorRow
<1> QED
  BY <1>4, <1>5, <1>6 DEF Step, Kept

\* Every step of a generator preserves the invariant.
LEMMA GeneratorSound ==
    ASSUME Sound, NEW s \in Report, GeneratorStep(s)
    PROVE  Sound' /\ ShelfStep
<1>1. CASE WriteSnapshot(s)
  BY <1>1, SnapshotSound
<1>2. CASE CompleteReport(s)
  BY <1>2, CompletionSound
<1>3. CASE FailReport(s)
  BY <1>3, FailureKeeps, StepSound
<1>4. CASE \/ AuthorizePublish(s) \/ RenameArtifact(s) \/ RejectCompletion(s)
           \/ RemoveArtifact(s) \/ AbandonGeneration(s) \/ CrashGenerator(s)
  <2>1. /\ UNCHANGED <<report, unchangedButReports>>
        /\ \E step \in {"authorized", "renamed", "rejected", "failing", "withdrawn", "idle"} :
              /\ Turned(s, step)
              /\ step = "authorized" => Generating(s, "written")
              /\ step = "renamed" => Generating(s, "authorized")
    BY <1>4 DEF AuthorizePublish, RenameArtifact, RejectCompletion, RemoveArtifact,
       AbandonGeneration, CrashGenerator
  <2> QED
    BY <2>1, TurnKeeps, StepSound DEF Sound
<1> QED
  BY <1>1, <1>2, <1>3, <1>4 DEF GeneratorStep

\* A step of something else does, too.
LEMMA StutterKeeps ==
    ASSUME Rows, Guards, UNCHANGED vars
    PROVE  Step
<1>1. UNCHANGED <<project, run, report, generator, arun, publisher, op, sweeper>>
  BY DEF vars, publicationVars, reportVars, deletionVars
<1> QED
  BY <1>1, UntouchedStep DEF Rows, Attempts, Operations, Claims, Guards, DeletionsTombstone,
     DeletionActive, ClaimsOwnRuns, AttemptsBegun

\* The invariant is inductive, and every step is one of the shelf.
LEMMA NextSound ==
    ASSUME Sound, [Next]_vars
    PROVE  Sound' /\ ShelfStep
<1> USE DEF Sound
<1>1. CASE JobStep
  BY <1>1, JobKeeps, StepSound
<1>2. CASE ReaperStep
  BY <1>2, ReaperKeeps, StepSound
<1>3. ASSUME NEW p \in Project, PublisherStep(p) \/ ProjectDeletionStep(p)
      PROVE  Sound' /\ ShelfStep
  <2>1. CASE PublisherStep(p)
    BY <2>1, PublisherKeeps, StepSound
  <2>2. CASE ProjectDeletionStep(p)
    BY <2>2, RequestTakes, ExpiryKeeps, DeferKeeps, StepSound DEF ProjectDeletionStep
  <2> QED
    BY <1>3, <2>1, <2>2
<1>4. ASSUME NEW r \in Run, RunStep(r) \/ RunDeletionStep(r)
      PROVE  Sound' /\ ShelfStep
  BY <1>4, RunsTake, RunDeletionKeeps, StepSound
<1>5. ASSUME NEW s \in Report, GeneratorStep(s) \/ ReportStep(s)
      PROVE  Sound' /\ ShelfStep
  BY <1>5, GeneratorSound, ReportKeeps, StepSound
<1>6. ASSUME NEW w \in Sweeper, SweeperStep(w)
      PROVE  Sound' /\ ShelfStep
  BY <1>6, SweeperKeeps, StepSound
<1>7. CASE UNCHANGED vars
  BY <1>7, StutterKeeps, StepSound
<1> QED
  BY <1>1, <1>2, <1>3, <1>4, <1>5, <1>6, <1>7 DEF Next

\* In the beginning there is no report, and the shelf is empty.
LEMMA InitSound == Init => Sound /\ Shelf!Init
<1> SUFFICES ASSUME Init PROVE Sound /\ Shelf!Init
  OBVIOUS
<1>1. PICK plan \in Plans :
         InitWith(plan.live, plan.engine, plan.requests, plan.loops)
  BY DEF Init
<1>2. \A s \in Report : report[s] = NoReport
  BY <1>1 DEF InitWith
<1>3. \A s \in Report : ~Visible(s) /\ ~Armed(s)
  BY <1>2 DEF NoReport, Visible, CurrentReports, Armed, Owned, Staged
<1>4. DeletionsTombstone /\ RunsHaveProjects /\ AttemptsBegun
  BY <1>1 DEF InitWith, NoRun, DeletionsTombstone, DeletionActive, RunsHaveProjects,
     AttemptsBegun
<1>5. ClaimsOwnRuns
  BY <1>1 DEF InitWith, NoClaim, ClaimsOwnRuns
<1>6. ShownSet = {}
  BY <1>3, ShownWhatVisible
<1>7. Latest \in SUBSET Run
  BY DEF Latest
<1> QED
  BY <1>3, <1>4, <1>5, <1>6, <1>7, InitRows DEF Sound, Guards, Carries, ShownSet, Shelf!Init

\* Whatever is visible shows the run completed last of each live project and
\* language: no snapshot that InvalidateCurrentTx or a deletion has overtaken
\* is completed by internal/report Complete.
THEOREM ReportsShowLatest == Spec => []CurrentReportShowsLatest
<1>1. Init => Sound
  BY InitSound
<1>2. Sound /\ [Next]_vars => Sound'
  BY NextSound
<1>3. Sound => CurrentReportShowsLatest
  BY DEF Sound, Carries, Visible, CurrentReports, CurrentReportShowsLatest
<1> QED
  BY <1>1, <1>2, <1>3, PTL DEF Spec

\* The reports implement ReportShelf: in the very transaction in which a
\* result appears, changes or goes, every report that shows another is gone.
THEOREM ReportsImplementShelf == Spec => ReportsAreAShelf
<1>1. Init => Sound /\ Shelf!Init
  BY InitSound
<1>2. Sound /\ [Next]_vars => Sound' /\ [Shelf!Next]_<<Latest, ShownSet>>
  BY NextSound DEF ShelfStep
<1> QED
  BY <1>1, <1>2, PTL DEF Spec, ReportsAreAShelf, Shelf!Spec, ShownSet
=============================================================================
