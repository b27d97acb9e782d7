---------------------------- MODULE SourceAnalysis ----------------------------
(***************************************************************************)
(* internal/canalysis and internal/javaanalysis: runs over a published     *)
(* project, from the request to the published result.  How their jobs are  *)
(* leased, retried and recovered is the subject of JobPlatform; here every *)
(* step matters by what it does to the reports of the task.                *)
(***************************************************************************)
EXTENDS EvidenceStore

unchangedButRuns == <<project, directory, publicationVars, generator, reportFile,
                      deletionVars>>

ProjectLive(r) == project[RunProject[r]] = "live"
SameAnalysis(r) == {q \in RunsOf(RunProject[r]) : RunLanguage[q] = RunLanguage[r]}

\* A step of a run and the invalidation of the reports in one transaction.
Advance(r, new) ==
    /\ run' = [run EXCEPT ![r] = new]
    /\ report' = Invalidated
    /\ UNCHANGED unchangedButRuns
-----------------------------------------------------------------------------
\* Create: one active run for each project and language.
CreateRun(r) ==
    /\ Wanted(<<"run", r>>) /\ Granted(<<"run", r>>)
    /\ ProjectLive(r)
    /\ \A q \in SameAnalysis(r) : run[q].status \notin ActiveRun
    /\ Advance(r, [run[r] EXCEPT !.status = "queued"])

\* BeginCAnalysis, BeginJavaAnalysis.
BeginAnalysis(r) ==
    /\ run[r].status = "queued" /\ ProjectLive(r)
    /\ Advance(r, [run[r] EXCEPT !.status = "running"])
    /\ UNCHANGED wishes

\* Mutant of PublishAnalysis: the reports are left as they are.
PublishAnalysisQuietly(r) ==
    /\ run[r].status = "running" /\ ProjectLive(r)
    /\ run' = [run EXCEPT ![r].status = "done", ![r].at = NextCompletion]
    /\ UNCHANGED <<wishes, report, unchangedButRuns>>

\* The publication locks the task as the reports do, so that no report is
\* claimed or completed between the invalidation and the commit.
PublishAnalysis(r) ==
    /\ run[r].status = "running" /\ ProjectLive(r)
    /\ Advance(r, [run[r] EXCEPT !.status = "done", !.at = NextCompletion])
    /\ UNCHANGED wishes

\* The run fails, is cancelled, or is given up by the recovery of its job.
EndAnalysis(r) ==
    /\ run[r].status \in {"running", "cancelling"}
    /\ Advance(r, [run[r] EXCEPT !.status = "ended"])
    /\ UNCHANGED wishes

\* The job is retried; a project that is being deleted asks for cancellation.
RequeueAnalysis(r) ==
    /\ run[r].status = "running" /\ ProjectLive(r)
    /\ Advance(r, [run[r] EXCEPT !.status = "queued"])
    /\ UNCHANGED wishes

CancelRun(r) ==
    /\ Wanted(<<"cancel", r>>) /\ Granted(<<"cancel", r>>)
    /\ run[r].status \in {"queued", "running"}
    /\ Advance(r, [run[r] EXCEPT !.status = IF @ = "queued" THEN "ended" ELSE "cancelling"])
=============================================================================
