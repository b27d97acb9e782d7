--------------------------- MODULE EvidenceDeletion ---------------------------
(***************************************************************************)
(* What removes evidence: the deletion of a source project, requested by a *)
(* client and carried out by the maintenance loop; the deletion of one     *)
(* run, by the request itself or, after an interruption, by the loop; and  *)
(* the orphan reaper, for files that no row refers to.                     *)
(***************************************************************************)
EXTENDS SourcePublication, SourceAnalysis, ReportGeneration

ReportRows == {s \in Report : report[s].status # "absent"}

\* The storage key of a report is set by its completion.
KeyedReports == {s \in Report : report[s].status = "complete"}

unchangedButEvidence == <<directory, publicationVars, generator, reportFile>>
-----------------------------------------------------------------------------
\* cancelSourceProjectCAnalysisJobs and its Java counterpart.
Cancelled(p) ==
    [r \in Run |-> IF r \notin RunsOf(p) THEN run[r]
                   ELSE CASE run[r].status = "queued" -> [run[r] EXCEPT !.status = "ended"]
                          [] run[r].status = "running" -> [run[r] EXCEPT !.status = "cancelling"]
                          [] OTHER -> run[r]]

StillActive(p) == \E r \in RunsOf(p) : run[r].status \in {"running", "cancelling"}

\* The reports of the task are hidden; one that is being generated loses its
\* owner and stays as it is until its row is deleted.
Hidden ==
    [s \in Report |->
        IF report[s].snapshot \in {"staged", "current"} /\ ~report[s].deleted
           /\ report[s].status # "absent"
        THEN [report[s] EXCEPT !.snapshot = "stale", !.owned = FALSE, !.live = FALSE]
        ELSE report[s]]

\* Mutant of RequestProjectDeletion: the reports stay visible.
RequestProjectDeletionQuietly(p) ==
    /\ Wanted(<<"delete project", p>>) /\ Granted(<<"delete project", p>>)
    /\ project[p] = "live" /\ ~DeletionActive(p)
    /\ project' = [project EXCEPT ![p] = "deleted"]
    /\ run' = Cancelled(p)
    /\ op' = [op EXCEPT ![p].status = IF StillActive(p) THEN "cancelling" ELSE "pending"]
    /\ UNCHANGED <<report, sweeper, deleter, unchangedButEvidence>>

\* ConfirmSourceProjectDeletion, with a token that is still valid.
RequestProjectDeletion(p) ==
    /\ Wanted(<<"delete project", p>>) /\ Granted(<<"delete project", p>>)
    /\ project[p] = "live" /\ ~DeletionActive(p)
    /\ project' = [project EXCEPT ![p] = "deleted"]
    /\ report' = Hidden
    /\ run' = Cancelled(p)
    /\ op' = [op EXCEPT ![p].status = IF StillActive(p) THEN "cancelling" ELSE "pending"]
    /\ UNCHANGED <<sweeper, deleter, unchangedButEvidence>>

\* Mutant of Claimable: a deletion that has failed is not tried again.
ClaimableOnce(p) ==
    \/ op[p].status \in {"pending", "cancelling"}
    \/ op[p].status = "deleting" /\ ~op[p].live

\* ListReady and the claim.
Claimable(p) ==
    \/ op[p].status \in {"pending", "cancelling", "failed"}
    \/ op[p].status = "deleting" /\ ~op[p].live

Free(w) == sweeper[w].step = "idle"
Busy(w) == sweeper[w].step \in {"claimed", "removed"}

\* Runs that are still active are cancelled again and awaited.
DeferDeletion(w, p) ==
    /\ Free(w) /\ Claimable(p) /\ StillActive(p)
    /\ run' = Cancelled(p)
    /\ op' = [op EXCEPT ![p] = [status |-> "cancelling", holder |-> NoHolder, live |-> FALSE]]
    /\ UNCHANGED <<wishes, project, report, sweeper, deleter, unchangedButEvidence>>

\* Mutant of ClaimDeletion: runs that are still active are not awaited.
ClaimDeletionAtOnce(w, p) ==
    /\ Free(w) /\ Claimable(p)
    /\ run' = Cancelled(p)
    /\ op' = [op EXCEPT ![p] = [status |-> "deleting", holder |-> w, live |-> TRUE]]
    /\ sweeper' = [sweeper EXCEPT ![w] =
                      [step |-> "claimed", on |-> p, reports |-> ReportRows,
                       files |-> KeyedReports,
                       runs |-> {r \in RunsOf(p) : run'[r].status \in TerminalRun}]]
    /\ UNCHANGED <<wishes, project, report, deleter, unchangedButEvidence>>

ClaimDeletion(w, p) ==
    /\ Free(w) /\ Claimable(p) /\ ~StillActive(p)
    /\ run' = Cancelled(p)
    /\ op' = [op EXCEPT ![p] = [status |-> "deleting", holder |-> w, live |-> TRUE]]
    /\ sweeper' = [sweeper EXCEPT ![w] =
                      [step |-> "claimed", on |-> p, reports |-> ReportRows,
                       files |-> KeyedReports,
                       runs |-> {r \in RunsOf(p) : run'[r].status \in TerminalRun}]]
    /\ UNCHANGED <<wishes, project, report, deleter, unchangedButEvidence>>

\* The files of some reports; an interruption leaves the others.
WithoutFiles(reports) == [s \in Report |-> IF s \in reports THEN "none" ELSE reportFile[s]]

\* deleteClaim: the files one by one, then the directory.  A process that has
\* lost its lease goes on until its heartbeat notices.
RemoveReportFiles(w, files) ==
    /\ sweeper[w].step = "claimed" /\ files # {} /\ files \subseteq sweeper[w].files
    /\ reportFile' = WithoutFiles(files)
    /\ sweeper' = [sweeper EXCEPT ![w].files = @ \ files]
    /\ UNCHANGED <<wishes, project, directory, publicationVars, run, reportVars, op, deleter>>

RemoveDirectory(w) ==
    /\ sweeper[w].step = "claimed" /\ sweeper[w].files = {}
    /\ directory' = [directory EXCEPT ![sweeper[w].on] = "none"]
    /\ sweeper' = [sweeper EXCEPT ![w].step = "removed"]
    /\ UNCHANGED <<wishes, project, publicationVars, run, reportVars, reportFile, op, deleter>>

HoldsDeletion(w) ==
    /\ Busy(w)
    /\ op[sweeper[w].on].status = "deleting" /\ op[sweeper[w].on].holder = w

Without(rows, reports) == [s \in Report |-> IF s \in reports THEN NoReport ELSE rows[s]]

\* FinalizeSourceProjectCascadeDeletion.
FinalizeProjectDeletion(w) == LET p == sweeper[w].on IN
    /\ sweeper[w].step = "removed"
    /\ HoldsDeletion(w) /\ op[p].live /\ ActiveRuns(p) = {}
    /\ report' = Without(report, sweeper[w].reports)
    /\ run' = [r \in Run |-> IF r \in sweeper[w].runs THEN NoRun ELSE run[r]]
    /\ project' = [project EXCEPT ![p] = "erased"]
    /\ op' = [op EXCEPT ![p] = [status |-> "complete", holder |-> NoHolder, live |-> FALSE]]
    /\ sweeper' = [sweeper EXCEPT ![w] = NoClaim]
    /\ UNCHANGED <<wishes, deleter, unchangedButEvidence>>

\* The process dies, or an error is recorded if the claim is still its own.
LeaveProjectDeletion(w) == LET p == sweeper[w].on IN
    /\ Busy(w)
    /\ \/ UNCHANGED op
       \/ HoldsDeletion(w) /\ op' = [op EXCEPT ![p] = [status |-> "failed", live |-> FALSE,
                                                       holder |-> NoHolder]]
    /\ sweeper' = [sweeper EXCEPT ![w] = NoClaim]
    /\ UNCHANGED <<wishes, project, run, report, deleter, unchangedButEvidence>>

ExpireDeletionLease(p) ==
    /\ op[p].live
    /\ op' = [op EXCEPT ![p].live = FALSE]
    /\ UNCHANGED <<wishes, project, run, report, sweeper, deleter, unchangedButEvidence>>

\* The renewal asks for the owner and the token, not for a live lease.
RenewDeletion(w) == LET p == sweeper[w].on IN
    /\ sweeper[w].step = "claimed"
    /\ HoldsDeletion(w) /\ ActiveRuns(p) = {}
    /\ op' = [op EXCEPT ![p].live = TRUE]
    /\ UNCHANGED <<wishes, project, run, report, sweeper, deleter, unchangedButEvidence>>
-----------------------------------------------------------------------------
\* The tombstone of a run, and with it of every report of the task.
Entomb(r) ==
    /\ run[r].status \in TerminalRun
    /\ deleter[r].step = "none"
    /\ run' = [run EXCEPT ![r].tombstone = TRUE]
    /\ report' = [s \in Report |->
                     IF s \in ReportRows
                     THEN [report[s] EXCEPT !.snapshot = "stale", !.deleted = TRUE,
                                            !.owned = FALSE, !.live = FALSE]
                     ELSE report[s]]
    /\ deleter' = [deleter EXCEPT ![r] = [step |-> "prepared", reports |-> ReportRows,
                                          files |-> KeyedReports]]
    /\ UNCHANGED <<project, op, sweeper, unchangedButEvidence>>

RequestRunDeletion(r) ==
    /\ Wanted(<<"delete run", r>>) /\ Granted(<<"delete run", r>>)
    /\ Entomb(r)

\* RecoverPending leaves the runs of a project that is being deleted to that
\* deletion.
RecoverRunDeletion(r) ==
    /\ run[r].tombstone
    /\ ProjectLive(r) /\ ~DeletionActive(RunProject[r])
    /\ Entomb(r)
    /\ UNCHANGED wishes

RemoveRunReportFiles(r, files) ==
    /\ files # {} /\ files \subseteq deleter[r].files
    /\ reportFile' = WithoutFiles(files)
    /\ deleter' = [deleter EXCEPT ![r].files = @ \ files]
    /\ UNCHANGED <<wishes, project, directory, publicationVars, run, reportVars, op, sweeper>>

\* finalize deletes exactly the rows it has collected: if another deletion has
\* been faster, the transaction fails and the deletion starts over.
RowsThere(r) == deleter[r].reports \subseteq ReportRows

FinalizeRunDeletion(r) ==
    /\ deleter[r].step = "prepared" /\ deleter[r].files = {}
    /\ run[r].tombstone /\ run[r].status \in TerminalRun
    /\ RowsThere(r)
    /\ report' = Without(report, deleter[r].reports)
    /\ run' = [run EXCEPT ![r] = NoRun]
    /\ deleter' = [deleter EXCEPT ![r] = NoDeleter]
    /\ UNCHANGED <<wishes, project, op, sweeper, unchangedButEvidence>>

InterruptRunDeletion(r) ==
    /\ deleter[r].step # "none"
    /\ deleter' = [deleter EXCEPT ![r] = NoDeleter]
    /\ UNCHANGED <<wishes, project, run, report, op, sweeper, unchangedButEvidence>>
-----------------------------------------------------------------------------
\* The reaper waits for a day, longer than anybody works on a directory or a
\* report.
AgeDirectory(p) ==
    /\ directory[p] = "fresh" /\ At(p, "idle")
    /\ directory' = [directory EXCEPT ![p] = "old"]
    /\ UNCHANGED <<wishes, project, publicationVars, run, reportVars, reportFile, deletionVars>>

AgeReportFile(s) ==
    /\ reportFile[s] = "fresh" /\ generator[s].step \in {"idle", "withdrawn"}
    /\ reportFile' = [reportFile EXCEPT ![s] = "old"]
    /\ UNCHANGED <<wishes, project, directory, publicationVars, run, reportVars, deletionVars>>

\* DeleteOrphanSourceProject.
ReapDirectory(p) ==
    /\ directory[p] = "old" /\ project[p] # "live" /\ ~DeletionActive(p)
    /\ directory' = [directory EXCEPT ![p] = "none"]
    /\ UNCHANGED <<wishes, project, publicationVars, run, reportVars, reportFile, deletionVars>>

\* Mutant of ReapReportFile: any row of the report keeps the file.
ReapReportFileWithoutRow(s) ==
    /\ reportFile[s] = "old" /\ s \notin ReportRows
    /\ reportFile' = [reportFile EXCEPT ![s] = "none"]
    /\ UNCHANGED <<wishes, project, directory, publicationVars, run, reportVars, deletionVars>>

\* DeleteOrphanStoredFile: a row that is not deleted keeps the file.
ReapReportFile(s) ==
    /\ reportFile[s] = "old" /\ ~(s \in KeyedReports /\ ~report[s].deleted)
    /\ reportFile' = [reportFile EXCEPT ![s] = "none"]
    /\ UNCHANGED <<wishes, project, directory, publicationVars, run, reportVars, deletionVars>>
=============================================================================
