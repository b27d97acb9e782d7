--------------------------- MODULE ReportGeneration ---------------------------
(***************************************************************************)
(* internal/report: a request claims the next report of the task, writes   *)
(* what the database shows into a file and then makes the report current.  *)
(* A change of the results in between takes the report away from it.       *)
(***************************************************************************)
EXTENDS EvidenceStore

unchangedButReports == <<project, directory, publicationVars, run, deletionVars>>

Generating(s, step) == generator[s].step = step
Turned(s, step) == generator' = [generator EXCEPT ![s].step = step]

\* The columns and the lease that the statements of a generator ask for.
Staged(s) == /\ report[s].status = "generating" /\ report[s].snapshot = "staged"
             /\ ~report[s].deleted
Owned(s) == Staged(s) /\ report[s].owned

CurrentReports == {s \in Report : /\ report[s].status = "complete"
                                  /\ report[s].snapshot = "current"
                                  /\ ~report[s].deleted}

Failed(r) == [r EXCEPT !.status = "failed", !.snapshot = "stale", !.owned = FALSE,
                       !.live = FALSE]

DeletionActive(p) == op[p].status \in {"pending", "cancelling", "deleting", "failed"}

\* No report is begun while evidence of the task is being deleted.
EvidenceKept == /\ \A p \in Project : ~DeletionActive(p)
                /\ \A r \in Run : ~run[r].tombstone
-----------------------------------------------------------------------------
\* Claim: a current report is replayed, one that is being made is awaited.
ClaimReport(s) ==
    /\ Wanted(<<"report", s>>) /\ Granted(<<"report", s>>)
    /\ EvidenceKept
    /\ CurrentReports = {} /\ \A t \in Report : ~Staged(t)
    /\ report' = [report EXCEPT ![s] = [NoReport EXCEPT !.status = "generating",
                                                        !.owned = TRUE, !.live = TRUE]]
    /\ Turned(s, "claimed")
    /\ UNCHANGED <<reportFile, unchangedButReports>>

\* The snapshot is read in one transaction and written to a staging file.
WriteSnapshot(s) ==
    /\ Generating(s, "claimed")
    /\ generator' = [generator EXCEPT ![s] = [step |-> "written", shows |-> Latest]]
    /\ UNCHANGED <<wishes, report, reportFile, unchangedButReports>>

AuthorizePublish(s) ==
    /\ Generating(s, "written")
    /\ Owned(s) /\ report[s].live
    /\ Turned(s, "authorized")
    /\ UNCHANGED <<wishes, report, reportFile, unchangedButReports>>

RenameArtifact(s) ==
    /\ Generating(s, "authorized")
    /\ reportFile' = [reportFile EXCEPT ![s] = "fresh"]
    /\ Turned(s, "renamed")
    /\ UNCHANGED <<wishes, report, unchangedButReports>>

\* Every run the report shows is still there, as is its project.
DependenciesHold(s) ==
    \A r \in generator[s].shows :
        /\ run[r].status = "done" /\ ~run[r].tombstone
        /\ project[RunProject[r]] = "live"

(***************************************************************************)
(* Complete: the report becomes current and the previous one stale.  A     *)
(* generator that does not hear of the commit takes it for a failure.      *)
(***************************************************************************)
CompleteReport(s) ==
    /\ Generating(s, "renamed")
    /\ Owned(s) /\ report[s].live /\ DependenciesHold(s)
    /\ report' = [t \in Report |->
          IF t = s THEN [report[s] EXCEPT !.status = "complete", !.snapshot = "current",
                                          !.owned = FALSE, !.live = FALSE,
                                          !.shows = generator[s].shows]
          ELSE IF t \in CurrentReports THEN [report[t] EXCEPT !.snapshot = "stale"]
          ELSE report[t]]
    /\ Turned(s, "idle") \/ Turned(s, "unheard")
    /\ UNCHANGED <<wishes, reportFile, unchangedButReports>>

RejectCompletion(s) ==
    /\ Generating(s, "renamed")
    /\ Turned(s, "rejected")
    /\ UNCHANGED <<wishes, report, reportFile, unchangedButReports>>

\* removeArtifact takes the file away, also that of a report whose completion
\* was not heard of.
RemoveArtifact(s) ==
    /\ Generating(s, "rejected") \/ Generating(s, "unheard")
    /\ reportFile' = [reportFile EXCEPT ![s] = "none"]
    /\ Turned(s, IF Generating(s, "rejected") THEN "failing" ELSE "withdrawn")
    /\ UNCHANGED <<wishes, report, unchangedButReports>>

\* An error before the completion; a lost lease that the heartbeat reports
\* after the renaming leaves the file.
AbandonGeneration(s) ==
    /\ \E step \in {"claimed", "written", "authorized", "renamed"} : Generating(s, step)
    /\ Turned(s, "failing")
    /\ UNCHANGED <<wishes, report, reportFile, unchangedButReports>>

\* Fail: no lease is asked for.
FailReport(s) ==
    /\ Generating(s, "failing")
    /\ report' = IF Owned(s) THEN [report EXCEPT ![s] = Failed(@)] ELSE report
    /\ Turned(s, "idle")
    /\ UNCHANGED <<wishes, reportFile, unchangedButReports>>

CrashGenerator(s) ==
    /\ generator[s].step \notin {"idle", "withdrawn"}
    /\ Turned(s, "idle")
    /\ UNCHANGED <<wishes, report, reportFile, unchangedButReports>>
-----------------------------------------------------------------------------
ExpireReportLease(s) ==
    /\ report[s].live
    /\ report' = [report EXCEPT ![s].live = FALSE]
    /\ UNCHANGED <<wishes, generator, reportFile, unchangedButReports>>

\* The heartbeat renews a lease that has expired as long as nobody has taken
\* the report away.
RenewReport(s) ==
    /\ \E step \in {"claimed", "written", "authorized"} : Generating(s, step)
    /\ Owned(s) /\ ~report[s].live
    /\ report' = [report EXCEPT ![s].live = TRUE]
    /\ UNCHANGED <<wishes, generator, reportFile, unchangedButReports>>

\* RecoverExpired: a report whose lease was taken away has no expiry.
RecoverReport(s) ==
    /\ report[s].status = "generating" /\ report[s].owned /\ ~report[s].live
    /\ report' = [report EXCEPT ![s] = Failed(@)]
    /\ UNCHANGED <<wishes, generator, reportFile, unchangedButReports>>
=============================================================================
