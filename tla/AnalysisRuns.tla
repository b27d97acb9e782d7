---------------------------- MODULE AnalysisRuns ----------------------------
(***************************************************************************)
(* internal/canalysis, internal/javaanalysis, internal/pythonanalysis: the *)
(* run of an analysis, its job, and the processor that drives both.  A run *)
(* and its row in analyzer_runs move together and are one status.  All     *)
(* analyses of one kind and task are of the same source project, that of   *)
(* the root file node, which stays when a retried scan replaces the tree.  *)
(***************************************************************************)
EXTENDS JobStore

CONSTANT DbFaults   \* may a database call of a processor fail, for an error
                    \* of its own or because a shutdown cancels its context?

ASSUME FaultsAreASwitch == DbFaults \in BOOLEAN

\* Create: one active run per source project of a finished task.
CreateRun(j) ==
    /\ j.kind \in AnalysisKind
    /\ job[j].status = "absent"
    /\ task[j.task] \in TerminalTask /\ HasTree(j.task)
    /\ \A k \in Job : k.task = j.task /\ k.kind = j.kind =>
           run[k] \notin ActiveRun
    /\ job' = [job EXCEPT ![j] = QueuedJob(0)]
    /\ run' = [run EXCEPT ![j] = "queued"]
    /\ UNCHANGED <<task, attempt, slot, published, importer, worker>>

\* Cancel succeeds in these two cases; it is a replay when the run is
\* cancelled or being cancelled, and ErrRunNotCancellable otherwise.
CancelsAtOnce(j) == run[j] = "queued" /\ job[j].status = "queued"
\* Mutants of CancelsByRequest: a lease that has not started, or a run that
\* has ended, is not told apart.
CancelsStarted(j) ==
    run[j] \in {"queued", "running"} /\ job[j].status = "running"
CancelsAnyRun(j) == run[j] # "cancel_requested" /\ job[j].status \in HeldJob
CancelsByRequest(j) ==
    run[j] \in {"queued", "running"} /\ job[j].status \in HeldJob

\* Mutant of CancelRun: the request is left to the run alone.
CancelRunOnly(j) ==
    /\ \/ /\ CancelsAtOnce(j)
          /\ job' = [job EXCEPT ![j] = Settled(j, "cancelled")]
          /\ run' = [run EXCEPT ![j] = "cancelled"]
       \/ /\ CancelsByRequest(j)
          /\ run' = [run EXCEPT ![j] = "cancel_requested"]
          /\ UNCHANGED job
    /\ UNCHANGED <<task, attempt, slot, published, importer, worker>>

CancelRun(j) ==
    /\ \/ /\ CancelsAtOnce(j)
          /\ job' = [job EXCEPT ![j] = Settled(j, "cancelled")]
          /\ run' = [run EXCEPT ![j] = "cancelled"]
       \/ /\ CancelsByRequest(j)
          /\ job' = [job EXCEPT ![j].status = "cancel_requested"]
          /\ run' = [run EXCEPT ![j] = "cancel_requested"]
    /\ UNCHANGED <<task, attempt, slot, published, importer, worker>>
-----------------------------------------------------------------------------
Analyses(w, kinds, pcs) ==
    worker[w].pc \in pcs /\ worker[w].job.kind \in kinds

\* Mutant of DrivesRun: Begin expects what it is about to write.
DrivesBegunRun(w) == Leases(w, {"running"}) /\ run[worker[w].job] = "running"

\* Begin, Publish, Retry, Fail: the lease is held and the run not settled.
DrivesRun(w) ==
    Leases(w, {"running"}) /\ run[worker[w].job] \in {"queued", "running"}

SetRun(w, status) ==
    /\ run' = [run EXCEPT ![worker[w].job] = status]
    /\ UNCHANGED <<task, attempt, job, slot, importer>>

Begin(w) ==
    /\ Analyses(w, AnalysisKind, {"running"})
    /\ DrivesRun(w)
    /\ SetRun(w, "running")
    /\ StepTo(w, "begun")
    /\ UNCHANGED published

StorePublished(w) ==
    published' = [published EXCEPT ![worker[w].job] = worker[w].token]

\* Mutant of OutcomeOfRun: a failed run asks for another attempt of its job.
OutcomeRetries(status) ==
    CASE status = "succeeded" -> "succeeded"
      [] status = "partial"   -> "partial_succeeded"
      [] OTHER                -> "transient_failure"

\* Publish and PublishFailed of the C and Java repositories.
OutcomeOfRun(status) ==
    CASE status = "succeeded" -> "succeeded"
      [] status = "partial"   -> "partial_succeeded"
      [] OTHER                -> "deterministic_failure"

PublishRun(w, status) ==
    /\ Analyses(w, FencedAnalysisKind, {"begun"})
    /\ Leases(w, {"running"}) /\ run[worker[w].job] = "running"
    /\ status \in {"succeeded", "partial", "failed"}
    /\ SetRun(w, status)
    /\ StorePublished(w)
    /\ Return(w, OutcomeOfRun(status))

\* failTransientOrFinal: requeue the run, or fail it on the last attempt.
RetryRun(w) ==
    /\ Analyses(w, FencedAnalysisKind, {"begun"})
    /\ DrivesRun(w)
    /\ SetRun(w, IF job[worker[w].job].attempt < MaxAttempts
                 THEN "queued" ELSE "failed")
    /\ Return(w, "transient_failure")
    /\ UNCHANGED published

\* failDeterministic, and CancelRun when the checker reports a cancellation.
EndRun(w, status) ==
    /\ Analyses(w, FencedAnalysisKind, {"running", "begun"})
    /\ status \in {"failed", "cancelled"}
    /\ status = "cancelled" => worker[w].pc = "begun"
    /\ DrivesRun(w)
    /\ SetRun(w, status)
    /\ Return(w, "deterministic_failure")
    /\ UNCHANGED published

\* Begin failed, or every call was refused because the lease or the run was
\* lost: the processor returns an error, a transient failure.  That of a
\* Python publication with the lease held is in FailPublication.
ReturnError(w) ==
    /\ Analyses(w, AnalysisKind, {"running", "begun"})
    /\ (DbFaults /\ worker[w].pc = "running") \/ ~DrivesRun(w)
    /\ Return(w, "transient_failure")
    /\ UNCHANGED rows

\* C and Java: the database fails the publication and then Retry or Fail as
\* well; it may have been committed without the processor knowing.
ReturnFault(w) ==
    /\ DbFaults
    /\ Analyses(w, FencedAnalysisKind, {"begun"})
    /\ Return(w, "transient_failure")
    /\ \/ UNCHANGED rows
       \/ /\ Leases(w, {"running"}) /\ run[worker[w].job] = "running"
          /\ \E status \in {"succeeded", "partial", "failed"} : SetRun(w, status)
          /\ StorePublished(w)
-----------------------------------------------------------------------------
(***************************************************************************)
(* The Python repository.  Publish checks that the job is running and the  *)
(* run is, not whose lease it is.  Retry and Fail look for a run with the  *)
(* id of the job; ids are fresh, so they find no row and report            *)
(* ErrLeaseLost, whatever the state.                                       *)
(***************************************************************************)
CommitPython(w, status) ==
    LET j == worker[w].job IN
    /\ job[j].status = "running" /\ run[j] = "running"
    /\ status \in {"succeeded", "partial"}
    /\ SetRun(w, status)
    /\ StorePublished(w)

PublishPython(w, status) ==
    /\ Analyses(w, {"python_analysis"}, {"begun"})
    /\ CommitPython(w, status)
    /\ Return(w, "succeeded")

\* Publish reports an error, which is returned with the lease still held and
\* the run as it is, neither requeued nor failed: a finding is refused, the
\* heartbeat or a shutdown cancelled the context, the database fails, perhaps
\* after the commit.  Finish then queues the job of a run that has begun.
FailPublication(w) ==
    /\ Analyses(w, {"python_analysis"}, {"begun"})
    /\ Return(w, "transient_failure")
    /\ \/ UNCHANGED rows
       \/ DbFaults /\ \E status \in {"succeeded", "partial"} : CommitPython(w, status)

\* failTransientOrFinal: Retry found no row, so the failure becomes final.
RetryPython(w) ==
    /\ Analyses(w, {"python_analysis"}, {"begun"})
    /\ Return(w, "deterministic_failure")
    /\ UNCHANGED rows

\* failDeterministic: Fail found no row; the transient failure returned then
\* has no error code, Finish rejects it and the worker process exits.
FailPython(w) ==
    /\ Analyses(w, {"python_analysis"}, {"running", "begun"})
    /\ worker' = [worker EXCEPT ![w] = Idle]
    /\ UNCHANGED rows
=============================================================================
