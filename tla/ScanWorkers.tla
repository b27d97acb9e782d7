----------------------------- MODULE ScanWorkers -----------------------------
(***************************************************************************)
(* The processors of internal/scan and internal/trivyscan: the publishing  *)
(* transactions a worker commits between Start and Finish, each fenced by  *)
(* the lease.  A refused transaction is an error the processor returns.    *)
(***************************************************************************)
EXTENDS JobStore

Works(w, kind, pc) == worker[w].pc = pc /\ worker[w].job.kind = kind

\* Mutant of PublishingLease: statuses without owner, token or lease.
PublishingStatus(w) ==
    /\ job[worker[w].job].status = "running"
    /\ attempt[AttemptOf(worker[w].job)].status = "running"

\* lockTreePublishingLease, lockPublishingLease: the job is leased to this
\* worker and the attempt is running under the same fence.
PublishingLease(w) ==
    /\ Leases(w, {"running"})
    /\ attempt[AttemptOf(worker[w].job)] =
          [status |-> "running", token |-> worker[w].token]

\* The root node, then the whole tree of the sample, replace the task's.
PublishTree(w) ==
    /\ Works(w, "scan", "running")
    /\ PublishingLease(w) /\ task[worker[w].job.task] = "VALIDATING"
    /\ published' = [published EXCEPT ![worker[w].job] = worker[w].token]
    /\ StepTo(w, "treed")
    /\ UNCHANGED <<task, attempt, job, slot, run, importer>>

\* Mutant of EnqueueTrivy: a job enqueued under an older fence is kept.
EnqueueTrivyOnce(w) ==
    LET j == worker[w].job
        k == TrivyJob(j.task, j.n)
    IN
    /\ Works(w, "scan", "treed") /\ j.task \in ImageTask
    /\ PublishingLease(w) /\ task[j.task] = "VALIDATING"
    /\ job' = IF job[k].status = "absent"
              THEN [job EXCEPT ![k] = QueuedJob(worker[w].token)] ELSE job
    /\ StepTo(w, "reported")
    /\ UNCHANGED <<task, attempt, slot, run, published, importer>>

\* EnqueueTrivy: insert the attempt's Trivy job, or move an unclaimed one
\* to the fence of this lease.
EnqueueTrivy(w) ==
    LET j == worker[w].job
        k == TrivyJob(j.task, j.n)
    IN
    /\ Works(w, "scan", "treed") /\ j.task \in ImageTask
    /\ PublishingLease(w) /\ task[j.task] = "VALIDATING"
    /\ \/ job[k].status = "absent"
       \/ job[k].status = "queued" /\ job[k].attempt = 0
    /\ job' = [job EXCEPT ![k] = QueuedJob(worker[w].token)]
    /\ StepTo(w, "reported")
    /\ UNCHANGED <<task, attempt, slot, run, published, importer>>

\* TaskProgress(REPORTING): the last progress call of a scan without
\* images, and the one a Trivy scan makes before it publishes.
Report(w) ==
    LET j == worker[w].job IN
    /\ \/ Works(w, "scan", "treed") /\ j.task \notin ImageTask
       \/ Works(w, "trivy", "running")
    /\ Leases(w, {"running"}) /\ SlotsValid(w)
    /\ task[j.task] \notin TerminalTask
    /\ task' = [task EXCEPT ![j.task] = "REPORTING"]
    /\ StepTo(w, "reported")
    /\ UNCHANGED <<attempt, job, slot, run, published, importer>>

\* PublishWithSummary: the findings replace those of the task's attempt.
PublishFindings(w, outcome) ==
    /\ Works(w, "trivy", "reported")
    /\ PublishingLease(w) /\ task[worker[w].job.task] = "REPORTING"
    /\ published' = [published EXCEPT ![worker[w].job] = worker[w].token]
    /\ Return(w, outcome)
    /\ UNCHANGED <<task, attempt, job, slot, run, importer>>

\* The processor returns; any error before the end, a refused transaction
\* included, becomes a failure.
ReturnScan(w, outcome) ==
    /\ \/ worker[w].pc \in {"running", "treed", "reported"}
          /\ worker[w].job.kind \in ScanKind
          /\ outcome \in Failure
       \/ Works(w, "scan", "reported") /\ outcome \in Success
    /\ Return(w, outcome)
    /\ UNCHANGED rows

\* Decompilers and the manual image scan store artefacts of their own,
\* outside of this state.
ReturnPostScan(w, outcome) ==
    /\ worker[w].pc = "running"
    /\ worker[w].job.kind \in PostScanKind
    /\ Return(w, outcome)
    /\ UNCHANGED rows
=============================================================================
