---------------------------- MODULE TaskLifecycle ----------------------------
(***************************************************************************)
(* internal/task: what a user does to a task while its jobs run, and the   *)
(* requests for post-scan jobs (internal/decompile,                        *)
(* internal/manualimagescan).  Replays of an idempotency key read only.    *)
(***************************************************************************)
EXTENDS JobStore

\* createOnce: the task, its first attempt and its scan job.
CreateTask(t) ==
    /\ task[t] = "absent"
    /\ task' = [task EXCEPT ![t] = "QUEUED"]
    /\ attempt' = [attempt EXCEPT ![<<t, 1>>] =
                      [status |-> "queued", token |-> 1]]
    /\ job' = [job EXCEPT ![ScanJob(t, 1)] = QueuedJob(1)]
    /\ UNCHANGED <<slot, run, published, importer, worker>>

\* MAX(attempt_number) and MAX(fencing_token) over the task's attempts.
LastNumber(t, n) ==
    /\ attempt[<<t, n>>].status # "absent"
    /\ \A m \in 1 .. MaxNumber : attempt[<<t, m>>].status # "absent" => m <= n
MaxToken(t, token) ==
    \A m \in 1 .. MaxNumber : attempt[<<t, m>>].token <= token

\* retryOnce; the bound MaxNumber stands for no limit in the code.
Retry(t) ==
    \E last, top \in 1 .. MaxNumber :
        LET token == attempt[<<t, top>>].token + 1
            n == last + 1
        IN
        /\ task[t] \in {"FAILED", "CANCELLED", "PARTIAL_SUCCEEDED"}
        /\ LastNumber(t, last) /\ MaxToken(t, attempt[<<t, top>>].token)
        /\ n <= MaxNumber /\ ScanJob(t, n) \in Job
        /\ attempt' = [attempt EXCEPT ![<<t, n>>] =
                          [status |-> "queued", token |-> token]]
        /\ job' = [job EXCEPT ![ScanJob(t, n)] = QueuedJob(token)]
        /\ task' = [task EXCEPT ![t] = "QUEUED"]
        /\ UNCHANGED <<slot, run, published, importer, worker>>
-----------------------------------------------------------------------------
JobsOf(t, statuses) == {j \in Job : j.task = t /\ job[j].status \in statuses}

\* Mutant of AbandonedAttempts: a started job of the attempt is overlooked.
AbandonedEvenIfStarted(t) ==
    {a \in AttemptId :
        /\ attempt[a].status \in {"queued", "running"}
        /\ \E j \in JobsOf(t, WaitingJob) :
              /\ j.kind \in ScanKind /\ AttemptOf(j) = a
              /\ job[j].token = attempt[a].token}

\* The attempts that cancelActiveJobs ends at once: a waiting scan or Trivy
\* job carries the attempt's fence and no started job belongs to it.
AbandonedAttempts(t) ==
    {a \in AttemptId :
        /\ attempt[a].status \in {"queued", "running"}
        /\ \E j \in JobsOf(t, WaitingJob) :
              /\ j.kind \in ScanKind /\ AttemptOf(j) = a
              /\ job[j].token = attempt[a].token
        /\ ~\E j \in JobsOf(t, {"running", "cancel_requested"}) :
              j.kind \in ScanKind /\ AttemptOf(j) = a}

\* Mutant of CancelActiveJobs: the slots of running jobs are freed as well.
CancelFreesRunning(t) ==
    /\ attempt' = [a \in AttemptId |->
                      IF a \in AbandonedAttempts(t)
                      THEN [attempt[a] EXCEPT !.status = "cancelled"]
                      ELSE attempt[a]]
    /\ slot' = FreedSlots(JobsOf(t, ActiveJob))
    /\ job' = [j \in Job |->
                  IF j \in JobsOf(t, WaitingJob) THEN Settled(j, "cancelled")
                  ELSE IF j \in JobsOf(t, {"running"})
                       THEN [job[j] EXCEPT !.status = "cancel_requested"]
                       ELSE job[j]]

\* cancelActiveJobs: waiting jobs of every kind are cancelled with their
\* slots, running ones keep lease and slots until the lease is recovered.
CancelActiveJobs(t) ==
    /\ attempt' = [a \in AttemptId |->
                      IF a \in AbandonedAttempts(t)
                      THEN [attempt[a] EXCEPT !.status = "cancelled"]
                      ELSE attempt[a]]
    /\ slot' = FreedSlots(JobsOf(t, WaitingJob))
    /\ job' = [j \in Job |->
                  IF j \in JobsOf(t, WaitingJob) THEN Settled(j, "cancelled")
                  ELSE IF j \in JobsOf(t, {"running"})
                       THEN [job[j] EXCEPT !.status = "cancel_requested"]
                       ELSE job[j]]

Cancel(t) ==
    /\ task[t] \in ExecutingTask
    /\ CancelActiveJobs(t)
    /\ task' = [task EXCEPT ![t] =
                   IF JobsOf(t, {"running"}) # {}
                   THEN "CANCEL_REQUESTED" ELSE "CANCELLED"]
    /\ UNCHANGED <<run, published, importer, worker>>

\* deleteOnce, when no sample retention operation holds the task.
Delete(t) ==
    /\ task[t] \notin {"absent", "DELETING"}
    /\ CancelActiveJobs(t)
    /\ task' = [task EXCEPT ![t] = "DELETING"]
    /\ UNCHANGED <<run, published, importer, worker>>
-----------------------------------------------------------------------------
\* A decompilation of a file node or a manual image scan; the number of the
\* job stands for its node, one request each.
RequestPostScan(j) ==
    /\ j.kind \in PostScanKind
    /\ job[j].status = "absent"
    /\ task[j.task] \in TerminalTask /\ HasTree(j.task)
    /\ job' = [job EXCEPT ![j] = QueuedJob(0)]
    /\ UNCHANGED <<task, attempt, slot, run, published, importer, worker>>
=============================================================================
