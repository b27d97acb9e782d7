----------------------------- MODULE SampleTasks -----------------------------
(***************************************************************************)
(* What tasks do with stored samples: jobs that read the sample, a scan    *)
(* that stores an image it found inside the sample (internal/scan), and    *)
(* the deletion of a task (internal/task, internal/taskcleanup).  The      *)
(* scheduling of the jobs themselves is the subject of JobPlatform.        *)
(***************************************************************************)
EXTENDS SampleStore

SetTask(u, jobs) == [task EXCEPT ![u].jobs = jobs]
unchangedButTasks == <<blobVars, uploadVars, archiveVars>>

SampleUsable(u) == task[u].sample /\ ~task[u].late

\* The last transaction of an attempt: the sample is kept for a while longer.
FinishScan(u) ==
    /\ task[u].status = "ACTIVE"
    /\ u \in DOMAIN NestedIn => scanning[u] = "idle"
    /\ task' = [task EXCEPT ![u].status = "ENDED", ![u].late = FALSE]
    /\ UNCHANGED <<scanning, sampleOp, cleanupOp, unchangedButTasks>>

RetryScan(u) ==
    /\ task[u].status = "ENDED" /\ SampleUsable(u)
    /\ task' = [task EXCEPT ![u].status = "ACTIVE"]
    /\ UNCHANGED <<scanning, sampleOp, cleanupOp, unchangedButTasks>>

\* A decompilation or a manual image scan is requested; claimCandidateSQL
\* lets a worker take it only while the sample is usable.
RequestJob(u) ==
    /\ task[u].status = "ENDED" /\ SampleUsable(u) /\ task[u].jobs = "none"
    /\ task' \in {SetTask(u, "decompile"), SetTask(u, "image")}
    /\ UNCHANGED <<scanning, sampleOp, cleanupOp, unchangedButTasks>>

ClaimJob(u) ==
    /\ task[u].status = "ENDED" /\ SampleUsable(u)
    /\ task[u].jobs \in {"decompile", "image"}
    /\ task' = SetTask(u, "held")
    /\ UNCHANGED <<scanning, sampleOp, cleanupOp, unchangedButTasks>>

\* The lease ends: the job is done, or queued again.
ReturnJob(u) ==
    /\ task[u].jobs = "held"
    /\ task' \in {SetTask(u, "none")}
                   \cup IF task[u].status = "ENDED"
                        THEN {SetTask(u, "decompile"), SetTask(u, "image")} ELSE {}
    /\ UNCHANGED <<scanning, sampleOp, cleanupOp, unchangedButTasks>>

\* Time passes the expiry time of the task's sample.
ExpireSample(u) ==
    /\ task[u].status # "absent" /\ ~task[u].late
    /\ task' = [task EXCEPT ![u].late = TRUE]
    /\ UNCHANGED <<scanning, sampleOp, cleanupOp, unchangedButTasks>>
-----------------------------------------------------------------------------
(***************************************************************************)
(* publishDerivedBlob, then PublishTree: the worker puts the image at its  *)
(* address, or verifies the file it finds there, before any row names it   *)
(* and without the fence of the content.                                   *)
(***************************************************************************)
StoreNested(u) ==
    /\ task[u].status = "ACTIVE" /\ task[u].sample /\ scanning[u] = "idle"
    /\ file' = [file EXCEPT ![NestedIn[u]] = IF @ = "none" THEN "fresh" ELSE @]
    /\ scanning' = [scanning EXCEPT ![u] = "stored"]
    /\ UNCHANGED <<blob, fence, uploadVars, archiveVars, task, sampleOp, cleanupOp>>

(***************************************************************************)
(* releaseTreeBlobReferences and acquireTreeBlobReference in one           *)
(* transaction: the reference of an earlier scan is given back and taken   *)
(* again, a row not seen before starts available.                          *)
(***************************************************************************)
TreeReference(u) ==
    LET b == NestedIn[u] IN
    IF task[u].nested THEN blob[b].state = "available" /\ UNCHANGED blob
    ELSE \/ blob[b].state = "available" /\ blob' = Referenced(blob, b)
         \/ /\ blob[b].state = "absent"
            /\ blob' = [blob EXCEPT ![b] = [state |-> "available", refs |-> 1]]

PublishTree(u) ==
    /\ scanning[u] = "stored"
    /\ task[u].status = "ACTIVE" /\ ~RowLocked(NestedIn[u])
    /\ TreeReference(u)
    /\ task' = [task EXCEPT ![u].nested = TRUE]
    /\ scanning' = [scanning EXCEPT ![u] = "idle"]
    /\ UNCHANGED <<file, fence, uploadVars, archiveVars, sampleOp, cleanupOp>>

\* A scan that does not keep the image gives the reference back.
PublishTreeWithout(u) ==
    /\ task[u].status = "ACTIVE" /\ task[u].nested /\ scanning[u] = "idle"
    /\ CanReleaseAll({<<u, "nested">>})
    /\ blob' = ReleasedAll({<<u, "nested">>})
    /\ task' = [task EXCEPT ![u].nested = FALSE]
    /\ UNCHANGED <<file, fence, uploadVars, archiveVars, scanning, sampleOp, cleanupOp>>

\* The worker dies or loses its lease between the file and the rows.
AbandonTree(u) ==
    /\ scanning[u] = "stored"
    /\ scanning' = [scanning EXCEPT ![u] = "idle"]
    /\ UNCHANGED <<task, sampleOp, cleanupOp, unchangedButTasks>>
-----------------------------------------------------------------------------
\* internal/task deleteOnce: waiting jobs are cancelled, held ones drain.
RequestDelete(u) ==
    /\ task[u].status \in {"ACTIVE", "ENDED"}
    /\ ~(sampleOp[u].status = "cleaning" /\ sampleOp[u].live)
    /\ task' = [task EXCEPT ![u].status = "DELETING",
                            ![u].jobs = IF @ = "held" THEN "held" ELSE "none"]
    /\ UNCHANGED <<scanning, sampleOp, cleanupOp, unchangedButTasks>>

(***************************************************************************)
(* A cleanup operation of either kind is claimed for a time: a new lease   *)
(* takes the next token.  A process that loses its lease learns of it only *)
(* when it next writes.                                                    *)
(***************************************************************************)
Claimable(op) == ~(op.status = "completed" \/ (op.status = "cleaning" /\ op.live))
Claimed(op) == [status |-> "cleaning", token |-> op.token + 1, live |-> TRUE,
                workers |-> op.workers \cup {op.token + 1}]
Holds(op, n) == op.status = "cleaning" /\ op.live /\ op.token = n
Left(op, n) == [op EXCEPT !.workers = @ \ {n}]
Completed(op, n) == [Left(op, n) EXCEPT !.status = "completed", !.live = FALSE]

\* FailExpiredTaskSample, Fail: the token is checked, the time is not.
Failed(op, n) ==
    IF op.status = "cleaning" /\ op.token = n
    THEN [Left(op, n) EXCEPT !.status = "failed", !.live = FALSE]
    ELSE Left(op, n)

ClaimCleanup(u) ==
    /\ task[u].status = "DELETING" /\ task[u].jobs = "none"
    /\ Claimable(cleanupOp[u]) /\ cleanupOp[u].token < MaxLeases[u]
    /\ cleanupOp' = [cleanupOp EXCEPT ![u] = Claimed(@)]
    /\ UNCHANGED <<task, scanning, sampleOp, unchangedButTasks>>

\* Complete: the references the task holds go with it, unless the retention
\* of the sample took them before.
CompleteCleanup(u, n) ==
    /\ n \in cleanupOp[u].workers
    /\ task[u].status = "DELETING" /\ task[u].jobs = "none"
    /\ Holds(cleanupOp[u], n)
    /\ CanReleaseAll(TaskReferences(u))
    /\ blob' = ReleasedAll(TaskReferences(u))
    /\ task' = [task EXCEPT ![u].status = "DELETED", ![u].sample = FALSE,
                            ![u].nested = FALSE]
    /\ cleanupOp' = [cleanupOp EXCEPT ![u] = Completed(@, n)]
    /\ UNCHANGED <<file, fence, uploadVars, archiveVars, scanning, sampleOp>>

LeaveCleanup(u, n) ==
    /\ n \in cleanupOp[u].workers
    /\ cleanupOp' \in {[cleanupOp EXCEPT ![u] = Left(@, n)],
                       [cleanupOp EXCEPT ![u] = Failed(@, n)]}
    /\ UNCHANGED <<task, scanning, sampleOp, unchangedButTasks>>

ExpireCleanupLease(u) ==
    /\ cleanupOp[u].live
    /\ cleanupOp' = [cleanupOp EXCEPT ![u].live = FALSE]
    /\ UNCHANGED <<task, scanning, sampleOp, unchangedButTasks>>

\* Renew: by token and owner; the lease may have ended in between.
RenewCleanup(u, n) ==
    /\ n \in cleanupOp[u].workers
    /\ cleanupOp[u].status = "cleaning" /\ cleanupOp[u].token = n
    /\ ~cleanupOp[u].live
    /\ cleanupOp' = [cleanupOp EXCEPT ![u].live = TRUE]
    /\ UNCHANGED <<task, scanning, sampleOp, unchangedButTasks>>
=============================================================================
