--------------------------- MODULE SampleRetention ---------------------------
(***************************************************************************)
(* The maintenance loop over stored samples: internal/retention ends the   *)
(* reference of expired tasks and uploads and removes the files nobody     *)
(* refers to; internal/orphanreaper removes old files without a row and    *)
(* corrects reference counts.  Any number of such loops may run.           *)
(***************************************************************************)
EXTENDS UploadService, SampleTasks

unchangedButBlobs == <<uploadVars, taskVars, archiveVars>>
-----------------------------------------------------------------------------
\* Mutant of SampleExpired: a running job does not protect the sample.
SampleExpiredWhileHeld(u) ==
    /\ task[u].status = "ENDED" /\ task[u].sample /\ task[u].late
    /\ task[u].jobs \in {"none", "decompile", "held"}

\* expiredTaskPredicate: a queued decompilation does not keep the sample.
SampleExpired(u) ==
    /\ task[u].status = "ENDED" /\ task[u].sample /\ task[u].late
    /\ task[u].jobs \in {"none", "decompile"}

ClaimSample(u) ==
    /\ SampleExpired(u)
    /\ Claimable(sampleOp[u]) /\ sampleOp[u].token < MaxLeases[u]
    /\ sampleOp' = [sampleOp EXCEPT ![u] = Claimed(@)]
    /\ UNCHANGED <<task, scanning, cleanupOp, unchangedButTasks>>

CompleteSample(u, n) ==
    /\ n \in sampleOp[u].workers
    /\ SampleExpired(u) /\ Holds(sampleOp[u], n)
    /\ CanReleaseAll(TaskReferences(u))
    /\ blob' = ReleasedAll(TaskReferences(u))
    /\ task' = [task EXCEPT ![u].sample = FALSE, ![u].nested = FALSE,
                            ![u].jobs = IF @ = "decompile" THEN "none" ELSE @]
    /\ sampleOp' = [sampleOp EXCEPT ![u] = Completed(@, n)]
    /\ UNCHANGED <<file, fence, uploadVars, archiveVars, scanning, cleanupOp>>

LeaveSample(u, n) ==
    /\ n \in sampleOp[u].workers
    /\ sampleOp' \in {[sampleOp EXCEPT ![u] = Left(@, n)],
                      [sampleOp EXCEPT ![u] = Failed(@, n)]}
    /\ UNCHANGED <<task, scanning, cleanupOp, unchangedButTasks>>

ExpireSampleLease(u) ==
    /\ sampleOp[u].live
    /\ sampleOp' = [sampleOp EXCEPT ![u].live = FALSE]
    /\ UNCHANGED <<task, scanning, cleanupOp, unchangedButTasks>>
-----------------------------------------------------------------------------
\* expiredUploadPredicate: what still waits for its task, its import or its
\* batch is kept although it has expired.
Awaited(u) ==
    /\ upload[u].status = "completed"
    /\ \/ /\ u \in Direct /\ blob[Content[u]].state = "available"
          /\ IF u \in Archive THEN import[u].status \in {"absent", "queued", "running"}
                              ELSE task[u].status = "absent"
       \/ u \in Entry /\ entry[u].status \in {"eligible", "failed"}

\* Mutant of UploadExpired: an upload that waits for its task is not kept.
UploadExpiredEarly(u) ==
    /\ upload[u].late /\ Idle(u)
    /\ upload[u].status # "expired" \/ upload[u].ref \/ upload[u].parts

UploadExpired(u) ==
    /\ upload[u].late /\ Idle(u)
    /\ upload[u].status # "expired" \/ upload[u].ref \/ upload[u].parts
    /\ ~Awaited(u)

ExpireUpload(u) ==
    /\ UploadExpired(u)
    /\ CanReleaseAll(UploadReference(u))
    /\ blob' = ReleasedAll(UploadReference(u))
    /\ upload' = [upload EXCEPT ![u].status = "expired", ![u].ref = FALSE,
                                ![u].parts = FALSE]
    /\ UNCHANGED <<completing, file, fence, taskVars, archiveVars>>
-----------------------------------------------------------------------------
\* FinalizeDeletingBlob: the fence, the lock of the row, the file, the commit.
LockDeleting(b) ==
    /\ fence[b] = "free"
    /\ blob[b] = [state |-> "deleting", refs |-> 0]
    /\ fence' = [fence EXCEPT ![b] = "retention"]
    /\ UNCHANGED <<blob, file, unchangedButBlobs>>

RemoveDeleting(b) ==
    /\ fence[b] = "retention"
    /\ file' = [file EXCEPT ![b] = "none"]
    /\ fence' = [fence EXCEPT ![b] = "retention removed"]
    /\ UNCHANGED <<blob, unchangedButBlobs>>

MarkDeleted(b) ==
    /\ fence[b] = "retention removed"
    /\ blob' = [blob EXCEPT ![b].state = "deleted"]
    /\ fence' = [fence EXCEPT ![b] = "free"]
    /\ UNCHANGED <<file, unchangedButBlobs>>

\* The process dies; the transaction is rolled back, the locks are free.
CrashMaintenance(b) ==
    /\ fence[b] \notin {"free", "import"}
    /\ fence' = [fence EXCEPT ![b] = "free"]
    /\ UNCHANGED <<blob, file, unchangedButBlobs>>
-----------------------------------------------------------------------------
\* The references all tables hold, as ReconcileBlobReference counts them.
References ==
    (UNION {UploadReference(u) \cup TaskReferences(u) : u \in Upload})
      \cup {<<a, "source">> : a \in {c \in Archive : import[c].source}}
      \cup {<<e, "entry">> : e \in {d \in Entry : entry[d].ref}}
Owners(b) == {r \in References : BlobOf(r) = b}

ReconciledState(state, owners) ==
    CASE owners # 0 /\ state = "deleting" -> "available"
      [] owners = 0 /\ state \in {"available", "staging"} -> "deleting"
      [] OTHER -> state

\* Where counts are exact, as ReferencesAreExact says, this changes nothing.
ReconcileBlobReference(b) ==
    /\ blob[b].state \notin {"absent", "deleted"} /\ ~RowLocked(b)
    /\ LET owners == Cardinality(Owners(b)) IN
       blob' = [blob EXCEPT ![b] = [state |-> ReconciledState(@.state, owners),
                                    refs |-> owners]]
    /\ UNCHANGED <<file, fence, unchangedButBlobs>>

\* deleteOrphanBlob: an old file, without a row or with a tombstone nobody
\* refers to; the lock of the row, or of its gap, keeps it so.
Orphaned(b) ==
    /\ file[b] = "old" /\ fence[b] = "free"
    /\ blob[b].state = "absent" \/ (blob[b].state = "deleted" /\ Owners(b) = {})

LockOrphan(b) ==
    /\ Orphaned(b)
    /\ fence' = [fence EXCEPT ![b] = "orphan"]
    /\ UNCHANGED <<blob, file, unchangedButBlobs>>

RemoveOrphan(b) ==
    /\ fence[b] = "orphan"
    /\ file' = [file EXCEPT ![b] = "none"]
    /\ fence' = [fence EXCEPT ![b] = "free"]
    /\ UNCHANGED <<blob, unchangedButBlobs>>

\* A file is old after a grace period that no scan takes to publish its tree.
AgeFile(b) ==
    /\ file[b] = "fresh"
    /\ \A u \in DOMAIN NestedIn : NestedIn[u] = b => scanning[u] = "idle"
    /\ file' = [file EXCEPT ![b] = "old"]
    /\ UNCHANGED <<blob, fence, unchangedButBlobs>>
=============================================================================
