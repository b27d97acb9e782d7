---------------------------- MODULE SampleStorage ----------------------------
(***************************************************************************)
(* The life of stored samples: the upload service, the tasks that use the  *)
(* samples, the archive imports and the maintenance loops that remove what *)
(* has expired all work on the same rows and files, each step in a         *)
(* transaction of its own.                                                 *)
(***************************************************************************)
EXTENDS ArchiveImport

CONSTANTS
    Plans,   \* what clients do: archives already uploaded, uploads they send
    Worked,  \* bound: the uploads whose tasks do more than exist
    Swept    \* bound: the contents that the maintenance loops look at

Attempts == 1 .. MaxAttempts

\* What is stored at the start is what uploads of archives stored.
ASSUME PlansAreValid ==
    /\ \A plan \in Plans : /\ plan.done \subseteq Archive /\ IsFiniteSet(plan.done)
                           /\ plan.tries \in Attempts
    /\ Worked \subseteq Upload /\ Swept \subseteq Blob

Init == \E plan \in Plans : InitWith(plan.done, plan.sent, plan.tries)

UploadStep(u) ==
    \/ CreateUpload(u) \/ PutPart(u) \/ BeginCompletion(u)
    \/ PrepareCompletion(u) \/ PublishAssembly(u) \/ FinalizeCompletion(u)
    \/ LeaveCompletion(u)
    \/ EnsureDirectTask(u) \/ EnsureArchiveImport(u)

NestedStep(u) == StoreNested(u) \/ PublishTree(u) \/ PublishTreeWithout(u) \/ AbandonTree(u)

TaskStep(u) ==
    \/ FinishScan(u) \/ RetryScan(u) \/ RequestJob(u) \/ ClaimJob(u) \/ ReturnJob(u)
    \/ ExpireSample(u) \/ RequestDelete(u)

CleanupStep(u) ==
    \/ ClaimCleanup(u) \/ ExpireCleanupLease(u) \/ ClaimSample(u) \/ ExpireSampleLease(u)
    \/ \E n \in 1 .. MaxLeases[u] :
          \/ CompleteCleanup(u, n) \/ LeaveCleanup(u, n) \/ RenewCleanup(u, n)
          \/ CompleteSample(u, n) \/ LeaveSample(u, n)

RetentionStep(u) ==
    CancelUpload(u) \/ CleanupParts(u) \/ ExpireClock(u) \/ ExpireUpload(u)

BlobStep(b) ==
    \/ LockDeleting(b) \/ RemoveDeleting(b) \/ MarkDeleted(b) \/ CrashMaintenance(b)
    \/ ReconcileBlobReference(b) \/ LockOrphan(b) \/ RemoveOrphan(b) \/ AgeFile(b)
    \/ LockReleased(b) \/ RemoveReleased(b) \/ MarkReleased(b)

ImportStep(a) ==
    \/ ClaimImport(a) \/ ExpireImportLease(a) \/ RecoverExpired(a)
    \/ \E n \in Attempts :
          \/ ResetEntries(a, n) \/ CompleteImport(a, n) \/ LeaveImport(a, n)
          \/ RetryImport(a, n) \/ FailImport(a, n)
          \/ \E e \in Members(a) : PublishEntry(a, n, e) \/ PersistEntry(a, n, e)
    \/ \E es \in SUBSET Members(a) : BeginBatch(a, es)
    \/ CompleteBatch(a) \/ PrepareDelete(a) \/ FinalizeDelete(a) \/ InterruptDelete(a)

EntryStep(e) ==
    \/ ReconcileEntryFact(e) \/ ClaimBatchItem(e) \/ ExpireItemLease(e) \/ DeleteDerived(e)
    \/ \E n \in Attempts :
          \/ CreateDerived(e, n) \/ SaveDerived(e, n) \/ CreateEntryTask(e, n)
          \/ FinalizeItem(e, n) \/ RetryOrFailItem(e, n) \/ LeaveItem(e, n)

Next ==
    \/ \E u \in Direct : UploadStep(u)
    \/ \E u \in DOMAIN NestedIn : NestedStep(u)
    \/ \E u \in Worked : TaskStep(u) \/ CleanupStep(u)
    \/ \E u \in Upload : RetentionStep(u)
    \/ \E b \in Swept : BlobStep(b)
    \/ \E a \in Archive : ImportStep(a)
    \/ \E e \in Entry : EntryStep(e)

(***************************************************************************)
(* The maintenance loop and the archive import runner sweep again and      *)
(* again, and leases end.                                                  *)
(***************************************************************************)
Fairness ==
    /\ \A u \in Direct \ Archive : WF_vars(EnsureDirectTask(u))
    /\ \A a \in Archive : WF_vars(ClaimImport(a)) /\ WF_vars(ExpireImportLease(a))
                            /\ WF_vars(RecoverExpired(a))

Spec == Init /\ [][Next]_vars /\ Fairness

(***************************************************************************)
(* The maintenance loop tries an interrupted deletion again and again, and *)
(* a try that can go on does so at some time.                              *)
(***************************************************************************)
RecoverDeleting(a) == import[a].status = "deleting" /\ PrepareDelete(a)

DeletionFairness ==
    /\ \A a \in Archive : WF_vars(RecoverDeleting(a)) /\ SF_vars(FinalizeDelete(a))
    /\ \A e \in Entry : SF_vars(ReconcileEntryFact(e)) /\ SF_vars(DeleteDerived(e))

SpecWithDeletions == Spec /\ DeletionFairness
-----------------------------------------------------------------------------
TypeOK ==
    /\ blob \in [Blob -> [state : BlobState, refs : Nat]]
    /\ file \in [Blob -> {"none", "fresh", "old"}]
    /\ fence \in [Blob -> {"free", "retention", "retention removed", "orphan",
                           "import", "erase", "erase removed"}]
    /\ upload \in [Upload -> [status : UploadStatus, ref : BOOLEAN, parts : BOOLEAN,
                              validation : {"pending", "valid", "mismatch"},
                              late : BOOLEAN]]
    /\ completing \in [Direct -> {"idle", "validated", "prepared", "published",
                                  "completed"}]
    /\ task \in [Upload -> [status : TaskStatus, jobs : TaskJobs, sample : BOOLEAN,
                            late : BOOLEAN, nested : BOOLEAN]]
    /\ scanning \in [DOMAIN NestedIn -> {"idle", "stored"}]
    /\ sampleOp \in [Upload -> Operation] /\ cleanupOp \in [Upload -> Operation]
    /\ import \in [Archive -> [status : {"absent", "queued", "running", "ready", "failed",
                                         "deleting", "deleted"},
                               attempt : 0 .. MaxAttempts, max : Attempts,
                               live : BOOLEAN, source : BOOLEAN, batch : BOOLEAN]]
    /\ importer \in [Archive -> [Attempts ->
                       [step : {"none", "claimed", "reset", "published"},
                        at : SUBSET Entry, done : SUBSET Entry]]]
    /\ entry \in [Entry -> [status : {"absent", "eligible", "created", "failed"},
                            ref : BOOLEAN, derived : BOOLEAN]]
    /\ item \in [Entry -> [outcome : {"absent", "pending", "processing", "created",
                                      "existing", "failed"},
                           attempt : 0 .. MaxAttempts, live : BOOLEAN]]
    /\ batcher \in [Entry -> [Attempts -> {"none", "claimed", "derived", "saved", "tasked"}]]
    /\ deleting \in [Archive -> BOOLEAN]
    /\ erasing \subseteq Blob

(***************************************************************************)
(* The counter of a blob is the number of uploads, tasks, file nodes,      *)
(* imports and members that refer to it, and the blob is kept exactly as   *)
(* long as there is one: nothing releases a reference twice or loses one,  *)
(* whatever the order of completions, expiries, retries and crashes.       *)
(***************************************************************************)
ReferencesAreExact ==
    LET references == References IN
    \A b \in Blob :
        /\ blob[b].refs = Held(references, b)
        /\ blob[b].state \in {"staging", "available"} <=> blob[b].refs > 0

(***************************************************************************)
(* What a row calls available has its file: no sweep removes the file of a *)
(* content while an upload or an import is taking a reference to it.  The  *)
(* images found inside samples are the subject of NestedBlobHasFile.       *)
(***************************************************************************)
Nested == {NestedIn[u] : u \in DOMAIN NestedIn}

AvailableBlobHasFile ==
    \A b \in Blob \ Nested : blob[b].state = "available" => file[b] # "none"

\* The same of the images that scans store, whose producer takes no fence
\* (internal/scan publishDerivedBlob).
NestedBlobHasFile ==
    \A b \in Nested : blob[b].state = "available" => file[b] # "none"

(***************************************************************************)
(* A job that a worker holds has its sample: neither the retention of the  *)
(* sample nor the cleanup of the task takes it away from under the worker, *)
(* however their leases are lost and taken over.                           *)
(***************************************************************************)
HeldJobsHaveSamples ==
    \A u \in Upload :
        task[u].jobs = "held" => /\ task[u].sample
                                 /\ blob[Content[u]].state = "available"

(***************************************************************************)
(* An import that offers its members for tasks has stored all of them, and *)
(* each that has no task yet still refers to its content: an attempt that  *)
(* lost its lease cannot complete the import half-way through another.     *)
(***************************************************************************)
ReadyImportIsComplete ==
    \A a \in Archive : import[a].status = "ready" =>
        \A e \in Members(a) : /\ entry[e].status # "absent"
                              /\ Unsettled(e) => entry[e].ref

(***************************************************************************)
(* An upload is consumed by its first task: no replay of a completion, no  *)
(* retry of a batch and no recovery makes another, not even after the task *)
(* was deleted.                                                            *)
(***************************************************************************)
TaskMadeOnce ==
    [][\A u \in Upload :
        /\ task[u].status # "absent" => task'[u].status # "absent"
        /\ task[u].status = "DELETED" => task'[u].status = "DELETED"]_vars
-----------------------------------------------------------------------------
\* A completed upload gets its task unless its user deletes it first: it is
\* neither forgotten after a crash nor expired before.
UploadsGetTasks ==
    \A u \in Direct \ Archive :
        upload[u].status = "completed" ~>
            task[u].status # "absent" \/ upload[u].status = "cancelled"

\* An import is worked off or gives up, however its workers die.
ImportsEnd ==
    \A a \in Archive :
        import[a].status \in {"queued", "running"} ~>
            import[a].status \notin {"queued", "running"}

\* An archive whose deletion has begun is deleted (archiveimport/maintenance.go).
DeletionsEnd ==
    \A a \in Archive : import[a].status = "deleting" ~> import[a].status = "deleted"
=============================================================================
