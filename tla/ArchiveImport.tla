---------------------------- MODULE ArchiveImport ----------------------------
(***************************************************************************)
(* internal/archiveimport: a leased worker stores the members of an        *)
(* uploaded archive; a batch makes an upload and a task of each member     *)
(* that is asked for; the deletion of the archive is a saga of several     *)
(* transactions, which the maintenance loop resumes.                       *)
(*                                                                         *)
(* A lease of an import and of a batch item is named by its attempt, as    *)
(* the fencing token counts attempts: importer[a][n] and batcher[e][n] are *)
(* the processes that were given attempt n, alive or not.                  *)
(***************************************************************************)
EXTENDS SampleRetention

Members(a) == {e \in Entry : Parent[e] = a}
Tries(e) == import[Parent[e]].max

unchangedButImports == <<blobVars, uploadVars, taskVars, entry, item, batcher, deleting>>
unchangedButBatches == <<file, fence, import, importer, deleting, erasing>>

Importing(a, n, step, at, done) ==
    importer' = [importer EXCEPT ![a][n] = [step |-> step, at |-> at, done |-> done]]
Step(a, n, step) == Importing(a, n, step, {}, {})
LeaseHeld(a, n) == import[a].status = "running" /\ import[a].live /\ import[a].attempt = n
ReleaseSource(a) == IF import[a].source THEN {<<a, "source">>} ELSE {}
EntryReference(e) == IF entry[e].ref THEN {<<e, "entry">>} ELSE {}
Gone(refs) == CanReleaseAll(refs) /\ blob' = ReleasedAll(refs)
-----------------------------------------------------------------------------
\* Claim: one import runs at a time, on a source it still refers to.
ClaimImport(a) ==
    /\ import[a].status = "queued" /\ import[a].attempt < import[a].max
    /\ import[a].source /\ upload[a].status = "completed"
    /\ blob[Content[a]].state = "available"
    /\ \A c \in Archive : import[c].status # "running"
    /\ import' = [import EXCEPT ![a].status = "running", ![a].live = TRUE,
                                ![a].attempt = @ + 1]
    /\ Step(a, import[a].attempt + 1, "claimed")
    /\ UNCHANGED <<erasing, unchangedButImports>>

\* ResetForProcessing: what an earlier attempt stored is given back.
ResetEntries(a, n) ==
    LET refs == UNION {EntryReference(e) : e \in Members(a)} IN
    /\ importer[a][n].step = "claimed" /\ LeaseHeld(a, n)
    /\ Gone(refs) /\ erasing' = erasing \cup LastOf(refs)
    /\ entry' = [e \in Entry |-> IF Parent[e] = a THEN NoEntry ELSE entry[e]]
    /\ Step(a, n, "reset")
    /\ UNCHANGED <<file, fence, uploadVars, taskVars, import, item, batcher, deleting>>

\* Process: under the fence of its content a member is put at its address,
\* or found there, and only then a row names it.
PublishEntry(a, n, e) ==
    /\ importer[a][n].step = "reset" /\ e \notin importer[a][n].done
    /\ fence[Content[e]] = "free"
    /\ fence' = [fence EXCEPT ![Content[e]] = "import"]
    /\ file' = [file EXCEPT ![Content[e]] = IF @ = "none" THEN "fresh" ELSE @]
    /\ Importing(a, n, "published", {e}, importer[a][n].done)
    /\ UNCHANGED <<blob, uploadVars, taskVars, import, entry, item, batcher,
                   deleting, erasing>>

\* retainPublishedBlob: a row without a file, or about to lose it, is revived.
Retained(b) ==
    [blob EXCEPT ![b] = [state |-> "available", refs |-> @.refs + 1]]

PersistEntry(a, n, e) ==
    LET b == Content[e] IN
    /\ importer[a][n].step = "published" /\ importer[a][n].at = {e}
    /\ LeaseHeld(a, n)
    /\ entry[e].status = "absent"
    /\ \/ blob[b].state \in {"absent", "available"}
       \/ blob[b].state \in {"deleting", "deleted"} /\ blob[b].refs = 0
    /\ blob' = Retained(b)
    /\ entry' = [entry EXCEPT ![e].status = "eligible", ![e].ref = TRUE]
    /\ fence' = [fence EXCEPT ![b] = "free"]
    /\ Importing(a, n, "reset", {}, importer[a][n].done \cup {e})
    /\ UNCHANGED <<file, uploadVars, taskVars, import, item, batcher, deleting, erasing>>

\* Mutant of LeaseForEnd: any live lease will do, that of a later attempt too.
LeaseOfAny(a, n) == import[a].status = "running" /\ import[a].live

LeaseForEnd(a, n) == LeaseHeld(a, n)

EndImport(a, n, status) ==
    /\ LeaseForEnd(a, n)
    /\ Gone(ReleaseSource(a))
    /\ import' = [import EXCEPT ![a].status = status, ![a].live = FALSE,
                                ![a].source = FALSE]
    /\ Step(a, n, "none")
    /\ UNCHANGED <<file, fence, uploadVars, taskVars, entry, item, batcher,
                   deleting, erasing>>

CompleteImport(a, n) ==
    /\ importer[a][n].step = "reset"
    /\ importer[a][n].done = Members(a)
    /\ EndImport(a, n, "ready")

Unfenced(a, n) ==
    [b \in Blob |-> IF \E e \in importer[a][n].at : Content[e] = b
                    THEN "free" ELSE fence[b]]

\* The process fails or dies; a connection that ends releases its fence.
LeaveImport(a, n) ==
    /\ importer[a][n].step # "none"
    /\ fence' = Unfenced(a, n)
    /\ Step(a, n, "none")
    /\ UNCHANGED <<blob, file, uploadVars, taskVars, import, entry, item, batcher,
                   deleting, erasing>>

\* FailLease for an error worth another attempt: the token is checked, the
\* time is not.
RetryImport(a, n) ==
    /\ importer[a][n].step # "none" /\ n < import[a].max
    /\ import[a].status = "running" /\ import[a].attempt = n
    /\ import' = [import EXCEPT ![a].status = "queued", ![a].live = FALSE]
    /\ fence' = Unfenced(a, n)
    /\ Step(a, n, "none")
    /\ UNCHANGED <<blob, file, uploadVars, taskVars, entry, item, batcher,
                   deleting, erasing>>

FailImport(a, n) ==
    /\ importer[a][n].step \in {"claimed", "reset"}
    /\ EndImport(a, n, "failed")

ExpireImportLease(a) ==
    /\ import[a].live
    /\ import' = [import EXCEPT ![a].live = FALSE]
    /\ UNCHANGED <<importer, erasing, unchangedButImports>>

\* Mutant of RecoverExpired: the recovery of the last attempt is forgotten.
RecoverExpiredToRetry(a) ==
    /\ import[a].status = "running" /\ ~import[a].live
    /\ import[a].attempt < import[a].max
    /\ import' = [import EXCEPT ![a].status = "queued"]
    /\ UNCHANGED <<blobVars, uploadVars, taskVars, importer, entry, item, batcher,
                   deleting, erasing>>

\* RecoverExpired: the last attempt gives the source back.
RecoverExpired(a) ==
    /\ import[a].status = "running" /\ ~import[a].live
    /\ IF import[a].attempt < import[a].max
       THEN /\ import' = [import EXCEPT ![a].status = "queued"]
            /\ UNCHANGED blob
       ELSE /\ Gone(ReleaseSource(a))
            /\ import' = [import EXCEPT ![a].status = "failed", ![a].source = FALSE]
    /\ UNCHANGED <<file, fence, uploadVars, taskVars, importer, entry, item,
                   batcher, deleting, erasing>>
-----------------------------------------------------------------------------
(***************************************************************************)
(* DeleteReleased: the file of a blob whose last reference went is removed *)
(* under the fence, after another look at the row, without locking it.     *)
(***************************************************************************)
LockReleased(b) ==
    /\ b \in erasing /\ fence[b] = "free"
    /\ erasing' = erasing \ {b}
    /\ fence' = IF blob[b] = [state |-> "deleting", refs |-> 0]
                THEN [fence EXCEPT ![b] = "erase"] ELSE fence
    /\ UNCHANGED <<blob, file, uploadVars, taskVars, import, importer, entry, item,
                   batcher, deleting>>

RemoveReleased(b) ==
    /\ fence[b] = "erase"
    /\ file' = [file EXCEPT ![b] = "none"]
    /\ fence' = [fence EXCEPT ![b] = "erase removed"]
    /\ UNCHANGED <<blob, unchangedButBlobs>>

\* MarkBlobDeleted
MarkReleased(b) ==
    /\ fence[b] = "erase removed"
    /\ blob' = IF blob[b] = [state |-> "deleting", refs |-> 0]
               THEN [blob EXCEPT ![b].state = "deleted"] ELSE blob
    /\ fence' = [fence EXCEPT ![b] = "free"]
    /\ UNCHANGED <<file, unchangedButBlobs>>
-----------------------------------------------------------------------------
(***************************************************************************)
(* What the uploads and tasks say of a member is authoritative over its    *)
(* own row: a task made for it, or the upload made for it, is found by the *)
(* provenance the upload records and by the blob it refers to.             *)
(***************************************************************************)
TaskFact(e) == upload[e].ref /\ task[e].status # "absent"

Contradicted(e) ==
    /\ entry[e].derived /\ ~TaskFact(e)
    /\ ~(upload[e].ref /\ upload[e].status = "completed")

Unsettled(e) == entry[e].status \in {"eligible", "failed"}

\* ReconcileEntryFact, where there is something to write.
ReconcileEntryFact(e) ==
    /\ Unsettled(e) /\ (import[Parent[e]].batch \/ deleting[Parent[e]]
                          \/ upload[Parent[e]].status \in TerminalUpload)
    /\ IF TaskFact(e)
       THEN /\ Gone(EntryReference(e))
            /\ entry' = [entry EXCEPT ![e] =
                  [status |-> "created", ref |-> FALSE, derived |-> TRUE]]
            /\ item' = [item EXCEPT ![e] =
                  IF @.outcome \in {"pending", "processing", "failed"}
                  THEN [@ EXCEPT !.outcome = "existing", !.live = FALSE] ELSE @]
       ELSE /\ ~entry[e].derived /\ upload[e].ref /\ upload[e].status = "completed"
            /\ entry' = [entry EXCEPT ![e].derived = TRUE]
            /\ UNCHANGED <<blob, item>>
    /\ UNCHANGED <<uploadVars, taskVars, batcher, unchangedButBatches>>

\* ReconcileImportFacts and ReconcileBatchFacts return without an error and
\* with nothing left to write.
Reconciled(es) == \A e \in es : Unsettled(e) => ~TaskFact(e) /\ ~Contradicted(e)

Unfinished(a) == {e \in Members(a) : item[e].outcome \in {"pending", "processing"}}
-----------------------------------------------------------------------------
\* BeginBatch.  Bound: the processes of an earlier batch of the member have
\* ended.
BeginBatch(a, es) ==
    /\ import[a].status = "ready" /\ ~import[a].batch
    /\ es # {} /\ es \subseteq Members(a)
    /\ \A e \in es : /\ entry[e].status \in {"eligible", "failed", "created"}
                     /\ \A n \in 1 .. MaxAttempts : batcher[e][n] = "none"
    /\ item' = [e \in Entry |->
          IF e \in es THEN [NoItem EXCEPT !.outcome =
                              IF Unsettled(e) THEN "pending" ELSE "existing"]
          ELSE IF Parent[e] = a THEN NoItem ELSE item[e]]
    /\ import' = [import EXCEPT ![a].batch = \E e \in es : Unsettled(e)]
    /\ UNCHANGED <<blobVars, uploadVars, taskVars, importer, entry, batcher,
                   deleting, erasing>>

AttemptsLeft(e) == item[e].attempt < Tries(e)

\* ReconcileBatchFacts, then ClaimBatchItem: an item whose last lease ended
\* fails, another is claimed again.
ClaimBatchItem(e) ==
    LET a == Parent[e] IN
    /\ import[a].batch
    /\ Reconciled({d \in Members(a) : item[d].outcome \in {"pending", "processing", "failed"}})
    /\ \/ item[e].outcome = "pending"
       \/ item[e].outcome = "processing" /\ ~item[e].live
    /\ IF AttemptsLeft(e)
       THEN /\ item' = [item EXCEPT ![e] = [outcome |-> "processing", live |-> TRUE,
                                           attempt |-> @.attempt + 1]]
            /\ batcher' = [batcher EXCEPT ![e][item[e].attempt + 1] = "claimed"]
            /\ UNCHANGED entry
       ELSE /\ item' = [item EXCEPT ![e].outcome = "failed"]
            /\ entry' = [entry EXCEPT ![e].status = IF @ = "created" THEN @ ELSE "failed"]
            /\ UNCHANGED batcher
    /\ UNCHANGED <<blob, uploadVars, taskVars, unchangedButBatches>>

ItemHeld(e, n) == item[e].outcome = "processing" /\ item[e].live /\ item[e].attempt = n
BatchStep(e, n, step) == batcher' = [batcher EXCEPT ![e][n] = step]

\* CreateDerivedCompleted: once per member; a replay returns the upload in
\* whatever state it is.
CreateDerived(e, n) ==
    /\ batcher[e][n] = "claimed" /\ ~Contradicted(e)
    /\ IF upload[e].status = "absent"
       THEN /\ CanReference(Content[e]) /\ blob' = Referenced(blob, Content[e])
            /\ upload' = [upload EXCEPT ![e] = NewUpload("completed", TRUE)]
       ELSE UNCHANGED <<blob, upload>>
    /\ BatchStep(e, n, "derived")
    /\ UNCHANGED <<completing, taskVars, entry, item, unchangedButBatches>>

SaveDerived(e, n) ==
    /\ batcher[e][n] = "derived" /\ ItemHeld(e, n)
    /\ entry' = [entry EXCEPT ![e].derived = TRUE]
    /\ BatchStep(e, n, "saved")
    /\ UNCHANGED <<blob, uploadVars, taskVars, item, unchangedButBatches>>

\* The task of the derived upload, or the one an earlier attempt made.
CreateEntryTask(e, n) ==
    /\ batcher[e][n] = "saved"
    /\ IF task[e].status = "absent" THEN TaskAllowed(e) /\ CreatedTask(e)
                                    ELSE UNCHANGED <<blob, task>>
    /\ BatchStep(e, n, "tasked")
    /\ UNCHANGED <<uploadVars, scanning, sampleOp, cleanupOp, entry, item,
                   unchangedButBatches>>

\* Mutant of FinalizeReference: the member's own reference is kept.
FinalizeReferenceKept(e) == {}

FinalizeReference(e) == EntryReference(e)

FinalizeItem(e, n) ==
    /\ batcher[e][n] = "tasked" /\ ItemHeld(e, n)
    /\ Gone(FinalizeReference(e))
    /\ erasing' = erasing \cup LastOf(FinalizeReference(e))
    /\ entry' = [entry EXCEPT ![e] =
          [status |-> "created", ref |-> FALSE, derived |-> TRUE]]
    /\ item' = [item EXCEPT ![e].outcome = "created", ![e].live = FALSE]
    /\ BatchStep(e, n, "none")
    /\ UNCHANGED <<file, fence, uploadVars, taskVars, import, importer, deleting>>

\* RetryOrFailBatchItem, after a step of the item failed and no task is found.
RetryOrFailItem(e, n) ==
    /\ batcher[e][n] # "none" /\ ItemHeld(e, n) /\ ~TaskFact(e)
    /\ entry' = [entry EXCEPT ![e].status = IF @ = "created" THEN @ ELSE "failed"]
    /\ item' = [item EXCEPT ![e].live = FALSE,
                            ![e].outcome = IF n < Tries(e) THEN "pending" ELSE "failed"]
    /\ BatchStep(e, n, "none")
    /\ UNCHANGED <<blob, uploadVars, taskVars, unchangedButBatches>>

\* The process dies, or notices that its lease is lost.
LeaveItem(e, n) ==
    /\ batcher[e][n] # "none"
    /\ BatchStep(e, n, "none")
    /\ UNCHANGED <<blob, uploadVars, taskVars, entry, item, unchangedButBatches>>

ExpireItemLease(e) ==
    /\ item[e].live
    /\ item' = [item EXCEPT ![e].live = FALSE]
    /\ UNCHANGED <<blob, uploadVars, taskVars, entry, batcher, unchangedButBatches>>

\* CompleteBatch, CompleteTerminalBatches
CompleteBatch(a) ==
    /\ import[a].batch /\ Unfinished(a) = {}
    /\ import' = [import EXCEPT ![a].batch = FALSE]
    /\ UNCHANGED <<importer, erasing, unchangedButImports>>
-----------------------------------------------------------------------------
(***************************************************************************)
(* DeleteForUpload, at the owner's request or for a parent that is gone,   *)
(* and RecoverDeleting for a deletion that was interrupted.  Both begin    *)
(* with ReconcileImportFacts and fail when it does.                        *)
(***************************************************************************)
PrepareDelete(a) ==
    /\ Reconciled(Members(a))
    /\ import[a].status \in {"queued", "ready", "failed", "deleting"} /\ ~import[a].batch
    /\ ~deleting[a]
    /\ import' = [import EXCEPT ![a].status = "deleting"]
    /\ deleting' = [deleting EXCEPT ![a] = TRUE]
    /\ UNCHANGED <<blobVars, uploadVars, taskVars, importer, entry, item, batcher, erasing>>

\* orphanDerivedUploadsSQL: uploads made of members that became no task.
OrphanDerived(e) ==
    /\ upload[e].status # "absent" /\ task[e].status = "absent"
    /\ entry[e].status # "created"
    /\ ~(upload[e].status = "cancelled" \/ (upload[e].status = "expired" /\ ~upload[e].ref))

DeleteDerived(e) ==
    /\ deleting[Parent[e]] /\ OrphanDerived(e)
    /\ Cancelled(e)
    /\ UNCHANGED <<completing, file, fence, taskVars, archiveVars>>

FinalizeDelete(a) ==
    LET refs == ReleaseSource(a) \cup UNION {EntryReference(e) : e \in Members(a)} IN
    /\ deleting[a] /\ import[a].status = "deleting"
    /\ \A e \in Members(a) : ~OrphanDerived(e)
    /\ Gone(refs) /\ erasing' = erasing \cup LastOf(refs)
    /\ import' = [import EXCEPT ![a].status = "deleted", ![a].source = FALSE]
    /\ entry' = [e \in Entry |-> IF Parent[e] = a THEN NoEntry ELSE entry[e]]
    /\ item' = [e \in Entry |-> IF Parent[e] = a THEN NoItem ELSE item[e]]
    /\ deleting' = [deleting EXCEPT ![a] = FALSE]
    /\ UNCHANGED <<file, fence, uploadVars, taskVars, importer, batcher>>

\* The process that deletes the import dies, or a step of it fails.
InterruptDelete(a) ==
    /\ deleting[a]
    /\ deleting' = [deleting EXCEPT ![a] = FALSE]
    /\ UNCHANGED <<blobVars, uploadVars, taskVars, import, importer, entry, item,
                   batcher, erasing>>
=============================================================================
