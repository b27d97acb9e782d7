---------------------------- MODULE UploadService ----------------------------
(***************************************************************************)
(* internal/upload: a client creates an upload, sends its parts and asks   *)
(* to complete it.  Completion is a sequence of transactions and file      *)
(* operations under the upload's GET_LOCK; a crash releases the lock and   *)
(* leaves what was committed.  One part stands for all parts.              *)
(***************************************************************************)
EXTENDS SampleStore

Idle(u) == u \in Direct => completing[u] = "idle"
Goto(u, step) == completing' = [completing EXCEPT ![u] = step]
SetStatus(u, status) == [upload EXCEPT ![u].status = status]

CreateUpload(u) ==
    /\ upload[u].status = "wanted"
    /\ upload' = SetStatus(u, "created")
    /\ UNCHANGED <<completing, blobVars, taskVars, archiveVars>>

\* PutPart: refused when the upload has expired or is being completed.
PutPart(u) ==
    /\ Idle(u) /\ ~upload[u].late
    /\ upload[u].status \in {"created", "uploading"}
    /\ upload' = [upload EXCEPT ![u].status = "uploading", ![u].parts = TRUE]
    /\ UNCHANGED <<completing, blobVars, taskVars, archiveVars>>
-----------------------------------------------------------------------------
\* Complete up to RecordValidation.  Detection decides whether the content
\* belongs to the declared category; it decides the same on a replay.
BeginCompletion(u) ==
    /\ Idle(u) /\ ~upload[u].late /\ upload[u].parts
    /\ upload[u].status \in {"created", "uploading", "assembling"}
    /\ \/ /\ upload[u].validation = "pending"
          /\ upload' = [upload EXCEPT ![u].validation = "mismatch",
                                      ![u].status = "failed"]
          /\ UNCHANGED completing
       \/ /\ upload' = [upload EXCEPT ![u].validation = "valid"]
          /\ Goto(u, "validated")
    /\ UNCHANGED <<blobVars, taskVars, archiveVars>>

\* Mutant of Reusable: a row whose file is being removed is reused.
ReusableWhileDeleting(b) ==
    /\ blob[b].state \in {"absent", "staging", "available", "deleting"}
         \/ (blob[b].state = "deleted" /\ blob[b].refs = 0)
    /\ ~RowLocked(b)

\* The row of the content may be new, in use, or a tombstone without its
\* file; one that is still being deleted is a conflict.
Reusable(b) ==
    /\ \/ blob[b].state \in {"absent", "staging", "available"}
       \/ blob[b].state = "deleted" /\ blob[b].refs = 0
    /\ ~RowLocked(b)

PrepareCompletion(u) ==
    LET b == Content[u] IN
    /\ completing[u] = "validated"
    /\ \/ /\ upload[u].status = "assembling" /\ ~RowLocked(b)
          /\ blob[b].state \in {"staging", "available"}
          /\ UNCHANGED <<blob, upload>>
       \/ /\ upload[u].status \in {"created", "uploading"}
          /\ Reusable(b)
          /\ blob' = [blob EXCEPT ![b] =
                [state |-> IF @.state = "available" THEN "available" ELSE "staging",
                 refs |-> @.refs + 1]]
          /\ upload' = [upload EXCEPT ![u].status = "assembling", ![u].ref = TRUE]
    /\ Goto(u, "prepared")
    /\ UNCHANGED <<file, fence, taskVars, archiveVars>>

\* publishAssembly: link without replacing; an existing file is verified.
PublishAssembly(u) ==
    /\ completing[u] = "prepared"
    /\ file' = [file EXCEPT ![Content[u]] = IF @ = "none" THEN "fresh" ELSE @]
    /\ Goto(u, "published")
    /\ UNCHANGED <<upload, blob, fence, taskVars, archiveVars>>

FinalizeCompletion(u) ==
    LET b == Content[u] IN
    /\ completing[u] = "published"
    /\ upload[u].status = "assembling" /\ upload[u].ref
    /\ blob[b].state \in {"staging", "available"} /\ ~RowLocked(b)
    /\ blob' = [blob EXCEPT ![b].state = "available"]
    /\ upload' = SetStatus(u, "completed")
    /\ Goto(u, "completed")
    /\ UNCHANGED <<file, fence, taskVars, archiveVars>>

\* A crash, an error or a lost connection at any step, or the end of it.
LeaveCompletion(u) ==
    /\ completing[u] # "idle"
    /\ Goto(u, "idle")
    /\ UNCHANGED <<upload, blobVars, taskVars, archiveVars>>
-----------------------------------------------------------------------------
\* Mutant of TaskAllowed: an upload whose task was deleted gets another.
TaskAllowedAgain(u) ==
    /\ task[u].status \in {"absent", "DELETED"}
    /\ upload[u].status = "completed" /\ upload[u].validation = "valid"
    /\ CanReference(Content[u])

\* internal/task createOnce: every task, a deleted one too, consumes the
\* upload for good.
TaskAllowed(u) ==
    /\ task[u].status = "absent"
    /\ upload[u].status = "completed" /\ upload[u].validation = "valid"
    /\ CanReference(Content[u])

CreatedTask(u) ==
    /\ blob' = Referenced(blob, Content[u])
    /\ task' = [task EXCEPT ![u] = [NoTask EXCEPT !.status = "ACTIVE",
                                                  !.sample = TRUE]]

\* The end of Complete and of a replay of it for a completed upload, and
\* RecoverDirectTasks of the maintenance loop.
EnsureDirectTask(u) ==
    /\ u \in Direct \ Archive
    /\ TaskAllowed(u) /\ CreatedTask(u)
    /\ UNCHANGED <<file, fence, uploadVars, scanning, sampleOp, cleanupOp, archiveVars>>

\* internal/archiveimport Ensure, then SetArchiveImportID: the import takes a
\* reference of its own.  The end of Complete or of its replay, and
\* RecoverArchiveImports.
EnsureArchiveImport(a) ==
    /\ a \in Archive
    /\ import[a].status = "absent"
    /\ upload[a].status = "completed" /\ upload[a].validation = "valid"
    /\ CanReference(Content[a])
    /\ blob' = Referenced(blob, Content[a])
    /\ import' = [import EXCEPT ![a].status = "queued", ![a].source = TRUE]
    /\ UNCHANGED <<file, fence, uploadVars, taskVars, importer, entry, item,
                   batcher, deleting, erasing>>
-----------------------------------------------------------------------------
TerminalUpload == {"completed", "failed", "expired", "cancelled"}

\* CleanupParts, by the request that ended the upload or by the retention
\* sweep; a crash before the commit leaves the rows for the next attempt.
CleanupParts(u) ==
    /\ u \in Direct => completing[u] \in {"idle", "completed"}
    /\ upload[u].status \in TerminalUpload /\ upload[u].parts
    /\ upload' = [upload EXCEPT ![u].parts = FALSE]
    /\ UNCHANGED <<completing, blobVars, taskVars, archiveVars>>

\* requiresArchiveImportDelete: the import goes before its upload.
ImportIsGone(u) ==
    u \in Archive /\ upload[u].validation = "valid"
      => import[u].status \in {"absent", "deleted"}

Cancellable(u) ==
    \/ upload[u].status \in {"created", "uploading", "assembling", "failed", "expired"}
    \/ upload[u].status = "completed" /\ task[u].status = "absent"

\* Cancel: the user's deletion of an upload, and of the derived uploads of
\* an archive import that is deleted.
Cancelled(u) ==
    /\ Cancellable(u)
    /\ CanReleaseAll(UploadReference(u))
    /\ blob' = ReleasedAll(UploadReference(u))
    /\ upload' = [upload EXCEPT ![u].status = "cancelled", ![u].ref = FALSE]

CancelUpload(u) ==
    /\ Idle(u)
    /\ u \in Archive =>
          \/ upload[u].status \in {"created", "uploading", "assembling"}
          \/ ImportIsGone(u) /\ ~deleting[u]
    /\ Cancelled(u)
    /\ UNCHANGED <<completing, file, fence, taskVars, archiveVars>>

\* Time passes the expiry time of the upload.
ExpireClock(u) ==
    /\ upload[u].status \notin {"absent", "wanted"} /\ ~upload[u].late
    /\ upload' = [upload EXCEPT ![u].late = TRUE]
    /\ UNCHANGED <<completing, blobVars, taskVars, archiveVars>>
=============================================================================
