----------------------------- MODULE SampleStore -----------------------------
(***************************************************************************)
(* The rows and the files that hold uploaded samples: uploads, blobs with  *)
(* their reference counts, the content-addressed files the blobs name, the *)
(* tasks made from uploads, and the archive imports that make further      *)
(* uploads out of the entries of an archive.                               *)
(*                                                                         *)
(* A blob is named by its content.  Clocks are abstracted: an expiry time  *)
(* is a flag that time raises, a lease is live until time ends it, a file  *)
(* is fresh until it is older than the cut-off of the orphan reaper.       *)
(***************************************************************************)
EXTENDS Naturals, FiniteSets

CONSTANTS
    Blob,           \* the contents that may be stored
    Direct,         \* uploads sent by a client
    Archive,        \* those of them that are archives
    Entry,          \* the members of the archives; also names their uploads
    Parent,         \* the archive of each member
    Content,        \* the content of each upload
    NestedIn,       \* the image found inside some samples: upload -> content
    MaxAttempts,    \* bound on max_attempts (3 in the code)
    MaxLeases       \* bound: leases of a cleanup operation of each upload's task

Upload == Direct \cup Entry

ASSUME SamplesAreWellFormed ==
    /\ Archive \subseteq Direct /\ Direct \cap Entry = {}
    /\ Parent \in [Entry -> Archive]
    /\ Content \in [Upload -> Blob]
    /\ DOMAIN NestedIn \subseteq Upload \ Archive
    /\ \A u \in DOMAIN NestedIn : NestedIn[u] \in Blob
    /\ MaxAttempts \in Nat \ {0} /\ MaxLeases \in [Upload -> Nat]

VARIABLES
    blob,        \* blobs: state and reference_count
    file,        \* the file of each content, and its age
    fence,       \* GET_LOCK of blobfence: who is at work on the content
    upload,      \* uploads and upload_intake_profiles
    completing,  \* how far the request completing the upload has come
    task,        \* tasks, with the state of their jobs that use the sample
    scanning,    \* the scan that stores an image it found
    sampleOp,    \* task_sample_retention_operations
    cleanupOp,   \* task_deletion_operations
    import,      \* archive_imports
    importer,    \* the process behind each lease of an import
    entry,       \* archive_import_entries
    item,        \* the batch item of each entry
    batcher,     \* the process behind each lease of a batch item
    deleting,    \* is a request or the maintenance loop deleting the import?
    erasing      \* blobs whose file the releasing import is about to delete

blobVars    == <<blob, file, fence>>
uploadVars  == <<upload, completing>>
taskVars    == <<task, scanning, sampleOp, cleanupOp>>
archiveVars == <<import, importer, entry, item, batcher, deleting, erasing>>
vars == <<blobVars, uploadVars, taskVars, archiveVars>>
-----------------------------------------------------------------------------
BlobState == {"absent", "staging", "available", "deleting", "deleted"}

\* "wanted": a client is going to send it.
UploadStatus == {"absent", "wanted", "created", "uploading", "assembling", "completed",
                 "failed", "expired", "cancelled"}

\* A task that has ended may have jobs: a queued decompilation is cancelled
\* when the sample expires, a queued image scan is not.
TaskStatus == {"absent", "ACTIVE", "ENDED", "DELETING", "DELETED"}
TaskJobs   == {"none", "decompile", "image", "held"}

\* A lease on a cleanup: the processes that still believe they hold a lease
\* are named by its fencing token.
Operation == [status : {"absent", "cleaning", "failed", "completed"},
              token : Nat, live : BOOLEAN, workers : SUBSET Nat]
NoOperation == [status |-> "absent", token |-> 0, live |-> FALSE, workers |-> {}]

\* A transaction of a maintenance process holds the lock of a blob's row
\* while it removes the file; an archive import only holds the fence.
RowLocked(b) == fence[b] \in {"retention", "retention removed", "orphan"}

CanReference(b) == blob[b].state = "available" /\ ~RowLocked(b)
Referenced(bs, b) == [bs EXCEPT ![b].refs = @ + 1]

(***************************************************************************)
(* Every owner releases its reference the same way: a reference that does  *)
(* not exist aborts the transaction, the last one starts the deletion.     *)
(***************************************************************************)
CanRelease(b) ==
    /\ blob[b].refs > 0
    /\ blob[b].state \in {"staging", "available"}
    /\ ~RowLocked(b)

\* A reference is the pair of what holds it and in which role.
BlobOf(ref) == IF ref[2] = "nested" THEN NestedIn[ref[1]] ELSE Content[ref[1]]
Held(refs, b) == Cardinality({r \in refs : BlobOf(r) = b})

CanReleaseAll(refs) ==
    \A r \in refs : CanRelease(BlobOf(r)) /\ Held(refs, BlobOf(r)) <= blob[BlobOf(r)].refs

ReleasedAll(refs) ==
    [b \in Blob |->
        [state |-> IF Held(refs, b) > 0 /\ Held(refs, b) = blob[b].refs
                   THEN "deleting" ELSE blob[b].state,
         refs  |-> blob[b].refs - Held(refs, b)]]

\* What is released with the last reference among refs.
LastOf(refs) == {b \in Blob : Held(refs, b) > 0 /\ Held(refs, b) = blob[b].refs}

\* The references a task holds: its sample, and the image found inside it.
TaskReferences(u) ==
    (IF task[u].sample THEN {<<u, "sample">>} ELSE {})
      \cup IF task[u].nested THEN {<<u, "nested">>} ELSE {}

UploadReference(u) == IF upload[u].ref THEN {<<u, "upload">>} ELSE {}

NoFence == [b \in Blob |-> "free"]
NoTask  == [status |-> "absent", jobs |-> "none", sample |-> FALSE,
            late |-> FALSE, nested |-> FALSE]
NoImport(tries) == [status |-> "absent", attempt |-> 0, max |-> tries, live |-> FALSE,
                    source |-> FALSE, batch |-> FALSE]
NoImporter == [step |-> "none", at |-> {}, done |-> {}]
NoEntry  == [status |-> "absent", ref |-> FALSE, derived |-> FALSE]
NoItem   == [outcome |-> "absent", attempt |-> 0, live |-> FALSE]
NewUpload(status, ref) ==
    [status |-> status, ref |-> ref, parts |-> FALSE,
     validation |-> IF ref THEN "valid" ELSE "pending", late |-> FALSE]

(***************************************************************************)
(* The state of the tables before the first upload, except that archives   *)
(* may already be complete: `done` is the set of those; clients send the   *)
(* uploads in `sent`, and imports have `tries` attempts.                   *)
(***************************************************************************)
InitWith(done, sent, tries) ==
    /\ blob = [b \in Blob |->
                 LET n == Cardinality({u \in done : Content[u] = b})
                 IN  [state |-> IF n = 0 THEN "absent" ELSE "available", refs |-> n]]
    /\ file = [b \in Blob |->
                 IF \E u \in done : Content[u] = b THEN "fresh" ELSE "none"]
    /\ fence = NoFence
    /\ upload = [u \in Upload |->
                   CASE u \in done -> NewUpload("completed", TRUE)
                     [] u \in sent \ done -> NewUpload("wanted", FALSE)
                     [] OTHER -> NewUpload("absent", FALSE)]
    /\ completing = [u \in Direct |-> "idle"]
    /\ task = [u \in Upload |-> NoTask]
    /\ scanning = [u \in DOMAIN NestedIn |-> "idle"]
    /\ sampleOp = [u \in Upload |-> NoOperation]
    /\ cleanupOp = [u \in Upload |-> NoOperation]
    /\ import = [a \in Archive |-> NoImport(tries)]
    /\ importer = [a \in Archive |-> [n \in 1 .. MaxAttempts |-> NoImporter]]
    /\ entry = [e \in Entry |-> NoEntry]
    /\ item = [e \in Entry |-> NoItem]
    /\ batcher = [e \in Entry |-> [n \in 1 .. MaxAttempts |-> "none"]]
    /\ deleting = [a \in Archive |-> FALSE]
    /\ erasing = {}
=============================================================================
