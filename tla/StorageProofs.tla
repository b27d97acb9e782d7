---------------------------- MODULE StorageProofs ----------------------------
(***************************************************************************)
(* The reference counts of the stored contents are exact and no file goes  *)
(* while a row offers it, whatever uploads, tasks, scans, imports and the  *)
(* maintenance loops do at the same time.                                  *)
(*                                                                         *)
(* Every step keeps the references, takes a new one or gives some back     *)
(* (RefStep), each with what it does to the counters.  The files go by     *)
(* another protocol: who removes one holds its fence, and the fence names  *)
(* what its holder has seen of the row (FencesHeld, ImportersFence).       *)
(***************************************************************************)
EXTENDS SampleStorage, FiniteSetTheorems, TLAPS

Kept == {"staging", "available"}

\* Rows that have not got that far refer to nothing; an upload that is being
\* assembled refers to its content.
NewRowsRefer ==
    /\ \A u \in Upload :
          /\ upload[u].status \in {"absent", "wanted", "created", "uploading"} =>
                 ~upload[u].ref
          /\ upload[u].status = "assembling" => upload[u].ref
          /\ task[u].status = "absent" => ~task[u].sample /\ ~task[u].nested
    /\ \A a \in Archive : import[a].status = "absent" => ~import[a].source
    /\ \A e \in Entry : entry[e].status = "absent" => ~entry[e].ref

\* Who holds a fence to remove the file knows that no reference is left, and
\* none can be taken meanwhile.
FencesHeld ==
    \A b \in Blob :
        /\ fence[b] \in {"retention", "retention removed", "erase", "erase removed"} =>
               blob[b] = [state |-> "deleting", refs |-> 0]
        /\ fence[b] = "orphan" => blob[b].state \in {"absent", "deleted"}

\* An importer that has published a member holds the fence of its content,
\* alone, and the file is there.
ImportersFence ==
    \A a \in Archive, n \in Attempts : \A e \in importer[a][n].at :
        /\ importer[a][n].at = {e} /\ importer[a][n].step = "published"
        /\ fence[Content[e]] = "import" /\ file[Content[e]] # "none"
        /\ \A c \in Archive, m \in Attempts : \A d \in importer[c][m].at :
               Content[d] = Content[e] => c = a /\ m = n

\* A completion that has prepared its upload still finds it so, and the file
\* that it has published.
CompletionsHold ==
    \A u \in Direct :
        /\ completing[u] \in {"prepared", "published"} => upload[u].status = "assembling"
        /\ completing[u] = "published" => file[Content[u]] # "none"

\* The sample of a task is available, and a held job has one.
SamplesHeld ==
    \A u \in Upload :
        /\ task[u].sample => blob[Content[u]].state = "available"
        /\ task[u].jobs = "held" => task[u].sample

\* What an importer with its lease has stored is still there.
ImportersDone ==
    \A a \in Archive, n \in Attempts :
        /\ importer[a][n].done \subseteq Members(a)
        /\ LeaseHeld(a, n) =>
              \A e \in importer[a][n].done :
                  entry[e].status # "absent" /\ (Unsettled(e) => entry[e].ref)

RefInv == TypeOK /\ IsFiniteSet(References) /\ ReferencesAreExact /\ NewRowsRefer
-----------------------------------------------------------------------------
(***************************************************************************)
(* Sets of references                                                      *)
(***************************************************************************)

\* The references are those the rows hold.
LEMMA ReferenceSet ==
    /\ \A r : r \in References <=>
          \/ \E u \in Upload : upload[u].ref /\ r = <<u, "upload">>
          \/ \E u \in Upload : task[u].sample /\ r = <<u, "sample">>
          \/ \E u \in Upload : task[u].nested /\ r = <<u, "nested">>
          \/ \E a \in Archive : import[a].source /\ r = <<a, "source">>
          \/ \E e \in Entry : entry[e].ref /\ r = <<e, "entry">>
    /\ \A r : r \in References' <=>
          \/ \E u \in Upload : upload'[u].ref /\ r = <<u, "upload">>
          \/ \E u \in Upload : task'[u].sample /\ r = <<u, "sample">>
          \/ \E u \in Upload : task'[u].nested /\ r = <<u, "nested">>
          \/ \E a \in Archive : import'[a].source /\ r = <<a, "source">>
          \/ \E e \in Entry : entry'[e].ref /\ r = <<e, "entry">>
<1>1. \A r : r \in References <=>
         \/ \E u \in Upload : r \in UploadReference(u) \/ r \in TaskReferences(u)
         \/ \E a \in Archive : import[a].source /\ r = <<a, "source">>
         \/ \E e \in Entry : entry[e].ref /\ r = <<e, "entry">>
  BY DEF References
<1>2. \A r : r \in References' <=>
         \/ \E u \in Upload : r \in UploadReference(u)' \/ r \in TaskReferences(u)'
         \/ \E a \in Archive : import'[a].source /\ r = <<a, "source">>
         \/ \E e \in Entry : entry'[e].ref /\ r = <<e, "entry">>
  BY DEF References
<1> QED
  BY <1>1, <1>2 DEF UploadReference, TaskReferences

\* How many references of a set are to one content.
LEMMA HeldCounts ==
    ASSUME NEW refs, IsFiniteSet(refs), NEW b
    PROVE  /\ Held(refs, b) \in Nat
           /\ Held(refs, b) = 0 <=> \A r \in refs : BlobOf(r) # b
           /\ \A r : r \notin refs =>
                  Held(refs \cup {r}, b) =
                      IF BlobOf(r) = b THEN Held(refs, b) + 1 ELSE Held(refs, b)
           /\ \A gone \in SUBSET refs :
                  Held(refs \ gone, b) = Held(refs, b) - Held(gone, b)
<1> DEFINE to(S) == {r \in S : BlobOf(r) = b}
<1>1. IsFiniteSet(to(refs)) /\ Cardinality(to(refs)) \in Nat
  BY FS_Subset, FS_CardinalityType
<1>2. Cardinality(to(refs)) = 0 <=> to(refs) = {}
  BY <1>1, FS_EmptySet
<1>3. ASSUME NEW r, r \notin refs
      PROVE  Held(refs \cup {r}, b) =
                 IF BlobOf(r) = b THEN Held(refs, b) + 1 ELSE Held(refs, b)
  <2>1. CASE BlobOf(r) = b
    <3>1. to(refs \cup {r}) = to(refs) \cup {r} /\ r \notin to(refs)
      BY <1>3, <2>1
    <3>2. Cardinality(to(refs) \cup {r}) = Cardinality(to(refs)) + 1
      BY <1>1, <3>1, FS_AddElement
    <3> QED
      BY <2>1, <3>1, <3>2 DEF Held
  <2>2. CASE BlobOf(r) # b
    <3>1. to(refs \cup {r}) = to(refs)
      BY <2>2
    <3> QED
      BY <2>2, <3>1 DEF Held
  <2> QED
    BY <2>1, <2>2
<1>4. ASSUME NEW gone \in SUBSET refs
      PROVE  Held(refs \ gone, b) = Held(refs, b) - Held(gone, b)
  <2>1. to(refs \ gone) = to(refs) \ to(gone) /\ to(refs) \cap to(gone) = to(gone)
    OBVIOUS
  <2>2. Cardinality(to(refs) \ to(gone)) =
           Cardinality(to(refs)) - Cardinality(to(refs) \cap to(gone))
    BY <1>1, FS_Difference
  <2> QED
    BY <2>1, <2>2 DEF Held
<1> QED
  BY <1>1, <1>2, <1>3, <1>4 DEF Held
-----------------------------------------------------------------------------
(***************************************************************************)
(* What a step does to references and counters                             *)
(***************************************************************************)
KeptRefs ==
    /\ References' = References
    /\ \A b \in Blob : /\ blob'[b].refs = blob[b].refs
                       /\ blob'[b].state \in Kept <=> blob[b].state \in Kept

Took(r) ==
    LET b == BlobOf(r) IN
    /\ r \notin References /\ References' = References \cup {r}
    /\ blob'[b].refs = blob[b].refs + 1 /\ blob'[b].state \in Kept
    /\ \A c \in Blob \ {b} : blob'[c] = blob[c]

GaveBack(refs) ==
    /\ refs \subseteq References /\ References' = References \ refs
    /\ CanReleaseAll(refs) /\ blob' = ReleasedAll(refs)

RefStep == KeptRefs \/ (\E r : Took(r)) \/ (\E refs : GaveBack(refs))

\* A release takes no more than there is.
LEMMA ReleaseFits ==
    ASSUME TypeOK, NEW refs, IsFiniteSet(refs), CanReleaseAll(refs), NEW b \in Blob
    PROVE  /\ Held(refs, b) \in Nat /\ Held(refs, b) <= blob[b].refs
           /\ blob[b].refs - Held(refs, b) \in Nat
           /\ Held(refs, b) > 0 => CanRelease(b)
<1>1. Held(refs, b) \in Nat /\ blob[b].refs \in Nat
  BY HeldCounts DEF TypeOK
<1>2. CASE Held(refs, b) = 0
  BY <1>1, <1>2
<1>3. CASE Held(refs, b) # 0
  <2>1. PICK r \in refs : BlobOf(r) = b
    BY <1>3, HeldCounts
  <2> QED
    BY <1>1, <2>1 DEF CanReleaseAll
<1> QED
  BY <1>2, <1>3

\* Exact counters stay exact over such a step.
LEMMA RefStepExact ==
    ASSUME TypeOK, IsFiniteSet(References), ReferencesAreExact, RefStep
    PROVE  ReferencesAreExact' /\ IsFiniteSet(References')
<1>0. \A b \in Blob : /\ blob[b].refs = Held(References, b) /\ blob[b].refs \in Nat
                      /\ blob[b].state \in Kept <=> blob[b].refs > 0
  BY DEF ReferencesAreExact, TypeOK, Kept
<1> SUFFICES IsFiniteSet(References') /\
             \A b \in Blob : /\ blob'[b].refs = Held(References', b)
                             /\ blob'[b].state \in Kept <=> blob'[b].refs > 0
  BY DEF ReferencesAreExact, Kept, Held, BlobOf
<1>1. CASE KeptRefs
  BY <1>0, <1>1 DEF KeptRefs
<1>2. ASSUME NEW r, Took(r)
      PROVE  IsFiniteSet(References') /\
             \A b \in Blob : /\ blob'[b].refs = Held(References', b)
                             /\ blob'[b].state \in Kept <=> blob'[b].refs > 0
  <2>1. IsFiniteSet(References')
    BY <1>2, FS_AddElement DEF Took
  <2>2. ASSUME NEW b \in Blob
        PROVE  /\ blob'[b].refs = Held(References', b)
               /\ blob'[b].state \in Kept <=> blob'[b].refs > 0
    <3>1. Held(References', b) =
             IF BlobOf(r) = b THEN Held(References, b) + 1 ELSE Held(References, b)
      BY <1>2, HeldCounts DEF Took
    <3> QED
      BY <1>0, <1>2, <3>1 DEF Took
  <2> QED
    BY <2>1, <2>2
<1>3. ASSUME NEW refs, GaveBack(refs)
      PROVE  IsFiniteSet(References') /\
             \A b \in Blob : /\ blob'[b].refs = Held(References', b)
                             /\ blob'[b].state \in Kept <=> blob'[b].refs > 0
  <2>1. IsFiniteSet(References') /\ IsFiniteSet(refs)
    BY <1>3, FS_Subset DEF GaveBack
  <2>2. ASSUME NEW b \in Blob
        PROVE  /\ blob'[b].refs = Held(References', b)
               /\ blob'[b].state \in Kept <=> blob'[b].refs > 0
    <3>1. Held(References', b) = Held(References, b) - Held(refs, b)
      BY <1>3, HeldCounts DEF GaveBack
    <3>2. Held(refs, b) \in Nat /\ Held(refs, b) <= blob[b].refs
      BY <1>3, <2>1, ReleaseFits DEF GaveBack
    <3>3. blob'[b] = [state |-> IF Held(refs, b) > 0 /\ Held(refs, b) = blob[b].refs
                                THEN "deleting" ELSE blob[b].state,
                      refs  |-> blob[b].refs - Held(refs, b)]
      BY <1>3 DEF GaveBack, ReleasedAll
    <3> QED
      BY <1>0, <3>1, <3>2, <3>3 DEF Kept
  <2> QED
    BY <2>1, <2>2
<1> QED
  BY <1>1, <1>2, <1>3 DEF RefStep
-----------------------------------------------------------------------------
(***************************************************************************)
(* Types                                                                   *)
(***************************************************************************)

LEMMA Names ==
    /\ \A u \in Upload : Content[u] \in Blob
    /\ Direct \subseteq Upload /\ Entry \subseteq Upload /\ Archive \subseteq Direct
    /\ \A e \in Entry : Parent[e] \in Archive /\ e \notin Direct
    /\ \A u \in DOMAIN NestedIn : u \in Upload /\ NestedIn[u] \in Blob /\ u \notin Archive
BY SamplesAreWellFormed DEF Upload

\* What the owners give back are references they have.
LEMMA Returned ==
    /\ \A u \in Upload : UploadReference(u) \subseteq References
    /\ \A u \in Upload : TaskReferences(u) \subseteq References
    /\ \A u \in Upload : task[u].nested => <<u, "nested">> \in References
    /\ \A a \in Archive : ReleaseSource(a) \subseteq References
    /\ \A e \in Entry : EntryReference(e) \subseteq References
    /\ \A a : UNION {EntryReference(e) : e \in Members(a)} \subseteq References
BY ReferenceSet DEF UploadReference, TaskReferences, ReleaseSource, EntryReference, Members

\* The rows of each table.
BlobRows     == [Blob -> [state : BlobState, refs : Nat]]
FileRows     == [Blob -> {"none", "fresh", "old"}]
FenceRows    == [Blob -> {"free", "retention", "retention removed", "orphan", "import",
                          "erase", "erase removed"}]
UploadRow    == [status : UploadStatus, ref : BOOLEAN, parts : BOOLEAN,
                 validation : {"pending", "valid", "mismatch"}, late : BOOLEAN]
UploadRows   == [Upload -> UploadRow]
StepRows     == [Direct -> {"idle", "validated", "prepared", "published", "completed"}]
TaskRow      == [status : TaskStatus, jobs : TaskJobs, sample : BOOLEAN, late : BOOLEAN,
                 nested : BOOLEAN]
TaskRows     == [Upload -> TaskRow]
ScanRows     == [DOMAIN NestedIn -> {"idle", "stored"}]
OperationRows == [Upload -> Operation]
ImportRow    == [status : {"absent", "queued", "running", "ready", "failed", "deleting",
                           "deleted"},
                 attempt : 0 .. MaxAttempts, max : Attempts, live : BOOLEAN,
                 source : BOOLEAN, batch : BOOLEAN]
ImportRows   == [Archive -> ImportRow]
ImporterRow  == [step : {"none", "claimed", "reset", "published"}, at : SUBSET Entry,
                 done : SUBSET Entry]
ImporterRows == [Archive -> [Attempts -> ImporterRow]]
EntryRow     == [status : {"absent", "eligible", "created", "failed"}, ref : BOOLEAN,
                 derived : BOOLEAN]
EntryRows    == [Entry -> EntryRow]
ItemRow      == [outcome : {"absent", "pending", "processing", "created", "existing",
                            "failed"},
                 attempt : 0 .. MaxAttempts, live : BOOLEAN]
ItemRows     == [Entry -> ItemRow]
BatcherRows  == [Entry -> [Attempts -> {"none", "claimed", "derived", "saved", "tasked"}]]

Typed ==
    /\ blob \in BlobRows /\ file \in FileRows /\ fence \in FenceRows
    /\ upload \in UploadRows /\ completing \in StepRows
    /\ task \in TaskRows /\ scanning \in ScanRows
    /\ sampleOp \in OperationRows /\ cleanupOp \in OperationRows
    /\ import \in ImportRows /\ importer \in ImporterRows
    /\ entry \in EntryRows /\ item \in ItemRows /\ batcher \in BatcherRows
    /\ deleting \in [Archive -> BOOLEAN] /\ erasing \subseteq Blob

LEMMA TypeParts == (TypeOK <=> Typed) /\ (TypeOK' <=> Typed')
BY DEF TypeOK, Typed, BlobRows, FileRows, FenceRows, UploadRow, UploadRows, StepRows, TaskRow,
    TaskRows, ScanRows, OperationRows, ImportRow, ImportRows, ImporterRow, ImporterRows,
    EntryRow, EntryRows, ItemRow, ItemRows, BatcherRows

\* Counters and states stay typed whatever is given back.
LEMMA ReleasedTyped ==
    ASSUME RefInv, NEW refs, refs \subseteq References, CanReleaseAll(refs)
    PROVE  ReleasedAll(refs) \in BlobRows
<1>1. IsFiniteSet(refs)
  BY FS_Subset DEF RefInv
<1>2. \A b \in Blob : blob[b].refs - Held(refs, b) \in Nat
  BY <1>1, ReleaseFits DEF RefInv
<1>3. \A b \in Blob : blob[b].state \in BlobState /\ "deleting" \in BlobState
  BY DEF RefInv, TypeOK, BlobState
<1> QED
  BY <1>2, <1>3 DEF ReleasedAll, BlobRows

\* What several steps do to a row.
LEMMA ReferencedTyped ==
    ASSUME blob \in BlobRows, NEW b \in Blob
    PROVE  Referenced(blob, b) \in BlobRows
BY DEF BlobRows, Referenced

LEMMA NewTaskTyped == [NoTask EXCEPT !.status = "ACTIVE", !.sample = TRUE] \in TaskRow
BY DEF TaskRow, NoTask, TaskStatus, TaskJobs

LEMMA FailedTyped ==
    ASSUME entry \in EntryRows, NEW e \in Entry
    PROVE  [entry EXCEPT ![e].status = IF @ = "created" THEN @ ELSE "failed"] \in EntryRows
BY DEF EntryRows, EntryRow

LEMMA CancelledTyped ==
    ASSUME upload \in UploadRows, NEW u \in Upload, Cancelled(u)
    PROVE  upload' \in UploadRows
<1> DEFINE row == [[upload[u] EXCEPT !.status = "cancelled"] EXCEPT !.ref = FALSE]
<1>1. row \in UploadRow
  BY DEF UploadRows, UploadRow, UploadStatus
<1>2. upload' = [upload EXCEPT ![u] = row]
  BY DEF Cancelled
<1> HIDE DEF row
<1> QED
  BY <1>1, <1>2 DEF UploadRows

LEMMA UploadTyped ==
    ASSUME RefInv, NEW u \in Direct, UploadStep(u)
    PROVE  Typed'
<1>0. u \in Upload /\ Content[u] \in Blob /\ Typed
  BY Names, TypeParts DEF RefInv
<1>1. ASSUME CreateUpload(u) \/ PutPart(u) \/ BeginCompletion(u)
      PROVE  Typed'
  <2>1. upload' \in UploadRows
    BY <1>0, <1>1 DEF Typed, UploadRows, UploadRow, UploadStatus, CreateUpload, PutPart,
        BeginCompletion, SetStatus
  <2>2. completing' \in StepRows
    BY <1>0, <1>1 DEF Typed, StepRows, CreateUpload, PutPart, BeginCompletion, Goto
  <2> QED
    BY <1>0, <1>1, <2>1, <2>2 DEF Typed, CreateUpload, PutPart, BeginCompletion, blobVars,
        taskVars, archiveVars
<1>2. ASSUME LeaveCompletion(u) \/ PublishAssembly(u)
      PROVE  Typed'
  <2>1. completing' \in StepRows
    BY <1>0, <1>2 DEF Typed, StepRows, LeaveCompletion, PublishAssembly, Goto
  <2>2. file' \in FileRows
    BY <1>0, <1>2 DEF Typed, FileRows, LeaveCompletion, PublishAssembly, blobVars
  <2> QED
    BY <1>0, <1>2, <2>1, <2>2 DEF Typed, LeaveCompletion, PublishAssembly, blobVars,
        taskVars, archiveVars
<1>3. ASSUME PrepareCompletion(u) \/ FinalizeCompletion(u)
      PROVE  Typed'
  <2>1. completing' \in StepRows
    BY <1>0, <1>3 DEF Typed, StepRows, PrepareCompletion, FinalizeCompletion, Goto
  <2>2. blob' \in BlobRows
    BY <1>0, <1>3 DEF Typed, BlobRows, BlobState, PrepareCompletion, FinalizeCompletion
  <2>3. upload' \in UploadRows
    BY <1>0, <1>3 DEF Typed, UploadRows, UploadRow, UploadStatus, PrepareCompletion,
        FinalizeCompletion, SetStatus
  <2> QED
    BY <1>0, <1>3, <2>1, <2>2, <2>3 DEF Typed, PrepareCompletion, FinalizeCompletion,
        taskVars, archiveVars
<1>4. ASSUME EnsureDirectTask(u)
      PROVE  Typed'
  <2>1. blob' \in BlobRows
    BY <1>0, <1>4 DEF Typed, BlobRows, EnsureDirectTask, CreatedTask, Referenced
  <2>2. task' \in TaskRows
    BY <1>0, <1>4 DEF Typed, TaskRows, TaskRow, TaskStatus, TaskJobs, EnsureDirectTask,
        CreatedTask, NoTask
  <2> QED
    BY <1>0, <1>4, <2>1, <2>2 DEF Typed, EnsureDirectTask, uploadVars, archiveVars
<1>5. ASSUME EnsureArchiveImport(u)
      PROVE  Typed'
  <2>1. blob' \in BlobRows
    BY <1>0, <1>5 DEF Typed, BlobRows, EnsureArchiveImport, Referenced
  <2>2. import' \in ImportRows
    BY <1>0, <1>5, ZenonT(40) DEF Typed, ImportRows, ImportRow, EnsureArchiveImport
  <2> QED
    BY <1>0, <1>5, <2>1, <2>2 DEF Typed, EnsureArchiveImport, uploadVars, taskVars
<1> QED
  BY <1>1, <1>2, <1>3, <1>4, <1>5 DEF UploadStep

LEMMA NestedTyped ==
    ASSUME RefInv, NEW u \in DOMAIN NestedIn, NestedStep(u)
    PROVE  Typed'
<1>0. u \in Upload /\ NestedIn[u] \in Blob /\ Typed
  BY Names, TypeParts DEF RefInv
<1>1. scanning' \in ScanRows
  BY <1>0 DEF Typed, ScanRows, NestedStep, StoreNested, AbandonTree, PublishTree,
      PublishTreeWithout
<1>2. file' \in FileRows
  BY <1>0 DEF Typed, FileRows, NestedStep, StoreNested, AbandonTree, PublishTree,
      PublishTreeWithout, unchangedButTasks, blobVars
<1>3. task' \in TaskRows
  <2>1. CASE PublishTree(u) \/ PublishTreeWithout(u)
    <3>1. \E nested \in BOOLEAN : task' = [task EXCEPT ![u].nested = nested]
      BY <2>1 DEF PublishTree, PublishTreeWithout
    <3> QED
      BY <1>0, <3>1 DEF Typed, TaskRows, TaskRow
  <2>2. CASE StoreNested(u) \/ AbandonTree(u)
    BY <1>0, <2>2 DEF Typed, StoreNested, AbandonTree
  <2> QED
    BY <2>1, <2>2 DEF NestedStep
<1>4. blob' \in BlobRows
  <2>1. CASE PublishTree(u)
    BY <1>0, <2>1 DEF Typed, BlobRows, BlobState, PublishTree, TreeReference, Referenced
  <2>2. CASE PublishTreeWithout(u)
    <3>1. {<<u, "nested">>} \subseteq References
      BY <1>0, <2>2, Returned DEF PublishTreeWithout
    <3> QED
      BY <2>2, <3>1, ReleasedTyped DEF PublishTreeWithout
  <2>3. CASE StoreNested(u) \/ AbandonTree(u)
    BY <1>0, <2>3 DEF Typed, StoreNested, AbandonTree, unchangedButTasks, blobVars
  <2> QED
    BY <2>1, <2>2, <2>3 DEF NestedStep
<1> QED
  BY <1>0, <1>1, <1>2, <1>3, <1>4 DEF Typed, NestedStep, StoreNested, AbandonTree,
      PublishTree, PublishTreeWithout, unchangedButTasks, blobVars, uploadVars, archiveVars

LEMMA TaskTyped ==
    ASSUME RefInv, NEW u \in Upload, TaskStep(u)
    PROVE  Typed'
<1>0. Typed
  BY TypeParts DEF RefInv
<1>1. task' \in TaskRows
  <2>1. CASE FinishScan(u) \/ RetryScan(u)
    BY <1>0, <2>1 DEF Typed, TaskRows, TaskRow, FinishScan, RetryScan, TaskStatus
  <2>2. CASE RequestJob(u) \/ ClaimJob(u)
    BY <1>0, <2>2 DEF Typed, TaskRows, TaskRow, RequestJob, ClaimJob, SetTask, TaskJobs
  <2>3. CASE ReturnJob(u)
    BY <1>0, <2>3 DEF Typed, TaskRows, TaskRow, ReturnJob, SetTask, TaskJobs
  <2>4. CASE ExpireSample(u)
    BY <1>0, <2>4 DEF Typed, TaskRows, TaskRow, ExpireSample
  <2>5. CASE RequestDelete(u)
    <3> DEFINE row == [[task[u] EXCEPT !.status = "DELETING"] EXCEPT
                          !.jobs = IF @ = "held" THEN "held" ELSE "none"]
    <3>1. row \in TaskRow
      BY <1>0 DEF Typed, TaskRows, TaskRow, TaskStatus, TaskJobs
    <3>2. task' = [task EXCEPT ![u] = row]
      BY <2>5 DEF RequestDelete
    <3> HIDE DEF row
    <3> QED
      BY <1>0, <3>1, <3>2 DEF Typed, TaskRows
  <2> QED
    BY <2>1, <2>2, <2>3, <2>4, <2>5 DEF TaskStep
<1>2. UNCHANGED <<scanning, sampleOp, cleanupOp, unchangedButTasks>>
  BY DEF TaskStep, FinishScan, RetryScan, RequestJob, ClaimJob, ReturnJob, ExpireSample,
      RequestDelete
<1> QED
  BY <1>0, <1>1, <1>2 DEF Typed, unchangedButTasks, blobVars, uploadVars, archiveVars

\* Every change of a cleanup operation makes one.
LEMMA OperationsTyped ==
    ASSUME NEW op \in Operation, NEW n \in Nat
    PROVE  /\ Claimed(op) \in Operation /\ Left(op, n) \in Operation
           /\ Completed(op, n) \in Operation /\ Failed(op, n) \in Operation
           /\ [op EXCEPT !.live = FALSE] \in Operation
           /\ [op EXCEPT !.live = TRUE] \in Operation
<1>1. Left(op, n) \in Operation
  BY DEF Operation, Left
<1>2. Claimed(op) \in Operation
  BY DEF Operation, Claimed
<1> QED
  BY <1>1, <1>2 DEF Operation, Completed, Failed

LEMMA CleanupTyped ==
    ASSUME RefInv, NEW u \in Upload, CleanupStep(u)
    PROVE  Typed'
<1>0. /\ Typed /\ sampleOp[u] \in Operation /\ cleanupOp[u] \in Operation
      /\ sampleOp \in [Upload -> Operation] /\ cleanupOp \in [Upload -> Operation]
  BY TypeParts DEF RefInv, Typed, OperationRows
<1>1. \A n \in 1 .. MaxLeases[u] : n \in Nat
  OBVIOUS
<1>2. ASSUME ClaimCleanup(u) \/ ExpireCleanupLease(u) \/ ClaimSample(u) \/ ExpireSampleLease(u)
      PROVE  Typed'
  <2>1. sampleOp' \in OperationRows /\ cleanupOp' \in OperationRows
    BY <1>0, <1>2, OperationsTyped DEF OperationRows, ClaimCleanup, ExpireCleanupLease,
        ClaimSample, ExpireSampleLease
  <2> QED
    BY <1>0, <1>2, <2>1 DEF Typed, ClaimCleanup, ExpireCleanupLease, ClaimSample,
        ExpireSampleLease, unchangedButTasks, blobVars, uploadVars, archiveVars
<1>3. ASSUME NEW n \in Nat, LeaveCleanup(u, n) \/ RenewCleanup(u, n) \/ LeaveSample(u, n)
      PROVE  Typed'
  <2>1. sampleOp' \in OperationRows /\ cleanupOp' \in OperationRows
    BY <1>0, <1>3, OperationsTyped DEF OperationRows, LeaveCleanup, RenewCleanup, LeaveSample
  <2> QED
    BY <1>0, <1>3, <2>1 DEF Typed, LeaveCleanup, RenewCleanup, LeaveSample,
        unchangedButTasks, blobVars, uploadVars, archiveVars
<1>4. ASSUME NEW n \in Nat, CompleteCleanup(u, n) \/ CompleteSample(u, n)
      PROVE  Typed'
  <2>1. blob' \in BlobRows
    BY <1>4, Returned, ReleasedTyped DEF CompleteCleanup, CompleteSample
  <2>2. task' \in TaskRows
    <3> DEFINE left == [[task[u] EXCEPT !.sample = FALSE] EXCEPT !.nested = FALSE]
               deleted == [left EXCEPT !.status = "DELETED"]
               ended == [left EXCEPT !.jobs = IF @ = "decompile" THEN "none" ELSE @]
    <3>1. left \in TaskRow
      BY <1>0 DEF Typed, TaskRows, TaskRow
    <3>2. deleted \in TaskRow /\ ended \in TaskRow
      BY <3>1 DEF TaskRow, TaskStatus, TaskJobs
    <3>3. task' = [task EXCEPT ![u] = deleted] \/ task' = [task EXCEPT ![u] = ended]
      <4>1. CASE CompleteCleanup(u, n)
        BY <1>0, <4>1 DEF CompleteCleanup, Typed, TaskRows, TaskRow
      <4>2. CASE CompleteSample(u, n)
        BY <1>0, <4>2, ZenonT(40) DEF CompleteSample, Typed, TaskRows, TaskRow
      <4> QED
        BY <1>4, <4>1, <4>2
    <3> HIDE DEF deleted, ended
    <3> QED
      BY <1>0, <3>2, <3>3 DEF Typed, TaskRows
  <2>3. sampleOp' \in OperationRows /\ cleanupOp' \in OperationRows
    BY <1>0, <1>4, OperationsTyped, ZenonT(40) DEF OperationRows, CompleteCleanup, CompleteSample
  <2> QED
    BY <1>0, <1>4, <2>1, <2>2, <2>3 DEF Typed, CompleteCleanup, CompleteSample, uploadVars,
        archiveVars
<1> QED
  BY <1>1, <1>2, <1>3, <1>4 DEF CleanupStep

LEMMA RetentionTyped ==
    ASSUME RefInv, NEW u \in Upload, RetentionStep(u)
    PROVE  Typed'
<1>0. Typed
  BY TypeParts DEF RefInv
<1>1. blob' \in BlobRows
  <2>1. CASE CancelUpload(u) \/ ExpireUpload(u)
    BY <2>1, Returned, ReleasedTyped DEF CancelUpload, Cancelled, ExpireUpload
  <2>2. CASE CleanupParts(u) \/ ExpireClock(u)
    BY <1>0, <2>2 DEF Typed, CleanupParts, ExpireClock, blobVars
  <2> QED
    BY <2>1, <2>2 DEF RetentionStep
<1>2. upload' \in UploadRows
  <2>1. CASE CancelUpload(u)
    BY <1>0, <2>1, CancelledTyped DEF Typed, CancelUpload
  <2>2. CASE ExpireUpload(u)
    <3> DEFINE row == [[[upload[u] EXCEPT !.status = "expired"] EXCEPT !.ref = FALSE]
                          EXCEPT !.parts = FALSE]
    <3>1. row \in UploadRow
      BY <1>0 DEF Typed, UploadRows, UploadRow, UploadStatus
    <3>2. upload' = [upload EXCEPT ![u] = row]
      BY <2>2 DEF ExpireUpload
    <3> HIDE DEF row
    <3> QED
      BY <1>0, <3>1, <3>2 DEF Typed, UploadRows
  <2>3. CASE CleanupParts(u) \/ ExpireClock(u)
    BY <1>0, <2>3, ZenonT(40) DEF Typed, UploadRows, UploadRow, CleanupParts, ExpireClock
  <2> QED
    BY <2>1, <2>2, <2>3 DEF RetentionStep
<1> QED
  BY <1>0, <1>1, <1>2 DEF Typed, RetentionStep, CancelUpload, CleanupParts, ExpireClock,
      ExpireUpload, blobVars, taskVars, archiveVars

\* Counting again what is exact changes nothing.
LEMMA ReconcileKeeps ==
    ASSUME RefInv, NEW b \in Blob, ReconcileBlobReference(b)
    PROVE  blob' = blob
<1>0. blob \in BlobRows
  BY TypeParts DEF RefInv, Typed
<1>1. Cardinality(Owners(b)) = blob[b].refs
  BY DEF RefInv, ReferencesAreExact, Held, Owners
<1>2. blob[b].state \in {"staging", "available"} <=> blob[b].refs > 0
  BY DEF RefInv, ReferencesAreExact
<1>3. ReconciledState(blob[b].state, blob[b].refs) = blob[b].state
  BY <1>0, <1>2 DEF ReconciledState, BlobRows
<1>4. blob' = [blob EXCEPT ![b] = [state |-> blob[b].state, refs |-> blob[b].refs]]
  BY <1>1, <1>3 DEF ReconcileBlobReference
<1> QED
  BY <1>0, <1>4 DEF BlobRows

LEMMA BlobTyped ==
    ASSUME RefInv, NEW b \in Blob, BlobStep(b)
    PROVE  Typed'
<1>0. Typed
  BY TypeParts DEF RefInv
<1>1. blob' \in BlobRows
  <2>1. CASE ReconcileBlobReference(b)
    BY <1>0, <2>1, ReconcileKeeps DEF Typed
  <2>2. CASE MarkDeleted(b) \/ MarkReleased(b)
    BY <1>0, <2>2, ZenonT(40) DEF Typed, BlobRows, BlobState, MarkDeleted, MarkReleased
  <2> QED
    BY <1>0, <2>1, <2>2 DEF Typed, BlobStep, LockDeleting, RemoveDeleting, CrashMaintenance,
        LockOrphan, RemoveOrphan, AgeFile, LockReleased, RemoveReleased
<1>2. file' \in FileRows
  BY <1>0 DEF Typed, FileRows, BlobStep, LockDeleting, RemoveDeleting, MarkDeleted,
      CrashMaintenance, ReconcileBlobReference, LockOrphan, RemoveOrphan, AgeFile,
      LockReleased, RemoveReleased, MarkReleased
<1>3. fence' \in FenceRows
  BY <1>0 DEF Typed, FenceRows, BlobStep, LockDeleting, RemoveDeleting, MarkDeleted,
      CrashMaintenance, ReconcileBlobReference, LockOrphan, RemoveOrphan, AgeFile,
      LockReleased, RemoveReleased, MarkReleased
<1>4. /\ erasing' \subseteq Blob
      /\ UNCHANGED <<uploadVars, taskVars, import, importer, entry, item, batcher, deleting>>
  BY <1>0 DEF Typed, BlobStep, LockDeleting, RemoveDeleting, MarkDeleted,
      CrashMaintenance, ReconcileBlobReference, LockOrphan, RemoveOrphan, AgeFile,
      LockReleased, RemoveReleased, MarkReleased, unchangedButBlobs, archiveVars
<1> QED
  BY <1>0, <1>1, <1>2, <1>3, <1>4 DEF Typed, uploadVars, taskVars

\* Every change of an importer makes one.
LEMMA ImporterTyped ==
    ASSUME Typed, NEW a \in Archive, NEW n \in Attempts,
           NEW step \in {"none", "claimed", "reset", "published"},
           NEW at \in SUBSET Entry, NEW done \in SUBSET Entry,
           Importing(a, n, step, at, done)
    PROVE  importer' \in ImporterRows
<1> DEFINE row == [step |-> step, at |-> at, done |-> done]
<1>1. row \in ImporterRow
  BY DEF ImporterRow
<1>2. importer' = [importer EXCEPT ![a][n] = row]
  BY DEF Importing
<1>3. importer[a] \in [Attempts -> ImporterRow]
  BY DEF Typed, ImporterRows
<1> HIDE DEF row
<1> QED
  BY <1>1, <1>2, <1>3 DEF Typed, ImporterRows

LEMMA StepTyped ==
    ASSUME Typed, NEW a \in Archive, NEW n \in Attempts,
           NEW step \in {"none", "claimed", "reset", "published"}, Step(a, n, step)
    PROVE  importer' \in ImporterRows
BY ImporterTyped DEF Step

\* The end of an import, of either kind.
LEMMA EndTyped ==
    ASSUME RefInv, NEW a \in Archive, NEW n \in Attempts, NEW status \in {"ready", "failed"},
           EndImport(a, n, status)
    PROVE  Typed'
<1>0. Typed
  BY TypeParts DEF RefInv
<1>1. blob' \in BlobRows
  BY Returned, ReleasedTyped DEF EndImport, Gone
<1>2. import' \in ImportRows
  <2> DEFINE row == [[[import[a] EXCEPT !.status = status] EXCEPT !.live = FALSE]
                        EXCEPT !.source = FALSE]
  <2>1. row \in ImportRow
    BY <1>0 DEF Typed, ImportRows, ImportRow
  <2>2. import' = [import EXCEPT ![a] = row]
    BY DEF EndImport
  <2> HIDE DEF row
  <2> QED
    BY <1>0, <2>1, <2>2 DEF Typed, ImportRows
<1>3. importer' \in ImporterRows
  BY <1>0, StepTyped DEF EndImport
<1> QED
  BY <1>0, <1>1, <1>2, <1>3 DEF Typed, EndImport, uploadVars, taskVars

\* What one attempt of an import does.
LEMMA AttemptTyped ==
    ASSUME RefInv, NEW a \in Archive, NEW n \in Attempts,
           \/ ResetEntries(a, n) \/ CompleteImport(a, n) \/ LeaveImport(a, n)
           \/ RetryImport(a, n) \/ FailImport(a, n)
           \/ \E e \in Members(a) : PublishEntry(a, n, e) \/ PersistEntry(a, n, e)
    PROVE  Typed'
<1>0. Typed /\ importer[a][n] \in ImporterRow
  BY TypeParts DEF RefInv, Typed, ImporterRows
<1>1. CASE CompleteImport(a, n) \/ FailImport(a, n)
  BY <1>1, EndTyped DEF CompleteImport, FailImport
<1>2. ASSUME ResetEntries(a, n)
      PROVE  Typed'
  <2> DEFINE refs == UNION {EntryReference(e) : e \in Members(a)}
  <2>1. blob' \in BlobRows
    BY <1>2, Returned, ReleasedTyped DEF ResetEntries, Gone
  <2>2. erasing' \subseteq Blob
    BY <1>0, <1>2 DEF ResetEntries, LastOf, Typed
  <2>3. entry' \in EntryRows
    BY <1>0, <1>2 DEF ResetEntries, Typed, EntryRows, EntryRow, NoEntry
  <2>4. importer' \in ImporterRows
    BY <1>0, <1>2, StepTyped DEF ResetEntries
  <2> QED
    BY <1>0, <1>2, <2>1, <2>2, <2>3, <2>4 DEF Typed, ResetEntries, uploadVars, taskVars
<1>3. ASSUME LeaveImport(a, n) \/ RetryImport(a, n)
      PROVE  Typed'
  <2>1. importer' \in ImporterRows
    BY <1>0, <1>3, StepTyped DEF LeaveImport, RetryImport
  <2>2. fence' \in FenceRows
    BY <1>0, <1>3 DEF LeaveImport, RetryImport, Unfenced, Typed, FenceRows
  <2>3. import' \in ImportRows
    BY <1>0, <1>3 DEF LeaveImport, RetryImport, Typed, ImportRows, ImportRow
  <2> QED
    BY <1>0, <1>3, <2>1, <2>2, <2>3 DEF Typed, LeaveImport, RetryImport, uploadVars, taskVars
<1>4. ASSUME NEW e \in Members(a), PublishEntry(a, n, e)
      PROVE  Typed'
  <2>0. e \in Entry
    BY DEF Members
  <2>1. importer' \in ImporterRows
    BY <1>0, <1>4, <2>0, ImporterTyped DEF PublishEntry, ImporterRow
  <2>2. fence' \in FenceRows /\ file' \in FileRows
    BY <1>0, <1>4, <2>0 DEF PublishEntry, Typed, FenceRows, FileRows
  <2> QED
    BY <1>0, <1>4, <2>1, <2>2 DEF Typed, PublishEntry, uploadVars, taskVars
<1>5. ASSUME NEW e \in Members(a), PersistEntry(a, n, e)
      PROVE  Typed'
  <2>0. e \in Entry
    BY DEF Members
  <2>1. importer' \in ImporterRows
    BY <1>0, <1>5, <2>0, ImporterTyped DEF PersistEntry, ImporterRow
  <2>2. fence' \in FenceRows
    BY <1>0, <1>5, <2>0 DEF PersistEntry, Typed, FenceRows
  <2>3. blob' \in BlobRows
    BY <1>0, <1>5, <2>0, Names DEF PersistEntry, Retained, Typed, BlobRows, BlobState
  <2>4. entry' \in EntryRows
    BY <1>0, <1>5, <2>0 DEF PersistEntry, Typed, EntryRows, EntryRow
  <2> QED
    BY <1>0, <1>5, <2>1, <2>2, <2>3, <2>4 DEF Typed, PersistEntry, uploadVars, taskVars
<1> QED
  BY <1>1, <1>2, <1>3, <1>4, <1>5

LEMMA ImportTyped ==
    ASSUME RefInv, NEW a \in Archive, ImportStep(a)
    PROVE  Typed'
<1>0. Typed /\ import[a] \in ImportRow
  BY TypeParts DEF RefInv, Typed, ImportRows
<1>1. ASSUME ClaimImport(a)
      PROVE  Typed'
  <2>1. import[a].attempt + 1 \in Attempts /\ Attempts \subseteq 0 .. MaxAttempts
    BY <1>0, <1>1, SamplesAreWellFormed DEF ClaimImport, ImportRow, Attempts
  <2>2. importer' \in ImporterRows
    BY <1>0, <1>1, <2>1, StepTyped DEF ClaimImport
  <2>3. import' \in ImportRows
    <3> DEFINE row == [[[import[a] EXCEPT !.status = "running"] EXCEPT !.live = TRUE]
                          EXCEPT !.attempt = @ + 1]
    <3>1. row \in ImportRow
      BY <1>0, <2>1 DEF ImportRow
    <3>2. import' = [import EXCEPT ![a] = row]
      BY <1>0, <1>1 DEF ClaimImport, Typed, ImportRows, ImportRow
    <3> HIDE DEF row
    <3> QED
      BY <1>0, <3>1, <3>2 DEF Typed, ImportRows
  <2> QED
    BY <1>0, <1>1, <2>2, <2>3 DEF Typed, ClaimImport, unchangedButImports, blobVars,
        uploadVars, taskVars
<1>2. ASSUME ExpireImportLease(a) \/ CompleteBatch(a) \/ PrepareDelete(a)
      PROVE  Typed'
  <2>1. import' \in ImportRows
    <3>1. \/ import' = [import EXCEPT ![a].live = FALSE]
          \/ import' = [import EXCEPT ![a].batch = FALSE]
          \/ import' = [import EXCEPT ![a].status = "deleting"]
      BY <1>2 DEF ExpireImportLease, CompleteBatch, PrepareDelete
    <3>2. /\ [import[a] EXCEPT !.live = FALSE] \in ImportRow
          /\ [import[a] EXCEPT !.batch = FALSE] \in ImportRow
          /\ [import[a] EXCEPT !.status = "deleting"] \in ImportRow
      BY <1>0 DEF ImportRow
    <3> QED
      BY <1>0, <3>1, <3>2 DEF Typed, ImportRows
  <2>2. deleting' \in [Archive -> BOOLEAN]
    BY <1>0, <1>2 DEF Typed, ExpireImportLease, CompleteBatch, PrepareDelete,
        unchangedButImports
  <2> QED
    BY <1>0, <1>2, <2>1, <2>2 DEF Typed, ExpireImportLease, CompleteBatch, PrepareDelete,
        unchangedButImports, blobVars, uploadVars, taskVars
<1>3. ASSUME RecoverExpired(a)
      PROVE  Typed'
  <2>1. blob' \in BlobRows
    BY <1>0, <1>3, Returned, ReleasedTyped DEF RecoverExpired, Gone, Typed
  <2>2. import' \in ImportRows
    BY <1>0, <1>3 DEF Typed, ImportRows, ImportRow, RecoverExpired
  <2> QED
    BY <1>0, <1>3, <2>1, <2>2 DEF Typed, RecoverExpired, uploadVars, taskVars
<1>4. ASSUME NEW es \in SUBSET Members(a), BeginBatch(a, es)
      PROVE  Typed'
  <2>1. import' \in ImportRows
    BY <1>0, <1>4 DEF Typed, ImportRows, ImportRow, BeginBatch
  <2>2. item' \in ItemRows
    <3>1. NoItem \in ItemRow
      BY SamplesAreWellFormed DEF ItemRow, NoItem
    <3>3. /\ [NoItem EXCEPT !.outcome = "pending"] \in ItemRow
          /\ [NoItem EXCEPT !.outcome = "existing"] \in ItemRow
      BY <3>1 DEF ItemRow
    <3>2. \A e \in Entry : item[e] \in ItemRow
      BY <1>0 DEF Typed, ItemRows
    <3> QED
      BY <1>4, <3>1, <3>2, <3>3 DEF BeginBatch, ItemRows
  <2> QED
    BY <1>0, <1>4, <2>1, <2>2 DEF Typed, BeginBatch, blobVars, uploadVars, taskVars
<1>5. ASSUME FinalizeDelete(a)
      PROVE  Typed'
  <2>1. blob' \in BlobRows
    BY <1>5, Returned, ReleasedTyped DEF FinalizeDelete, Gone
  <2>2. erasing' \subseteq Blob /\ deleting' \in [Archive -> BOOLEAN]
    BY <1>0, <1>5 DEF FinalizeDelete, LastOf, Typed
  <2>3. import' \in ImportRows
    BY <1>0, <1>5 DEF FinalizeDelete, Typed, ImportRows, ImportRow
  <2>4. entry' \in EntryRows /\ item' \in ItemRows
    BY <1>0, <1>5, SamplesAreWellFormed DEF FinalizeDelete, Typed, EntryRows, EntryRow, ItemRows,
        ItemRow, NoEntry, NoItem
  <2> QED
    BY <1>0, <1>5, <2>1, <2>2, <2>3, <2>4 DEF Typed, FinalizeDelete, uploadVars, taskVars
<1>6. CASE InterruptDelete(a)
  BY <1>0, <1>6 DEF Typed, InterruptDelete, blobVars, uploadVars, taskVars
<1> QED
  BY <1>1, <1>2, <1>3, <1>4, <1>5, <1>6, AttemptTyped DEF ImportStep

LEMMA EntryTyped ==
    ASSUME RefInv, NEW e \in Entry, EntryStep(e)
    PROVE  Typed'
<1>0. /\ Typed /\ entry[e] \in EntryRow /\ item[e] \in ItemRow
      /\ e \in Upload /\ Content[e] \in Blob /\ Parent[e] \in Archive
      /\ batcher[e] \in [Attempts -> {"none", "claimed", "derived", "saved", "tasked"}]
  BY TypeParts, Names DEF RefInv, Typed, EntryRows, ItemRows, BatcherRows
<1>1. ASSUME NEW n \in Attempts, NEW step \in {"none", "derived", "saved", "tasked"},
             BatchStep(e, n, step)
      PROVE  batcher' \in BatcherRows
  BY <1>0, <1>1 DEF Typed, BatcherRows, BatchStep
<1>2. ASSUME ReconcileEntryFact(e)
      PROVE  Typed'
  <2>1. blob' \in BlobRows
    BY <1>0, <1>2, Returned, ReleasedTyped DEF ReconcileEntryFact, Gone, Typed
  <2>2. entry' \in EntryRows
    <3>1. /\ [status |-> "created", ref |-> FALSE, derived |-> TRUE] \in EntryRow
          /\ [entry[e] EXCEPT !.derived = TRUE] \in EntryRow
      BY <1>0 DEF EntryRow
    <3> QED
      BY <1>0, <1>2, <3>1 DEF Typed, EntryRows, ReconcileEntryFact
  <2>3. item' \in ItemRows
    <3> DEFINE row == IF item[e].outcome \in {"pending", "processing", "failed"}
                      THEN [[item[e] EXCEPT !.outcome = "existing"] EXCEPT !.live = FALSE]
                      ELSE item[e]
    <3>1. row \in ItemRow
      BY <1>0 DEF ItemRow
    <3>2. item' = [item EXCEPT ![e] = row] \/ item' = item
      BY <1>2 DEF ReconcileEntryFact
    <3> HIDE DEF row
    <3> QED
      BY <1>0, <3>1, <3>2 DEF Typed, ItemRows
  <2> QED
    BY <1>0, <1>2, <2>1, <2>2, <2>3 DEF Typed, ReconcileEntryFact, unchangedButBatches,
        uploadVars, taskVars
<1>3. ASSUME ClaimBatchItem(e)
      PROVE  Typed'
  <2>1. AttemptsLeft(e) => /\ item[e].attempt + 1 \in Attempts
                           /\ item[e].attempt + 1 \in 0 .. MaxAttempts
    <3>1. import[Parent[e]].max \in Attempts /\ item[e].attempt \in 0 .. MaxAttempts
      BY <1>0 DEF Typed, ImportRows, ImportRow, ItemRow
    <3> QED
      BY <3>1, SamplesAreWellFormed DEF AttemptsLeft, Tries, Attempts
  <2>2. item' \in ItemRows
    <3>1. CASE AttemptsLeft(e)
      <4>1. [outcome |-> "processing", live |-> TRUE, attempt |-> item[e].attempt + 1]
                \in ItemRow
        BY <2>1, <3>1 DEF ItemRow
      <4>2. item' = [item EXCEPT ![e] = [outcome |-> "processing", live |-> TRUE,
                                         attempt |-> item[e].attempt + 1]]
        BY <1>3, <3>1 DEF ClaimBatchItem
      <4> QED
        BY <1>0, <4>1, <4>2 DEF Typed, ItemRows
    <3>2. CASE ~AttemptsLeft(e)
      <4>1. [item[e] EXCEPT !.outcome = "failed"] \in ItemRow
        BY <1>0 DEF ItemRow
      <4> QED
        BY <1>0, <1>3, <3>2, <4>1 DEF ClaimBatchItem, Typed, ItemRows
    <3> QED
      BY <3>1, <3>2
  <2>3. entry' \in EntryRows
    BY <1>0, <1>3, FailedTyped DEF ClaimBatchItem, Typed
  <2>4. batcher' \in BatcherRows
    BY <1>0, <1>3, <2>1 DEF ClaimBatchItem, Typed, BatcherRows
  <2> QED
    BY <1>0, <1>3, <2>2, <2>3, <2>4 DEF Typed, ClaimBatchItem, unchangedButBatches,
        uploadVars, taskVars
<1>4. CASE ExpireItemLease(e)
  BY <1>0, <1>4 DEF Typed, ItemRows, ItemRow, ExpireItemLease, unchangedButBatches,
      uploadVars, taskVars
<1>5. ASSUME DeleteDerived(e)
      PROVE  Typed'
  <2>1. blob' \in BlobRows
    BY <1>0, <1>5, Returned, ReleasedTyped DEF DeleteDerived, Cancelled
  <2>2. upload' \in UploadRows
    BY <1>0, <1>5, CancelledTyped DEF Typed, DeleteDerived
  <2> QED
    BY <1>0, <1>5, <2>1, <2>2 DEF Typed, DeleteDerived, taskVars, archiveVars
<1>6. ASSUME NEW n \in Attempts, CreateDerived(e, n)
      PROVE  Typed'
  <2>1. blob' \in BlobRows
    BY <1>0, <1>6, ReferencedTyped DEF CreateDerived, Typed
  <2>2. upload' \in UploadRows
    <3>1. NewUpload("completed", TRUE) \in UploadRow
      BY DEF NewUpload, UploadRow, UploadStatus
    <3> QED
      BY <1>0, <1>6, <3>1 DEF CreateDerived, Typed, UploadRows
  <2>3. batcher' \in BatcherRows
    BY <1>1, <1>6 DEF CreateDerived
  <2> QED
    BY <1>0, <1>6, <2>1, <2>2, <2>3 DEF Typed, CreateDerived, unchangedButBatches, taskVars
<1>7. ASSUME NEW n \in Attempts, SaveDerived(e, n) \/ LeaveItem(e, n)
      PROVE  Typed'
  <2>1. batcher' \in BatcherRows
    BY <1>1, <1>7 DEF SaveDerived, LeaveItem
  <2>2. entry' \in EntryRows
    <3>1. [entry[e] EXCEPT !.derived = TRUE] \in EntryRow
      BY <1>0 DEF EntryRow
    <3> QED
      BY <1>0, <1>7, <3>1 DEF SaveDerived, LeaveItem, Typed, EntryRows
  <2> QED
    BY <1>0, <1>7, <2>1, <2>2 DEF Typed, SaveDerived, LeaveItem, unchangedButBatches,
        uploadVars, taskVars
<1>8. ASSUME NEW n \in Attempts, CreateEntryTask(e, n)
      PROVE  Typed'
  <2>1. batcher' \in BatcherRows
    BY <1>1, <1>8 DEF CreateEntryTask
  <2>2. blob' \in BlobRows
    BY <1>0, <1>8, ReferencedTyped DEF CreateEntryTask, CreatedTask, Typed
  <2>3. task' \in TaskRows
    BY <1>0, <1>8, NewTaskTyped DEF CreateEntryTask, CreatedTask, Typed, TaskRows
  <2> QED
    BY <1>0, <1>8, <2>1, <2>2, <2>3 DEF Typed, CreateEntryTask, unchangedButBatches,
        uploadVars
<1>9. ASSUME NEW n \in Attempts, FinalizeItem(e, n)
      PROVE  Typed'
  <2>1. blob' \in BlobRows
    BY <1>0, <1>9, Returned, ReleasedTyped DEF FinalizeItem, FinalizeReference, Gone
  <2>2. erasing' \subseteq Blob
    BY <1>0, <1>9 DEF FinalizeItem, LastOf, Typed
  <2>3. batcher' \in BatcherRows
    BY <1>1, <1>9 DEF FinalizeItem
  <2>4. entry' \in EntryRows
    <3>1. [status |-> "created", ref |-> FALSE, derived |-> TRUE] \in EntryRow
      BY DEF EntryRow
    <3> QED
      BY <1>0, <1>9, <3>1 DEF FinalizeItem, Typed, EntryRows
  <2>5. item' \in ItemRows
    <3> DEFINE row == [[item[e] EXCEPT !.outcome = "created"] EXCEPT !.live = FALSE]
    <3>1. row \in ItemRow
      BY <1>0 DEF ItemRow
    <3>2. item' = [item EXCEPT ![e] = row]
      BY <1>9 DEF FinalizeItem
    <3> HIDE DEF row
    <3> QED
      BY <1>0, <3>1, <3>2 DEF Typed, ItemRows
  <2> QED
    BY <1>0, <1>9, <2>1, <2>2, <2>3, <2>4, <2>5 DEF Typed, FinalizeItem, uploadVars, taskVars
<1>10. ASSUME NEW n \in Attempts, RetryOrFailItem(e, n)
       PROVE  Typed'
  <2>1. batcher' \in BatcherRows
    BY <1>1, <1>10 DEF RetryOrFailItem
  <2>2. entry' \in EntryRows
    BY <1>0, <1>10, FailedTyped DEF RetryOrFailItem, Typed
  <2>3. item' \in ItemRows
    <3> DEFINE row == [[item[e] EXCEPT !.live = FALSE] EXCEPT
                          !.outcome = IF n < Tries(e) THEN "pending" ELSE "failed"]
    <3>1. row \in ItemRow
      BY <1>0 DEF ItemRow
    <3>2. item' = [item EXCEPT ![e] = row]
      BY <1>10 DEF RetryOrFailItem
    <3> HIDE DEF row
    <3> QED
      BY <1>0, <3>1, <3>2 DEF Typed, ItemRows
  <2> QED
    BY <1>0, <1>10, <2>1, <2>2, <2>3 DEF Typed, RetryOrFailItem, unchangedButBatches,
        uploadVars, taskVars
<1> QED
  BY <1>2, <1>3, <1>4, <1>5, <1>6, <1>7, <1>8, <1>9, <1>10 DEF EntryStep

LEMMA TypesKept ==
    ASSUME RefInv, [Next]_vars
    PROVE  TypeOK'
<1>1. CASE UNCHANGED vars
  BY <1>1, TypeParts DEF RefInv, Typed, vars, blobVars, uploadVars, taskVars, archiveVars
<1> QED
  BY <1>1, TypeParts, PlansAreValid, UploadTyped, NestedTyped, TaskTyped, CleanupTyped,
      RetentionTyped, BlobTyped, ImportTyped, EntryTyped DEF Next
-----------------------------------------------------------------------------
(***************************************************************************)
(* Every step keeps the references, takes one or gives some back           *)
(***************************************************************************)
UploadsSame == \A u \in Upload : upload'[u].ref = upload[u].ref
TasksSame   == \A u \in Upload : /\ task'[u].sample = task[u].sample
                                 /\ task'[u].nested = task[u].nested
ImportsSame == \A a \in Archive : import'[a].source = import[a].source
EntriesSame == \A e \in Entry : entry'[e].ref = entry[e].ref

\* What the rows say determines the references.
LEMMA RefsKept ==
    ASSUME UploadsSame, TasksSame, ImportsSame, EntriesSame
    PROVE  References' = References
<1>1. \A r : r \in References' <=> r \in References
  BY ReferenceSet DEF UploadsSame, TasksSame, ImportsSame, EntriesSame
<1> QED
  BY <1>1

\* One more row that refers to a content is one more reference.
LEMMA RefsGained ==
    ASSUME NEW r, r \notin References,
           \A u \in Upload :
              /\ upload'[u].ref <=> upload[u].ref \/ r = <<u, "upload">>
              /\ task'[u].sample <=> task[u].sample \/ r = <<u, "sample">>
              /\ task'[u].nested <=> task[u].nested \/ r = <<u, "nested">>,
           \A a \in Archive : import'[a].source <=> import[a].source \/ r = <<a, "source">>,
           \A e \in Entry : entry'[e].ref <=> entry[e].ref \/ r = <<e, "entry">>,
           \/ \E u \in Upload : r \in {<<u, "upload">>, <<u, "sample">>, <<u, "nested">>}
           \/ \E a \in Archive : r = <<a, "source">>
           \/ \E e \in Entry : r = <<e, "entry">>
    PROVE  References' = References \cup {r}
<1>1. \A q : q \in References' <=> q \in References \cup {r}
  BY ReferenceSet
<1> QED
  BY <1>1

\* Rows that refer no longer take their references with them.
LEMMA RefsLost ==
    ASSUME NEW refs,
           \A u \in Upload :
              /\ upload'[u].ref <=> upload[u].ref /\ <<u, "upload">> \notin refs
              /\ task'[u].sample <=> task[u].sample /\ <<u, "sample">> \notin refs
              /\ task'[u].nested <=> task[u].nested /\ <<u, "nested">> \notin refs,
           \A a \in Archive :
              import'[a].source <=> import[a].source /\ <<a, "source">> \notin refs,
           \A e \in Entry : entry'[e].ref <=> entry[e].ref /\ <<e, "entry">> \notin refs
    PROVE  References' = References \ refs
<1>1. ASSUME NEW q \in References'
      PROVE  q \in References \ refs
  <2>1. ASSUME NEW u \in Upload, upload'[u].ref, q = <<u, "upload">>
        PROVE  q \in References \ refs
    BY <2>1, ReferenceSet
  <2>2. ASSUME NEW u \in Upload, task'[u].sample, q = <<u, "sample">>
        PROVE  q \in References \ refs
    BY <2>2, ReferenceSet
  <2>3. ASSUME NEW u \in Upload, task'[u].nested, q = <<u, "nested">>
        PROVE  q \in References \ refs
    BY <2>3, ReferenceSet
  <2>4. ASSUME NEW a \in Archive, import'[a].source, q = <<a, "source">>
        PROVE  q \in References \ refs
    BY <2>4, ReferenceSet
  <2>5. ASSUME NEW e \in Entry, entry'[e].ref, q = <<e, "entry">>
        PROVE  q \in References \ refs
    BY <2>5, ReferenceSet
  <2> QED
    BY <2>1, <2>2, <2>3, <2>4, <2>5, ReferenceSet
<1>2. ASSUME NEW q \in References, q \notin refs
      PROVE  q \in References'
  BY <1>2, ReferenceSet
<1> QED
  BY <1>1, <1>2

\* How a counter goes up by one.
LEMMA TakenOnce ==
    ASSUME RefInv, NEW r, NEW b \in Blob, b = BlobOf(r),
           r \notin References, References' = References \cup {r},
           \E state \in Kept :
              blob' = [blob EXCEPT ![b] = [state |-> state, refs |-> blob[b].refs + 1]]
    PROVE  RefStep
<1>1. blob \in BlobRows
  BY TypeParts DEF RefInv, Typed
<1>2. Took(r)
  BY <1>1 DEF Took, BlobRows
<1> QED
  BY <1>2 DEF RefStep

\* The same through referencing an available content.
LEMMA ReferencedOnce ==
    ASSUME RefInv, NEW r, NEW b \in Blob, b = BlobOf(r),
           r \notin References, References' = References \cup {r},
           blob[b].state = "available", blob' = Referenced(blob, b)
    PROVE  RefStep
<1>1. blob \in BlobRows
  BY TypeParts DEF RefInv, Typed
<1>2. [blob[b] EXCEPT !.refs = @ + 1] = [state |-> "available", refs |-> blob[b].refs + 1]
  BY <1>1 DEF BlobRows
<1>3. blob' = [blob EXCEPT ![b] = [state |-> "available", refs |-> blob[b].refs + 1]]
  BY <1>1, <1>2 DEF Referenced
<1> QED
  BY <1>3, TakenOnce DEF Kept

\* The first task of an upload takes a reference for its sample.
LEMMA CreatedRefs ==
    ASSUME RefInv, NEW u \in Upload, TaskAllowed(u), CreatedTask(u),
           UNCHANGED <<upload, import, entry>>
    PROVE  RefStep
<1> DEFINE r == <<u, "sample">>
<1>0. task \in TaskRows /\ NewRowsRefer /\ Content[u] \in Blob
  BY Names, TypeParts DEF RefInv, Typed
<1>1. /\ task[u].status = "absent" /\ blob[Content[u]].state = "available"
      /\ task' = [task EXCEPT ![u] = [NoTask EXCEPT !.status = "ACTIVE", !.sample = TRUE]]
      /\ blob' = Referenced(blob, Content[u])
  BY DEF TaskAllowed, CanReference, CreatedTask
<1>2. ~task[u].sample /\ ~task[u].nested
  BY <1>0, <1>1 DEF NewRowsRefer
<1>3. r \notin References /\ BlobOf(r) = Content[u]
  BY <1>2, ReferenceSet DEF BlobOf
<1>4. /\ task'[u].sample /\ ~task'[u].nested
      /\ \A v \in Upload \ {u} : task'[v] = task[v]
  BY <1>0, <1>1 DEF TaskRows, NoTask
<1>5. References' = References \cup {r}
  BY <1>2, <1>3, <1>4, RefsGained
<1> QED
  BY <1>0, <1>1, <1>3, <1>5, ReferencedOnce

LEMMA UploadRefs ==
    ASSUME RefInv, NEW u \in Direct, UploadStep(u)
    PROVE  RefStep
<1>0. /\ u \in Upload /\ Content[u] \in Blob /\ upload \in UploadRows /\ blob \in BlobRows
      /\ task \in TaskRows /\ import \in ImportRows /\ NewRowsRefer
  BY Names, TypeParts DEF RefInv, Typed
<1>1. ASSUME \/ CreateUpload(u) \/ PutPart(u) \/ BeginCompletion(u)
             \/ LeaveCompletion(u) \/ PublishAssembly(u) \/ FinalizeCompletion(u)
             \/ PrepareCompletion(u) /\ UNCHANGED <<blob, upload>>
      PROVE  RefStep
  <2>1. UploadsSame
    BY <1>0, <1>1 DEF UploadsSame, UploadRows, UploadRow, CreateUpload, PutPart,
        BeginCompletion, LeaveCompletion, PublishAssembly, FinalizeCompletion, SetStatus
  <2>2. UNCHANGED <<task, import, entry>>
    BY <1>1 DEF CreateUpload, PutPart, BeginCompletion, LeaveCompletion, PublishAssembly,
        FinalizeCompletion, PrepareCompletion, taskVars, archiveVars
  <2>3. References' = References
    BY <2>1, <2>2, RefsKept DEF TasksSame, ImportsSame, EntriesSame
  <2>4. \/ blob' = blob
        \/ /\ blob[Content[u]].state \in Kept
           /\ blob' = [blob EXCEPT ![Content[u]].state = "available"]
    BY <1>1 DEF CreateUpload, PutPart, BeginCompletion, LeaveCompletion, PublishAssembly,
        FinalizeCompletion, PrepareCompletion, blobVars, Kept
  <2> QED
    BY <1>0, <2>3, <2>4 DEF RefStep, KeptRefs, BlobRows, Kept
<1>2. ASSUME PrepareCompletion(u), ~(blob' = blob /\ upload' = upload)
      PROVE  RefStep
  <2> DEFINE r == <<u, "upload">>
             b == Content[u]
  <2>1. /\ upload[u].status \in {"created", "uploading"}
        /\ blob' = [blob EXCEPT ![b] =
              [state |-> IF @.state = "available" THEN "available" ELSE "staging",
               refs |-> @.refs + 1]]
        /\ upload' = [upload EXCEPT ![u].status = "assembling", ![u].ref = TRUE]
        /\ UNCHANGED <<task, import, entry>>
    BY <1>2 DEF PrepareCompletion, taskVars, archiveVars
  <2>2. ~upload[u].ref
    BY <1>0, <2>1 DEF NewRowsRefer
  <2>3. r \notin References /\ BlobOf(r) = b
    BY <2>2, ReferenceSet DEF BlobOf
  <2>4. upload'[u].ref /\ \A v \in Upload \ {u} : upload'[v].ref = upload[v].ref
    BY <1>0, <2>1 DEF UploadRows, UploadRow
  <2>5. References' = References \cup {r}
    BY <1>0, <2>1, <2>3, <2>4, RefsGained
  <2>6. \E state \in Kept :
            blob' = [blob EXCEPT ![b] = [state |-> state, refs |-> blob[b].refs + 1]]
    BY <2>1 DEF Kept
  <2> QED
    BY <1>0, <2>3, <2>5, <2>6, TakenOnce
<1>3. ASSUME EnsureArchiveImport(u)
      PROVE  RefStep
  <2> DEFINE r == <<u, "source">>
             b == Content[u]
  <2>1. /\ u \in Archive /\ import[u].status = "absent" /\ blob[b].state = "available"
        /\ blob' = Referenced(blob, b)
        /\ import' = [import EXCEPT ![u].status = "queued", ![u].source = TRUE]
        /\ UNCHANGED <<upload, task, entry>>
    BY <1>3 DEF EnsureArchiveImport, CanReference, uploadVars, taskVars
  <2>2. ~import[u].source
    BY <1>0, <2>1 DEF NewRowsRefer
  <2>3. r \notin References /\ BlobOf(r) = b
    BY <2>2, ReferenceSet DEF BlobOf
  <2>4. import'[u].source /\ \A a \in Archive \ {u} : import'[a].source = import[a].source
    BY <1>0, <2>1 DEF ImportRows, ImportRow
  <2>5. References' = References \cup {r}
    BY <2>1, <2>3, <2>4, RefsGained
  <2> QED
    BY <1>0, <2>1, <2>3, <2>5, ReferencedOnce
<1>4. CASE EnsureDirectTask(u)
  BY <1>0, <1>4, CreatedRefs DEF EnsureDirectTask, uploadVars, archiveVars
<1> QED
  BY <1>1, <1>2, <1>3, <1>4 DEF UploadStep

LEMMA NestedRefs ==
    ASSUME RefInv, NEW u \in DOMAIN NestedIn, NestedStep(u)
    PROVE  RefStep
<1> DEFINE r == <<u, "nested">>
           b == NestedIn[u]
<1>0. /\ u \in Upload /\ b \in Blob /\ blob \in BlobRows /\ task \in TaskRows
      /\ UNCHANGED <<upload, import, entry>>
  BY Names, TypeParts DEF RefInv, Typed, NestedStep, StoreNested, AbandonTree, PublishTree,
      PublishTreeWithout, unchangedButTasks, uploadVars, archiveVars
<1>1. BlobOf(r) = b /\ (r \in References <=> task[u].nested)
  BY <1>0, ReferenceSet DEF BlobOf
<1>2. CASE StoreNested(u) \/ AbandonTree(u)
  <2>1. UNCHANGED <<blob, task>>
    BY <1>2 DEF StoreNested, AbandonTree, unchangedButTasks, blobVars
  <2> QED
    BY <1>0, <2>1, RefsKept DEF UploadsSame, TasksSame, ImportsSame, EntriesSame, RefStep,
        KeptRefs
<1>3. ASSUME PublishTree(u)
      PROVE  RefStep
  <2>1. /\ task'[u].nested /\ task'[u].sample = task[u].sample
        /\ \A v \in Upload \ {u} : task'[v] = task[v]
    BY <1>0, <1>3 DEF PublishTree, TaskRows, TaskRow
  <2>2. CASE task[u].nested
    <3>1. UNCHANGED blob
      BY <1>3, <2>2 DEF PublishTree, TreeReference
    <3>2. TasksSame
      BY <1>0, <2>1, <2>2 DEF TasksSame, TaskRows, TaskRow
    <3> QED
      BY <1>0, <3>1, <3>2, RefsKept DEF UploadsSame, ImportsSame, EntriesSame, RefStep,
          KeptRefs
  <2>3. CASE ~task[u].nested
    <3>1. References' = References \cup {r}
      BY <1>0, <1>1, <2>1, <2>3, RefsGained
    <3>2. CASE blob[b].state = "available"
      BY <1>0, <1>1, <1>3, <2>3, <3>1, <3>2, ReferencedOnce DEF PublishTree, TreeReference
    <3>3. CASE blob[b].state = "absent"
      <4>1. blob[b].refs = 0
        BY <1>0, <3>3 DEF RefInv, ReferencesAreExact, BlobRows
      <4>2. blob' = [blob EXCEPT ![b] = [state |-> "available", refs |-> blob[b].refs + 1]]
        BY <1>3, <2>3, <3>3, <4>1 DEF PublishTree, TreeReference
      <4> QED
        BY <1>0, <1>1, <2>3, <3>1, <4>2, TakenOnce DEF Kept
    <3> QED
      BY <1>3, <2>3, <3>2, <3>3 DEF PublishTree, TreeReference
  <2> QED
    BY <2>2, <2>3
<1>4. ASSUME PublishTreeWithout(u)
      PROVE  RefStep
  <2>1. /\ task[u].nested /\ ~task'[u].nested /\ task'[u].sample = task[u].sample
        /\ \A v \in Upload \ {u} : task'[v] = task[v]
    BY <1>0, <1>4 DEF PublishTreeWithout, TaskRows, TaskRow
  <2>2. References' = References \ {r}
    BY <1>0, <2>1, RefsLost
  <2> QED
    BY <1>1, <1>4, <2>1, <2>2 DEF PublishTreeWithout, RefStep, GaveBack
<1> QED
  BY <1>2, <1>3, <1>4 DEF NestedStep

LEMMA TaskRefs ==
    ASSUME RefInv, NEW u \in Upload, TaskStep(u)
    PROVE  RefStep
<1>0. task \in TaskRows
  BY TypeParts DEF RefInv, Typed
<1>1. TasksSame
  BY <1>0 DEF TasksSame, TaskRows, TaskRow, TaskStep, FinishScan, RetryScan, RequestJob,
      ClaimJob, ReturnJob, ExpireSample, RequestDelete, SetTask
<1>2. UNCHANGED <<blob, upload, import, entry>>
  BY DEF TaskStep, FinishScan, RetryScan, RequestJob, ClaimJob, ReturnJob, ExpireSample,
      RequestDelete, unchangedButTasks, blobVars, uploadVars, archiveVars
<1> QED
  BY <1>1, <1>2, RefsKept DEF UploadsSame, ImportsSame, EntriesSame, RefStep, KeptRefs

LEMMA CleanupRefs ==
    ASSUME RefInv, NEW u \in Upload, CleanupStep(u)
    PROVE  RefStep
<1>0. task \in TaskRows
  BY TypeParts DEF RefInv, Typed
<1>1. ASSUME UNCHANGED <<task, blob, upload, import, entry>>
      PROVE  RefStep
  BY <1>1, RefsKept DEF UploadsSame, TasksSame, ImportsSame, EntriesSame, RefStep, KeptRefs
<1>2. CASE ClaimCleanup(u) \/ ExpireCleanupLease(u) \/ ClaimSample(u) \/ ExpireSampleLease(u)
  BY <1>1, <1>2 DEF ClaimCleanup, ExpireCleanupLease, ClaimSample, ExpireSampleLease,
      unchangedButTasks, blobVars, uploadVars, archiveVars
<1>3. ASSUME NEW n, LeaveCleanup(u, n) \/ RenewCleanup(u, n) \/ LeaveSample(u, n)
      PROVE  RefStep
  BY <1>1, <1>3 DEF LeaveCleanup, RenewCleanup, LeaveSample, unchangedButTasks, blobVars,
      uploadVars, archiveVars
<1>4. ASSUME NEW n, CompleteCleanup(u, n) \/ CompleteSample(u, n)
      PROVE  RefStep
  <2>1. /\ ~task'[u].sample /\ ~task'[u].nested
        /\ \A v \in Upload \ {u} : task'[v] = task[v]
    BY <1>0, <1>4 DEF CompleteCleanup, CompleteSample, TaskRows, TaskRow
  <2>2. UNCHANGED <<upload, import, entry>>
    BY <1>4 DEF CompleteCleanup, CompleteSample, uploadVars, archiveVars
  <2>3. \A v \in Upload :
           /\ <<v, "sample">> \in TaskReferences(u) <=> v = u /\ task[u].sample
           /\ <<v, "nested">> \in TaskReferences(u) <=> v = u /\ task[u].nested
    BY DEF TaskReferences
  <2>4. /\ \A x : /\ <<x, "upload">> \notin TaskReferences(u)
                  /\ <<x, "source">> \notin TaskReferences(u)
                  /\ <<x, "entry">> \notin TaskReferences(u)
    BY DEF TaskReferences
  <2>5. References' = References \ TaskReferences(u)
    <3> DEFINE refs == TaskReferences(u)
    <3>1. \A v \in Upload : /\ upload'[v].ref <=> upload[v].ref /\ <<v, "upload">> \notin refs
                            /\ task'[v].sample <=> task[v].sample /\ <<v, "sample">> \notin refs
                            /\ task'[v].nested <=> task[v].nested /\ <<v, "nested">> \notin refs
      <4>1. ASSUME NEW v \in Upload, v # u
            PROVE  /\ task'[v] = task[v] /\ <<v, "sample">> \notin refs
                   /\ <<v, "nested">> \notin refs
        BY <2>1, <2>3, <4>1
      <4>2. /\ task'[u].sample <=> task[u].sample /\ <<u, "sample">> \notin refs
            /\ task'[u].nested <=> task[u].nested /\ <<u, "nested">> \notin refs
        BY <2>1, <2>3
      <4>3. \A v \in Upload : upload'[v].ref <=> upload[v].ref /\ <<v, "upload">> \notin refs
        BY <2>2, <2>4
      <4> QED
        BY <4>1, <4>2, <4>3, ZenonT(60)
    <3>2. /\ \A a \in Archive : import'[a].source <=> import[a].source /\ <<a, "source">> \notin refs
          /\ \A e \in Entry : entry'[e].ref <=> entry[e].ref /\ <<e, "entry">> \notin refs
      BY <2>2, <2>4
    <3> HIDE DEF refs
    <3>3. References' = References \ refs
      BY <3>1, <3>2, RefsLost
    <3> QED
      BY <3>3 DEF refs
  <2> QED
    BY <1>4, <2>5, Returned DEF CompleteCleanup, CompleteSample, RefStep, GaveBack
<1> QED
  BY <1>2, <1>3, <1>4 DEF CleanupStep

\* An upload that ends, by its user or by its age, gives its reference back.
LEMMA EndedRefs ==
    ASSUME RefInv, NEW u \in Upload, Gone(UploadReference(u)),
           ~upload'[u].ref, \A v \in Upload \ {u} : upload'[v] = upload[v],
           UNCHANGED <<task, import, entry>>
    PROVE  RefStep
<1> DEFINE refs == UploadReference(u)
<1>1. /\ \A v \in Upload : <<v, "upload">> \in refs <=> v = u /\ upload[u].ref
      /\ \A x : /\ <<x, "sample">> \notin refs /\ <<x, "nested">> \notin refs
                /\ <<x, "source">> \notin refs /\ <<x, "entry">> \notin refs
  BY DEF UploadReference
<1>2. \A v \in Upload : upload'[v].ref <=> upload[v].ref /\ <<v, "upload">> \notin refs
  BY <1>1
<1> HIDE DEF refs
<1>3. References' = References \ refs
  BY <1>1, <1>2, RefsLost
<1> QED
  BY <1>3, Returned DEF refs, Gone, RefStep, GaveBack

LEMMA RetentionRefs ==
    ASSUME RefInv, NEW u \in Upload, RetentionStep(u)
    PROVE  RefStep
<1>0. upload \in UploadRows
  BY TypeParts DEF RefInv, Typed
<1>1. CASE CancelUpload(u) \/ ExpireUpload(u)
  <2>1. ~upload'[u].ref /\ \A v \in Upload \ {u} : upload'[v] = upload[v]
    BY <1>0, <1>1 DEF CancelUpload, Cancelled, ExpireUpload, UploadRows, UploadRow
  <2> QED
    BY <1>1, <2>1, EndedRefs DEF CancelUpload, Cancelled, ExpireUpload, Gone, taskVars,
        archiveVars
<1>2. CASE CleanupParts(u) \/ ExpireClock(u)
  <2>1. UploadsSame
    BY <1>0, <1>2 DEF UploadsSame, UploadRows, UploadRow, CleanupParts, ExpireClock
  <2> QED
    BY <1>2, <2>1, RefsKept DEF CleanupParts, ExpireClock, TasksSame, ImportsSame,
        EntriesSame, RefStep, KeptRefs, blobVars, taskVars, archiveVars
<1> QED
  BY <1>1, <1>2 DEF RetentionStep

LEMMA BlobRefs ==
    ASSUME RefInv, FencesHeld, NEW b \in Blob, BlobStep(b)
    PROVE  RefStep
<1>0. blob \in BlobRows
  BY TypeParts DEF RefInv, Typed
<1>1. UNCHANGED <<upload, task, import, entry>>
  BY DEF BlobStep, LockDeleting, RemoveDeleting, MarkDeleted, CrashMaintenance,
      ReconcileBlobReference, LockOrphan, RemoveOrphan, AgeFile, LockReleased,
      RemoveReleased, MarkReleased, unchangedButBlobs, uploadVars, taskVars, archiveVars
<1>2. \/ blob' = blob
      \/ /\ blob[b] = [state |-> "deleting", refs |-> 0]
         /\ blob' = [blob EXCEPT ![b].state = "deleted"]
  <2>1. CASE ReconcileBlobReference(b)
    BY <2>1, ReconcileKeeps
  <2>2. CASE MarkDeleted(b) \/ MarkReleased(b)
    BY <2>2 DEF MarkDeleted, MarkReleased, FencesHeld
  <2> QED
    BY <2>1, <2>2 DEF BlobStep, LockDeleting, RemoveDeleting, CrashMaintenance, LockOrphan,
        RemoveOrphan, AgeFile, LockReleased, RemoveReleased
<1>3. \A c \in Blob : /\ blob'[c].refs = blob[c].refs
                      /\ blob'[c].state \in Kept <=> blob[c].state \in Kept
  BY <1>0, <1>2 DEF BlobRows, Kept
<1> QED
  BY <1>1, <1>3, RefsKept DEF UploadsSame, TasksSame, ImportsSame, EntriesSame, RefStep,
      KeptRefs

\* The source of an import that ends, and members that are reset, go together.
LEMMA ArchiveRefs ==
    ASSUME RefInv, NEW a \in Archive, NEW refs,
           \A c \in Archive : import'[c].source <=>
                                  import[c].source /\ <<c, "source">> \notin refs,
           \A e \in Entry : entry'[e].ref <=> entry[e].ref /\ <<e, "entry">> \notin refs,
           \A x : /\ <<x, "upload">> \notin refs /\ <<x, "sample">> \notin refs
                  /\ <<x, "nested">> \notin refs,
           UNCHANGED <<upload, task>>
    PROVE  References' = References \ refs
BY RefsLost

LEMMA SourceRefs ==
    ASSUME RefInv, NEW a \in Archive, Gone(ReleaseSource(a)),
           ~import'[a].source, \A c \in Archive \ {a} : import'[c] = import[c],
           UNCHANGED <<upload, task, entry>>
    PROVE  RefStep
<1> DEFINE refs == ReleaseSource(a)
<1>1. /\ \A c \in Archive : <<c, "source">> \in refs <=> c = a /\ import[a].source
      /\ \A x : /\ <<x, "sample">> \notin refs /\ <<x, "nested">> \notin refs
                /\ <<x, "upload">> \notin refs /\ <<x, "entry">> \notin refs
  BY DEF ReleaseSource
<1>2. \A c \in Archive : import'[c].source <=> import[c].source /\ <<c, "source">> \notin refs
  BY <1>1
<1> HIDE DEF refs
<1>3. References' = References \ refs
  BY <1>1, <1>2, ArchiveRefs
<1> QED
  BY <1>3, Returned DEF refs, Gone, RefStep, GaveBack

LEMMA MemberRefs ==
    ASSUME RefInv, NEW e \in Entry, Gone(EntryReference(e)),
           ~entry'[e].ref, \A d \in Entry \ {e} : entry'[d] = entry[d],
           UNCHANGED <<upload, task, import>>
    PROVE  RefStep
<1> DEFINE refs == EntryReference(e)
<1>1. /\ \A d \in Entry : <<d, "entry">> \in refs <=> d = e /\ entry[e].ref
      /\ \A x : /\ <<x, "sample">> \notin refs /\ <<x, "nested">> \notin refs
                /\ <<x, "upload">> \notin refs /\ <<x, "source">> \notin refs
  BY DEF EntryReference
<1>2. \A d \in Entry : entry'[d].ref <=> entry[d].ref /\ <<d, "entry">> \notin refs
  BY <1>1
<1> HIDE DEF refs
<1>3. References' = References \ refs
  BY <1>1, <1>2, RefsLost
<1> QED
  BY <1>3, Returned DEF refs, Gone, RefStep, GaveBack

\* The references of the members of an import.
MemberReferences(a) == UNION {EntryReference(e) : e \in Members(a)}

LEMMA MembersRefer ==
    ASSUME NEW a
    PROVE  /\ \A e \in Entry :
                 <<e, "entry">> \in MemberReferences(a) <=> Parent[e] = a /\ entry[e].ref
           /\ \A x : /\ <<x, "sample">> \notin MemberReferences(a)
                     /\ <<x, "nested">> \notin MemberReferences(a)
                     /\ <<x, "upload">> \notin MemberReferences(a)
                     /\ <<x, "source">> \notin MemberReferences(a)
           /\ MemberReferences(a) \subseteq References
<1>1. \A r : r \in MemberReferences(a) <=> \E e \in Members(a) : r \in EntryReference(e)
  BY DEF MemberReferences
<1>2. \A e, r : r \in EntryReference(e) <=> entry[e].ref /\ r = <<e, "entry">>
  BY DEF EntryReference
<1>3. \A e : e \in Members(a) <=> e \in Entry /\ Parent[e] = a
  BY DEF Members
<1>4. \A r : r \in MemberReferences(a) <=>
                 \E e \in Entry : Parent[e] = a /\ entry[e].ref /\ r = <<e, "entry">>
  BY <1>1, <1>2, <1>3
<1>5. MemberReferences(a) \subseteq References
  BY Returned DEF MemberReferences
<1> QED
  BY <1>4, <1>5

LEMMA AttemptRefs ==
    ASSUME RefInv, NEW a \in Archive, NEW n \in Attempts,
           \/ ResetEntries(a, n) \/ CompleteImport(a, n) \/ LeaveImport(a, n)
           \/ RetryImport(a, n) \/ FailImport(a, n)
           \/ \E e \in Members(a) : PublishEntry(a, n, e) \/ PersistEntry(a, n, e)
    PROVE  RefStep
<1>0. /\ import \in ImportRows /\ entry \in EntryRows /\ blob \in BlobRows
  BY TypeParts DEF RefInv, Typed
<1>1. CASE CompleteImport(a, n) \/ FailImport(a, n)
  <2>1. PICK status \in {"ready", "failed"} : EndImport(a, n, status)
    BY <1>1 DEF CompleteImport, FailImport
  <2>2. ~import'[a].source /\ \A c \in Archive \ {a} : import'[c] = import[c]
    BY <1>0, <2>1 DEF EndImport, ImportRows, ImportRow
  <2> QED
    BY <2>1, <2>2, SourceRefs DEF EndImport, uploadVars, taskVars
<1>2. ASSUME ResetEntries(a, n)
      PROVE  RefStep
  <2> DEFINE refs == MemberReferences(a)
  <2>1. /\ \A e \in Entry : <<e, "entry">> \in refs <=> Parent[e] = a /\ entry[e].ref
        /\ \A x : /\ <<x, "sample">> \notin refs /\ <<x, "nested">> \notin refs
                  /\ <<x, "upload">> \notin refs /\ <<x, "source">> \notin refs
    BY MembersRefer
  <2>2. \A e \in Entry : entry'[e].ref <=> entry[e].ref /\ <<e, "entry">> \notin refs
    BY <1>2, <2>1 DEF ResetEntries, NoEntry
  <2>3. Gone(refs)
    BY <1>2 DEF ResetEntries, MemberReferences
  <2>4. refs \subseteq References
    BY MembersRefer
  <2> HIDE DEF refs
  <2>5. References' = References \ refs
    BY <1>2, <2>1, <2>2, ArchiveRefs DEF ResetEntries, uploadVars, taskVars
  <2> QED
    BY <2>3, <2>4, <2>5 DEF Gone, RefStep, GaveBack
<1>3. CASE LeaveImport(a, n) \/ RetryImport(a, n) \/ \E e \in Members(a) : PublishEntry(a, n, e)
  <2>1. ImportsSame
    <3>1. import' = import \/ import' = [import EXCEPT ![a].status = "queued", ![a].live = FALSE]
      BY <1>3 DEF LeaveImport, RetryImport, PublishEntry
    <3> QED
      BY <1>0, <3>1 DEF ImportsSame, ImportRows, ImportRow
  <2> QED
    BY <1>3, <2>1, RefsKept DEF LeaveImport, RetryImport, PublishEntry, UploadsSame,
        TasksSame, EntriesSame, RefStep, KeptRefs, uploadVars, taskVars
<1>4. ASSUME NEW e \in Members(a), PersistEntry(a, n, e)
      PROVE  RefStep
  <2> DEFINE r == <<e, "entry">>
             b == Content[e]
  <2>0. e \in Entry /\ b \in Blob
    BY Names DEF Members
  <2>1. ~entry[e].ref
    BY <1>4, <2>0 DEF PersistEntry, RefInv, NewRowsRefer
  <2>2. r \notin References /\ BlobOf(r) = b
    BY <2>0, <2>1, ReferenceSet DEF BlobOf
  <2>3. entry'[e].ref /\ \A d \in Entry \ {e} : entry'[d] = entry[d]
    BY <1>0, <1>4, <2>0 DEF PersistEntry, EntryRows, EntryRow
  <2>4. References' = References \cup {r}
    BY <1>4, <2>0, <2>2, <2>3, RefsGained, ZenonT(40) DEF PersistEntry, uploadVars, taskVars
  <2>5. blob' = [blob EXCEPT ![b] = [state |-> "available", refs |-> blob[b].refs + 1]]
    BY <1>4 DEF PersistEntry, Retained
  <2> QED
    BY <2>0, <2>2, <2>4, <2>5, TakenOnce DEF Kept
<1> QED
  BY <1>1, <1>2, <1>3, <1>4

LEMMA ImportRefs ==
    ASSUME RefInv, NEW a \in Archive, ImportStep(a)
    PROVE  RefStep
<1>0. /\ import \in ImportRows /\ entry \in EntryRows
  BY TypeParts DEF RefInv, Typed
<1>1. ASSUME \/ ClaimImport(a) \/ ExpireImportLease(a) \/ CompleteBatch(a) \/ PrepareDelete(a)
             \/ InterruptDelete(a) \/ \E es \in SUBSET Members(a) : BeginBatch(a, es)
      PROVE  RefStep
  <2>1. \/ import' = import
        \/ \E row \in ImportRow : /\ import' = [import EXCEPT ![a] = row]
                                  /\ row.source = import[a].source
    <3>1. Typed'
      BY <1>1, ImportTyped DEF ImportStep
    <3>2. \A c \in Archive \ {a} : import'[c] = import[c]
      BY <1>0, <1>1 DEF ClaimImport, ExpireImportLease, CompleteBatch, PrepareDelete,
          InterruptDelete, BeginBatch, ImportRows
    <3>3. import'[a].source = import[a].source
      BY <1>0, <1>1 DEF ClaimImport, ExpireImportLease, CompleteBatch, PrepareDelete,
          InterruptDelete, BeginBatch, ImportRows, ImportRow
    <3>4. import' = [import EXCEPT ![a] = import'[a]]
      BY <1>0, <3>1, <3>2 DEF Typed, ImportRows
    <3> QED
      BY <3>1, <3>3, <3>4 DEF Typed, ImportRows
  <2>2. ImportsSame
    BY <1>0, <2>1 DEF ImportsSame, ImportRows
  <2> QED
    BY <1>1, <2>2, RefsKept DEF ClaimImport, ExpireImportLease, CompleteBatch, PrepareDelete,
        InterruptDelete, BeginBatch, UploadsSame, TasksSame, EntriesSame, RefStep, KeptRefs,
        unchangedButImports, blobVars, uploadVars, taskVars
<1>2. ASSUME RecoverExpired(a)
      PROVE  RefStep
  <2>1. CASE import[a].attempt < import[a].max
    <3>1. ImportsSame
      BY <1>0, <1>2, <2>1 DEF ImportsSame, ImportRows, ImportRow, RecoverExpired
    <3> QED
      BY <1>2, <2>1, <3>1, RefsKept DEF RecoverExpired, UploadsSame, TasksSame, EntriesSame,
          RefStep, KeptRefs, uploadVars, taskVars
  <2>2. CASE ~(import[a].attempt < import[a].max)
    <3>1. ~import'[a].source /\ \A c \in Archive \ {a} : import'[c] = import[c]
      BY <1>0, <1>2, <2>2 DEF ImportRows, ImportRow, RecoverExpired
    <3> QED
      BY <1>2, <2>2, <3>1, SourceRefs DEF RecoverExpired, uploadVars, taskVars
  <2> QED
    BY <2>1, <2>2
<1>3. ASSUME FinalizeDelete(a)
      PROVE  RefStep
  <2> DEFINE refs == ReleaseSource(a) \cup MemberReferences(a)
  <2>1. /\ \A e \in Entry : <<e, "entry">> \in refs <=> Parent[e] = a /\ entry[e].ref
        /\ \A c \in Archive : <<c, "source">> \in refs <=> c = a /\ import[a].source
        /\ \A x : /\ <<x, "sample">> \notin refs /\ <<x, "nested">> \notin refs
                  /\ <<x, "upload">> \notin refs
    BY MembersRefer DEF ReleaseSource
  <2>2. \A e \in Entry : entry'[e].ref <=> entry[e].ref /\ <<e, "entry">> \notin refs
    BY <1>3, <2>1 DEF FinalizeDelete, NoEntry
  <2>3. ~import'[a].source /\ \A c \in Archive \ {a} : import'[c] = import[c]
    BY <1>0, <1>3 DEF FinalizeDelete, ImportRows, ImportRow
  <2>4. \A c \in Archive :
           import'[c].source <=> import[c].source /\ <<c, "source">> \notin refs
    BY <2>1, <2>3
  <2>5. Gone(refs)
    BY <1>3 DEF FinalizeDelete, MemberReferences
  <2>6. refs \subseteq References
    BY Returned, MembersRefer
  <2> HIDE DEF refs
  <2>7. References' = References \ refs
    BY <1>3, <2>1, <2>2, <2>4, ArchiveRefs DEF FinalizeDelete, uploadVars, taskVars
  <2> QED
    BY <2>5, <2>6, <2>7 DEF Gone, RefStep, GaveBack
<1> QED
  BY <1>1, <1>2, <1>3, AttemptRefs DEF ImportStep

LEMMA EntryRefs ==
    ASSUME RefInv, NEW e \in Entry, EntryStep(e)
    PROVE  RefStep
<1>0. /\ import \in ImportRows /\ entry \in EntryRows /\ upload \in UploadRows
      /\ blob \in BlobRows /\ e \in Upload /\ Content[e] \in Blob
  BY Names, TypeParts DEF RefInv, Typed
<1>1. ASSUME blob' = blob, EntriesSame, UNCHANGED <<upload, task, import>>
      PROVE  RefStep
  BY <1>1, RefsKept DEF UploadsSame, TasksSame, ImportsSame, RefStep, KeptRefs
<1>2. ASSUME ReconcileEntryFact(e)
      PROVE  RefStep
  <2>1. CASE TaskFact(e)
    <3>1. ~entry'[e].ref /\ \A d \in Entry \ {e} : entry'[d] = entry[d]
      BY <1>0, <1>2, <2>1 DEF ReconcileEntryFact, EntryRows
    <3> QED
      BY <1>2, <2>1, <3>1, MemberRefs DEF ReconcileEntryFact, uploadVars, taskVars,
          unchangedButBatches
  <2>2. CASE ~TaskFact(e)
    <3>1. EntriesSame
      BY <1>0, <1>2, <2>2 DEF ReconcileEntryFact, EntriesSame, EntryRows, EntryRow
    <3> QED
      BY <1>1, <1>2, <2>2, <3>1 DEF ReconcileEntryFact, uploadVars, taskVars,
          unchangedButBatches
  <2> QED
    BY <2>1, <2>2
<1>3. ASSUME ClaimBatchItem(e) \/ ExpireItemLease(e)
      PROVE  RefStep
  <2>1. EntriesSame
    BY <1>0, <1>3 DEF ClaimBatchItem, ExpireItemLease, EntriesSame, EntryRows, EntryRow
  <2> QED
    BY <1>1, <1>3, <2>1 DEF ClaimBatchItem, ExpireItemLease, uploadVars, taskVars,
        unchangedButBatches
<1>4. ASSUME NEW n \in Attempts, SaveDerived(e, n) \/ LeaveItem(e, n) \/ RetryOrFailItem(e, n)
      PROVE  RefStep
  <2>1. EntriesSame
    BY <1>0, <1>4 DEF SaveDerived, LeaveItem, RetryOrFailItem, EntriesSame, EntryRows,
        EntryRow
  <2> QED
    BY <1>1, <1>4, <2>1 DEF SaveDerived, LeaveItem, RetryOrFailItem, uploadVars, taskVars,
        unchangedButBatches
<1>5. ASSUME DeleteDerived(e)
      PROVE  RefStep
  <2>1. ~upload'[e].ref /\ \A v \in Upload \ {e} : upload'[v] = upload[v]
    BY <1>0, <1>5 DEF DeleteDerived, Cancelled, UploadRows, UploadRow
  <2> QED
    BY <1>0, <1>5, <2>1, EndedRefs DEF DeleteDerived, Cancelled, Gone, taskVars, archiveVars
<1>6. ASSUME NEW n \in Attempts, CreateDerived(e, n)
      PROVE  RefStep
  <2>1. UNCHANGED <<task, import, entry>>
    BY <1>6 DEF CreateDerived, taskVars, unchangedButBatches
  <2>2. CASE upload[e].status # "absent"
    BY <1>1, <1>6, <2>1, <2>2 DEF CreateDerived, EntriesSame
  <2>3. CASE upload[e].status = "absent"
    <3> DEFINE r == <<e, "upload">>
    <3>1. /\ blob[Content[e]].state = "available" /\ blob' = Referenced(blob, Content[e])
          /\ upload' = [upload EXCEPT ![e] = NewUpload("completed", TRUE)]
      BY <1>6, <2>3 DEF CreateDerived, CanReference
    <3>2. ~upload[e].ref
      BY <1>0, <2>3 DEF RefInv, NewRowsRefer
    <3>3. r \notin References /\ BlobOf(r) = Content[e]
      BY <3>2, ReferenceSet DEF BlobOf
    <3>4. upload'[e].ref /\ \A v \in Upload \ {e} : upload'[v] = upload[v]
      BY <1>0, <3>1 DEF UploadRows, NewUpload
    <3>5. References' = References \cup {r}
      BY <1>0, <2>1, <3>3, <3>4, RefsGained
    <3> QED
      BY <1>0, <3>1, <3>3, <3>5, ReferencedOnce
  <2> QED
    BY <2>2, <2>3
<1>7. ASSUME NEW n \in Attempts, CreateEntryTask(e, n)
      PROVE  RefStep
  <2>1. UNCHANGED <<upload, import, entry>>
    BY <1>7 DEF CreateEntryTask, uploadVars, unchangedButBatches
  <2> QED
    BY <1>0, <1>1, <1>7, <2>1, CreatedRefs DEF CreateEntryTask, EntriesSame
<1>8. ASSUME NEW n \in Attempts, FinalizeItem(e, n)
      PROVE  RefStep
  <2>1. ~entry'[e].ref /\ \A d \in Entry \ {e} : entry'[d] = entry[d]
    BY <1>0, <1>8 DEF FinalizeItem, EntryRows
  <2> QED
    BY <1>8, <2>1, MemberRefs DEF FinalizeItem, FinalizeReference, uploadVars, taskVars
<1> QED
  BY <1>2, <1>3, <1>4, <1>5, <1>6, <1>7, <1>8 DEF EntryStep

\* Every step of the system.
LEMMA EveryStepRefs ==
    ASSUME RefInv, FencesHeld, [Next]_vars
    PROVE  RefStep
<1>1. CASE UNCHANGED vars
  BY <1>1, RefsKept DEF vars, blobVars, uploadVars, taskVars, archiveVars, UploadsSame,
      TasksSame, ImportsSame, EntriesSame, RefStep, KeptRefs
<1> QED
  BY <1>1, PlansAreValid, UploadRefs, NestedRefs, TaskRefs, CleanupRefs, RetentionRefs,
      BlobRefs, ImportRefs, EntryRefs DEF Next
-----------------------------------------------------------------------------
(***************************************************************************)
(* Who writes which table                                                  *)
(***************************************************************************)
LEMMA Writers ==
    /\ \A u \in Direct : UploadStep(u) =>
          /\ UNCHANGED <<importer, entry>>
          /\ task' = task \/ EnsureDirectTask(u)
          /\ import' = import \/ (u \in Archive /\ EnsureArchiveImport(u))
    /\ \A u \in DOMAIN NestedIn : NestedStep(u) =>
          /\ UNCHANGED <<upload, completing, import, importer, entry>>
          /\ task' = task \/ PublishTree(u) \/ PublishTreeWithout(u)
    /\ \A u \in Upload : TaskStep(u) =>
          UNCHANGED <<upload, completing, import, importer, entry>>
    /\ \A u \in Upload : CleanupStep(u) =>
          /\ UNCHANGED <<upload, completing, import, importer, entry>>
          /\ task' = task \/ \E n : CompleteCleanup(u, n) \/ CompleteSample(u, n)
    /\ \A u \in Upload : RetentionStep(u) => UNCHANGED <<task, import, importer, entry>>
    /\ \A b \in Blob : BlobStep(b) =>
          UNCHANGED <<upload, completing, task, import, importer, entry>>
    /\ \A a \in Archive : ImportStep(a) =>
          /\ UNCHANGED <<upload, completing, task>>
          /\ \/ entry' = entry \/ FinalizeDelete(a)
             \/ \E n \in Attempts : ResetEntries(a, n)
             \/ \E n \in Attempts, e \in Members(a) : PersistEntry(a, n, e)
    /\ \A e \in Entry : EntryStep(e) =>
          /\ UNCHANGED <<import, importer>>
          /\ task' = task \/ \E n \in Attempts : CreateEntryTask(e, n)
          /\ \/ UNCHANGED <<upload, completing>>
             \/ DeleteDerived(e) \/ \E n \in Attempts : CreateDerived(e, n)
<1>1. ASSUME NEW u \in Direct, UploadStep(u)
      PROVE  /\ UNCHANGED <<importer, entry>>
             /\ task' = task \/ EnsureDirectTask(u)
             /\ import' = import \/ (u \in Archive /\ EnsureArchiveImport(u))
  BY <1>1 DEF UploadStep, CreateUpload, PutPart, BeginCompletion, PrepareCompletion,
      PublishAssembly, FinalizeCompletion, LeaveCompletion, EnsureDirectTask,
      EnsureArchiveImport, taskVars, archiveVars
<1>2. ASSUME NEW u \in DOMAIN NestedIn, NestedStep(u)
      PROVE  /\ UNCHANGED <<upload, completing, import, importer, entry>>
             /\ task' = task \/ PublishTree(u) \/ PublishTreeWithout(u)
  BY <1>2 DEF NestedStep, StoreNested, AbandonTree, PublishTree, PublishTreeWithout,
      unchangedButTasks, uploadVars, archiveVars
<1>3. ASSUME NEW u \in Upload, TaskStep(u)
      PROVE  UNCHANGED <<upload, completing, import, importer, entry>>
  BY <1>3 DEF TaskStep, FinishScan, RetryScan, RequestJob, ClaimJob, ReturnJob, ExpireSample,
      RequestDelete, unchangedButTasks, uploadVars, archiveVars
<1>4. ASSUME NEW u \in Upload, CleanupStep(u)
      PROVE  /\ UNCHANGED <<upload, completing, import, importer, entry>>
             /\ task' = task \/ \E n : CompleteCleanup(u, n) \/ CompleteSample(u, n)
  BY <1>4 DEF CleanupStep, ClaimCleanup, ExpireCleanupLease, ClaimSample, ExpireSampleLease,
      LeaveCleanup, RenewCleanup, LeaveSample, CompleteCleanup, CompleteSample,
      unchangedButTasks, uploadVars, archiveVars
<1>5. ASSUME NEW u \in Upload, RetentionStep(u)
      PROVE  UNCHANGED <<task, import, importer, entry>>
  BY <1>5 DEF RetentionStep, CancelUpload, CleanupParts, ExpireClock, ExpireUpload,
      taskVars, archiveVars
<1>6. ASSUME NEW b \in Blob, BlobStep(b)
      PROVE  UNCHANGED <<upload, completing, task, import, importer, entry>>
  BY <1>6 DEF BlobStep, LockDeleting, RemoveDeleting, MarkDeleted, CrashMaintenance,
      ReconcileBlobReference, LockOrphan, RemoveOrphan, AgeFile, LockReleased,
      RemoveReleased, MarkReleased, unchangedButBlobs, uploadVars, taskVars, archiveVars
<1>7. ASSUME NEW a \in Archive, ImportStep(a)
      PROVE  /\ UNCHANGED <<upload, completing, task>>
             /\ \/ entry' = entry \/ FinalizeDelete(a)
                \/ \E n \in Attempts : ResetEntries(a, n)
                \/ \E n \in Attempts, e \in Members(a) : PersistEntry(a, n, e)
  BY <1>7, ZenonT(40) DEF ImportStep, ClaimImport, ExpireImportLease, RecoverExpired, ResetEntries,
      CompleteImport, EndImport, LeaveImport, RetryImport, FailImport, PublishEntry,
      PersistEntry, BeginBatch, CompleteBatch, PrepareDelete, FinalizeDelete,
      InterruptDelete, unchangedButImports, uploadVars, taskVars
<1>8. ASSUME NEW e \in Entry, EntryStep(e)
      PROVE  /\ UNCHANGED <<import, importer>>
             /\ task' = task \/ \E n \in Attempts : CreateEntryTask(e, n)
             /\ \/ UNCHANGED <<upload, completing>>
                \/ DeleteDerived(e) \/ \E n \in Attempts : CreateDerived(e, n)
  BY <1>8 DEF EntryStep, ReconcileEntryFact, ClaimBatchItem, ExpireItemLease, DeleteDerived,
      CreateDerived, SaveDerived, CreateEntryTask, FinalizeItem, RetryOrFailItem, LeaveItem,
      unchangedButBatches, uploadVars, taskVars, archiveVars
<1> QED
  BY <1>1, <1>2, <1>3, <1>4, <1>5, <1>6, <1>7, <1>8

\* Nothing else is written in a step.
LEMMA WhoWrites ==
    ASSUME [Next]_vars
    PROVE  /\ \/ task' = task
              \/ \E u \in Direct : EnsureDirectTask(u)
              \/ \E u \in DOMAIN NestedIn : PublishTree(u) \/ PublishTreeWithout(u)
              \/ \E u \in Upload : TaskStep(u)
              \/ \E u \in Upload : \E n : CompleteCleanup(u, n) \/ CompleteSample(u, n)
              \/ \E e \in Entry : \E n \in Attempts : CreateEntryTask(e, n)
           /\ \/ UNCHANGED <<upload, completing>>
              \/ \E u \in Direct : UploadStep(u)
              \/ \E u \in Upload : RetentionStep(u)
              \/ \E e \in Entry : DeleteDerived(e) \/ \E n \in Attempts : CreateDerived(e, n)
           /\ \/ UNCHANGED <<import, importer>>
              \/ importer' = importer /\ \E a \in Archive : EnsureArchiveImport(a)
              \/ \E a \in Archive : ImportStep(a)
           /\ \/ entry' = entry
              \/ \E a \in Archive : \/ FinalizeDelete(a)
                                    \/ \E n \in Attempts : ResetEntries(a, n)
                                    \/ \E n \in Attempts, e \in Members(a) :
                                          PersistEntry(a, n, e)
              \/ \E e \in Entry : EntryStep(e)
<1>1. CASE UNCHANGED vars
  BY <1>1 DEF vars, uploadVars, taskVars, archiveVars
<1>2. ASSUME NEW u \in Worked, TaskStep(u) \/ CleanupStep(u)
      PROVE  u \in Upload
  BY PlansAreValid
<1>3. CASE \E u \in Direct : UploadStep(u)
  BY <1>3, Writers
<1>4. CASE \E u \in DOMAIN NestedIn : NestedStep(u)
  BY <1>4, Writers
<1>5. CASE \E u \in Worked : TaskStep(u) \/ CleanupStep(u)
  BY <1>2, <1>5, Writers
<1>6. CASE \E u \in Upload : RetentionStep(u)
  BY <1>6, Writers
<1>7. CASE \E b \in Swept : BlobStep(b)
  BY <1>7, Writers, PlansAreValid
<1>8. CASE \E a \in Archive : ImportStep(a)
  BY <1>8, Writers
<1>9. CASE \E e \in Entry : EntryStep(e)
  BY <1>9, Writers
<1> QED
  BY <1>1, <1>3, <1>4, <1>5, <1>6, <1>7, <1>8, <1>9 DEF Next
-----------------------------------------------------------------------------
(***************************************************************************)
(* What a step does to a task                                              *)
(***************************************************************************)

\* It makes the first one, of an available content ...
TaskMade(v) ==
    /\ task[v].status = "absent" /\ task'[v].status = "ACTIVE" /\ task'[v].jobs = "none"
    /\ blob'[Content[v]].state = "available"

\* ... or leaves it one that is no younger, and no job without its sample.
TaskAged(v) ==
    /\ task'[v].status = "absent" <=> task[v].status = "absent"
    /\ task'[v].status = "absent" => /\ task'[v].sample = task[v].sample
                                     /\ task'[v].nested = task[v].nested
    /\ task[v].status = "DELETED" => task'[v].status = "DELETED"
    /\ task'[v].sample => task[v].sample
    /\ task'[v].jobs = "held" => \/ task'[v].sample
                                 \/ task[v].jobs = "held" /\ task'[v].sample = task[v].sample

LEMMA TaskMoves ==
    ASSUME TypeOK, [Next]_vars, NEW v \in Upload
    PROVE  TaskMade(v) \/ TaskAged(v)
<1>0. task \in TaskRows /\ blob \in BlobRows /\ \A u \in Upload : Content[u] \in Blob
  BY TypeParts, Names DEF Typed
<1>1. CASE task' = task
  BY <1>1 DEF TaskAged
<1>2. ASSUME NEW u \in Upload, TaskAllowed(u), CreatedTask(u)
      PROVE  TaskMade(v) \/ TaskAged(v)
  <2>1. /\ task[u].status = "absent" /\ blob[Content[u]].state = "available"
        /\ task' = [task EXCEPT ![u] = [NoTask EXCEPT !.status = "ACTIVE", !.sample = TRUE]]
        /\ blob' = Referenced(blob, Content[u])
    BY <1>2 DEF TaskAllowed, CanReference, CreatedTask
  <2>2. CASE v = u
    <3>1. blob'[Content[u]].state = "available"
      BY <1>0, <2>1 DEF BlobRows, Referenced
    <3> QED
      BY <1>0, <2>1, <2>2, <3>1 DEF TaskMade, TaskRows, NoTask
  <2>3. CASE v # u
    BY <1>0, <2>1, <2>3 DEF TaskAged, TaskRows
  <2> QED
    BY <2>2, <2>3
<1>3. ASSUME NEW u \in Upload, PublishTree(u) \/ PublishTreeWithout(u)
      PROVE  TaskAged(v)
  <2>1. /\ task[u].status = "ACTIVE"
        /\ \E nested \in BOOLEAN : task' = [task EXCEPT ![u].nested = nested]
    BY <1>3 DEF PublishTree, PublishTreeWithout
  <2> QED
    BY <1>0, <2>1 DEF TaskAged, TaskRows, TaskRow
<1>4. ASSUME NEW u \in Upload, TaskStep(u)
      PROVE  TaskAged(v)
  <2>1. CASE FinishScan(u)
    BY <1>0, <2>1 DEF TaskAged, TaskRows, TaskRow, FinishScan
  <2>2. CASE RetryScan(u)
    BY <1>0, <2>2 DEF TaskAged, TaskRows, TaskRow, RetryScan, SampleUsable
  <2>3. CASE RequestJob(u) \/ ClaimJob(u) \/ ReturnJob(u)
    <3>1. \E jobs \in TaskJobs :
             task' = SetTask(u, jobs) /\ (jobs = "held" => task[u].sample)
      BY <2>3 DEF RequestJob, ClaimJob, ReturnJob, SampleUsable, TaskJobs
    <3> QED
      BY <1>0, <3>1 DEF TaskAged, TaskRows, TaskRow, SetTask
  <2>4. CASE ExpireSample(u)
    BY <1>0, <2>4 DEF TaskAged, TaskRows, TaskRow, ExpireSample
  <2>5. CASE RequestDelete(u)
    BY <1>0, <2>5 DEF TaskAged, TaskRows, TaskRow, RequestDelete
  <2> QED
    BY <1>4, <2>1, <2>2, <2>3, <2>4, <2>5 DEF TaskStep
<1>5. ASSUME NEW u \in Upload, NEW n, CompleteCleanup(u, n) \/ CompleteSample(u, n)
      PROVE  TaskAged(v)
  <2>1. CASE CompleteCleanup(u, n)
    BY <1>0, <2>1 DEF TaskAged, TaskRows, TaskRow, CompleteCleanup
  <2>2. CASE CompleteSample(u, n)
    BY <1>0, <2>2 DEF TaskAged, TaskRows, TaskRow, CompleteSample, SampleExpired
  <2> QED
    BY <1>5, <2>1, <2>2
<1>6. ASSUME NEW u \in Direct, EnsureDirectTask(u)
      PROVE  TaskMade(v) \/ TaskAged(v)
  BY <1>2, <1>6, Names DEF EnsureDirectTask
<1>7. ASSUME NEW e \in Entry, NEW n \in Attempts, CreateEntryTask(e, n)
      PROVE  TaskMade(v) \/ TaskAged(v)
  BY <1>1, <1>2, <1>7, Names DEF CreateEntryTask
<1> QED
  BY <1>1, <1>3, <1>4, <1>5, <1>6, <1>7, WhoWrites, Names
-----------------------------------------------------------------------------
(***************************************************************************)
(* What a step does to an upload, an import and a member                   *)
(***************************************************************************)
NewUploads == {"absent", "wanted", "created", "uploading"}

\* An upload takes its reference as it leaves the new ones.
UploadAged(v) ==
    /\ upload'[v].status \in NewUploads =>
           upload[v].status \in NewUploads /\ upload'[v].ref = upload[v].ref
    /\ upload'[v].status = "assembling" =>
           \/ upload'[v].ref
           \/ upload[v].status = "assembling" /\ upload'[v].ref = upload[v].ref

\* What a completion has reached stays true of its upload; the file that it
\* publishes is there.
Completing(v) ==
    v \in Direct =>
        /\ completing'[v] \in {"prepared", "published"} =>
               \/ upload'[v].status = "assembling"
               \/ /\ upload'[v].status = upload[v].status
                  /\ completing[v] \in {"prepared", "published"}
        /\ completing'[v] = "published" =>
               completing[v] = "published" \/ file'[Content[v]] # "none"

LEMMA UploadMoves ==
    ASSUME TypeOK, CompletionsHold, [Next]_vars, NEW v \in Upload
    PROVE  UploadAged(v) /\ Completing(v)
<1>0. /\ upload \in UploadRows /\ completing \in StepRows /\ file \in FileRows
      /\ \A u \in Upload : Content[u] \in Blob /\ upload[u] \in UploadRow
  BY TypeParts, Names DEF Typed, UploadRows
<1>1. CASE UNCHANGED <<upload, completing>>
  BY <1>1 DEF UploadAged, Completing
<1>2. ASSUME NEW u \in Direct, UploadStep(u)
      PROVE  UploadAged(v) /\ Completing(v)
  <2>0. u \in Upload
    BY Names
  <2>1. CASE EnsureDirectTask(u) \/ EnsureArchiveImport(u)
    BY <1>1, <2>1 DEF EnsureDirectTask, EnsureArchiveImport, uploadVars
  <2>2. CASE LeaveCompletion(u) \/ PublishAssembly(u)
    <3>1. UploadAged(v)
      BY <2>2 DEF LeaveCompletion, PublishAssembly, UploadAged
    <3>2. Completing(v)
      <4>1. CASE LeaveCompletion(u)
        BY <1>0, <4>1 DEF LeaveCompletion, Goto, StepRows, Completing
      <4>2. CASE PublishAssembly(u)
        BY <1>0, <2>0, <4>2 DEF PublishAssembly, Goto, StepRows, FileRows, Completing
      <4> QED
        BY <2>2, <4>1, <4>2
    <3> QED
      BY <3>1, <3>2
  <2>3. CASE CreateUpload(u) \/ PutPart(u) \/ BeginCompletion(u)
    <3>1. UploadAged(v)
      BY <1>0, <2>0, <2>3 DEF CreateUpload, PutPart, BeginCompletion, SetStatus, UploadRows,
          UploadRow, UploadAged, NewUploads
    <3>2. CASE v = u
      <4>1. CASE CreateUpload(u) \/ PutPart(u)
        <5>1. completing' = completing /\ completing[u] \notin {"prepared", "published"}
          BY <4>1 DEF CreateUpload, PutPart, Idle, CompletionsHold
        <5> QED
          BY <3>1, <3>2, <5>1 DEF Completing
      <4>2. CASE BeginCompletion(u)
        <5>1. completing'[u] \in {"idle", "validated"}
          BY <1>0, <4>2 DEF BeginCompletion, Idle, Goto, StepRows
        <5> QED
          BY <3>1, <3>2, <5>1 DEF Completing
      <4> QED
        BY <2>3, <4>1, <4>2
    <3>3. CASE v # u
      <4>1. upload'[v] = upload[v]
        BY <1>0, <2>0, <2>3, <3>3 DEF CreateUpload, PutPart, BeginCompletion, SetStatus,
            UploadRows
      <4>2. v \in Direct => completing'[v] = completing[v]
        BY <1>0, <2>3, <3>3 DEF CreateUpload, PutPart, BeginCompletion, Goto, StepRows
      <4> QED
        BY <4>1, <4>2, <3>1 DEF Completing
    <3> QED
      BY <3>1, <3>2, <3>3
  <2>4. CASE PrepareCompletion(u)
    <3>1. /\ completing' = [completing EXCEPT ![u] = "prepared"]
          /\ \/ upload[u].status = "assembling" /\ upload' = upload
             \/ upload' = [upload EXCEPT ![u].status = "assembling", ![u].ref = TRUE]
      BY <2>4 DEF PrepareCompletion, Goto
    <3>2. /\ upload'[u].status = "assembling"
          /\ upload'[u].ref = TRUE \/ upload' = upload
          /\ \A w \in Upload \ {u} : upload'[w] = upload[w]
      BY <1>0, <2>0, <3>1 DEF UploadRows, UploadRow
    <3>3. UploadAged(v)
      BY <3>2 DEF UploadAged, NewUploads
    <3>4. Completing(v)
      BY <1>0, <3>1, <3>2 DEF Completing, StepRows
    <3> QED
      BY <3>3, <3>4
  <2>5. CASE FinalizeCompletion(u)
    <3>1. /\ completing' = [completing EXCEPT ![u] = "completed"]
          /\ upload' = [upload EXCEPT ![u].status = "completed"]
      BY <2>5 DEF FinalizeCompletion, Goto, SetStatus
    <3>2. /\ upload'[u].status = "completed"
          /\ \A w \in Upload \ {u} : upload'[w] = upload[w]
      BY <1>0, <2>0, <3>1 DEF UploadRows, UploadRow
    <3>3. UploadAged(v)
      BY <3>2 DEF UploadAged, NewUploads
    <3>4. Completing(v)
      BY <1>0, <3>1, <3>2 DEF Completing, StepRows
    <3> QED
      BY <3>3, <3>4
  <2> QED
    BY <1>2, <2>1, <2>2, <2>3, <2>4, <2>5 DEF UploadStep
<1>3. ASSUME NEW u \in Upload, UNCHANGED completing, Idle(u),
             upload'[u].status \in {"cancelled", "expired"},
             \A w \in Upload \ {u} : upload'[w] = upload[w]
      PROVE  UploadAged(v) /\ Completing(v)
  BY <1>3 DEF UploadAged, NewUploads, Completing, Idle
<1>4. ASSUME NEW u \in Upload, RetentionStep(u)
      PROVE  UploadAged(v) /\ Completing(v)
  <2>1. CASE CancelUpload(u) \/ ExpireUpload(u)
    BY <1>0, <1>3, <2>1 DEF CancelUpload, Cancelled, ExpireUpload, UploadExpired, UploadRows,
        UploadRow
  <2>2. CASE CleanupParts(u) \/ ExpireClock(u)
    <3>1. /\ upload'[v].status = upload[v].status /\ upload'[v].ref = upload[v].ref
          /\ completing' = completing
      BY <1>0, <2>2 DEF CleanupParts, ExpireClock, UploadRows, UploadRow
    <3> QED
      BY <3>1 DEF UploadAged, Completing
  <2> QED
    BY <1>4, <2>1, <2>2 DEF RetentionStep
<1>5. ASSUME NEW e \in Entry, DeleteDerived(e)
      PROVE  UploadAged(v) /\ Completing(v)
  <2>1. e \in Upload /\ Idle(e)
    BY Names DEF Idle
  <2> QED
    BY <1>0, <1>3, <1>5, <2>1 DEF DeleteDerived, Cancelled, UploadRows, UploadRow
<1>6. ASSUME NEW e \in Entry, NEW n \in Attempts, CreateDerived(e, n)
      PROVE  UploadAged(v) /\ Completing(v)
  <2>1. /\ e \in Upload /\ e \notin Direct /\ completing' = completing
        /\ upload' = upload \/ upload' = [upload EXCEPT ![e] = NewUpload("completed", TRUE)]
    BY <1>6, Names DEF CreateDerived
  <2>2. CASE v = e
    BY <1>0, <2>1, <2>2 DEF UploadRows, NewUpload, UploadAged, NewUploads, Completing
  <2>3. CASE v # e
    BY <1>0, <2>1, <2>3 DEF UploadRows, UploadAged, Completing
  <2> QED
    BY <2>2, <2>3
<1> QED
  BY <1>1, <1>2, <1>4, <1>5, <1>6, WhoWrites

\* An import that does not exist yet has no source of its own.
LEMMA ImportMoves ==
    ASSUME TypeOK, [Next]_vars, NEW a \in Archive
    PROVE  import'[a].status = "absent" =>
               import[a].status = "absent" /\ import'[a].source = import[a].source
<1>0. import \in ImportRows
  BY TypeParts DEF Typed
<1>1. ASSUME NEW c \in Archive, NEW status, status # "absent",
             import'[c].status = status, \A d \in Archive \ {c} : import'[d] = import[d]
      PROVE  import'[a].status = "absent" =>
                 import[a].status = "absent" /\ import'[a].source = import[a].source
  BY <1>1
<1>2. ASSUME NEW c \in Archive, EnsureArchiveImport(c)
      PROVE  import'[c].status = "queued" /\ \A d \in Archive \ {c} : import'[d] = import[d]
  BY <1>0, <1>2 DEF EnsureArchiveImport, ImportRows, ImportRow
<1>3. ASSUME NEW c \in Archive, ImportStep(c)
      PROVE  \/ import' = import
             \/ /\ \A d \in Archive \ {c} : import'[d] = import[d]
                /\ import'[c].status # "absent"
             \/ /\ \A d \in Archive \ {c} : import'[d] = import[d]
                /\ import'[c].status = import[c].status
                /\ import'[c].source = import[c].source
  <2>1. CASE ClaimImport(c) \/ RecoverExpired(c) \/ PrepareDelete(c) \/ FinalizeDelete(c)
    BY <1>0, <2>1 DEF ClaimImport, RecoverExpired, PrepareDelete, FinalizeDelete, ImportRows,
        ImportRow
  <2>2. ASSUME NEW n \in Attempts, CompleteImport(c, n) \/ FailImport(c, n)
        PROVE  /\ \A d \in Archive \ {c} : import'[d] = import[d]
               /\ import'[c].status # "absent"
    BY <1>0, <2>2 DEF CompleteImport, FailImport, EndImport, ImportRows, ImportRow
  <2>3. ASSUME NEW n \in Attempts, RetryImport(c, n)
        PROVE  /\ \A d \in Archive \ {c} : import'[d] = import[d]
               /\ import'[c].status # "absent"
    BY <1>0, <2>3 DEF RetryImport, ImportRows, ImportRow
  <2>4. CASE ExpireImportLease(c) \/ CompleteBatch(c)
    BY <1>0, <2>4 DEF ExpireImportLease, CompleteBatch, ImportRows, ImportRow
  <2>5. ASSUME NEW es \in SUBSET Members(c), BeginBatch(c, es)
        PROVE  /\ \A d \in Archive \ {c} : import'[d] = import[d]
               /\ import'[c].status = import[c].status
               /\ import'[c].source = import[c].source
    BY <1>0, <2>5 DEF BeginBatch, ImportRows, ImportRow
  <2>6. ASSUME \/ InterruptDelete(c)
               \/ \E n \in Attempts :
                     \/ ResetEntries(c, n) \/ LeaveImport(c, n)
                     \/ \E e \in Members(c) : PublishEntry(c, n, e) \/ PersistEntry(c, n, e)
        PROVE  import' = import
    BY <2>6 DEF InterruptDelete, ResetEntries, LeaveImport, PublishEntry, PersistEntry
  <2> QED
    BY <1>3, <2>1, <2>2, <2>3, <2>4, <2>5, <2>6 DEF ImportStep
<1> QED
  BY <1>1, <1>2, <1>3, WhoWrites

\* A member that is stored stays so, and refers to its content until it has a
\* task.
Stored(e) == entry[e].status # "absent" /\ (Unsettled(e) => entry[e].ref)

EntryAged(e) ==
    /\ entry'[e].status = "absent" =>
           ~entry'[e].ref \/ (entry[e].status = "absent" /\ entry'[e].ref = entry[e].ref)
    /\ Stored(e) => Stored(e)'

LEMMA EntryMoves ==
    ASSUME TypeOK, [Next]_vars, NEW d \in Entry
    PROVE  \/ EntryAged(d)
           \/ /\ ~entry'[d].ref
              /\ \/ FinalizeDelete(Parent[d])
                 \/ \E n \in Attempts : ResetEntries(Parent[d], n)
<1>0. entry \in EntryRows /\ \A e \in Entry : entry[e] \in EntryRow
  BY TypeParts DEF Typed, EntryRows
<1>1. CASE entry'[d] = entry[d]
  BY <1>1 DEF EntryAged, Stored, Unsettled
<1>2. ASSUME NEW a \in Archive,
             FinalizeDelete(a) \/ \E n \in Attempts : ResetEntries(a, n)
      PROVE  \/ EntryAged(d)
             \/ /\ ~entry'[d].ref
                /\ \/ FinalizeDelete(Parent[d])
                   \/ \E n \in Attempts : ResetEntries(Parent[d], n)
  <2>1. entry' = [e \in Entry |-> IF Parent[e] = a THEN NoEntry ELSE entry[e]]
    BY <1>2 DEF FinalizeDelete, ResetEntries
  <2>2. CASE Parent[d] = a
    BY <1>2, <2>1, <2>2 DEF NoEntry
  <2>3. CASE Parent[d] # a
    BY <1>1, <2>1, <2>3
  <2> QED
    BY <2>2, <2>3
<1>3. ASSUME NEW e \in Entry, \A c \in Entry \ {e} : entry'[c] = entry[c],
             entry'[e].status # "absent",
             \/ entry'[e].status = "created"
             \/ entry'[e].ref
             \/ Stored(e) => entry'[e].ref
      PROVE  EntryAged(d)
  BY <1>1, <1>3 DEF EntryAged, Stored, Unsettled
<1>4. ASSUME NEW a \in Archive, NEW n \in Attempts, NEW e \in Members(a),
             PersistEntry(a, n, e)
      PROVE  EntryAged(d)
  <2>1. e \in Entry
    BY DEF Members
  <2>2. /\ \A c \in Entry \ {e} : entry'[c] = entry[c]
        /\ entry'[e].status = "eligible" /\ entry'[e].ref = TRUE
    BY <1>0, <1>4, <2>1 DEF PersistEntry, EntryRows, EntryRow
  <2> QED
    BY <1>3, <2>1, <2>2
<1>5. ASSUME NEW e \in Entry, EntryStep(e)
      PROVE  EntryAged(d)
  <2>0. ASSUME entry' = entry
        PROVE  EntryAged(d)
    BY <2>0 DEF EntryAged, Stored, Unsettled
  <2>1. ASSUME \E derived \in BOOLEAN : entry' = [entry EXCEPT ![e].derived = derived]
        PROVE  EntryAged(d)
    <3>1. /\ \A c \in Entry \ {e} : entry'[c] = entry[c]
          /\ entry'[e].status = entry[e].status /\ entry'[e].ref = entry[e].ref
      BY <1>0, <2>1 DEF EntryRows, EntryRow
    <3> QED
      BY <3>1 DEF EntryAged, Stored, Unsettled
  <2>2. ASSUME entry' = [entry EXCEPT ![e] =
                  [status |-> "created", ref |-> FALSE, derived |-> TRUE]]
        PROVE  EntryAged(d)
    <3>1. /\ \A c \in Entry \ {e} : entry'[c] = entry[c]
          /\ entry'[e].status = "created"
      BY <1>0, <2>2 DEF EntryRows
    <3> QED
      BY <1>3, <3>1
  <2>3. ASSUME entry' = [entry EXCEPT ![e].status = IF @ = "created" THEN @ ELSE "failed"]
        PROVE  EntryAged(d)
    <3>1. /\ \A c \in Entry \ {e} : entry'[c] = entry[c]
          /\ entry'[e].status \in {"created", "failed"}
          /\ entry'[e].status = "failed" => entry[e].status # "created"
          /\ entry'[e].ref = entry[e].ref
      BY <1>0, <2>3 DEF EntryRows, EntryRow
    <3>2. Stored(e) => entry'[e].status = "created" \/ entry'[e].ref
      BY <1>0, <3>1 DEF Stored, Unsettled, EntryRow
    <3> QED
      BY <1>3, <3>1, <3>2
  <2>4. CASE ReconcileEntryFact(e)
    BY <2>1, <2>2, <2>4 DEF ReconcileEntryFact
  <2>5. CASE ClaimBatchItem(e)
    <3>1. \/ entry' = entry
          \/ entry' = [entry EXCEPT ![e].status = IF @ = "created" THEN @ ELSE "failed"]
      BY <2>5 DEF ClaimBatchItem
    <3> QED
      BY <2>0, <2>3, <3>1
  <2>6. CASE ExpireItemLease(e) \/ DeleteDerived(e)
    <3>1. entry' = entry
      BY <2>6 DEF ExpireItemLease, DeleteDerived, archiveVars
    <3> QED
      BY <2>0, <3>1
  <2>7. ASSUME NEW n \in Attempts,
               CreateDerived(e, n) \/ CreateEntryTask(e, n) \/ LeaveItem(e, n)
        PROVE  EntryAged(d)
    <3>1. entry' = entry
      BY <2>7 DEF CreateDerived, CreateEntryTask, LeaveItem
    <3> QED
      BY <2>0, <3>1
  <2>8. ASSUME NEW n \in Attempts,
               SaveDerived(e, n) \/ FinalizeItem(e, n) \/ RetryOrFailItem(e, n)
        PROVE  EntryAged(d)
    BY <2>1, <2>2, <2>3, <2>8 DEF SaveDerived, FinalizeItem, RetryOrFailItem
  <2> QED
    BY <1>5, <2>4, <2>5, <2>6, <2>7, <2>8 DEF EntryStep
<1> QED
  BY <1>1, <1>2, <1>4, <1>5, WhoWrites

\* Rows that have not got that far never refer to anything.
LEMMA NewRowsKept ==
    ASSUME RefInv, CompletionsHold, [Next]_vars
    PROVE  NewRowsRefer'
<1>1. TypeOK /\ NewRowsRefer
  BY DEF RefInv
<1>2. ASSUME NEW u \in Upload
      PROVE  /\ upload'[u].status \in NewUploads => ~upload'[u].ref
             /\ upload'[u].status = "assembling" => upload'[u].ref
             /\ task'[u].status = "absent" => ~task'[u].sample /\ ~task'[u].nested
  BY <1>1, UploadMoves, TaskMoves DEF UploadAged, TaskMade, TaskAged, NewRowsRefer, NewUploads
<1>3. ASSUME NEW a \in Archive
      PROVE  import'[a].status = "absent" => ~import'[a].source
  BY <1>1, ImportMoves DEF NewRowsRefer
<1>4. ASSUME NEW e \in Entry
      PROVE  entry'[e].status = "absent" => ~entry'[e].ref
  BY <1>1, EntryMoves DEF EntryAged, NewRowsRefer
<1> QED
  BY <1>2, <1>3, <1>4 DEF NewRowsRefer, NewUploads
-----------------------------------------------------------------------------
(***************************************************************************)
(* What a step does to a row, its file and its fence                       *)
(***************************************************************************)
Removing == {"retention", "retention removed", "erase", "erase removed", "orphan"}

\* Nobody touches the row while its file is being removed; it becomes
\* available, if it was not, when the file is there.
Touched(b) ==
    /\ fence[b] \notin Removing
    /\ blob'[b].state = "available" =>
           blob[b].state = "available" \/ b \in Nested \/ file[b] # "none"
    /\ blob[b].state = "available" => blob'[b].state \in {"available", "deleting"}

\* The file is gone, and so is the row.
Buried(b) ==
    /\ fence[b] \in {"retention removed", "erase removed"} /\ fence'[b] = "free"
    /\ blob[b].state = "deleting" /\ blob'[b].state = "deleted"

BlobMoves(b) == blob'[b] = blob[b] \/ Touched(b) \/ Buried(b)

FileMoves(b) ==
    file'[b] = "none" => file[b] = "none" \/ fence[b] \in {"retention", "erase", "orphan"}

\* A fence is taken, or goes on, to remove a file as the row allows.
FenceMoves(b) ==
    fence'[b] \in Removing =>
        \/ fence'[b] = fence[b]
        \/ /\ blob'[b] = blob[b]
           /\ \/ fence'[b] \in {"retention", "erase"}
                   /\ blob[b] = [state |-> "deleting", refs |-> 0]
              \/ fence'[b] = "orphan" /\ blob[b].state \in {"absent", "deleted"}
              \/ fence'[b] = "retention removed" /\ fence[b] = "retention"
              \/ fence'[b] = "erase removed" /\ fence[b] = "erase"

DiskMoves == \A b \in Blob : BlobMoves(b) /\ FileMoves(b) /\ FenceMoves(b)

DiskInv == TypeOK /\ FencesHeld /\ ImportersFence /\ CompletionsHold

\* A row that nobody deletes is not being removed.
LEMMA RestIsUnfenced ==
    ASSUME FencesHeld, NEW b \in Blob, ~RowLocked(b), blob[b].state # "deleting"
    PROVE  fence[b] \notin Removing
<1>1. fence[b] \notin {"erase", "erase removed"}
  <2>1. SUFFICES ASSUME fence[b] \in {"erase", "erase removed"}
                 PROVE  FALSE
    OBVIOUS
  <2>2. blob[b] = [state |-> "deleting", refs |-> 0]
    BY <2>1 DEF FencesHeld
  <2> QED
    BY <2>2
<1> QED
  BY <1>1 DEF RowLocked, Removing

LEMMA OfferedIsUnfenced ==
    ASSUME FencesHeld, NEW b \in Blob, blob[b].state \in Kept
    PROVE  fence[b] \notin Removing
<1>1. SUFFICES ASSUME fence[b] \in Removing
               PROVE  FALSE
  OBVIOUS
<1>2. CASE fence[b] = "orphan"
  BY <1>2 DEF FencesHeld, Kept
<1>3. CASE fence[b] # "orphan"
  <2>1. blob[b] = [state |-> "deleting", refs |-> 0]
    BY <1>1, <1>3 DEF FencesHeld, Removing
  <2>2. blob[b].state = "deleting"
    BY <2>1
  <2> QED
    BY <2>2 DEF Kept
<1> QED
  BY <1>2, <1>3

\* Rows change, files and fences do not.
LEMMA RowsMove ==
    ASSUME UNCHANGED <<file, fence>>, \A b \in Blob : BlobMoves(b)
    PROVE  DiskMoves
BY DEF DiskMoves, FileMoves, FenceMoves

LEMMA DiskRests ==
    ASSUME UNCHANGED <<blob, file, fence>>
    PROVE  DiskMoves
BY RowsMove DEF BlobMoves

\* References given back.
LEMMA GoneMoves ==
    ASSUME TypeOK, FencesHeld, UNCHANGED <<file, fence>>, NEW refs, CanReleaseAll(refs),
           blob' = ReleasedAll(refs)
    PROVE  DiskMoves
<1>0. blob \in BlobRows
  BY TypeParts DEF Typed
<1>1. ASSUME NEW b \in Blob
      PROVE  BlobMoves(b)
  <2>1. blob'[b] = [state |-> IF Held(refs, b) > 0 /\ Held(refs, b) = blob[b].refs
                              THEN "deleting" ELSE blob[b].state,
                    refs |-> blob[b].refs - Held(refs, b)]
    BY <1>1 DEF ReleasedAll
  <2>2. CASE \E r \in refs : BlobOf(r) = b
    <3>1. CanRelease(b)
      BY <2>2 DEF CanReleaseAll
    <3>2. fence[b] \notin Removing
      BY <1>1, <3>1, RestIsUnfenced DEF CanRelease
    <3> QED
      BY <2>1, <3>1, <3>2 DEF BlobMoves, Touched
  <2>3. CASE \A r \in refs : BlobOf(r) # b
    <3>1. {r \in refs : BlobOf(r) = b} = {}
      BY <2>3
    <3>2. Held(refs, b) = 0
      BY <3>1, FS_EmptySet DEF Held
    <3>3. blob[b] = [state |-> blob[b].state, refs |-> blob[b].refs] /\ blob[b].refs \in Nat
      BY <1>0, <1>1 DEF BlobRows
    <3> QED
      BY <2>1, <3>2, <3>3 DEF BlobMoves
  <2> QED
    BY <2>2, <2>3
<1> QED
  BY <1>1, RowsMove

\* A reference taken to a content that is available.
LEMMA ReferencedMoves ==
    ASSUME TypeOK, FencesHeld, UNCHANGED <<file, fence>>, NEW c \in Blob, CanReference(c),
           blob' = Referenced(blob, c)
    PROVE  DiskMoves
<1>0. blob \in BlobRows
  BY TypeParts DEF Typed
<1>1. fence[c] \notin Removing /\ blob[c].state = "available"
  BY RestIsUnfenced DEF CanReference
<1>2. blob'[c].state = "available" /\ \A b \in Blob \ {c} : blob'[b] = blob[b]
  BY <1>0, <1>1 DEF Referenced, BlobRows
<1>3. ASSUME NEW b \in Blob
      PROVE  BlobMoves(b)
  BY <1>1, <1>2, <1>3 DEF BlobMoves, Touched
<1> QED
  BY <1>3, RowsMove

\* One row changes.
LEMMA RowMoves ==
    ASSUME UNCHANGED <<file, fence>>, NEW c \in Blob, Touched(c),
           \A b \in Blob \ {c} : blob'[b] = blob[b]
    PROVE  DiskMoves
BY RowsMove DEF BlobMoves

LEMMA UploadDisk ==
    ASSUME DiskInv, NEW u \in Direct, UploadStep(u)
    PROVE  DiskMoves
<1>0. /\ blob \in BlobRows /\ file \in FileRows /\ Content[u] \in Blob
      /\ TypeOK /\ FencesHeld
  BY TypeParts, Names DEF DiskInv, Typed
<1>1. CASE CreateUpload(u) \/ PutPart(u) \/ BeginCompletion(u) \/ LeaveCompletion(u)
  BY <1>1, DiskRests DEF CreateUpload, PutPart, BeginCompletion, LeaveCompletion, blobVars
<1>2. CASE PrepareCompletion(u)
  <2>1. UNCHANGED <<file, fence>> /\ ~RowLocked(Content[u])
    BY <1>2 DEF PrepareCompletion, Reusable
  <2>2. CASE UNCHANGED blob
    BY <2>1, <2>2, DiskRests
  <2>3. ASSUME Reusable(Content[u]),
               blob' = [blob EXCEPT ![Content[u]] =
                   [state |-> IF @.state = "available" THEN "available" ELSE "staging",
                    refs |-> @.refs + 1]]
        PROVE  DiskMoves
    <3>1. /\ blob'[Content[u]].state =
                IF blob[Content[u]].state = "available" THEN "available" ELSE "staging"
          /\ \A b \in Blob \ {Content[u]} : blob'[b] = blob[b]
      BY <1>0, <2>3 DEF BlobRows
    <3>2. fence[Content[u]] \notin Removing
      BY <1>0, <2>1, <2>3, RestIsUnfenced DEF Reusable
    <3>3. Touched(Content[u])
      BY <3>1, <3>2 DEF Touched
    <3> QED
      BY <1>0, <2>1, <3>1, <3>3, RowMoves
  <2> QED
    BY <1>2, <2>2, <2>3 DEF PrepareCompletion
<1>3. CASE PublishAssembly(u)
  <2>1. /\ UNCHANGED <<blob, fence>>
        /\ file' = [file EXCEPT ![Content[u]] = IF @ = "none" THEN "fresh" ELSE @]
    BY <1>3 DEF PublishAssembly
  <2> QED
    BY <1>0, <2>1 DEF DiskMoves, BlobMoves, FileMoves, FenceMoves, FileRows
<1>4. CASE FinalizeCompletion(u)
  <2>1. /\ UNCHANGED <<file, fence>> /\ ~RowLocked(Content[u])
        /\ blob[Content[u]].state \in Kept /\ completing[u] = "published"
        /\ blob' = [blob EXCEPT ![Content[u]].state = "available"]
    BY <1>4 DEF FinalizeCompletion, Kept
  <2>2. /\ blob'[Content[u]].state = "available"
        /\ \A b \in Blob \ {Content[u]} : blob'[b] = blob[b]
    BY <1>0, <2>1 DEF BlobRows
  <2>3. fence[Content[u]] \notin Removing /\ file[Content[u]] # "none"
    BY <1>0, <2>1, RestIsUnfenced DEF Kept, DiskInv, CompletionsHold
  <2>4. Touched(Content[u])
    BY <2>2, <2>3 DEF Touched
  <2> QED
    BY <1>0, <2>1, <2>2, <2>4, RowMoves
<1>5. CASE EnsureDirectTask(u)
  BY <1>0, <1>5, ReferencedMoves DEF EnsureDirectTask, TaskAllowed, CreatedTask
<1>6. CASE EnsureArchiveImport(u)
  BY <1>0, <1>6, ReferencedMoves DEF EnsureArchiveImport
<1> QED
  BY <1>1, <1>2, <1>3, <1>4, <1>5, <1>6 DEF UploadStep

LEMMA NestedDisk ==
    ASSUME DiskInv, NEW u \in DOMAIN NestedIn, NestedStep(u)
    PROVE  DiskMoves
<1>0. /\ blob \in BlobRows /\ file \in FileRows /\ NestedIn[u] \in Blob
      /\ TypeOK /\ FencesHeld
  BY TypeParts, Names DEF DiskInv, Typed
<1>1. CASE AbandonTree(u)
  BY <1>1, DiskRests DEF AbandonTree, unchangedButTasks, blobVars
<1>2. CASE StoreNested(u)
  <2>1. /\ UNCHANGED <<blob, fence>>
        /\ file' = [file EXCEPT ![NestedIn[u]] = IF @ = "none" THEN "fresh" ELSE @]
    BY <1>2 DEF StoreNested
  <2> QED
    BY <1>0, <2>1 DEF DiskMoves, BlobMoves, FileMoves, FenceMoves, FileRows
<1>3. CASE PublishTreeWithout(u)
  BY <1>0, <1>3, GoneMoves DEF PublishTreeWithout
<1>4. CASE PublishTree(u)
  <2>1. UNCHANGED <<file, fence>> /\ ~RowLocked(NestedIn[u]) /\ TreeReference(u)
    BY <1>4 DEF PublishTree
  <2>2. CASE UNCHANGED blob
    BY <2>1, <2>2, DiskRests
  <2>3. CASE blob[NestedIn[u]].state = "available" /\ blob' = Referenced(blob, NestedIn[u])
    BY <1>0, <2>1, <2>3, ReferencedMoves DEF CanReference
  <2>4. ASSUME blob[NestedIn[u]].state = "absent",
               blob' = [blob EXCEPT ![NestedIn[u]] = [state |-> "available", refs |-> 1]]
        PROVE  DiskMoves
    <3>1. \A b \in Blob \ {NestedIn[u]} : blob'[b] = blob[b]
      BY <1>0, <2>4 DEF BlobRows
    <3>2. fence[NestedIn[u]] \notin Removing
      BY <1>0, <2>1, <2>4, RestIsUnfenced
    <3>3. Touched(NestedIn[u])
      BY <2>4, <3>2 DEF Touched, Nested
    <3> QED
      BY <1>0, <2>1, <3>1, <3>3, RowMoves
  <2> QED
    BY <2>1, <2>2, <2>3, <2>4 DEF TreeReference
<1> QED
  BY <1>1, <1>2, <1>3, <1>4 DEF NestedStep

LEMMA TaskDisk ==
    ASSUME DiskInv, NEW u \in Upload, TaskStep(u) \/ CleanupStep(u) \/ RetentionStep(u)
    PROVE  DiskMoves
<1>0. TypeOK /\ FencesHeld
  BY DEF DiskInv
<1>1. CASE TaskStep(u)
  BY <1>1, DiskRests DEF TaskStep, FinishScan, RetryScan, RequestJob, ClaimJob, ReturnJob,
      ExpireSample, RequestDelete, unchangedButTasks, blobVars
<1>2. ASSUME NEW n, CompleteCleanup(u, n) \/ CompleteSample(u, n)
      PROVE  DiskMoves
  BY <1>0, <1>2, GoneMoves DEF CompleteCleanup, CompleteSample
<1>3. CASE CleanupStep(u)
  <2>1. \/ UNCHANGED <<blob, file, fence>>
        \/ \E n : CompleteCleanup(u, n) \/ CompleteSample(u, n)
    BY <1>3 DEF CleanupStep, ClaimCleanup, ExpireCleanupLease, ClaimSample,
        ExpireSampleLease, LeaveCleanup, RenewCleanup, LeaveSample, unchangedButTasks, blobVars
  <2> QED
    BY <1>2, <2>1, DiskRests
<1>4. CASE CancelUpload(u) \/ ExpireUpload(u)
  BY <1>0, <1>4, GoneMoves DEF CancelUpload, Cancelled, ExpireUpload
<1>5. CASE CleanupParts(u) \/ ExpireClock(u)
  BY <1>5, DiskRests DEF CleanupParts, ExpireClock, blobVars
<1> QED
  BY <1>1, <1>3, <1>4, <1>5 DEF RetentionStep

LEMMA BlobDisk ==
    ASSUME RefInv, DiskInv, NEW b \in Blob, BlobStep(b)
    PROVE  DiskMoves
<1>0. /\ blob \in BlobRows /\ file \in FileRows /\ fence \in FenceRows /\ FencesHeld
  BY TypeParts DEF DiskInv, Typed
<1>1. ASSUME \A c \in Blob \ {b} : /\ blob'[c] = blob[c] /\ file'[c] = file[c]
                                   /\ fence'[c] = fence[c],
             BlobMoves(b), FileMoves(b), FenceMoves(b)
      PROVE  DiskMoves
  <2>1. ASSUME NEW c \in Blob \ {b}
        PROVE  BlobMoves(c) /\ FileMoves(c) /\ FenceMoves(c)
    BY <1>1, <2>1 DEF BlobMoves, FileMoves, FenceMoves
  <2> QED
    BY <1>1, <2>1 DEF DiskMoves
<1>2. ASSUME NEW f, UNCHANGED <<blob, file>>, fence' = [fence EXCEPT ![b] = f],
             FenceMoves(b)
      PROVE  DiskMoves
  BY <1>0, <1>1, <1>2 DEF FenceRows, BlobMoves, FileMoves
<1>3. CASE LockDeleting(b)
  <2>1. /\ UNCHANGED <<blob, file>> /\ fence' = [fence EXCEPT ![b] = "retention"]
        /\ blob[b] = [state |-> "deleting", refs |-> 0]
    BY <1>3 DEF LockDeleting
  <2>2. FenceMoves(b)
    BY <1>0, <2>1 DEF FenceMoves, FenceRows
  <2> QED
    BY <1>2, <2>1, <2>2
<1>4. CASE CrashMaintenance(b)
  <2>1. UNCHANGED <<blob, file>> /\ fence' = [fence EXCEPT ![b] = "free"]
    BY <1>4 DEF CrashMaintenance
  <2>2. FenceMoves(b)
    BY <1>0, <2>1 DEF FenceMoves, FenceRows, Removing
  <2> QED
    BY <1>2, <2>1, <2>2
<1>5. CASE LockOrphan(b)
  <2>1. /\ UNCHANGED <<blob, file>> /\ fence' = [fence EXCEPT ![b] = "orphan"]
        /\ blob[b].state \in {"absent", "deleted"}
    BY <1>5 DEF LockOrphan, Orphaned
  <2>2. FenceMoves(b)
    BY <1>0, <2>1 DEF FenceMoves, FenceRows
  <2> QED
    BY <1>2, <2>1, <2>2
<1>6. CASE LockReleased(b)
  <2>1. /\ UNCHANGED <<blob, file>>
        /\ \/ fence' = fence
           \/ /\ fence' = [fence EXCEPT ![b] = "erase"]
              /\ blob[b] = [state |-> "deleting", refs |-> 0]
    BY <1>6 DEF LockReleased
  <2>2. CASE fence' = fence
    BY <2>1, <2>2, DiskRests
  <2>3. CASE /\ fence' = [fence EXCEPT ![b] = "erase"]
             /\ blob[b] = [state |-> "deleting", refs |-> 0]
    <3>1. FenceMoves(b)
      BY <1>0, <2>1, <2>3 DEF FenceMoves, FenceRows
    <3> QED
      BY <1>2, <2>1, <2>3, <3>1
  <2> QED
    BY <2>1, <2>2, <2>3
<1>7. CASE RemoveDeleting(b) \/ RemoveReleased(b) \/ RemoveOrphan(b)
  <2>1. /\ UNCHANGED blob /\ file' = [file EXCEPT ![b] = "none"]
        /\ fence[b] \in {"retention", "erase", "orphan"}
        /\ \E f : /\ fence' = [fence EXCEPT ![b] = f]
                  /\ \/ fence[b] = "retention" /\ f = "retention removed"
                     \/ fence[b] = "erase" /\ f = "erase removed"
                     \/ f = "free"
    BY <1>7 DEF RemoveDeleting, RemoveReleased, RemoveOrphan
  <2>2. BlobMoves(b) /\ FileMoves(b)
    BY <2>1 DEF BlobMoves, FileMoves
  <2>3. FenceMoves(b)
    BY <1>0, <2>1 DEF FenceMoves, FenceRows, Removing
  <2>4. \A c \in Blob \ {b} : /\ blob'[c] = blob[c] /\ file'[c] = file[c]
                              /\ fence'[c] = fence[c]
    BY <1>0, <2>1 DEF FileRows, FenceRows
  <2> QED
    BY <1>1, <2>2, <2>3, <2>4
<1>8. CASE MarkDeleted(b) \/ MarkReleased(b)
  <2>0. /\ UNCHANGED file /\ fence' = [fence EXCEPT ![b] = "free"]
        /\ fence[b] \in {"retention removed", "erase removed"}
        /\ \/ blob' = [blob EXCEPT ![b].state = "deleted"]
           \/ blob[b] # [state |-> "deleting", refs |-> 0]
    BY <1>8 DEF MarkDeleted, MarkReleased
  <2>1. /\ blob[b] = [state |-> "deleting", refs |-> 0]
        /\ blob' = [blob EXCEPT ![b].state = "deleted"]
    BY <1>0, <2>0 DEF FencesHeld
  <2>2. Buried(b)
    <3>1. blob[b].state = "deleting"
      BY <2>1
    <3> QED
      BY <1>0, <2>0, <2>1, <3>1 DEF Buried, BlobRows, FenceRows
  <2>3. FileMoves(b) /\ FenceMoves(b)
    BY <1>0, <2>0 DEF FileMoves, FenceMoves, FenceRows, Removing
  <2>4. \A c \in Blob \ {b} : /\ blob'[c] = blob[c] /\ file'[c] = file[c]
                              /\ fence'[c] = fence[c]
    BY <1>0, <2>0, <2>1 DEF BlobRows, FenceRows
  <2> QED
    BY <1>1, <2>2, <2>3, <2>4 DEF BlobMoves
<1>9. CASE ReconcileBlobReference(b)
  <2>1. UNCHANGED <<blob, file, fence>>
    BY <1>9, ReconcileKeeps DEF ReconcileBlobReference
  <2> QED
    BY <2>1, DiskRests
<1>10. CASE AgeFile(b)
  <2>1. /\ UNCHANGED <<blob, fence>> /\ file' = [file EXCEPT ![b] = "old"]
    BY <1>10 DEF AgeFile
  <2> QED
    BY <1>0, <2>1 DEF DiskMoves, BlobMoves, FileMoves, FenceMoves, FileRows
<1> QED
  BY <1>3, <1>4, <1>5, <1>6, <1>7, <1>8, <1>9, <1>10 DEF BlobStep

\* An importer that leaves gives its fence back.
LEMMA UnfencedMoves ==
    ASSUME UNCHANGED <<blob, file>>, NEW a, NEW n, fence' = Unfenced(a, n)
    PROVE  DiskMoves
<1>1. ASSUME NEW b \in Blob
      PROVE  fence'[b] \in {"free", fence[b]}
  BY <1>1 DEF Unfenced
<1> QED
  BY <1>1 DEF DiskMoves, BlobMoves, FileMoves, FenceMoves, Removing

LEMMA ImportDisk ==
    ASSUME DiskInv, NEW a \in Archive, ImportStep(a)
    PROVE  DiskMoves
<1>0. /\ blob \in BlobRows /\ file \in FileRows /\ fence \in FenceRows
      /\ importer \in ImporterRows /\ TypeOK /\ FencesHeld
  BY TypeParts DEF DiskInv, Typed
<1>1. ASSUME NEW e \in Members(a)
      PROVE  Content[e] \in Blob
  BY Names DEF Members
<1>2. CASE \/ ClaimImport(a) \/ ExpireImportLease(a) \/ CompleteBatch(a) \/ PrepareDelete(a)
           \/ InterruptDelete(a) \/ \E es \in SUBSET Members(a) : BeginBatch(a, es)
  BY <1>2, DiskRests DEF ClaimImport, ExpireImportLease, CompleteBatch, PrepareDelete,
      InterruptDelete, BeginBatch, unchangedButImports, blobVars
<1>3. CASE RecoverExpired(a)
  <2>1. /\ UNCHANGED <<file, fence>>
        /\ blob' = blob \/ Gone(ReleaseSource(a))
    BY <1>3 DEF RecoverExpired
  <2> QED
    BY <1>0, <2>1, DiskRests, GoneMoves DEF Gone
<1>4. CASE FinalizeDelete(a)
  BY <1>0, <1>4, GoneMoves DEF FinalizeDelete, Gone
<1>5. ASSUME NEW n \in Attempts, ResetEntries(a, n)
      PROVE  DiskMoves
  BY <1>0, <1>5, GoneMoves DEF ResetEntries, Gone
<1>6. ASSUME NEW n \in Attempts, CompleteImport(a, n) \/ FailImport(a, n)
      PROVE  DiskMoves
  BY <1>0, <1>6, GoneMoves DEF CompleteImport, FailImport, EndImport, Gone
<1>7. ASSUME NEW n \in Attempts, LeaveImport(a, n) \/ RetryImport(a, n)
      PROVE  DiskMoves
  BY <1>7, UnfencedMoves DEF LeaveImport, RetryImport
<1>8. ASSUME NEW n \in Attempts, NEW e \in Members(a), PublishEntry(a, n, e)
      PROVE  DiskMoves
  <2>1. /\ UNCHANGED blob /\ fence' = [fence EXCEPT ![Content[e]] = "import"]
        /\ file' = [file EXCEPT ![Content[e]] = IF @ = "none" THEN "fresh" ELSE @]
    BY <1>8 DEF PublishEntry
  <2> QED
    BY <1>0, <2>1 DEF DiskMoves, BlobMoves, FileMoves, FenceMoves, FileRows, FenceRows, Removing
<1>9. ASSUME NEW n \in Attempts, NEW e \in Members(a), PersistEntry(a, n, e)
      PROVE  DiskMoves
  <2>1. /\ UNCHANGED file /\ fence' = [fence EXCEPT ![Content[e]] = "free"]
        /\ blob' = [blob EXCEPT ![Content[e]] = [state |-> "available", refs |-> @.refs + 1]]
        /\ importer[a][n].at = {e}
    BY <1>9 DEF PersistEntry, Retained
  <2>2. fence[Content[e]] = "import" /\ file[Content[e]] # "none"
    BY <2>1 DEF DiskInv, ImportersFence
  <2>3. /\ blob'[Content[e]].state = "available"
        /\ \A b \in Blob \ {Content[e]} : blob'[b] = blob[b]
    BY <1>0, <1>1, <2>1 DEF BlobRows
  <2>4. Touched(Content[e])
    BY <2>2, <2>3 DEF Touched, Removing
  <2>5. \A b \in Blob : fence'[b] \in {"free", fence[b]}
    BY <1>0, <2>1 DEF FenceRows
  <2> QED
    BY <2>1, <2>3, <2>4, <2>5 DEF DiskMoves, BlobMoves, FileMoves, FenceMoves, Removing
<1> QED
  BY <1>2, <1>3, <1>4, <1>5, <1>6, <1>7, <1>8, <1>9 DEF ImportStep

LEMMA EntryDisk ==
    ASSUME DiskInv, NEW e \in Entry, EntryStep(e)
    PROVE  DiskMoves
<1>0. TypeOK /\ FencesHeld /\ Content[e] \in Blob
  BY Names DEF DiskInv
<1>1. UNCHANGED <<file, fence>>
  BY DEF EntryStep, ReconcileEntryFact, ClaimBatchItem, ExpireItemLease, DeleteDerived,
      CreateDerived, SaveDerived, CreateEntryTask, FinalizeItem, RetryOrFailItem, LeaveItem,
      unchangedButBatches
<1>2. ASSUME NEW refs, Gone(refs)
      PROVE  DiskMoves
  BY <1>0, <1>1, <1>2, GoneMoves DEF Gone
<1>3. CASE blob' = blob
  BY <1>1, <1>3, DiskRests
<1>4. CASE CanReference(Content[e]) /\ blob' = Referenced(blob, Content[e])
  BY <1>0, <1>1, <1>4, ReferencedMoves
<1>5. CASE ReconcileEntryFact(e)
  BY <1>2, <1>3, <1>5 DEF ReconcileEntryFact
<1>6. CASE ClaimBatchItem(e) \/ ExpireItemLease(e)
  <2>1. blob' = blob
    BY <1>6 DEF ClaimBatchItem, ExpireItemLease
  <2> QED
    BY <1>3, <2>1
<1>7. CASE DeleteDerived(e)
  BY <1>2, <1>7 DEF DeleteDerived, Cancelled, Gone
<1>8. ASSUME NEW n \in Attempts, CreateDerived(e, n)
      PROVE  DiskMoves
  BY <1>3, <1>4, <1>8 DEF CreateDerived
<1>9. ASSUME NEW n \in Attempts, SaveDerived(e, n) \/ RetryOrFailItem(e, n) \/ LeaveItem(e, n)
      PROVE  DiskMoves
  <2>1. blob' = blob
    BY <1>9 DEF SaveDerived, RetryOrFailItem, LeaveItem
  <2> QED
    BY <1>3, <2>1
<1>10. ASSUME NEW n \in Attempts, CreateEntryTask(e, n)
       PROVE  DiskMoves
  BY <1>3, <1>4, <1>10 DEF CreateEntryTask, TaskAllowed, CreatedTask
<1>11. ASSUME NEW n \in Attempts, FinalizeItem(e, n)
       PROVE  DiskMoves
  BY <1>2, <1>11 DEF FinalizeItem
<1> QED
  BY <1>5, <1>6, <1>7, <1>8, <1>9, <1>10, <1>11 DEF EntryStep

\* Every step of the system.
LEMMA EveryStepDisk ==
    ASSUME RefInv, DiskInv, [Next]_vars
    PROVE  DiskMoves
<1>1. CASE UNCHANGED vars
  BY <1>1, DiskRests DEF vars, blobVars
<1> QED
  BY <1>1, PlansAreValid, UploadDisk, NestedDisk, TaskDisk, BlobDisk, ImportDisk, EntryDisk
  DEF Next
-----------------------------------------------------------------------------
(***************************************************************************)
(* Fences, files and the samples of tasks                                  *)
(***************************************************************************)

\* What refers to a content keeps its row.
LEMMA ReferredIsKept ==
    ASSUME IsFiniteSet(References), ReferencesAreExact, NEW r \in References, BlobOf(r) \in Blob
    PROVE  blob[BlobOf(r)].state \in Kept
<1>1. Held(References, BlobOf(r)) # 0 /\ Held(References, BlobOf(r)) \in Nat
  BY HeldCounts
<1>2. blob[BlobOf(r)].refs > 0
  BY <1>1 DEF ReferencesAreExact
<1> QED
  BY <1>2 DEF ReferencesAreExact, Kept

LEMMA FencesKept ==
    ASSUME FencesHeld, DiskMoves
    PROVE  FencesHeld'
<1>1. SUFFICES ASSUME NEW b \in Blob, fence'[b] \in Removing
               PROVE  IF fence'[b] = "orphan" THEN blob'[b].state \in {"absent", "deleted"}
                      ELSE blob'[b] = [state |-> "deleting", refs |-> 0]
  BY DEF FencesHeld, Removing
<1>2. BlobMoves(b) /\ FenceMoves(b)
  BY DEF DiskMoves
<1>3. blob'[b] = blob[b]
  BY <1>1, <1>2 DEF BlobMoves, Touched, Buried, FenceMoves, Removing
<1>4. IF fence'[b] = "orphan" THEN blob[b].state \in {"absent", "deleted"}
      ELSE blob[b] = [state |-> "deleting", refs |-> 0]
  BY <1>1, <1>2 DEF FenceMoves, FencesHeld, Removing
<1> QED
  BY <1>3, <1>4

LEMMA FilesKept ==
    ASSUME FencesHeld, AvailableBlobHasFile, DiskMoves
    PROVE  AvailableBlobHasFile'
<1>1. SUFFICES ASSUME NEW b \in Blob \ Nested, blob'[b].state = "available"
               PROVE  file'[b] # "none"
  BY DEF AvailableBlobHasFile, Nested
<1>2. BlobMoves(b) /\ FileMoves(b)
  BY DEF DiskMoves
<1>3. CASE Touched(b)
  <2>1. file[b] # "none"
    BY <1>1, <1>3 DEF Touched, AvailableBlobHasFile
  <2> QED
    BY <1>2, <1>3, <2>1 DEF Touched, FileMoves, Removing
<1>4. CASE blob'[b] = blob[b]
  <2>1. file[b] # "none"
    BY <1>1, <1>4 DEF AvailableBlobHasFile
  <2>2. fence[b] \notin {"retention", "erase", "orphan"}
    BY <1>1, <1>4, OfferedIsUnfenced DEF Kept, Removing
  <2> QED
    BY <1>2, <2>1, <2>2 DEF FileMoves
<1> QED
  BY <1>1, <1>2, <1>3, <1>4 DEF BlobMoves, Buried

\* The file that a completion has published stays until it is finalized.
LEMMA CompletionsKept ==
    ASSUME RefInv, DiskInv, [Next]_vars
    PROVE  CompletionsHold'
<1>0. TypeOK /\ FencesHeld /\ CompletionsHold
  BY DEF DiskInv
<1>1. DiskMoves
  BY EveryStepDisk
<1>2. ASSUME NEW u \in Direct
      PROVE  /\ completing'[u] \in {"prepared", "published"} => upload'[u].status = "assembling"
             /\ completing'[u] = "published" => file'[Content[u]] # "none"
  <2>1. Completing(u) /\ u \in Upload /\ Content[u] \in Blob
    BY <1>0, UploadMoves, Names
  <2>2. completing'[u] \in {"prepared", "published"} => upload'[u].status = "assembling"
    BY <1>0, <2>1 DEF Completing, CompletionsHold
  <2>3. ASSUME completing[u] = "published"
        PROVE  file'[Content[u]] # "none"
    <3>1. upload[u].status = "assembling" /\ file[Content[u]] # "none"
      BY <1>0, <2>3 DEF CompletionsHold
    <3>2. upload[u].ref
      BY <2>1, <3>1 DEF RefInv, NewRowsRefer
    <3>3. <<u, "upload">> \in References /\ BlobOf(<<u, "upload">>) = Content[u]
      BY <2>1, <3>2, ReferenceSet DEF BlobOf
    <3>4. blob[Content[u]].state \in Kept
      BY <2>1, <3>3, ReferredIsKept DEF RefInv
    <3>5. fence[Content[u]] \notin {"retention", "erase", "orphan"}
      BY <1>0, <2>1, <3>4, OfferedIsUnfenced DEF Removing
    <3> QED
      BY <1>1, <2>1, <3>1, <3>5 DEF DiskMoves, FileMoves
  <2> QED
    BY <2>1, <2>2, <2>3 DEF Completing
<1> QED
  BY <1>2 DEF CompletionsHold

\* The sample of a task stays available: nobody deletes what is referred to.
LEMMA SamplesKept ==
    ASSUME TypeOK, IsFiniteSet(References'), ReferencesAreExact', DiskMoves, SamplesHeld,
           [Next]_vars
    PROVE  SamplesHeld'
<1>1. SUFFICES ASSUME NEW u \in Upload
               PROVE  /\ task'[u].sample => blob'[Content[u]].state = "available"
                      /\ task'[u].jobs = "held" => task'[u].sample
  BY DEF SamplesHeld
<1>2. Content[u] \in Blob
  BY Names
<1>3. ASSUME task'[u].sample
      PROVE  blob'[Content[u]].state \in Kept
  <2>1. <<u, "sample">> \in References' /\ BlobOf(<<u, "sample">>) = Content[u]
    BY <1>3, ReferenceSet DEF BlobOf
  <2>2. Held(References', Content[u]) # 0 /\ Held(References', Content[u]) \in Nat
    BY <2>1, HeldCounts
  <2>3. /\ blob'[Content[u]].refs = Held(References', Content[u])
        /\ blob'[Content[u]].refs > 0 => blob'[Content[u]].state \in {"staging", "available"}
    BY <1>2 DEF ReferencesAreExact, Held, BlobOf
  <2> QED
    BY <2>2, <2>3 DEF Kept
<1>4. CASE TaskMade(u)
  BY <1>4 DEF TaskMade
<1>5. CASE TaskAged(u)
  <2>1. ASSUME task'[u].sample
        PROVE  blob'[Content[u]].state = "available"
    <3>1. blob[Content[u]].state = "available"
      BY <1>5, <2>1 DEF TaskAged, SamplesHeld
    <3>2. BlobMoves(Content[u])
      BY <1>2 DEF DiskMoves
    <3> QED
      BY <1>3, <2>1, <3>1, <3>2 DEF BlobMoves, Touched, Buried, Kept
  <2>2. task'[u].jobs = "held" => task'[u].sample
    BY <1>5 DEF TaskAged, SamplesHeld
  <2> QED
    BY <2>1, <2>2
<1> QED
  BY <1>4, <1>5, TaskMoves
-----------------------------------------------------------------------------
(***************************************************************************)
(* Importers                                                               *)
(***************************************************************************)

\* Only an importer that leaves its member gives its fence back.
LeavesMember(a, n) ==
    \/ LeaveImport(a, n) \/ RetryImport(a, n)
    \/ \E e \in Members(a) : PersistEntry(a, n, e)

ImportFencesStay == \A b \in Blob : fence[b] = "import" => fence'[b] = "import"

LEMMA BlobFences ==
    ASSUME TypeOK, NEW b \in Blob, BlobStep(b)
    PROVE  ImportFencesStay
<1>0. fence \in FenceRows
  BY TypeParts DEF Typed
<1>1. ASSUME NEW f, fence' = [fence EXCEPT ![b] = f], fence[b] # "import"
      PROVE  ImportFencesStay
  BY <1>0, <1>1 DEF ImportFencesStay, FenceRows
<1>2. \/ fence' = fence
      \/ fence[b] # "import" /\ \E f : fence' = [fence EXCEPT ![b] = f]
  BY DEF BlobStep, LockDeleting, RemoveDeleting, MarkDeleted, CrashMaintenance,
      ReconcileBlobReference, LockOrphan, RemoveOrphan, AgeFile, LockReleased,
      RemoveReleased, MarkReleased, Orphaned
<1> QED
  BY <1>1, <1>2 DEF ImportFencesStay

LEMMA ImportFences ==
    ASSUME TypeOK, NEW a \in Archive, ImportStep(a)
    PROVE  \/ UNCHANGED fence
           \/ \E n \in Attempts, e \in Members(a) : PublishEntry(a, n, e)
           \/ \E n \in Attempts : LeavesMember(a, n)
BY DEF ImportStep, ClaimImport, ExpireImportLease, RecoverExpired, ResetEntries,
    CompleteImport, EndImport, FailImport, BeginBatch, CompleteBatch, PrepareDelete,
    FinalizeDelete, InterruptDelete, unchangedButImports, blobVars, LeavesMember

LEMMA ImporterSteps ==
    ASSUME TypeOK, [Next]_vars
    PROVE  \/ importer' = importer /\ ImportFencesStay
           \/ \E a \in Archive, n \in Attempts :
                 \/ /\ UNCHANGED fence
                    /\ \E step : Step(a, n, step)
                 \/ \E e \in Members(a) : PublishEntry(a, n, e)
                 \/ LeavesMember(a, n)
<1>0. import \in ImportRows
  BY TypeParts DEF Typed
<1>1. CASE UNCHANGED vars
  BY <1>1 DEF vars, archiveVars, blobVars, ImportFencesStay
<1>2. ASSUME NEW u \in Direct, UploadStep(u)
      PROVE  importer' = importer /\ ImportFencesStay
  BY <1>2, Writers DEF UploadStep, CreateUpload, PutPart, BeginCompletion, PrepareCompletion,
      PublishAssembly, FinalizeCompletion, LeaveCompletion, EnsureDirectTask,
      EnsureArchiveImport, blobVars, ImportFencesStay
<1>3. ASSUME NEW u \in DOMAIN NestedIn, NestedStep(u)
      PROVE  importer' = importer /\ ImportFencesStay
  BY <1>3, Writers DEF NestedStep, StoreNested, AbandonTree, PublishTree, PublishTreeWithout,
      unchangedButTasks, blobVars, ImportFencesStay
<1>4. ASSUME NEW u \in Upload, TaskStep(u)
      PROVE  importer' = importer /\ ImportFencesStay
  BY <1>4, Writers DEF TaskStep, FinishScan, RetryScan, RequestJob, ClaimJob, ReturnJob,
      ExpireSample, RequestDelete, unchangedButTasks, blobVars, ImportFencesStay
<1>5. ASSUME NEW u \in Upload, CleanupStep(u)
      PROVE  importer' = importer /\ ImportFencesStay
  BY <1>5, Writers DEF CleanupStep, ClaimCleanup, ExpireCleanupLease, ClaimSample,
      ExpireSampleLease, LeaveCleanup, RenewCleanup, LeaveSample, CompleteCleanup,
      CompleteSample, unchangedButTasks, blobVars, ImportFencesStay
<1>6. ASSUME NEW u \in Upload, RetentionStep(u)
      PROVE  importer' = importer /\ ImportFencesStay
  BY <1>6, Writers DEF RetentionStep, CancelUpload, CleanupParts, ExpireClock, ExpireUpload,
      blobVars, ImportFencesStay
<1>7. ASSUME NEW b \in Blob, BlobStep(b)
      PROVE  importer' = importer /\ ImportFencesStay
  BY <1>7, Writers, BlobFences
<1>8. ASSUME NEW e \in Entry, EntryStep(e)
      PROVE  importer' = importer /\ ImportFencesStay
  BY <1>8, Writers DEF EntryStep, ReconcileEntryFact, ClaimBatchItem, ExpireItemLease,
      DeleteDerived, CreateDerived, SaveDerived, CreateEntryTask, FinalizeItem,
      RetryOrFailItem, LeaveItem, unchangedButBatches, ImportFencesStay
<1>9. ASSUME NEW a \in Archive, ImportStep(a)
      PROVE  \/ importer' = importer /\ ImportFencesStay
             \/ \E n \in Attempts :
                   \/ /\ UNCHANGED fence
                      /\ \E step : Step(a, n, step)
                   \/ \E e \in Members(a) : PublishEntry(a, n, e)
                   \/ LeavesMember(a, n)
  <2>1. CASE ClaimImport(a)
    <3>1. import[a].attempt + 1 \in Attempts
      BY <1>0, <2>1, SamplesAreWellFormed DEF ClaimImport, ImportRows, ImportRow, Attempts
    <3>2. UNCHANGED fence /\ Step(a, import[a].attempt + 1, "claimed")
      BY <2>1 DEF ClaimImport, unchangedButImports, blobVars
    <3> QED
      BY <3>1, <3>2
  <2>2. ASSUME NEW n \in Attempts, ResetEntries(a, n)
        PROVE  UNCHANGED fence /\ Step(a, n, "reset")
    BY <2>2 DEF ResetEntries
  <2>3. ASSUME NEW n \in Attempts, CompleteImport(a, n) \/ FailImport(a, n)
        PROVE  UNCHANGED fence /\ Step(a, n, "none")
    BY <2>3 DEF CompleteImport, FailImport, EndImport
  <2>4. CASE \/ ExpireImportLease(a) \/ RecoverExpired(a) \/ CompleteBatch(a)
             \/ PrepareDelete(a) \/ FinalizeDelete(a) \/ InterruptDelete(a)
             \/ \E es \in SUBSET Members(a) : BeginBatch(a, es)
    BY <2>4 DEF ExpireImportLease, RecoverExpired, CompleteBatch, PrepareDelete,
        FinalizeDelete, InterruptDelete, BeginBatch, unchangedButImports, blobVars,
        ImportFencesStay
  <2> QED
    BY <1>9, <2>1, <2>2, <2>3, <2>4 DEF ImportStep, LeavesMember
<1> QED
  <2>1. CASE \E u \in Direct : UploadStep(u)
    BY <1>2, <2>1
  <2>2. CASE \E u \in DOMAIN NestedIn : NestedStep(u)
    BY <1>3, <2>2
  <2>3. CASE \E u \in Worked : TaskStep(u) \/ CleanupStep(u)
    BY <1>4, <1>5, <2>3, PlansAreValid
  <2>4. CASE \E u \in Upload : RetentionStep(u)
    BY <1>6, <2>4
  <2>5. CASE \E b \in Swept : BlobStep(b)
    BY <1>7, <2>5, PlansAreValid
  <2>6. CASE \E a \in Archive : ImportStep(a)
    BY <1>9, <2>6
  <2>7. CASE \E e \in Entry : EntryStep(e)
    BY <1>8, <2>7
  <2> QED
    BY <1>1, <2>1, <2>2, <2>3, <2>4, <2>5, <2>6, <2>7 DEF Next

\* Importers keep their member and its fence, or leave both.
LEMMA ImportersStay ==
    ASSUME DiskInv, DiskMoves,
           \A a \in Archive, n \in Attempts : importer'[a][n] = importer[a][n]
                                                \/ importer'[a][n].at = {},
           \A a \in Archive, n \in Attempts : \A e \in importer'[a][n].at :
               fence[Content[e]] = "import" => fence'[Content[e]] = "import"
    PROVE  ImportersFence'
<1>0. importer \in ImporterRows
  BY TypeParts DEF DiskInv, Typed
<1>1. ASSUME NEW a \in Archive, NEW n \in Attempts, NEW e \in importer'[a][n].at
      PROVE  /\ importer'[a][n] = importer[a][n] /\ e \in importer[a][n].at
             /\ Content[e] \in Blob
  <2>1. importer'[a][n] = importer[a][n]
    BY <1>1
  <2>2. e \in importer[a][n].at /\ e \in Entry
    BY <1>0, <1>1, <2>1 DEF ImporterRows, ImporterRow
  <2> QED
    BY <2>1, <2>2, Names
<1>2. SUFFICES ASSUME NEW a \in Archive, NEW n \in Attempts, NEW e \in importer'[a][n].at
               PROVE  /\ importer'[a][n].at = {e} /\ importer'[a][n].step = "published"
                      /\ fence'[Content[e]] = "import" /\ file'[Content[e]] # "none"
                      /\ \A c \in Archive, m \in Attempts : \A d \in importer'[c][m].at :
                             Content[d] = Content[e] => c = a /\ m = n
  BY DEF ImportersFence
<1>3. /\ importer'[a][n].at = {e} /\ importer'[a][n].step = "published"
      /\ fence[Content[e]] = "import" /\ file[Content[e]] # "none"
  BY <1>1, <1>2 DEF DiskInv, ImportersFence
<1>4. fence'[Content[e]] = "import"
  BY <1>2, <1>3
<1>5. file'[Content[e]] # "none"
  BY <1>1, <1>2, <1>3 DEF DiskMoves, FileMoves
<1>6. ASSUME NEW c \in Archive, NEW m \in Attempts, NEW d \in importer'[c][m].at,
             Content[d] = Content[e]
      PROVE  c = a /\ m = n
  BY <1>1, <1>2, <1>6 DEF DiskInv, ImportersFence
<1> QED
  BY <1>3, <1>4, <1>5, <1>6

LEMMA ImportersKept ==
    ASSUME RefInv, DiskInv, [Next]_vars
    PROVE  ImportersFence'
<1>0. importer \in ImporterRows /\ fence \in FenceRows /\ file \in FileRows /\ TypeOK
  BY TypeParts DEF DiskInv, Typed
<1>1. DiskMoves
  BY EveryStepDisk
<1>2. ASSUME NEW a \in Archive, NEW n \in Attempts, NEW e \in importer[a][n].at
      PROVE  e \in Entry /\ Content[e] \in Blob
  BY <1>0, <1>2, Names DEF ImporterRows, ImporterRow
<1>3. CASE importer' = importer /\ ImportFencesStay
  <2>1. ASSUME NEW a \in Archive, NEW n \in Attempts, NEW e \in importer'[a][n].at,
               fence[Content[e]] = "import"
        PROVE  fence'[Content[e]] = "import"
    BY <1>2, <1>3, <2>1 DEF ImportFencesStay
  <2> QED
    BY <1>1, <1>3, <2>1, ImportersStay
<1>4. ASSUME NEW a \in Archive, NEW n \in Attempts, UNCHANGED fence,
             NEW step, Step(a, n, step)
      PROVE  ImportersFence'
  <2>1. \A c \in Archive, m \in Attempts : importer'[c][m] = importer[c][m]
                                             \/ importer'[c][m].at = {}
    BY <1>0, <1>4 DEF Step, Importing, ImporterRows
  <2> QED
    BY <1>1, <1>4, <2>1, ImportersStay
<1>5. ASSUME NEW a \in Archive, NEW n \in Attempts, LeavesMember(a, n)
      PROVE  ImportersFence'
  <2>1. PICK step, done : Importing(a, n, step, {}, done)
    BY <1>5 DEF LeavesMember, LeaveImport, RetryImport, PersistEntry, Step
  <2>2. /\ importer'[a][n].at = {}
        /\ \A c \in Archive, m \in Attempts :
               (c = a /\ m = n) \/ importer'[c][m] = importer[c][m]
    BY <1>0, <2>1 DEF Importing, ImporterRows
  <2>3. \A b \in Blob :
            (\A e \in importer[a][n].at : Content[e] # b) => fence'[b] = fence[b]
    BY <1>0, <1>5 DEF LeavesMember, LeaveImport, RetryImport, PersistEntry, Unfenced, FenceRows
  <2>4. ASSUME NEW c \in Archive, NEW m \in Attempts, NEW d \in importer'[c][m].at,
               fence[Content[d]] = "import"
        PROVE  fence'[Content[d]] = "import"
    <3>1. (c # a \/ m # n) /\ d \in importer[c][m].at
      BY <2>2, <2>4
    <3>2. \A e \in importer[a][n].at : Content[e] # Content[d]
      BY <3>1 DEF DiskInv, ImportersFence
    <3> QED
      BY <1>2, <2>3, <2>4, <3>1, <3>2
  <2> QED
    BY <1>1, <2>2, <2>4, ImportersStay
<1>6. ASSUME NEW a \in Archive, NEW n \in Attempts, NEW e \in Members(a), PublishEntry(a, n, e)
      PROVE  ImportersFence'
  <2>1. /\ importer[a][n].step = "reset" /\ fence[Content[e]] = "free"
        /\ fence' = [fence EXCEPT ![Content[e]] = "import"]
        /\ file' = [file EXCEPT ![Content[e]] = IF @ = "none" THEN "fresh" ELSE @]
        /\ Importing(a, n, "published", {e}, importer[a][n].done)
    BY <1>6 DEF PublishEntry
  <2>2. Content[e] \in Blob
    BY Names DEF Members
  <2>3. /\ fence'[Content[e]] = "import" /\ file'[Content[e]] # "none"
        /\ \A b \in Blob : fence[b] = "import" => fence'[b] = "import"
        /\ \A b \in Blob : file[b] # "none" => file'[b] # "none"
    BY <1>0, <2>1, <2>2 DEF FenceRows, FileRows
  <2>4. /\ importer'[a][n].at = {e} /\ importer'[a][n].step = "published"
        /\ \A c \in Archive, m \in Attempts :
               (c = a /\ m = n) \/ importer'[c][m] = importer[c][m]
    BY <1>0, <2>1 DEF Importing, ImporterRows
  <2>5. ASSUME NEW c \in Archive, NEW m \in Attempts, NEW d \in importer'[c][m].at
        PROVE  \/ c = a /\ m = n /\ d = e
               \/ /\ d \in importer[c][m].at /\ Content[d] # Content[e]
                  /\ importer'[c][m] = importer[c][m]
    <3>1. CASE c = a /\ m = n
      BY <2>4, <2>5, <3>1
    <3>2. CASE ~(c = a /\ m = n)
      <4>1. importer'[c][m] = importer[c][m] /\ d \in importer[c][m].at
        BY <2>4, <2>5, <3>2
      <4>2. fence[Content[d]] = "import"
        BY <4>1 DEF DiskInv, ImportersFence
      <4> QED
        BY <2>1, <4>1, <4>2
    <3> QED
      BY <3>1, <3>2
  <2>6. ASSUME NEW c \in Archive, NEW m \in Attempts, NEW d \in importer'[c][m].at
        PROVE  /\ importer'[c][m].at = {d} /\ importer'[c][m].step = "published"
               /\ fence'[Content[d]] = "import" /\ file'[Content[d]] # "none"
    <3>1. CASE c = a /\ m = n /\ d = e
      BY <2>3, <2>4, <3>1
    <3>2. CASE d \in importer[c][m].at /\ importer'[c][m] = importer[c][m]
      <4>1. /\ importer[c][m].at = {d} /\ importer[c][m].step = "published"
            /\ fence[Content[d]] = "import" /\ file[Content[d]] # "none"
        BY <3>2 DEF DiskInv, ImportersFence
      <4> QED
        BY <1>2, <2>3, <3>2, <4>1
    <3> QED
      BY <2>5, <2>6, <3>1, <3>2
  <2>7. ASSUME NEW c \in Archive, NEW m \in Attempts, NEW d \in importer'[c][m].at,
               NEW k \in Archive, NEW l \in Attempts, NEW f \in importer'[k][l].at,
               Content[f] = Content[d]
        PROVE  k = c /\ l = m
    <3>1. CASE c = a /\ m = n /\ d = e
      BY <2>5, <2>7, <3>1
    <3>2. CASE k = a /\ l = n /\ f = e
      BY <2>5, <2>7, <3>2
    <3>3. CASE d \in importer[c][m].at /\ f \in importer[k][l].at
      BY <2>7, <3>3 DEF DiskInv, ImportersFence
    <3> QED
      BY <2>5, <2>7, <3>1, <3>2, <3>3
  <2> QED
    BY <2>6, <2>7 DEF ImportersFence
<1> QED
  BY <1>0, <1>3, <1>4, <1>5, <1>6, ImporterSteps
-----------------------------------------------------------------------------
(***************************************************************************)
(* What an importer has stored                                             *)
(***************************************************************************)

\* No lease begins, or begins again.
KeepsLease(a) ==
    import'[a].status = "running" /\ import'[a].live =>
        /\ import[a].status = "running" /\ import[a].live
        /\ import'[a].attempt = import[a].attempt

\* An importer starts with nothing stored, and stores one member at a time.
LeaseMoves(a, n) ==
    \/ importer'[a][n].done = {}
    \/ importer'[a][n].done = importer[a][n].done /\ (LeaseHeld(a, n)' => LeaseHeld(a, n))
    \/ \E e \in Members(a) : /\ PersistEntry(a, n, e)
                             /\ importer'[a][n].done = importer[a][n].done \cup {e}

LEMMA ImportLeases ==
    ASSUME TypeOK, NEW c \in Archive, ImportStep(c), ~ClaimImport(c), NEW a \in Archive
    PROVE  KeepsLease(a)
<1>0. import \in ImportRows
  BY TypeParts DEF Typed
<1>1. CASE ExpireImportLease(c) \/ CompleteBatch(c)
  BY <1>0, <1>1 DEF ExpireImportLease, CompleteBatch, ImportRows, ImportRow, KeepsLease
<1>2. CASE RecoverExpired(c) \/ PrepareDelete(c) \/ FinalizeDelete(c)
  BY <1>0, <1>2 DEF RecoverExpired, PrepareDelete, FinalizeDelete, ImportRows, ImportRow,
      KeepsLease
<1>3. ASSUME NEW n \in Attempts, CompleteImport(c, n) \/ FailImport(c, n) \/ RetryImport(c, n)
      PROVE  KeepsLease(a)
  BY <1>0, <1>3 DEF CompleteImport, FailImport, EndImport, RetryImport, ImportRows, ImportRow,
      KeepsLease
<1>4. ASSUME NEW es \in SUBSET Members(c), BeginBatch(c, es)
      PROVE  KeepsLease(a)
  BY <1>0, <1>4 DEF BeginBatch, ImportRows, ImportRow, KeepsLease
<1>5. CASE import' = import
  BY <1>5 DEF KeepsLease
<1>6. ASSUME \/ InterruptDelete(c)
             \/ \E n \in Attempts :
                   \/ ResetEntries(c, n) \/ LeaveImport(c, n)
                   \/ \E e \in Members(c) : PublishEntry(c, n, e) \/ PersistEntry(c, n, e)
      PROVE  import' = import
  BY <1>6 DEF InterruptDelete, ResetEntries, LeaveImport, PublishEntry, PersistEntry
<1> QED
  BY <1>1, <1>2, <1>3, <1>4, <1>5, <1>6 DEF ImportStep

LEMMA EveryStepLeases ==
    ASSUME TypeOK, [Next]_vars, NEW a \in Archive, NEW n \in Attempts
    PROVE  LeaseMoves(a, n)
<1>0. import \in ImportRows /\ importer \in ImporterRows
  BY TypeParts DEF Typed
<1>1. ASSUME KeepsLease(a), importer'[a][n].done = importer[a][n].done
      PROVE  LeaseMoves(a, n)
  BY <1>1 DEF KeepsLease, LeaseMoves, LeaseHeld
<1>2. CASE UNCHANGED <<import, importer>>
  BY <1>1, <1>2 DEF KeepsLease
<1>3. ASSUME NEW c \in Archive, EnsureArchiveImport(c), importer' = importer
      PROVE  LeaseMoves(a, n)
  <2>1. KeepsLease(a)
    BY <1>0, <1>3 DEF EnsureArchiveImport, ImportRows, ImportRow, KeepsLease
  <2> QED
    BY <1>1, <1>3, <2>1
<1>4. ASSUME NEW c \in Archive, ClaimImport(c)
      PROVE  LeaseMoves(a, n)
  <2> DEFINE k == import[c].attempt + 1
  <2>1. importer' = [importer EXCEPT ![c][k] = [step |-> "claimed", at |-> {}, done |-> {}]]
    BY <1>4 DEF ClaimImport, Step, Importing
  <2>2. /\ k \in Attempts /\ import'[c].attempt = k
        /\ \A d \in Archive \ {c} : import'[d] = import[d]
    BY <1>0, <1>4, SamplesAreWellFormed DEF ClaimImport, ImportRows, ImportRow, Attempts
  <2>3. CASE a = c /\ n = k
    <3>1. importer'[a][n].done = {}
      BY <1>0, <2>1, <2>3 DEF ImporterRows
    <3> QED
      BY <3>1 DEF LeaseMoves
  <2>4. CASE ~(a = c /\ n = k)
    <3>1. importer'[a][n].done = importer[a][n].done
      BY <1>0, <2>1, <2>4 DEF ImporterRows
    <3>2. LeaseHeld(a, n)' => LeaseHeld(a, n)
      BY <2>2, <2>4 DEF LeaseHeld
    <3> QED
      BY <3>1, <3>2 DEF LeaseMoves
  <2> QED
    BY <2>3, <2>4
<1>5. ASSUME NEW c \in Archive, ImportStep(c), ~ClaimImport(c)
      PROVE  LeaseMoves(a, n)
  <2>1. KeepsLease(a)
    BY <1>5, ImportLeases
  <2>2. CASE importer' = importer
    BY <1>1, <2>1, <2>2
  <2>3. ASSUME NEW m \in Attempts, NEW step, Step(c, m, step)
        PROVE  LeaseMoves(a, n)
    <3>1. importer'[a][n].done \in {{}, importer[a][n].done}
      BY <1>0, <2>3 DEF Step, Importing, ImporterRows
    <3> QED
      BY <1>1, <2>1, <3>1 DEF LeaseMoves
  <2>4. ASSUME NEW m \in Attempts, NEW e \in Members(c), PublishEntry(c, m, e)
        PROVE  LeaseMoves(a, n)
    <3>1. importer'[a][n].done = importer[a][n].done
      BY <1>0, <2>4 DEF PublishEntry, Importing, ImporterRows
    <3> QED
      BY <1>1, <2>1, <3>1
  <2>5. ASSUME NEW m \in Attempts, NEW e \in Members(c), PersistEntry(c, m, e)
        PROVE  LeaseMoves(a, n)
    <3>1. \/ importer'[a][n].done = importer[a][n].done
          \/ /\ a = c /\ n = m
             /\ importer'[a][n].done = importer[a][n].done \cup {e}
      BY <1>0, <2>5 DEF PersistEntry, Importing, ImporterRows
    <3>2. CASE a = c /\ n = m /\ importer'[a][n].done = importer[a][n].done \cup {e}
      BY <2>5, <3>2 DEF LeaseMoves
    <3> QED
      BY <1>1, <2>1, <3>1, <3>2
  <2>6. \/ importer' = importer
        \/ \E m \in Attempts :
              \/ \E step : Step(c, m, step)
              \/ \E e \in Members(c) : PublishEntry(c, m, e) \/ PersistEntry(c, m, e)
    <3>1. ASSUME NEW m \in Attempts, ResetEntries(c, m) \/ LeaveImport(c, m)
                                       \/ RetryImport(c, m)
          PROVE  \E step : Step(c, m, step)
      BY <3>1 DEF ResetEntries, LeaveImport, RetryImport
    <3>2. ASSUME NEW m \in Attempts, CompleteImport(c, m) \/ FailImport(c, m)
          PROVE  \E step : Step(c, m, step)
      BY <3>2 DEF CompleteImport, FailImport, EndImport
    <3>3. ASSUME \/ ExpireImportLease(c) \/ RecoverExpired(c) \/ CompleteBatch(c)
                 \/ PrepareDelete(c) \/ FinalizeDelete(c) \/ InterruptDelete(c)
                 \/ \E es \in SUBSET Members(c) : BeginBatch(c, es)
          PROVE  importer' = importer
      BY <3>3 DEF ExpireImportLease, RecoverExpired, CompleteBatch, PrepareDelete,
          FinalizeDelete, InterruptDelete, BeginBatch
    <3> QED
      BY <1>5, <3>1, <3>2, <3>3 DEF ImportStep
  <2> QED
    BY <2>2, <2>3, <2>4, <2>5, <2>6
<1> QED
  BY <1>2, <1>3, <1>4, <1>5, WhoWrites

\* An import becomes ready when its importer completes it.
LEMMA ReadyMoves ==
    ASSUME TypeOK, [Next]_vars, NEW a \in Archive, import'[a].status = "ready"
    PROVE  import[a].status = "ready" \/ \E n \in Attempts : CompleteImport(a, n)
<1>0. import \in ImportRows
  BY TypeParts DEF Typed
<1>1. ASSUME NEW c \in Archive, EnsureArchiveImport(c)
      PROVE  import[a].status = "ready"
  BY <1>0, <1>1 DEF EnsureArchiveImport, ImportRows, ImportRow
<1>2. ASSUME NEW c \in Archive, ImportStep(c)
      PROVE  import[a].status = "ready" \/ \E n \in Attempts : CompleteImport(a, n)
  <2>1. CASE ExpireImportLease(c) \/ CompleteBatch(c)
    BY <1>0, <2>1 DEF ExpireImportLease, CompleteBatch, ImportRows, ImportRow
  <2>2. CASE ClaimImport(c) \/ RecoverExpired(c) \/ PrepareDelete(c) \/ FinalizeDelete(c)
    BY <1>0, <2>2 DEF ClaimImport, RecoverExpired, PrepareDelete, FinalizeDelete, ImportRows,
        ImportRow
  <2>3. ASSUME NEW n \in Attempts, FailImport(c, n) \/ RetryImport(c, n)
        PROVE  import[a].status = "ready"
    BY <1>0, <2>3 DEF FailImport, EndImport, RetryImport, ImportRows, ImportRow
  <2>4. ASSUME NEW n \in Attempts, CompleteImport(c, n)
        PROVE  import[a].status = "ready" \/ CompleteImport(a, n)
    <3>1. c = a \/ import'[a] = import[a]
      BY <1>0, <2>4 DEF CompleteImport, EndImport, ImportRows
    <3> QED
      BY <2>4, <3>1
  <2>5. ASSUME NEW es \in SUBSET Members(c), BeginBatch(c, es)
        PROVE  import[a].status = "ready"
    BY <1>0, <2>5 DEF BeginBatch, ImportRows, ImportRow
  <2>6. ASSUME \/ InterruptDelete(c)
               \/ \E n \in Attempts :
                     \/ ResetEntries(c, n) \/ LeaveImport(c, n)
                     \/ \E e \in Members(c) : PublishEntry(c, n, e) \/ PersistEntry(c, n, e)
        PROVE  import' = import
    BY <2>6 DEF InterruptDelete, ResetEntries, LeaveImport, PublishEntry, PersistEntry
  <2> QED
    BY <1>2, <2>1, <2>2, <2>3, <2>4, <2>5, <2>6 DEF ImportStep
<1> QED
  BY <1>1, <1>2, WhoWrites

\* Only the importer with the lease, or the deletion, drops members.
LEMMA StoredStays ==
    ASSUME TypeOK, [Next]_vars, NEW a \in Archive, NEW e \in Members(a), Stored(e)
    PROVE  \/ Stored(e)'
           \/ import'[a].status = "deleted"
           \/ \E n \in Attempts : /\ LeaseHeld(a, n) /\ import' = import
                                  /\ importer'[a][n].done = {}
<1>0. import \in ImportRows /\ importer \in ImporterRows /\ e \in Entry /\ Parent[e] = a
  BY TypeParts DEF Typed, Members
<1>1. CASE EntryAged(e)
  BY <1>1 DEF EntryAged
<1>2. CASE FinalizeDelete(a)
  BY <1>0, <1>2 DEF FinalizeDelete, ImportRows, ImportRow
<1>3. ASSUME NEW n \in Attempts, ResetEntries(a, n)
      PROVE  /\ LeaseHeld(a, n) /\ import' = import
             /\ importer'[a][n].done = {}
  BY <1>0, <1>3 DEF ResetEntries, Step, Importing, ImporterRows
<1> QED
  BY <1>0, <1>1, <1>2, <1>3, EntryMoves

LEMMA DoneKept ==
    ASSUME TypeOK, ImportersDone, [Next]_vars
    PROVE  ImportersDone'
<1>0. entry \in EntryRows
  BY TypeParts DEF Typed
<1>1. ASSUME NEW a \in Archive, NEW n \in Attempts
      PROVE  /\ importer'[a][n].done \subseteq Members(a)
             /\ LeaseHeld(a, n)' => \A e \in importer'[a][n].done : Stored(e)'
  <2>1. /\ importer[a][n].done \subseteq Members(a)
        /\ LeaseHeld(a, n) => \A e \in importer[a][n].done : Stored(e)
    BY DEF ImportersDone, Stored
  <2>2. CASE importer'[a][n].done = {}
    BY <2>2
  <2>3. CASE /\ importer'[a][n].done = importer[a][n].done
             /\ LeaseHeld(a, n)' => LeaseHeld(a, n)
    <3>1. ASSUME LeaseHeld(a, n)', NEW e \in importer'[a][n].done
          PROVE  Stored(e)'
      <4>1. Stored(e) /\ e \in Members(a) /\ LeaseHeld(a, n)
        BY <2>1, <2>3, <3>1
      <4>2. import'[a].status # "deleted"
        BY <3>1 DEF LeaseHeld
      <4>3. ASSUME NEW m \in Attempts, LeaseHeld(a, m), importer'[a][m].done = {}
            PROVE  FALSE
        <5>1. m = n
          BY <4>1, <4>3 DEF LeaseHeld
        <5> QED
          BY <3>1, <4>3, <5>1
      <4> QED
        BY <4>1, <4>2, <4>3, StoredStays
    <3> QED
      BY <2>1, <2>3, <3>1
  <2>4. ASSUME NEW e \in Members(a), PersistEntry(a, n, e),
               importer'[a][n].done = importer[a][n].done \cup {e}
        PROVE  /\ importer'[a][n].done \subseteq Members(a)
               /\ \A d \in importer'[a][n].done : Stored(d)'
    <3>1. /\ LeaseHeld(a, n) /\ e \in Entry
          /\ entry' = [entry EXCEPT ![e].status = "eligible", ![e].ref = TRUE]
      BY <2>4 DEF PersistEntry, Members
    <3>2. /\ entry'[e].status = "eligible" /\ entry'[e].ref = TRUE
          /\ \A d \in Entry \ {e} : entry'[d] = entry[d]
      BY <1>0, <3>1 DEF EntryRows, EntryRow
    <3>3. ASSUME NEW d \in importer[a][n].done
          PROVE  Stored(d)'
      <4>1. Stored(d) /\ d \in Entry
        BY <2>1, <3>1, <3>3 DEF Members
      <4> QED
        BY <3>2, <4>1 DEF Stored, Unsettled
    <3>4. Stored(e)'
      BY <3>2 DEF Stored, Unsettled
    <3> QED
      BY <2>1, <2>4, <3>3, <3>4
  <2> QED
    BY <2>2, <2>3, <2>4, EveryStepLeases DEF LeaseMoves
<1> QED
  BY <1>1 DEF ImportersDone, Stored

LEMMA ReadyKept ==
    ASSUME TypeOK, ImportersDone, ReadyImportIsComplete, [Next]_vars
    PROVE  ReadyImportIsComplete'
<1>1. SUFFICES ASSUME NEW a \in Archive, import'[a].status = "ready", NEW e \in Members(a)
               PROVE  Stored(e)'
  BY DEF ReadyImportIsComplete, Stored, Members
<1>2. ASSUME NEW n \in Attempts, CompleteImport(a, n)
      PROVE  Stored(e)'
  <2>1. LeaseHeld(a, n) /\ importer[a][n].done = Members(a) /\ entry' = entry
    BY <1>2 DEF CompleteImport, EndImport, LeaseForEnd
  <2>2. Stored(e)
    BY <1>1, <2>1 DEF ImportersDone, Stored
  <2> QED
    BY <2>1, <2>2 DEF Stored, Unsettled
<1>3. CASE import[a].status = "ready"
  <2>1. Stored(e)
    BY <1>1, <1>3 DEF ReadyImportIsComplete, Stored
  <2>2. \A n \in Attempts : ~LeaseHeld(a, n)
    BY <1>3 DEF LeaseHeld
  <2> QED
    BY <1>1, <2>1, <2>2, StoredStays
<1> QED
  BY <1>1, <1>2, <1>3, ReadyMoves
-----------------------------------------------------------------------------
(***************************************************************************)
(* The start, and the theorems                                             *)
(***************************************************************************)
StorageInv ==
    /\ RefInv /\ DiskInv /\ SamplesHeld /\ ImportersDone
    /\ AvailableBlobHasFile /\ ReadyImportIsComplete

\* At the start there is one reference for each archive that was uploaded.
LEMMA StartCounts ==
    ASSUME NEW done \in SUBSET Archive, IsFiniteSet(done),
           References = {<<u, "upload">> : u \in done}
    PROVE  /\ IsFiniteSet(References)
           /\ \A b : Held(References, b) = Cardinality({u \in done : Content[u] = b})
           /\ \A b : Held(References, b) \in Nat
           /\ \A b : Held(References, b) = 0 <=> {u \in done : Content[u] = b} = {}
<1>1. ASSUME NEW S \in SUBSET done, NEW T, T = {<<u, "upload">> : u \in S}
      PROVE  IsFiniteSet(T) /\ Cardinality(T) = Cardinality(S)
  <2> DEFINE f == [u \in S |-> <<u, "upload">>]
  <2>1. f \in [S -> T] /\ \A u, v \in S : f[u] = f[v] => u = v
    BY <1>1
  <2>2. \A t \in T : \E u \in S : f[u] = t
    BY <1>1
  <2>3. f \in Bijection(S, T)
    BY <2>1, <2>2 DEF Bijection, Injection, Surjection, IsInjective
  <2>4. IsFiniteSet(S)
    BY FS_Subset
  <2> QED
    BY <2>3, <2>4, FS_Bijection DEF ExistsBijection
<1>2. IsFiniteSet(References)
  BY <1>1
<1>3. ASSUME NEW b
      PROVE  /\ Held(References, b) = Cardinality({u \in done : Content[u] = b})
             /\ Held(References, b) \in Nat
             /\ Held(References, b) = 0 <=> {u \in done : Content[u] = b} = {}
  <2> DEFINE S == {u \in done : Content[u] = b}
             T == {r \in References : BlobOf(r) = b}
  <2>1. T = {<<u, "upload">> : u \in S}
    BY DEF BlobOf
  <2>2. Cardinality(T) = Cardinality(S) /\ S \in SUBSET done
    BY <1>1, <2>1
  <2>3. IsFiniteSet(S)
    BY <2>2, FS_Subset
  <2>4. Cardinality(S) \in Nat /\ (Cardinality(S) = 0 <=> S = {})
    BY <2>3, FS_CardinalityType, FS_EmptySet
  <2> QED
    BY <2>2, <2>4 DEF Held
<1> QED
  BY <1>2, <1>3

LEMMA StartTyped ==
    ASSUME NEW done \in SUBSET Archive, IsFiniteSet(done), NEW sent, NEW tries \in Attempts,
           InitWith(done, sent, tries)
    PROVE  TypeOK
<1>1. ASSUME NEW b \in Blob
      PROVE  Cardinality({u \in done : Content[u] = b}) \in Nat
  <2>1. IsFiniteSet({u \in done : Content[u] = b})
    BY FS_Subset
  <2> QED
    BY <2>1, FS_CardinalityType
<1>2. blob \in BlobRows
  BY <1>1 DEF InitWith, BlobRows, BlobState
<1>3. file \in FileRows /\ fence \in FenceRows
  BY DEF InitWith, FileRows, FenceRows, NoFence
<1>4. upload \in UploadRows
  <2>1. \A status \in UploadStatus, ref \in BOOLEAN : NewUpload(status, ref) \in UploadRow
    BY DEF NewUpload, UploadRow
  <2>2. \A u \in Upload : upload[u] \in {NewUpload("completed", TRUE),
             NewUpload("wanted", FALSE), NewUpload("absent", FALSE)}
    BY DEF InitWith
  <2>3. \A u \in Upload : upload[u] \in UploadRow
    BY <2>1, <2>2 DEF UploadStatus
  <2> QED
    BY <2>3 DEF InitWith, UploadRows
<1>5. completing \in StepRows /\ scanning \in ScanRows
  BY DEF InitWith, StepRows, ScanRows
<1>6. task \in TaskRows
  BY DEF InitWith, TaskRows, TaskRow, NoTask, TaskStatus, TaskJobs
<1>7. sampleOp \in OperationRows /\ cleanupOp \in OperationRows
  BY DEF InitWith, OperationRows, Operation, NoOperation
<1>8. import \in ImportRows
  BY SamplesAreWellFormed DEF InitWith, ImportRows, ImportRow, NoImport
<1>9. importer \in ImporterRows
  BY DEF InitWith, ImporterRows, ImporterRow, NoImporter, Attempts
<1>10. entry \in EntryRows
  BY DEF InitWith, EntryRows, EntryRow, NoEntry
<1>11. item \in ItemRows /\ batcher \in BatcherRows
  BY SamplesAreWellFormed DEF InitWith, ItemRows, ItemRow, NoItem, BatcherRows, Attempts
<1>12. deleting \in [Archive -> BOOLEAN] /\ erasing \subseteq Blob
  BY DEF InitWith
<1> QED
  BY <1>2, <1>3, <1>4, <1>5, <1>6, <1>7, <1>8, <1>9, <1>10, <1>11, <1>12, TypeParts DEF Typed

LEMMA StartInv == Init => StorageInv
<1> SUFFICES ASSUME NEW plan \in Plans, InitWith(plan.done, plan.sent, plan.tries)
             PROVE  StorageInv
  BY DEF Init
<1> DEFINE done == plan.done
<1>1. done \in SUBSET Archive /\ IsFiniteSet(done) /\ plan.tries \in Attempts
  BY PlansAreValid
<1>2. TypeOK
  BY <1>1, StartTyped
<1>3. /\ \A u \in Upload : /\ upload[u].ref <=> u \in done
                           /\ u \notin done => upload[u].status \in {"wanted", "absent"}
                           /\ u \in done => upload[u].status = "completed"
      /\ \A u \in Upload : /\ task[u].status = "absent" /\ task[u].jobs = "none"
                           /\ ~task[u].sample /\ ~task[u].nested
      /\ \A a \in Archive : import[a].status = "absent" /\ ~import[a].source
      /\ \A e \in Entry : entry[e].status = "absent" /\ ~entry[e].ref
  <2>1. ASSUME NEW u \in Upload
        PROVE  /\ upload[u].ref <=> u \in done
               /\ u \notin done => upload[u].status \in {"wanted", "absent"}
               /\ u \in done => upload[u].status = "completed"
    <3>1. upload[u] = CASE u \in done -> NewUpload("completed", TRUE)
                        [] u \in plan.sent \ done -> NewUpload("wanted", FALSE)
                        [] OTHER -> NewUpload("absent", FALSE)
      BY <2>1 DEF InitWith
    <3>2. CASE u \in done
      <4>1. upload[u] = NewUpload("completed", TRUE)
        BY <3>1, <3>2 DEF InitWith
      <4> QED
        BY <3>2, <4>1 DEF NewUpload
    <3>3. CASE u \notin done
      <4>1. upload[u] \in {NewUpload("wanted", FALSE), NewUpload("absent", FALSE)}
        BY <3>1, <3>3
      <4> QED
        BY <3>3, <4>1 DEF NewUpload
    <3> QED
      BY <3>2, <3>3
  <2>2. /\ \A u \in Upload : /\ task[u].status = "absent" /\ task[u].jobs = "none"
                             /\ ~task[u].sample /\ ~task[u].nested
        /\ \A a \in Archive : import[a].status = "absent" /\ ~import[a].source
        /\ \A e \in Entry : entry[e].status = "absent" /\ ~entry[e].ref
    BY DEF InitWith, NoTask, NoImport, NoEntry
  <2> QED
    BY <2>1, <2>2
<1>4. References = {<<u, "upload">> : u \in done}
  <2>1. \A r : r \in References <=> \E u \in Upload : u \in done /\ r = <<u, "upload">>
    BY <1>3, ReferenceSet
  <2> QED
    BY <1>1, <2>1, Names
<1>5. /\ IsFiniteSet(References)
      /\ \A b : Held(References, b) = Cardinality({u \in done : Content[u] = b})
      /\ \A b : Held(References, b) \in Nat
      /\ \A b : Held(References, b) = 0 <=> {u \in done : Content[u] = b} = {}
  BY <1>1, <1>4, StartCounts
<1>6. \A b \in Blob : /\ blob[b].refs = Held(References, b)
                      /\ blob[b].state = IF Held(References, b) = 0 THEN "absent"
                                         ELSE "available"
                      /\ file[b] = IF \E u \in done : Content[u] = b THEN "fresh" ELSE "none"
                      /\ fence[b] = "free"
  BY <1>5 DEF InitWith, NoFence
<1>7. ReferencesAreExact
  BY <1>5, <1>6 DEF ReferencesAreExact
<1>8. NewRowsRefer
  BY <1>3 DEF NewRowsRefer
<1>9. FencesHeld /\ AvailableBlobHasFile
  <2>1. \A b \in Blob : blob[b].state = "available" => file[b] # "none"
    BY <1>5, <1>6
  <2> QED
    BY <1>6, <2>1 DEF FencesHeld, AvailableBlobHasFile
<1>10. ImportersFence /\ ImportersDone
  <2>1. \A a \in Archive, n \in Attempts : importer[a][n].at = {} /\ importer[a][n].done = {}
    BY DEF InitWith, NoImporter, Attempts
  <2> QED
    BY <2>1 DEF ImportersFence, ImportersDone
<1>11. CompletionsHold
  BY DEF CompletionsHold, InitWith
<1>12. SamplesHeld /\ ReadyImportIsComplete
  BY <1>3 DEF SamplesHeld, ReadyImportIsComplete
<1> QED
  BY <1>2, <1>5, <1>7, <1>8, <1>9, <1>10, <1>11, <1>12 DEF StorageInv, RefInv, DiskInv

LEMMA StorageKept == StorageInv /\ [Next]_vars => StorageInv'
<1> SUFFICES ASSUME StorageInv, [Next]_vars
             PROVE  StorageInv'
  OBVIOUS
<1>1. /\ RefInv /\ DiskInv /\ TypeOK /\ FencesHeld /\ CompletionsHold
      /\ SamplesHeld /\ ImportersDone /\ AvailableBlobHasFile /\ ReadyImportIsComplete
  BY DEF StorageInv, DiskInv
<1>2. DiskMoves
  BY <1>1, EveryStepDisk
<1>3. IsFiniteSet(References') /\ ReferencesAreExact'
  BY <1>1, EveryStepRefs, RefStepExact DEF RefInv
<1>4. TypeOK' /\ NewRowsRefer'
  BY <1>1, TypesKept, NewRowsKept
<1>5. FencesHeld' /\ AvailableBlobHasFile'
  BY <1>1, <1>2, FencesKept, FilesKept
<1>6. CompletionsHold' /\ ImportersFence'
  BY <1>1, CompletionsKept, ImportersKept
<1>7. SamplesHeld'
  BY <1>1, <1>2, <1>3, SamplesKept
<1>8. ImportersDone' /\ ReadyImportIsComplete'
  BY <1>1, DoneKept, ReadyKept
<1> QED
  BY <1>3, <1>4, <1>5, <1>6, <1>7, <1>8 DEF StorageInv, RefInv, DiskInv

LEMMA StorageInvariant == Spec => []StorageInv
BY StartInv, StorageKept, PTL DEF Spec

\* The rows are well formed.
THEOREM StorageTyped == Spec => []TypeOK
<1>1. StorageInv => TypeOK
  BY DEF StorageInv, RefInv
<1> QED
  BY <1>1, StorageInvariant, PTL

\* Every reference is counted once, and a content is kept as long as there is
\* one, whatever completes, expires, retries and crashes in between.
THEOREM CountsAreExact == Spec => []ReferencesAreExact
<1>1. StorageInv => ReferencesAreExact
  BY DEF StorageInv, RefInv
<1> QED
  BY <1>1, StorageInvariant, PTL

\* No sweep removes the file of a content that an upload or an import is
\* taking a reference to.
THEOREM AvailableFilesExist == Spec => []AvailableBlobHasFile
<1>1. StorageInv => AvailableBlobHasFile
  BY DEF StorageInv
<1> QED
  BY <1>1, StorageInvariant, PTL

\* Neither retention nor cleanup takes the sample from under a worker.
THEOREM WorkersKeepSamples == Spec => []HeldJobsHaveSamples
<1>1. StorageInv => HeldJobsHaveSamples
  BY DEF StorageInv, SamplesHeld, HeldJobsHaveSamples
<1> QED
  BY <1>1, StorageInvariant, PTL

\* Only an importer that has stored every member completes its import.
THEOREM ReadyImportsAreComplete == Spec => []ReadyImportIsComplete
<1>1. StorageInv => ReadyImportIsComplete
  BY DEF StorageInv
<1> QED
  BY <1>1, StorageInvariant, PTL

\* An upload gives at most one task, ever.
THEOREM TasksAreMadeOnce == Spec => TaskMadeOnce
<1>1. StorageInv /\ [Next]_vars =>
         [\A u \in Upload :
             /\ task[u].status # "absent" => task'[u].status # "absent"
             /\ task[u].status = "DELETED" => task'[u].status = "DELETED"]_vars
  <2>1. ASSUME StorageInv, [Next]_vars, NEW u \in Upload
        PROVE  /\ task[u].status # "absent" => task'[u].status # "absent"
               /\ task[u].status = "DELETED" => task'[u].status = "DELETED"
    BY <2>1, TaskMoves DEF StorageInv, RefInv, TaskMade, TaskAged
  <2> QED
    BY <2>1
<1> QED
  BY <1>1, StorageInvariant, PTL DEF Spec, TaskMadeOnce
=============================================================================
