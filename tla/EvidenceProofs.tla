---------------------------- MODULE EvidenceProofs ----------------------------
(***************************************************************************)
(* What the evidence of a task leaves on the disk and what the deletions   *)
(* take away, for any number of projects, runs, reports and processes.     *)
(*                                                                         *)
(* The invariant has three parts, next to the one of ReportProofs.  Disk:  *)
(* an attempt that is at work has no row yet, and its directory is neither *)
(* aged nor swept; a sweeper works on a project that can never be live     *)
(* again, whether or not it has lost its claim.  Erasure: the holder of a  *)
(* deletion has collected every run and report there is, and nothing is    *)
(* added.  Files: a report that was completed is done with for ever, so    *)
(* that a sweeper with an old list of files meets no new one.              *)
(***************************************************************************)
EXTENDS ReportProofs, FiniteSetTheorems, WellFoundedInduction

Working(p) == publisher[p].step \in {"leased", "begun", "copied", "prepared"}

\* An attempt at work has not inserted its project.
UnpublishedAtWork == \A p \in Project : Working(p) => project[p] = "none"

\* No two attempts of the job have inserted a project.
PublishedAlone ==
    \A p, q \in AttemptsOfJob : project[p] # "none" /\ project[q] # "none" => p = q

\* What an attempt has prepared is there, and too young for the reaper.
PreparedHere ==
    \A p \in Project : publisher[p].step \in {"copied", "prepared"} => directory[p] = "fresh"

\* A sweeper, with or without its claim, deletes what will not come back.
ClaimsAreOfDeleted ==
    \A w \in Sweeper : Busy(w) =>
        /\ sweeper[w].on \in Project
        /\ project[sweeper[w].on] \in {"deleted", "erased"}
        /\ sweeper[w].step = "removed" => directory[sweeper[w].on] = "none"

\* A deletion that is complete has left neither row nor directory.
CompletedErased ==
    \A p \in Project : op[p].status = "complete" =>
        project[p] = "erased" /\ directory[p] = "none"

Directories == directory \in [Project -> {"none", "fresh", "old"}]

Disk == /\ Directories /\ UnpublishedAtWork /\ PublishedAlone /\ PreparedHere
        /\ LiveProjectHasDirectory /\ ClaimsAreOfDeleted /\ CompletedErased

\* Steps that touch neither projects nor attempts nor deletions.
LEMMA DiskSame ==
    ASSUME Disk, UNCHANGED <<project, directory, arun, publisher, op, sweeper>>
    PROVE  Disk'
BY DEF Disk, Directories, UnpublishedAtWork, Working, PublishedAlone, AttemptsOfJob,
   PreparedHere, LiveProjectHasDirectory, ClaimsAreOfDeleted, Busy, CompletedErased

\* An attempt that neither writes to the disk nor inserts rows.
LEMMA QuietDisk ==
    ASSUME Disk, NEW p \in Project,
           UNCHANGED <<project, directory, op, sweeper>>,
           \A q \in Project : Working(q)' => Working(q),
           \A q \in Project : publisher'[q].step \in {"copied", "prepared"}
                              => publisher[q].step \in {"copied", "prepared"},
           \A q \in AttemptsOfJob' : q \in AttemptsOfJob \/ Working(q)
    PROVE  Disk'
<1>1. UnpublishedAtWork' /\ PreparedHere'
  BY DEF Disk, UnpublishedAtWork, PreparedHere
<1>2. PublishedAlone'
  BY DEF Disk, UnpublishedAtWork, PublishedAlone, AttemptsOfJob
<1>3. Directories' /\ LiveProjectHasDirectory' /\ ClaimsAreOfDeleted' /\ CompletedErased'
  BY DEF Disk, Directories, LiveProjectHasDirectory, ClaimsAreOfDeleted, Busy, CompletedErased
<1> QED
  BY <1>1, <1>2, <1>3 DEF Disk

\* An attempt at work that writes or removes its directory.
LEMMA WritesDisk ==
    ASSUME Disk, NEW p \in Project, Working(p),
           NEW age \in {"none", "fresh"},
           directory' = [directory EXCEPT ![p] = age],
           UNCHANGED <<project, arun, op, sweeper>>,
           \A q \in Project : Working(q)' => Working(q),
           \A q \in Project \ {p} : publisher'[q] = publisher[q],
           publisher'[p].step \in {"copied", "prepared"} => age = "fresh"
    PROVE  Disk'
<1>1. project[p] = "none"
  BY DEF Disk, UnpublishedAtWork
<1>2. Directories'
  BY DEF Disk, Directories
<1>3. \A q \in Project \ {p} : directory'[q] = directory[q]
  BY DEF Disk, Directories
<1>4. directory'[p] = age
  BY DEF Disk, Directories
<1>5. UnpublishedAtWork' /\ PublishedAlone'
  BY DEF Disk, UnpublishedAtWork, PublishedAlone, AttemptsOfJob
<1>6. PreparedHere'
  BY <1>3, <1>4 DEF Disk, PreparedHere
<1>7. LiveProjectHasDirectory' /\ CompletedErased'
  BY <1>1, <1>3 DEF Disk, LiveProjectHasDirectory, CompletedErased
<1>8. ClaimsAreOfDeleted'
  BY <1>1, <1>3 DEF Disk, ClaimsAreOfDeleted, Busy
<1> QED
  BY <1>2, <1>5, <1>6, <1>7, <1>8 DEF Disk

\* The first attempt that inserts a project has its directory.
LEMMA InsertsDisk ==
    ASSUME Rows, Disk, NEW p \in Project, NEW outcome \in {"succeeded", "partial"},
           publisher[p].step \in {"copied", "prepared"},
           arun[p] # "none", NoneInserted, Insert(p, outcome),
           UNCHANGED <<directory, op, sweeper>>,
           ~Working(p)',
           \A q \in Project \ {p} : publisher'[q] = publisher[q]
    PROVE  Disk'
<1>1. project[p] = "none" /\ directory[p] = "fresh"
  BY DEF Disk, UnpublishedAtWork, Working, PreparedHere
<1>2. /\ \A q \in Project \ {p} : project'[q] = project[q] /\ arun'[q] = arun[q]
      /\ project'[p] = "live" /\ arun'[p] = outcome
  BY DEF Insert, Rows, Projects, Attempts
<1>3. \A q \in AttemptsOfJob' : q = p \/ project'[q] = "none"
  BY <1>2 DEF NoneInserted, AttemptsOfJob
<1>4. UnpublishedAtWork' /\ PublishedAlone' /\ PreparedHere'
  BY <1>2, <1>3 DEF Disk, UnpublishedAtWork, Working, PublishedAlone, PreparedHere
<1>5. LiveProjectHasDirectory'
  BY <1>1, <1>2 DEF Disk, LiveProjectHasDirectory
<1>6. ClaimsAreOfDeleted' /\ CompletedErased'
  BY <1>1, <1>2 DEF Disk, ClaimsAreOfDeleted, Busy, CompletedErased
<1> QED
  BY <1>4, <1>5, <1>6 DEF Disk, Directories

\* Every step of an attempt keeps the disk in order.
LEMMA PublisherDisk ==
    ASSUME Rows, Guards, Disk, NEW p \in Project, PublisherStep(p)
    PROVE  Disk'
<1> USE DEF Moved, At
<1>1. UNCHANGED <<op, sweeper>>
  BY DEF PublisherStep, BeginRun, RefuseRun, CopyCached, PublishCacheHit, DropCopy,
     PreparePublication, CommitPublication, RollBackPublication, AbandonAnalysis, FailRun,
     FinishJob, CrashPublisher, unchangedButPublication, deletionVars
<1>2. publisher \in [Project -> PublisherRow] /\ arun \in [Project -> RunOutcome]
  BY DEF Rows, Attempts
<1>3. CASE \/ RefuseRun(p) \/ AbandonAnalysis(p) \/ FailRun(p) \/ FinishJob(p)
           \/ CrashPublisher(p)
  <2>1. /\ UNCHANGED <<project, directory>>
        /\ \E step \in {"failed", "failing", "idle"} :
              publisher' = [publisher EXCEPT ![p].step = step]
    BY <1>3 DEF RefuseRun, AbandonAnalysis, FailRun, FinishJob, CrashPublisher
  <2>2. AttemptsOfJob' \subseteq AttemptsOfJob
    BY <1>2, <1>3 DEF RefuseRun, AbandonAnalysis, FailRun, FinishJob, CrashPublisher,
       AttemptsOfJob
  <2> QED
    BY <1>1, <1>2, <2>1, <2>2, QuietDisk DEF Working, PublisherRow
<1>4. CASE BeginRun(p)
  <2>1. /\ UNCHANGED <<project, directory>> /\ Working(p)
        /\ \E step \in {"published", "begun"} : publisher' = [publisher EXCEPT ![p].step = step]
    BY <1>4 DEF BeginRun, Working
  <2>2. \A q \in AttemptsOfJob' : q \in AttemptsOfJob \/ q = p
    BY <1>2, <1>4 DEF BeginRun, Superseded, AttemptsOfJob
  <2> QED
    BY <1>1, <1>2, <2>1, <2>2, QuietDisk DEF Working, PublisherRow
<1>5. CASE \E q \in Project : CopyCached(p, q)
  <2>1. /\ UNCHANGED <<project, arun>> /\ Working(p)
        /\ directory' = [directory EXCEPT ![p] = "fresh"]
        /\ \E q \in Project :
              publisher' = [publisher EXCEPT ![p] = [step |-> "copied", source |-> q]]
    BY <1>5 DEF CopyCached, Working
  <2> QED
    BY <1>1, <1>2, <2>1, WritesDisk DEF Working
<1>6. CASE DropCopy(p) \/ RollBackPublication(p)
  <2>1. /\ UNCHANGED <<project, arun>> /\ Working(p)
        /\ directory' = [directory EXCEPT ![p] = "none"]
        /\ \E step \in {"begun", "failing", "failed"} :
              publisher' = [publisher EXCEPT ![p].step = step]
    BY <1>6 DEF DropCopy, RollBackPublication, Working
  <2> QED
    BY <1>1, <1>2, <2>1, WritesDisk DEF Working, PublisherRow
<1>7. CASE PreparePublication(p)
  <2>1. /\ UNCHANGED <<project, arun>> /\ Working(p)
        /\ directory' = [directory EXCEPT ![p] = "fresh"]
        /\ publisher' = [publisher EXCEPT ![p].step = "prepared"]
    BY <1>7 DEF PreparePublication, Working
  <2> QED
    BY <1>1, <1>2, <2>1, WritesDisk DEF Working, PublisherRow
<1>8. CASE PublishCacheHit(p) \/ CommitPublication(p)
  <2>1. /\ publisher[p].step \in {"copied", "prepared"} /\ NoneInserted
        /\ UNCHANGED directory
        /\ \E step \in {"published", "failing", "failed"} :
              publisher' = [publisher EXCEPT ![p].step = step]
    BY <1>8 DEF PublishCacheHit, CommitPublication
  <2>2. arun[p] # "none"
    BY <2>1 DEF Guards, AttemptsBegun
  <2>3. \A q \in Project \ {p} : publisher'[q] = publisher[q]
    BY <1>2, <2>1
  <2>4. publisher'[p].step \in {"published", "failing", "failed"}
    BY <1>2, <2>1 DEF PublisherRow
  <2>5. CASE UNCHANGED <<project, arun>>
    BY <1>1, <2>1, <2>3, <2>4, <2>5, QuietDisk DEF Working, AttemptsOfJob
  <2>6. CASE \E outcome \in {"succeeded", "partial"} : Insert(p, outcome)
    BY <1>1, <2>1, <2>2, <2>3, <2>4, <2>6, InsertsDisk DEF Working
  <2> QED
    BY <1>8, <2>5, <2>6 DEF PublishCacheHit, CommitPublication
<1> QED
  BY <1>3, <1>4, <1>5, <1>6, <1>7, <1>8 DEF PublisherStep

\* The job is leased to an attempt that has not been used.
LEMMA JobDisk ==
    ASSUME Rows, Disk, JobStep
    PROVE  Disk'
<1>1. UNCHANGED <<project, directory, arun, op, sweeper>>
  BY DEF JobStep, LeaseJob, ExpireJobLease, RecoverJob, unchangedButPublication, deletionVars
<1>2. CASE UNCHANGED publisher
  BY <1>1, <1>2, DiskSame
<1>3. ASSUME NEW p \in Project, LeaseJob(p)
      PROVE  Disk'
  <2>1. /\ project[p] = "none" /\ publisher' = [publisher EXCEPT ![p].step = "leased"]
    BY <1>3 DEF LeaseJob, Moved
  <2>2. publisher \in [Project -> PublisherRow]
    BY DEF Rows, Attempts
  <2>3. /\ publisher'[p].step = "leased"
        /\ \A q \in Project \ {p} : publisher'[q] = publisher[q]
    BY <2>1, <2>2 DEF PublisherRow
  <2>4. UnpublishedAtWork' /\ PreparedHere'
    BY <1>1, <2>1, <2>3 DEF Disk, UnpublishedAtWork, Working, PreparedHere
  <2> QED
    BY <1>1, <2>4 DEF Disk, Directories, PublishedAlone, AttemptsOfJob,
       LiveProjectHasDirectory, ClaimsAreOfDeleted, Busy, CompletedErased
<1> QED
  BY <1>2, <1>3 DEF JobStep, ExpireJobLease, RecoverJob

\* The reaper takes no directory that anybody works on.
LEMMA ReaperDisk ==
    ASSUME Disk, ReaperStep
    PROVE  Disk'
<1>1. UNCHANGED <<project, arun, publisher, op, sweeper>>
  BY DEF ReaperStep, AgeDirectory, ReapDirectory, AgeReportFile, ReapReportFile,
     publicationVars, deletionVars
<1>2. CASE UNCHANGED directory
  BY <1>1, <1>2, DiskSame
<1>3. ASSUME NEW p \in Project, NEW age \in {"none", "old"},
             directory' = [directory EXCEPT ![p] = age],
             directory[p] # "none",
             publisher[p].step \notin {"copied", "prepared"},
             project[p] = "live" => age = "old"
      PROVE  Disk'
  <2>1. /\ Directories' /\ directory'[p] = age
        /\ \A q \in Project \ {p} : directory'[q] = directory[q]
    BY <1>3 DEF Disk, Directories
  <2>2. PreparedHere' /\ LiveProjectHasDirectory'
    BY <1>1, <1>3, <2>1 DEF Disk, PreparedHere, LiveProjectHasDirectory
  <2>3. ClaimsAreOfDeleted' /\ CompletedErased'
    BY <1>1, <1>3, <2>1 DEF Disk, ClaimsAreOfDeleted, Busy, CompletedErased
  <2> QED
    BY <1>1, <2>1, <2>2, <2>3 DEF Disk, UnpublishedAtWork, Working, PublishedAlone,
       AttemptsOfJob
<1>4. ASSUME NEW p \in Project, AgeDirectory(p) \/ ReapDirectory(p)
      PROVE  Disk'
  <2>1. publisher[p].step \notin {"copied", "prepared"}
    BY <1>4 DEF AgeDirectory, ReapDirectory, At, Disk, PreparedHere
  <2> QED
    BY <1>3, <1>4, <2>1 DEF AgeDirectory, ReapDirectory
<1> QED
  BY <1>2, <1>4 DEF ReaperStep, AgeReportFile, ReapReportFile
-----------------------------------------------------------------------------
\* A deletion that moves between its stages moves no project.
LEMMA OperationDisk ==
    ASSUME Disk, UNCHANGED <<project, directory, arun, publisher, sweeper>>,
           \A p \in Project : op'[p].status = "complete" => op[p].status = "complete"
    PROVE  Disk'
BY DEF Disk, Directories, UnpublishedAtWork, Working, PublishedAlone, AttemptsOfJob,
   PreparedHere, LiveProjectHasDirectory, ClaimsAreOfDeleted, Busy, CompletedErased

\* A live project is deleted, or a deleted one is erased.
LEMMA ProjectDisk ==
    ASSUME Rows, Disk, NEW p \in Project, NEW end \in {"deleted", "erased"},
           project' = [project EXCEPT ![p] = end],
           project[p] # "none",
           UNCHANGED <<directory, arun, publisher>>,
           \A q \in Project : op'[q].status = "complete" =>
               \/ op[q].status = "complete" /\ q # p
               \/ q = p /\ end = "erased" /\ directory[p] = "none",
           \A w \in Sweeper : Busy(w)' => Busy(w) /\ sweeper'[w].on = sweeper[w].on
                                          /\ sweeper'[w].step = sweeper[w].step
    PROVE  Disk'
<1>1. /\ project'[p] = end
      /\ \A q \in Project \ {p} : project'[q] = project[q]
  BY DEF Rows, Projects
<1>2. UnpublishedAtWork' /\ PublishedAlone' /\ PreparedHere' /\ LiveProjectHasDirectory'
  BY <1>1 DEF Disk, UnpublishedAtWork, Working, PublishedAlone, AttemptsOfJob, PreparedHere,
     LiveProjectHasDirectory
<1>3. CompletedErased'
  BY <1>1 DEF Disk, CompletedErased
<1>4. ClaimsAreOfDeleted'
  <2> SUFFICES ASSUME NEW w \in Sweeper, Busy(w)'
               PROVE  /\ sweeper'[w].on \in Project
                      /\ project'[sweeper'[w].on] \in {"deleted", "erased"}
                      /\ sweeper'[w].step = "removed" => directory'[sweeper'[w].on] = "none"
    BY DEF ClaimsAreOfDeleted
  <2>1. /\ sweeper[w].on \in Project
        /\ project[sweeper[w].on] \in {"deleted", "erased"}
        /\ sweeper[w].step = "removed" => directory[sweeper[w].on] = "none"
    BY DEF Disk, ClaimsAreOfDeleted
  <2> QED
    BY <1>1, <2>1
<1> QED
  BY <1>2, <1>3, <1>4 DEF Disk, Directories

\* Request, claim and expiry of a deletion.
LEMMA DeletionDisk ==
    ASSUME Rows, Guards, Disk, NEW p \in Project, ProjectDeletionStep(p)
    PROVE  Disk'
<1>1. op \in [Project -> OperationRow] /\ sweeper \in [Sweeper -> ClaimRow]
  BY DEF Rows, Operations, Claims
<1>2. UNCHANGED <<directory, arun, publisher>>
  BY DEF ProjectDeletionStep, RequestProjectDeletion, ExpireDeletionLease, DeferDeletion,
     ClaimDeletion, unchangedButEvidence, publicationVars
<1>3. CASE RequestProjectDeletion(p)
  <2>1. /\ project[p] = "live" /\ project' = [project EXCEPT ![p] = "deleted"]
        /\ UNCHANGED sweeper
        /\ \E status \in {"pending", "cancelling"} : op' = [op EXCEPT ![p].status = status]
    BY <1>3 DEF RequestProjectDeletion
  <2>2. \A q \in Project : op'[q].status = "complete" => op[q].status = "complete" /\ q # p
    BY <1>1, <2>1 DEF OperationRow
  <2> QED
    BY <1>2, <2>1, <2>2, ProjectDisk DEF Busy
<1>4. CASE ExpireDeletionLease(p)
  <2>1. /\ UNCHANGED <<project, sweeper>> /\ op' = [op EXCEPT ![p].live = FALSE]
    BY <1>4 DEF ExpireDeletionLease
  <2>2. \A q \in Project : op'[q].status = op[q].status
    BY <1>1, <2>1 DEF OperationRow
  <2> QED
    BY <1>2, <2>1, <2>2, OperationDisk
<1>5. ASSUME NEW w \in Sweeper, DeferDeletion(w, p)
      PROVE  Disk'
  <2>1. /\ UNCHANGED <<project, sweeper>>
        /\ op' = [op EXCEPT ![p] = [status |-> "cancelling", holder |-> NoHolder,
                                    live |-> FALSE]]
    BY <1>5 DEF DeferDeletion
  <2>2. \A q \in Project : op'[q].status = "complete" => op[q].status = "complete"
    BY <1>1, <2>1
  <2> QED
    BY <1>2, <2>1, <2>2, OperationDisk
<1>6. ASSUME NEW w \in Sweeper, ClaimDeletion(w, p)
      PROVE  Disk'
  <2>1. /\ project' = project /\ Claimable(p)
        /\ op' = [op EXCEPT ![p] = [status |-> "deleting", holder |-> w, live |-> TRUE]]
        /\ \A v \in Sweeper \ {w} : sweeper'[v] = sweeper[v]
        /\ sweeper'[w].on = p /\ sweeper'[w].step = "claimed"
    BY <1>1, <1>6 DEF ClaimDeletion
  <2>2. project[p] = "deleted"
    BY <2>1 DEF Guards, DeletionsTombstone, DeletionActive, Claimable
  <2>3. ClaimsAreOfDeleted'
    BY <1>2, <2>1, <2>2 DEF Disk, ClaimsAreOfDeleted, Busy
  <2>4. \A q \in Project : op'[q].status = "complete" => op[q].status = "complete"
    BY <1>1, <2>1
  <2> QED
    BY <1>2, <2>1, <2>3, <2>4 DEF Disk, Directories, UnpublishedAtWork, Working,
       PublishedAlone, AttemptsOfJob, PreparedHere, LiveProjectHasDirectory, CompletedErased
<1> QED
  BY <1>3, <1>4, <1>5, <1>6 DEF ProjectDeletionStep

\* A sweeper removes directories of deleted projects only, its claim lost or
\* not, and erases no other project.
LEMMA SweeperDisk ==
    ASSUME Rows, Guards, Disk, NEW w \in Sweeper, SweeperStep(w)
    PROVE  Disk'
<1> DEFINE p == sweeper[w].on
<1>1. op \in [Project -> OperationRow] /\ sweeper \in [Sweeper -> ClaimRow]
  BY DEF Rows, Operations, Claims
<1>2. Busy(w) => /\ p \in Project /\ project[p] \in {"deleted", "erased"}
                 /\ sweeper[w].step = "removed" => directory[p] = "none"
  BY DEF Disk, ClaimsAreOfDeleted
<1>3. UNCHANGED <<arun, publisher>>
  BY DEF SweeperStep, RemoveReportFiles, RemoveDirectory, FinalizeProjectDeletion,
     LeaveProjectDeletion, RenewDeletion, unchangedButEvidence, publicationVars
<1>4. CASE \E files \in SUBSET Report : RemoveReportFiles(w, files)
  <2>1. /\ UNCHANGED <<project, directory, op>>
        /\ \E files \in SUBSET Report :
              sweeper' = [sweeper EXCEPT ![w].files = sweeper[w].files \ files]
    BY <1>4 DEF RemoveReportFiles
  <2>2. \A v \in Sweeper : sweeper'[v].on = sweeper[v].on /\ sweeper'[v].step = sweeper[v].step
    BY <1>1, <2>1 DEF ClaimRow
  <2> QED
    BY <1>3, <2>1, <2>2 DEF Disk, Directories, UnpublishedAtWork, Working, PublishedAlone,
       AttemptsOfJob, PreparedHere, LiveProjectHasDirectory, ClaimsAreOfDeleted, Busy,
       CompletedErased
<1>5. CASE RemoveDirectory(w)
  <2>1. /\ UNCHANGED <<project, op>> /\ Busy(w)
        /\ directory' = [directory EXCEPT ![p] = "none"]
        /\ sweeper' = [sweeper EXCEPT ![w].step = "removed"]
    BY <1>5 DEF RemoveDirectory, Busy
  <2>2. /\ \A v \in Sweeper \ {w} : sweeper'[v] = sweeper[v]
        /\ sweeper'[w].on = p /\ p \in Project
    BY <1>1, <1>2, <2>1 DEF ClaimRow
  <2>3. /\ Directories' /\ directory'[p] = "none"
        /\ \A q \in Project \ {p} : directory'[q] = directory[q]
    BY <2>1, <2>2 DEF Disk, Directories
  <2>4. PreparedHere' /\ LiveProjectHasDirectory' /\ CompletedErased'
    BY <1>2, <1>3, <2>1, <2>3 DEF Disk, UnpublishedAtWork, Working, PreparedHere,
       LiveProjectHasDirectory, CompletedErased
  <2>5. ClaimsAreOfDeleted'
    <3> SUFFICES ASSUME NEW v \in Sweeper, Busy(v)'
                 PROVE  /\ sweeper'[v].on \in Project
                        /\ project'[sweeper'[v].on] \in {"deleted", "erased"}
                        /\ sweeper'[v].step = "removed" => directory'[sweeper'[v].on] = "none"
      BY DEF ClaimsAreOfDeleted
    <3>1. CASE v = w
      BY <1>2, <2>1, <2>2, <2>3, <3>1
    <3>2. CASE v # w
      BY <2>1, <2>2, <2>3, <3>2 DEF Disk, ClaimsAreOfDeleted, Busy
    <3> QED
      BY <3>1, <3>2
  <2> QED
    BY <1>3, <2>1, <2>3, <2>4, <2>5 DEF Disk, UnpublishedAtWork, Working, PublishedAlone,
       AttemptsOfJob
<1>6. CASE FinalizeProjectDeletion(w)
  <2>1. /\ Busy(w) /\ sweeper[w].step = "removed"
        /\ project' = [project EXCEPT ![p] = "erased"]
        /\ op' = [op EXCEPT ![p] = [status |-> "complete", holder |-> NoHolder,
                                    live |-> FALSE]]
        /\ sweeper' = [sweeper EXCEPT ![w] = NoClaim]
        /\ UNCHANGED directory
    BY <1>6 DEF FinalizeProjectDeletion, HoldsDeletion, unchangedButEvidence
  <2>2. \A v \in Sweeper : Busy(v)' => Busy(v) /\ sweeper'[v].on = sweeper[v].on
                                       /\ sweeper'[v].step = sweeper[v].step
    BY <1>1, <2>1 DEF Busy, NoClaim
  <2>3. \A q \in Project : op'[q].status = "complete" =>
            \/ op[q].status = "complete" /\ q # p
            \/ q = p /\ directory[p] = "none"
    BY <1>1, <1>2, <2>1
  <2>4. p \in Project /\ project[p] # "none"
    BY <1>2, <2>1
  <2> QED
    BY <1>3, <2>1, <2>2, <2>3, <2>4, ProjectDisk
<1>7. CASE LeaveProjectDeletion(w)
  <2>1. /\ UNCHANGED <<project, directory>>
        /\ sweeper' = [sweeper EXCEPT ![w] = NoClaim]
        /\ \/ UNCHANGED op
           \/ op' = [op EXCEPT ![p] = [status |-> "failed", live |-> FALSE,
                                       holder |-> NoHolder]]
    BY <1>7 DEF LeaveProjectDeletion, unchangedButEvidence
  <2>2. \A q \in Project : op'[q].status = "complete" => op[q].status = "complete"
    BY <1>1, <2>1
  <2>3. \A v \in Sweeper : Busy(v)' => sweeper'[v] = sweeper[v]
    BY <1>1, <2>1 DEF Busy, NoClaim
  <2> QED
    BY <1>3, <2>1, <2>2, <2>3 DEF Disk, Directories, UnpublishedAtWork, Working,
       PublishedAlone, AttemptsOfJob, PreparedHere, LiveProjectHasDirectory,
       ClaimsAreOfDeleted, Busy, CompletedErased
<1>8. CASE RenewDeletion(w)
  <2>1. /\ UNCHANGED <<project, directory, sweeper>> /\ op' = [op EXCEPT ![p].live = TRUE]
    BY <1>8 DEF RenewDeletion, unchangedButEvidence
  <2>2. \A q \in Project : op'[q].status = op[q].status
    BY <1>1, <2>1 DEF OperationRow
  <2> QED
    BY <1>3, <2>1, <2>2, OperationDisk
<1> QED
  BY <1>4, <1>5, <1>6, <1>7, <1>8 DEF SweeperStep

\* Runs, reports and their generators have no part in it.
LEMMA OtherDisk ==
    ASSUME Disk,
           \/ \E r \in Run : RunStep(r) \/ RunDeletionStep(r)
           \/ \E s \in Report : GeneratorStep(s) \/ ReportStep(s)
           \/ UNCHANGED vars
    PROVE  Disk'
<1>1. ASSUME NEW r \in Run, RunStep(r)
      PROVE  UNCHANGED <<project, directory, arun, publisher, op, sweeper>>
  BY <1>1 DEF RunStep, CreateRun, BeginAnalysis, PublishAnalysis, EndAnalysis,
     RequeueAnalysis, CancelRun, Advance, unchangedButRuns, publicationVars, deletionVars
<1>2. ASSUME NEW r \in Run, RunDeletionStep(r)
      PROVE  UNCHANGED <<project, directory, arun, publisher, op, sweeper>>
  BY <1>2 DEF RunDeletionStep, RequestRunDeletion, RecoverRunDeletion, Entomb,
     RemoveRunReportFiles, FinalizeRunDeletion, InterruptRunDeletion, unchangedButEvidence,
     publicationVars
<1>3. ASSUME NEW s \in Report, GeneratorStep(s) \/ ReportStep(s)
      PROVE  UNCHANGED <<project, directory, arun, publisher, op, sweeper>>
  BY <1>3 DEF GeneratorStep, WriteSnapshot, AuthorizePublish, RenameArtifact, CompleteReport,
     RejectCompletion, RemoveArtifact, AbandonGeneration, FailReport, CrashGenerator,
     ReportStep, ClaimReport, ExpireReportLease, RenewReport, RecoverReport,
     unchangedButReports, publicationVars, deletionVars
<1>4. UNCHANGED vars => UNCHANGED <<project, directory, arun, publisher, op, sweeper>>
  BY DEF vars, publicationVars, deletionVars
<1> QED
  BY <1>1, <1>2, <1>3, <1>4, DiskSame

\* The disk stays in order.
LEMMA NextDisk ==
    ASSUME Rows, Guards, Disk, [Next]_vars
    PROVE  Disk'
BY PublisherDisk, JobDisk, ReaperDisk, DeletionDisk, SweeperDisk, OtherDisk DEF Next

\* In the beginning the live projects have their directories.
LEMMA InitDisk == Init => Disk
<1> SUFFICES ASSUME Init PROVE Disk
  OBVIOUS
<1>1. PICK plan \in Plans :
         InitWith(plan.live, plan.engine, plan.requests, plan.loops)
  BY DEF Init
<1>2. Directories /\ UnpublishedAtWork /\ PreparedHere /\ PublishedAlone /\ CompletedErased
  BY <1>1 DEF InitWith, Directories, UnpublishedAtWork, Working, PreparedHere,
     PublishedAlone, AttemptsOfJob, CompletedErased
<1>3. LiveProjectHasDirectory
  BY <1>1 DEF InitWith, LiveProjectHasDirectory
<1>4. ClaimsAreOfDeleted
  BY <1>1 DEF InitWith, NoClaim, ClaimsAreOfDeleted, Busy
<1> QED
  BY <1>2, <1>3, <1>4 DEF Disk
-----------------------------------------------------------------------------
\* The row of a report stays but for its lease.
Steady(s) ==
    /\ report'[s].status = report[s].status /\ report'[s].snapshot = report[s].snapshot
    /\ report'[s].deleted = report[s].deleted /\ report'[s].owned = report[s].owned
    /\ report'[s].shows = report[s].shows

\* It is taken from its generator and its readers, and still a row.
Lost(s) ==
    /\ report'[s].status = "absent" <=> report[s].status = "absent"
    /\ report'[s].status = "complete" <=> report[s].status = "complete"
    /\ report'[s].shows = report[s].shows
    /\ report'[s].snapshot = "stale" /\ ~Visible(s)' /\ ~Owned(s)'

\* It is deleted.
Gone(s) == report'[s] = NoReport

\* What may happen to a report that nobody claims or completes.
Passes(s) == Steady(s) \/ Lost(s) \/ Gone(s)

\* A report that is not touched passes.
LEMMA UntouchedPasses ==
    ASSUME UNCHANGED report
    PROVE  \A s \in Report : Passes(s)
BY DEF Passes, Steady

\* So do those that a change of the results invalidates.
LEMMA InvalidatedPasses ==
    ASSUME Reports, report' = Invalidated
    PROVE  \A s \in Report : Passes(s)
<1> SUFFICES ASSUME NEW s \in Report PROVE Passes(s)
  OBVIOUS
<1>1. ~Visible(s)' /\ ~Owned(s)'
  BY InvalidatedTaken DEF Taken
<1>2. report[s] \in ReportRow
  BY DEF Reports
<1>3. CASE report[s].snapshot \in {"staged", "current"} /\ ~report[s].deleted
  <2>1. /\ report'[s].status = "absent" <=> report[s].status = "absent"
        /\ report'[s].status = "complete" <=> report[s].status = "complete"
        /\ report'[s].shows = report[s].shows /\ report'[s].snapshot = "stale"
    BY <1>2, <1>3 DEF Invalidated, ReportRow, ReportStatus
  <2> QED
    BY <1>1, <2>1 DEF Passes, Lost
<1>4. CASE ~(report[s].snapshot \in {"staged", "current"} /\ ~report[s].deleted)
  BY <1>4 DEF Invalidated, Passes, Steady
<1> QED
  BY <1>3, <1>4

\* And those that a deletion hides.
LEMMA HiddenPasses ==
    ASSUME Reports, report' = Hidden
    PROVE  \A s \in Report : Passes(s)
<1> SUFFICES ASSUME NEW s \in Report PROVE Passes(s)
  OBVIOUS
<1>1. ~Visible(s)' /\ ~Owned(s)'
  BY HiddenTakes DEF Taken
<1>2. report[s] \in ReportRow
  BY DEF Reports
<1> DEFINE Open == /\ report[s].snapshot \in {"staged", "current"} /\ ~report[s].deleted
                   /\ report[s].status # "absent"
<1>3. CASE Open
  <2>1. /\ report'[s].status = report[s].status /\ report'[s].shows = report[s].shows
        /\ report'[s].snapshot = "stale"
    BY <1>2, <1>3 DEF Hidden, ReportRow
  <2> QED
    BY <1>1, <2>1 DEF Passes, Lost
<1>4. CASE ~Open
  BY <1>4 DEF Hidden, Passes, Steady
<1> QED
  BY <1>3, <1>4

\* And those whose rows are deleted with a run or a project.
LEMMA WithoutPasses ==
    ASSUME NEW gone, report' = Without(report, gone)
    PROVE  \A s \in Report : Passes(s)
BY DEF Passes, Gone, Steady, Without

\* A tombstone takes all reports.
LEMMA EntombPasses ==
    ASSUME Reports, NEW r \in Run, Entomb(r)
    PROVE  \A s \in Report : Passes(s)
<1> SUFFICES ASSUME NEW s \in Report PROVE Passes(s)
  OBVIOUS
<1>1. report[s] \in ReportRow
  BY DEF Reports
<1>2. CASE s \in ReportRows
  <2>1. report'[s] = [report[s] EXCEPT !.snapshot = "stale", !.deleted = TRUE,
                                       !.owned = FALSE, !.live = FALSE]
    BY <1>2 DEF Entomb
  <2>2. /\ report'[s].status = report[s].status /\ report'[s].shows = report[s].shows
        /\ report'[s].snapshot = "stale" /\ report'[s].owned = FALSE
    BY <1>1, <2>1 DEF ReportRow
  <2>3. ~Visible(s)' /\ ~Owned(s)'
    BY <2>2 DEF Visible, CurrentReports, Owned
  <2> QED
    BY <2>2, <2>3 DEF Passes, Lost
<1>3. CASE s \notin ReportRows
  BY <1>3 DEF Entomb, Passes, Steady
<1> QED
  BY <1>2, <1>3

\* What a failure leaves of a row.
LEMMA FailedRow ==
    ASSUME NEW row \in ReportRow
    PROVE  /\ Failed(row).status = "failed" /\ Failed(row).snapshot = "stale"
           /\ Failed(row).owned = FALSE
           /\ Failed(row).shows = row.shows
BY DEF Failed, ReportRow

\* A generation that fails or is recovered.
LEMMA FailedPasses ==
    ASSUME Reports, NEW s \in Report, report' = [report EXCEPT ![s] = Failed(report[s])],
           report[s].status = "generating"
    PROVE  \A t \in Report : Passes(t)
<1>1. /\ report'[s] = Failed(report[s])
      /\ \A t \in Report \ {s} : report'[t] = report[t]
  BY DEF Reports
<1>2. report[s] \in ReportRow
  BY DEF Reports
<1>3. /\ report'[s].status = "failed" /\ report'[s].shows = report[s].shows
      /\ report'[s].snapshot = "stale" /\ report'[s].owned = FALSE
  BY <1>1, <1>2, FailedRow
<1>6. ~Visible(s)' /\ ~Owned(s)'
  BY <1>3 DEF Visible, CurrentReports, Owned, Staged
<1>4. Passes(s)
  BY <1>3, <1>6 DEF Passes, Lost
<1>5. \A t \in Report \ {s} : Passes(t)
  BY <1>1 DEF Passes, Steady
<1> QED
  BY <1>4, <1>5

\* The end and the renewal of a lease.
LEMMA LeasePasses ==
    ASSUME Reports, NEW s \in Report, NEW up \in BOOLEAN,
           report' = [report EXCEPT ![s].live = up]
    PROVE  \A t \in Report : Passes(t)
BY DEF Reports, ReportRow, Passes, Steady

\* A completion makes the other reports stale.
LEMMA CompletionPasses ==
    ASSUME Reports, NEW s \in Report, CompleteReport(s)
    PROVE  \A t \in Report \ {s} : Passes(t)
<1> SUFFICES ASSUME NEW t \in Report \ {s} PROVE Passes(t)
  OBVIOUS
<1>1. report[t] \in ReportRow
  BY DEF Reports
<1>2. CASE t \in CurrentReports
  <2>1. report'[t] = [report[t] EXCEPT !.snapshot = "stale"]
    BY <1>2 DEF CompleteReport
  <2>2. /\ report'[t].status = report[t].status /\ report'[t].shows = report[t].shows
        /\ report'[t].snapshot = "stale"
    BY <1>1, <2>1 DEF ReportRow
  <2>3. ~Visible(t)' /\ ~Owned(t)'
    BY <2>2 DEF Visible, CurrentReports, Owned, Staged
  <2> QED
    BY <2>2, <2>3 DEF Passes, Lost
<1>3. CASE t \notin CurrentReports
  BY <1>3 DEF CompleteReport, Passes, Steady
<1> QED
  BY <1>2, <1>3

\* The report that is completed.
LEMMA CompletedRow ==
    ASSUME Reports, NEW s \in Report, CompleteReport(s)
    PROVE  /\ report'[s].status = "complete" /\ report'[s].owned = FALSE
           /\ report'[s].shows = generator[s].shows
           /\ report'[s].snapshot = "current" /\ report'[s].deleted = FALSE
<1> DEFINE Made(row, runs) == [row EXCEPT !.status = "complete", !.snapshot = "current",
                                          !.owned = FALSE, !.live = FALSE, !.shows = runs]
<1>1. \A row \in ReportRow : \A runs :
         /\ Made(row, runs).status = "complete" /\ Made(row, runs).owned = FALSE
         /\ Made(row, runs).shows = runs /\ Made(row, runs).snapshot = "current"
         /\ Made(row, runs).deleted = row.deleted
  BY DEF ReportRow
<1>2. report'[s] = Made(report[s], generator[s].shows)
  BY DEF CompleteReport
<1>3. report[s] \in ReportRow /\ report[s].deleted = FALSE
  BY DEF Reports, ReportRow, CompleteReport, Owned, Staged
<1> HIDE DEF Made
<1> QED
  BY <1>1, <1>2, <1>3

\* The report that is claimed is a new one; the others stay as they are.
LEMMA ClaimedRow ==
    ASSUME Reports, NEW s \in Report, ClaimReport(s)
    PROVE  /\ \A t \in Report \ {s} : Passes(t)
           /\ report'[s].status = "generating" /\ report'[s].shows = {}
           /\ report'[s].snapshot = "staged" /\ report'[s].deleted = FALSE
<1>1. report'[s] = [NoReport EXCEPT !.status = "generating", !.owned = TRUE, !.live = TRUE]
  BY DEF ClaimReport, Reports
<1>2. /\ report'[s].status = "generating" /\ report'[s].shows = {}
      /\ report'[s].snapshot = "staged" /\ report'[s].deleted = FALSE
  BY <1>1 DEF NoReport
<1>3. \A t \in Report \ {s} : report'[t] = report[t]
  BY DEF ClaimReport, Reports
<1> QED
  BY <1>2, <1>3 DEF Passes, Steady

\* No other step claims or completes a report.
LEMMA ReportsMove ==
    ASSUME Reports, [Next]_vars
    PROVE  \A s \in Report : Passes(s) \/ ClaimReport(s) \/ CompleteReport(s)
<1>1. CASE JobStep \/ \E p \in Project : PublisherStep(p)
  <2>1. UNCHANGED report
    BY <1>1 DEF JobStep, LeaseJob, ExpireJobLease, RecoverJob, PublisherStep, BeginRun,
       RefuseRun, CopyCached, PublishCacheHit, DropCopy, PreparePublication,
       CommitPublication, RollBackPublication, AbandonAnalysis, FailRun, FinishJob,
       CrashPublisher, unchangedButPublication, reportVars
  <2> QED
    BY <2>1, UntouchedPasses
<1>2. CASE ReaperStep \/ UNCHANGED vars
  <2>1. UNCHANGED report
    BY <1>2 DEF ReaperStep, AgeDirectory, ReapDirectory, AgeReportFile, ReapReportFile,
       reportVars, vars
  <2> QED
    BY <2>1, UntouchedPasses
<1>3. ASSUME NEW r \in Run, RunStep(r)
      PROVE  \A s \in Report : Passes(s)
  <2>1. report' = Invalidated
    BY <1>3 DEF RunStep, CreateRun, BeginAnalysis, PublishAnalysis, EndAnalysis,
       RequeueAnalysis, CancelRun, Advance
  <2> QED
    BY <2>1, InvalidatedPasses
<1>4. ASSUME NEW r \in Run, RunDeletionStep(r)
      PROVE  \A s \in Report : Passes(s)
  <2>1. CASE UNCHANGED report
    BY <2>1, UntouchedPasses
  <2>2. CASE FinalizeRunDeletion(r)
    BY <2>2, WithoutPasses DEF FinalizeRunDeletion
  <2> QED
    BY <1>4, <2>1, <2>2, EntombPasses DEF RunDeletionStep, RequestRunDeletion,
       RecoverRunDeletion, RemoveRunReportFiles, InterruptRunDeletion, reportVars
<1>5. ASSUME NEW p \in Project, ProjectDeletionStep(p)
      PROVE  \A s \in Report : Passes(s)
  <2>1. report' = report \/ report' = Hidden
    BY <1>5 DEF ProjectDeletionStep, RequestProjectDeletion, ExpireDeletionLease,
       DeferDeletion, ClaimDeletion
  <2> QED
    BY <2>1, UntouchedPasses, HiddenPasses
<1>6. ASSUME NEW w \in Sweeper, SweeperStep(w)
      PROVE  \A s \in Report : Passes(s)
  <2>1. report' = report \/ report' = Without(report, sweeper[w].reports)
    BY <1>6 DEF SweeperStep, RemoveReportFiles, RemoveDirectory, FinalizeProjectDeletion,
       LeaveProjectDeletion, RenewDeletion, reportVars
  <2> QED
    BY <2>1, UntouchedPasses, WithoutPasses
<1>7. ASSUME NEW s \in Report, GeneratorStep(s) \/ ReportStep(s)
      PROVE  \A t \in Report : Passes(t) \/ ClaimReport(t) \/ CompleteReport(t)
  <2>1. CASE ClaimReport(s)
    BY <2>1, ClaimedRow
  <2>2. CASE CompleteReport(s)
    BY <2>2, CompletionPasses
  <2>3. CASE ExpireReportLease(s) \/ RenewReport(s)
    BY <2>3, LeasePasses DEF ExpireReportLease, RenewReport
  <2>4. CASE FailReport(s) \/ RecoverReport(s)
    BY <2>4, FailedPasses, UntouchedPasses DEF FailReport, RecoverReport, Owned, Staged
  <2>5. CASE UNCHANGED report
    BY <2>5, UntouchedPasses
  <2> QED
    BY <1>7, <2>1, <2>2, <2>3, <2>4, <2>5 DEF GeneratorStep, WriteSnapshot,
       AuthorizePublish, RenameArtifact, RejectCompletion, RemoveArtifact,
       AbandonGeneration, CrashGenerator, ReportStep
<1> QED
  BY <1>1, <1>2, <1>3, <1>4, <1>5, <1>6, <1>7 DEF Next
-----------------------------------------------------------------------------
\* Steps that belong to nobody's deletion of a project.
LEMMA OperationsSame ==
    ASSUME \/ JobStep \/ ReaperStep \/ UNCHANGED vars
           \/ \E p \in Project : PublisherStep(p)
           \/ \E r \in Run : RunStep(r) \/ RunDeletionStep(r)
           \/ \E s \in Report : GeneratorStep(s) \/ ReportStep(s)
    PROVE  UNCHANGED <<op, sweeper>>
<1>1. JobStep \/ ReaperStep \/ UNCHANGED vars => UNCHANGED <<op, sweeper>>
  BY DEF JobStep, LeaseJob, ExpireJobLease, RecoverJob, unchangedButPublication,
     ReaperStep, AgeDirectory, ReapDirectory, AgeReportFile, ReapReportFile, deletionVars, vars
<1>2. ASSUME NEW p \in Project, PublisherStep(p)
      PROVE  UNCHANGED <<op, sweeper>>
  BY <1>2 DEF PublisherStep, BeginRun, RefuseRun, CopyCached, PublishCacheHit, DropCopy,
     PreparePublication, CommitPublication, RollBackPublication, AbandonAnalysis, FailRun,
     FinishJob, CrashPublisher, unchangedButPublication, deletionVars
<1>3. ASSUME NEW r \in Run, RunStep(r) \/ RunDeletionStep(r)
      PROVE  UNCHANGED <<op, sweeper>>
  BY <1>3 DEF RunStep, CreateRun, BeginAnalysis, PublishAnalysis, EndAnalysis,
     RequeueAnalysis, CancelRun, Advance, unchangedButRuns, deletionVars, RunDeletionStep,
     RequestRunDeletion, RecoverRunDeletion, Entomb, RemoveRunReportFiles,
     FinalizeRunDeletion, InterruptRunDeletion
<1>4. ASSUME NEW s \in Report, GeneratorStep(s) \/ ReportStep(s)
      PROVE  UNCHANGED <<op, sweeper>>
  BY <1>4 DEF GeneratorStep, WriteSnapshot, AuthorizePublish, RenameArtifact, CompleteReport,
     RejectCompletion, RemoveArtifact, AbandonGeneration, FailReport, CrashGenerator,
     ReportStep, ClaimReport, ExpireReportLease, RenewReport, RecoverReport,
     unchangedButReports, deletionVars
<1> QED
  BY <1>1, <1>2, <1>3, <1>4

\* A deletion begins with its request, and ends with its last transaction.
OperationMoves ==
    \A p \in Project :
        /\ DeletionActive(p)' => DeletionActive(p) \/ RequestProjectDeletion(p)
        /\ op'[p].status = "complete" =>
              \/ op[p].status = "complete"
              \/ \E w \in Sweeper : FinalizeProjectDeletion(w) /\ sweeper[w].on = p

\* Whoever holds a deletion has claimed it, and keeps what it collected then.
HoldMoves ==
    \A w \in Sweeper : HoldsDeletion(w)' =>
        \/ /\ HoldsDeletion(w)
           /\ sweeper'[w].on = sweeper[w].on /\ sweeper'[w].runs = sweeper[w].runs
           /\ sweeper'[w].reports = sweeper[w].reports
        \/ \E p \in Project : ClaimDeletion(w, p)

\* The stages of a deletion.
LEMMA DeletionsMove ==
    ASSUME Rows, Disk, Disk', [Next]_vars
    PROVE  OperationMoves /\ HoldMoves
<1>1. op \in [Project -> OperationRow] /\ sweeper \in [Sweeper -> ClaimRow]
  BY DEF Rows, Operations, Claims
<1>2. \A w \in Sweeper : /\ Busy(w) => sweeper[w].on \in Project
                         /\ Busy(w)' => sweeper'[w].on \in Project
  BY DEF Disk, ClaimsAreOfDeleted
<1>3. CASE UNCHANGED <<op, sweeper>>
  BY <1>3 DEF OperationMoves, DeletionActive, HoldMoves, HoldsDeletion, Busy
<1>4. ASSUME NEW p \in Project, ProjectDeletionStep(p)
      PROVE  OperationMoves /\ HoldMoves
  <2>1. CASE RequestProjectDeletion(p)
    <3>1. /\ ~DeletionActive(p) /\ UNCHANGED sweeper
          /\ \E status \in {"pending", "cancelling"} : op' = [op EXCEPT ![p].status = status]
      BY <2>1 DEF RequestProjectDeletion
    <3>2. /\ op'[p].status \in {"pending", "cancelling"}
          /\ \A q \in Project \ {p} : op'[q] = op[q]
      BY <1>1, <3>1 DEF OperationRow
    <3> QED
      BY <1>2, <2>1, <3>1, <3>2 DEF OperationMoves, DeletionActive, HoldMoves,
         HoldsDeletion, Busy
  <2>2. CASE ExpireDeletionLease(p)
    <3>1. UNCHANGED sweeper /\ op' = [op EXCEPT ![p].live = FALSE]
      BY <2>2 DEF ExpireDeletionLease
    <3>2. \A q \in Project : op'[q].status = op[q].status /\ op'[q].holder = op[q].holder
      BY <1>1, <3>1 DEF OperationRow
    <3> QED
      BY <1>2, <3>1, <3>2 DEF OperationMoves, DeletionActive, HoldMoves, HoldsDeletion, Busy
  <2>3. ASSUME NEW v \in Sweeper, DeferDeletion(v, p)
        PROVE  OperationMoves /\ HoldMoves
    <3>1. /\ UNCHANGED sweeper /\ DeletionActive(p)
          /\ op' = [op EXCEPT ![p] = [status |-> "cancelling", holder |-> NoHolder,
                                      live |-> FALSE]]
      BY <2>3 DEF DeferDeletion, Claimable, DeletionActive
    <3>2. /\ op'[p].status = "cancelling"
          /\ \A q \in Project \ {p} : op'[q] = op[q]
      BY <1>1, <3>1
    <3> QED
      BY <1>2, <3>1, <3>2 DEF OperationMoves, DeletionActive, HoldMoves, HoldsDeletion, Busy
  <2>4. ASSUME NEW v \in Sweeper, ClaimDeletion(v, p)
        PROVE  OperationMoves /\ HoldMoves
    <3>1. /\ DeletionActive(p)
          /\ op' = [op EXCEPT ![p] = [status |-> "deleting", holder |-> v, live |-> TRUE]]
          /\ \A w \in Sweeper \ {v} : sweeper'[w] = sweeper[w]
      BY <1>1, <2>4 DEF ClaimDeletion, Claimable, DeletionActive
    <3>2. /\ op'[p].status = "deleting" /\ op'[p].holder = v
          /\ \A q \in Project \ {p} : op'[q] = op[q]
      BY <1>1, <3>1
    <3> QED
      BY <1>2, <2>4, <3>1, <3>2 DEF OperationMoves, DeletionActive, HoldMoves,
         HoldsDeletion, Busy
  <2> QED
    BY <1>4, <2>1, <2>2, <2>3, <2>4 DEF ProjectDeletionStep
<1>5. ASSUME NEW v \in Sweeper, SweeperStep(v)
      PROVE  OperationMoves /\ HoldMoves
  <2> DEFINE p == sweeper[v].on
  <2>1. CASE RemoveDirectory(v) \/ \E files \in SUBSET Report : RemoveReportFiles(v, files)
    <3>1. UNCHANGED op
      BY <2>1 DEF RemoveDirectory, RemoveReportFiles
    <3>2. \A w \in Sweeper :
             /\ sweeper'[w].on = sweeper[w].on /\ sweeper'[w].runs = sweeper[w].runs
             /\ sweeper'[w].reports = sweeper[w].reports
             /\ Busy(w)' => Busy(w)
      BY <1>1, <2>1 DEF RemoveDirectory, RemoveReportFiles, ClaimRow, Busy
    <3> QED
      BY <3>1, <3>2 DEF OperationMoves, DeletionActive, HoldMoves, HoldsDeletion
  <2>2. CASE FinalizeProjectDeletion(v)
    <3>1. /\ Busy(v)
          /\ op' = [op EXCEPT ![p] = [status |-> "complete", holder |-> NoHolder,
                                      live |-> FALSE]]
          /\ sweeper' = [sweeper EXCEPT ![v] = NoClaim]
      BY <2>2 DEF FinalizeProjectDeletion, HoldsDeletion
    <3>2. /\ op'[p].status = "complete"
          /\ \A q \in Project \ {p} : op'[q] = op[q]
      BY <1>1, <1>2, <3>1
    <3>3. \A w \in Sweeper : Busy(w)' => sweeper'[w] = sweeper[w]
      BY <1>1, <3>1 DEF Busy, NoClaim
    <3> QED
      BY <1>2, <2>2, <3>2, <3>3 DEF OperationMoves, DeletionActive, HoldMoves, HoldsDeletion,
         Busy
  <2>3. CASE LeaveProjectDeletion(v)
    <3>1. /\ sweeper' = [sweeper EXCEPT ![v] = NoClaim]
          /\ \/ UNCHANGED op
             \/ /\ HoldsDeletion(v)
                /\ op' = [op EXCEPT ![p] = [status |-> "failed", live |-> FALSE,
                                            holder |-> NoHolder]]
      BY <2>3 DEF LeaveProjectDeletion
    <3>2. \A w \in Sweeper : Busy(w)' => sweeper'[w] = sweeper[w]
      BY <1>1, <3>1 DEF Busy, NoClaim
    <3>3. \A q \in Project :
             \/ op'[q] = op[q]
             \/ op'[q].status = "failed" /\ op[q].status = "deleting"
      BY <1>1, <1>2, <3>1 DEF HoldsDeletion
    <3> QED
      BY <1>2, <3>2, <3>3 DEF OperationMoves, DeletionActive, HoldMoves, HoldsDeletion, Busy
  <2>4. CASE RenewDeletion(v)
    <3>1. UNCHANGED sweeper /\ op' = [op EXCEPT ![p].live = TRUE]
      BY <2>4 DEF RenewDeletion
    <3>2. \A q \in Project : op'[q].status = op[q].status /\ op'[q].holder = op[q].holder
      BY <1>1, <3>1 DEF OperationRow
    <3> QED
      BY <1>2, <3>1, <3>2 DEF OperationMoves, DeletionActive, HoldMoves, HoldsDeletion, Busy
  <2> QED
    BY <1>5, <2>1, <2>2, <2>3, <2>4 DEF SweeperStep
<1> QED
  BY <1>3, <1>4, <1>5, OperationsSame DEF Next

\* The runs of a project that is not live do not move any more, once they
\* have come to their end.
RunMoves ==
    \A r \in Run :
        project[RunProject[r]] # "live" /\ run[r].status \in {"absent", "done", "ended"}
        => run'[r].status \in {"absent", run[r].status}

LEMMA RunsMove ==
    ASSUME Rows, [Next]_vars
    PROVE  RunMoves
<1>1. run = [r \in Run |-> run[r]] /\ \A r \in Run : RunRow(run[r])
  BY DEF Rows, Runs
<1>2. CASE UNCHANGED run
  BY <1>2 DEF RunMoves
<1>3. ASSUME NEW p \in Project, run' = Cancelled(p)
      PROVE  RunMoves
  BY <1>3 DEF Cancelled, RunMoves
<1>4. ASSUME NEW r \in Run, RunStep(r)
      PROVE  RunMoves
  <2>1. project[RunProject[r]] = "live" \/ run[r].status \in ActiveRun
    BY <1>4 DEF RunStep, CreateRun, BeginAnalysis, PublishAnalysis, EndAnalysis,
       RequeueAnalysis, CancelRun, ProjectLive, ActiveRun
  <2>2. \E new : run' = [run EXCEPT ![r] = new]
    BY <1>4 DEF RunStep, CreateRun, BeginAnalysis, PublishAnalysis, EndAnalysis,
       RequeueAnalysis, CancelRun, Advance
  <2> QED
    BY <1>1, <2>1, <2>2 DEF RunMoves, ActiveRun
<1>5. ASSUME NEW r \in Run, RunDeletionStep(r)
      PROVE  RunMoves
  <2>1. CASE Entomb(r)
    <3>1. run' = [run EXCEPT ![r].tombstone = TRUE]
      BY <2>1 DEF Entomb
    <3>2. \A q \in Run : run'[q].status = run[q].status
      BY <1>1, <3>1 DEF RunRow
    <3> QED
      BY <3>2 DEF RunMoves
  <2>2. CASE FinalizeRunDeletion(r)
    BY <1>1, <2>2 DEF FinalizeRunDeletion, NoRun, RunMoves
  <2> QED
    BY <1>2, <1>5, <2>1, <2>2 DEF RunDeletionStep, RequestRunDeletion, RecoverRunDeletion,
       RemoveRunReportFiles, InterruptRunDeletion
<1>6. ASSUME NEW w \in Sweeper, FinalizeProjectDeletion(w)
      PROVE  RunMoves
  BY <1>1, <1>6 DEF FinalizeProjectDeletion, NoRun, RunMoves
<1>7. CASE \E s \in Report : GeneratorStep(s) \/ ReportStep(s)
  BY <1>2, <1>7 DEF GeneratorStep, WriteSnapshot, AuthorizePublish, RenameArtifact,
     CompleteReport, RejectCompletion, RemoveArtifact, AbandonGeneration, FailReport,
     CrashGenerator, ReportStep, ClaimReport, ExpireReportLease, RenewReport, RecoverReport,
     unchangedButReports
<1>8. CASE JobStep \/ \E p \in Project : PublisherStep(p)
  BY <1>2, <1>8 DEF JobStep, LeaseJob, ExpireJobLease, RecoverJob, PublisherStep, BeginRun,
     RefuseRun, CopyCached, PublishCacheHit, DropCopy, PreparePublication,
     CommitPublication, RollBackPublication, AbandonAnalysis, FailRun, FinishJob,
     CrashPublisher, unchangedButPublication
<1>9. CASE ReaperStep \/ UNCHANGED vars
  BY <1>2, <1>9 DEF ReaperStep, AgeDirectory, ReapDirectory, AgeReportFile, ReapReportFile,
     vars
<1>10. CASE \E p \in Project : ProjectDeletionStep(p)
  BY <1>2, <1>3, <1>10 DEF ProjectDeletionStep, RequestProjectDeletion, ExpireDeletionLease,
     DeferDeletion, ClaimDeletion
<1>11. CASE \E w \in Sweeper : SweeperStep(w)
  BY <1>2, <1>6, <1>11 DEF SweeperStep, RemoveReportFiles, RemoveDirectory,
     LeaveProjectDeletion, RenewDeletion
<1> QED
  BY <1>4, <1>5, <1>7, <1>8, <1>9, <1>10, <1>11 DEF Next
-----------------------------------------------------------------------------
\* The holder of a deletion has collected every run of the project that is
\* left, and every report of the task.
HeldRuns ==
    \A w \in Sweeper : HoldsDeletion(w) => \A r \in RunsOf(sweeper[w].on) :
        \/ run[r].status = "absent"
        \/ run[r].status \in TerminalRun /\ r \in sweeper[w].runs

HeldReports == \A w \in Sweeper : HoldsDeletion(w) => ReportRows \subseteq sweeper[w].reports

AbsentEmpty == \A s \in Report : report[s].status = "absent" => report[s].shows = {}

\* While a project is being deleted no report is visible or will be.
NothingShown ==
    \A p \in Project : DeletionActive(p) => \A s \in Report : ~Visible(s) /\ ~Owned(s)

Erasure == /\ HeldRuns /\ HeldReports /\ AbsentEmpty /\ NothingShown
           /\ DeletedProjectHasNoEvidence

\* The request hides all reports, and none is claimed before the end.
LEMMA NextShown ==
    ASSUME Reports, OperationMoves, NothingShown, [Next]_vars
    PROVE  NothingShown'
<1> SUFFICES ASSUME NEW p \in Project, DeletionActive(p)', NEW s \in Report
             PROVE  ~Visible(s)' /\ ~Owned(s)'
  BY DEF NothingShown
<1>1. CASE RequestProjectDeletion(p)
  BY <1>1, HiddenTakes DEF RequestProjectDeletion, Taken
<1>2. CASE DeletionActive(p)
  <2>1. ~Visible(s) /\ ~Owned(s)
    BY <1>2 DEF NothingShown
  <2>2. ~ClaimReport(s) /\ ~CompleteReport(s)
    BY <1>2, <2>1 DEF ClaimReport, EvidenceKept, CompleteReport
  <2>3. Passes(s)
    BY <2>2, ReportsMove
  <2>4. CASE Steady(s)
    BY <2>1, <2>4 DEF Steady, Visible, CurrentReports, Owned, Staged
  <2>5. CASE Gone(s)
    BY <2>5 DEF Gone, NoReport, Visible, CurrentReports, Owned, Staged
  <2> QED
    BY <2>3, <2>4, <2>5 DEF Passes, Lost
<1> QED
  BY <1>1, <1>2 DEF OperationMoves

\* A row that is not there shows nothing.
LEMMA NextAbsent ==
    ASSUME Reports, AbsentEmpty, [Next]_vars
    PROVE  AbsentEmpty'
<1> SUFFICES ASSUME NEW s \in Report, report'[s].status = "absent"
             PROVE  report'[s].shows = {}
  BY DEF AbsentEmpty
<1>1. Passes(s)
  BY ReportsMove, ClaimedRow, CompletedRow
<1> QED
  BY <1>1 DEF Passes, Steady, Lost, Gone, NoReport, AbsentEmpty

\* What a claim has collected is all there is as long as it is held.
LEMMA NextHeld ==
    ASSUME Rows, Guards, Disk, HoldMoves, RunMoves, HeldRuns, HeldReports, [Next]_vars
    PROVE  HeldRuns' /\ HeldReports'
<1> SUFFICES ASSUME NEW w \in Sweeper, HoldsDeletion(w)'
             PROVE  /\ ReportRows' \subseteq sweeper'[w].reports
                    /\ \A r \in RunsOf(sweeper'[w].on) :
                          \/ run'[r].status = "absent"
                          \/ run'[r].status \in TerminalRun /\ r \in sweeper'[w].runs
  BY DEF HeldRuns, HeldReports, RunsOf
<1>1. ASSUME NEW p \in Project, ClaimDeletion(w, p)
      PROVE  /\ ReportRows' \subseteq sweeper'[w].reports
             /\ \A r \in RunsOf(sweeper'[w].on) :
                   \/ run'[r].status = "absent"
                   \/ run'[r].status \in TerminalRun /\ r \in sweeper'[w].runs
  <2>1. /\ sweeper'[w].on = p /\ sweeper'[w].reports = ReportRows
        /\ sweeper'[w].runs = {r \in RunsOf(p) : run'[r].status \in TerminalRun}
    BY <1>1 DEF ClaimDeletion, Rows, Claims
  <2>2. ReportRows' = ReportRows
    BY <1>1 DEF ClaimDeletion, ReportRows
  <2>3. ASSUME NEW r \in RunsOf(p)
        PROVE  run'[r].status = "absent" \/ run'[r].status \in TerminalRun
    <3>1. RunRow(run[r]) /\ run[r].status \notin {"running", "cancelling"}
      BY <1>1 DEF ClaimDeletion, StillActive, Rows, Runs, RunsOf
    <3>2. run'[r] = IF run[r].status = "queued" THEN [run[r] EXCEPT !.status = "ended"]
                    ELSE run[r]
      BY <1>1, <3>1 DEF ClaimDeletion, Cancelled, RunsOf
    <3> QED
      BY <3>1, <3>2 DEF RunRow, RunStatus, TerminalRun
  <2> QED
    BY <2>1, <2>2, <2>3
<1>2. CASE /\ HoldsDeletion(w)
           /\ sweeper'[w].on = sweeper[w].on /\ sweeper'[w].runs = sweeper[w].runs
           /\ sweeper'[w].reports = sweeper[w].reports
  <2>1. ASSUME NEW r \in RunsOf(sweeper[w].on)
        PROVE  \/ run'[r].status = "absent"
               \/ run'[r].status \in TerminalRun /\ r \in sweeper[w].runs
    <3>1. project[RunProject[r]] # "live"
      BY <1>2, EvidenceIsWellFormed DEF Guards, DeletionsTombstone, DeletionActive,
         HoldsDeletion, RunsOf
    <3>2. run'[r].status \in {"absent", run[r].status}
      BY <1>2, <3>1 DEF HeldRuns, RunMoves, TerminalRun, RunsOf
    <3> QED
      BY <1>2, <3>2 DEF HeldRuns
  <2>2. ASSUME NEW s \in Report, report'[s].status # "absent"
        PROVE  report[s].status # "absent"
    <3>1. CASE ClaimReport(s)
      <4>1. sweeper[w].on \notin Project
        BY <1>2, <3>1 DEF ClaimReport, EvidenceKept, DeletionActive, HoldsDeletion
      <4> QED
        BY <1>2, <4>1 DEF HoldsDeletion, Disk, ClaimsAreOfDeleted
    <3>2. CASE CompleteReport(s)
      BY <3>2 DEF CompleteReport, Owned, Staged
    <3> QED
      BY <2>2, <3>1, <3>2, ReportsMove DEF Rows, Passes, Steady, Lost, Gone, NoReport
  <2>3. ReportRows' \subseteq ReportRows
    BY <2>2 DEF ReportRows
  <2> QED
    BY <1>2, <2>1, <2>3 DEF HeldReports
<1> QED
  BY <1>1, <1>2 DEF HoldMoves

\* What has been erased stays erased: no run of the project comes back, and
\* no report shows one.
LEMMA NextErased ==
    ASSUME Sound, Disk, Disk', OperationMoves, RunMoves, HeldRuns, HeldReports, AbsentEmpty,
           DeletedProjectHasNoEvidence, [Next]_vars
    PROVE  DeletedProjectHasNoEvidence'
<1> SUFFICES ASSUME NEW p \in Project, op'[p].status = "complete"
             PROVE  /\ \A r \in RunsOf(p) : run'[r].status = "absent"
                    /\ \A s \in Report : report'[s].shows \cap RunsOf(p) = {}
  BY DEF DeletedProjectHasNoEvidence, Disk, CompletedErased, RunsOf
<1>1. CASE op[p].status = "complete"
  <2>1. project[p] = "erased"
    BY <1>1 DEF Disk, CompletedErased
  <2>2. \A r \in RunsOf(p) : run'[r].status = "absent"
    BY <1>1, <2>1 DEF DeletedProjectHasNoEvidence, RunMoves, RunsOf
  <2>3. ASSUME NEW s \in Report
        PROVE  report'[s].shows \cap RunsOf(p) = {}
    <3>1. CASE CompleteReport(s)
      <4>1. generator[s].shows = Latest
        BY <3>1 DEF CompleteReport, Generating, Sound, Carries, Armed
      <4>2. report'[s].shows = Latest
        BY <3>1, <4>1, CompletedRow DEF Sound, Rows
      <4> QED
        BY <2>1, <4>2 DEF Latest, RunsOf
    <3>2. CASE ClaimReport(s)
      BY <3>2, ClaimedRow DEF Sound, Rows
    <3>3. CASE Passes(s)
      BY <1>1, <3>3 DEF Passes, Steady, Lost, Gone, NoReport, DeletedProjectHasNoEvidence
    <3> QED
      BY <3>1, <3>2, <3>3, ReportsMove DEF Sound, Rows
  <2> QED
    BY <2>2, <2>3
<1>2. ASSUME NEW w \in Sweeper, FinalizeProjectDeletion(w), sweeper[w].on = p
      PROVE  /\ \A r \in RunsOf(p) : run'[r].status = "absent"
             /\ \A s \in Report : report'[s].shows \cap RunsOf(p) = {}
  <2>1. /\ HoldsDeletion(w) /\ ActiveRuns(p) = {}
        /\ report' = Without(report, sweeper[w].reports)
        /\ run' = [r \in Run |-> IF r \in sweeper[w].runs THEN NoRun ELSE run[r]]
    BY <1>2 DEF FinalizeProjectDeletion
  <2>2. \A r \in RunsOf(p) : run'[r].status = "absent"
    BY <1>2, <2>1 DEF HeldRuns, NoRun, RunsOf
  <2>3. \A s \in Report : report'[s].shows = {}
    BY <2>1 DEF HeldReports, ReportRows, Without, NoReport, AbsentEmpty
  <2> QED
    BY <2>2, <2>3
<1> QED
  BY <1>1, <1>2 DEF OperationMoves

\* So the deletions keep their promise.
LEMMA NextErasure ==
    ASSUME Sound, Disk, Disk', Erasure, [Next]_vars
    PROVE  Erasure'
<1>1. OperationMoves /\ HoldMoves /\ RunMoves
  BY DeletionsMove, RunsMove DEF Sound
<1> QED
  BY <1>1, NextShown, NextAbsent, NextHeld, NextErased DEF Sound, Rows, Erasure
-----------------------------------------------------------------------------
\* The request for a report has been made; and it will not be worked on again.
Spent(s) == <<"report", s>> \notin wishes
Done(s) == Spent(s) /\ generator[s].step \in {"idle", "unheard", "withdrawn"}

\* Every request generates a report of its own.
WishesSpent == \A s \in Report : generator[s].step # "idle" => Spent(s)

\* A report that has a file to its name is done with; so are those in the
\* list of a sweeper or of the deletion of a run, which nobody can see.
KeyedDone == \A s \in KeyedReports : Done(s)
SweptDone == \A w \in Sweeper : \A s \in sweeper[w].files : Done(s) /\ ~Visible(s)
DeletedDone == \A r \in Run : \A s \in deleter[r].files : Done(s) /\ ~Visible(s)

\* What a generator has renamed is there, and too young for the reaper.
RenamedHere == \A s \in Report : generator[s].step = "renamed" => reportFile[s] = "fresh"

DeleterRow == [step : {"none", "prepared"}, reports : SUBSET Report, files : SUBSET Report]

FileRows == /\ reportFile \in [Report -> {"none", "fresh", "old"}]
            /\ deleter \in [Run -> DeleterRow]

Files == /\ FileRows /\ WishesSpent /\ KeyedDone /\ SweptDone /\ DeletedDone
         /\ RenamedHere /\ VisibleReportHasFile

\* Clients make no request twice.
LEMMA WishesShrink == [Next]_vars => wishes' \subseteq wishes
<1> USE DEF Granted
<1>1. JobStep \/ ReaperStep \/ UNCHANGED vars => wishes' \subseteq wishes
  BY DEF JobStep, LeaseJob, ExpireJobLease, RecoverJob, unchangedButPublication,
     ReaperStep, AgeDirectory, ReapDirectory, AgeReportFile, ReapReportFile, vars
<1>2. ASSUME NEW p \in Project, PublisherStep(p) \/ ProjectDeletionStep(p)
      PROVE  wishes' \subseteq wishes
  BY <1>2 DEF PublisherStep, BeginRun, RefuseRun, CopyCached, PublishCacheHit, DropCopy,
     PreparePublication, CommitPublication, RollBackPublication, AbandonAnalysis, FailRun,
     FinishJob, CrashPublisher, unchangedButPublication, ProjectDeletionStep,
     RequestProjectDeletion, ExpireDeletionLease, DeferDeletion, ClaimDeletion
<1>3. ASSUME NEW r \in Run, RunStep(r) \/ RunDeletionStep(r)
      PROVE  wishes' \subseteq wishes
  BY <1>3 DEF RunStep, CreateRun, BeginAnalysis, PublishAnalysis, EndAnalysis,
     RequeueAnalysis, CancelRun, RunDeletionStep, RequestRunDeletion, RecoverRunDeletion,
     RemoveRunReportFiles, FinalizeRunDeletion, InterruptRunDeletion
<1>4. ASSUME NEW s \in Report, GeneratorStep(s) \/ ReportStep(s)
      PROVE  wishes' \subseteq wishes
  BY <1>4 DEF GeneratorStep, WriteSnapshot, AuthorizePublish, RenameArtifact, CompleteReport,
     RejectCompletion, RemoveArtifact, AbandonGeneration, FailReport, CrashGenerator,
     ReportStep, ClaimReport, ExpireReportLease, RenewReport, RecoverReport
<1>5. ASSUME NEW w \in Sweeper, SweeperStep(w)
      PROVE  wishes' \subseteq wishes
  BY <1>5 DEF SweeperStep, RemoveReportFiles, RemoveDirectory, FinalizeProjectDeletion,
     LeaveProjectDeletion, RenewDeletion
<1> QED
  BY <1>1, <1>2, <1>3, <1>4, <1>5 DEF Next

\* A generator goes on, stops or is told that it is done.
GeneratorMoves ==
    \A s \in Report :
        \/ generator'[s].step = generator[s].step
        \/ ClaimReport(s) \/ RenameArtifact(s)
        \/ /\ generator[s].step \notin {"idle", "withdrawn"}
           /\ generator'[s].step # "renamed"
           /\ generator[s].step = "unheard" => generator'[s].step \in {"idle", "withdrawn"}

LEMMA GeneratorsMove ==
    ASSUME Rows, [Next]_vars
    PROVE  GeneratorMoves
<1>1. generator \in [Report -> GeneratorRow]
  BY DEF Rows, Generators
<1>2. CASE UNCHANGED generator
  BY <1>2 DEF GeneratorMoves
<1>3. ASSUME NEW s \in Report, NEW step, Turned(s, step)
      PROVE  /\ generator'[s].step = step
             /\ \A t \in Report \ {s} : generator'[t] = generator[t]
  BY <1>1, <1>3 DEF Turned, GeneratorRow
<1>4. ASSUME NEW s \in Report, GeneratorStep(s) \/ ReportStep(s)
      PROVE  GeneratorMoves
  <2>1. CASE WriteSnapshot(s)
    <3>1. /\ generator[s].step = "claimed" /\ generator'[s].step = "written"
          /\ \A t \in Report \ {s} : generator'[t] = generator[t]
      BY <1>1, <2>1 DEF WriteSnapshot, Generating
    <3> QED
      BY <3>1 DEF GeneratorMoves
  <2>2. CASE ClaimReport(s) \/ RenameArtifact(s)
    BY <1>3, <2>2 DEF ClaimReport, RenameArtifact, GeneratorMoves
  <2>3. ASSUME NEW step \in {"authorized", "idle", "unheard", "rejected", "failing", "withdrawn"},
               Turned(s, step), generator[s].step \notin {"idle", "withdrawn"},
               generator[s].step = "unheard" => step \in {"idle", "withdrawn"}
        PROVE  GeneratorMoves
    BY <1>3, <2>3 DEF GeneratorMoves
  <2>4. CASE AuthorizePublish(s)
    BY <2>3, <2>4 DEF AuthorizePublish, Generating
  <2>5. CASE CompleteReport(s)
    BY <2>3, <2>5 DEF CompleteReport, Generating
  <2>6. CASE RejectCompletion(s)
    BY <2>3, <2>6 DEF RejectCompletion, Generating
  <2>7. CASE RemoveArtifact(s)
    BY <2>3, <2>7 DEF RemoveArtifact, Generating
  <2>8. CASE AbandonGeneration(s)
    BY <2>3, <2>8 DEF AbandonGeneration, Generating
  <2>9. CASE FailReport(s)
    BY <2>3, <2>9 DEF FailReport, Generating
  <2>10. CASE CrashGenerator(s)
    BY <2>3, <2>10 DEF CrashGenerator
  <2>11. CASE ExpireReportLease(s) \/ RenewReport(s) \/ RecoverReport(s)
    BY <1>2, <2>11 DEF ExpireReportLease, RenewReport, RecoverReport
  <2> QED
    BY <1>4, <2>1, <2>2, <2>4, <2>5, <2>6, <2>7, <2>8, <2>9, <2>10, <2>11
       DEF GeneratorStep, ReportStep
<1>5. CASE JobStep \/ ReaperStep \/ UNCHANGED vars
  BY <1>2, <1>5 DEF JobStep, LeaseJob, ExpireJobLease, RecoverJob, unchangedButPublication,
     ReaperStep, AgeDirectory, ReapDirectory, AgeReportFile, ReapReportFile, reportVars, vars
<1>6. ASSUME NEW p \in Project, PublisherStep(p) \/ ProjectDeletionStep(p)
      PROVE  UNCHANGED generator
  BY <1>6 DEF PublisherStep, BeginRun, RefuseRun, CopyCached, PublishCacheHit, DropCopy,
     PreparePublication, CommitPublication, RollBackPublication, AbandonAnalysis, FailRun,
     FinishJob, CrashPublisher, unchangedButPublication, reportVars, ProjectDeletionStep,
     RequestProjectDeletion, ExpireDeletionLease, DeferDeletion, ClaimDeletion,
     unchangedButEvidence
<1>7. ASSUME NEW r \in Run, RunStep(r) \/ RunDeletionStep(r)
      PROVE  UNCHANGED generator
  BY <1>7 DEF RunStep, CreateRun, BeginAnalysis, PublishAnalysis, EndAnalysis,
     RequeueAnalysis, CancelRun, Advance, unchangedButRuns, RunDeletionStep,
     RequestRunDeletion, RecoverRunDeletion, Entomb, RemoveRunReportFiles,
     FinalizeRunDeletion, InterruptRunDeletion, reportVars, unchangedButEvidence
<1>8. ASSUME NEW w \in Sweeper, SweeperStep(w)
      PROVE  UNCHANGED generator
  BY <1>8 DEF SweeperStep, RemoveReportFiles, RemoveDirectory, FinalizeProjectDeletion,
     LeaveProjectDeletion, RenewDeletion, reportVars, unchangedButEvidence
<1> QED
  BY <1>2, <1>4, <1>5, <1>6, <1>7, <1>8 DEF Next

\* A list of files is made of reports that have been completed and that the
\* deletion has made invisible.
ListMoves ==
    /\ deleter' \in [Run -> DeleterRow]
    /\ \A w \in Sweeper : \A s \in sweeper'[w].files :
          \/ s \in sweeper[w].files
          \/ s \in KeyedReports /\ UNCHANGED report /\ \E p \in Project : DeletionActive(p)
    /\ \A r \in Run : \A s \in deleter'[r].files :
          \/ s \in deleter[r].files
          \/ s \in KeyedReports /\ Entomb(r)

LEMMA ListsMove ==
    ASSUME Rows, FileRows, [Next]_vars
    PROVE  ListMoves
<1>1. sweeper \in [Sweeper -> ClaimRow] /\ deleter \in [Run -> DeleterRow]
  BY DEF Rows, Claims, FileRows
<1>2. CASE UNCHANGED <<sweeper, deleter>>
  BY <1>1, <1>2 DEF ListMoves
<1>3. CASE \/ JobStep \/ ReaperStep \/ UNCHANGED vars
           \/ \E p \in Project : PublisherStep(p)
           \/ \E r \in Run : RunStep(r)
           \/ \E s \in Report : GeneratorStep(s) \/ ReportStep(s)
  <2>1. JobStep \/ ReaperStep \/ UNCHANGED vars => UNCHANGED deleter
    BY DEF JobStep, LeaseJob, ExpireJobLease, RecoverJob, unchangedButPublication,
       ReaperStep, AgeDirectory, ReapDirectory, AgeReportFile, ReapReportFile, deletionVars,
       vars
  <2>2. ASSUME NEW p \in Project, PublisherStep(p)
        PROVE  UNCHANGED deleter
    BY <2>2 DEF PublisherStep, BeginRun, RefuseRun, CopyCached, PublishCacheHit, DropCopy,
       PreparePublication, CommitPublication, RollBackPublication, AbandonAnalysis, FailRun,
       FinishJob, CrashPublisher, unchangedButPublication, deletionVars
  <2>3. ASSUME NEW r \in Run, RunStep(r)
        PROVE  UNCHANGED deleter
    BY <2>3 DEF RunStep, CreateRun, BeginAnalysis, PublishAnalysis, EndAnalysis,
       RequeueAnalysis, CancelRun, Advance, unchangedButRuns, deletionVars
  <2>4. ASSUME NEW s \in Report, GeneratorStep(s) \/ ReportStep(s)
        PROVE  UNCHANGED deleter
    BY <2>4 DEF GeneratorStep, WriteSnapshot, AuthorizePublish, RenameArtifact,
       CompleteReport, RejectCompletion, RemoveArtifact, AbandonGeneration, FailReport,
       CrashGenerator, ReportStep, ClaimReport, ExpireReportLease, RenewReport,
       RecoverReport, unchangedButReports, deletionVars
  <2> QED
    BY <1>2, <1>3, <2>1, <2>2, <2>3, <2>4, OperationsSame
<1>4. ASSUME NEW r \in Run, RunDeletionStep(r)
      PROVE  ListMoves
  <2>1. UNCHANGED sweeper
    BY <1>4, OperationsSame
  <2>2. ASSUME NEW row \in DeleterRow, deleter' = [deleter EXCEPT ![r] = row],
               \/ row.files \subseteq deleter[r].files
               \/ row.files = KeyedReports /\ Entomb(r)
        PROVE  ListMoves
    <3>1. /\ deleter'[r] = row /\ deleter' \in [Run -> DeleterRow]
          /\ \A q \in Run \ {r} : deleter'[q] = deleter[q]
      BY <1>1, <2>2
    <3> QED
      BY <2>1, <2>2, <3>1 DEF ListMoves
  <2>3. CASE Entomb(r)
    <3> DEFINE row == [step |-> "prepared", reports |-> ReportRows, files |-> KeyedReports]
    <3>1. row \in DeleterRow /\ row.files = KeyedReports
      BY DEF DeleterRow, ReportRows, KeyedReports
    <3>2. deleter' = [deleter EXCEPT ![r] = row]
      BY <2>3 DEF Entomb
    <3> HIDE DEF row
    <3> QED
      BY <2>2, <2>3, <3>1, <3>2
  <2>4. CASE FinalizeRunDeletion(r) \/ InterruptRunDeletion(r)
    <3>1. deleter' = [deleter EXCEPT ![r] = NoDeleter]
      BY <2>4 DEF FinalizeRunDeletion, InterruptRunDeletion
    <3>2. NoDeleter \in DeleterRow /\ NoDeleter.files = {}
      BY DEF NoDeleter, DeleterRow
    <3> QED
      BY <2>2, <3>1, <3>2
  <2>5. ASSUME NEW files \in SUBSET Report, RemoveRunReportFiles(r, files)
        PROVE  ListMoves
    <3>1. deleter' = [deleter EXCEPT ![r] = [deleter[r] EXCEPT !.files = deleter[r].files \ files]]
      BY <2>5 DEF RemoveRunReportFiles
    <3> DEFINE row == [deleter[r] EXCEPT !.files = deleter[r].files \ files]
    <3>2. row \in DeleterRow /\ row.files \subseteq deleter[r].files
      BY <1>1 DEF DeleterRow
    <3>3. deleter' = [deleter EXCEPT ![r] = row]
      BY <3>1
    <3> HIDE DEF row
    <3> QED
      BY <2>2, <3>2, <3>3
  <2> QED
    BY <1>4, <2>3, <2>4, <2>5 DEF RunDeletionStep, RequestRunDeletion, RecoverRunDeletion
<1>5. ASSUME NEW p \in Project, ProjectDeletionStep(p)
      PROVE  ListMoves
  <2>1. UNCHANGED deleter
    BY <1>5 DEF ProjectDeletionStep, RequestProjectDeletion, ExpireDeletionLease,
       DeferDeletion, ClaimDeletion
  <2>2. ASSUME NEW w \in Sweeper, ClaimDeletion(w, p)
        PROVE  ListMoves
    <3>1. /\ UNCHANGED report /\ DeletionActive(p)
          /\ sweeper'[w].files = KeyedReports
          /\ \A v \in Sweeper \ {w} : sweeper'[v] = sweeper[v]
      BY <1>1, <2>2 DEF ClaimDeletion, Claimable, DeletionActive
    <3> QED
      BY <1>1, <2>1, <3>1 DEF ListMoves
  <2> QED
    BY <1>2, <1>5, <2>1, <2>2 DEF ProjectDeletionStep, RequestProjectDeletion,
       ExpireDeletionLease, DeferDeletion
<1>6. ASSUME NEW w \in Sweeper, SweeperStep(w)
      PROVE  ListMoves
  <2>1. UNCHANGED deleter
    BY <1>6 DEF SweeperStep, RemoveReportFiles, RemoveDirectory, FinalizeProjectDeletion,
       LeaveProjectDeletion, RenewDeletion
  <2>2. CASE RemoveDirectory(w) \/ \E files \in SUBSET Report : RemoveReportFiles(w, files)
    <3>1. \A v \in Sweeper : sweeper'[v].files \subseteq sweeper[v].files
      BY <1>1, <2>2 DEF RemoveDirectory, RemoveReportFiles, ClaimRow
    <3> QED
      BY <1>1, <2>1, <3>1 DEF ListMoves
  <2>3. CASE FinalizeProjectDeletion(w) \/ LeaveProjectDeletion(w)
    <3>1. sweeper' = [sweeper EXCEPT ![w] = NoClaim]
      BY <2>3 DEF FinalizeProjectDeletion, LeaveProjectDeletion
    <3>2. \A v \in Sweeper : sweeper'[v].files \subseteq sweeper[v].files
      BY <1>1, <3>1 DEF NoClaim
    <3> QED
      BY <1>1, <2>1, <3>2 DEF ListMoves
  <2> QED
    BY <1>2, <1>6, <2>1, <2>2, <2>3 DEF SweeperStep, RenewDeletion
<1> QED
  BY <1>3, <1>4, <1>5, <1>6 DEF Next

\* Whose file a step may touch.
FileMoves ==
    \A s \in Report :
        \/ reportFile'[s] = reportFile[s]
        \/ RenameArtifact(s) /\ reportFile'[s] = "fresh"
        \/ AgeReportFile(s) /\ reportFile'[s] = "old"
        \/ ReapReportFile(s) \/ RemoveArtifact(s)
        \/ \E w \in Sweeper : s \in sweeper[w].files
        \/ \E r \in Run : s \in deleter[r].files

LEMMA FilesMove ==
    ASSUME Rows, FileRows, [Next]_vars
    PROVE  FileMoves /\ reportFile' \in [Report -> {"none", "fresh", "old"}]
<1>1. /\ reportFile \in [Report -> {"none", "fresh", "old"}]
      /\ deleter \in [Run -> DeleterRow]
  BY DEF FileRows
<1>2. CASE UNCHANGED reportFile
  BY <1>1, <1>2 DEF FileMoves
<1>3. ASSUME NEW s \in Report, GeneratorStep(s)
      PROVE  FileMoves /\ reportFile' \in [Report -> {"none", "fresh", "old"}]
  <2>1. CASE RenameArtifact(s) \/ RemoveArtifact(s)
    BY <1>1, <2>1 DEF RenameArtifact, RemoveArtifact, FileMoves
  <2>2. CASE UNCHANGED reportFile
    BY <1>1, <1>2, <2>2
  <2> QED
    BY <1>3, <2>1, <2>2 DEF GeneratorStep, WriteSnapshot, AuthorizePublish, CompleteReport,
       RejectCompletion, AbandonGeneration, FailReport, CrashGenerator
<1>4. CASE ReaperStep
  BY <1>1, <1>4 DEF ReaperStep, AgeDirectory, ReapDirectory, AgeReportFile, ReapReportFile,
     FileMoves
<1>5. ASSUME NEW files, reportFile' = WithoutFiles(files),
             \/ \E w \in Sweeper : files \subseteq sweeper[w].files
             \/ \E r \in Run : files \subseteq deleter[r].files
      PROVE  FileMoves /\ reportFile' \in [Report -> {"none", "fresh", "old"}]
  BY <1>1, <1>5 DEF WithoutFiles, FileMoves
<1>6. CASE \/ JobStep \/ UNCHANGED vars \/ \E p \in Project : PublisherStep(p)
           \/ \E r \in Run : RunStep(r)
           \/ \E s \in Report : ReportStep(s)
           \/ \E p \in Project : ProjectDeletionStep(p)
  <2>1. JobStep \/ UNCHANGED vars => UNCHANGED reportFile
    BY DEF JobStep, LeaseJob, ExpireJobLease, RecoverJob, unchangedButPublication, vars
  <2>2. ASSUME NEW p \in Project, PublisherStep(p) \/ ProjectDeletionStep(p)
        PROVE  UNCHANGED reportFile
    BY <2>2 DEF PublisherStep, BeginRun, RefuseRun, CopyCached, PublishCacheHit, DropCopy,
       PreparePublication, CommitPublication, RollBackPublication, AbandonAnalysis, FailRun,
       FinishJob, CrashPublisher, unchangedButPublication, ProjectDeletionStep,
       RequestProjectDeletion, ExpireDeletionLease, DeferDeletion, ClaimDeletion,
       unchangedButEvidence
  <2>3. ASSUME NEW r \in Run, RunStep(r)
        PROVE  UNCHANGED reportFile
    BY <2>3 DEF RunStep, CreateRun, BeginAnalysis, PublishAnalysis, EndAnalysis,
       RequeueAnalysis, CancelRun, Advance, unchangedButRuns
  <2>4. ASSUME NEW s \in Report, ReportStep(s)
        PROVE  UNCHANGED reportFile
    BY <2>4 DEF ReportStep, ClaimReport, ExpireReportLease, RenewReport, RecoverReport
  <2> QED
    BY <1>1, <1>2, <1>6, <2>1, <2>2, <2>3, <2>4
<1>7. CASE \E w \in Sweeper : SweeperStep(w)
  BY <1>1, <1>2, <1>5, <1>7 DEF SweeperStep, RemoveReportFiles, RemoveDirectory,
     FinalizeProjectDeletion, LeaveProjectDeletion, RenewDeletion, unchangedButEvidence
<1>8. CASE \E r \in Run : RunDeletionStep(r)
  BY <1>1, <1>2, <1>5, <1>8 DEF RunDeletionStep, RequestRunDeletion, RecoverRunDeletion,
     Entomb, RemoveRunReportFiles, FinalizeRunDeletion, InterruptRunDeletion,
     unchangedButEvidence
<1> QED
  BY <1>3, <1>4, <1>6, <1>7, <1>8 DEF Next

\* What is done with is done with for ever: the request is not made again.
LEMMA DoneStays ==
    ASSUME Rows, FileRows, [Next]_vars, NEW s \in Report, Done(s)
    PROVE  Done(s)' /\ ~ClaimReport(s) /\ ~CompleteReport(s) /\ ~RenameArtifact(s)
<1>1. Spent(s)'
  BY WishesShrink DEF Done, Spent
<1>2. ~ClaimReport(s) /\ ~CompleteReport(s) /\ ~RenameArtifact(s)
  BY DEF Done, Spent, ClaimReport, Wanted, CompleteReport, RenameArtifact, Generating
<1>3. generator[s].step \in {"idle", "unheard", "withdrawn"}
  BY DEF Done
<1>4. generator'[s].step \in {"idle", "unheard", "withdrawn"}
  BY <1>2, <1>3, GeneratorsMove DEF GeneratorMoves
<1> QED
  BY <1>1, <1>2, <1>4 DEF Done

\* What is visible has been visible, or has just been completed.
LEMMA VisibleMoves ==
    ASSUME Reports, [Next]_vars, NEW s \in Report, Visible(s)'
    PROVE  Visible(s) \/ CompleteReport(s)
<1>1. CASE Steady(s)
  BY <1>1 DEF Steady, Visible, CurrentReports
<1>2. CASE Gone(s)
  BY <1>2 DEF Gone, NoReport, Visible, CurrentReports
<1>3. CASE ClaimReport(s)
  <2>1. report'[s].status = "generating"
    BY <1>3, ClaimedRow
  <2> QED
    BY <2>1 DEF Visible, CurrentReports
<1> QED
  BY <1>1, <1>2, <1>3, ReportsMove DEF Passes, Lost

\* The requests that generate are spent.
LEMMA NextSpent ==
    ASSUME Rows, FileRows, WishesSpent, [Next]_vars
    PROVE  WishesSpent'
<1> SUFFICES ASSUME NEW s \in Report, generator'[s].step # "idle"
             PROVE  Spent(s)'
  BY DEF WishesSpent
<1>1. CASE generator[s].step # "idle"
  BY <1>1, WishesShrink DEF WishesSpent, Spent
<1>2. CASE ClaimReport(s)
  BY <1>2 DEF ClaimReport, Granted, Spent
<1>3. CASE RenameArtifact(s)
  BY <1>3, <1>1 DEF RenameArtifact, Generating
<1> QED
  BY <1>1, <1>2, <1>3, GeneratorsMove DEF GeneratorMoves

\* A report that gets a file to its name is done with.
LEMMA NextKeyed ==
    ASSUME Rows, FileRows, WishesSpent, KeyedDone, [Next]_vars
    PROVE  KeyedDone'
<1> SUFFICES ASSUME NEW s \in Report, report'[s].status = "complete"
             PROVE  Done(s)'
  BY DEF KeyedDone, KeyedReports
<1>1. CASE s \in KeyedReports
  BY <1>1, DoneStays DEF KeyedDone
<1>2. CASE CompleteReport(s)
  <2>1. generator[s].step = "renamed"
    BY <1>2 DEF CompleteReport, Generating
  <2>2. Spent(s)'
    BY <2>1, WishesShrink DEF WishesSpent, Spent
  <2>3. generator'[s].step \in {"idle", "unheard"}
    BY <1>2 DEF CompleteReport, Turned, Rows, Generators, GeneratorRow
  <2> QED
    BY <2>2, <2>3 DEF Done
<1>3. CASE Passes(s)
  <2>1. report[s].status = "complete"
    BY <1>3 DEF Passes, Steady, Lost, Gone, NoReport
  <2> QED
    BY <1>1, <2>1 DEF KeyedReports
<1>4. CASE ClaimReport(s)
  BY <1>4, ClaimedRow DEF Rows
<1> QED
  BY <1>2, <1>3, <1>4, ReportsMove DEF Rows

\* Nobody will see again what a deletion has in its list.
LEMMA NextLists ==
    ASSUME Rows, FileRows, NothingShown, KeyedDone, SweptDone, DeletedDone, [Next]_vars
    PROVE  SweptDone' /\ DeletedDone'
<1>1. ASSUME NEW s \in Report, Done(s), ~Visible(s)
      PROVE  Done(s)' /\ ~Visible(s)'
  BY <1>1, DoneStays, VisibleMoves DEF Rows
<1>2. ASSUME NEW s \in KeyedReports
      PROVE  s \in Report /\ Done(s)
  BY <1>2 DEF KeyedReports, KeyedDone
<1>3. SweptDone'
  <2> SUFFICES ASSUME NEW w \in Sweeper, NEW s \in sweeper'[w].files
               PROVE  Done(s)' /\ ~Visible(s)'
    BY DEF SweptDone
  <2>1. CASE s \in sweeper[w].files
    <3>1. s \in Report
      BY <2>1 DEF Rows, Claims, ClaimRow
    <3> QED
      BY <2>1, <3>1, <1>1 DEF SweptDone
  <2>2. ASSUME s \in KeyedReports, NEW p \in Project, DeletionActive(p)
        PROVE  Done(s)' /\ ~Visible(s)'
    BY <2>2, <1>1, <1>2 DEF NothingShown
  <2> QED
    BY <2>1, <2>2, ListsMove DEF ListMoves
<1>4. DeletedDone'
  <2> SUFFICES ASSUME NEW r \in Run, NEW s \in deleter'[r].files
               PROVE  Done(s)' /\ ~Visible(s)'
    BY DEF DeletedDone
  <2>1. CASE s \in deleter[r].files
    <3>1. s \in Report
      BY <2>1 DEF FileRows, DeleterRow
    <3> QED
      BY <2>1, <3>1, <1>1 DEF DeletedDone
  <2>2. CASE s \in KeyedReports /\ Entomb(r)
    <3>1. s \in ReportRows
      BY <2>2 DEF KeyedReports, ReportRows
    <3>2. report'[s] = [report[s] EXCEPT !.snapshot = "stale", !.deleted = TRUE,
                                         !.owned = FALSE, !.live = FALSE]
      BY <2>2, <3>1, <1>2 DEF Entomb
    <3>3. report'[s].snapshot = "stale"
      BY <3>2, <1>2, <2>2 DEF Rows, Reports, ReportRow
    <3> QED
      BY <2>2, <3>3, <1>2, DoneStays DEF Visible, CurrentReports
  <2> QED
    BY <2>1, <2>2, ListsMove DEF ListMoves
<1> QED
  BY <1>3, <1>4

\* No deletion meets a file that may still be shown.
LEMMA ListedDone ==
    ASSUME SweptDone, DeletedDone, NEW s \in Report,
           \/ \E w \in Sweeper : s \in sweeper[w].files
           \/ \E r \in Run : s \in deleter[r].files
    PROVE  Done(s) /\ ~Visible(s)
BY DEF SweptDone, DeletedDone

\* Between the renaming and the completion nothing happens to the file.
LEMMA NextRenamed ==
    ASSUME Rows, FileRows, SweptDone, DeletedDone, RenamedHere, [Next]_vars
    PROVE  RenamedHere'
<1> SUFFICES ASSUME NEW s \in Report, generator'[s].step = "renamed"
             PROVE  reportFile'[s] = "fresh"
  BY DEF RenamedHere
<1>1. CASE RenameArtifact(s)
  BY <1>1 DEF RenameArtifact, FileRows
<1>2. CASE ClaimReport(s)
  BY <1>2 DEF ClaimReport, Turned, Rows, Generators, GeneratorRow
<1>3. CASE generator[s].step = "renamed"
  <2>1. reportFile[s] = "fresh" /\ ~Done(s)
    BY <1>3 DEF RenamedHere, Done
  <2>2. ~AgeReportFile(s) /\ ~ReapReportFile(s) /\ ~RemoveArtifact(s)
    BY <1>3, <2>1 DEF AgeReportFile, ReapReportFile, RemoveArtifact, Generating
  <2> QED
    BY <2>1, <2>2, FilesMove, ListedDone DEF FileMoves
<1> QED
  BY <1>1, <1>2, <1>3, GeneratorsMove DEF GeneratorMoves

\* A report that can be downloaded keeps its file.
LEMMA NextFound ==
    ASSUME Rows, FileRows, KeyedDone, SweptDone, DeletedDone, RenamedHere,
           VisibleReportHasFile, [Next]_vars
    PROVE  VisibleReportHasFile'
<1> SUFFICES ASSUME NEW s \in Report, Visible(s)', reportFile'[s] = "none"
             PROVE  generator'[s].step = "withdrawn"
  BY DEF VisibleReportHasFile, Visible, CurrentReports
<1>1. CASE CompleteReport(s)
  <2>1. generator[s].step = "renamed" /\ UNCHANGED reportFile
    BY <1>1 DEF CompleteReport, Generating
  <2> QED
    BY <2>1 DEF RenamedHere
<1>2. CASE Visible(s)
  <2>1. Done(s) /\ Done(s)'
    BY <1>2, DoneStays DEF KeyedDone, KeyedReports, Visible, CurrentReports
  <2>2. ~RenameArtifact(s) /\ ~ClaimReport(s)
    BY <2>1, DoneStays
  <2>3. CASE reportFile'[s] = reportFile[s]
    <3>1. generator[s].step = "withdrawn"
      BY <1>2, <2>3 DEF VisibleReportHasFile, Visible
    <3> QED
      BY <2>2, <3>1, GeneratorsMove DEF GeneratorMoves
  <2>4. CASE ReapReportFile(s)
    BY <1>2, <2>4 DEF ReapReportFile, Visible, CurrentReports, KeyedReports
  <2>5. CASE RemoveArtifact(s)
    <3>1. generator[s].step = "unheard"
      BY <2>1, <2>5 DEF RemoveArtifact, Generating, Done
    <3>2. Turned(s, "withdrawn")
      BY <3>1, <2>5 DEF RemoveArtifact, Generating
    <3> QED
      BY <3>2 DEF Turned, Rows, Generators, GeneratorRow
  <2>6. ~(\/ \E w \in Sweeper : s \in sweeper[w].files
          \/ \E r \in Run : s \in deleter[r].files)
    BY <1>2, ListedDone
  <2> QED
    BY <2>2, <2>3, <2>4, <2>5, <2>6, FilesMove DEF FileMoves
<1> QED
  BY <1>1, <1>2, VisibleMoves DEF Rows

\* So the files of the reports stay in order.
LEMMA NextFiles ==
    ASSUME Rows, NothingShown, Files, [Next]_vars
    PROVE  Files'
<1>1. FileRows'
  BY ListsMove, FilesMove DEF Files, FileRows, ListMoves
<1> QED
  BY <1>1, NextSpent, NextKeyed, NextLists, NextRenamed, NextFound DEF Files

\* In the beginning there is no report and no deletion.
LEMMA InitErasure == Init => Erasure
<1> SUFFICES ASSUME Init PROVE Erasure
  OBVIOUS
<1>1. PICK plan \in Plans :
         InitWith(plan.live, plan.engine, plan.requests, plan.loops)
  BY DEF Init
<1>2. \A w \in Sweeper : ~Busy(w)
  BY <1>1 DEF InitWith, NoClaim, Busy
<1>3. HeldRuns /\ HeldReports
  BY <1>2 DEF HeldRuns, HeldReports, HoldsDeletion
<1>4. AbsentEmpty
  BY <1>1 DEF InitWith, NoReport, AbsentEmpty
<1>5. NothingShown /\ DeletedProjectHasNoEvidence
  BY <1>1 DEF InitWith, NothingShown, DeletionActive, DeletedProjectHasNoEvidence
<1> QED
  BY <1>3, <1>4, <1>5 DEF Erasure

LEMMA InitFiles == Init => Files
<1> SUFFICES ASSUME Init PROVE Files
  OBVIOUS
<1>1. PICK plan \in Plans :
         InitWith(plan.live, plan.engine, plan.requests, plan.loops)
  BY DEF Init
<1>2. FileRows
  BY <1>1 DEF InitWith, FileRows, DeleterRow, NoDeleter
<1>3. WishesSpent /\ RenamedHere
  BY <1>1 DEF InitWith, WishesSpent, RenamedHere
<1>4. KeyedDone /\ VisibleReportHasFile
  BY <1>1 DEF InitWith, NoReport, KeyedDone, KeyedReports, VisibleReportHasFile,
     CurrentReports
<1>5. SweptDone /\ DeletedDone
  <2>1. \A w \in Sweeper : sweeper[w].files = {}
    BY <1>1 DEF InitWith, NoClaim
  <2>2. \A r \in Run : deleter[r].files = {}
    BY <1>1 DEF InitWith, NoDeleter
  <2> QED
    BY <2>1, <2>2 DEF SweptDone, DeletedDone
<1> QED
  BY <1>2, <1>3, <1>4, <1>5 DEF Files
-----------------------------------------------------------------------------
EvidenceInv == Sound /\ Disk /\ Erasure /\ Files

LEMMA InitEvidence == Init => EvidenceInv
BY InitSound, InitDisk, InitErasure, InitFiles DEF EvidenceInv

LEMMA NextEvidence == EvidenceInv /\ [Next]_vars => EvidenceInv'
<1> SUFFICES ASSUME EvidenceInv, [Next]_vars PROVE EvidenceInv'
  OBVIOUS
<1>1. Sound'
  BY NextSound DEF EvidenceInv
<1>2. Disk'
  BY NextDisk DEF EvidenceInv, Sound
<1>3. Erasure'
  BY <1>2, NextErasure DEF EvidenceInv
<1>4. Files'
  BY NextFiles DEF EvidenceInv, Sound, Erasure
<1> QED
  BY <1>1, <1>2, <1>3, <1>4 DEF EvidenceInv

\* A project that can be browsed has its directory: the publication of
\* internal/decompile renames it into place before the row is committed, and
\* neither a rolled back attempt, nor a deletion that has lost its lease, nor
\* the orphan reaper removes it afterwards.
THEOREM LiveProjectsHaveDirectories == Spec => []LiveProjectHasDirectory
<1>1. EvidenceInv => LiveProjectHasDirectory
  BY DEF EvidenceInv, Disk
<1> QED
  BY <1>1, InitEvidence, NextEvidence, PTL DEF Spec

\* The attempts of a decompile job publish at most one project between them,
\* however often the job is leased again and a process goes on without its
\* lease: the keys of its results are unique, and a deleted result keeps its
\* key (internal/decompile).
THEOREM ProjectsArePublishedOnce == Spec => []PublishedOnce
<1>1. EvidenceInv => PublishedOnce
  <2> SUFFICES ASSUME PublishedAlone PROVE PublishedOnce
    BY DEF EvidenceInv, Disk
  <2> DEFINE Published == {p \in AttemptsOfJob : project[p] # "none"}
  <2>1. CASE Published = {}
    BY <2>1, FS_EmptySet DEF PublishedOnce
  <2>2. ASSUME NEW p \in Published
        PROVE  PublishedOnce
    <3>1. Published = {p}
      BY <2>2 DEF PublishedAlone
    <3> QED
      BY <3>1, FS_Singleton DEF PublishedOnce
  <2> QED
    BY <2>1, <2>2
<1> QED
  BY <1>1, InitEvidence, NextEvidence, PTL DEF Spec

\* When FinalizeSourceProjectCascadeDeletion has committed, the project's
\* runs, its directory and every report of its results are gone, and none
\* comes back.
THEOREM DeletionsLeaveNothing == Spec => []DeletedProjectHasNoEvidence
<1>1. EvidenceInv => DeletedProjectHasNoEvidence
  BY DEF EvidenceInv, Erasure
<1> QED
  BY <1>1, InitEvidence, NextEvidence, PTL DEF Spec

\* A report that can be downloaded has its file, whatever a deletion with an
\* old list of files or the orphan reaper does, but for the generator that
\* takes its commit for a failure and removes the artifact (removeArtifact of
\* internal/report).
THEOREM VisibleReportsHaveFiles == Spec => []VisibleReportHasFile
<1>1. EvidenceInv => VisibleReportHasFile
  BY DEF EvidenceInv, Files
<1> QED
  BY <1>1, InitEvidence, NextEvidence, PTL DEF Spec
-----------------------------------------------------------------------------
\* A finite set of numbers has a greatest, and Max finds it.  This is an
\* induction over the finite sets; WFMin picks the smallest that has none.
LEMMA GreatestIsThere ==
    ASSUME NEW S \in SUBSET Nat, IsFiniteSet(S), S # {}
    PROVE  \E x \in S : \A y \in S : x >= y
<1> DEFINE Topless(T) == T # {} /\ \A x \in T : \E y \in T : ~(x >= y)
           Bad == {T \in FiniteSubsetsOf(Nat) : Topless(T)}
<1> SUFFICES ASSUME Bad # {} PROVE FALSE
  BY DEF FiniteSubsetsOf
<1>1. PICK T \in Bad : \A U \in Bad : ~(<<U, T>> \in StrictSubsetOrdering(Nat))
  BY FS_StrictSubsetOrderingWellFounded, WFMin
<1>2. T \in SUBSET Nat /\ IsFiniteSet(T) /\ Topless(T)
  BY DEF FiniteSubsetsOf
<1>3. PICK x \in T : TRUE
  BY <1>2
<1> DEFINE U == T \ {x}
<1>4. U \in FiniteSubsetsOf(Nat)
  BY <1>2, FS_RemoveElement DEF FiniteSubsetsOf
<1>5. <<U, T>> \in StrictSubsetOrdering(Nat)
  BY <1>2, <1>3 DEF StrictSubsetOrdering
<1>6. ~Topless(U)
  BY <1>1, <1>4, <1>5
<1>7. CASE U = {}
  <2>1. T = {x}
    BY <1>3, <1>7
  <2> QED
    BY <1>2, <2>1
<1>8. ASSUME NEW m \in U, \A y \in U : m >= y
      PROVE  FALSE
  <2>1. m \in Nat /\ x \in Nat /\ m \in T /\ T \subseteq U \cup {x}
    BY <1>2, <1>3
  <2>2. CASE m >= x
    <3>1. \A y \in T : m >= y
      BY <1>8, <2>1, <2>2
    <3> QED
      BY <1>2, <2>1, <3>1
  <2>3. CASE ~(m >= x)
    <3>1. \A y \in T : x >= y
      BY <1>2, <1>8, <2>1, <2>3
    <3> QED
      BY <1>2, <1>3, <3>1
  <2> QED
    BY <2>2, <2>3
<1> QED
  BY <1>6, <1>7, <1>8

Completed == {r \in Run : run[r].at # 0}
Timed == /\ \A r \in Run : run[r].at \in Nat
         /\ IsFiniteSet(Completed)

\* So the next completion has a time, however many runs there may be.
LEMMA CompletionIsTimed ==
    ASSUME Timed, Run # {}
    PROVE  NextCompletion \in Nat
<1> DEFINE times == {run[r].at : r \in Run}
           late == {run[r].at : r \in Completed}
<1>1. times \in SUBSET Nat /\ times # {}
  BY DEF Timed
<1>2. IsFiniteSet(late)
  <2> DEFINE time == [r \in Completed |-> run[r].at]
  <2>1. time \in Surjection(Completed, late)
    BY DEF Surjection
  <2> QED
    BY <2>1, FS_Surjection DEF Timed
<1>3. IsFiniteSet(times)
  <2>1. IsFiniteSet(late \cup {0})
    BY <1>2, FS_AddElement
  <2>2. times \subseteq late \cup {0}
    BY DEF Completed
  <2> QED
    BY <2>1, <2>2, FS_Subset
<1>4. \E x \in times : \A y \in times : x >= y
  BY <1>1, <1>3, GreatestIsThere
<1>5. Max(times) \in times
  BY <1>4 DEF Max
<1> QED
  BY <1>1, <1>5 DEF NextCompletion
-----------------------------------------------------------------------------
JobRow == [status : {"none", "queued", "running", "succeeded", "failed"},
           engine : {"none", "native", "bytecode"}, attempt : 0 .. MaxAttempts,
           holder : Project \cup {NoHolder}, live : BOOLEAN]

\* chk_reports_snapshot_lifecycle: what is staged is being generated, what is
\* current is complete, and neither is deleted.
Kempt == \A s \in ReportRows : report[s].snapshot # "stale" =>
            /\ report[s].status = IF report[s].snapshot = "current" THEN "complete"
                                                                   ELSE "generating"
            /\ ~report[s].deleted

\* chk_source_project_deletion_operation_lease.
LeaseInOrder(row) == /\ row.holder # NoHolder <=> row.status = "deleting"
                     /\ row.live => row.holder # NoHolder
LeasesInOrder == \A p \in Project : LeaseInOrder(op[p])

Orderly == job \in JobRow /\ Timed /\ Kempt /\ LeasesInOrder

\* The attempts of the job are counted up to its maximum.
LEMMA NextJobRow ==
    ASSUME job \in JobRow, [Next]_vars
    PROVE  job' \in JobRow
<1> USE EvidenceIsWellFormed
<1>1. CASE UNCHANGED job
  BY <1>1
<1>2. Requeued \in JobRow /\ [Requeued EXCEPT !.status = "failed"] \in JobRow
  BY DEF Requeued, JobRow
<1>3. CASE JobStep
  <2>1. ASSUME NEW p \in Project, LeaseJob(p)
        PROVE  job' \in JobRow
    <3>1. job.attempt \in 0 .. MaxAttempts /\ job.attempt < MaxAttempts
      BY <2>1 DEF LeaseJob, JobRow
    <3>2. job.attempt + 1 \in 0 .. MaxAttempts
      BY <3>1
    <3> QED
      BY <2>1, <3>2 DEF LeaseJob, JobRow
  <2>2. CASE ExpireJobLease
    BY <2>2 DEF ExpireJobLease, JobRow
  <2> QED
    BY <1>2, <1>3, <2>1, <2>2 DEF JobStep, RecoverJob
<1>4. ASSUME NEW p \in Project, PublisherStep(p)
      PROVE  job' \in JobRow
  <2>1. CASE FinishJob(p)
    <3>1. [job EXCEPT !.status = "succeeded", !.holder = NoHolder, !.live = FALSE] \in JobRow
      BY DEF JobRow
    <3> QED
      BY <1>1, <1>2, <2>1, <3>1 DEF FinishJob
  <2> QED
    BY <1>1, <1>4, <2>1 DEF PublisherStep, BeginRun, RefuseRun, CopyCached, PublishCacheHit,
       DropCopy, PreparePublication, CommitPublication, RollBackPublication,
       AbandonAnalysis, FailRun, CrashPublisher
<1>5. CASE ReaperStep \/ UNCHANGED vars
  BY <1>1, <1>5 DEF ReaperStep, AgeDirectory, ReapDirectory, AgeReportFile, ReapReportFile,
     publicationVars, vars
<1>6. CASE \E r \in Run : RunStep(r) \/ RunDeletionStep(r)
  BY <1>1, <1>6 DEF RunStep, CreateRun, BeginAnalysis, PublishAnalysis, EndAnalysis,
     RequeueAnalysis, CancelRun, Advance, unchangedButRuns, publicationVars,
     RunDeletionStep, RequestRunDeletion, RecoverRunDeletion, Entomb, RemoveRunReportFiles,
     FinalizeRunDeletion, InterruptRunDeletion, unchangedButEvidence
<1>7. CASE \E s \in Report : GeneratorStep(s) \/ ReportStep(s)
  BY <1>1, <1>7 DEF GeneratorStep, WriteSnapshot, AuthorizePublish, RenameArtifact,
     CompleteReport, RejectCompletion, RemoveArtifact, AbandonGeneration, FailReport,
     CrashGenerator, ReportStep, ClaimReport, ExpireReportLease, RenewReport, RecoverReport,
     unchangedButReports, publicationVars
<1>8. CASE \E p \in Project : ProjectDeletionStep(p)
  BY <1>1, <1>8 DEF ProjectDeletionStep, RequestProjectDeletion, ExpireDeletionLease,
     DeferDeletion, ClaimDeletion, unchangedButEvidence, publicationVars
<1>9. CASE \E w \in Sweeper : SweeperStep(w)
  BY <1>1, <1>9 DEF SweeperStep, RemoveReportFiles, RemoveDirectory,
     FinalizeProjectDeletion, LeaveProjectDeletion, RenewDeletion, unchangedButEvidence,
     publicationVars
<1> QED
  BY <1>3, <1>4, <1>5, <1>6, <1>7, <1>8, <1>9 DEF Next

\* Runs are completed at a time.
LEMMA NextTimed ==
    ASSUME Rows, Timed, [Next]_vars
    PROVE  Timed'
<1>1. run = [r \in Run |-> run[r]] /\ \A r \in Run : RunRow(run[r])
  BY DEF Rows, Runs
<1>2. ASSUME \A r \in Run : run'[r].at \in {run[r].at, 0}
       PROVE  Timed'
  <2>1. Completed' \subseteq Completed
    BY <1>2 DEF Completed
  <2> QED
    BY <1>2, <2>1, FS_Subset DEF Timed
<1>3. CASE UNCHANGED run
  BY <1>3, <1>2
<1>4. ASSUME NEW r \in Run, NEW new, new.at \in Nat, run' = [run EXCEPT ![r] = new]
      PROVE  Timed'
  <2>1. \A q \in Run : run'[q].at \in Nat
    BY <1>1, <1>4 DEF Timed
  <2>2. Completed' \subseteq Completed \cup {r}
    BY <1>1, <1>4 DEF Completed
  <2>3. IsFiniteSet(Completed \cup {r})
    BY FS_AddElement DEF Timed
  <2> QED
    BY <2>1, <2>2, <2>3, FS_Subset DEF Timed
<1>5. ASSUME NEW p \in Project, run' = Cancelled(p)
      PROVE  Timed'
  <2>1. \A r \in Run : run'[r].at = run[r].at
    BY <1>1, <1>5 DEF Cancelled, RunRow
  <2> QED
    BY <1>2, <2>1
<1>6. ASSUME NEW r \in Run, RunStep(r)
      PROVE  Timed'
  <2>1. CASE PublishAnalysis(r)
    <3> DEFINE Published(row, at) == [row EXCEPT !.status = "done", !.at = at]
    <3>1. NextCompletion \in Nat
      BY CompletionIsTimed
    <3>2. \A row, at : RunRow(row) => Published(row, at).at = at
      BY DEF RunRow
    <3>3. run' = [run EXCEPT ![r] = Published(run[r], NextCompletion)]
      BY <2>1 DEF PublishAnalysis, Advance
    <3> HIDE DEF Published
    <3> QED
      BY <1>1, <1>4, <3>1, <3>2, <3>3
  <2>2. ASSUME NEW status, Advance(r, [run[r] EXCEPT !.status = status])
        PROVE  Timed'
    <3>1. [run[r] EXCEPT !.status = status].at = run[r].at
      BY <1>1 DEF RunRow
    <3> QED
      BY <1>4, <2>2, <3>1 DEF Advance, Timed
  <2> QED
    BY <1>6, <2>1, <2>2 DEF RunStep, CreateRun, BeginAnalysis, EndAnalysis,
       RequeueAnalysis, CancelRun
<1>7. ASSUME NEW r \in Run, RunDeletionStep(r)
      PROVE  Timed'
  <2>1. CASE Entomb(r)
    <3>1. run' = [run EXCEPT ![r] = [run[r] EXCEPT !.tombstone = TRUE]]
      BY <2>1 DEF Entomb
    <3>2. [run[r] EXCEPT !.tombstone = TRUE].at = run[r].at
      BY <1>1 DEF RunRow
    <3> QED
      BY <1>4, <3>1, <3>2 DEF Timed
  <2>2. CASE FinalizeRunDeletion(r)
    BY <1>4, <2>2 DEF FinalizeRunDeletion, NoRun
  <2> QED
    BY <1>3, <1>7, <2>1, <2>2 DEF RunDeletionStep, RequestRunDeletion, RecoverRunDeletion,
       RemoveRunReportFiles, InterruptRunDeletion
<1>8. ASSUME NEW w \in Sweeper, FinalizeProjectDeletion(w)
      PROVE  Timed'
  BY <1>8, <1>2 DEF FinalizeProjectDeletion, NoRun
<1>9. CASE \E s \in Report : GeneratorStep(s) \/ ReportStep(s)
  BY <1>3, <1>9 DEF GeneratorStep, WriteSnapshot, AuthorizePublish, RenameArtifact,
     CompleteReport, RejectCompletion, RemoveArtifact, AbandonGeneration, FailReport,
     CrashGenerator, ReportStep, ClaimReport, ExpireReportLease, RenewReport, RecoverReport,
     unchangedButReports
<1>10. CASE JobStep \/ \E p \in Project : PublisherStep(p)
  BY <1>3, <1>10 DEF JobStep, LeaseJob, ExpireJobLease, RecoverJob, PublisherStep, BeginRun,
     RefuseRun, CopyCached, PublishCacheHit, DropCopy, PreparePublication,
     CommitPublication, RollBackPublication, AbandonAnalysis, FailRun, FinishJob,
     CrashPublisher, unchangedButPublication
<1>11. CASE ReaperStep \/ UNCHANGED vars
  BY <1>3, <1>11 DEF ReaperStep, AgeDirectory, ReapDirectory, AgeReportFile, ReapReportFile,
     vars
<1>12. CASE \E p \in Project : ProjectDeletionStep(p)
  BY <1>3, <1>5, <1>12 DEF ProjectDeletionStep, RequestProjectDeletion,
     ExpireDeletionLease, DeferDeletion, ClaimDeletion
<1>13. CASE \E w \in Sweeper : SweeperStep(w)
  BY <1>3, <1>8, <1>13 DEF SweeperStep, RemoveReportFiles, RemoveDirectory,
     LeaveProjectDeletion, RenewDeletion
<1> QED
  BY <1>6, <1>7, <1>9, <1>10, <1>11, <1>12, <1>13 DEF Next

\* No step breaks the constraint on the rows of the reports.
LEMMA NextKempt ==
    ASSUME Rows, Kempt, [Next]_vars
    PROVE  Kempt'
<1> DEFINE Tidy(row) == row.status # "absent" /\ row.snapshot # "stale" =>
                            /\ row.status = IF row.snapshot = "current" THEN "complete"
                                                                       ELSE "generating"
                            /\ ~row.deleted
<1>1. \A s \in Report : Tidy(report[s])
  BY DEF Kempt, ReportRows
<1> SUFFICES ASSUME NEW s \in Report PROVE Tidy(report'[s])
  BY DEF Kempt, ReportRows
<1>2. CASE Passes(s)
  BY <1>1, <1>2 DEF Passes, Steady, Lost, Gone, NoReport
<1>3. CASE ClaimReport(s)
  BY <1>3, ClaimedRow DEF Rows
<1>4. CASE CompleteReport(s)
  BY <1>4, CompletedRow DEF Rows
<1> QED
  BY <1>2, <1>3, <1>4, ReportsMove DEF Rows

\* No step breaks the constraint on the leases of deletions.
LEMMA NextLeasesInOrder ==
    ASSUME Rows, Disk, LeasesInOrder, [Next]_vars
    PROVE  LeasesInOrder'
<1>1. op \in [Project -> OperationRow] /\ \A p \in Project : LeaseInOrder(op[p])
  BY DEF Rows, Operations, LeasesInOrder
<1>2. \A w \in Sweeper : Busy(w) => sweeper[w].on \in Project
  BY DEF Disk, ClaimsAreOfDeleted
<1>3. CASE UNCHANGED op
  BY <1>3 DEF LeasesInOrder
<1>4. ASSUME NEW p \in Project, NEW row, LeaseInOrder(row), op' = [op EXCEPT ![p] = row]
      PROVE  LeasesInOrder'
  BY <1>1, <1>4 DEF LeasesInOrder
<1>5. \A status \in {"cancelling", "complete", "failed"} :
         LeaseInOrder([status |-> status, holder |-> NoHolder, live |-> FALSE])
  BY DEF LeaseInOrder
<1>6. ASSUME NEW p \in Project, ProjectDeletionStep(p)
      PROVE  LeasesInOrder'
  <2>1. CASE RequestProjectDeletion(p)
    <3>1. /\ ~DeletionActive(p)
          /\ \E status \in {"pending", "cancelling"} :
                op' = [op EXCEPT ![p] = [op[p] EXCEPT !.status = status]]
      BY <2>1 DEF RequestProjectDeletion
    <3>2. op[p] \in OperationRow /\ op[p].status # "deleting"
      BY <1>1, <3>1 DEF DeletionActive
    <3>3. \A status \in {"pending", "cancelling"} :
             LeaseInOrder([op[p] EXCEPT !.status = status])
      BY <1>1, <3>2 DEF LeaseInOrder, OperationRow
    <3> QED
      BY <1>4, <3>1, <3>3
  <2>2. CASE ExpireDeletionLease(p)
    <3>1. LeaseInOrder([op[p] EXCEPT !.live = FALSE])
      BY <1>1 DEF LeaseInOrder, OperationRow
    <3> QED
      BY <1>4, <2>2, <3>1 DEF ExpireDeletionLease
  <2>3. ASSUME NEW w \in Sweeper, DeferDeletion(w, p) \/ ClaimDeletion(w, p)
        PROVE  LeasesInOrder'
    <3>1. LeaseInOrder([status |-> "deleting", holder |-> w, live |-> TRUE])
      BY EvidenceIsWellFormed DEF LeaseInOrder
    <3> QED
      BY <1>4, <1>5, <2>3, <3>1 DEF DeferDeletion, ClaimDeletion
  <2> QED
    BY <1>6, <2>1, <2>2, <2>3 DEF ProjectDeletionStep
<1>7. ASSUME NEW w \in Sweeper, SweeperStep(w)
      PROVE  LeasesInOrder'
  <2>1. CASE FinalizeProjectDeletion(w)
    BY <1>2, <1>4, <1>5, <2>1 DEF FinalizeProjectDeletion, HoldsDeletion
  <2>2. CASE LeaveProjectDeletion(w)
    <3>1. CASE UNCHANGED op
      BY <1>3, <3>1
    <3>2. CASE op' = [op EXCEPT ![sweeper[w].on] = [status |-> "failed", holder |-> NoHolder,
                                                   live |-> FALSE]]
      BY <1>2, <1>4, <1>5, <2>2, <3>2 DEF LeaveProjectDeletion
    <3> QED
      BY <2>2, <3>1, <3>2 DEF LeaveProjectDeletion
  <2>3. CASE RenewDeletion(w)
    <3> DEFINE p == sweeper[w].on
    <3>1. p \in Project /\ op[p].status = "deleting"
          /\ op' = [op EXCEPT ![p] = [op[p] EXCEPT !.live = TRUE]]
      BY <1>2, <2>3 DEF RenewDeletion, HoldsDeletion
    <3>2. LeaseInOrder([op[p] EXCEPT !.live = TRUE])
      BY <1>1, <3>1 DEF LeaseInOrder, OperationRow
    <3> QED
      BY <1>4, <3>1, <3>2
  <2> QED
    BY <1>3, <1>7, <2>1, <2>2, <2>3 DEF SweeperStep, RemoveReportFiles, RemoveDirectory
<1> QED
  BY <1>3, <1>6, <1>7, OperationsSame DEF Next
LEMMA NextOrderly ==
    ASSUME EvidenceInv, Orderly, [Next]_vars
    PROVE  Orderly'
BY NextJobRow, NextTimed, NextKempt, NextLeasesInOrder DEF Orderly, EvidenceInv, Sound

LEMMA InitOrderly == Init => Orderly
<1> SUFFICES ASSUME Init PROVE Orderly
  OBVIOUS
<1>1. PICK plan \in Plans :
         InitWith(plan.live, plan.engine, plan.requests, plan.loops)
  BY DEF Init
<1>2. job \in JobRow
  <2>1. MaxAttempts \in Nat /\ plan.engine \in {"none", "native", "bytecode"}
    BY EvidenceIsWellFormed, PlansAreOfTasks
  <2>2. 0 \in 0 .. MaxAttempts
    BY <2>1
  <2> QED
    BY <1>1, <2>1, <2>2 DEF InitWith, JobRow
<1>3. Timed
  <2>1. \A r \in Run : run[r].at = 0
    BY <1>1 DEF InitWith, NoRun
  <2>2. Completed = {}
    BY <2>1 DEF Completed
  <2> QED
    BY <2>1, <2>2, FS_EmptySet DEF Timed
<1>4. Kempt
  BY <1>1 DEF InitWith, NoReport, Kempt, ReportRows
<1>5. LeasesInOrder
  BY <1>1 DEF InitWith, LeasesInOrder, LeaseInOrder
<1> QED
  BY <1>2, <1>3, <1>4, <1>5 DEF Orderly

\* All rows, files and processes of the evidence are of their types, and the
\* constraints chk_reports_snapshot_lifecycle and
\* chk_source_project_deletion_operation_lease of the schema refuse no
\* statement of the code.
THEOREM EvidenceTyped == Spec => []TypeOK
<1>1. EvidenceInv /\ Orderly => TypeOK
  <2> SUFFICES ASSUME Rows, Directories, FileRows, Orderly PROVE TypeOK
    BY DEF EvidenceInv, Sound, Disk, Files
  <2>1. project \in [Project -> {"none", "live", "deleted", "erased"}]
    BY DEF Rows, Projects
  <2>2. directory \in [Project -> {"none", "fresh", "old"}]
    BY DEF Directories
  <2>3. job \in [status : {"none", "queued", "running", "succeeded", "failed"},
                 engine : {"none", "native", "bytecode"}, attempt : 0 .. MaxAttempts,
                 holder : Project \cup {NoHolder}, live : BOOLEAN]
    BY DEF Orderly, JobRow
  <2>4. arun \in [Project -> {"none", "running", "succeeded", "partial", "failed"}]
    BY DEF Rows, Attempts, RunOutcome
  <2>5. publisher \in [Project -> [step : {"idle", "leased", "begun", "copied", "prepared",
                                           "published", "failing", "failed"},
                                   source : Project \cup {NoHolder}]]
    BY DEF Rows, Attempts, PublisherRow
  <2>6. run \in [Run -> [status : RunStatus, tombstone : BOOLEAN, at : Nat]]
    BY DEF Rows, Runs, RunRow, Orderly, Timed
  <2>7. report \in [Report -> [status : {"absent", "generating", "complete", "failed"},
                               snapshot : {"staged", "current", "stale"}, deleted : BOOLEAN,
                               owned : BOOLEAN, live : BOOLEAN, shows : SUBSET Run]]
    BY DEF Rows, Reports, ReportRow, ReportStatus
  <2>8. \A s \in ReportRows : report[s].snapshot # "stale" =>
            /\ report[s].status = IF report[s].snapshot = "current" THEN "complete"
                                                                   ELSE "generating"
            /\ ~report[s].deleted
    BY DEF Orderly, Kempt
  <2>9. generator \in [Report -> [step : {"idle", "claimed", "written", "authorized",
                                          "renamed", "unheard", "rejected", "failing",
                                          "withdrawn"},
                                  shows : SUBSET Run]]
    BY DEF Rows, Generators, GeneratorRow
  <2>10. reportFile \in [Report -> {"none", "fresh", "old"}]
    BY DEF FileRows
  <2>11. op \in [Project -> [status : {"none", "pending", "cancelling", "deleting", "failed",
                                       "complete"},
                             holder : Sweeper \cup {NoHolder}, live : BOOLEAN]]
    BY DEF Rows, Operations, OperationRow
  <2>12. \A p \in Project : /\ op[p].holder # NoHolder <=> op[p].status = "deleting"
                            /\ op[p].live => op[p].holder # NoHolder
    BY DEF Orderly, LeasesInOrder, LeaseInOrder
  <2>13. sweeper \in [Sweeper -> [step : {"stopped", "idle", "claimed", "removed"},
                                  on : Project \cup {NoHolder}, reports : SUBSET Report,
                                  files : SUBSET Report, runs : SUBSET Run]]
    BY DEF Rows, Claims, ClaimRow
  <2>14. deleter \in [Run -> [step : {"none", "prepared"}, reports : SUBSET Report,
                              files : SUBSET Report]]
    BY DEF FileRows, DeleterRow
  <2> QED
    BY <2>1, <2>2, <2>3, <2>4, <2>5, <2>6, <2>7, <2>8, <2>9, <2>10, <2>11, <2>12, <2>13,
       <2>14 DEF TypeOK
<1>2. Init => EvidenceInv /\ Orderly
  BY InitEvidence, InitOrderly
<1>3. EvidenceInv /\ Orderly /\ [Next]_vars => EvidenceInv' /\ Orderly'
  BY NextEvidence, NextOrderly
<1> QED
  BY <1>1, <1>2, <1>3, PTL DEF Spec
=============================================================================
