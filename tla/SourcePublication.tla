-------------------------- MODULE SourcePublication --------------------------
(***************************************************************************)
(* internal/decompile: a worker decompiles the task's file and publishes   *)
(* the sources as a project, a directory and its row, in one transaction   *)
(* that locks the job.  A bytecode job may instead copy the project of an  *)
(* earlier job.                                                            *)
(***************************************************************************)
EXTENDS EvidenceStore

unchangedButPublication == <<wishes, run, reportVars, reportFile, deletionVars>>

\* The attempt still holds the job.
HoldsJob(p) == job.status = "running" /\ job.holder = p
LeaseValid(p) == HoldsJob(p) /\ job.live

AttemptsOfJob == {p \in Project : arun[p] # "none"}

At(p, step) == publisher[p].step = step
Moved(p, step) == publisher' = [publisher EXCEPT ![p].step = step]
-----------------------------------------------------------------------------
\* queue.Lease and Start; the process of the attempt names its project.
LeaseJob(p) ==
    /\ job.status = "queued" /\ job.attempt < MaxAttempts
    /\ project[p] = "none" /\ arun[p] = "none" /\ At(p, "idle") /\ directory[p] = "none"
    /\ job' = [job EXCEPT !.status = "running", !.attempt = @ + 1, !.holder = p,
                          !.live = TRUE]
    /\ Moved(p, "leased")
    /\ UNCHANGED <<project, directory, arun, unchangedButPublication>>

\* A run of the job that succeeded is replayed as long as its project is
\* there; one that was partial is not.
Replayable == \E q \in AttemptsOfJob : arun[q] = "succeeded" /\ project[q] = "live"

Superseded(runs, p) ==
    [q \in Project |-> IF q = p THEN "running"
                       ELSE IF runs[q] = "running" THEN "failed" ELSE runs[q]]

\* BeginNativeRun and BeginBytecodeRun.
BeginRun(p) ==
    /\ At(p, "leased")
    /\ LeaseValid(p)
    /\ IF Replayable THEN Moved(p, "published") /\ UNCHANGED arun
                     ELSE Moved(p, "begun") /\ arun' = Superseded(arun, p)
    /\ UNCHANGED <<project, directory, job, unchangedButPublication>>

RefuseRun(p) ==
    /\ At(p, "leased") /\ ~LeaseValid(p)
    /\ Moved(p, "failed")
    /\ UNCHANGED <<project, directory, job, arun, unchangedButPublication>>

(***************************************************************************)
(* materializeBytecodeCache: the files of a complete project of an earlier *)
(* job are copied, once, before any row is locked.                         *)
(***************************************************************************)
CopyCached(p, q) ==
    /\ At(p, "begun") /\ job.engine = "bytecode" /\ publisher[p].source = NoHolder
    /\ LeaseValid(p)
    /\ q \notin AttemptsOfJob /\ project[q] = "live" /\ directory[q] # "none"
    /\ directory' = [directory EXCEPT ![p] = "fresh"]
    /\ publisher' = [publisher EXCEPT ![p] = [step |-> "copied", source |-> q]]
    /\ UNCHANGED <<project, job, arun, unchangedButPublication>>

\* No earlier attempt of the job has left results: their keys are unique, and
\* a deleted result keeps its key.
NoneInserted == \A q \in AttemptsOfJob : project[q] = "none"

\* The rows of the project, its results and its run in one transaction.
Insert(p, outcome) ==
    /\ project' = [project EXCEPT ![p] = "live"]
    /\ arun' = [arun EXCEPT ![p] = outcome]

\* PublishBytecodeCacheHit: whoever does not hear that the commit went
\* through leaves the files, as the rows may be there.
PublishCacheHit(p) ==
    /\ At(p, "copied")
    /\ LeaseValid(p) /\ arun[p] = "running"
    /\ project[publisher[p].source] = "live" /\ NoneInserted
    /\ \/ Insert(p, "succeeded") /\ Moved(p, "published")
       \/ Insert(p, "succeeded") /\ Moved(p, "failed")
       \/ UNCHANGED <<project, arun>> /\ Moved(p, "failed")
    /\ UNCHANGED <<directory, job, unchangedButPublication>>

\* The cached project has gone: the copy is removed and the file analysed;
\* any other error fails the run.
DropCopy(p) ==
    /\ At(p, "copied")
    /\ directory' = [directory EXCEPT ![p] = "none"]
    /\ IF LeaseValid(p) /\ arun[p] = "running" /\ project[publisher[p].source] # "live"
       THEN Moved(p, "begun") ELSE Moved(p, "failing") \/ Moved(p, "failed")
    /\ UNCHANGED <<project, job, arun, unchangedButPublication>>
-----------------------------------------------------------------------------
\* The publishing transaction locks the job and then writes the directory,
\* which must not exist.
PreparePublication(p) ==
    /\ At(p, "begun")
    /\ LeaseValid(p) /\ arun[p] = "running"
    /\ directory[p] = "none"
    /\ directory' = [directory EXCEPT ![p] = "fresh"]
    /\ Moved(p, "prepared")
    /\ UNCHANGED <<project, job, arun, unchangedButPublication>>

\* Mutant of CommitPublication: an attempt does not collide with the rows of
\* an earlier one.
CommitPublicationAgain(p) ==
    /\ At(p, "prepared")
    /\ LeaseValid(p)
    /\ \E outcome \in {"succeeded", "partial"} : Insert(p, outcome)
    /\ Moved(p, "published") \/ Moved(p, "failing")
    /\ UNCHANGED <<directory, job, unchangedButPublication>>

\* Mutant of CommitPublication: the files are removed whenever the commit
\* returns an error.
CommitPublicationOrRemove(p) ==
    /\ At(p, "prepared")
    /\ LeaseValid(p) /\ NoneInserted
    /\ \E outcome \in {"succeeded", "partial"} : Insert(p, outcome)
    /\ \/ Moved(p, "published") /\ UNCHANGED directory
       \/ Moved(p, "failing") /\ directory' = [directory EXCEPT ![p] = "none"]
    /\ UNCHANGED <<job, unchangedButPublication>>

\* PublishNativeRun and PublishBytecodeRun: after a commit that returned an
\* error nothing is removed, whether it went through or not.
CommitPublication(p) ==
    /\ At(p, "prepared")
    /\ LeaseValid(p) /\ NoneInserted
    /\ \/ /\ \E outcome \in {"succeeded", "partial"} : Insert(p, outcome)
          /\ Moved(p, "published") \/ Moved(p, "failing")
       \/ UNCHANGED <<project, arun>> /\ Moved(p, "failing")
    /\ UNCHANGED <<directory, job, unchangedButPublication>>

\* Any error before the commit: the directory is removed.
RollBackPublication(p) ==
    /\ At(p, "prepared")
    /\ directory' = [directory EXCEPT ![p] = "none"]
    /\ Moved(p, "failing")
    /\ UNCHANGED <<project, job, arun, unchangedButPublication>>

\* The analyzer, the workspace or the source fails.
AbandonAnalysis(p) ==
    /\ At(p, "begun")
    /\ Moved(p, "failing")
    /\ UNCHANGED <<project, directory, job, arun, unchangedButPublication>>

\* FailNativeRun asks for the owner and the token, FailBytecodeRun also for
\* a lease that has not expired.
FailRun(p) ==
    /\ At(p, "failing")
    /\ arun' = IF HoldsJob(p) /\ arun[p] = "running" /\ (job.live \/ job.engine = "native")
               THEN [arun EXCEPT ![p] = "failed"] ELSE arun
    /\ Moved(p, "failed")
    /\ UNCHANGED <<project, directory, job, unchangedButPublication>>
-----------------------------------------------------------------------------
Requeued == [job EXCEPT !.status = IF @ = "running" /\ job.attempt < MaxAttempts
                                   THEN "queued" ELSE "failed",
                        !.holder = NoHolder, !.live = FALSE]

\* queue.Finish: an error of the processor is retried, a failure of the
\* input is not.
FinishJob(p) ==
    /\ At(p, "published") \/ At(p, "failed")
    /\ IF ~LeaseValid(p) THEN UNCHANGED job
       ELSE IF At(p, "published")
            THEN job' = [job EXCEPT !.status = "succeeded", !.holder = NoHolder, !.live = FALSE]
            ELSE job' \in {Requeued, [Requeued EXCEPT !.status = "failed"]}
    /\ Moved(p, "idle")
    /\ UNCHANGED <<project, directory, arun, unchangedButPublication>>

\* The process dies: what it has written to the disk stays.
CrashPublisher(p) ==
    /\ ~At(p, "idle")
    /\ Moved(p, "idle")
    /\ UNCHANGED <<project, directory, job, arun, unchangedButPublication>>

ExpireJobLease ==
    /\ job.live
    /\ job' = [job EXCEPT !.live = FALSE]
    /\ UNCHANGED <<project, directory, arun, publisher, unchangedButPublication>>

\* queue.RecoverExpired skips a job whose row a publication has locked.
RecoverJob ==
    /\ job.status = "running" /\ ~job.live
    /\ \A p \in Project : At(p, "prepared") => job.holder # p
    /\ job' = Requeued
    /\ UNCHANGED <<project, directory, arun, publisher, unchangedButPublication>>

ProjectInUse(p) == ~At(p, "idle")
=============================================================================
