---------------------------- MODULE EvidenceStore ----------------------------
(***************************************************************************)
(* What the analysis of one finished task leaves behind: the source        *)
(* projects that decompilation publishes, the C and Java analysis runs     *)
(* over them, the reports that show the results of the runs, and the       *)
(* operation that deletes a project with all that is derived from it.      *)
(*                                                                         *)
(* A lease is live until time ends it.  Its holder is named by the process *)
(* it was granted to, which stands for the owner and the fencing token     *)
(* that the code compares.                                                 *)
(***************************************************************************)
EXTENDS Naturals, FiniteSets, FiniteSetsExt

CONSTANTS
    Project,      \* source projects; also names the attempt that publishes one
    Run,          \* C and Java analysis runs
    Report,       \* reports, all of one format and language
    Sweeper,      \* the processes that run the maintenance loop
    RunProject,   \* the project each run analyses
    RunLanguage,  \* "c" or "java"
    MaxAttempts,  \* bound on max_attempts of the decompile job
    NoHolder      \* nobody holds the lease

ASSUME EvidenceIsWellFormed ==
    /\ RunProject \in [Run -> Project]
    /\ RunLanguage \in [Run -> {"c", "java"}]
    /\ MaxAttempts \in Nat \ {0}
    /\ NoHolder \notin Project \cup Sweeper

VARIABLES
    wishes,      \* the requests that clients may still make
    project,     \* decompile_source_projects
    directory,   \* the directory of each project, and its age
    job,         \* the decompile job
    arun,        \* analyzer_runs: the run of each attempt of the job
    publisher,   \* the process behind each attempt of the job
    run,         \* c_analysis_runs, java_analysis_runs and their jobs
    report,      \* the reports
    generator,   \* the request that generates each report
    reportFile,  \* the file of each report, and its age
    op,          \* source_project_deletion_operations
    sweeper,     \* the claims of the maintenance processes
    deleter      \* the request or the loop that deletes a run

publicationVars == <<job, arun, publisher>>
reportVars      == <<report, generator>>
deletionVars    == <<op, sweeper, deleter>>
vars == <<wishes, project, directory, publicationVars, run, reportVars, reportFile,
          deletionVars>>
-----------------------------------------------------------------------------
Language == {"c", "java"}

RunStatus   == {"absent", "queued", "running", "cancelling", "done", "ended"}
ActiveRun   == {"queued", "running", "cancelling"}
TerminalRun == {"done", "ended"}

RunsOf(p) == {r \in Run : RunProject[r] = p}
ActiveRuns(p) == {r \in RunsOf(p) : run[r].status \in ActiveRun}

(***************************************************************************)
(* The run whose result a report shows, for each project and language: the *)
(* one completed last among those that are not deleted.                    *)
(***************************************************************************)
Shown(p, l) == {r \in RunsOf(p) : /\ RunLanguage[r] = l
                                  /\ run[r].status = "done" /\ ~run[r].tombstone}

Latest == {r \in Run :
              /\ project[RunProject[r]] = "live"
              /\ r \in Shown(RunProject[r], RunLanguage[r])
              /\ \A q \in Shown(RunProject[r], RunLanguage[r]) : run[q].at <= run[r].at}

NextCompletion == 1 + Max({run[r].at : r \in Run})
-----------------------------------------------------------------------------
\* Mutant of Invalidated: only what is visible becomes stale.
InvalidatedVisible ==
    [s \in Report |->
        IF report[s].snapshot = "current" /\ ~report[s].deleted
        THEN [report[s] EXCEPT !.snapshot = "stale"] ELSE report[s]]

(***************************************************************************)
(* report.InvalidateCurrentTx, which every change of the results calls in  *)
(* its own transaction: the visible reports and those being generated are  *)
(* stale, and what is being generated has failed.                          *)
(***************************************************************************)
Invalidated ==
    [s \in Report |->
        IF report[s].snapshot \in {"staged", "current"} /\ ~report[s].deleted
        THEN [report[s] EXCEPT !.snapshot = "stale", !.owned = FALSE, !.live = FALSE,
                               !.status = IF @ = "generating" THEN "failed" ELSE @]
        ELSE report[s]]

Wanted(wish) == wish \in wishes
Granted(wish) == wishes' = wishes \ {wish}

NoRun    == [status |-> "absent", tombstone |-> FALSE, at |-> 0]
NoReport == [status |-> "absent", snapshot |-> "staged", deleted |-> FALSE,
             owned |-> FALSE, live |-> FALSE, shows |-> {}]
NoClaim  == [step |-> "idle", on |-> NoHolder, reports |-> {}, files |-> {}, runs |-> {}]
NoDeleter == [step |-> "none", reports |-> {}, files |-> {}]

(***************************************************************************)
(* A plan says which projects are published, which kind of decompile job   *)
(* is queued, which requests the clients make, and which processes run the *)
(* maintenance loop.                                                       *)
(***************************************************************************)
InitWith(live, engine, requests, loops) ==
    /\ wishes = requests
    /\ project = [p \in Project |-> IF p \in live THEN "live" ELSE "none"]
    /\ directory = [p \in Project |-> IF p \in live THEN "fresh" ELSE "none"]
    /\ job = [status |-> IF engine = "none" THEN "none" ELSE "queued", engine |-> engine,
              attempt |-> 0, holder |-> NoHolder, live |-> FALSE]
    /\ arun = [p \in Project |-> "none"]
    /\ publisher = [p \in Project |-> [step |-> "idle", source |-> NoHolder]]
    /\ run = [r \in Run |-> NoRun]
    /\ report = [s \in Report |-> NoReport]
    /\ generator = [s \in Report |-> [step |-> "idle", shows |-> {}]]
    /\ reportFile = [s \in Report |-> "none"]
    /\ op = [p \in Project |-> [status |-> "none", holder |-> NoHolder, live |-> FALSE]]
    /\ sweeper = [w \in Sweeper |-> IF w \in loops THEN NoClaim
                                    ELSE [NoClaim EXCEPT !.step = "stopped"]]
    /\ deleter = [r \in Run |-> NoDeleter]
=============================================================================
