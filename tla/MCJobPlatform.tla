---------------------------- MODULE MCJobPlatform ----------------------------
(* Small instances of JobPlatform for TLC. *)
EXTENDS JobPlatform, FiniteSetsExt, TLC

CONSTANT t1

Rows(t, kind, numbers) == [task : {t}, kind : {kind}, n : numbers]

\* One task scanned twice, with images: a scan and a Trivy job per attempt.
ScanJobs == Rows(t1, "scan", 1 .. MaxNumber) \cup Rows(t1, "trivy", 1 .. MaxNumber)

\* Jobs of every shape of resource requirement but the Trivy pool, which
\* the scan instance has: a global slot each, the native pool, and kinds
\* limited to the first slot.
PostScanJobs ==
    Rows(t1, "scan", {1}) \cup Rows(t1, "decompile_native", {1})
      \cup Rows(t1, "c_analysis", {1}) \cup Rows(t1, "java_analysis", {1})
      \cup Rows(t1, "python_analysis", {1})

\* Two C analyses of one project, whose task may be scanned again.
CRuns == Rows(t1, "scan", 1 .. MaxNumber) \cup Rows(t1, "c_analysis", {1, 2})

\* A scan and a Python analysis.
PythonRuns == Rows(t1, "scan", {1}) \cup Rows(t1, "python_analysis", {1})

\* Bounds: leases granted in all, and jobs requested after the scan.
Grants == MapThenSumSet(LAMBDA j : job[j].attempt, Job)
FiveGrants == Grants <= 5
Requested == {j \in Job : j.kind # "scan" /\ job[j].status # "absent"}

\* Two analyses follow one another, or one meets a second scan of its task.
FollowedOrRescanned ==
    /\ Grants <= 4
    /\ Rescanned(t1) => Grants <= 3 /\ Cardinality(Requested) <= 1

\* Two shapes of behaviour are explored together: two jobs that compete for
\* slots, with each other and with an import, and are delivered once; and one
\* analysis that is delivered again after its lease expired.
Contention == /\ Cardinality(Requested) <= 2
              /\ \A j \in Requested : j.kind # "python_analysis"
              /\ \A j \in Job : job[j].attempt <= 1
Redelivery == /\ Cardinality(Requested) <= 1
              /\ \A j \in Requested : j.kind \in {"c_analysis", "python_analysis"}
              /\ importer = "idle"
ContentionOrRedelivery == Contention \/ Redelivery

\* A C analysis and a task that may be scanned again.
RetriedRuns == Rows(t1, "scan", 1 .. MaxNumber) \cup Rows(t1, "c_analysis", {1})

\* A scan with images, and a C analysis.
ScanAndRun == Rows(t1, "scan", {1}) \cup Rows(t1, "trivy", {1})
                \cup Rows(t1, "c_analysis", {1})

\* Worker processes are interchangeable; used in runs without liveness.
WorkerSymmetry == Permutations(Worker)
=============================================================================
