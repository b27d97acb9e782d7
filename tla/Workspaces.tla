----------------------------- MODULE Workspaces -----------------------------
(***************************************************************************)
(* internal/workspace: the private directory of a delivery below the task  *)
(* work root, and the reaper that removes those left behind.  The name of  *)
(* a directory holds the identity of its delivery (job, attempt, kind and  *)
(* fencing token); the marker file in it, renamed into place, repeats it.  *)
(***************************************************************************)
EXTENDS DeliveryStore

VARIABLES
    dir,      \* per delivery: no directory yet, one without or with its
              \* marker, or one that was removed
    reaper    \* the inactive candidate the reaper is about to remove

workspaces == <<dir, reaper>>

Idle == [on |-> NoDelivery, marked |-> FALSE]

WorkspacesInit ==
    /\ dir = [d \in Delivery |-> "none"]
    /\ reaper = Idle

WorkspacesTyped ==
    /\ dir \in [Delivery -> {"none", "bare", "marked", "gone"}]
    /\ reaper \in [on : {NoDelivery} \cup Delivery, marked : BOOLEAN]

\* What a removal leaves, and what one leaves that fails or is cut short: it
\* removes the entries of the directory, the marker among them, and then it.
Removed(d) == IF dir[d] = "none" THEN "none" ELSE "gone"
Removal(d) == {dir[d], Removed(d)} \cup (IF dir[d] = "marked" THEN {"bare"} ELSE {})

\* createDirectory: the directory has its name before it has its marker.
MakeDirectory(d) ==
    /\ Running(d, {"begun"})
    /\ dir' = [dir EXCEPT ![d] = "bare"]
    /\ StepTo(d, "made", "none")
    /\ UNCHANGED <<rows, reaper>>

\* writeMarker: the marker appears whole, if the directory is still there.
PublishMarker(d) ==
    /\ Running(d, {"made"}) /\ dir[d] = "bare"
    /\ dir' = [dir EXCEPT ![d] = "marked"]
    /\ StepTo(d, "marked", "none")
    /\ UNCHANGED <<rows, reaper>>

\* Create fails and removes what it made; a transient failure of the job.
FailWorkspace(d) ==
    /\ \/ Running(d, {"begun", "made"}) /\ May("disk")
       \/ Running(d, {"made"}) /\ dir[d] = "gone"
    /\ dir' = [dir EXCEPT ![d] = Removed(d)]
    /\ StepTo(d, "settling", "transient")
    /\ UNCHANGED <<rows, reaper>>

\* The deferred Cleanup: a directory that disappeared or cannot be removed is
\* an error that the outcome already chosen hides.
Cleanup(d) ==
    \/ dir' = [dir EXCEPT ![d] = Removed(d)]
    \/ May("disk") /\ \E left \in Removal(d) : dir' = [dir EXCEPT ![d] = left]

\* ... and the runner reports the outcome.
End(d) ==
    /\ Running(d, {"cleaning"})
    /\ Cleanup(d)
    /\ Finish(d)
    /\ StepTo(d, "over", "none")
    /\ UNCHANGED reaper

\* The process dies, perhaps during its Cleanup or after it.
Crash(d) ==
    /\ Befalls("crash", d)
    /\ ~Running(d, {"none", "over"})
    /\ StepTo(d, "over", "none")
    /\ \/ UNCHANGED dir
       \/ Running(d, {"cleaning"}) /\ \E left \in Removal(d) : dir' = [dir EXCEPT ![d] = left]
    /\ UNCHANGED <<rows, reaper>>
-----------------------------------------------------------------------------
\* Mutant of WorkspaceLeaseActive: the plain read checks lease_until as well.
LeaseActiveByTime(d) ==
    job.token = d /\ job.status \in ActiveJob /\ job.lease = "live"

\* WorkspaceLeaseActive asks for the exact fence and an active status only.
WorkspaceLeaseActive(d) == job.token = d /\ job.status \in ActiveJob

\* Mutant of Candidate: a directory without its marker is left alone.
MarkedCandidate(d) == dir[d] = "marked"

\* inspectCandidate: the marker may be missing, the name says whose it is.
Candidate(d) == dir[d] \in {"bare", "marked"}

\* Sweep, a candidate at a time: inspect it and ask for its lease ...
Inspect(d) ==
    /\ reaper = Idle
    /\ Candidate(d) /\ ~WorkspaceLeaseActive(d)
    /\ reaper' = [on |-> d, marked |-> dir[d] = "marked"]
    /\ UNCHANGED <<rows, proc, dir>>

\* ... inspect it again, skip it if it changed, else remove it: whole, or so
\* far that the marker is gone when the removal fails or the process dies.
Reap ==
    /\ reaper # Idle
    /\ LET d == reaper.on
           same == Candidate(d) /\ reaper.marked = (dir[d] = "marked")
       IN  \E left \in {"gone", "bare"} :
               /\ left = "bare" => May("disk") /\ dir[d] = "marked"
               /\ dir' = IF same THEN [dir EXCEPT ![d] = left] ELSE dir
    /\ reaper' = Idle
    /\ UNCHANGED <<rows, proc>>
=============================================================================
