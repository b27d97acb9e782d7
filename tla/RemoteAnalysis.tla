--------------------------- MODULE RemoteAnalysis ---------------------------
(***************************************************************************)
(* A remote analysis through all its deliveries: the job queue, the worker *)
(* processes, their directories and the reaper, and the checker service,   *)
(* in settings with several of the mishaps.                                *)
(***************************************************************************)
EXTENDS AnalysisDelivery

Init == DeliveryInit /\ WorkspacesInit /\ CheckerInit

\* The steps of DeliveryStore leave directories and services alone, those of
\* Workspaces the services, those of CheckerService the directories.
QueueStep == UNCHANGED <<workspaces, services>>

\* A worker process that goes on with its delivery, and the answer it waits for.
WorkerStep(d) ==
    \/ Begin(d) \/ Settle(d) \/ Publish(d)
    \/ (MakeDirectory(d) \/ PublishMarker(d) \/ FailWorkspace(d) \/ End(d))
         /\ UNCHANGED services
    \/ Send(d) \/ SourceInvalid(d) \/ SendInterrupted(d)
    \/ Rejected(d) \/ Disconnect(d) \/ TimeOut(d) \/ Interrupt(d)

ServiceStep(d) ==
    /\ \/ Reserve(d) \/ Reject(d) \/ Register(d) \/ TakePending(d)
       \/ \E reply \in Replies : Answer(d, reply)
       \/ LookUp(d) \/ Record(d) \/ LookAgain(d)
    /\ UNCHANGED workspaces

QueueWork == \/ \E d \in Delivery : Deliver(d)
             \/ Recover

Reaper == (Reap \/ \E d \in Delivery : Inspect(d)) /\ UNCHANGED services

\* What the environment does to them.
Misfortune(d) ==
    \/ (HeartbeatLate(d) \/ HeartbeatRenews(d)) /\ QueueStep
    \/ (LoseHeartbeat(d) \/ Shutdown(d)) /\ QueueStep
    \/ Crash(d) /\ UNCHANGED services
    \/ (ExpirePending(d) \/ LosePost(d) \/ LoseDelete(d)) /\ UNCHANGED workspaces

Next ==
    \/ \E d \in Delivery : WorkerStep(d) \/ ServiceStep(d) \/ Misfortune(d)
    \/ (QueueWork \/ ExpireLease \/ CancelRun) /\ QueueStep
    \/ Restart /\ UNCHANGED workspaces
    \/ Reaper

\* A process goes on until it dies: its statement gets the row between two
\* heartbeats, and a heartbeat that has the row commits.  Maintenance and the
\* queue are served, and the lease of a process that no longer renews it expires.
Fairness ==
    /\ \A d \in Delivery : /\ SF_vars(WorkerStep(d))
                           /\ WF_vars(HeartbeatRenews(d) /\ QueueStep)
    /\ WF_vars(QueueWork /\ QueueStep)
    /\ WF_vars(Unattended /\ ExpireLease /\ QueueStep)
    /\ WF_vars(Reaper)

Spec == Init /\ [][Next]_vars /\ Fairness

TypeOK == DeliveryTyped /\ WorkspacesTyped /\ CheckerTyped
-----------------------------------------------------------------------------
(***************************************************************************)
(* The Java checker cancels an analysis only when the delivery that sent   *)
(* it has asked for that, whatever the deliveries before it did: "a        *)
(* checker cancellation belongs to one fenced delivery"                    *)
(* (internal/javaanalysis/processor.go:314).                               *)
(***************************************************************************)
CancellationsAreOwn ==
    active.cancelled => delete[active.on] # "none"

JavaCancellationsAreOwn == kind = "java_analysis" => CancellationsAreOwn

(***************************************************************************)
(* A cancellation the Java checker has dealt with is not lost on the race  *)
(* with the registration of its analysis: "close the race where POST       *)
(* registers active work between the first lookup and insertion of the     *)
(* cancellation tombstone" (AnalysisCoordinator.java of the Java checker). *)
(***************************************************************************)
JavaCancellationsLand ==
    kind = "java_analysis" /\ active.looked /\ delete[active.on] = "done"
        => active.cancelled

(***************************************************************************)
(* The reaper leaves the directory of a delivery at work alone for as long *)
(* as the delivery owns the job: also while a renewal of its lease is      *)
(* under way, while a cancellation has not reached it, before its marker   *)
(* is there, and in the time between the look at the lease and the removal.*)
(***************************************************************************)
AtWork == {"made", "marked", "waiting"}

OwnedWorkspaceKept ==
    \A d \in Delivery :
        job.token = d /\ job.status \in ActiveJob /\ proc[d].pc \in AtWork
            => dir[d] \in {"bare", "marked"}

\* Every directory is removed in the end, by its delivery or by the reaper:
\* what crashes leave, with or without a marker, does not stay on the disk.
Left == {d \in Delivery : dir[d] \in {"bare", "marked"}}
WorkspacesReclaimed == Left # {} ~> Left = {}

(***************************************************************************)
(* However the deliveries end, by answers, refusals for a busy service,    *)
(* time limits, lost connections, crashes or shutdowns, the run does not   *)
(* stay active for ever.  The exception is a shutdown that cancels the     *)
(* context of Begin, or of CancelRun: Process returns its error without    *)
(* touching the run, and Finish, in a context that is not cancelled, ends  *)
(* the job of the last delivery, or requeues one that no claim takes.      *)
(***************************************************************************)
StoppedInBegin(d) ==
    d = MaxAttempts /\ job.status = "ended" /\ run = "queued"

StoppedInCancelRun(d) ==
    post[d] = "cancelled" /\ job.status \in {"queued", "ended"} /\ run = "running"

LeftByShutdown ==
    \E d \in Delivery :
        /\ job.token = d /\ Running(d, {"over"}) /\ proc[d].ctx = "shutdown"
        /\ StoppedInBegin(d) \/ StoppedInCancelRun(d)

RunSettles == run \in ActiveRun ~> run \in FinalRun \/ LeftByShutdown
=============================================================================
