---------------------------- MODULE RemoteProofs ----------------------------
(***************************************************************************)
(* Proofs about RemoteAnalysis, for every number of deliveries, every kind *)
(* and every set of mishaps: the reaper keeps the directory of a delivery  *)
(* that owns the job, and the cancellations of the Java checker belong to  *)
(* one delivery each and are not lost.                                     *)
(***************************************************************************)
EXTENDS RemoteAnalysis, TLAPS

\* Deliveries start in the order of their tokens, and what is in progress or
\* on the disk belongs to one that has started.
Started ==
    /\ \A d \in Delivery : proc[d].pc # "none" \/ dir[d] # "none" => d <= job.token
    /\ reaper.on <= job.token

\* The reaper's look at the lease stays true until it acts on it: a fence that
\* is not active will never be.
LookStaysTrue == reaper.on # NoDelivery => ~WorkspaceLeaseActive(reaper.on)

WorkspaceLaw == Started /\ LookStaysTrue /\ OwnedWorkspaceKept
WorkspaceInv == TypeOK /\ WorkspaceLaw

\* A delivery cancels its analysis after its last use of the service.
CancelledLast ==
    \A d \in Delivery : /\ proc[d].pc # "none" => d <= job.token
                        /\ proc[d].pc \in {"none", "leased", "begun", "made", "marked", "waiting"}
                              => delete[d] = "none"

\* The service has read the request of the analysis it works on, and a worker
\* sends one request per delivery.
ActiveRead ==
    /\ IF active.on = NoDelivery THEN ~active.cancelled /\ ~active.looked
                                  ELSE post[active.on] = "active"
    /\ \A d \in Delivery : proc[d].pc \in {"none", "leased", "begun", "made", "marked"}
                              => post[d] = "none"

\* With an identifier per delivery, a tombstone is one's own ...
OwnTombstones == \A d \in pending : d \in Delivery /\ delete[d] # "none"

\* ... and stays until the analysis it is about has looked for it.
TombstonesWait ==
    \A d \in Delivery :
        /\ post[d] \in {"sent", "reserved"} /\ delete[d] \in {"recorded", "done"}
              => d \in pending
        /\ active.on = d /\ ~active.looked /\ delete[d] = "done"
              => d \in pending \/ active.cancelled

JavaInv ==
    /\ TypeOK /\ CancelledLast /\ ActiveRead
    /\ kind = "java_analysis" =>
           /\ OwnTombstones /\ TombstonesWait
           /\ CancellationsAreOwn /\ JavaCancellationsLand
-----------------------------------------------------------------------------
\* Init is well typed.
LEMMA InitTyped == Init => TypeOK
BY AttemptsArePositive DEF Init, DeliveryInit, WorkspacesInit, CheckerInit, NoProcess, Idle,
   NoAnalysis, TypeOK, DeliveryTyped, WorkspacesTyped, CheckerTyped, Delivery, NoDelivery,
   LeaseState, Place, Outcome, Process

\* What StepTo does to the processes.
LEMMA StepTakes ==
    ASSUME TypeOK, NEW d \in Delivery, NEW pc \in Place, NEW outcome \in Outcome,
           StepTo(d, pc, outcome)
    PROVE  proc' \in [Delivery -> Process]
<1>1. proc[d] \in Process /\ proc \in [Delivery -> Process]
  BY DEF TypeOK, DeliveryTyped
<1>2. [pc |-> pc, ctx |-> proc[d].ctx, outcome |-> outcome] \in Process
  BY <1>1 DEF Process
<1>. QED  BY <1>1, <1>2 DEF StepTo

\* Types: a step of a worker process keeps it.
LEMMA TypedWorker ==
    ASSUME TypeOK, NEW d \in Delivery, WorkerStep(d)
    PROVE  TypeOK'
<1>1. ASSUME Begin(d)  PROVE TypeOK'
  <2>1. proc' \in [Delivery -> Process]
    BY <1>1, StepTakes DEF Begin, Running, DrivesRun, Held, FinalRun, Place, Outcome
  <2>. QED
    BY <1>1, <2>1 DEF Begin, DatabaseStep, TypeOK, DeliveryTyped, WorkspacesTyped,
         CheckerTyped, Delivery, NoDelivery, LeaseState, Replies, rows, workspaces,
         services, checker
<1>2. ASSUME Settle(d)  PROVE TypeOK'
  <2>1. proc' \in [Delivery -> Process]
    BY <1>2, StepTakes DEF Settle, Running, RunAfter, DrivesRun, Held, Place, Outcome,
         TypeOK, DeliveryTyped, Process
  <2>. QED
    BY <1>2, <2>1 DEF Settle, DatabaseStep, RunAfter, TypeOK, DeliveryTyped,
         WorkspacesTyped, CheckerTyped, Delivery, NoDelivery, LeaseState, Replies,
         rows, workspaces, services, checker
<1>3. ASSUME Publish(d)  PROVE TypeOK'
  <2>1. proc' \in [Delivery -> Process]
    BY <1>3, StepTakes DEF Publish, Running, Accepts, DrivesRun, Held, FinalRun,
         OutcomeOf, Place, Outcome
  <2>. QED
    BY <1>3, <2>1 DEF Publish, DatabaseStep, FinalRun, TypeOK, DeliveryTyped,
         WorkspacesTyped, CheckerTyped, Delivery, NoDelivery, LeaseState, Replies,
         rows, workspaces, services, checker
<1>4. ASSUME Send(d)  PROVE TypeOK'
  <2>1. proc' \in [Delivery -> Process]
    BY <1>4, StepTakes DEF Send, Running, Place, Outcome
  <2>. QED
    BY <1>4, <2>1 DEF Send, RemoteStep, TypeOK, DeliveryTyped, WorkspacesTyped,
         CheckerTyped, Delivery, NoDelivery, LeaseState, Replies, rows, workspaces,
         services, checker
<1>5. ASSUME SourceInvalid(d)  PROVE TypeOK'
  <2>1. proc' \in [Delivery -> Process]
    BY <1>5, StepTakes DEF SourceInvalid, Running, Place, Outcome
  <2>. QED
    BY <1>5, <2>1 DEF SourceInvalid, RemoteStep, TypeOK, DeliveryTyped,
         WorkspacesTyped, CheckerTyped, Delivery, NoDelivery, LeaseState, Replies,
         rows, workspaces, services, checker
<1>6. ASSUME SendInterrupted(d)  PROVE TypeOK'
  <2>1. proc' \in [Delivery -> Process]
    BY <1>6, StepTakes DEF SendInterrupted, Running, Place, Outcome
  <2>. QED
    BY <1>6, <2>1 DEF SendInterrupted, RemoteStep, CancelRemote, TypeOK,
         DeliveryTyped, WorkspacesTyped, CheckerTyped, Delivery, NoDelivery,
         LeaseState, Replies, rows, workspaces, services, checker
<1>7. ASSUME Rejected(d)  PROVE TypeOK'
  <2>1. proc' \in [Delivery -> Process]
    BY <1>7, StepTakes DEF Rejected, Running, Place, Outcome
  <2>. QED
    BY <1>7, <2>1 DEF Rejected, RemoteStep, TypeOK, DeliveryTyped, WorkspacesTyped,
         CheckerTyped, Delivery, NoDelivery, LeaseState, Replies, rows, workspaces,
         services, checker
<1>8. ASSUME Disconnect(d)  PROVE TypeOK'
  <2>1. proc' \in [Delivery -> Process]
    BY <1>8, StepTakes DEF Disconnect, Running, Place, Outcome
  <2>. QED
    BY <1>8, <2>1 DEF Disconnect, RemoteStep, CancelRemote, TypeOK, DeliveryTyped,
         WorkspacesTyped, CheckerTyped, Delivery, NoDelivery, LeaseState, Replies,
         rows, workspaces, services, checker
<1>9. ASSUME TimeOut(d)  PROVE TypeOK'
  <2>1. proc' \in [Delivery -> Process]
    BY <1>9, StepTakes DEF TimeOut, Running, Place, Outcome
  <2>. QED
    BY <1>9, <2>1 DEF TimeOut, RemoteStep, CancelRemote, TypeOK, DeliveryTyped,
         WorkspacesTyped, CheckerTyped, Delivery, NoDelivery, LeaseState, Replies,
         rows, workspaces, services, checker
<1>10. ASSUME Interrupt(d)  PROVE TypeOK'
  <2>1. proc' \in [Delivery -> Process]
    BY <1>10, StepTakes DEF Interrupt, Running, Place, Outcome
  <2>. QED
    BY <1>10, <2>1 DEF Interrupt, RemoteStep, CancelRemote, TypeOK, DeliveryTyped,
         WorkspacesTyped, CheckerTyped, Delivery, NoDelivery, LeaseState, Replies,
         rows, workspaces, services, checker
<1>11. ASSUME MakeDirectory(d), UNCHANGED services  PROVE TypeOK'
  <2>1. proc' \in [Delivery -> Process]
    BY <1>11, StepTakes DEF MakeDirectory, Running, Place, Outcome
  <2>. QED
    BY <1>11, <2>1 DEF MakeDirectory, TypeOK, DeliveryTyped, WorkspacesTyped,
         CheckerTyped, Delivery, NoDelivery, LeaseState, Replies, rows, workspaces,
         services, checker
<1>12. ASSUME PublishMarker(d), UNCHANGED services  PROVE TypeOK'
  <2>1. proc' \in [Delivery -> Process]
    BY <1>12, StepTakes DEF PublishMarker, Running, Place, Outcome
  <2>. QED
    BY <1>12, <2>1 DEF PublishMarker, TypeOK, DeliveryTyped, WorkspacesTyped,
         CheckerTyped, Delivery, NoDelivery, LeaseState, Replies, rows, workspaces,
         services, checker
<1>13. ASSUME FailWorkspace(d), UNCHANGED services  PROVE TypeOK'
  <2>1. proc' \in [Delivery -> Process]
    BY <1>13, StepTakes DEF FailWorkspace, Running, Place, Outcome
  <2>. QED
    BY <1>13, <2>1 DEF FailWorkspace, Removed, TypeOK, DeliveryTyped, WorkspacesTyped,
         CheckerTyped, Delivery, NoDelivery, LeaseState, Replies, rows, workspaces,
         services, checker
<1>14. ASSUME End(d), UNCHANGED services  PROVE TypeOK'
  <2>1. proc' \in [Delivery -> Process]
    BY <1>14, StepTakes DEF End, Running, Place, Outcome
  <2>2. job' = job \/ job' = [job EXCEPT !.status = FinishedStatus(d), !.lease = "none"]
    BY <1>14 DEF End, Finish
  <2>3. FinishedStatus(d) \in {"queued", "ended"}
    BY DEF FinishedStatus
  <2>4. dir' \in [Delivery -> {"none", "bare", "marked", "gone"}]
    BY <1>14 DEF End, Cleanup, Removed, Removal, TypeOK, WorkspacesTyped
  <2>. QED
    BY ZenonT(60), <1>14, <2>1, <2>2, <2>3, <2>4 DEF End, Finish, TypeOK, DeliveryTyped,
         WorkspacesTyped, CheckerTyped, Delivery, NoDelivery, LeaseState, Replies,
         rows, workspaces, services, checker
<1>. QED
  BY <1>1, <1>2, <1>3, <1>4, <1>5, <1>6, <1>7, <1>8, <1>9, <1>10, <1>11, <1>12, <1>13,
       <1>14 DEF WorkerStep

\* Types: a step of the service keeps it.
LEMMA TypedService ==
    ASSUME TypeOK, NEW d \in Delivery, ServiceStep(d)
    PROVE  TypeOK'
<1>1. ASSUME Reserve(d), UNCHANGED workspaces  PROVE TypeOK'
  BY <1>1 DEF Reserve, LocalStep, TypeOK, DeliveryTyped, WorkspacesTyped,
       CheckerTyped, Delivery, NoDelivery, LeaseState, Replies, rows, workspaces,
       services, checker
<1>2. ASSUME Reject(d), UNCHANGED workspaces  PROVE TypeOK'
  BY <1>2 DEF Reject, LocalStep, TypeOK, DeliveryTyped, WorkspacesTyped, CheckerTyped,
       Delivery, NoDelivery, LeaseState, Replies, rows, workspaces, services, checker
<1>3. ASSUME Register(d), UNCHANGED workspaces  PROVE TypeOK'
  BY <1>3 DEF Register, LocalStep, TypeOK, DeliveryTyped, WorkspacesTyped,
       CheckerTyped, Delivery, NoDelivery, LeaseState, Replies, rows, workspaces,
       services, checker
<1>4. ASSUME TakePending(d), UNCHANGED workspaces  PROVE TypeOK'
  BY ZenonT(60), <1>4 DEF TakePending, LocalStep, CheckerId, TypeOK, DeliveryTyped,
       WorkspacesTyped, CheckerTyped, Delivery, NoDelivery, LeaseState, Replies, rows,
       workspaces, services, checker
<1>5. ASSUME NEW reply \in Replies, Answer(d, reply), UNCHANGED workspaces  PROVE TypeOK'
  BY <1>5 DEF Answer, LocalStep, NoAnalysis, TypeOK, DeliveryTyped, WorkspacesTyped,
       CheckerTyped, Delivery, NoDelivery, LeaseState, Replies, rows, workspaces,
       services, checker
<1>6. ASSUME LookUp(d), UNCHANGED workspaces  PROVE TypeOK'
  <2>1. UNCHANGED <<rows, proc, workspaces, post, slot, pending>>
    BY <1>6 DEF LookUp, LocalStep
  <2>2. active' = active \/ active' = [active EXCEPT !.cancelled = TRUE]
    BY <1>6 DEF LookUp
  <2>3. delete' = [delete EXCEPT ![d] = "done"] \/ delete' = [delete EXCEPT ![d] = "missed"]
    BY <1>6 DEF LookUp
  <2>4. active' \in [on : {NoDelivery} \cup Delivery, looked : BOOLEAN, cancelled : BOOLEAN]
    BY <2>2 DEF TypeOK, CheckerTyped
  <2>5. delete' \in [Delivery -> {"none", "sent", "missed", "recorded", "done", "lost"}]
    BY <2>3 DEF TypeOK, CheckerTyped
  <2>6. CheckerTyped'
    BY <2>1, <2>4, <2>5 DEF TypeOK, CheckerTyped, Replies
  <2>. QED
    BY <2>1, <2>6 DEF TypeOK, DeliveryTyped, WorkspacesTyped, LeaseState, rows, workspaces
<1>7. ASSUME Record(d), UNCHANGED workspaces  PROVE TypeOK'
  BY <1>7 DEF Record, LocalStep, AfterRecord, CheckerId, TypeOK, DeliveryTyped,
       WorkspacesTyped, CheckerTyped, Delivery, NoDelivery, LeaseState, Replies, rows,
       workspaces, services, checker
<1>8. ASSUME LookAgain(d), UNCHANGED workspaces  PROVE TypeOK'
  BY ZenonT(60), <1>8 DEF LookAgain, LocalStep, Registered, CheckerId, TypeOK, DeliveryTyped,
       WorkspacesTyped, CheckerTyped, Delivery, NoDelivery, LeaseState, Replies, rows,
       workspaces, services, checker
<1>. QED
  BY <1>1, <1>2, <1>3, <1>4, <1>5, <1>6, <1>7, <1>8 DEF ServiceStep

\* Types: a mishap of a delivery keeps it.
LEMMA TypedMishap ==
    ASSUME TypeOK, NEW d \in Delivery, Misfortune(d)
    PROVE  TypeOK'
<1>1. ASSUME HeartbeatLate(d), QueueStep  PROVE TypeOK'
  BY <1>1 DEF HeartbeatLate, QueueStep, TypeOK, DeliveryTyped, WorkspacesTyped,
       CheckerTyped, Delivery, NoDelivery, LeaseState, Replies, rows, workspaces,
       services, checker
<1>2. ASSUME HeartbeatRenews(d), QueueStep  PROVE TypeOK'
  BY <1>2 DEF HeartbeatRenews, QueueStep, TypeOK, DeliveryTyped, WorkspacesTyped,
       CheckerTyped, Delivery, NoDelivery, LeaseState, Replies, rows, workspaces,
       services, checker
<1>3. ASSUME LoseHeartbeat(d), QueueStep  PROVE TypeOK'
  <2>1. proc' \in [Delivery -> Process]
    BY <1>3 DEF LoseHeartbeat, TypeOK, DeliveryTyped, Process
  <2>. QED
    BY <1>3, <2>1 DEF LoseHeartbeat, QueueStep, TypeOK, DeliveryTyped,
         WorkspacesTyped, CheckerTyped, Delivery, NoDelivery, LeaseState, Replies,
         rows, workspaces, services, checker
<1>4. ASSUME Shutdown(d), QueueStep  PROVE TypeOK'
  <2>1. proc' \in [Delivery -> Process]
    BY <1>4 DEF Shutdown, TypeOK, DeliveryTyped, Process
  <2>. QED
    BY <1>4, <2>1 DEF Shutdown, QueueStep, TypeOK, DeliveryTyped, WorkspacesTyped,
         CheckerTyped, Delivery, NoDelivery, LeaseState, Replies, rows, workspaces,
         services, checker
<1>5. ASSUME Crash(d), UNCHANGED services  PROVE TypeOK'
  <2>1. proc' \in [Delivery -> Process]
    BY <1>5, StepTakes DEF Crash, Running, Place, Outcome
  <2>. QED
    BY <1>5, <2>1 DEF Crash, Removal, Removed, TypeOK, DeliveryTyped, WorkspacesTyped,
         CheckerTyped, Delivery, NoDelivery, LeaseState, Replies, rows, workspaces,
         services, checker
<1>6. ASSUME ExpirePending(d), UNCHANGED workspaces  PROVE TypeOK'
  BY <1>6 DEF ExpirePending, LocalStep, CheckerId, TypeOK, DeliveryTyped,
       WorkspacesTyped, CheckerTyped, Delivery, NoDelivery, LeaseState, Replies, rows,
       workspaces, services, checker
<1>7. ASSUME LosePost(d), UNCHANGED workspaces  PROVE TypeOK'
  BY <1>7 DEF LosePost, LocalStep, TypeOK, DeliveryTyped, WorkspacesTyped,
       CheckerTyped, Delivery, NoDelivery, LeaseState, Replies, rows, workspaces,
       services, checker
<1>8. ASSUME LoseDelete(d), UNCHANGED workspaces  PROVE TypeOK'
  BY <1>8 DEF LoseDelete, LocalStep, TypeOK, DeliveryTyped, WorkspacesTyped,
       CheckerTyped, Delivery, NoDelivery, LeaseState, Replies, rows, workspaces,
       services, checker
<1>. QED
  BY <1>1, <1>2, <1>3, <1>4, <1>5, <1>6, <1>7, <1>8 DEF Misfortune

\* Types: every step keeps it.
LEMMA TypedNext ==
    ASSUME TypeOK, [Next]_vars
    PROVE  TypeOK'
<1>1. ASSUME NEW d \in Delivery, Deliver(d), QueueStep  PROVE TypeOK'
  <2>1. proc' \in [Delivery -> Process]
    BY <1>1, StepTakes DEF Deliver, Place, Outcome
  <2>. QED
    BY <1>1, <2>1, AttemptsArePositive DEF Deliver, QueueStep, TypeOK, DeliveryTyped,
         WorkspacesTyped, CheckerTyped, Delivery, NoDelivery, LeaseState, Replies,
         rows, workspaces, services, checker
<1>2. ASSUME Recover, QueueStep  PROVE TypeOK'
  BY <1>2 DEF Recover, QueueStep, Recovered, FinalRun, ActiveJob, TypeOK,
       DeliveryTyped, WorkspacesTyped, CheckerTyped, Delivery, NoDelivery, LeaseState,
       Replies, rows, workspaces, services, checker
<1>3. ASSUME ExpireLease, QueueStep  PROVE TypeOK'
  BY <1>3 DEF ExpireLease, QueueStep, ActiveJob, TypeOK, DeliveryTyped,
       WorkspacesTyped, CheckerTyped, Delivery, NoDelivery, LeaseState, Replies, rows,
       workspaces, services, checker
<1>4. ASSUME CancelRun, QueueStep  PROVE TypeOK'
  BY <1>4 DEF CancelRun, QueueStep, TypeOK, DeliveryTyped, WorkspacesTyped,
       CheckerTyped, Delivery, NoDelivery, LeaseState, Replies, rows, workspaces,
       services, checker
<1>5. ASSUME Restart, UNCHANGED workspaces  PROVE TypeOK'
  BY <1>5 DEF Restart, LocalStep, NoAnalysis, Served, Running, TypeOK, DeliveryTyped,
       WorkspacesTyped, CheckerTyped, Delivery, NoDelivery, LeaseState, Replies, rows,
       workspaces, services, checker
<1>6. ASSUME Reap, UNCHANGED services  PROVE TypeOK'
  <2>1. /\ dir' \in [Delivery -> {"none", "bare", "marked", "gone"}]
        /\ reaper' \in [on : {NoDelivery} \cup Delivery, marked : BOOLEAN]
    BY <1>6 DEF Reap, Idle, TypeOK, WorkspacesTyped
  <2>. QED
    BY <1>6, <2>1 DEF Reap, TypeOK, DeliveryTyped, WorkspacesTyped, CheckerTyped,
         Delivery, NoDelivery, LeaseState, Replies, rows, workspaces, services,
         checker
<1>7. ASSUME NEW d \in Delivery, Inspect(d), UNCHANGED services  PROVE TypeOK'
  BY <1>7 DEF Inspect, Idle, Candidate, WorkspaceLeaseActive, TypeOK, DeliveryTyped,
       WorkspacesTyped, CheckerTyped, Delivery, NoDelivery, LeaseState, Replies, rows,
       workspaces, services, checker
<1>8. ASSUME UNCHANGED vars  PROVE TypeOK'
  BY <1>8 DEF vars, TypeOK, Process, DeliveryTyped, WorkspacesTyped, CheckerTyped,
       Delivery, NoDelivery, LeaseState, Place, Outcome, Replies, rows, workspaces,
       services, checker
<1>. QED  BY <1>1, <1>2, <1>3, <1>4, <1>5, <1>6, <1>7, <1>8, TypedWorker, TypedService,
              TypedMishap DEF Next, QueueWork, Reaper

-----------------------------------------------------------------------------
\* The reaper's invariant: a step of a worker process keeps it.
LEMMA KeptWorker ==
    ASSUME WorkspaceInv, NEW d \in Delivery, WorkerStep(d)
    PROVE  WorkspaceLaw'
<1>1. ASSUME Begin(d)  PROVE WorkspaceLaw'
  <2>1. /\ proc[d].pc = "leased" /\ proc'[d].pc \in {"begun", "settling", "cleaning"}
        /\ \A e \in Delivery : e # d => proc'[e] = proc[e]
    BY <1>1 DEF Begin, StepTo, Running, WorkspaceInv, TypeOK, DeliveryTyped
  <2>2. UNCHANGED <<setting, job, workspaces, services>>
    BY <1>1 DEF Begin, DatabaseStep
  <2>. QED
    BY <2>1, <2>2 DEF WorkspaceInv, WorkspaceLaw, Started, LookStaysTrue,
         OwnedWorkspaceKept, AtWork, WorkspaceLeaseActive, workspaces
<1>2. ASSUME Settle(d)  PROVE WorkspaceLaw'
  <2>1. /\ proc[d].pc = "settling" /\ proc'[d].pc \in {"cleaning"}
        /\ \A e \in Delivery : e # d => proc'[e] = proc[e]
    BY <1>2 DEF Settle, StepTo, Running, WorkspaceInv, TypeOK, DeliveryTyped
  <2>2. UNCHANGED <<setting, job, workspaces, services>>
    BY <1>2 DEF Settle, DatabaseStep
  <2>. QED
    BY <2>1, <2>2 DEF WorkspaceInv, WorkspaceLaw, Started, LookStaysTrue,
         OwnedWorkspaceKept, AtWork, WorkspaceLeaseActive, workspaces
<1>3. ASSUME Publish(d)  PROVE WorkspaceLaw'
  <2>1. /\ proc[d].pc = "waiting" /\ proc'[d].pc \in {"settling", "cleaning"}
        /\ \A e \in Delivery : e # d => proc'[e] = proc[e]
    BY <1>3 DEF Publish, StepTo, Running, WorkspaceInv, TypeOK, DeliveryTyped
  <2>2. UNCHANGED <<setting, job, workspaces, services>>
    BY <1>3 DEF Publish, DatabaseStep
  <2>. QED
    BY <2>1, <2>2 DEF WorkspaceInv, WorkspaceLaw, Started, LookStaysTrue,
         OwnedWorkspaceKept, AtWork, WorkspaceLeaseActive, workspaces
<1>4. ASSUME Send(d)  PROVE WorkspaceLaw'
  BY <1>4 DEF Send, RemoteStep, StepTo, Running, WorkspaceInv, WorkspaceLaw, Started,
         LookStaysTrue, OwnedWorkspaceKept, AtWork, WorkspaceLeaseActive, ActiveJob,
         TypeOK, DeliveryTyped, WorkspacesTyped, Delivery, NoDelivery, QueueStep, rows,
         workspaces, services, checker
<1>5. ASSUME SourceInvalid(d)  PROVE WorkspaceLaw'
  BY <1>5 DEF SourceInvalid, RemoteStep, StepTo, Running, WorkspaceInv, WorkspaceLaw,
         Started, LookStaysTrue, OwnedWorkspaceKept, AtWork, WorkspaceLeaseActive,
         ActiveJob, TypeOK, DeliveryTyped, WorkspacesTyped, Delivery, NoDelivery,
         QueueStep, rows, workspaces, services, checker
<1>6. ASSUME SendInterrupted(d)  PROVE WorkspaceLaw'
  BY <1>6 DEF SendInterrupted, RemoteStep, StepTo, Running, CancelRemote, WorkspaceInv,
         WorkspaceLaw, Started, LookStaysTrue, OwnedWorkspaceKept, AtWork,
         WorkspaceLeaseActive, ActiveJob, TypeOK, DeliveryTyped, WorkspacesTyped,
         Delivery, NoDelivery, QueueStep, rows, workspaces, services, checker
<1>7. ASSUME Rejected(d)  PROVE WorkspaceLaw'
  BY <1>7 DEF Rejected, RemoteStep, StepTo, Running, WorkspaceInv, WorkspaceLaw, Started,
         LookStaysTrue, OwnedWorkspaceKept, AtWork, WorkspaceLeaseActive, ActiveJob,
         TypeOK, DeliveryTyped, WorkspacesTyped, Delivery, NoDelivery, QueueStep, rows,
         workspaces, services, checker
<1>8. ASSUME Disconnect(d)  PROVE WorkspaceLaw'
  BY <1>8 DEF Disconnect, RemoteStep, StepTo, Running, CancelRemote, WorkspaceInv,
         WorkspaceLaw, Started, LookStaysTrue, OwnedWorkspaceKept, AtWork,
         WorkspaceLeaseActive, ActiveJob, TypeOK, DeliveryTyped, WorkspacesTyped,
         Delivery, NoDelivery, QueueStep, rows, workspaces, services, checker
<1>9. ASSUME TimeOut(d)  PROVE WorkspaceLaw'
  BY <1>9 DEF TimeOut, RemoteStep, StepTo, Running, CancelRemote, WorkspaceInv,
         WorkspaceLaw, Started, LookStaysTrue, OwnedWorkspaceKept, AtWork,
         WorkspaceLeaseActive, ActiveJob, TypeOK, DeliveryTyped, WorkspacesTyped,
         Delivery, NoDelivery, QueueStep, rows, workspaces, services, checker
<1>10. ASSUME Interrupt(d)  PROVE WorkspaceLaw'
  BY <1>10 DEF Interrupt, RemoteStep, StepTo, Running, CancelRemote, WorkspaceInv,
         WorkspaceLaw, Started, LookStaysTrue, OwnedWorkspaceKept, AtWork,
         WorkspaceLeaseActive, ActiveJob, TypeOK, DeliveryTyped, WorkspacesTyped,
         Delivery, NoDelivery, QueueStep, rows, workspaces, services, checker
<1>11. ASSUME MakeDirectory(d), UNCHANGED services  PROVE WorkspaceLaw'
  BY <1>11 DEF MakeDirectory, StepTo, Running, WorkspaceInv, WorkspaceLaw, Started,
         LookStaysTrue, OwnedWorkspaceKept, AtWork, WorkspaceLeaseActive, ActiveJob,
         TypeOK, DeliveryTyped, WorkspacesTyped, Delivery, NoDelivery, QueueStep, rows,
         workspaces, services, checker
<1>12. ASSUME PublishMarker(d), UNCHANGED services  PROVE WorkspaceLaw'
  BY <1>12 DEF PublishMarker, StepTo, Running, WorkspaceInv, WorkspaceLaw, Started,
         LookStaysTrue, OwnedWorkspaceKept, AtWork, WorkspaceLeaseActive, ActiveJob,
         TypeOK, DeliveryTyped, WorkspacesTyped, Delivery, NoDelivery, QueueStep, rows,
         workspaces, services, checker
<1>13. ASSUME FailWorkspace(d), UNCHANGED services  PROVE WorkspaceLaw'
  BY <1>13 DEF FailWorkspace, StepTo, Running, Removed, WorkspaceInv, WorkspaceLaw,
         Started, LookStaysTrue, OwnedWorkspaceKept, AtWork, WorkspaceLeaseActive,
         ActiveJob, TypeOK, DeliveryTyped, WorkspacesTyped, Delivery, NoDelivery,
         QueueStep, rows, workspaces, services, checker
<1>14. ASSUME End(d), UNCHANGED services  PROVE WorkspaceLaw'
  BY ZenonT(60), <1>14 DEF End, StepTo, Running, Cleanup, Removed, Removal, Finish, FinishedStatus,
         WorkspaceInv, WorkspaceLaw, Started, LookStaysTrue, OwnedWorkspaceKept, AtWork,
         WorkspaceLeaseActive, ActiveJob, TypeOK, DeliveryTyped, WorkspacesTyped,
         Delivery, NoDelivery, QueueStep, rows, workspaces, services, checker
<1>. QED
  BY <1>1, <1>2, <1>3, <1>4, <1>5, <1>6, <1>7, <1>8, <1>9, <1>10, <1>11, <1>12, <1>13,
       <1>14 DEF WorkerStep

\* The reaper's invariant: a step of the service keeps it.
LEMMA KeptService ==
    ASSUME WorkspaceInv, NEW d \in Delivery, ServiceStep(d)
    PROVE  WorkspaceLaw'
<1>1. ASSUME Reserve(d), UNCHANGED workspaces  PROVE WorkspaceLaw'
  BY <1>1 DEF Reserve, LocalStep, WorkspaceInv, WorkspaceLaw, Started, LookStaysTrue,
         OwnedWorkspaceKept, AtWork, WorkspaceLeaseActive, ActiveJob, TypeOK,
         DeliveryTyped, WorkspacesTyped, Delivery, NoDelivery, QueueStep, rows,
         workspaces, services, checker
<1>2. ASSUME Reject(d), UNCHANGED workspaces  PROVE WorkspaceLaw'
  BY <1>2 DEF Reject, LocalStep, WorkspaceInv, WorkspaceLaw, Started, LookStaysTrue,
         OwnedWorkspaceKept, AtWork, WorkspaceLeaseActive, ActiveJob, TypeOK,
         DeliveryTyped, WorkspacesTyped, Delivery, NoDelivery, QueueStep, rows,
         workspaces, services, checker
<1>3. ASSUME Register(d), UNCHANGED workspaces  PROVE WorkspaceLaw'
  BY <1>3 DEF Register, LocalStep, WorkspaceInv, WorkspaceLaw, Started, LookStaysTrue,
         OwnedWorkspaceKept, AtWork, WorkspaceLeaseActive, ActiveJob, TypeOK,
         DeliveryTyped, WorkspacesTyped, Delivery, NoDelivery, QueueStep, rows,
         workspaces, services, checker
<1>4. ASSUME TakePending(d), UNCHANGED workspaces  PROVE WorkspaceLaw'
  BY <1>4 DEF TakePending, LocalStep, CheckerId, WorkspaceInv, WorkspaceLaw, Started,
         LookStaysTrue, OwnedWorkspaceKept, AtWork, WorkspaceLeaseActive, ActiveJob,
         TypeOK, DeliveryTyped, WorkspacesTyped, Delivery, NoDelivery, QueueStep, rows,
         workspaces, services, checker
<1>5. ASSUME NEW reply \in Replies, Answer(d, reply), UNCHANGED workspaces  PROVE WorkspaceLaw'
  BY <1>5 DEF Answer, LocalStep, NoAnalysis, WorkspaceInv, WorkspaceLaw, Started,
         LookStaysTrue, OwnedWorkspaceKept, AtWork, WorkspaceLeaseActive, ActiveJob,
         TypeOK, DeliveryTyped, WorkspacesTyped, Delivery, NoDelivery, QueueStep, rows,
         workspaces, services, checker
<1>6. ASSUME LookUp(d), UNCHANGED workspaces  PROVE WorkspaceLaw'
  BY <1>6 DEF LookUp, LocalStep, Registered, CheckerId, WorkspaceInv, WorkspaceLaw,
         Started, LookStaysTrue, OwnedWorkspaceKept, AtWork, WorkspaceLeaseActive,
         ActiveJob, TypeOK, DeliveryTyped, WorkspacesTyped, Delivery, NoDelivery,
         QueueStep, rows, workspaces, services, checker
<1>7. ASSUME Record(d), UNCHANGED workspaces  PROVE WorkspaceLaw'
  BY <1>7 DEF Record, LocalStep, AfterRecord, CheckerId, WorkspaceInv, WorkspaceLaw,
         Started, LookStaysTrue, OwnedWorkspaceKept, AtWork, WorkspaceLeaseActive,
         ActiveJob, TypeOK, DeliveryTyped, WorkspacesTyped, Delivery, NoDelivery,
         QueueStep, rows, workspaces, services, checker
<1>8. ASSUME LookAgain(d), UNCHANGED workspaces  PROVE WorkspaceLaw'
  BY <1>8 DEF LookAgain, LocalStep, Registered, CheckerId, WorkspaceInv, WorkspaceLaw,
         Started, LookStaysTrue, OwnedWorkspaceKept, AtWork, WorkspaceLeaseActive,
         ActiveJob, TypeOK, DeliveryTyped, WorkspacesTyped, Delivery, NoDelivery,
         QueueStep, rows, workspaces, services, checker
<1>. QED
  BY <1>1, <1>2, <1>3, <1>4, <1>5, <1>6, <1>7, <1>8 DEF ServiceStep

\* The reaper's invariant: a mishap of a delivery keeps it.
LEMMA KeptMishap ==
    ASSUME WorkspaceInv, NEW d \in Delivery, Misfortune(d)
    PROVE  WorkspaceLaw'
<1>1. ASSUME HeartbeatLate(d), QueueStep  PROVE WorkspaceLaw'
  BY <1>1 DEF HeartbeatLate, QueueStep, WorkspaceInv, WorkspaceLaw, Started,
         LookStaysTrue, OwnedWorkspaceKept, AtWork, WorkspaceLeaseActive, ActiveJob,
         TypeOK, DeliveryTyped, WorkspacesTyped, Delivery, NoDelivery, rows, workspaces,
         services, checker
<1>2. ASSUME HeartbeatRenews(d), QueueStep  PROVE WorkspaceLaw'
  BY <1>2 DEF HeartbeatRenews, QueueStep, WorkspaceInv, WorkspaceLaw, Started,
         LookStaysTrue, OwnedWorkspaceKept, AtWork, WorkspaceLeaseActive, ActiveJob,
         TypeOK, DeliveryTyped, WorkspacesTyped, Delivery, NoDelivery, rows, workspaces,
         services, checker
<1>3. ASSUME LoseHeartbeat(d), QueueStep  PROVE WorkspaceLaw'
  BY <1>3 DEF LoseHeartbeat, QueueStep, Running, WorkspaceInv, WorkspaceLaw, Started,
         LookStaysTrue, OwnedWorkspaceKept, AtWork, WorkspaceLeaseActive, ActiveJob,
         TypeOK, DeliveryTyped, WorkspacesTyped, Delivery, NoDelivery, rows, workspaces,
         services, checker
<1>4. ASSUME Shutdown(d), QueueStep  PROVE WorkspaceLaw'
  BY <1>4 DEF Shutdown, QueueStep, Running, WorkspaceInv, WorkspaceLaw, Started,
         LookStaysTrue, OwnedWorkspaceKept, AtWork, WorkspaceLeaseActive, ActiveJob,
         TypeOK, DeliveryTyped, WorkspacesTyped, Delivery, NoDelivery, rows, workspaces,
         services, checker
<1>5. ASSUME Crash(d), UNCHANGED services  PROVE WorkspaceLaw'
  BY ZenonT(60), <1>5 DEF Crash, StepTo, Running, Removal, Removed, WorkspaceInv, WorkspaceLaw,
         Started, LookStaysTrue, OwnedWorkspaceKept, AtWork, WorkspaceLeaseActive,
         ActiveJob, TypeOK, DeliveryTyped, WorkspacesTyped, Delivery, NoDelivery,
         QueueStep, rows, workspaces, services, checker
<1>6. ASSUME ExpirePending(d), UNCHANGED workspaces  PROVE WorkspaceLaw'
  BY <1>6 DEF ExpirePending, LocalStep, CheckerId, WorkspaceInv, WorkspaceLaw, Started,
         LookStaysTrue, OwnedWorkspaceKept, AtWork, WorkspaceLeaseActive, ActiveJob,
         TypeOK, DeliveryTyped, WorkspacesTyped, Delivery, NoDelivery, QueueStep, rows,
         workspaces, services, checker
<1>7. ASSUME LosePost(d), UNCHANGED workspaces  PROVE WorkspaceLaw'
  BY <1>7 DEF LosePost, LocalStep, WorkspaceInv, WorkspaceLaw, Started, LookStaysTrue,
         OwnedWorkspaceKept, AtWork, WorkspaceLeaseActive, ActiveJob, TypeOK,
         DeliveryTyped, WorkspacesTyped, Delivery, NoDelivery, QueueStep, rows,
         workspaces, services, checker
<1>8. ASSUME LoseDelete(d), UNCHANGED workspaces  PROVE WorkspaceLaw'
  BY <1>8 DEF LoseDelete, LocalStep, WorkspaceInv, WorkspaceLaw, Started, LookStaysTrue,
         OwnedWorkspaceKept, AtWork, WorkspaceLeaseActive, ActiveJob, TypeOK,
         DeliveryTyped, WorkspacesTyped, Delivery, NoDelivery, QueueStep, rows,
         workspaces, services, checker
<1>. QED
  BY <1>1, <1>2, <1>3, <1>4, <1>5, <1>6, <1>7, <1>8 DEF Misfortune

\* The reaper's invariant: every step keeps it.
LEMMA KeptNext ==
    ASSUME WorkspaceInv, [Next]_vars
    PROVE  WorkspaceLaw'
<1>1. ASSUME NEW d \in Delivery, Deliver(d), QueueStep  PROVE WorkspaceLaw'
  BY <1>1 DEF Deliver, QueueStep, StepTo, WorkspaceInv, WorkspaceLaw, Started,
         LookStaysTrue, OwnedWorkspaceKept, AtWork, WorkspaceLeaseActive, ActiveJob,
         TypeOK, DeliveryTyped, WorkspacesTyped, Delivery, NoDelivery, rows, workspaces,
         services, checker
<1>2. ASSUME Recover, QueueStep  PROVE WorkspaceLaw'
  BY <1>2 DEF Recover, QueueStep, Recovered, FinalRun, ActiveJob, WorkspaceInv,
         WorkspaceLaw, Started, LookStaysTrue, OwnedWorkspaceKept, AtWork,
         WorkspaceLeaseActive, TypeOK, DeliveryTyped, WorkspacesTyped, Delivery,
         NoDelivery, rows, workspaces, services, checker
<1>3. ASSUME ExpireLease, QueueStep  PROVE WorkspaceLaw'
  BY <1>3 DEF ExpireLease, QueueStep, ActiveJob, WorkspaceInv, WorkspaceLaw, Started,
         LookStaysTrue, OwnedWorkspaceKept, AtWork, WorkspaceLeaseActive, TypeOK,
         DeliveryTyped, WorkspacesTyped, Delivery, NoDelivery, rows, workspaces,
         services, checker
<1>4. ASSUME CancelRun, QueueStep  PROVE WorkspaceLaw'
  BY <1>4 DEF CancelRun, QueueStep, WorkspaceInv, WorkspaceLaw, Started, LookStaysTrue,
         OwnedWorkspaceKept, AtWork, WorkspaceLeaseActive, ActiveJob, TypeOK,
         DeliveryTyped, WorkspacesTyped, Delivery, NoDelivery, rows, workspaces,
         services, checker
<1>5. ASSUME Restart, UNCHANGED workspaces  PROVE WorkspaceLaw'
  BY <1>5 DEF Restart, LocalStep, NoAnalysis, Served, Running, WorkspaceInv,
         WorkspaceLaw, Started, LookStaysTrue, OwnedWorkspaceKept, AtWork,
         WorkspaceLeaseActive, ActiveJob, TypeOK, DeliveryTyped, WorkspacesTyped,
         Delivery, NoDelivery, QueueStep, rows, workspaces, services, checker
<1>6. ASSUME Reap, UNCHANGED services  PROVE WorkspaceLaw'
  BY <1>6 DEF Reap, Idle, Candidate, WorkspaceInv, WorkspaceLaw, Started, LookStaysTrue,
         OwnedWorkspaceKept, AtWork, WorkspaceLeaseActive, ActiveJob, TypeOK,
         DeliveryTyped, WorkspacesTyped, Delivery, NoDelivery, QueueStep, rows,
         workspaces, services, checker
<1>7. ASSUME NEW d \in Delivery, Inspect(d), UNCHANGED services  PROVE WorkspaceLaw'
  BY <1>7 DEF Inspect, Idle, Candidate, WorkspaceLeaseActive, WorkspaceInv, WorkspaceLaw,
         Started, LookStaysTrue, OwnedWorkspaceKept, AtWork, ActiveJob, TypeOK,
         DeliveryTyped, WorkspacesTyped, Delivery, NoDelivery, QueueStep, rows,
         workspaces, services, checker
<1>8. ASSUME UNCHANGED vars  PROVE WorkspaceLaw'
  BY <1>8 DEF vars, WorkspaceInv, WorkspaceLaw, Started, LookStaysTrue,
       OwnedWorkspaceKept, AtWork, WorkspaceLeaseActive, ActiveJob, TypeOK,
       DeliveryTyped, WorkspacesTyped, Delivery, NoDelivery, QueueStep, rows,
       workspaces, services, checker
<1>. QED  BY <1>1, <1>2, <1>3, <1>4, <1>5, <1>6, <1>7, <1>8, KeptWorker, KeptService,
              KeptMishap DEF Next, QueueWork, Reaper

-----------------------------------------------------------------------------
\* What JavaInv says besides the types.
JavaLaw ==
    /\ CancelledLast /\ ActiveRead
    /\ kind = "java_analysis" =>
           OwnTombstones /\ TombstonesWait /\ CancellationsAreOwn /\ JavaCancellationsLand

\* The cancellations' invariant: a step of a worker process keeps it.
LEMMA OwnWorker ==
    ASSUME JavaInv, NEW d \in Delivery, WorkerStep(d)
    PROVE  JavaLaw'
<1>1. ASSUME Begin(d)  PROVE JavaLaw'
  <2>1. /\ proc[d].pc = "leased" /\ proc'[d].pc \in {"begun", "settling", "cleaning"}
        /\ \A e \in Delivery : e # d => proc'[e] = proc[e]
    BY <1>1 DEF Begin, StepTo, Running, JavaInv, TypeOK, DeliveryTyped
  <2>2. UNCHANGED <<setting, job, workspaces, services>>
    BY <1>1 DEF Begin, DatabaseStep
  <2>3. (CancelledLast /\ ActiveRead)'
    BY <2>1, <2>2 DEF JavaInv, CancelledLast, ActiveRead, services, checker
  <2>. QED
    BY <2>2, <2>3 DEF JavaLaw, JavaInv, OwnTombstones, TombstonesWait,
         CancellationsAreOwn, JavaCancellationsLand, kind, services, checker
<1>2. ASSUME Settle(d)  PROVE JavaLaw'
  <2>1. /\ proc[d].pc = "settling" /\ proc'[d].pc \in {"cleaning"}
        /\ \A e \in Delivery : e # d => proc'[e] = proc[e]
    BY <1>2 DEF Settle, StepTo, Running, JavaInv, TypeOK, DeliveryTyped
  <2>2. UNCHANGED <<setting, job, workspaces, services>>
    BY <1>2 DEF Settle, DatabaseStep
  <2>3. (CancelledLast /\ ActiveRead)'
    BY <2>1, <2>2 DEF JavaInv, CancelledLast, ActiveRead, services, checker
  <2>. QED
    BY <2>2, <2>3 DEF JavaLaw, JavaInv, OwnTombstones, TombstonesWait,
         CancellationsAreOwn, JavaCancellationsLand, kind, services, checker
<1>3. ASSUME Publish(d)  PROVE JavaLaw'
  <2>1. /\ proc[d].pc = "waiting" /\ proc'[d].pc \in {"settling", "cleaning"}
        /\ \A e \in Delivery : e # d => proc'[e] = proc[e]
    BY <1>3 DEF Publish, StepTo, Running, JavaInv, TypeOK, DeliveryTyped
  <2>2. UNCHANGED <<setting, job, workspaces, services>>
    BY <1>3 DEF Publish, DatabaseStep
  <2>3. (CancelledLast /\ ActiveRead)'
    BY <2>1, <2>2 DEF JavaInv, CancelledLast, ActiveRead, services, checker
  <2>. QED
    BY <2>2, <2>3 DEF JavaLaw, JavaInv, OwnTombstones, TombstonesWait,
         CancellationsAreOwn, JavaCancellationsLand, kind, services, checker
<1>4. ASSUME Send(d)  PROVE JavaLaw'
  BY <1>4, AttemptsArePositive DEF Send, RemoteStep, StepTo, Running, JavaLaw, JavaInv,
         CancelledLast, ActiveRead, OwnTombstones, TombstonesWait, CancellationsAreOwn,
         JavaCancellationsLand, kind, TypeOK, DeliveryTyped, CheckerTyped, Delivery,
         NoDelivery, QueueStep, rows, workspaces, services, checker
<1>5. ASSUME SourceInvalid(d)  PROVE JavaLaw'
  BY ZenonT(60), <1>5, AttemptsArePositive DEF SourceInvalid, RemoteStep, StepTo, Running, JavaLaw,
         JavaInv, CancelledLast, ActiveRead, OwnTombstones, TombstonesWait,
         CancellationsAreOwn, JavaCancellationsLand, kind, TypeOK, DeliveryTyped,
         CheckerTyped, Delivery, NoDelivery, QueueStep, rows, workspaces, services,
         checker
<1>6. ASSUME SendInterrupted(d)  PROVE JavaLaw'
  <2>1. CancelledLast'
    BY <1>6 DEF SendInterrupted, RemoteStep, StepTo, Running, CancelRemote, JavaInv,
         CancelledLast, TypeOK, DeliveryTyped, CheckerTyped, rows
  <2>2. ActiveRead'
    BY <1>6 DEF SendInterrupted, RemoteStep, StepTo, Running, CancelRemote, JavaInv,
         ActiveRead, TypeOK, DeliveryTyped, CheckerTyped, Delivery, NoDelivery, rows
  <2>3. ASSUME kind = "java_analysis"
        PROVE  (OwnTombstones /\ TombstonesWait /\ CancellationsAreOwn
                   /\ JavaCancellationsLand)'
    <3>1. OwnTombstones'
      BY <1>6, <2>3 DEF SendInterrupted, RemoteStep, StepTo, Running, CancelRemote,
           kind, JavaInv, OwnTombstones, TypeOK, DeliveryTyped, CheckerTyped,
           Delivery, NoDelivery, rows
    <3>2. TombstonesWait'
      BY ZenonT(60), <1>6, <2>3 DEF SendInterrupted, RemoteStep, StepTo, Running, CancelRemote,
           kind, JavaInv, TombstonesWait, ActiveRead, CancelledLast, TypeOK,
           DeliveryTyped, CheckerTyped, Delivery, NoDelivery, rows
    <3>3. CancellationsAreOwn'
      BY ZenonT(60), <1>6, <2>3 DEF SendInterrupted, RemoteStep, StepTo, Running, CancelRemote,
           kind, JavaInv, OwnTombstones, TombstonesWait, CancelledLast,
           CancellationsAreOwn, JavaCancellationsLand, ActiveRead, TypeOK,
           DeliveryTyped, CheckerTyped, Delivery, NoDelivery, rows
    <3>4. JavaCancellationsLand'
      BY ZenonT(60), <1>6, <2>3 DEF SendInterrupted, RemoteStep, StepTo, Running, CancelRemote,
           kind, JavaInv, OwnTombstones, TombstonesWait, CancelledLast,
           CancellationsAreOwn, JavaCancellationsLand, ActiveRead, TypeOK,
           DeliveryTyped, CheckerTyped, Delivery, NoDelivery, rows
    <3>. QED  BY <3>1, <3>2, <3>3, <3>4
  <2>4. kind' = kind
    BY <1>6 DEF SendInterrupted, RemoteStep, kind, rows
  <2>. QED  BY <2>1, <2>2, <2>3, <2>4 DEF JavaLaw
<1>7. ASSUME Rejected(d)  PROVE JavaLaw'
  BY <1>7, AttemptsArePositive DEF Rejected, RemoteStep, StepTo, Running, JavaLaw,
         JavaInv, CancelledLast, ActiveRead, OwnTombstones, TombstonesWait,
         CancellationsAreOwn, JavaCancellationsLand, kind, TypeOK, DeliveryTyped,
         CheckerTyped, Delivery, NoDelivery, QueueStep, rows, workspaces, services,
         checker
<1>8. ASSUME Disconnect(d)  PROVE JavaLaw'
  <2>1. CancelledLast'
    BY <1>8 DEF Disconnect, RemoteStep, StepTo, Running, CancelRemote, JavaInv,
         CancelledLast, TypeOK, DeliveryTyped, CheckerTyped, rows
  <2>2. ActiveRead'
    BY <1>8 DEF Disconnect, RemoteStep, StepTo, Running, CancelRemote, JavaInv,
         ActiveRead, TypeOK, DeliveryTyped, CheckerTyped, Delivery, NoDelivery, rows
  <2>3. ASSUME kind = "java_analysis"
        PROVE  (OwnTombstones /\ TombstonesWait /\ CancellationsAreOwn
                   /\ JavaCancellationsLand)'
    <3>1. OwnTombstones'
      BY <1>8, <2>3 DEF Disconnect, RemoteStep, StepTo, Running, CancelRemote, kind,
           JavaInv, OwnTombstones, TypeOK, DeliveryTyped, CheckerTyped, Delivery,
           NoDelivery, rows
    <3>2. TombstonesWait'
      BY ZenonT(60), <1>8, <2>3 DEF Disconnect, RemoteStep, StepTo, Running, CancelRemote, kind,
           JavaInv, TombstonesWait, ActiveRead, CancelledLast, TypeOK, DeliveryTyped,
           CheckerTyped, Delivery, NoDelivery, rows
    <3>3. CancellationsAreOwn'
      BY ZenonT(60), <1>8, <2>3 DEF Disconnect, RemoteStep, StepTo, Running, CancelRemote, kind,
           JavaInv, OwnTombstones, TombstonesWait, CancelledLast, CancellationsAreOwn,
           JavaCancellationsLand, ActiveRead, TypeOK, DeliveryTyped, CheckerTyped,
           Delivery, NoDelivery, rows
    <3>4. JavaCancellationsLand'
      BY ZenonT(60), <1>8, <2>3 DEF Disconnect, RemoteStep, StepTo, Running, CancelRemote, kind,
           JavaInv, OwnTombstones, TombstonesWait, CancelledLast, CancellationsAreOwn,
           JavaCancellationsLand, ActiveRead, TypeOK, DeliveryTyped, CheckerTyped,
           Delivery, NoDelivery, rows
    <3>. QED  BY <3>1, <3>2, <3>3, <3>4
  <2>4. kind' = kind
    BY <1>8 DEF Disconnect, RemoteStep, kind, rows
  <2>. QED  BY <2>1, <2>2, <2>3, <2>4 DEF JavaLaw
<1>9. ASSUME TimeOut(d)  PROVE JavaLaw'
  BY <1>9, AttemptsArePositive DEF TimeOut, RemoteStep, StepTo, Running, CancelRemote,
         JavaLaw, JavaInv, CancelledLast, ActiveRead, OwnTombstones, TombstonesWait,
         CancellationsAreOwn, JavaCancellationsLand, kind, TypeOK, DeliveryTyped,
         CheckerTyped, Delivery, NoDelivery, QueueStep, rows, workspaces, services,
         checker
<1>10. ASSUME Interrupt(d)  PROVE JavaLaw'
  BY <1>10, AttemptsArePositive DEF Interrupt, RemoteStep, StepTo, Running, CancelRemote,
         JavaLaw, JavaInv, CancelledLast, ActiveRead, OwnTombstones, TombstonesWait,
         CancellationsAreOwn, JavaCancellationsLand, kind, TypeOK, DeliveryTyped,
         CheckerTyped, Delivery, NoDelivery, QueueStep, rows, workspaces, services,
         checker
<1>11. ASSUME MakeDirectory(d), UNCHANGED services  PROVE JavaLaw'
  BY <1>11, AttemptsArePositive DEF MakeDirectory, StepTo, Running, JavaLaw, JavaInv,
         CancelledLast, ActiveRead, OwnTombstones, TombstonesWait, CancellationsAreOwn,
         JavaCancellationsLand, kind, TypeOK, DeliveryTyped, CheckerTyped, Delivery,
         NoDelivery, QueueStep, rows, workspaces, services, checker
<1>12. ASSUME PublishMarker(d), UNCHANGED services  PROVE JavaLaw'
  BY <1>12, AttemptsArePositive DEF PublishMarker, StepTo, Running, JavaLaw, JavaInv,
         CancelledLast, ActiveRead, OwnTombstones, TombstonesWait, CancellationsAreOwn,
         JavaCancellationsLand, kind, TypeOK, DeliveryTyped, CheckerTyped, Delivery,
         NoDelivery, QueueStep, rows, workspaces, services, checker
<1>13. ASSUME FailWorkspace(d), UNCHANGED services  PROVE JavaLaw'
  BY <1>13, AttemptsArePositive DEF FailWorkspace, StepTo, Running, Removed, JavaLaw,
         JavaInv, CancelledLast, ActiveRead, OwnTombstones, TombstonesWait,
         CancellationsAreOwn, JavaCancellationsLand, kind, TypeOK, DeliveryTyped,
         CheckerTyped, Delivery, NoDelivery, QueueStep, rows, workspaces, services,
         checker
<1>14. ASSUME End(d), UNCHANGED services  PROVE JavaLaw'
  BY <1>14, AttemptsArePositive DEF End, StepTo, Running, Cleanup, Removed, Removal,
         Finish, FinishedStatus, JavaLaw, JavaInv, CancelledLast, ActiveRead,
         OwnTombstones, TombstonesWait, CancellationsAreOwn, JavaCancellationsLand, kind,
         TypeOK, DeliveryTyped, CheckerTyped, Delivery, NoDelivery, QueueStep, rows,
         workspaces, services, checker
<1>. QED
  BY <1>1, <1>2, <1>3, <1>4, <1>5, <1>6, <1>7, <1>8, <1>9, <1>10, <1>11, <1>12, <1>13,
       <1>14 DEF WorkerStep

\* The cancellations' invariant: a step of the service keeps it.
LEMMA OwnService ==
    ASSUME JavaInv, NEW d \in Delivery, ServiceStep(d)
    PROVE  JavaLaw'
<1>1. ASSUME Reserve(d), UNCHANGED workspaces  PROVE JavaLaw'
  BY <1>1, AttemptsArePositive DEF Reserve, LocalStep, JavaLaw, JavaInv, CancelledLast,
         ActiveRead, OwnTombstones, TombstonesWait, CancellationsAreOwn,
         JavaCancellationsLand, kind, TypeOK, DeliveryTyped, CheckerTyped, Delivery,
         NoDelivery, QueueStep, rows, workspaces, services, checker
<1>2. ASSUME Reject(d), UNCHANGED workspaces  PROVE JavaLaw'
  BY <1>2, AttemptsArePositive DEF Reject, LocalStep, JavaLaw, JavaInv, CancelledLast,
         ActiveRead, OwnTombstones, TombstonesWait, CancellationsAreOwn,
         JavaCancellationsLand, kind, TypeOK, DeliveryTyped, CheckerTyped, Delivery,
         NoDelivery, QueueStep, rows, workspaces, services, checker
<1>3. ASSUME Register(d), UNCHANGED workspaces  PROVE JavaLaw'
  BY <1>3, AttemptsArePositive DEF Register, LocalStep, JavaLaw, JavaInv, CancelledLast,
         ActiveRead, OwnTombstones, TombstonesWait, CancellationsAreOwn,
         JavaCancellationsLand, kind, TypeOK, DeliveryTyped, CheckerTyped, Delivery,
         NoDelivery, QueueStep, rows, workspaces, services, checker
<1>4. ASSUME TakePending(d), UNCHANGED workspaces  PROVE JavaLaw'
  <2>1. CancelledLast'
    BY <1>4 DEF TakePending, LocalStep, CheckerId, JavaInv, CancelledLast, TypeOK,
         DeliveryTyped, CheckerTyped, rows
  <2>2. ActiveRead'
    BY <1>4 DEF TakePending, LocalStep, CheckerId, JavaInv, ActiveRead, TypeOK,
         DeliveryTyped, CheckerTyped, Delivery, NoDelivery, rows
  <2>3. ASSUME kind = "java_analysis"
        PROVE  (OwnTombstones /\ TombstonesWait /\ CancellationsAreOwn
                   /\ JavaCancellationsLand)'
    <3>1. OwnTombstones'
      BY <1>4, <2>3 DEF TakePending, LocalStep, CheckerId, kind, JavaInv,
           OwnTombstones, TypeOK, DeliveryTyped, CheckerTyped, Delivery, NoDelivery,
           rows
    <3>2. TombstonesWait'
      BY <1>4, <2>3 DEF TakePending, LocalStep, CheckerId, kind, JavaInv,
           TombstonesWait, ActiveRead, CancelledLast, TypeOK, DeliveryTyped,
           CheckerTyped, Delivery, NoDelivery, rows
    <3>3. CancellationsAreOwn'
      BY <1>4, <2>3 DEF TakePending, LocalStep, CheckerId, kind, JavaInv,
           OwnTombstones, TombstonesWait, CancelledLast, CancellationsAreOwn,
           JavaCancellationsLand, ActiveRead, TypeOK, DeliveryTyped, CheckerTyped,
           Delivery, NoDelivery, rows
    <3>4. JavaCancellationsLand'
      BY <1>4, <2>3 DEF TakePending, LocalStep, CheckerId, kind, JavaInv,
           OwnTombstones, TombstonesWait, CancelledLast, CancellationsAreOwn,
           JavaCancellationsLand, ActiveRead, TypeOK, DeliveryTyped, CheckerTyped,
           Delivery, NoDelivery, rows
    <3>. QED  BY <3>1, <3>2, <3>3, <3>4
  <2>4. kind' = kind
    BY <1>4 DEF TakePending, LocalStep, kind, rows
  <2>. QED  BY <2>1, <2>2, <2>3, <2>4 DEF JavaLaw
<1>5. ASSUME NEW reply \in Replies, Answer(d, reply), UNCHANGED workspaces  PROVE JavaLaw'
  BY <1>5, AttemptsArePositive DEF Answer, LocalStep, NoAnalysis, JavaLaw, JavaInv,
         CancelledLast, ActiveRead, OwnTombstones, TombstonesWait, CancellationsAreOwn,
         JavaCancellationsLand, kind, TypeOK, DeliveryTyped, CheckerTyped, Delivery,
         NoDelivery, QueueStep, rows, workspaces, services, checker
<1>6. ASSUME LookUp(d), UNCHANGED workspaces  PROVE JavaLaw'
  <2>1. CancelledLast'
    BY <1>6 DEF LookUp, LocalStep, Registered, CheckerId, JavaInv, CancelledLast,
         TypeOK, DeliveryTyped, CheckerTyped, rows
  <2>2. ActiveRead'
    BY <1>6 DEF LookUp, LocalStep, Registered, CheckerId, JavaInv, ActiveRead, TypeOK,
         DeliveryTyped, CheckerTyped, Delivery, NoDelivery, rows
  <2>3. ASSUME kind = "java_analysis"
        PROVE  (OwnTombstones /\ TombstonesWait /\ CancellationsAreOwn
                   /\ JavaCancellationsLand)'
    <3>1. OwnTombstones'
      BY <1>6, <2>3 DEF LookUp, LocalStep, Registered, CheckerId, kind, JavaInv,
           OwnTombstones, TypeOK, DeliveryTyped, CheckerTyped, Delivery, NoDelivery,
           rows
    <3>2. TombstonesWait'
      <4>1. post' = post /\ pending' = pending
        BY <1>6 DEF LookUp, LocalStep
      <4>0. TombstonesWait /\ ActiveRead /\ CheckerTyped
        BY <2>3 DEF JavaInv, TypeOK
      <4>2. CASE Registered(d)
        <5>1. /\ active.on = d /\ active.on # NoDelivery
              /\ active' = [active EXCEPT !.cancelled = TRUE]
              /\ delete' = [delete EXCEPT ![d] = "done"]
          BY <1>6, <2>3, <4>2 DEF LookUp, Registered, CheckerId, kind
        <5>2. post[d] = "active"
          BY <4>0, <5>1 DEF ActiveRead
        <5>3. active'.cancelled = TRUE /\ active'.on = active.on
          BY <4>0, <5>1 DEF CheckerTyped
        <5>4. \A e \in Delivery : e # d => delete'[e] = delete[e]
          BY <4>0, <5>1 DEF CheckerTyped
        <5>. QED
          BY <4>0, <4>1, <5>1, <5>2, <5>3, <5>4 DEF TombstonesWait
      <4>3. CASE ~Registered(d)
        <5>1. active' = active /\ delete' = [delete EXCEPT ![d] = "missed"]
          BY <1>6, <4>3 DEF LookUp
        <5>2. delete'[d] = "missed" /\ \A e \in Delivery : e # d => delete'[e] = delete[e]
          BY <4>0, <5>1 DEF CheckerTyped
        <5>. QED
          BY <4>0, <4>1, <5>1, <5>2 DEF TombstonesWait
      <4>. QED
        BY <4>2, <4>3
    <3>3. (CancellationsAreOwn /\ JavaCancellationsLand)'
      <4>1. CASE Registered(d)
        <5>1. /\ active'.on = d /\ active'.cancelled
              /\ delete'[d] = "done"
          BY <1>6, <2>3, <4>1 DEF LookUp, Registered, CheckerId, kind, JavaInv, TypeOK, CheckerTyped
        <5>. QED  BY <5>1 DEF CancellationsAreOwn, JavaCancellationsLand
      <4>2. CASE ~Registered(d)
        <5>1. active' = active /\ delete' = [delete EXCEPT ![d] = "missed"] /\ delete[d] = "sent"
          BY <1>6, <4>2 DEF LookUp
        <5>2. active.on # d \/ active.on = NoDelivery
          BY <2>3, <4>2 DEF Registered, CheckerId, kind
        <5>3. active.on # NoDelivery => delete'[active.on] = delete[active.on]
          BY <5>1, <5>2 DEF JavaInv, TypeOK, CheckerTyped
        <5>. QED
          BY <1>6, <2>3, <5>1, <5>3 DEF JavaInv, ActiveRead, CancellationsAreOwn,
             JavaCancellationsLand, kind, LookUp, LocalStep, rows
      <4>. QED  BY <4>1, <4>2
    <3>. QED  BY <3>1, <3>2, <3>3
  <2>4. kind' = kind
    BY <1>6 DEF LookUp, LocalStep, kind, rows
  <2>. QED  BY <2>1, <2>2, <2>3, <2>4 DEF JavaLaw
<1>7. ASSUME Record(d), UNCHANGED workspaces  PROVE JavaLaw'
  BY <1>7, AttemptsArePositive DEF Record, LocalStep, AfterRecord, CheckerId, JavaLaw,
         JavaInv, CancelledLast, ActiveRead, OwnTombstones, TombstonesWait,
         CancellationsAreOwn, JavaCancellationsLand, kind, TypeOK, DeliveryTyped,
         CheckerTyped, Delivery, NoDelivery, QueueStep, rows, workspaces, services,
         checker
<1>8. ASSUME LookAgain(d), UNCHANGED workspaces  PROVE JavaLaw'
  <2>1. CancelledLast'
    BY <1>8 DEF LookAgain, LocalStep, Registered, CheckerId, JavaInv, CancelledLast,
         TypeOK, DeliveryTyped, CheckerTyped, rows
  <2>2. ActiveRead'
    BY <1>8 DEF LookAgain, LocalStep, Registered, CheckerId, JavaInv, ActiveRead,
         TypeOK, DeliveryTyped, CheckerTyped, Delivery, NoDelivery, rows
  <2>3. ASSUME kind = "java_analysis"
        PROVE  (OwnTombstones /\ TombstonesWait /\ CancellationsAreOwn
                   /\ JavaCancellationsLand)'
    <3>1. OwnTombstones'
      BY <1>8, <2>3 DEF LookAgain, LocalStep, Registered, CheckerId, kind, JavaInv,
           OwnTombstones, TypeOK, DeliveryTyped, CheckerTyped, Delivery, NoDelivery,
           rows
    <3>2. TombstonesWait'
      BY <1>8, <2>3 DEF LookAgain, LocalStep, Registered, CheckerId, kind, JavaInv,
           TombstonesWait, ActiveRead, CancelledLast, TypeOK, DeliveryTyped,
           CheckerTyped, Delivery, NoDelivery, rows
    <3>3. CancellationsAreOwn'
      BY <1>8, <2>3 DEF LookAgain, LocalStep, Registered, CheckerId, kind, JavaInv,
           OwnTombstones, TombstonesWait, CancelledLast, CancellationsAreOwn,
           JavaCancellationsLand, ActiveRead, TypeOK, DeliveryTyped, CheckerTyped,
           Delivery, NoDelivery, rows
    <3>4. JavaCancellationsLand'
      BY <1>8, <2>3 DEF LookAgain, LocalStep, Registered, CheckerId, kind, JavaInv,
           OwnTombstones, TombstonesWait, CancelledLast, CancellationsAreOwn,
           JavaCancellationsLand, ActiveRead, TypeOK, DeliveryTyped, CheckerTyped,
           Delivery, NoDelivery, rows
    <3>. QED  BY <3>1, <3>2, <3>3, <3>4
  <2>4. kind' = kind
    BY <1>8 DEF LookAgain, LocalStep, kind, rows
  <2>. QED  BY <2>1, <2>2, <2>3, <2>4 DEF JavaLaw
<1>. QED
  BY <1>1, <1>2, <1>3, <1>4, <1>5, <1>6, <1>7, <1>8 DEF ServiceStep

\* The cancellations' invariant: a mishap of a delivery keeps it.
LEMMA OwnMishap ==
    ASSUME JavaInv, NEW d \in Delivery, Misfortune(d)
    PROVE  JavaLaw'
<1>1. ASSUME HeartbeatLate(d), QueueStep  PROVE JavaLaw'
  BY <1>1, AttemptsArePositive DEF HeartbeatLate, QueueStep, JavaLaw, JavaInv,
         CancelledLast, ActiveRead, OwnTombstones, TombstonesWait, CancellationsAreOwn,
         JavaCancellationsLand, kind, TypeOK, DeliveryTyped, CheckerTyped, Delivery,
         NoDelivery, rows, workspaces, services, checker
<1>2. ASSUME HeartbeatRenews(d), QueueStep  PROVE JavaLaw'
  BY <1>2, AttemptsArePositive DEF HeartbeatRenews, QueueStep, JavaLaw, JavaInv,
         CancelledLast, ActiveRead, OwnTombstones, TombstonesWait, CancellationsAreOwn,
         JavaCancellationsLand, kind, TypeOK, DeliveryTyped, CheckerTyped, Delivery,
         NoDelivery, rows, workspaces, services, checker
<1>3. ASSUME LoseHeartbeat(d), QueueStep  PROVE JavaLaw'
  BY <1>3, AttemptsArePositive DEF LoseHeartbeat, QueueStep, Running, JavaLaw, JavaInv,
         CancelledLast, ActiveRead, OwnTombstones, TombstonesWait, CancellationsAreOwn,
         JavaCancellationsLand, kind, TypeOK, DeliveryTyped, CheckerTyped, Delivery,
         NoDelivery, rows, workspaces, services, checker
<1>4. ASSUME Shutdown(d), QueueStep  PROVE JavaLaw'
  BY <1>4, AttemptsArePositive DEF Shutdown, QueueStep, Running, JavaLaw, JavaInv,
         CancelledLast, ActiveRead, OwnTombstones, TombstonesWait, CancellationsAreOwn,
         JavaCancellationsLand, kind, TypeOK, DeliveryTyped, CheckerTyped, Delivery,
         NoDelivery, rows, workspaces, services, checker
<1>5. ASSUME Crash(d), UNCHANGED services  PROVE JavaLaw'
  BY <1>5, AttemptsArePositive DEF Crash, StepTo, Running, Removal, Removed, JavaLaw,
         JavaInv, CancelledLast, ActiveRead, OwnTombstones, TombstonesWait,
         CancellationsAreOwn, JavaCancellationsLand, kind, TypeOK, DeliveryTyped,
         CheckerTyped, Delivery, NoDelivery, QueueStep, rows, workspaces, services,
         checker
<1>6. ASSUME ExpirePending(d), UNCHANGED workspaces  PROVE JavaLaw'
  BY <1>6, AttemptsArePositive DEF ExpirePending, LocalStep, CheckerId, JavaLaw, JavaInv,
         CancelledLast, ActiveRead, OwnTombstones, TombstonesWait, CancellationsAreOwn,
         JavaCancellationsLand, kind, TypeOK, DeliveryTyped, CheckerTyped, Delivery,
         NoDelivery, QueueStep, rows, workspaces, services, checker
<1>7. ASSUME LosePost(d), UNCHANGED workspaces  PROVE JavaLaw'
  BY <1>7, AttemptsArePositive DEF LosePost, LocalStep, JavaLaw, JavaInv, CancelledLast,
         ActiveRead, OwnTombstones, TombstonesWait, CancellationsAreOwn,
         JavaCancellationsLand, kind, TypeOK, DeliveryTyped, CheckerTyped, Delivery,
         NoDelivery, QueueStep, rows, workspaces, services, checker
<1>8. ASSUME LoseDelete(d), UNCHANGED workspaces  PROVE JavaLaw'
  BY <1>8, AttemptsArePositive DEF LoseDelete, LocalStep, JavaLaw, JavaInv,
         CancelledLast, ActiveRead, OwnTombstones, TombstonesWait, CancellationsAreOwn,
         JavaCancellationsLand, kind, TypeOK, DeliveryTyped, CheckerTyped, Delivery,
         NoDelivery, QueueStep, rows, workspaces, services, checker
<1>. QED
  BY <1>1, <1>2, <1>3, <1>4, <1>5, <1>6, <1>7, <1>8 DEF Misfortune

\* The cancellations' invariant: every step keeps it.
LEMMA OwnNext ==
    ASSUME JavaInv, [Next]_vars
    PROVE  JavaLaw'
<1>1. ASSUME NEW d \in Delivery, Deliver(d), QueueStep  PROVE JavaLaw'
  BY <1>1, AttemptsArePositive DEF Deliver, QueueStep, StepTo, JavaLaw, JavaInv,
         CancelledLast, ActiveRead, OwnTombstones, TombstonesWait, CancellationsAreOwn,
         JavaCancellationsLand, kind, TypeOK, DeliveryTyped, CheckerTyped, Delivery,
         NoDelivery, rows, workspaces, services, checker
<1>2. ASSUME Recover, QueueStep  PROVE JavaLaw'
  BY <1>2, AttemptsArePositive DEF Recover, QueueStep, Recovered, FinalRun, ActiveJob,
         JavaLaw, JavaInv, CancelledLast, ActiveRead, OwnTombstones, TombstonesWait,
         CancellationsAreOwn, JavaCancellationsLand, kind, TypeOK, DeliveryTyped,
         CheckerTyped, Delivery, NoDelivery, rows, workspaces, services, checker
<1>3. ASSUME ExpireLease, QueueStep  PROVE JavaLaw'
  BY <1>3, AttemptsArePositive DEF ExpireLease, QueueStep, ActiveJob, JavaLaw, JavaInv,
         CancelledLast, ActiveRead, OwnTombstones, TombstonesWait, CancellationsAreOwn,
         JavaCancellationsLand, kind, TypeOK, DeliveryTyped, CheckerTyped, Delivery,
         NoDelivery, rows, workspaces, services, checker
<1>4. ASSUME CancelRun, QueueStep  PROVE JavaLaw'
  BY <1>4, AttemptsArePositive DEF CancelRun, QueueStep, JavaLaw, JavaInv, CancelledLast,
         ActiveRead, OwnTombstones, TombstonesWait, CancellationsAreOwn,
         JavaCancellationsLand, kind, TypeOK, DeliveryTyped, CheckerTyped, Delivery,
         NoDelivery, rows, workspaces, services, checker
<1>5. ASSUME Restart, UNCHANGED workspaces  PROVE JavaLaw'
  BY <1>5, AttemptsArePositive DEF Restart, LocalStep, NoAnalysis, Served, Running,
         JavaLaw, JavaInv, CancelledLast, ActiveRead, OwnTombstones, TombstonesWait,
         CancellationsAreOwn, JavaCancellationsLand, kind, TypeOK, DeliveryTyped,
         CheckerTyped, Delivery, NoDelivery, QueueStep, rows, workspaces, services,
         checker
<1>6. ASSUME Reap, UNCHANGED services  PROVE JavaLaw'
  BY <1>6, AttemptsArePositive DEF Reap, Idle, Candidate, JavaLaw, JavaInv,
         CancelledLast, ActiveRead, OwnTombstones, TombstonesWait, CancellationsAreOwn,
         JavaCancellationsLand, kind, TypeOK, DeliveryTyped, CheckerTyped, Delivery,
         NoDelivery, QueueStep, rows, workspaces, services, checker
<1>7. ASSUME NEW d \in Delivery, Inspect(d), UNCHANGED services  PROVE JavaLaw'
  BY <1>7, AttemptsArePositive DEF Inspect, Idle, Candidate, WorkspaceLeaseActive,
         JavaLaw, JavaInv, CancelledLast, ActiveRead, OwnTombstones, TombstonesWait,
         CancellationsAreOwn, JavaCancellationsLand, kind, TypeOK, DeliveryTyped,
         CheckerTyped, Delivery, NoDelivery, QueueStep, rows, workspaces, services,
         checker
<1>8. ASSUME UNCHANGED vars  PROVE JavaLaw'
  BY <1>8 DEF vars, JavaLaw, JavaInv, CancelledLast, ActiveRead, OwnTombstones,
       TombstonesWait, CancellationsAreOwn, JavaCancellationsLand, kind, TypeOK,
       DeliveryTyped, CheckerTyped, Delivery, NoDelivery, QueueStep, rows, workspaces,
       services, checker
<1>. QED  BY <1>1, <1>2, <1>3, <1>4, <1>5, <1>6, <1>7, <1>8, OwnWorker, OwnService,
              OwnMishap DEF Next, QueueWork, Reaper

-----------------------------------------------------------------------------
(***************************************************************************)
(* The rows, the processes, the directories and the services stay of their *)
(* types, in every setting.                                                *)
(***************************************************************************)
THEOREM RemoteTyping == Spec => []TypeOK
<1>1. Init => TypeOK
  BY InitTyped
<1>2. TypeOK /\ [Next]_vars => TypeOK'
  BY TypedNext
<1>. QED  BY <1>1, <1>2, PTL DEF Spec

(***************************************************************************)
(* The reaper never removes the directory of a delivery that owns its job, *)
(* whatever happens between its look at the lease and the removal.         *)
(***************************************************************************)
THEOREM WorkspacesAreKept == Spec => []OwnedWorkspaceKept
<1>1. Init => WorkspaceInv
  BY InitTyped, AttemptsArePositive
  DEF Init, DeliveryInit, WorkspacesInit, NoProcess, Idle, WorkspaceInv, WorkspaceLaw, Started, LookStaysTrue,
      OwnedWorkspaceKept, AtWork, NoDelivery, Delivery
<1>2. WorkspaceInv /\ [Next]_vars => WorkspaceInv'
  BY TypedNext, KeptNext DEF WorkspaceInv
<1>3. WorkspaceInv => OwnedWorkspaceKept
  BY DEF WorkspaceInv, WorkspaceLaw
<1>. QED  BY <1>1, <1>2, <1>3, PTL DEF Spec

\* The invariant of the cancellations holds.
LEMMA JavaInvariant == Spec => []JavaInv
<1>1. Init => JavaInv
  BY InitTyped, AttemptsArePositive
  DEF Init, DeliveryInit, CheckerInit, NoProcess, NoAnalysis, JavaInv, CancelledLast, ActiveRead,
      OwnTombstones, TombstonesWait, CancellationsAreOwn, JavaCancellationsLand, NoDelivery, Delivery
<1>2. JavaInv /\ [Next]_vars => JavaInv'
  BY TypedNext, OwnNext DEF JavaInv, JavaLaw
<1>. QED  BY <1>1, <1>2, PTL DEF Spec

(***************************************************************************)
(* The Java checker cancels an analysis only if its own delivery asked.    *)
(***************************************************************************)
THEOREM CancellationsBelong == Spec => []JavaCancellationsAreOwn
<1>1. JavaInv => JavaCancellationsAreOwn
  BY DEF JavaInv, JavaCancellationsAreOwn
<1>. QED  BY <1>1, JavaInvariant, PTL

(***************************************************************************)
(* A cancellation the Java checker has dealt with reaches its analysis,    *)
(* however it interleaves with the registration.                           *)
(***************************************************************************)
THEOREM CancellationsArrive == Spec => []JavaCancellationsLand
<1>1. JavaInv => JavaCancellationsLand
  BY DEF JavaInv, JavaCancellationsLand
<1>. QED  BY <1>1, JavaInvariant, PTL
=============================================================================
