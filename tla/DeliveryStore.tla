---------------------------- MODULE DeliveryStore ----------------------------
(***************************************************************************)
(* The rows of one remote analysis, and the processes its deliveries run   *)
(* in.  A job is delivered once per attempt; the fencing token of a lease  *)
(* is the number of the delivery.  Claim and Start are one step here (they *)
(* are apart in JobQueue), and a run and its analyzer row one status.      *)
(***************************************************************************)
EXTENDS Naturals

CONSTANTS
    Settings,      \* what to explore: the kind of analysis, the mishaps, and
                   \* the deliveries they may befall
    MaxAttempts    \* deliveries of the job

Mishap == {"crash",      \* of a worker process
           "shutdown",   \* of a worker process
           "database",   \* a heartbeat fails although the lease is held
           "pause",      \* of a process: its lease expires and it goes on
           "delay",      \* of a heartbeat that is in time
           "network",    \* requests and connections are lost
           "disk",       \* a directory cannot be made or removed
           "restart",    \* of the checker service
           "cancel"}     \* by the user

ASSUME SettingsAreOfRemoteAnalyses ==
    Settings \subseteq [kind : {"c_analysis", "java_analysis"}, mishaps : SUBSET Mishap,
                  victims : SUBSET (1 .. MaxAttempts)]
ASSUME AttemptsArePositive == MaxAttempts \in Nat \ {0}

VARIABLES
    setting,   \* the kind of the job and its mishaps; constant after Init
    job,       \* its row: status, fencing token, state of the lease
    run,       \* status of its analysis run
    proc       \* per delivery: where Process is, whether its context is alive,
               \* and the outcome it is about to report

rows == <<setting, job, run>>

kind == setting.kind
May(mishap) == mishap \in setting.mishaps
Befalls(mishap, d) == May(mishap) /\ d \in setting.victims

Delivery == 1 .. MaxAttempts
NoDelivery == 0

ActiveJob == {"running", "cancel_requested"}
ActiveRun == {"queued", "running", "cancel_requested"}
FinalRun == {"succeeded", "failed", "cancelled"}

\* "late": lease_until has passed in the committed row, but a heartbeat that
\* renews it in time holds the row lock.
LeaseState == {"none", "live", "late", "expired"}
Place == {"none", "leased", "begun", "made", "marked", "waiting", "settling",
          "cleaning", "over"}
Outcome == {"none", "succeeded", "transient", "deterministic"}
Process == [pc : Place, ctx : {"live", "lost", "shutdown"}, outcome : Outcome]
NoProcess == [pc |-> "none", ctx |-> "live", outcome |-> "none"]

DeliveryInit ==
    /\ setting \in Settings
    /\ job = [status |-> "queued", token |-> 0, lease |-> "none"]
    /\ run = "queued"
    /\ proc = [d \in Delivery |-> NoProcess]

DeliveryTyped ==
    /\ setting \in Settings
    /\ job \in [status : {"queued", "running", "cancel_requested", "ended"},
                token : 0 .. MaxAttempts, lease : LeaseState]
    /\ run \in {"queued", "running", "cancel_requested", "succeeded", "failed", "cancelled"}
    /\ proc \in [Delivery -> Process]

\* A statement that locks the job row and checks owner, token and lease; it
\* waits for a heartbeat that has the row.
Unlocked == job.lease # "late"
Held(d) == job.token = d /\ job.status = "running" /\ job.lease = "live"
Owned(d) == job.token = d /\ job.status = "running" /\ job.lease \in {"live", "late"}
DrivesRun(d) == Held(d) /\ run \in {"queued", "running"}

StepTo(d, pc, outcome) ==
    proc' = [proc EXCEPT ![d] = [pc |-> pc, ctx |-> proc[d].ctx, outcome |-> outcome]]
Running(d, pcs) == proc[d].pc \in pcs
Interrupted(d) == proc[d].ctx # "live"
-----------------------------------------------------------------------------
\* Claim and Start: the next lease of the queued job of a queued run, by a
\* process that is free.
Deliver(d) ==
    /\ job.status = "queued" /\ run = "queued" /\ job.token + 1 = d
    /\ job' = [status |-> "running", token |-> d, lease |-> "live"]
    /\ StepTo(d, "leased", "none")
    /\ UNCHANGED <<setting, run>>

\* lease_until passes while a heartbeat that came in time is about to renew it.
HeartbeatLate(d) ==
    /\ Befalls("delay", d)
    /\ Held(d) /\ ~Interrupted(d) /\ proc[d].pc # "over"
    /\ job' = [job EXCEPT !.lease = "late"]
    /\ UNCHANGED <<setting, run, proc>>

HeartbeatRenews(d) ==
    /\ Owned(d) /\ job.lease = "late"
    /\ ~Interrupted(d) /\ proc[d].pc # "over"
    /\ job' = [job EXCEPT !.lease = "live"]
    /\ UNCHANGED <<setting, run, proc>>

\* Nothing renewed the lease in time, however alive its process may be.
Unattended == \E d \in Delivery : job.token = d /\ (Interrupted(d) \/ proc[d].pc = "over")

ExpireLease ==
    /\ Unattended \/ Befalls("pause", job.token)
    /\ job.status \in ActiveJob /\ job.lease \in {"live", "late"}
    /\ job' = [job EXCEPT !.lease = "expired"]
    /\ UNCHANGED <<setting, run, proc>>

\* Mutant of Recovered: the run is left to the delivery that comes next.
RecoveredJobOnly ==
    IF run \in FinalRun THEN [status |-> "ended", run |-> run]
    ELSE IF job.status = "cancel_requested" THEN [status |-> "ended", run |-> "cancelled"]
    ELSE [status |-> IF job.token < MaxAttempts THEN "queued" ELSE "ended", run |-> run]

\* RecoverExpired: the published run decides; else the job is queued again
\* with its run, or fails with it; a requested cancellation is carried out.
Recovered ==
    IF run \in FinalRun THEN [status |-> "ended", run |-> run]
    ELSE IF job.status = "cancel_requested" THEN [status |-> "ended", run |-> "cancelled"]
    ELSE IF job.token < MaxAttempts THEN [status |-> "queued", run |-> "queued"]
    ELSE [status |-> "ended", run |-> "failed"]

Recover ==
    /\ job.status \in ActiveJob /\ job.lease = "expired"
    /\ job' = [job EXCEPT !.status = Recovered.status, !.lease = "none"]
    /\ run' = Recovered.run
    /\ UNCHANGED <<setting, proc>>

\* Cancel: at once while both are queued, by request while a lease is held.
CancelRun ==
    /\ May("cancel") /\ Unlocked
    /\ run \in {"queued", "running"}
    /\ \/ /\ run = "queued" /\ job.status = "queued"
          /\ job' = [job EXCEPT !.status = "ended"]
          /\ run' = "cancelled"
       \/ /\ job.status = "running"
          /\ job' = [job EXCEPT !.status = "cancel_requested"]
          /\ run' = "cancel_requested"
    /\ UNCHANGED <<setting, proc>>
-----------------------------------------------------------------------------
\* The heartbeat fails, because the lease is lost or the database is away:
\* the context of the processor is cancelled and its result will be dropped.
LoseHeartbeat(d) ==
    /\ ~Owned(d) \/ Befalls("database", d)
    /\ ~Running(d, {"none", "over"}) /\ ~Interrupted(d)
    /\ proc' = [proc EXCEPT ![d].ctx = "lost"]
    /\ UNCHANGED rows

\* SIGTERM: the context is cancelled and the result is still reported.
Shutdown(d) ==
    /\ Befalls("shutdown", d)
    /\ ~Running(d, {"none", "over"}) /\ ~Interrupted(d)
    /\ proc' = [proc EXCEPT ![d].ctx = "shutdown"]
    /\ UNCHANGED rows

\* Finish, unless the heartbeat failed; ErrLeaseLost changes nothing.
FinishedStatus(d) ==
    IF proc[d].outcome = "transient" /\ d < MaxAttempts THEN "queued" ELSE "ended"

Finish(d) ==
    /\ Unlocked
    /\ job' = IF proc[d].ctx # "lost" /\ Held(d)
                THEN [job EXCEPT !.status = FinishedStatus(d), !.lease = "none"] ELSE job
    /\ UNCHANGED <<setting, run>>
=============================================================================
