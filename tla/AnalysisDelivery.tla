-------------------------- MODULE AnalysisDelivery --------------------------
(***************************************************************************)
(* Process of internal/canalysis and internal/javaanalysis, with the HTTP  *)
(* client of the checker: one delivery of the job, from Begin to the       *)
(* outcome that the runner reports.  Calls of the database succeed or are  *)
(* refused; those that fail are in AnalysisRuns.                           *)
(***************************************************************************)
EXTENDS Workspaces, CheckerService

vars == <<rows, proc, workspaces, services>>

\* Steps of the worker against the database.
DatabaseStep == Unlocked /\ UNCHANGED <<setting, job, workspaces, services>>

\* Begin; its error, in a context that is cancelled too, is a transient
\* failure without a workspace, and a settled run decides the outcome.
Begin(d) ==
    /\ Running(d, {"leased"})
    /\ \/ /\ ~Interrupted(d) /\ DrivesRun(d)
          /\ run' = "running" /\ StepTo(d, "begun", "none")
       \/ /\ ~Interrupted(d) /\ Held(d) /\ run \in FinalRun
          /\ StepTo(d, "cleaning", IF run = "succeeded" THEN "succeeded" ELSE "deterministic")
          /\ UNCHANGED run
       \/ /\ Interrupted(d) \/ ~Held(d) \/ run = "cancel_requested"
          /\ StepTo(d, "cleaning", "transient") /\ UNCHANGED run
       \/ /\ ~Interrupted(d) /\ DrivesRun(d)   \* the project is gone
          /\ StepTo(d, "settling", "deterministic") /\ UNCHANGED run
    /\ DatabaseStep

\* failTransientOrFinal and failDeterministic: the run is queued again or
\* fails, in a fresh context; refused, the processor returns an error.
RunAfter(d) ==
    IF proc[d].outcome = "transient" /\ d < MaxAttempts THEN "queued" ELSE "failed"

Settle(d) ==
    /\ Running(d, {"settling"})
    /\ IF DrivesRun(d)
         THEN run' = RunAfter(d) /\ StepTo(d, "cleaning", proc[d].outcome)
         ELSE UNCHANGED run /\ StepTo(d, "cleaning", "transient")
    /\ DatabaseStep

\* The answer of an analysis reaches the client: Publish, PublishFailed, or
\* CancelRun when the checker says the analysis was cancelled.
OutcomeOf(reply) == IF reply = "succeeded" THEN "succeeded" ELSE "deterministic"
Accepts(d, reply) ==
    IF reply = "cancelled" THEN DrivesRun(d) ELSE Held(d) /\ run = "running"

Publish(d) ==
    /\ Running(d, {"waiting"}) /\ post[d] \in FinalRun
    /\ \/ /\ ~Interrupted(d) /\ Accepts(d, post[d])
          /\ run' = post[d] /\ StepTo(d, "cleaning", OutcomeOf(post[d]))
       \/ /\ ~Accepts(d, post[d]) \/ (Interrupted(d) /\ post[d] = "cancelled")
          /\ UNCHANGED run /\ StepTo(d, "cleaning", "transient")
       \/ /\ Interrupted(d) /\ post[d] # "cancelled"
          /\ UNCHANGED run /\ StepTo(d, "settling", "transient")
    /\ DatabaseStep
-----------------------------------------------------------------------------
\* Steps of the worker against the checker.
RemoteStep == UNCHANGED <<rows, workspaces, slot, active, pending>>

\* The client is done with its own request; cancelRemote sends a DELETE and
\* waits at most its timeout, so it may still be on its way afterwards.
CancelRemote(d) == delete' = [delete EXCEPT ![d] = "sent"]

\* The source is copied and verified, the bundle's digest stored (by Java, if
\* the lease is held), and the request sent.
StoresBundle(d) == kind = "java_analysis" => Held(d) /\ run = "running"

Send(d) ==
    /\ Running(d, {"marked"}) /\ ~Interrupted(d)
    /\ dir[d] = "marked" /\ StoresBundle(d)
    /\ StepTo(d, "waiting", "none")
    /\ post' = [post EXCEPT ![d] = "sent"]
    /\ RemoteStep /\ UNCHANGED delete

\* The source cannot be verified or copied, or the lease was lost.
SourceInvalid(d) ==
    /\ Running(d, {"marked"}) /\ ~Interrupted(d)
    /\ \/ StepTo(d, "settling", "deterministic")
       \/ Unlocked /\ ~StoresBundle(d) /\ StepTo(d, "cleaning", "transient")
    /\ RemoteStep /\ UNCHANGED <<post, delete>>

\* Interrupted before the request: the C processor cancels what it never sent,
\* the Java processor only if it got as far as sending.
SendInterrupted(d) ==
    /\ Running(d, {"marked"}) /\ Interrupted(d)
    /\ StepTo(d, "settling", "transient")
    /\ CancelRemote(d) \/ (kind = "java_analysis" /\ UNCHANGED delete)
    /\ RemoteStep /\ UNCHANGED post

\* The checker rejects the request.
Rejected(d) ==
    /\ Running(d, {"waiting"}) /\ post[d] = "rejected"
    /\ StepTo(d, "settling", "deterministic")
    /\ RemoteStep /\ UNCHANGED <<post, delete>>

\* ErrCheckerTransient: 429, or a connection that broke, at whatever point
\* the service is.  Only the Java processor cancels what it cannot hear of.
Disconnect(d) ==
    /\ Running(d, {"waiting"})
    /\ post[d] \in {"busy", "lost"} \/ (Befalls("network", d) /\ post[d] \in {"sent", "active"})
    /\ StepTo(d, "settling", "transient")
    /\ IF kind = "java_analysis" THEN CancelRemote(d) ELSE UNCHANGED delete
    /\ RemoteStep /\ UNCHANGED post

\* ErrCheckerTimedOut after ten minutes.
TimeOut(d) ==
    /\ Running(d, {"waiting"}) /\ post[d] \notin Replies
    /\ StepTo(d, "settling", "deterministic")
    /\ CancelRemote(d)
    /\ RemoteStep /\ UNCHANGED post

\* The heartbeat was lost, or the worker stops, while it waits.
Interrupt(d) ==
    /\ Running(d, {"waiting"}) /\ Interrupted(d)
    /\ StepTo(d, "settling", "transient")
    /\ CancelRemote(d)
    /\ RemoteStep /\ UNCHANGED post
=============================================================================
