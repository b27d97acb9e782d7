--------------------------- MODULE CheckerService ---------------------------
(***************************************************************************)
(* The C and the Java checker: two services that analyse one project at a  *)
(* time and are cancelled by a DELETE, which may arrive before the POST it *)
(* is about.  The worker's HTTP client is at the other end.  One job is    *)
(* modelled, so one service: the other requests it answers are those of    *)
(* the other deliveries of that job.                                       *)
(***************************************************************************)
EXTENDS DeliveryStore

VARIABLES
    post,      \* per delivery: its analysis request, and then the answer
    delete,    \* per delivery: its cancellation request
    slot,      \* the delivery that holds the semaphore, or none
    active,    \* the registered analysis: delivery, its tombstone looked for,
               \* cancelled
    pending    \* identifiers of analyses cancelled before they registered

checker == <<slot, active, pending>>
services == <<post, delete, checker>>

NoAnalysis == [on |-> NoDelivery, looked |-> FALSE, cancelled |-> FALSE]
Replies == {"succeeded", "failed", "cancelled", "rejected", "busy"}

CheckerInit ==
    /\ post = [d \in Delivery |-> "none"]
    /\ delete = [d \in Delivery |-> "none"]
    /\ slot = NoDelivery /\ active = NoAnalysis /\ pending = {}

CheckerTyped ==
    /\ post \in [Delivery -> {"none", "sent", "reserved", "active", "lost"} \cup Replies]
    /\ delete \in [Delivery -> {"none", "sent", "missed", "recorded", "done", "lost"}]
    /\ slot \in {NoDelivery} \cup Delivery
    /\ active \in [on : {NoDelivery} \cup Delivery, looked : BOOLEAN, cancelled : BOOLEAN]
    /\ pending \in SUBSET ({NoDelivery} \cup Delivery)

\* Mutant of CheckerId: the run for every kind.
RunId(d) == NoDelivery

\* The identifier of a request: the Java processor derives one from the run,
\* the job and the fencing token, the C processor takes that of the run.
CheckerId(d) == IF kind = "java_analysis" THEN d ELSE NoDelivery

Registered(d) == active.on # NoDelivery /\ CheckerId(active.on) = CheckerId(d)

LocalStep == UNCHANGED <<rows, proc>>
-----------------------------------------------------------------------------
\* The semaphore is taken, or the request is refused with 429.
Reserve(d) ==
    /\ post[d] = "sent"
    /\ IF slot = NoDelivery
         THEN slot' = d /\ post' = [post EXCEPT ![d] = "reserved"]
         ELSE UNCHANGED slot /\ post' = [post EXCEPT ![d] = "busy"]
    /\ LocalStep /\ UNCHANGED <<delete, active, pending>>

\* The request is malformed, or its body ended with its client: the Java
\* service reads it with the semaphore taken, the C service before.
Reject(d) ==
    /\ post[d] = IF kind = "java_analysis" THEN "reserved" ELSE "sent"
    /\ post' = [post EXCEPT ![d] = "rejected"]
    /\ slot' = IF post[d] = "reserved" THEN NoDelivery ELSE slot
    /\ LocalStep /\ UNCHANGED <<delete, active, pending>>

Register(d) ==
    /\ post[d] = "reserved"
    /\ post' = [post EXCEPT ![d] = "active"]
    /\ active' = [on |-> d, looked |-> FALSE, cancelled |-> FALSE]
    /\ LocalStep /\ UNCHANGED <<delete, slot, pending>>

\* Only then is a cancellation looked for that came before.
TakePending(d) ==
    /\ active.on = d /\ ~active.looked
    /\ active' = [active EXCEPT !.looked = TRUE,
                                !.cancelled = @ \/ CheckerId(d) \in pending]
    /\ pending' = pending \ {CheckerId(d)}
    /\ LocalStep /\ UNCHANGED <<post, delete, slot>>

\* The analysis ends by itself, by its time limit, or as cancelled; a
\* cancellation after its last look is not seen.  The thread of a request is
\* interrupted when the service stops, which is answered as a cancellation.
Answer(d, reply) ==
    /\ active.on = d /\ active.looked
    /\ \/ reply \in {"succeeded", "failed"}
       \/ reply = "cancelled" /\ (active.cancelled \/ May("restart"))
    /\ post' = [post EXCEPT ![d] = reply]
    /\ active' = NoAnalysis /\ slot' = NoDelivery
    /\ LocalStep /\ UNCHANGED <<delete, pending>>
-----------------------------------------------------------------------------
\* cancel: a registered analysis is cancelled at once ...
LookUp(d) ==
    /\ delete[d] = "sent"
    /\ IF Registered(d)
         THEN /\ active' = [active EXCEPT !.cancelled = TRUE]
              /\ delete' = [delete EXCEPT ![d] = "done"]
         ELSE UNCHANGED active /\ delete' = [delete EXCEPT ![d] = "missed"]
    /\ LocalStep /\ UNCHANGED <<post, slot, pending>>

\* Mutant of AfterRecord: the Java service does not look again either.
AfterRecordOnce == "done"

AfterRecord == IF kind = "java_analysis" THEN "recorded" ELSE "done"

\* ... else the cancellation is kept for the one that will register ...
Record(d) ==
    /\ delete[d] = "missed"
    /\ pending' = pending \cup {CheckerId(d)}
    /\ delete' = [delete EXCEPT ![d] = AfterRecord]
    /\ LocalStep /\ UNCHANGED <<post, slot, active>>

\* ... and the Java service looks again, for one that registered meanwhile.
LookAgain(d) ==
    /\ delete[d] = "recorded"
    /\ delete' = [delete EXCEPT ![d] = "done"]
    /\ IF Registered(d)
         THEN /\ active' = [active EXCEPT !.cancelled = TRUE]
              /\ pending' = pending \ {CheckerId(d)}
         ELSE UNCHANGED <<active, pending>>
    /\ LocalStep /\ UNCHANGED <<post, slot>>

\* A tombstone outlives the longest analysis by a minute; a request that is
\* still on its way after that time is left out.
ExpirePending(d) ==
    /\ CheckerId(d) \in pending
    /\ \A e \in Delivery : CheckerId(e) = CheckerId(d) =>
           post[e] \notin {"sent", "reserved"} /\ (active.on = e => active.looked)
    /\ pending' = pending \ {CheckerId(d)}
    /\ LocalStep /\ UNCHANGED <<post, delete, slot, active>>
-----------------------------------------------------------------------------
\* The network loses a request before the service reads it.
LosePost(d) ==
    /\ Befalls("network", d)
    /\ post[d] = "sent"
    /\ post' = [post EXCEPT ![d] = "lost"]
    /\ LocalStep /\ UNCHANGED <<delete, checker>>

LoseDelete(d) ==
    /\ Befalls("network", d)
    /\ delete[d] = "sent"
    /\ delete' = [delete EXCEPT ![d] = "lost"]
    /\ LocalStep /\ UNCHANGED <<post, checker>>

\* The service restarts with nothing in memory.  The requests it was serving
\* end without an answer; of those it had not read, the ones whose clients
\* still wait may reach the new process, the connections of the others are gone.
Served(d) ==
    \/ post[d] \in {"reserved", "active"}
    \/ post[d] = "sent" /\ ~Running(d, {"waiting"})

Restart ==
    /\ May("restart")
    /\ post' = [d \in Delivery |-> IF Served(d) THEN "lost" ELSE post[d]]
    /\ delete' = [d \in Delivery |->
                    IF delete[d] \in {"missed", "recorded"} THEN "lost" ELSE delete[d]]
    /\ slot' = NoDelivery /\ active' = NoAnalysis /\ pending' = {}
    /\ LocalStep
=============================================================================
