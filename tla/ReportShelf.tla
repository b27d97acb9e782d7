----------------------------- MODULE ReportShelf -----------------------------
(***************************************************************************)
(* What the reports of a task promise: what is on the shelf shows exactly  *)
(* the evidence there is, and it is taken off in the very step in which    *)
(* the evidence changes.                                                   *)
(***************************************************************************)
CONSTANT Evidence   \* what there may be to show

VARIABLES
    evidence,   \* what there is to show
    shown       \* what the reports on the shelf show

Init == evidence \in Evidence /\ shown = {}

Publish == shown' = {evidence} /\ UNCHANGED evidence

Withdraw == shown' = {} /\ UNCHANGED evidence

Change == evidence' \in Evidence /\ shown' = {}

Next == Publish \/ Withdraw \/ Change

Spec == Init /\ [][Next]_<<evidence, shown>>
=============================================================================
