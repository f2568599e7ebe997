---------------------------- MODULE TaskBilling -----------------------------
(***************************************************************************)
(* What the billing of a generation task promises: every run of the task   *)
(* has a bill of its own, reserved when the run is queued; a run ends once *)
(* and its bill is closed once, after it, as its end allows.  The row and  *)
(* the bill are written one after the other, so a bill may still be open   *)
(* when the task is retried, and is then closed beside the next run.       *)
(* TaskLifecycle shows how workers, cancellations, the reconciliation and  *)
(* retries keep to it.                                                     *)
(***************************************************************************)
EXTENDS Naturals

CONSTANT MaxRuns   \* bound: passages of the task through the queue

VARIABLES
  run,     \* the run of the row
  status,  \* what the row says of it
  bill     \* the status of the bill of each run

vars == <<run, status, bill>>

Runs  == 1 .. MaxRuns
Ended == {"succeeded", "failed", "cancelled"}
Open  == {"reserved", "running", "uncertain"}

Init ==
  /\ run = 1
  /\ status = "queued"
  /\ bill = [r \in Runs |-> IF r = 1 THEN "reserved" ELSE "absent"]

Row(s) == status' = s /\ UNCHANGED <<run, bill>>

Take == status = "queued" /\ Row("running")

\* A task that waits can only be cancelled.
End ==
  \/ status = "queued" /\ Row("cancelled")
  \/ status = "running" /\ \E s \in Ended : Row(s)

Retry ==
  /\ status \in {"failed", "cancelled"}
  /\ run < MaxRuns
  /\ run' = run + 1
  /\ status' = "queued"
  /\ bill' = [bill EXCEPT ![run + 1] = "reserved"]

Bill(r, s) == bill' = [bill EXCEPT ![r] = s] /\ UNCHANGED <<run, status>>

\* The call is about to be made, by an execution that may be late.
MarkRunning(r) == bill[r] = "reserved" /\ Bill(r, "running")

\* What became of the run is for the staff to find out.
MarkUncertain(r) == bill[r] \in {"reserved", "running"} /\ Bill(r, "uncertain")

\* The row is that of the run, in one of the states S, or has gone on to another.
EndedIn(r, S) == r < run \/ (r = run /\ status \in S)

\* A cancelled run may be charged: its job may have been done already.
Settle(r) == bill[r] \in Open /\ EndedIn(r, {"succeeded", "cancelled"}) /\ Bill(r, "settled")
Refund(r) == bill[r] \in Open /\ EndedIn(r, {"failed", "cancelled"}) /\ Bill(r, "refunded")

Next ==
  \/ Take \/ End \/ Retry
  \/ \E r \in Runs : MarkRunning(r) \/ MarkUncertain(r) \/ Settle(r) \/ Refund(r)

Spec == Init /\ [][Next]_vars
=============================================================================
