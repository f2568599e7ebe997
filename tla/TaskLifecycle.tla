--------------------------- MODULE TaskLifecycle ----------------------------
(***************************************************************************)
(* The user's commands on a task, beside its workers: cancelling it        *)
(* (internal/service/task_lifecycle.go), the request to the upstream and   *)
(* the background reconciliation that follow a cancellation                *)
(* (provider_task_cancellation.go), and retrying it (RetryTaskWithBilling).*)
(*                                                                         *)
(* A command reads the row into memory and goes on with what it read; each *)
(* of its statements is a step of its own.  One cancel command and one     *)
(* retry command are in progress at a time.  The reconciliation keeps      *)
(* others off by a lease on the cancelled row: there is one reconciler.    *)
(***************************************************************************)
EXTENDS TaskExecution

CONSTANTS
  MaxChecks,       \* providerCancellationMaxAttempts
  CommandCrashes,  \* the process of a command may stop
  MaxCancels       \* bound: cancel commands

ASSUME LifecycleConstants ==
  /\ MaxChecks \in Nat \ {0}
  /\ CommandCrashes \in BOOLEAN
  /\ MaxCancels \in Nat

VARIABLES
  provider,    \* provider_cancel_status and provider_cancel_attempts of the row
  cancel,      \* the cancel command
  canceller,   \* the goroutine that cancels the job of each run
  reconciler,  \* the reconciliation loop
  retry        \* the retry command

lifeVars == <<provider, cancel, canceller, reconciler, retry>>
vars     == <<execVars, lifeVars>>

NoCancellation == [status |-> "none", attempts |-> 0]
NoCancel       == [pc |-> "idle", status |-> "queued", run |-> 1, request |-> NoJob,
                   given |-> 0]
NoCanceller    == [pc |-> "idle", request |-> NoJob]
NoReconciler   == [pc |-> "idle", run |-> 1, request |-> NoJob, outcome |-> "none"]
NoRetry        == [pc |-> "idle", run |-> 1]

LifecycleTypeOK ==
  /\ ExecTypeOK
  /\ provider \in [status : {"none", "requested", "confirmed", "uncertain"},
                   attempts : 0 .. MaxChecks]
  /\ cancel \in [pc : {"idle", "hydrate", "write", "signal", "bill"},
                 status : {"queued", "running"}, run : Runs, request : JobIds,
                 given : 0 .. MaxCancels]
  /\ canceller \in [Runs -> [pc : {"idle", "state", "claim", "request", "mark", "uncertain"},
                             request : JobIds]]
  /\ reconciler \in [pc : {"idle", "query", "bill", "close", "mark", "uncertain"},
                     run : Runs, request : JobIds, outcome : JobState]
  /\ retry \in [pc : {"idle", "check", "write"}, run : Runs]

LifecycleInit ==
  /\ ExecInit
  /\ provider = NoCancellation
  /\ cancel = NoCancel
  /\ canceller = [r \in Runs |-> NoCanceller]
  /\ reconciler = NoReconciler
  /\ retry = NoRetry

(***************************************************************************)
(* cancelTask.                                                             *)
(***************************************************************************)
CancelGoto(pc) == cancel' = [cancel EXCEPT !.pc = pc]
CancelEnds     == cancel' = [NoCancel EXCEPT !.given = cancel.given]

CancelRead ==
  /\ cancel.pc = "idle"
  /\ cancel.given < MaxCancels
  /\ task.status \in {"queued", "running"}
  /\ cancel' = [pc |-> IF task.request = NoJob THEN "hydrate" ELSE "write",
                status |-> task.status, run |-> task.run, request |-> task.request,
                given |-> cancel.given + 1]
  /\ UNCHANGED <<execVars, provider, canceller, reconciler, retry>>

\* hydrateTaskProviderRequestID: the id of the order, else the newest id in the
\* log of the task, of whatever run.
Hydrated(run) ==
  IF orderJob[run] # NoJob THEN orderJob[run]
  ELSE IF Logged # {} THEN Max(Logged) ELSE NoJob

CancelHydrate ==
  /\ cancel.pc = "hydrate"
  /\ cancel' = [cancel EXCEPT !.pc = "write", !.request = Hydrated(cancel.run)]
  /\ UNCHANGED <<execVars, provider, canceller, reconciler, retry>>

CancelTaskIfStatusVariant ==   \* the status that was read is not checked again
  /\ cancel.pc = "write"
  /\ task' = Released([task EXCEPT !.status = "cancelled"])
  /\ CancelGoto("signal")
  /\ UNCHANGED <<order, attempt, logVars, jobVars, worker, faults, provider, canceller,
                 reconciler, retry>>

\* Conditional on the status that was read, not on the run.
CancelTaskIfStatus ==
  /\ cancel.pc = "write"
  /\ \/ /\ task.status = cancel.status
        /\ task' = Released([task EXCEPT !.status = "cancelled"])
        /\ CancelGoto("signal")
     \/ task.status # cancel.status /\ task' = task /\ CancelEnds
  /\ UNCHANGED <<order, attempt, logVars, jobVars, worker, faults, provider, canceller,
                 reconciler, retry>>

\* cancelActiveTask: the context registered last under the task's id in this
\* process, if there is one.
CancelActiveTask ==
  /\ cancel.pc = "signal"
  /\ \/ UNCHANGED worker
     \/ \E w \in Workers : /\ Working(w) /\ worker[w].ctx = "live"
                           /\ worker' = [worker EXCEPT ![w].ctx = "cancelled"]
  /\ CancelGoto("bill")
  /\ UNCHANGED <<task, order, attempt, logVars, jobVars, faults, provider, canceller,
                 reconciler, retry>>

CancelBillVariant ==   \* without an id nothing was sent
  /\ cancel.pc = "bill"
  /\ IF cancel.request # NoJob
       THEN /\ canceller' = [canceller EXCEPT ![cancel.run] =
                              [pc |-> "state", request |-> cancel.request]]
            /\ UNCHANGED order
       ELSE /\ order' = Refunded(cancel.run)
            /\ UNCHANGED canceller
  /\ CancelEnds
  /\ UNCHANGED <<task, attempt, logVars, jobVars, worker, faults, provider, reconciler, retry>>

\* With an id the cancellation of the job decides about the bill, in the
\* background.  Without one a queued task is refunded, a running one may have
\* submitted.
CancelBill ==
  /\ cancel.pc = "bill"
  /\ IF cancel.request # NoJob
       THEN /\ canceller' = [canceller EXCEPT ![cancel.run] =
                              [pc |-> "state", request |-> cancel.request]]
            /\ UNCHANGED order
       ELSE /\ order' = IF cancel.status = "queued" THEN Refunded(cancel.run)
                                                    ELSE Uncertain(cancel.run)
            /\ UNCHANGED canceller
  /\ CancelEnds
  /\ UNCHANGED <<task, attempt, logVars, jobVars, worker, faults, provider, reconciler, retry>>

(***************************************************************************)
(* How a worker ends whose task was cancelled.                             *)
(***************************************************************************)
\* handleExecutionFailure of a call whose context was cancelled.
CancelledFailure(w) ==
  /\ At(w, "failure")
  /\ worker[w].ctx # "lease_lost" /\ worker[w].outcome \in Cancelled
  /\ \/ /\ task.status = "cancelled"
        /\ task' = task /\ Stop(w)
     \/ /\ task.status # "cancelled"
        /\ Terminal(w, "cancelled",
                    IF worker[w].outcome = "slot_cancelled" THEN "refund" ELSE "uncertain")
  /\ UNCHANGED <<order, attempt, logVars, jobVars, faults, lifeVars>>

\* handleCancelledResult works on the row as it is read now.
ResultOfCancelledTask(w) ==
  /\ At(w, "save")
  /\ task.status = "cancelled"
  /\ worker' = [worker EXCEPT ![w].pc = "uncertain", ![w].run = task.run]
  /\ UNCHANGED <<task, order, attempt, logVars, jobVars, faults, lifeVars>>

(***************************************************************************)
(* requestProviderCancellation, for the run r that was cancelled.          *)
(***************************************************************************)
CancellerGoto(r, pc) == canceller' = [canceller EXCEPT ![r].pc = pc]

\* UpdateTaskProviderState: unconditional.
SaveCancelledRequest(r) ==
  /\ canceller[r].pc = "state"
  /\ task' = [task EXCEPT !.request = canceller[r].request]
  /\ CancellerGoto(r, "claim")
  /\ UNCHANGED <<order, attempt, logVars, jobVars, worker, faults, provider, cancel,
                 reconciler, retry>>

\* One caller gets the right to send; a protocol that cannot cancel, or whose
\* configuration cannot be read, goes to review at once.
ClaimTaskProviderCancellation(r) ==
  /\ canceller[r].pc = "claim"
  /\ \/ /\ task.status = "cancelled" /\ provider.status = "none"
        /\ provider' = [status |-> "requested", attempts |-> 1]
        /\ CancellerGoto(r, "request") \/ CancellerGoto(r, "mark")
     \/ /\ task.status # "cancelled" \/ provider.status # "none"
        /\ canceller' = [canceller EXCEPT ![r] = NoCanceller]
        /\ UNCHANGED provider
  /\ UNCHANGED <<execVars, cancel, reconciler, retry>>

\* A request of a cancellation is logged like any other: the id, if there is one,
\* goes to the order and to the row.
LogCancellation(run, request) ==
  \/ /\ request # NoJob
     /\ orderJob' = [orderJob EXCEPT ![run] = request]
     /\ task' = [task EXCEPT !.request = request]
  \/ request = NoJob /\ UNCHANGED <<orderJob, task>>

\* The upstream stops the job or does not; a clear answer leaves the rest to the
\* reconciliation.
CancelProviderTask(r) ==
  LET id == canceller[r].request IN
  /\ canceller[r].pc = "request"
  /\ job' \in {job, [job EXCEPT ![id] = IF @ = "pending" THEN "cancelled" ELSE @]}
  /\ LogCancellation(r, id)
  /\ \/ canceller' = [canceller EXCEPT ![r] = NoCanceller]
     \/ CancellerGoto(r, "mark")
  /\ UNCHANGED <<order, attempt, callLog, jobs, worker, faults, provider, cancel,
                 reconciler, retry>>

(***************************************************************************)
(* markProviderCancellationUncertain: the row, then the order.             *)
(***************************************************************************)
\* UpdateTaskProviderCancellation applies to a cancelled row that still says
\* "requested".
Requested == task.status = "cancelled" /\ provider.status = "requested"

CancellerMarks(r) ==
  /\ canceller[r].pc = "mark"
  /\ \/ /\ Requested
        /\ provider' = [provider EXCEPT !.status = "uncertain"]
        /\ CancellerGoto(r, "uncertain")
     \/ /\ ~Requested
        /\ canceller' = [canceller EXCEPT ![r] = NoCanceller]
        /\ UNCHANGED provider
  /\ UNCHANGED <<execVars, cancel, reconciler, retry>>

CancellerBills(r) ==
  /\ canceller[r].pc = "uncertain"
  /\ order' = Uncertain(r)
  /\ canceller' = [canceller EXCEPT ![r] = NoCanceller]
  /\ UNCHANGED <<task, attempt, logVars, jobVars, worker, faults, provider, cancel,
                 reconciler, retry>>

(***************************************************************************)
(* reconcileProviderCancellation.                                          *)
(***************************************************************************)
ReconcilerGoto(pc) == reconciler' = [reconciler EXCEPT !.pc = pc]

ClaimReconciliationVariant ==   \* the attempts are counted but not limited
  /\ reconciler.pc = "idle"
  /\ Requested
  /\ provider' = [provider EXCEPT !.attempts = @ + 1]
  /\ \E pc \in {"query", "mark"} :
       reconciler' = [pc |-> pc, run |-> task.run, request |-> task.request, outcome |-> "none"]
  /\ UNCHANGED <<execVars, cancel, canceller, retry>>

\* ClaimNextTaskProviderCancellation; the count of attempts saturates.
ClaimReconciliation ==
  /\ reconciler.pc = "idle"
  /\ Requested
  /\ provider' = [provider EXCEPT !.attempts = Min({@ + 1, MaxChecks})]
  /\ \E pc \in IF provider.attempts + 1 >= MaxChecks THEN {"mark"} ELSE {"query", "mark"} :
       reconciler' = [pc |-> pc, run |-> task.run, request |-> task.request, outcome |-> "none"]
  /\ UNCHANGED <<execVars, cancel, canceller, retry>>

\* A job that is still running, or a query that fails, is looked at again later;
\* the last query that fails ends in review.  A query without an id finds no job:
\* it fails or the state is unknown, which counts as running.
QueryProviderCancellation ==
  LET id    == reconciler.request
      ended == id # NoJob /\ job[id] # "pending"
  IN
  /\ reconciler.pc = "query"
  /\ LogCancellation(reconciler.run, id)
  /\ \/ ended /\ reconciler' = [reconciler EXCEPT !.pc = "bill", !.outcome = job[id]]
     \/ /\ ~ended \/ provider.attempts < MaxChecks - 1
        /\ reconciler' = NoReconciler
     \/ provider.attempts >= MaxChecks - 1 /\ ReconcilerGoto("mark")
  /\ UNCHANGED <<order, attempt, callLog, jobVars, worker, faults, provider, cancel,
                 canceller, retry>>

BillCancellationVariant ==   \* only a confirmed cancellation is refunded
  LET run == reconciler.run IN
  /\ reconciler.pc = "bill"
  /\ order' = IF reconciler.outcome = "cancelled" THEN Refunded(run) ELSE Settled(run)
  /\ ReconcilerGoto("close")
  /\ UNCHANGED <<task, attempt, logVars, jobVars, worker, faults, provider, cancel,
                 canceller, retry>>

\* A refund that fails because the order is settled is tried again later.
BillCancellation ==
  LET run == reconciler.run IN
  /\ reconciler.pc = "bill"
  /\ \/ /\ reconciler.outcome = "succeeded"
        /\ order' = Settled(run)
        /\ ReconcilerGoto("close")
     \/ /\ reconciler.outcome # "succeeded" /\ order[run] # "settled"
        /\ order' = Refunded(run)
        /\ ReconcilerGoto("close")
     \/ /\ reconciler.outcome # "succeeded" /\ order[run] = "settled"
        /\ reconciler' = NoReconciler
        /\ UNCHANGED order
  /\ UNCHANGED <<task, attempt, logVars, jobVars, worker, faults, provider, cancel,
                 canceller, retry>>

CloseCancellation ==
  /\ reconciler.pc = "close"
  /\ provider' = IF Requested
                   THEN [provider EXCEPT !.status = IF reconciler.outcome = "cancelled"
                                                      THEN "confirmed" ELSE "uncertain"]
                   ELSE provider
  /\ reconciler' = NoReconciler
  /\ UNCHANGED <<execVars, cancel, canceller, retry>>

ReconcilerMarksVariant ==   \* the order is left to somebody else
  /\ reconciler.pc = "mark"
  /\ provider' = IF Requested THEN [provider EXCEPT !.status = "uncertain"] ELSE provider
  /\ reconciler' = NoReconciler
  /\ UNCHANGED <<execVars, cancel, canceller, retry>>

ReconcilerMarks ==
  /\ reconciler.pc = "mark"
  /\ \/ /\ Requested
        /\ provider' = [provider EXCEPT !.status = "uncertain"]
        /\ ReconcilerGoto("uncertain")
     \/ ~Requested /\ reconciler' = NoReconciler /\ UNCHANGED provider
  /\ UNCHANGED <<execVars, cancel, canceller, retry>>

ReconcilerBills ==
  /\ reconciler.pc = "uncertain"
  /\ order' = Uncertain(reconciler.run)
  /\ reconciler' = NoReconciler
  /\ UNCHANGED <<task, attempt, logVars, jobVars, worker, faults, provider, cancel,
                 canceller, retry>>

(***************************************************************************)
(* retryTask.                                                              *)
(***************************************************************************)
RetryRead ==
  /\ retry.pc = "idle"
  /\ task.status \in {"failed", "cancelled"}
  /\ provider.status # "requested"
  /\ retry' = [pc |-> "check", run |-> task.run]
  /\ UNCHANGED <<execVars, provider, cancel, canceller, reconciler>>

\* CheckRetryEligibility reads the order of the row that was read.
CheckRetryEligibility ==
  /\ retry.pc = "check"
  /\ retry' = IF order[retry.run] = "uncertain" THEN NoRetry ELSE [retry EXCEPT !.pc = "write"]
  /\ UNCHANGED <<execVars, provider, cancel, canceller, reconciler>>

RetryTaskWithBillingVariant ==   \* the next run goes on with the order it has
  /\ retry.pc = "write"
  /\ \/ /\ task.status \in {"failed", "cancelled"}
        /\ task.run < MaxRuns
        /\ task' = Released([task EXCEPT !.status = "queued", !.run = @ + 1, !.route = 1,
                                         !.request = NoJob])
        /\ provider' = NoCancellation
     \/ task.status \notin {"failed", "cancelled"} /\ UNCHANGED <<task, provider>>
  /\ retry' = NoRetry
  /\ UNCHANGED <<order, attempt, logVars, jobVars, worker, faults, cancel, canceller,
                 reconciler>>

\* RetryTaskWithBilling: one transaction that reserves the order of the next run
\* and queues the row, if it is failed or cancelled now.
RetryTaskWithBilling ==
  /\ retry.pc = "write"
  /\ \/ /\ task.status \in {"failed", "cancelled"}
        /\ task.run < MaxRuns
        /\ task' = Released([task EXCEPT !.status = "queued", !.run = @ + 1, !.route = 1,
                                         !.request = NoJob])
        /\ order' = [order EXCEPT ![task.run + 1] = "reserved"]
        /\ provider' = NoCancellation
     \/ /\ task.status \notin {"failed", "cancelled"}
        /\ UNCHANGED <<task, order, provider>>
  /\ retry' = NoRetry
  /\ UNCHANGED <<attempt, logVars, jobVars, worker, faults, cancel, canceller, reconciler>>

(***************************************************************************)
(* The specification.                                                      *)
(***************************************************************************)
\* A process stops in the middle of a command.
CommandCrash ==
  /\ CommandCrashes
  /\ \/ cancel.pc # "idle" /\ CancelEnds /\ UNCHANGED <<canceller, reconciler>>
     \/ \E r \in Runs : /\ canceller[r].pc # "idle"
                        /\ canceller' = [canceller EXCEPT ![r] = NoCanceller]
                        /\ UNCHANGED <<cancel, reconciler>>
     \/ reconciler.pc # "idle" /\ reconciler' = NoReconciler /\ UNCHANGED <<cancel, canceller>>
  /\ UNCHANGED <<execVars, provider, retry>>

CancelStep == CancelHydrate \/ CancelTaskIfStatus \/ CancelActiveTask \/ CancelBill

CancellerStep(r) ==
  \/ SaveCancelledRequest(r) \/ ClaimTaskProviderCancellation(r) \/ CancelProviderTask(r)
  \/ CancellerMarks(r) \/ CancellerBills(r)

ReconcilerStep ==
  \/ ClaimReconciliation \/ QueryProviderCancellation \/ BillCancellation
  \/ CloseCancellation \/ ReconcilerMarks \/ ReconcilerBills

RetryStep == RetryRead \/ CheckRetryEligibility \/ RetryTaskWithBilling

LifecycleNext ==
  \/ ExecNext /\ UNCHANGED lifeVars
  \/ \E w \in Workers : CancelledFailure(w) \/ ResultOfCancelledTask(w)
  \/ CancelRead \/ CancelStep \/ ReconcilerStep \/ RetryStep \/ CommandCrash
  \/ \E r \in Runs : CancellerStep(r)

LifecycleSpec == LifecycleInit /\ [][LifecycleNext]_vars

\* A command that has begun goes on to its end and the reconciliation loop runs
\* every five seconds.  Whether a command is given is up to the user.
FairLifecycleSpec ==
  /\ LifecycleSpec
  /\ WF_vars(CancelStep) /\ WF_vars(ReconcilerStep)
  /\ \A r \in Runs : WF_vars(CancellerStep(r))

(***************************************************************************)
(* Properties.                                                             *)
(***************************************************************************)
\* A run ends once: what a cancellation, a late result or a stale execution
\* writes never changes the end that a run already has: "避免“用户已取消但迟到
\* 结果又把任务写成成功”" (task_lifecycle.go).
RunEndsOnce ==
  [][task.status \in TerminalStatus /\ task'.run = task.run => task'.status = task.status]_vars

RunBills == INSTANCE TaskBilling WITH run <- task.run, status <- task.status, bill <- order

\* The row and the orders, which many executions and commands write in turn, late
\* ones of earlier runs among them, are a task and its bills as TaskBilling has
\* them: a run ends once, a retry has an order of its own, and an order is closed
\* once, after its run and as its end allows (task_billing.go, task_terminal.go).
BillingSpec == RunBills!Spec

\* The bill of a cancelled task does not stay open unnoticed: it is closed or
\* goes to review, "后台对账会继续负责退款或费用核对" (task_lifecycle.go).
CancelledIsBilled ==
  task.status = "cancelled" ~> order[task.run] \notin {"reserved", "running"}
=============================================================================
