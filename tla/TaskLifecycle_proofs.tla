----------------------- MODULE TaskLifecycle_proofs ------------------------
(***************************************************************************)
(* Proofs about TaskLifecycle for every number of workers, runs, routes    *)
(* and faults.  RunEndsOnce needs little of the state: every statement     *)
(* that writes the status compares the row first, with the lease or with   *)
(* the status the command has read, which is that of an active task.       *)
(* The types come next, and from them the bills: what a late execution or  *)
(* command is about to close belongs to a run that has ended (LedgerInv),  *)
(* so that row and orders implement TaskBilling.                           *)
(* Of a task that is not retried, JobInv and ChargeInv of                  *)
(* TaskExecution_proofs are shown to survive the commands (FirstInv), and  *)
(* what the row says of the bill and the job is added (RefundInv).         *)
(***************************************************************************)
EXTENDS TaskLifecycle, TaskExecution_proofs

\* The row has its columns, and the run is a number.
Columns == {"status", "owner", "lease", "run", "route", "request"}

IsRow(t) ==
  /\ t = [c \in Columns |-> t[c]]
  /\ t.run \in Nat

\* A cancel command remembers the status of a task that was active.
CancelReadActive ==
  /\ cancel = [c \in {"pc", "status", "run", "request", "given"} |-> cancel[c]]
  /\ cancel.status \in {"queued", "running"}

\* The inductive invariant: what the conditional updates of the row rely on.
RowInv == IsRow(task) /\ CancelReadActive

\* The row u may follow the row t within a run: it has the same end, if t has
\* one.
Continues(t, u) ==
  /\ IsRow(u)
  /\ u.run = t.run
  /\ t.status \in TerminalStatus => u.status = t.status

\* Columns other than the status and the run do not matter to the end of a run.
LEMMA ColumnWrites ==
  ASSUME NEW t, IsRow(t), NEW x
  PROVE  /\ Continues(t, t)
         /\ Continues(t, Released(t))
         /\ Continues(t, [t EXCEPT !.lease = x])
         /\ Continues(t, [t EXCEPT !.request = x])
         /\ Continues(t, [t EXCEPT !.route = x])
  BY DEF IsRow, Columns, Continues, Released

\* A row that has not ended may take any status, and be released with it.
LEMMA StatusWrites ==
  ASSUME NEW t, IsRow(t), t.status \notin TerminalStatus, NEW s, NEW x, NEW y
  PROVE  /\ Continues(t, Released([t EXCEPT !.status = s]))
         /\ Continues(t, [t EXCEPT !.status = s, !.owner = x, !.lease = y])
         /\ Continues(t, [t EXCEPT !.status = s, !.request = x])
  BY DEF IsRow, Columns, Continues, Released

\* UpdateTaskTerminalState applies only to a running row under the lease.
LEMMA TerminalContinues ==
  ASSUME IsRow(task), NEW w, NEW s, NEW b, Terminal(w, s, b)
  PROVE  Continues(task, task')
<1>1. CASE Fenced(w) /\ task' = Released([task EXCEPT !.status = s])
  <2>1. task.status \notin TerminalStatus
    BY <1>1 DEF Fenced, TerminalStatus
  <2> QED BY <1>1, <2>1, StatusWrites
<1>2. CASE task' = task
  BY <1>2, ColumnWrites
<1> QED BY <1>1, <1>2 DEF Terminal

\* The preparation of a call writes the route and the job id, or ends the task
\* under its lease.
LEMMA PrepareContinues ==
  ASSUME IsRow(task), NEW w, PrepareStep(w)
  PROVE  Continues(task, task')
<1>1. CASE ResumedAttempt(w)
  <2> DEFINE id == attempt[worker[w].run][Max(Attempts(worker[w].run))].request
  <2>1. task' = task \/ task' = [task EXCEPT !.request = id]
    BY <1>1 DEF ResumedAttempt
  <2> HIDE DEF id
  <2>2. Continues(task, task) /\ Continues(task, [task EXCEPT !.request = id])
    BY ColumnWrites
  <2> QED BY <2>1, <2>2
<1>2. CASE SwitchTaskLogicalRoute(w)
  <2>1. PICK next : task' = [task EXCEPT !.route = next]
    BY <1>2 DEF SwitchTaskLogicalRoute
  <2> QED BY <2>1, ColumnWrites
<1>3. CASE \E s, b : Terminal(w, s, b)
  BY <1>3, TerminalContinues
<1>4. CASE task' = task
  BY <1>4, ColumnWrites
<1>5. \/ ResumedAttempt(w) \/ SwitchTaskLogicalRoute(w)
      \/ \E s, b : Terminal(w, s, b)
      \/ task' = task
  <2>1. UnknownAttempt(w) \/ RouteFails(w) \/ BillingNotReady(w) =>
          \E s, b : Terminal(w, s, b)
    BY DEF UnknownAttempt, RouteFails, BillingNotReady
  <2>2. NoNextRoute(w) \/ AttemptNotCreated(w) =>
          task' = task \/ \E s, b : Terminal(w, s, b)
    BY DEF NoNextRoute, AttemptNotCreated
  <2>3. \/ Start(w) \/ FirstAttempt(w) \/ UnsentAttempt(w) \/ RejectedAttempt(w)
        \/ CreateRouteAttempt(w) \/ MarkBillingRunning(w)
        \/ RouteUnavailable(w) \/ AdoptAttempt(w)
        => task' = task
    BY DEF Start, FirstAttempt, UnsentAttempt, RejectedAttempt, CreateRouteAttempt,
           MarkBillingRunning, RouteUnavailable, AdoptAttempt
  <2> QED BY <2>1, <2>2, <2>3 DEF PrepareStep
<1> QED BY <1>1, <1>2, <1>3, <1>4, <1>5

\* A call writes the id of its job to the row, whatever the row has become.
LEMMA CallContinues ==
  ASSUME IsRow(task), NEW w, CallStep(w)
  PROVE  Continues(task, task')
<1> DEFINE id == worker[w].target
<1>1. task' = task \/ task' = [task EXCEPT !.request = id]
  <2>1. \/ LogTask(w) \/ PollPending(w) \/ PollDone(w)
        => task' = [task EXCEPT !.request = id]
    BY DEF LogTask, PollPending, PollDone, LogPoll
  <2>2. PollFails(w) => \/ task' = task
                        \/ task' = [task EXCEPT !.request = id]
    BY DEF PollFails, LogPoll
  <2>3. \/ MarkRouteAttemptDispatching(w) \/ DispatchMarkFails(w)
        \/ Resume(w) \/ Submit(w) \/ SubmitUnanswered(w) \/ SubmitRefused(w)
        \/ CallCancelled(w) \/ LogOrder(w) \/ LogCall(w) \/ LogFails(w)
        \/ PollTimesOut(w) \/ PollLogFails(w)
        \/ Refresh(w) \/ FinishTaskRouteAttempt(w) \/ FinishFails(w)
        => task' = task
    BY DEF MarkRouteAttemptDispatching, DispatchMarkFails, Resume, Submit,
           SubmitUnanswered, SubmitRefused, CallCancelled, LogOrder, LogCall, LogFails,
           PollTimesOut, PollLogFails, Refresh, FinishTaskRouteAttempt, FinishFails
  <2> QED BY <2>1, <2>2, <2>3 DEF CallStep
<1> HIDE DEF id
<1>2. Continues(task, task) /\ Continues(task, [task EXCEPT !.request = id])
  BY ColumnWrites
<1> QED BY <1>1, <1>2

\* The end of an execution saves its result under the lease.
LEMMA FinishContinues ==
  ASSUME IsRow(task), NEW w, FinishStep(w)
  PROVE  Continues(task, task')
<1>1. CASE SaveTaskCompletion(w) /\ task' # task
  <2>1. /\ Fenced(w)
        /\ task' = [task EXCEPT !.status = "succeeded", !.request = worker[w].request]
    BY <1>1 DEF SaveTaskCompletion
  <2>2. task.status \notin TerminalStatus
    BY <2>1 DEF Fenced, TerminalStatus
  <2> QED BY <2>1, <2>2, StatusWrites
<1>2. CASE \E s, b : Terminal(w, s, b)
  BY <1>2, TerminalContinues
<1>3. CASE task' = task \/ task' = Released(task)
  BY <1>3, ColumnWrites
<1>4. \/ SaveTaskCompletion(w) /\ task' # task
      \/ \E s, b : Terminal(w, s, b)
      \/ task' = task \/ task' = Released(task)
  <2>1. DeferRunningTaskForProviderPoll(w) => task' = task \/ task' = Released(task)
    BY DEF DeferRunningTaskForProviderPoll
  <2>2. ExecutionFailure(w) \/ SaveFails(w) => \E s, b : Terminal(w, s, b)
    BY DEF ExecutionFailure, SaveFails
  <2>3. \/ StopWithoutLease(w) \/ PersistResult(w) \/ SettleBilling(w) \/ SettleFails(w)
        \/ RefundBilling(w) \/ BillingUnclear(w) \/ ReviewBilling(w)
        => task' = task
    BY DEF StopWithoutLease, PersistResult, SettleBilling, SettleFails, RefundBilling,
           BillingUnclear, ReviewBilling, CloseBill
  <2> QED BY <2>1, <2>2, <2>3 DEF FinishStep
<1> QED BY <1>1, <1>2, <1>3, <1>4

\* Nothing a worker, a lease or the upstream does changes the end of a run.
LEMMA ExecContinues ==
  ASSUME IsRow(task), ExecNext
  PROVE  Continues(task, task')
<1>1. ASSUME NEW w \in Workers, Claim(w)
      PROVE  Continues(task, task')
  <2>1. task.status \notin TerminalStatus
    BY <1>1 DEF Claim, TerminalStatus
  <2>2. task' = [task EXCEPT !.status = "running", !.owner = w, !.lease = TRUE]
    BY <1>1 DEF Claim
  <2> QED BY <2>1, <2>2, StatusWrites
<1>2. ASSUME NEW w \in Workers, NotStarted(w)
      PROVE  Continues(task, task')
  <2>1. task' = task \/ task' = Released(task)
    BY <1>2 DEF NotStarted
  <2> QED BY <2>1, ColumnWrites
<1>3. ASSUME NEW w \in Workers, WorkerStep(w)
      PROVE  Continues(task, task')
  BY <1>3, PrepareContinues, CallContinues, FinishContinues DEF WorkerStep
<1>4. CASE ExpireLease
  <2>1. task' = [task EXCEPT !.lease = FALSE]
    BY <1>4 DEF ExpireLease
  <2> QED BY <2>1, ColumnWrites
<1>5. ASSUME \/ \E w \in Workers : Crash(w) \/ LoseLease(w)
             \/ \E r \in Runs : JobEnds(r)
      PROVE  Continues(task, task')
  <2>1. task' = task
    BY <1>5 DEF Crash, LoseLease, JobEnds
  <2> QED BY <2>1, ColumnWrites
<1> QED BY <1>1, <1>2, <1>3, <1>4, <1>5 DEF ExecNext

\* A cancellation ends a task only in the status the command has read.
LEMMA CancelContinues ==
  ASSUME RowInv, CancelRead \/ CancelStep
  PROVE  Continues(task, task') /\ CancelReadActive'
<1> USE DEF RowInv
<1>1. CASE CancelTaskIfStatus
  <2>1. CancelReadActive'
    BY <1>1 DEF CancelTaskIfStatus, CancelGoto, CancelEnds, CancelReadActive, NoCancel
  <2>2. CASE /\ task.status = cancel.status
             /\ task' = Released([task EXCEPT !.status = "cancelled"])
    <3>1. task.status \notin TerminalStatus
      BY <2>2 DEF CancelReadActive, TerminalStatus
    <3> QED BY <2>1, <2>2, <3>1, StatusWrites
  <2>3. CASE task' = task
    BY <2>1, <2>3, ColumnWrites
  <2> QED BY <1>1, <2>2, <2>3 DEF CancelTaskIfStatus
<1>2. CASE ~CancelTaskIfStatus
  <2>1. task' = task
    BY <1>2 DEF CancelRead, CancelStep, CancelHydrate, CancelActiveTask, CancelBill, execVars
  <2>2. CASE CancelRead
    <3> DEFINE pc == IF task.request = NoJob THEN "hydrate" ELSE "write"
    <3>1. /\ task.status \in {"queued", "running"}
          /\ cancel' = [pc |-> pc, status |-> task.status, run |-> task.run,
                        request |-> task.request, given |-> cancel.given + 1]
      BY <2>2 DEF CancelRead
    <3> HIDE DEF pc
    <3>2. CancelReadActive'
      BY <3>1 DEF CancelReadActive
    <3> QED BY <2>1, <3>2, ColumnWrites
  <2>3. CASE CancelHydrate
    <3> DEFINE request == Hydrated(cancel.run)
    <3>1. cancel' = [cancel EXCEPT !.pc = "write", !.request = request]
      BY <2>3 DEF CancelHydrate
    <3> HIDE DEF request
    <3>2. CancelReadActive'
      BY <3>1 DEF CancelReadActive
    <3> QED BY <2>1, <3>2, ColumnWrites
  <2>4. CASE CancelActiveTask \/ CancelBill
    <3>1. CancelReadActive'
      BY <2>4 DEF CancelActiveTask, CancelBill, CancelGoto, CancelEnds, CancelReadActive,
                  NoCancel
    <3> QED BY <2>1, <3>1, ColumnWrites
  <2> QED BY <1>2, <2>2, <2>3, <2>4 DEF CancelStep
<1> QED BY <1>1, <1>2

\* What follows a cancellation upstream writes the job id to the row and never
\* its status.
LEMMA CancellationContinues ==
  ASSUME RowInv, ReconcilerStep \/ \E r \in Runs : CancellerStep(r)
  PROVE  Continues(task, task') /\ UNCHANGED cancel
<1> USE DEF RowInv
<1>1. ASSUME NEW r \in Runs, CancellerStep(r)
      PROVE  Continues(task, task') /\ UNCHANGED cancel
  <2> DEFINE id == canceller[r].request
  <2>1. /\ task' = task \/ task' = [task EXCEPT !.request = id]
        /\ UNCHANGED cancel
    BY <1>1 DEF CancellerStep, SaveCancelledRequest, ClaimTaskProviderCancellation,
                CancelProviderTask, LogCancellation, CancellerMarks, CancellerBills, execVars
  <2> HIDE DEF id
  <2>2. Continues(task, task) /\ Continues(task, [task EXCEPT !.request = id])
    BY ColumnWrites
  <2> QED BY <2>1, <2>2
<1>2. CASE ReconcilerStep
  <2> DEFINE id == reconciler.request
  <2>1. /\ task' = task \/ task' = [task EXCEPT !.request = id]
        /\ UNCHANGED cancel
    BY <1>2 DEF ReconcilerStep, ClaimReconciliation, QueryProviderCancellation,
                LogCancellation, BillCancellation, CloseCancellation, ReconcilerMarks,
                ReconcilerBills, execVars
  <2> HIDE DEF id
  <2>2. Continues(task, task) /\ Continues(task, [task EXCEPT !.request = id])
    BY ColumnWrites
  <2> QED BY <2>1, <2>2
<1> QED BY <1>1, <1>2

\* A worker that finds its task cancelled ends it under the lease or not at all.
LEMMA CancelledWorkerContinues ==
  ASSUME RowInv, NEW w, CancelledFailure(w) \/ ResultOfCancelledTask(w)
  PROVE  Continues(task, task') /\ UNCHANGED cancel
<1>1. UNCHANGED cancel
  BY DEF CancelledFailure, ResultOfCancelledTask, lifeVars
<1>2. task' = task \/ \E s, b : Terminal(w, s, b)
  BY DEF CancelledFailure, ResultOfCancelledTask
<1> QED BY <1>1, <1>2, ColumnWrites, TerminalContinues DEF RowInv

\* A retry is the only step that lets an ended row go on, and it begins a run.
LEMMA RetryBeginsRun ==
  ASSUME RowInv, RetryStep
  PROVE  /\ UNCHANGED cancel
         /\ IsRow(task')
         /\ Continues(task, task') \/ task'.run # task.run
<1> USE DEF RowInv
<1>1. UNCHANGED cancel
  BY DEF RetryStep, RetryRead, CheckRetryEligibility, RetryTaskWithBilling
<1>2. CASE task' = task
  BY <1>1, <1>2, ColumnWrites DEF Continues
<1>3. CASE task' = Released([task EXCEPT !.status = "queued", !.run = @ + 1, !.route = 1,
                                         !.request = NoJob])
  <2> DEFINE row == [task EXCEPT !.status = "queued", !.run = @ + 1, !.route = 1,
                                 !.request = NoJob]
  <2>1. task.run \in Nat /\ task.run + 1 \in Nat
    BY DEF IsRow
  <2>2. IsRow(row) /\ row.run = task.run + 1
    BY <2>1 DEF IsRow, Columns
  <2> HIDE DEF row
  <2>3. IsRow(Released(row)) /\ Released(row).run = row.run
    BY <2>2, ColumnWrites DEF Continues
  <2>4. task' = Released(row)
    BY <1>3 DEF row
  <2> QED BY <1>1, <2>1, <2>2, <2>3, <2>4
<1> QED BY <1>2, <1>3
        DEF RetryStep, RetryRead, CheckRetryEligibility, RetryTaskWithBilling, execVars

\* A step keeps the invariant, and within a run it keeps the end.
LEMMA LifecycleStep ==
  ASSUME RowInv, [LifecycleNext]_vars
  PROVE  RowInv' /\ (Continues(task, task') \/ task'.run # task.run)
<1> USE DEF RowInv
<1>1. CASE ExecNext /\ UNCHANGED lifeVars
  BY <1>1, ExecContinues DEF lifeVars, Continues, CancelReadActive
<1>2. CASE \E w \in Workers : CancelledFailure(w) \/ ResultOfCancelledTask(w)
  BY <1>2, CancelledWorkerContinues DEF Continues, CancelReadActive
<1>3. CASE CancelRead \/ CancelStep
  BY <1>3, CancelContinues DEF Continues
<1>4. CASE ReconcilerStep \/ \E r \in Runs : CancellerStep(r)
  BY <1>4, CancellationContinues DEF Continues, CancelReadActive
<1>5. CASE RetryStep
  BY <1>5, RetryBeginsRun DEF CancelReadActive
<1>6. CASE CommandCrash
  <2>1. task' = task
    BY <1>6 DEF CommandCrash, execVars
  <2>2. CASE CancelEnds
    <3>1. CancelReadActive'
      BY <2>2 DEF CancelEnds, CancelReadActive, NoCancel
    <3> QED BY <2>1, <3>1, ColumnWrites DEF Continues
  <2>3. CASE UNCHANGED cancel
    BY <2>1, <2>3, ColumnWrites DEF Continues, CancelReadActive
  <2> QED BY <1>6, <2>2, <2>3 DEF CommandCrash
<1>7. CASE UNCHANGED vars
  BY <1>7, ColumnWrites DEF vars, execVars, lifeVars, CancelReadActive
<1> QED BY <1>1, <1>2, <1>3, <1>4, <1>5, <1>6, <1>7 DEF LifecycleNext

\* No order of workers, leases, faults, cancellations and retries changes the
\* end of a run: a late result, a stale execution and a second cancellation all
\* miss the condition of their update (UpdateTaskTerminalState,
\* SaveTaskCompletion, CancelTaskIfStatus).
THEOREM RunEnds == LifecycleSpec => RunEndsOnce
<1>1. LifecycleInit => RowInv
  BY DEF LifecycleInit, ExecInit, RowInv, IsRow, Columns, CancelReadActive, NoCancel
<1>2. RowInv /\ [LifecycleNext]_vars => RowInv'
  BY LifecycleStep
<1>3. RowInv /\ [LifecycleNext]_vars
      => [task.status \in TerminalStatus /\ task'.run = task.run
            => task'.status = task.status]_vars
  BY LifecycleStep DEF Continues
<1> QED BY <1>1, <1>2, <1>3, PTL DEF LifecycleSpec, RunEndsOnce

(***************************************************************************)
(* The types, with the numbering of attempts that those of the execution   *)
(* need (TypeInv of TaskExecution_proofs).                                 *)
(***************************************************************************)
ProviderRow   == [status : {"none", "requested", "confirmed", "uncertain"},
                  attempts : 0 .. MaxChecks]
CancelRow     == [pc : {"idle", "hydrate", "write", "signal", "bill"},
                  status : {"queued", "running"}, run : Runs, request : JobIds,
                  given : 0 .. MaxCancels]
CancellerRow  == [pc : {"idle", "state", "claim", "request", "mark", "uncertain"},
                  request : JobIds]
ReconcilerRow == [pc : {"idle", "query", "bill", "close", "mark", "uncertain"},
                  run : Runs, request : JobIds, outcome : JobState]
RetryRow      == [pc : {"idle", "check", "write"}, run : Runs]

CommandsTyped ==
  /\ provider \in ProviderRow
  /\ cancel \in CancelRow
  /\ canceller \in [Runs -> CancellerRow]
  /\ reconciler \in ReconcilerRow
  /\ retry \in RetryRow

LifeTypes == TypeInv /\ CommandsTyped

LEMMA NoCommandTypes ==
  /\ NoCancellation \in ProviderRow /\ NoCancel \in CancelRow /\ NoCanceller \in CancellerRow
  /\ NoReconciler \in ReconcilerRow /\ NoRetry \in RetryRow
  /\ 0 \in 0 .. MaxCancels
  BY ConstantTypes, LifecycleConstants
     DEF NoCancellation, ProviderRow, NoCancel, CancelRow, NoCanceller, CancellerRow,
         NoReconciler, ReconcilerRow, NoRetry, RetryRow, JobState

\* The runs are finitely many: the log has a newest one, if there is any.
LEMMA NewestLogged ==
  ASSUME Logged # {}
  PROVE  Max(Logged) \in Runs
<1> DEFINE After == {r .. MaxRuns : r \in Logged}
<1>1. Logged \subseteq Runs /\ Runs = 1 .. MaxRuns /\ MaxRuns \in Nat
  BY ExecutionConstants DEF Logged, Runs
<1>2. After \subseteq FiniteSubsetsOf(Nat) /\ After # {}
  <2>1. \A r \in Logged : IsFiniteSet(r .. MaxRuns) /\ r .. MaxRuns \subseteq Nat
    BY <1>1, FS_Interval
  <2> QED BY <2>1 DEF FiniteSubsetsOf
<1>3. PICK X \in After : \A Y \in After : <<Y, X>> \notin StrictSubsetOrdering(Nat)
  <2> HIDE DEF After
  <2> QED BY <1>2, FS_StrictSubsetOrderingWellFounded, WFMin
<1>4. PICK x \in Logged : X = x .. MaxRuns
  OBVIOUS
<1>5. ASSUME NEW y \in Logged, x < y
      PROVE  FALSE
  <2>1. x \in x .. MaxRuns /\ x \notin y .. MaxRuns /\ y .. MaxRuns \subseteq x .. MaxRuns
    BY <1>1, <1>5
  <2>2. <<y .. MaxRuns, x .. MaxRuns>> \in StrictSubsetOrdering(Nat)
    BY <1>1, <2>1 DEF StrictSubsetOrdering
  <2> QED BY <1>3, <1>4, <2>2
<1>6. x \in Logged /\ \A y \in Logged : x >= y
  BY <1>1, <1>5
<1> QED BY <1>1, <1>6 DEF Max

LEMMA HydratedType ==
  ASSUME TypeInv, NEW r \in Runs
  PROVE  Hydrated(r) \in JobIds
<1>1. orderJob[r] \in JobIds /\ Runs \subseteq JobIds /\ NoJob \in JobIds
  BY Found, ConstantTypes DEF RowsTyped
<1> QED BY <1>1, NewestLogged DEF Hydrated

\* A step that leaves the executions and the attempts alone.
LEMMA CommandStep ==
  ASSUME TypeInv, task' \in TaskRow, order' \in [Runs -> OrderStatus],
         orderJob' \in [Runs -> JobIds], job' \in [Runs -> JobState],
         UNCHANGED <<attempt, callLog, jobs, worker, faults>>
  PROVE  TypeInv'
<1>1. /\ worker' = worker /\ attempt' = attempt /\ callLog' = callLog /\ jobs' = jobs
      /\ faults' = faults
  OBVIOUS
<1>2. ExecTypeOK'
  BY <1>1 DEF TypeInv, ExecTypeOK, TaskRow
<1>3. Numbered' /\ \A w \in Workers : Placed(w)'
  BY <1>1 DEF TypeInv, Numbered, Placed, Attempts, At
<1> QED BY <1>2, <1>3 DEF TypeInv

LEMMA UnchangedTypes ==
  ASSUME TypeInv, UNCHANGED execVars
  PROVE  TypeInv'
<1>1. [ExecNext]_execVars
  OBVIOUS
<1> QED BY <1>1, StepTypes

LEMMA CancelTypes ==
  ASSUME LifeTypes, CancelRead \/ CancelStep
  PROVE  LifeTypes'
<1>1. /\ TypeInv /\ CommandsTyped /\ task \in TaskRow /\ order \in [Runs -> OrderStatus]
      /\ orderJob \in [Runs -> JobIds] /\ job \in [Runs -> JobState]
      /\ worker \in [Workers -> WorkerRow]
      /\ cancel \in CancelRow /\ cancel.run \in Runs /\ cancel.request \in JobIds
      /\ cancel.given \in 0 .. MaxCancels
  BY Found DEF LifeTypes, RowsTyped, CommandsTyped, CancelRow
<1>2. NoCancel \in CancelRow /\ MaxCancels \in Nat
  BY NoCommandTypes, LifecycleConstants
<1>3. \A pc \in {"idle", "hydrate", "write", "signal", "bill"} :
         [cancel EXCEPT !.pc = pc] \in CancelRow
  BY <1>1 DEF CancelRow
<1>4. CancelEnds => cancel' \in CancelRow
  BY <1>1, <1>2 DEF CancelEnds, CancelRow
<1>5. CASE CancelRead
  <2>1. TypeInv'
    BY <1>1, <1>5, UnchangedTypes DEF CancelRead
  <2>2. cancel' \in CancelRow
    BY <1>1, <1>2, <1>5 DEF CancelRead, CancelRow, TaskRow
  <2> QED BY <1>1, <1>5, <2>1, <2>2 DEF LifeTypes, CommandsTyped, CancelRead
<1>6. CASE CancelHydrate
  <2>1. TypeInv'
    BY <1>1, <1>6, UnchangedTypes DEF CancelHydrate
  <2>2. Hydrated(cancel.run) \in JobIds
    BY <1>1, HydratedType
  <2>3. cancel' \in CancelRow
    BY <1>1, <1>6, <2>2 DEF CancelHydrate, CancelRow
  <2> QED BY <1>1, <1>6, <2>1, <2>3 DEF LifeTypes, CommandsTyped, CancelHydrate
<1>7. CASE CancelTaskIfStatus
  <2>1. task' \in TaskRow
    BY <1>1, <1>7 DEF CancelTaskIfStatus, Released, TaskRow, TaskStatus, TerminalStatus
  <2>2. TypeInv'
    BY <1>1, <1>7, <2>1, CommandStep DEF CancelTaskIfStatus, logVars, jobVars
  <2>3. cancel' \in CancelRow
    BY <1>3, <1>4, <1>7 DEF CancelTaskIfStatus, CancelGoto
  <2> QED BY <1>1, <1>7, <2>2, <2>3 DEF LifeTypes, CommandsTyped, CancelTaskIfStatus
<1>8. CASE CancelActiveTask
  <2>1. cancel' \in CancelRow
    BY <1>3, <1>8 DEF CancelActiveTask, CancelGoto
  <2>2. UNCHANGED <<task, order, attempt, orderJob, callLog, job, jobs, faults>>
    BY <1>8 DEF CancelActiveTask, logVars, jobVars
  <2>3. CASE worker' = worker
    <3>1. TypeInv'
      BY <1>1, <2>2, <2>3, CommandStep
    <3> QED BY <1>1, <1>8, <2>1, <3>1 DEF LifeTypes, CommandsTyped, CancelActiveTask
  <2>4. ASSUME NEW w \in Workers, worker' = [worker EXCEPT ![w].ctx = "cancelled"]
        PROVE  TypeInv'
    <3>1. worker[w] \in WorkerRow
      BY <1>1
    <3>2. /\ Alone(w) /\ worker'[w] \in WorkerRow /\ worker'[w].pc = worker[w].pc
          /\ worker'[w].run = worker[w].run /\ worker'[w].attempt = worker[w].attempt
      BY <1>1, <2>4, <3>1 DEF Alone, WorkerRow
    <3>3. RowsTyped' /\ Kept
      BY <1>1, <2>2, Found DEF RowsTyped, Kept
    <3>4. Placed(w)'
      BY <1>1, <3>2, <3>3 DEF TypeInv, Placed, At, Kept, Attempts
    <3> QED BY <1>1, <3>2, <3>3, <3>4, LocalStep
  <2> QED BY <1>1, <1>8, <2>1, <2>3, <2>4 DEF LifeTypes, CommandsTyped, CancelActiveTask
<1>9. CASE CancelBill
  <2>1. order' \in [Runs -> OrderStatus]
    BY <1>1, <1>9, Found, BillTypes DEF CancelBill
  <2>2. TypeInv'
    BY <1>1, <1>9, <2>1, CommandStep DEF CancelBill, logVars, jobVars
  <2>3. cancel' \in CancelRow
    BY <1>4, <1>9 DEF CancelBill
  <2>4. canceller' \in [Runs -> CancellerRow]
    BY <1>1, <1>9 DEF CancelBill, CommandsTyped, CancellerRow
  <2> QED BY <1>1, <1>9, <2>2, <2>3, <2>4 DEF LifeTypes, CommandsTyped, CancelBill
<1> QED BY <1>5, <1>6, <1>7, <1>8, <1>9 DEF CancelStep

\* The log of a request of a cancellation.
LEMMA LogCancellationTypes ==
  ASSUME TypeInv, NEW r \in Runs, NEW id \in JobIds, LogCancellation(r, id)
  PROVE  orderJob' \in [Runs -> JobIds] /\ task' \in TaskRow
  BY Found DEF RowsTyped, LogCancellation, TaskRow

LEMMA CancellerTypes ==
  ASSUME LifeTypes, NEW r \in Runs, CancellerStep(r)
  PROVE  LifeTypes'
<1>1. /\ TypeInv /\ CommandsTyped /\ task \in TaskRow /\ order \in [Runs -> OrderStatus]
      /\ orderJob \in [Runs -> JobIds] /\ job \in [Runs -> JobState]
      /\ canceller \in [Runs -> CancellerRow] /\ canceller[r].request \in JobIds
      /\ provider \in ProviderRow
  BY Found DEF LifeTypes, RowsTyped, CommandsTyped, CancellerRow
<1>2. \A pc \in {"idle", "state", "claim", "request", "mark", "uncertain"} :
         CancellerGoto(r, pc) => canceller' \in [Runs -> CancellerRow]
  BY <1>1 DEF CancellerGoto, CancellerRow
<1>3. canceller' = [canceller EXCEPT ![r] = NoCanceller] => canceller' \in [Runs -> CancellerRow]
  BY <1>1, NoCommandTypes
<1>4. CASE SaveCancelledRequest(r)
  <2>1. task' \in TaskRow
    BY <1>1, <1>4 DEF SaveCancelledRequest, TaskRow
  <2>2. TypeInv'
    BY <1>1, <1>4, <2>1, CommandStep DEF SaveCancelledRequest, logVars, jobVars
  <2>3. canceller' \in [Runs -> CancellerRow]
    BY <1>2, <1>4 DEF SaveCancelledRequest
  <2> QED BY <1>1, <1>4, <2>2, <2>3 DEF LifeTypes, CommandsTyped, SaveCancelledRequest
<1>5. CASE ClaimTaskProviderCancellation(r)
  <2>1. TypeInv'
    BY <1>1, <1>5, UnchangedTypes DEF ClaimTaskProviderCancellation
  <2>2. canceller' \in [Runs -> CancellerRow]
    BY <1>2, <1>3, <1>5 DEF ClaimTaskProviderCancellation
  <2>3. provider' \in ProviderRow
    BY <1>1, <1>5, LifecycleConstants DEF ClaimTaskProviderCancellation, ProviderRow
  <2> QED BY <1>1, <1>5, <2>1, <2>2, <2>3
       DEF LifeTypes, CommandsTyped, ClaimTaskProviderCancellation
<1>6. CASE CancelProviderTask(r)
  <2>1. orderJob' \in [Runs -> JobIds] /\ task' \in TaskRow
    BY <1>1, <1>6, LogCancellationTypes DEF CancelProviderTask
  <2>2. job' \in [Runs -> JobState]
    BY <1>1, <1>6 DEF CancelProviderTask, JobState
  <2>3. TypeInv'
    BY <1>1, <1>6, <2>1, <2>2, CommandStep DEF CancelProviderTask
  <2>4. canceller' \in [Runs -> CancellerRow]
    BY <1>2, <1>3, <1>6 DEF CancelProviderTask
  <2> QED BY <1>1, <1>6, <2>3, <2>4 DEF LifeTypes, CommandsTyped, CancelProviderTask
<1>7. CASE CancellerMarks(r)
  <2>1. TypeInv'
    BY <1>1, <1>7, UnchangedTypes DEF CancellerMarks
  <2>2. canceller' \in [Runs -> CancellerRow]
    BY <1>2, <1>3, <1>7 DEF CancellerMarks
  <2>3. provider' \in ProviderRow
    BY <1>1, <1>7 DEF CancellerMarks, ProviderRow
  <2> QED BY <1>1, <1>7, <2>1, <2>2, <2>3 DEF LifeTypes, CommandsTyped, CancellerMarks
<1>8. CASE CancellerBills(r)
  <2>1. order' \in [Runs -> OrderStatus]
    BY <1>1, <1>8, Found, BillTypes DEF CancellerBills
  <2>2. TypeInv'
    BY <1>1, <1>8, <2>1, CommandStep DEF CancellerBills, logVars, jobVars
  <2>3. canceller' \in [Runs -> CancellerRow]
    BY <1>3, <1>8 DEF CancellerBills
  <2> QED BY <1>1, <1>8, <2>2, <2>3 DEF LifeTypes, CommandsTyped, CancellerBills
<1> QED BY <1>4, <1>5, <1>6, <1>7, <1>8 DEF CancellerStep

\* The count of attempts saturates.
LEMMA AttemptsBounded ==
  ASSUME NEW n \in 0 .. MaxChecks
  PROVE  Min({n + 1, MaxChecks}) \in 0 .. MaxChecks
<1> DEFINE S == {n + 1, MaxChecks}
<1>1. MaxChecks \in Nat
  BY LifecycleConstants
<1>2. \E x \in S : \A y \in S : x =< y
  BY <1>1
<1>3. Min(S) \in S /\ \A y \in S : Min(S) =< y
  BY <1>2 DEF Min
<1> QED BY <1>1, <1>3

LEMMA ReconcilerTypes ==
  ASSUME LifeTypes, ReconcilerStep
  PROVE  LifeTypes'
<1>1. /\ TypeInv /\ CommandsTyped /\ task \in TaskRow /\ order \in [Runs -> OrderStatus]
      /\ orderJob \in [Runs -> JobIds] /\ job \in [Runs -> JobState]
      /\ reconciler \in ReconcilerRow /\ reconciler.run \in Runs /\ reconciler.request \in JobIds
      /\ provider \in ProviderRow /\ provider.attempts \in 0 .. MaxChecks
  BY Found DEF LifeTypes, RowsTyped, CommandsTyped, ReconcilerRow, ProviderRow
<1>2. \A pc \in {"idle", "query", "bill", "close", "mark", "uncertain"} :
         ReconcilerGoto(pc) => reconciler' \in ReconcilerRow
  BY <1>1 DEF ReconcilerGoto, ReconcilerRow
<1>3. NoReconciler \in ReconcilerRow
  BY NoCommandTypes
<1>4. CASE ClaimReconciliation
  <2>1. TypeInv'
    BY <1>1, <1>4, UnchangedTypes DEF ClaimReconciliation
  <2>2. reconciler' \in ReconcilerRow
    BY <1>1, <1>4 DEF ClaimReconciliation, ReconcilerRow, TaskRow, JobState
  <2>3. provider' \in ProviderRow
    <3>1. PICK n \in 0 .. MaxChecks : provider' = [provider EXCEPT !.attempts = n]
      BY <1>1, <1>4, AttemptsBounded DEF ClaimReconciliation
    <3> QED BY <1>1, <3>1 DEF ProviderRow
  <2> QED BY <1>1, <1>4, <2>1, <2>2, <2>3 DEF LifeTypes, CommandsTyped, ClaimReconciliation
<1>5. CASE QueryProviderCancellation
  <2>1. orderJob' \in [Runs -> JobIds] /\ task' \in TaskRow
    BY <1>1, <1>5, LogCancellationTypes DEF QueryProviderCancellation
  <2>2. TypeInv'
    BY <1>1, <1>5, <2>1, CommandStep DEF QueryProviderCancellation, jobVars
  <2>3. reconciler.request # NoJob => job[reconciler.request] \in JobState
    BY <1>1 DEF JobIds
  <2>4. reconciler' \in ReconcilerRow
    BY <1>1, <1>2, <1>3, <1>5, <2>3 DEF QueryProviderCancellation, ReconcilerRow
  <2> QED BY <1>1, <1>5, <2>2, <2>4 DEF LifeTypes, CommandsTyped, QueryProviderCancellation
<1>6. CASE BillCancellation
  <2>1. order' \in [Runs -> OrderStatus]
    BY <1>1, <1>6, Found, BillTypes DEF BillCancellation
  <2>2. TypeInv'
    BY <1>1, <1>6, <2>1, CommandStep DEF BillCancellation, logVars, jobVars
  <2>3. reconciler' \in ReconcilerRow
    BY <1>2, <1>3, <1>6 DEF BillCancellation
  <2> QED BY <1>1, <1>6, <2>2, <2>3 DEF LifeTypes, CommandsTyped, BillCancellation
<1>7. CASE CloseCancellation \/ ReconcilerMarks
  <2>1. UNCHANGED <<execVars, cancel, canceller, retry>>
    BY <1>7 DEF CloseCancellation, ReconcilerMarks
  <2>2. TypeInv'
    BY <1>1, <2>1, UnchangedTypes
  <2>3. reconciler' \in ReconcilerRow
    BY <1>2, <1>3, <1>7 DEF CloseCancellation, ReconcilerMarks
  <2>4. provider' \in ProviderRow
    BY <1>1, <1>7 DEF CloseCancellation, ReconcilerMarks, ProviderRow
  <2> QED BY <1>1, <2>1, <2>2, <2>3, <2>4 DEF LifeTypes, CommandsTyped
<1>8. CASE ReconcilerBills
  <2>1. order' \in [Runs -> OrderStatus]
    BY <1>1, <1>8, Found, BillTypes DEF ReconcilerBills
  <2>2. TypeInv'
    BY <1>1, <1>8, <2>1, CommandStep DEF ReconcilerBills, logVars, jobVars
  <2> QED BY <1>1, <1>3, <1>8, <2>2 DEF LifeTypes, CommandsTyped, ReconcilerBills
<1> QED BY <1>4, <1>5, <1>6, <1>7, <1>8 DEF ReconcilerStep

LEMMA RetryTypes ==
  ASSUME LifeTypes, RetryStep
  PROVE  LifeTypes'
<1>1. /\ TypeInv /\ CommandsTyped /\ task \in TaskRow /\ order \in [Runs -> OrderStatus]
      /\ orderJob \in [Runs -> JobIds] /\ job \in [Runs -> JobState]
      /\ retry \in RetryRow /\ provider \in ProviderRow /\ task.run \in Runs
  BY Found DEF LifeTypes, RowsTyped, CommandsTyped, TaskRow
<1>2. NoRetry \in RetryRow /\ NoCancellation \in ProviderRow
  BY NoCommandTypes
<1>3. CASE RetryRead \/ CheckRetryEligibility
  <2>1. UNCHANGED <<execVars, provider, cancel, canceller, reconciler>>
    BY <1>3 DEF RetryRead, CheckRetryEligibility
  <2>2. TypeInv'
    BY <1>1, <2>1, UnchangedTypes
  <2>3. retry' \in RetryRow
    BY <1>1, <1>2, <1>3 DEF RetryRead, CheckRetryEligibility, RetryRow
  <2> QED BY <1>1, <2>1, <2>2, <2>3 DEF LifeTypes, CommandsTyped
<1>4. CASE RetryTaskWithBilling
  <2>1. CASE /\ task.run < MaxRuns
             /\ task' = Released([task EXCEPT !.status = "queued", !.run = @ + 1, !.route = 1,
                                              !.request = NoJob])
             /\ order' = [order EXCEPT ![task.run + 1] = "reserved"]
             /\ provider' = NoCancellation
    <3>1. task.run + 1 \in Runs
      BY <1>1, <2>1, ExecutionConstants DEF Runs
    <3>2. task' \in TaskRow
      BY <1>1, <2>1, <3>1, ConstantTypes DEF Released, TaskRow, TaskStatus
    <3>3. order' \in [Runs -> OrderStatus]
      BY <1>1, <2>1 DEF OrderStatus, OpenOrder
    <3>4. TypeInv'
      BY <1>1, <1>4, <3>2, <3>3, CommandStep DEF RetryTaskWithBilling, logVars, jobVars
    <3> QED BY <1>1, <1>2, <1>4, <2>1, <3>4 DEF LifeTypes, CommandsTyped, RetryTaskWithBilling
  <2>2. CASE UNCHANGED <<task, order, provider>>
    <3>1. TypeInv'
      BY <1>1, <1>4, <2>2, CommandStep DEF RetryTaskWithBilling, logVars, jobVars
    <3> QED BY <1>1, <1>2, <1>4, <2>2, <3>1 DEF LifeTypes, CommandsTyped, RetryTaskWithBilling
  <2> QED BY <1>4, <2>1, <2>2 DEF RetryTaskWithBilling
<1> QED BY <1>3, <1>4 DEF RetryStep

LEMMA CancelledWorkerTypes ==
  ASSUME LifeTypes, NEW w \in Workers, CancelledFailure(w) \/ ResultOfCancelledTask(w)
  PROVE  LifeTypes'
<1>1. TypeInv /\ CommandsTyped /\ UNCHANGED lifeVars
  BY DEF LifeTypes, CancelledFailure, ResultOfCancelledTask
<1>2. TypeInv'
  <2>1. /\ UNCHANGED <<order, attempt, orderJob, callLog, job, jobs, faults>> /\ Kept
    BY DEF CancelledFailure, ResultOfCancelledTask, logVars, jobVars, Kept
  <2>2. CASE CancelledFailure(w)
    <3>1. \/ task' = task /\ Stop(w)
          \/ \E pc \in {"refund", "uncertain"} : Terminal(w, "cancelled", pc)
      BY <2>2 DEF CancelledFailure
    <3>2. /\ "cancelled" \in TaskStatus
          /\ {"refund", "uncertain"} \subseteq WorkerPc \ (Created \cup {"create"})
      BY DEF TaskStatus, TerminalStatus, WorkerPc, Created
    <3>3. task' \in TaskRow /\ Alone(w) /\ worker'[w] \in WorkerRow /\ Placed(w)'
      <4>1. CASE task' = task /\ Stop(w)
        BY <1>1, <4>1, Found, StopTypes DEF RowsTyped
      <4>2. CASE \E pc \in {"refund", "uncertain"} : Terminal(w, "cancelled", pc)
        BY <1>1, <3>2, <4>2, TerminalTypes
      <4> QED BY <3>1, <4>1, <4>2
    <3>4. RowsTyped'
      BY <1>1, <2>1, <3>3, Found DEF RowsTyped
    <3> QED BY <1>1, <2>1, <3>3, <3>4, LocalStep
  <2>3. CASE ResultOfCancelledTask(w)
    <3>1. worker[w] \in WorkerRow /\ worker \in [Workers -> WorkerRow] /\ task.run \in Runs
      BY <1>1, Found DEF RowsTyped, TaskRow
    <3>2. /\ worker' = [worker EXCEPT ![w].pc = "uncertain", ![w].run = task.run]
          /\ task' = task
      BY <2>3 DEF ResultOfCancelledTask
    <3>3. Alone(w) /\ worker'[w] \in WorkerRow /\ worker'[w].pc = "uncertain"
      BY <3>1, <3>2 DEF Alone, WorkerRow, WorkerPc
    <3>4. Placed(w)'
      BY <3>3 DEF Placed, At, Created
    <3>5. RowsTyped'
      BY <1>1, <2>1, <3>2, Found DEF RowsTyped
    <3> QED BY <1>1, <2>1, <3>3, <3>4, <3>5, LocalStep
  <2> QED BY <2>2, <2>3
<1> QED BY <1>1, <1>2 DEF LifeTypes, CommandsTyped, lifeVars

LEMMA CommandCrashTypes ==
  ASSUME LifeTypes, CommandCrash
  PROVE  LifeTypes'
<1>1. /\ TypeInv /\ CommandsTyped /\ UNCHANGED <<execVars, provider, retry>>
  BY DEF LifeTypes, CommandCrash
<1>2. TypeInv'
  BY <1>1, UnchangedTypes
<1>3. cancel' \in CancelRow
  <2>1. CASE CancelEnds
    BY <1>1, <2>1, NoCommandTypes DEF CancelEnds, CommandsTyped, CancelRow
  <2>2. CASE cancel' = cancel
    BY <1>1, <2>2 DEF CommandsTyped
  <2> QED BY <2>1, <2>2 DEF CommandCrash
<1>4. canceller' \in [Runs -> CancellerRow] /\ reconciler' \in ReconcilerRow
  BY <1>1, NoCommandTypes DEF CommandCrash, CommandsTyped
<1> QED BY <1>1, <1>2, <1>3, <1>4 DEF LifeTypes, CommandsTyped

LEMMA LifeTypesInit == LifecycleInit => LifeTypes
  BY InitTypes, NoCommandTypes DEF LifecycleInit, LifeTypes, CommandsTyped

LEMMA LifeTypesStep == LifeTypes /\ [LifecycleNext]_vars => LifeTypes'
<1> SUFFICES ASSUME LifeTypes, [LifecycleNext]_vars PROVE LifeTypes'
  OBVIOUS
<1>1. CASE ExecNext /\ UNCHANGED lifeVars
  <2>1. TypeInv'
    BY <1>1, StepTypes DEF LifeTypes
  <2> QED BY <1>1, <2>1 DEF LifeTypes, CommandsTyped, lifeVars
<1>2. CASE UNCHANGED vars
  <2>1. TypeInv'
    BY <1>2, UnchangedTypes DEF LifeTypes, vars
  <2> QED BY <1>2, <2>1 DEF LifeTypes, CommandsTyped, vars, lifeVars
<1> QED BY <1>1, <1>2, CancelTypes, CancellerTypes, ReconcilerTypes, RetryTypes,
           CancelledWorkerTypes, CommandCrashTypes DEF LifecycleNext

\* Row, orders and executions keep their types beside any number of
\* cancellations, retries and reconciliations, and so do the commands: no run
\* is left that is not one, no check of the upstream beyond the last.
THEOREM LifecycleTyped == LifecycleSpec => []LifecycleTypeOK
<1>1. LifeTypes => LifecycleTypeOK
  BY DEF LifeTypes, CommandsTyped, TypeInv, LifecycleTypeOK, ProviderRow, CancelRow,
         CancellerRow, ReconcilerRow, RetryRow
<1> QED BY <1>1, LifeTypesInit, LifeTypesStep, PTL DEF LifecycleSpec

(***************************************************************************)
(* The bills of many runs.  Workers, cancel commands and reconciliations   *)
(* may be stale by any number of runs; what they are to close belongs to a *)
(* run that has ended, of which the row says how if it is the last one.    *)
(***************************************************************************)
Over(r, status) == r < task.run \/ (r = task.run /\ task.status \in status)

Paid(r)      == Over(r, {"succeeded"})
Unpaid(r)    == Over(r, {"failed", "cancelled"})
Abandoned(r) == Over(r, {"cancelled"})

\* An execution closes the bill of its run, and the row is its own only while
\* the run is.
WorkerBills(w) ==
  /\ worker[w].run <= task.run
  /\ At(w, "settle") => Paid(worker[w].run)
  /\ worker[w].pc \in Billing \ {"settle"} => Unpaid(worker[w].run)
  /\ task.owner = w /\ Working(w) => worker[w].run = task.run

CommandsBill ==
  /\ cancel.run <= task.run
  /\ cancel.pc \in {"signal", "bill"} => Unpaid(cancel.run)
  /\ reconciler.pc # "idle" => Abandoned(reconciler.run)

\* The bill fits what the row says of its run.  A cancelled run may be charged:
\* the job had succeeded when the cancellation reached the upstream.
BillFits ==
  \/ order[task.run] \in OpenOrder
  \/ order[task.run] = "settled" /\ task.status \in {"succeeded", "cancelled"}
  \/ order[task.run] = "refunded" /\ task.status \in {"failed", "cancelled"}

LedgerInv == LifeTypes /\ (\A w \in Workers : WorkerBills(w)) /\ CommandsBill /\ BillFits

\* A step within a run: it is taken, and an end is final.
Onward ==
  /\ task'.run = task.run
  /\ \/ task'.status = task.status
     \/ task.status = "queued" /\ task'.status \in {"running", "cancelled"}
     \/ task.status = "running" /\ task'.status \in TerminalStatus

\* At most one order is written, and it is closed by who may.
BillStep ==
  \/ order' = order
  \/ \E r \in Runs :
       \/ /\ order[r] \in {"reserved", "running"}
          /\ order' \in {[order EXCEPT ![r] = "running"], [order EXCEPT ![r] = "uncertain"]}
       \/ /\ order[r] \in OpenOrder /\ (Paid(r) \/ Abandoned(r))
          /\ order' = [order EXCEPT ![r] = "settled"]
       \/ /\ order[r] \in OpenOrder /\ Unpaid(r)
          /\ order' = [order EXCEPT ![r] = "refunded"]

LEMMA RowNumbers ==
  ASSUME TypeInv
  PROVE  /\ task \in TaskRow /\ task.run \in Runs /\ task.status \in TaskStatus
         /\ Runs \subseteq Nat /\ \A r \in Runs : 1 <= r
         /\ worker \in [Workers -> WorkerRow] /\ \A w \in Workers : worker[w].run \in Runs
         /\ order \in [Runs -> OrderStatus]
  BY Found, ConstantTypes, ExecutionConstants DEF RowsTyped, TaskRow, WorkerRow, Runs

LEMMA OverStays ==
  ASSUME Onward, NEW r
  PROVE  /\ Paid(r) => Paid(r)'
         /\ Unpaid(r) => Unpaid(r)'
         /\ Abandoned(r) => Abandoned(r)'
  BY DEF Onward, Paid, Unpaid, Abandoned, Over, TerminalStatus

\* What that is for each order.
LEMMA BillStepOfEach ==
  ASSUME TypeInv, BillStep, NEW r \in Runs
  PROVE  \/ order'[r] = order[r]
         \/ order[r] \in OpenOrder /\ order'[r] \in OpenOrder
         \/ order[r] \in OpenOrder /\ order'[r] = "settled" /\ (Paid(r) \/ Abandoned(r))
         \/ order[r] \in OpenOrder /\ order'[r] = "refunded" /\ Unpaid(r)
<1>1. order \in [Runs -> OrderStatus]
  BY RowNumbers
<1>2. CASE order' = order
  BY <1>2
<1>3. ASSUME NEW q \in Runs, NEW s, order' = [order EXCEPT ![q] = s]
      PROVE  order'[r] = IF r = q THEN s ELSE order[r]
  BY <1>1, <1>3
<1>4. ASSUME NEW q \in Runs, order[q] \in {"reserved", "running"},
             NEW s \in {"running", "uncertain"}, order' = [order EXCEPT ![q] = s]
      PROVE  order'[r] = order[r] \/ (order[r] \in OpenOrder /\ order'[r] \in OpenOrder)
  BY <1>3, <1>4 DEF OpenOrder
<1>5. ASSUME NEW q \in Runs, order[q] \in OpenOrder, Paid(q) \/ Abandoned(q),
             order' = [order EXCEPT ![q] = "settled"]
      PROVE  \/ order'[r] = order[r]
             \/ order[r] \in OpenOrder /\ order'[r] = "settled" /\ (Paid(r) \/ Abandoned(r))
  BY <1>3, <1>5
<1>6. ASSUME NEW q \in Runs, order[q] \in OpenOrder, Unpaid(q),
             order' = [order EXCEPT ![q] = "refunded"]
      PROVE  \/ order'[r] = order[r]
             \/ order[r] \in OpenOrder /\ order'[r] = "refunded" /\ Unpaid(r)
  BY <1>3, <1>6
<1> QED BY <1>2, <1>4, <1>5, <1>6 DEF BillStep

LEMMA BillStepFits ==
  ASSUME TypeInv, BillFits, Onward, BillStep
  PROVE  BillFits'
<1>1. task.run \in Runs /\ task.run \in Nat /\ Runs \subseteq Nat
  BY RowNumbers
<1> DEFINE r == task.run
<1>2. ~(r < r)
  BY <1>1
<1>3. CASE order'[r] = order[r]
  <2>1. task.status \in Active => order[r] \in OpenOrder
    BY DEF BillFits, Active
  <2> QED BY <1>3, <2>1 DEF BillFits, Onward, Active
<1>4. CASE order[r] \in OpenOrder /\ order'[r] \in OpenOrder
  BY <1>4 DEF BillFits, Onward
<1>5. CASE order'[r] = "settled" /\ (Paid(r) \/ Abandoned(r))
  <2>1. task.status \in {"succeeded", "cancelled"}
    BY <1>2, <1>5 DEF Paid, Abandoned, Over
  <2> QED BY <1>5, <2>1 DEF BillFits, Onward
<1>6. CASE order'[r] = "refunded" /\ Unpaid(r)
  <2>1. task.status \in {"failed", "cancelled"}
    BY <1>2, <1>6 DEF Unpaid, Over
  <2> QED BY <1>6, <2>1 DEF BillFits, Onward
<1> QED BY <1>1, <1>3, <1>4, <1>5, <1>6, BillStepOfEach

\* What the billing calls may do to the orders.
LEMMA UncertainMarks ==
  ASSUME TypeInv, NEW r \in Runs
  PROVE  /\ order' = order => BillStep
         /\ order' = Uncertain(r) => BillStep
         /\ order[r] \in {"reserved", "running"} /\ order' = [order EXCEPT ![r] = "running"] =>
              BillStep
  BY RowNumbers DEF Uncertain, BillStep, OpenOrder

LEMMA RefundCloses ==
  ASSUME TypeInv, NEW r \in Runs, Unpaid(r), order' = Refunded(r)
  PROVE  BillStep
  BY RowNumbers DEF Refunded, BillStep, OpenOrder

LEMMA SettleCloses ==
  ASSUME TypeInv, NEW r \in Runs, Paid(r) \/ Abandoned(r), order' = Settled(r)
  PROVE  BillStep
  BY RowNumbers DEF Settled, BillStep, OpenOrder

(***************************************************************************)
(* The steps of an execution, of whatever run.                             *)
(***************************************************************************)
SameOwner == task'.owner \in {task.owner, NoOwner}

\* It goes on, with no bill to close that it had not before, or stops.
GoesAlong(w) ==
  /\ task'.status = task.status /\ task'.run = task.run /\ SameOwner
  /\ \/ worker'[w] = IdleWorker
     \/ /\ Working(w) /\ worker'[w].run = worker[w].run
        /\ worker'[w].pc \notin Billing \/ worker'[w].pc = worker[w].pc
  /\ BillStep

\* It ends the row.
EndsRow(w) ==
  /\ Fenced(w) /\ Working(w) /\ worker'[w].run = worker[w].run
  /\ task'.run = task.run /\ SameOwner /\ order' = order
  /\ \/ task'.status \in {"failed", "cancelled"} /\ worker'[w].pc \in Billing \ {"settle"}
     \/ task'.status = "succeeded" /\ worker'[w].pc = "settle"

\* It closes the bill of its run.
ClosesBill(w) ==
  /\ task' = task /\ worker'[w] = IdleWorker
  /\ \/ At(w, "settle") /\ order' = Settled(worker[w].run)
     \/ /\ worker[w].pc \in Billing \ {"settle"}
        /\ order' \in {Refunded(worker[w].run), Uncertain(worker[w].run)}

\* It takes the row.
TakesRow(w) ==
  /\ task.status \in Active /\ task'.run = task.run /\ task'.status = "running"
  /\ task'.owner = w /\ order' = order
  /\ worker'[w].pc = "start" /\ worker'[w].run = task.run

RowStep(w) == Alone(w) /\ (GoesAlong(w) \/ EndsRow(w) \/ ClosesBill(w) \/ TakesRow(w))

LEMMA IdleRow ==
  /\ IdleWorker.pc = "idle" /\ IdleWorker.run = 1 /\ "idle" \notin Billing
  BY DEF IdleWorker, Billing

\* Where the row is not written.
LEMMA RowKept ==
  ASSUME task' = task
  PROVE  task'.status = task.status /\ task'.run = task.run /\ SameOwner
  BY DEF SameOwner

LEMMA MoveGoes ==
  ASSUME TypeInv, NEW w \in Workers, NEW pc \in WorkerPc \ Billing,
         Goto(w, pc) \/ \E outcome \in Outcome : Ends(w, outcome, pc)
  PROVE  Alone(w) /\ worker'[w].run = worker[w].run /\ worker'[w].pc = pc
<1>1. CASE Goto(w, pc)
  BY <1>1, GotoTypes
<1>2. CASE \E outcome \in Outcome : Ends(w, outcome, pc)
  <2>1. PICK outcome \in Outcome : Ends(w, outcome, pc)
    BY <1>2
  <2> QED BY <2>1, EndsTypes
<1> QED BY <1>1, <1>2

LEMMA StopGoes ==
  ASSUME TypeInv, NEW w \in Workers, Stop(w)
  PROVE  Alone(w) /\ worker'[w] = IdleWorker
  BY StopTypes

LEMMA TerminalGoes ==
  ASSUME TypeInv, NEW w \in Workers, Working(w), NEW status \in {"failed", "cancelled"},
         NEW pc \in Billing \ {"settle"}, Terminal(w, status, pc), order' = order
  PROVE  RowStep(w)
<1>1. task \in TaskRow /\ worker[w].run \in Runs
  BY RowNumbers
<1>2. CASE Fenced(w) /\ task' = Released([task EXCEPT !.status = status]) /\ Goto(w, pc)
  <2>1. task'.status = status /\ task'.run = task.run /\ task'.owner = NoOwner
    BY <1>1, <1>2 DEF Released, TaskRow
  <2>2. pc \in WorkerPc
    BY DEF Billing, WorkerPc
  <2>3. Alone(w) /\ worker'[w].run = worker[w].run /\ worker'[w].pc = pc
    BY <1>2, <2>2, GotoTypes
  <2> QED BY <1>2, <2>1, <2>3 DEF RowStep, EndsRow, SameOwner
<1>3. CASE task' = task /\ Stop(w)
  <2>1. Alone(w) /\ worker'[w] = IdleWorker
    BY <1>3, StopGoes
  <2>2. BillStep
    BY <1>1, UncertainMarks
  <2> QED BY <1>3, <2>1, <2>2, RowKept DEF RowStep, GoesAlong
<1> QED BY <1>2, <1>3 DEF Terminal

LEMMA PrepareRow ==
  ASSUME TypeInv, NEW w \in Workers, PrepareStep(w)
  PROVE  RowStep(w)
<1>1. /\ worker[w] \in WorkerRow /\ worker \in [Workers -> WorkerRow] /\ task \in TaskRow
      /\ worker[w].run \in Runs
  BY RowNumbers
<1>2. /\ {"route", "switch", "failure", "dispatch", "mark_running"} \subseteq WorkerPc \ Billing
      /\ {"uncertain", "refund"} \subseteq Billing \ {"settle"}
      /\ {"create", "adopt", "mark_running", "idle"} \cap Billing = {}
  BY DEF WorkerPc, Billing
<1>3. Working(w)
  BY DEF PrepareStep, Start, FirstAttempt, RouteUnavailable, AdoptAttempt, UnsentAttempt,
         ResumedAttempt, UnknownAttempt, RejectedAttempt, SwitchTaskLogicalRoute, NoNextRoute,
         CreateRouteAttempt, AttemptNotCreated, MarkBillingRunning, BillingNotReady, RouteFails,
         Working, At
<1>4. order' = order => BillStep
  BY <1>1, UncertainMarks
<1>5. CASE Start(w) \/ RejectedAttempt(w) \/ RouteUnavailable(w) \/ AdoptAttempt(w)
  <2>1. /\ Goto(w, "route") \/ Goto(w, "switch") \/ Goto(w, "mark_running") \/ Stop(w)
        /\ task' = task /\ order' = order
    BY <1>5 DEF Start, RejectedAttempt, RouteUnavailable, AdoptAttempt
  <2>2. CASE \E pc \in {"route", "switch", "mark_running"} : Goto(w, pc)
    <3>1. PICK pc \in {"route", "switch", "mark_running"} : Goto(w, pc)
      BY <2>2
    <3>2. pc \in WorkerPc \ Billing
      BY <1>2
    <3>3. Alone(w) /\ worker'[w].run = worker[w].run /\ worker'[w].pc = pc
      BY <3>1, <3>2, MoveGoes
    <3> QED BY <1>3, <1>4, <2>1, <3>2, <3>3, RowKept DEF RowStep, GoesAlong
  <2>3. CASE Stop(w)
    BY <1>4, <2>1, <2>3, StopGoes, RowKept DEF RowStep, GoesAlong
  <2> QED BY <2>1, <2>2, <2>3
<1>11. CASE ResumedAttempt(w)
  <2>1. /\ order' = order
        /\ \E id : task' = task \/ task' = [task EXCEPT !.request = id]
        /\ \E pc \in {"adopt", "mark_running"} : \E n, request, target :
             worker' = [worker EXCEPT ![w].pc = pc, ![w].attempt = n, ![w].dispatch = "accepted",
                                      ![w].request = request, ![w].target = target]
    BY <1>11 DEF ResumedAttempt
  <2>2. PICK pc \in {"adopt", "mark_running"} : \E n, request, target :
             worker' = [worker EXCEPT ![w].pc = pc, ![w].attempt = n, ![w].dispatch = "accepted",
                                      ![w].request = request, ![w].target = target]
    BY <2>1
  <2>3. Alone(w) /\ worker'[w].pc = pc /\ worker'[w].run = worker[w].run
    <3>1. PICK n, request, target :
             worker' = [worker EXCEPT ![w].pc = pc, ![w].attempt = n, ![w].dispatch = "accepted",
                                      ![w].request = request, ![w].target = target]
      BY <2>2
    <3>2. worker' = [worker EXCEPT ![w] = worker'[w]]
      BY <1>1, <3>1
    <3>3. worker'[w].pc = pc /\ worker'[w].run = worker[w].run
      BY <1>1, <3>1 DEF WorkerRow
    <3> QED BY <3>2, <3>3 DEF Alone
  <2>4. task'.status = task.status /\ task'.run = task.run /\ SameOwner
    BY <1>1, <2>1 DEF SameOwner, TaskRow
  <2>5. pc \notin Billing
    BY <1>2, <2>2
  <2> QED BY <1>3, <1>4, <2>1, <2>3, <2>4, <2>5 DEF RowStep, GoesAlong
<1>6. CASE \/ FirstAttempt(w) \/ UnsentAttempt(w) \/ CreateRouteAttempt(w)
  <2>1. /\ order' = order
        /\ task' = task
        /\ \E n, state, request, pc :
             pc \in {"create", "mark_running", "dispatch"} /\ Take(w, n, state, request, pc)
    <3>1. CASE FirstAttempt(w)
      BY <3>1 DEF FirstAttempt
    <3>2. CASE UnsentAttempt(w)
      BY <3>2 DEF UnsentAttempt
    <3>3. CASE CreateRouteAttempt(w)
      BY <3>3 DEF CreateRouteAttempt
    <3> QED BY <1>6, <3>1, <3>2, <3>3
  <2>2. PICK n, state, request, pc :
             pc \in {"create", "mark_running", "dispatch"} /\ Take(w, n, state, request, pc)
    BY <2>1
  <2>3. Alone(w) /\ worker'[w].pc = pc /\ worker'[w].run = worker[w].run
    BY <1>1, <2>2 DEF Take, Alone, WorkerRow
  <2>4. task'.status = task.status /\ task'.run = task.run /\ SameOwner
    BY <1>1, <2>1 DEF SameOwner, TaskRow
  <2>5. pc \notin Billing
    BY <1>2, <2>2
  <2> QED BY <1>3, <1>4, <2>1, <2>3, <2>4, <2>5 DEF RowStep, GoesAlong
<1>7. CASE UnknownAttempt(w) \/ RouteFails(w) \/ BillingNotReady(w)
  <2>1. order' = order /\ \E pc \in {"uncertain", "refund"} : Terminal(w, "failed", pc)
    BY <1>7 DEF UnknownAttempt, RouteFails, BillingNotReady
  <2> QED BY <1>2, <1>3, <2>1, TerminalGoes
<1>8. CASE NoNextRoute(w) \/ AttemptNotCreated(w)
  <2>1. /\ Terminal(w, "failed", "refund") \/ (task' = task /\ Goto(w, "failure"))
        /\ order' = order
    BY <1>8 DEF NoNextRoute, AttemptNotCreated
  <2>2. CASE Terminal(w, "failed", "refund")
    BY <1>2, <1>3, <2>1, <2>2, TerminalGoes
  <2>3. CASE task' = task /\ Goto(w, "failure")
    <3>1. Alone(w) /\ worker'[w].run = worker[w].run /\ worker'[w].pc = "failure"
      BY <1>2, <2>3, MoveGoes
    <3> QED BY <1>2, <1>3, <1>4, <2>1, <2>3, <3>1, RowKept DEF RowStep, GoesAlong
  <2> QED BY <2>1, <2>2, <2>3
<1>9. CASE SwitchTaskLogicalRoute(w)
  <2>1. PICK next, n : /\ task' = [task EXCEPT !.route = next]
                       /\ worker' = [worker EXCEPT ![w].pc = "create", ![w].route = next,
                                                   ![w].attempt = n, ![w].request = NoJob]
    BY <1>9 DEF SwitchTaskLogicalRoute
  <2>2. Alone(w) /\ worker'[w].pc = "create" /\ worker'[w].run = worker[w].run
    BY <1>1, <2>1 DEF Alone, WorkerRow
  <2>3. task'.status = task.status /\ task'.run = task.run /\ SameOwner
    BY <1>1, <2>1 DEF SameOwner, TaskRow
  <2>4. order' = order
    BY <1>9 DEF SwitchTaskLogicalRoute
  <2> QED BY <1>2, <1>3, <1>4, <2>2, <2>3, <2>4 DEF RowStep, GoesAlong
<1>10. CASE MarkBillingRunning(w)
  <2>1. /\ task' = task /\ Goto(w, "dispatch") /\ order[worker[w].run] \in {"reserved", "running"}
        /\ order' = [order EXCEPT ![worker[w].run] = "running"]
    BY <1>10 DEF MarkBillingRunning
  <2>2. BillStep
    BY <1>1, <2>1, UncertainMarks
  <2>3. Alone(w) /\ worker'[w].run = worker[w].run /\ worker'[w].pc = "dispatch"
    BY <1>2, <2>1, MoveGoes
  <2> QED BY <1>2, <1>3, <2>1, <2>2, <2>3, RowKept DEF RowStep, GoesAlong
<1> QED BY <1>5, <1>6, <1>7, <1>8, <1>9, <1>10, <1>11 DEF PrepareStep

LEMMA CallRow ==
  ASSUME TypeInv, NEW w \in Workers, CallStep(w)
  PROVE  RowStep(w)
<1>1. /\ worker[w] \in WorkerRow /\ worker \in [Workers -> WorkerRow] /\ task \in TaskRow
      /\ worker[w].run \in Runs
  BY RowNumbers
<1>2. /\ {"call", "log_task", "log_call", "poll", "refresh"} \subseteq WorkerPc \ Billing
      /\ {"log_order", "finish", "failure", "result", "switch"} \cap Billing = {}
      /\ {"failed", "unclear", "rejected", "success", "slot_full", "slot_timeout"} \cup Cancelled
           \subseteq Outcome
  BY DEF WorkerPc, Billing, Outcome, Cancelled, SlotOutcome
<1>3. Working(w)
  BY DEF CallStep, MarkRouteAttemptDispatching, DispatchMarkFails, Resume, Submit, CreatesJob,
         SubmitUnanswered, SubmitRefused, CallCancelled, LogOrder, LogTask, LogCall, LogFails,
         PollPending, PollDone, PollTimesOut, PollFails, PollLogFails, Refresh,
         FinishTaskRouteAttempt, FinishFails, Working, At
<1>4. order' = order \/ order' = Uncertain(worker[w].run)
  BY DEF CallStep, MarkRouteAttemptDispatching, DispatchMarkFails, Resume, Submit,
         SubmitUnanswered, SubmitRefused, CallCancelled, LogOrder, LogTask, LogCall, LogFails,
         PollPending, PollDone, PollTimesOut, PollFails, PollLogFails, Refresh,
         FinishTaskRouteAttempt, FinishFails
<1>5. BillStep
  BY <1>1, <1>4, UncertainMarks
<1>6. task' = task \/ task' = [task EXCEPT !.request = worker[w].target]
  BY DEF CallStep, MarkRouteAttemptDispatching, DispatchMarkFails, Resume, Submit,
         SubmitUnanswered, SubmitRefused, CallCancelled, LogOrder, LogTask, LogCall, LogFails,
         PollPending, PollDone, PollTimesOut, PollFails, PollLogFails, Refresh,
         FinishTaskRouteAttempt, FinishFails, LogPoll
<1>7. task'.status = task.status /\ task'.run = task.run /\ SameOwner
  BY <1>1, <1>6 DEF SameOwner, TaskRow
<1>8. ASSUME Alone(w), worker'[w].run = worker[w].run, worker'[w].pc \notin Billing
      PROVE  RowStep(w)
  BY <1>3, <1>5, <1>7, <1>8 DEF RowStep, GoesAlong
<1>9. CASE MarkRouteAttemptDispatching(w) \/ DispatchMarkFails(w)
  <2>1. \/ worker' = [worker EXCEPT ![w].pc = "call", ![w].dispatch = "submission_unknown"]
        \/ Goto(w, "call")
        \/ worker' = [worker EXCEPT ![w].pc = "failure", ![w].outcome = "failed",
                                    ![w].dispatch = "submission_unknown"]
    BY <1>9 DEF MarkRouteAttemptDispatching, DispatchMarkFails
  <2>2. Alone(w) /\ worker'[w].run = worker[w].run /\ worker'[w].pc \in {"call", "failure"}
    BY <1>1, <2>1 DEF Goto, Alone, WorkerRow
  <2> QED BY <1>2, <1>8, <2>2
<1>10. CASE Resume(w) \/ Submit(w)
  <2>1. \E pc \in {"poll", "log_order"} : \E target :
           worker' = [worker EXCEPT ![w].pc = pc, ![w].target = target]
    BY <1>10 DEF Resume, Submit
  <2>2. Alone(w) /\ worker'[w].run = worker[w].run /\ worker'[w].pc \in {"poll", "log_order"}
    BY <1>1, <2>1 DEF Alone, WorkerRow
  <2> QED BY <1>2, <1>8, <2>2
<1>11. CASE \/ SubmitUnanswered(w) \/ SubmitRefused(w) \/ CallCancelled(w)
            \/ PollDone(w) \/ PollTimesOut(w) \/ PollFails(w)
  <2>1. \E outcome \in Outcome : Ends(w, outcome, "refresh")
    BY <1>2, <1>11
       DEF SubmitUnanswered, SubmitRefused, CallCancelled, PollDone, PollTimesOut, PollFails
  <2>2. "refresh" \in WorkerPc \ Billing
    BY <1>2
  <2>3. Alone(w) /\ worker'[w].run = worker[w].run /\ worker'[w].pc = "refresh"
    BY <2>1, <2>2, MoveGoes
  <2> QED BY <1>8, <2>2, <2>3
<1>12. CASE LogOrder(w) \/ LogTask(w) \/ LogCall(w) \/ LogFails(w)
  <2>1. PICK pc \in {"log_task", "log_call", "poll"} : Goto(w, pc)
    BY <1>12 DEF LogOrder, LogTask, LogCall, LogFails
  <2>2. pc \in WorkerPc \ Billing
    BY <1>2
  <2>3. Alone(w) /\ worker'[w].run = worker[w].run /\ worker'[w].pc = pc
    BY <2>1, <2>2, MoveGoes
  <2> QED BY <1>8, <2>2, <2>3
<1>13. CASE PollPending(w) \/ PollLogFails(w)
  <2>1. worker' = worker /\ worker[w].pc = "poll"
    BY <1>13 DEF PollPending, PollLogFails, At
  <2>2. Alone(w)
    BY <1>1, <2>1 DEF Alone
  <2> QED BY <1>2, <1>8, <2>1, <2>2
<1>14. CASE Refresh(w)
  <2>1. PICK request : worker' = [worker EXCEPT ![w].pc = "finish", ![w].request = request]
    BY <1>14 DEF Refresh
  <2>2. Alone(w) /\ worker'[w].run = worker[w].run /\ worker'[w].pc = "finish"
    BY <1>1, <2>1 DEF Alone, WorkerRow
  <2> QED BY <1>2, <1>8, <2>2
<1>15. CASE FinishTaskRouteAttempt(w) \/ FinishFails(w)
  <2> DEFINE state == FinishedState(w)  pc == AfterCall(w)
  <2>1. worker' = [worker EXCEPT ![w].pc = pc, ![w].dispatch = state]
    BY <1>15 DEF FinishTaskRouteAttempt, FinishFails
  <2>2. pc \in {"failure", "result", "switch"}
    BY DEF AfterCall
  <2> HIDE DEF pc, state
  <2>3. Alone(w) /\ worker'[w].run = worker[w].run /\ worker'[w].pc = pc
    BY <1>1, <2>1 DEF Alone, WorkerRow
  <2> QED BY <1>2, <1>8, <2>2, <2>3
<1> QED BY <1>9, <1>10, <1>11, <1>12, <1>13, <1>14, <1>15 DEF CallStep

LEMMA FinishRow ==
  ASSUME TypeInv, NEW w \in Workers, FinishStep(w)
  PROVE  RowStep(w)
<1>1. /\ worker[w] \in WorkerRow /\ worker \in [Workers -> WorkerRow] /\ task \in TaskRow
      /\ worker[w].run \in Runs
  BY RowNumbers
<1>2. /\ {"save", "failure"} \subseteq WorkerPc \ Billing
      /\ {"uncertain", "refund", "review"} \subseteq Billing \ {"settle"}
      /\ "settle" \in WorkerPc
  BY DEF WorkerPc, Billing
<1>3. Working(w)
  BY DEF FinishStep, StopWithoutLease, DeferRunningTaskForProviderPoll, SettleFails,
         ExecutionFailure, PersistResult, SaveTaskCompletion, SaveFails, SettleBilling,
         RefundBilling, BillingUnclear, ReviewBilling, CloseBill, Working, At
<1>4. order' = order => BillStep
  BY <1>1, UncertainMarks
<1>5. CASE StopWithoutLease(w) \/ DeferRunningTaskForProviderPoll(w)
  <2>1. Stop(w) /\ order' = order /\ (task' = task \/ task' = Released(task))
    BY <1>5 DEF StopWithoutLease, DeferRunningTaskForProviderPoll
  <2>2. task'.status = task.status /\ task'.run = task.run /\ SameOwner
    BY <1>1, <2>1 DEF Released, TaskRow, SameOwner
  <2> QED BY <1>4, <2>1, <2>2, StopGoes DEF RowStep, GoesAlong
<1>6. CASE ExecutionFailure(w) \/ SaveFails(w)
  <2>1. order' = order /\ \E pc \in {"refund", "uncertain", "review"} : Terminal(w, "failed", pc)
    BY <1>6 DEF ExecutionFailure, SaveFails
  <2> QED BY <1>2, <1>3, <2>1, TerminalGoes
<1>7. CASE PersistResult(w)
  <2>1. PICK pc \in {"save", "failure"} : Goto(w, pc)
    BY <1>7 DEF PersistResult
  <2>2. pc \in WorkerPc \ Billing
    BY <1>2
  <2>3. Alone(w) /\ worker'[w].run = worker[w].run /\ worker'[w].pc = pc
    BY <2>1, <2>2, MoveGoes
  <2>4. task' = task /\ order' = order
    BY <1>7 DEF PersistResult
  <2> QED BY <1>3, <1>4, <2>2, <2>3, <2>4, RowKept DEF RowStep, GoesAlong
<1>8. CASE SaveTaskCompletion(w)
  <2>1. order' = order
    BY <1>8 DEF SaveTaskCompletion
  <2>2. CASE /\ Fenced(w) /\ Goto(w, "settle")
             /\ task' = [task EXCEPT !.status = "succeeded", !.request = worker[w].request]
    <3>1. Alone(w) /\ worker'[w].run = worker[w].run /\ worker'[w].pc = "settle"
      BY <1>2, <2>2, GotoTypes
    <3>2. task'.status = "succeeded" /\ task'.run = task.run /\ SameOwner
      BY <1>1, <2>2 DEF TaskRow, SameOwner
    <3> QED BY <1>3, <2>1, <2>2, <3>1, <3>2 DEF RowStep, EndsRow
  <2>3. CASE task' = task /\ Stop(w)
    BY <1>4, <2>1, <2>3, StopGoes, RowKept DEF RowStep, GoesAlong
  <2> QED BY <1>8, <2>2, <2>3 DEF SaveTaskCompletion
<1>9. CASE SettleBilling(w) \/ RefundBilling(w) \/ BillingUnclear(w) \/ ReviewBilling(w)
  <2>1. /\ Stop(w) /\ task' = task
        /\ \/ At(w, "settle") /\ order' = Settled(worker[w].run)
           \/ worker[w].pc \in {"refund", "uncertain", "review"}
              /\ order' \in {Refunded(worker[w].run), Uncertain(worker[w].run)}
    BY <1>9 DEF SettleBilling, RefundBilling, BillingUnclear, ReviewBilling, CloseBill, At
  <2> QED BY <1>2, <2>1, StopGoes DEF RowStep, ClosesBill
<1>10. CASE SettleFails(w)
  <2>1. Stop(w) /\ task' = task /\ (order' = order \/ order' = Uncertain(worker[w].run))
    BY <1>10 DEF SettleFails
  <2>2. BillStep
    BY <1>1, <2>1, UncertainMarks
  <2> QED BY <2>1, <2>2, StopGoes, RowKept DEF RowStep, GoesAlong
<1> QED BY <1>5, <1>6, <1>7, <1>8, <1>9, <1>10 DEF FinishStep

LEMMA ClaimRow ==
  ASSUME TypeInv, NEW w \in Workers, Claim(w) \/ NotStarted(w) \/ Crash(w) \/ LoseLease(w)
  PROVE  RowStep(w)
<1>1. /\ worker[w] \in WorkerRow /\ worker \in [Workers -> WorkerRow] /\ task \in TaskRow
      /\ worker[w].run \in Runs
  BY RowNumbers
<1>2. order' = order
  BY DEF Claim, NotStarted, Crash, LoseLease
<1>3. BillStep
  BY <1>1, <1>2, UncertainMarks
<1>4. CASE Claim(w)
  <2> DEFINE row == [IdleWorker EXCEPT !.pc = "start", !.run = task.run,
                       !.request = task.request, !.route = task.route]
  <2>1. /\ worker' = [worker EXCEPT ![w] = row] /\ task.status \in Active
        /\ task' = [task EXCEPT !.status = "running", !.owner = w, !.lease = TRUE]
    BY <1>4 DEF Claim, Active
  <2>2. row.pc = "start" /\ row.run = task.run
    BY DEF IdleWorker
  <2>3. Alone(w) /\ worker'[w] = row
    BY <1>1, <2>1 DEF Alone
  <2> HIDE DEF row
  <2>4. task'.status = "running" /\ task'.run = task.run /\ task'.owner = w
    BY <1>1, <2>1 DEF TaskRow
  <2> QED BY <1>2, <2>1, <2>2, <2>3, <2>4 DEF RowStep, TakesRow
<1>5. CASE NotStarted(w) \/ Crash(w)
  <2>1. Stop(w) /\ (task' = task \/ task' = Released(task))
    BY <1>5 DEF NotStarted, Crash
  <2>2. task'.status = task.status /\ task'.run = task.run /\ SameOwner
    BY <1>1, <2>1 DEF Released, TaskRow, SameOwner
  <2> QED BY <1>3, <2>1, <2>2, StopGoes DEF RowStep, GoesAlong
<1>6. CASE LoseLease(w)
  <2>1. /\ worker' = [worker EXCEPT ![w].ctx = "lease_lost"] /\ task' = task /\ Working(w)
    BY <1>6 DEF LoseLease
  <2>2. Alone(w) /\ worker'[w].run = worker[w].run /\ worker'[w].pc = worker[w].pc
    BY <1>1, <2>1 DEF Alone, WorkerRow
  <2> QED BY <1>3, <2>1, <2>2, RowKept DEF RowStep, GoesAlong
<1> QED BY <1>4, <1>5, <1>6

LEMMA CancelledRow ==
  ASSUME TypeInv, NEW w \in Workers, CancelledFailure(w)
  PROVE  RowStep(w)
<1>1. worker[w].run \in Runs /\ order' = order /\ Working(w)
  BY RowNumbers DEF CancelledFailure, Working, At
<1>2. BillStep
  BY <1>1, UncertainMarks
<1>3. CASE task' = task /\ Stop(w)
  BY <1>2, <1>3, StopGoes, RowKept DEF RowStep, GoesAlong
<1>4. CASE \E pc \in {"refund", "uncertain"} : Terminal(w, "cancelled", pc)
  <2>1. {"refund", "uncertain"} \subseteq Billing \ {"settle"}
    BY DEF Billing
  <2> QED BY <1>1, <1>4, <2>1, TerminalGoes
<1> QED BY <1>3, <1>4 DEF CancelledFailure

(***************************************************************************)
(* Every step keeps the ledger right.                                      *)
(***************************************************************************)
\* A step writes the row or an order; only a retry queues the row and reserves
\* the order of the next run in one.
Retries ==
  /\ task.status \in {"failed", "cancelled"} /\ task.run < MaxRuns
  /\ task'.run = task.run + 1 /\ task'.status = "queued"
  /\ order' = [order EXCEPT ![task.run + 1] = "reserved"]

OneWrite == order' = order \/ task'.status = task.status

Billed == Retries \/ (Onward /\ BillStep /\ OneWrite)

LEMMA OtherWorker ==
  ASSUME TypeInv, Onward, NEW v \in Workers, WorkerBills(v), worker'[v] = worker[v],
         task'.owner = v => task.owner = v
  PROVE  WorkerBills(v)'
<1>1. worker[v].run <= task'.run
  BY DEF Onward, WorkerBills
<1>2. /\ Paid(worker[v].run) => Paid(worker[v].run)'
      /\ Unpaid(worker[v].run) => Unpaid(worker[v].run)'
  BY OverStays DEF Paid, Unpaid, Over
<1> QED BY <1>1, <1>2 DEF Onward, WorkerBills, At, Working, Paid, Unpaid, Over

LEMMA CommandsKept ==
  ASSUME CommandsBill, Onward, UNCHANGED <<cancel, reconciler>>
  PROVE  CommandsBill'
  BY OverStays DEF CommandsBill, Onward, Paid, Unpaid, Abandoned, Over, TerminalStatus

\* The executions, when none of them takes a step.
LEMMA WorkersKept ==
  ASSUME TypeInv, Onward, SameOwner, worker' = worker, \A w \in Workers : WorkerBills(w)
  PROVE  \A w \in Workers : WorkerBills(w)'
  BY OtherWorker, ExecutionConstants DEF SameOwner

LEMMA RowStepLedger ==
  ASSUME LedgerInv, LifeTypes', NEW w \in Workers, RowStep(w), UNCHANGED lifeVars
  PROVE  LedgerInv' /\ Billed
<1>1. /\ TypeInv /\ worker \in [Workers -> WorkerRow] /\ worker[w].run \in Runs
      /\ task.run \in Nat /\ \A r \in Runs : r \in Nat /\ 1 <= r
      /\ WorkerBills(w) /\ CommandsBill /\ BillFits /\ NoOwner \notin Workers
      /\ task.run \in Runs
  BY RowNumbers, ExecutionConstants DEF LedgerInv, LifeTypes
<1>2. \A v \in Workers : v # w => worker'[v] = worker[v] /\ WorkerBills(v)
  BY <1>1 DEF RowStep, Alone, LedgerInv
<1>3. ASSUME Onward, BillStep, OneWrite, task'.owner \in {task.owner, NoOwner, w},
             WorkerBills(w)'
      PROVE  LedgerInv' /\ Billed
  <2>1. BillFits' /\ Billed
    BY <1>1, <1>3, BillStepFits DEF Billed
  <2>2. \A v \in Workers : WorkerBills(v)'
    <3>1. ASSUME NEW v \in Workers, v # w PROVE WorkerBills(v)'
      <4>1. task'.owner = v => task.owner = v
        BY <1>1, <1>3, <3>1
      <4> QED BY <1>1, <1>2, <1>3, <3>1, <4>1, OtherWorker
    <3> QED BY <1>3, <3>1
  <2>3. CommandsBill'
    BY <1>1, <1>3, CommandsKept DEF lifeVars
  <2> QED BY <2>1, <2>2, <2>3 DEF LedgerInv
<1>4. ASSUME task'.run = task.run, worker'[w] = IdleWorker PROVE WorkerBills(w)'
  <2>1. worker'[w].pc = "idle" /\ worker'[w].run <= task'.run
    BY <1>1, <1>4, IdleRow
  <2> QED BY <2>1 DEF WorkerBills, At, Working, Billing
<1>5. CASE GoesAlong(w)
  <2>1. Onward /\ BillStep /\ task'.owner \in {task.owner, NoOwner, w}
    BY <1>5 DEF GoesAlong, Onward, SameOwner
  <2>2. WorkerBills(w)'
    <3>1. CASE worker'[w] = IdleWorker
      BY <1>4, <1>5, <3>1 DEF GoesAlong
    <3>2. CASE /\ Working(w) /\ worker'[w].run = worker[w].run
               /\ worker'[w].pc \notin Billing \/ worker'[w].pc = worker[w].pc
      <4>0. PICK run \in Runs : run = worker[w].run
        BY <1>1
      <4>1. run <= task'.run /\ task'.run = task.run
        BY <1>1, <1>5, <4>0 DEF GoesAlong, WorkerBills
      <4>2. task'.owner = w => task.owner = w
        BY <1>1, <1>5 DEF GoesAlong, SameOwner
      <4>3. task'.owner = w => run = task'.run
        BY <1>1, <3>2, <4>0, <4>1, <4>2 DEF WorkerBills
      <4>4. (Paid(run) => Paid(run)') /\ (Unpaid(run) => Unpaid(run)')
        BY <2>1, OverStays
      <4>5. worker'[w].run = run
        BY <3>2, <4>0
      <4>6. worker'[w].pc = "settle" => Paid(run)'
        BY <1>1, <3>2, <4>0, <4>4 DEF WorkerBills, At, Billing
      <4>7. worker'[w].pc \in Billing \ {"settle"} => Unpaid(run)'
        BY <1>1, <3>2, <4>0, <4>4 DEF WorkerBills
      <4> QED BY <4>1, <4>3, <4>5, <4>6, <4>7 DEF WorkerBills, At, Paid, Unpaid, Over
    <3> QED BY <1>5, <3>1, <3>2 DEF GoesAlong
  <2>3. OneWrite
    BY <1>5 DEF GoesAlong, OneWrite
  <2> QED BY <1>3, <2>1, <2>2, <2>3
<1>6. CASE EndsRow(w)
  <2>1. /\ task.status = "running" /\ task'.run = task.run /\ task.owner = w /\ order' = order
        /\ task'.owner \in {task.owner, NoOwner} /\ worker'[w].run = worker[w].run /\ Working(w)
    BY <1>6 DEF EndsRow, Fenced, SameOwner
  <2>2. Onward /\ BillStep
    BY <1>1, <1>6, <2>1, UncertainMarks DEF EndsRow, Onward, TerminalStatus
  <2>3. worker[w].run = task.run
    BY <1>1, <2>1 DEF WorkerBills
  <2>4. WorkerBills(w)'
    <3>1. worker'[w].run = task'.run /\ worker'[w].run <= task'.run
      BY <1>1, <2>1, <2>3
    <3>2. CASE task'.status \in {"failed", "cancelled"} /\ worker'[w].pc \in Billing \ {"settle"}
      BY <3>1, <3>2 DEF WorkerBills, At, Unpaid, Over
    <3>3. CASE task'.status = "succeeded" /\ worker'[w].pc = "settle"
      BY <3>1, <3>3 DEF WorkerBills, At, Paid, Over
    <3> QED BY <1>6, <3>2, <3>3 DEF EndsRow
  <2> QED BY <1>3, <2>1, <2>2, <2>4 DEF OneWrite
<1>7. CASE ClosesBill(w)
  <2>1. task' = task /\ worker'[w] = IdleWorker
    BY <1>7 DEF ClosesBill
  <2>2. BillStep
    <3>1. CASE At(w, "settle") /\ order' = Settled(worker[w].run)
      BY <1>1, <3>1, SettleCloses DEF WorkerBills
    <3>2. CASE /\ worker[w].pc \in Billing \ {"settle"}
               /\ order' \in {Refunded(worker[w].run), Uncertain(worker[w].run)}
      <4>1. Unpaid(worker[w].run)
        BY <1>1, <3>2 DEF WorkerBills
      <4> QED BY <1>1, <3>2, <4>1, RefundCloses, UncertainMarks
    <3> QED BY <1>7, <3>1, <3>2 DEF ClosesBill
  <2>3. Onward /\ task'.owner \in {task.owner, NoOwner, w}
    BY <2>1 DEF Onward
  <2> QED BY <1>3, <1>4, <2>1, <2>2, <2>3 DEF OneWrite
<1>8. CASE TakesRow(w)
  <2>1. /\ task.status \in Active /\ task'.run = task.run /\ task'.owner = w /\ order' = order
        /\ worker'[w].pc = "start" /\ worker'[w].run = task.run
    BY <1>8 DEF TakesRow
  <2>2. Onward /\ BillStep
    BY <1>1, <1>8, <2>1, UncertainMarks DEF TakesRow, Onward, Active
  <2>3. WorkerBills(w)'
    <3>1. worker'[w].run = task'.run /\ worker'[w].run <= task'.run
      BY <1>1, <2>1
    <3>2. "start" \notin Billing
      BY DEF Billing
    <3> QED BY <2>1, <3>1, <3>2 DEF WorkerBills, At, Billing
  <2> QED BY <1>3, <2>1, <2>2, <2>3 DEF OneWrite
<1> QED BY <1>5, <1>6, <1>7, <1>8 DEF RowStep

\* The result of a task that has been cancelled goes to review, for the run the
\* row says now.
LEMMA CancelledResultLedger ==
  ASSUME LedgerInv, LifeTypes', NEW w \in Workers, ResultOfCancelledTask(w)
  PROVE  LedgerInv' /\ Billed
<1>1. /\ TypeInv /\ worker \in [Workers -> WorkerRow] /\ worker[w] \in WorkerRow
      /\ task.run \in Nat /\ task.run \in Runs /\ CommandsBill /\ BillFits
      /\ \A v \in Workers : WorkerBills(v)
  BY RowNumbers DEF LedgerInv, LifeTypes
<1>2. /\ task' = task /\ order' = order /\ task.status = "cancelled"
      /\ worker' = [worker EXCEPT ![w].pc = "uncertain", ![w].run = task.run]
      /\ UNCHANGED lifeVars
  BY DEF ResultOfCancelledTask
<1>3. Onward /\ BillStep
  BY <1>1, <1>2, UncertainMarks DEF Onward
<1>4. WorkerBills(w)'
  <2>1. worker'[w].pc = "uncertain" /\ worker'[w].run = task.run
    BY <1>1, <1>2 DEF WorkerRow
  <2> QED BY <1>1, <1>2, <2>1 DEF WorkerBills, At, Unpaid, Over, Billing
<1>5. ASSUME NEW v \in Workers, v # w PROVE WorkerBills(v)'
  <2>1. worker'[v] = worker[v]
    BY <1>1, <1>2, <1>5
  <2> QED BY <1>1, <1>2, <1>3, <2>1, OtherWorker
<1>6. BillFits' /\ Billed /\ CommandsBill'
  BY <1>1, <1>2, <1>3, BillStepFits, CommandsKept DEF Billed, OneWrite, lifeVars
<1> QED BY <1>4, <1>5, <1>6 DEF LedgerInv

\* The steps that leave the row and its executions, and what they may do.
LEMMA CommandLedger ==
  ASSUME LedgerInv, LifeTypes', Onward, SameOwner, worker' = worker, BillStep, OneWrite,
         CommandsBill'
  PROVE  LedgerInv' /\ Billed
<1>1. TypeInv /\ BillFits /\ \A w \in Workers : WorkerBills(w)
  BY DEF LedgerInv, LifeTypes
<1> QED BY <1>1, BillStepFits, WorkersKept DEF LedgerInv, Billed

\* A claim of a lease that ends and an upstream job that ends touch no bill.
LEMMA OutsideLedger ==
  ASSUME LedgerInv, LifeTypes', UNCHANGED lifeVars,
         ExpireLease \/ (\E r \in Runs : JobEnds(r)) \/ UNCHANGED execVars
  PROVE  LedgerInv' /\ Billed
<1>1. TypeInv /\ task \in TaskRow /\ CommandsBill /\ task.run \in Runs
  BY RowNumbers DEF LedgerInv, LifeTypes
<1>2. /\ worker' = worker /\ order' = order
      /\ task' = task \/ task' = [task EXCEPT !.lease = FALSE]
  BY DEF ExpireLease, JobEnds, execVars
<1>3. Onward /\ SameOwner
  BY <1>1, <1>2 DEF TaskRow, Onward, SameOwner
<1>4. BillStep
  BY <1>1, <1>2, UncertainMarks
<1>5. CommandsBill'
  BY <1>1, <1>3, CommandsKept DEF lifeVars
<1> QED BY <1>2, <1>3, <1>4, <1>5, CommandLedger DEF OneWrite

(***************************************************************************)
(* The commands.                                                           *)
(***************************************************************************)
\* What a command needs of its successor, its record as it becomes.
LEMMA CommandsGoOn ==
  ASSUME CommandsBill, Onward,
         \/ cancel' = cancel
         \/ cancel'.run <= task.run /\ (cancel'.pc \in {"signal", "bill"} => Unpaid(cancel.run)'),
         \/ reconciler' = reconciler
         \/ reconciler'.pc # "idle" => Abandoned(reconciler.run)'
  PROVE  CommandsBill'
<1>1. /\ cancel'.run <= task'.run
      /\ cancel'.pc \in {"signal", "bill"} => Unpaid(cancel.run)'
  <2>1. CASE cancel' = cancel
    <3>1. PICK run : run = cancel.run
      OBVIOUS
    <3>2. Unpaid(run) => Unpaid(run)'
      BY OverStays
    <3> QED BY <2>1, <3>1, <3>2 DEF CommandsBill, Onward, Unpaid, Over
  <2> QED BY <2>1 DEF Onward
<1>2. reconciler'.pc # "idle" => Abandoned(reconciler.run)'
  <2>1. CASE reconciler' = reconciler
    <3>1. PICK run : run = reconciler.run
      OBVIOUS
    <3>2. Abandoned(run) => Abandoned(run)'
      BY OverStays
    <3> QED BY <2>1, <3>1, <3>2 DEF CommandsBill, Abandoned, Over
  <2> QED BY <2>1
<1> QED BY <1>1, <1>2 DEF CommandsBill, Unpaid, Abandoned, Over

LEMMA CommandFacts ==
  ASSUME LedgerInv
  PROVE  /\ TypeInv /\ CommandsBill /\ BillFits /\ task \in TaskRow /\ task.run \in Runs
         /\ task.run \in Nat /\ 1 <= task.run
         /\ cancel \in CancelRow /\ cancel.run \in Runs /\ cancel.status \in Active
         /\ reconciler \in ReconcilerRow /\ reconciler.run \in Runs /\ NoCancel.run = 1
         /\ NoCancel.pc = "idle" /\ NoReconciler.pc = "idle"
<1>1. TypeInv /\ CommandsBill /\ BillFits /\ cancel \in CancelRow /\ reconciler \in ReconcilerRow
  BY DEF LedgerInv, LifeTypes, CommandsTyped
<1> QED BY <1>1, RowNumbers DEF CancelRow, ReconcilerRow, NoCancel, NoReconciler, Active

\* The row is cancelled before its bill is touched.
LEMMA CancelLedger ==
  ASSUME LedgerInv, LifeTypes', CancelRead \/ CancelStep
  PROVE  LedgerInv' /\ Billed
<1>1. /\ TypeInv /\ CommandsBill /\ BillFits /\ task \in TaskRow /\ task.run \in Runs
      /\ task.run \in Nat /\ 1 <= task.run
      /\ cancel \in CancelRow /\ cancel.run \in Runs /\ cancel.status \in Active
      /\ NoCancel.run = 1 /\ NoCancel.pc = "idle"
  BY CommandFacts
<1>2. CancelEnds => cancel'.run = 1 /\ cancel'.pc = "idle"
  BY DEF CancelEnds, NoCancel
<1>3. order' = order => BillStep
  BY <1>1, UncertainMarks
<1>4. task' = task => Onward /\ SameOwner
  BY DEF Onward, SameOwner
<1>5. CASE CancelRead \/ CancelHydrate
  <2>1. /\ task' = task /\ order' = order /\ worker' = worker /\ reconciler' = reconciler
    BY <1>5 DEF CancelRead, CancelHydrate, execVars
  <2>2. cancel'.run <= task.run /\ cancel'.pc \notin {"signal", "bill"}
    <3>1. CASE CancelRead
      BY <1>1, <3>1 DEF CancelRead
    <3>2. CASE CancelHydrate
      BY <1>1, <3>2 DEF CancelHydrate, CancelRow, CommandsBill
    <3> QED BY <1>5, <3>1, <3>2
  <2>3. CommandsBill'
    BY <1>1, <1>4, <2>1, <2>2, CommandsGoOn
  <2> QED BY <1>3, <1>4, <2>1, <2>3, CommandLedger DEF OneWrite
<1>6. CASE CancelTaskIfStatus
  <2>1. order' = order /\ worker' = worker /\ reconciler' = reconciler
    BY <1>6 DEF CancelTaskIfStatus
  <2>2. CASE /\ task.status = cancel.status
             /\ task' = Released([task EXCEPT !.status = "cancelled"]) /\ CancelGoto("signal")
    <3>1. task'.status = "cancelled" /\ task'.run = task.run /\ task'.owner = NoOwner
      BY <1>1, <2>2 DEF Released, TaskRow
    <3>2. Onward /\ SameOwner
      BY <1>1, <2>2, <3>1 DEF Onward, SameOwner, Active, TerminalStatus
    <3>3. cancel'.run = cancel.run
      BY <1>1, <2>2 DEF CancelGoto, CancelRow
    <3>4. cancel'.run <= task.run /\ Unpaid(cancel.run)'
      <4>1. cancel.run <= task.run /\ cancel.run \in Nat
        BY <1>1, RowNumbers DEF CommandsBill
      <4> QED BY <1>1, <3>1, <3>3, <4>1 DEF Unpaid, Over
    <3>5. CommandsBill'
      BY <1>1, <2>1, <3>2, <3>4, CommandsGoOn
    <3> QED BY <1>3, <2>1, <3>2, <3>5, CommandLedger DEF OneWrite
  <2>3. CASE task' = task /\ CancelEnds
    <3>1. CommandsBill'
      BY <1>1, <1>2, <1>4, <2>1, <2>3, CommandsGoOn
    <3> QED BY <1>3, <1>4, <2>1, <2>3, <3>1, CommandLedger DEF OneWrite
  <2> QED BY <1>6, <2>2, <2>3 DEF CancelTaskIfStatus
<1>7. CASE CancelActiveTask
  <2>1. task' = task /\ order' = order /\ reconciler' = reconciler /\ cancel.pc = "signal"
    BY <1>7 DEF CancelActiveTask
  <2>2. cancel'.run = cancel.run
    BY <1>1, <1>7 DEF CancelActiveTask, CancelGoto, CancelRow
  <2>3. CommandsBill'
    BY <1>1, <1>4, <2>1, <2>2, CommandsGoOn DEF CommandsBill, Unpaid, Over
  <2>4. ASSUME NEW v \in Workers PROVE WorkerBills(v)'
    <3>1. WorkerBills(v) /\ worker \in [Workers -> WorkerRow]
      BY <1>1, RowNumbers DEF LedgerInv
    <3>2. worker'[v].run = worker[v].run /\ worker'[v].pc = worker[v].pc
      BY <1>7, <3>1 DEF CancelActiveTask, WorkerRow
    <3> QED BY <2>1, <3>1, <3>2 DEF WorkerBills, At, Working, Paid, Unpaid, Over
  <2>5. BillFits' /\ Billed
    BY <1>1, <1>3, <1>4, <2>1, BillStepFits DEF Billed, OneWrite
  <2> QED BY <2>3, <2>4, <2>5 DEF LedgerInv
<1>8. CASE CancelBill
  <2>1. /\ task' = task /\ worker' = worker /\ reconciler' = reconciler /\ CancelEnds
        /\ cancel.pc = "bill"
        /\ order' \in {order, Refunded(cancel.run), Uncertain(cancel.run)}
    BY <1>8 DEF CancelBill
  <2>2. Unpaid(cancel.run)
    BY <1>1, <2>1 DEF CommandsBill
  <2>3. BillStep
    BY <1>1, <1>3, <2>1, <2>2, RefundCloses, UncertainMarks
  <2>4. CommandsBill'
    BY <1>1, <1>2, <1>4, <2>1, CommandsGoOn
  <2> QED BY <1>4, <2>1, <2>3, <2>4, CommandLedger DEF OneWrite
<1> QED BY <1>5, <1>6, <1>7, <1>8 DEF CancelStep

\* What is logged of a request keeps the end of the run and its owner.
LEMMA LogCancellationGoes ==
  ASSUME task \in TaskRow, NEW run, NEW id, LogCancellation(run, id)
  PROVE  Onward /\ SameOwner
  BY DEF LogCancellation, Onward, SameOwner, TaskRow

LEMMA CancellerLedger ==
  ASSUME LedgerInv, LifeTypes', NEW r \in Runs, CancellerStep(r)
  PROVE  LedgerInv' /\ Billed
<1>1. TypeInv /\ CommandsBill /\ task \in TaskRow
  BY CommandFacts
<1>2. worker' = worker /\ cancel' = cancel /\ reconciler' = reconciler
  BY DEF CancellerStep, SaveCancelledRequest, ClaimTaskProviderCancellation,
         CancelProviderTask, CancellerMarks, CancellerBills, execVars
<1>3. BillStep
  <2>1. order' = order \/ order' = Uncertain(r)
    BY DEF CancellerStep, SaveCancelledRequest, ClaimTaskProviderCancellation,
           CancelProviderTask, CancellerMarks, CancellerBills, execVars
  <2> QED BY <1>1, <2>1, UncertainMarks
<1>4. Onward /\ SameOwner
  <2>1. CASE SaveCancelledRequest(r)
    BY <1>1, <2>1 DEF SaveCancelledRequest, Onward, SameOwner, TaskRow
  <2>2. CASE CancelProviderTask(r)
    BY <1>1, <2>2, LogCancellationGoes DEF CancelProviderTask
  <2>3. CASE ClaimTaskProviderCancellation(r) \/ CancellerMarks(r) \/ CancellerBills(r)
    <3>1. task' = task
      BY <2>3 DEF ClaimTaskProviderCancellation, CancellerMarks, CancellerBills, execVars
    <3> QED BY <3>1 DEF Onward, SameOwner
  <2> QED BY <2>1, <2>2, <2>3 DEF CancellerStep
<1>5. CommandsBill'
  BY <1>1, <1>2, <1>4, CommandsGoOn
<1>6. OneWrite
  BY DEF CancellerStep, SaveCancelledRequest, ClaimTaskProviderCancellation,
         CancelProviderTask, CancellerMarks, CancellerBills, execVars, OneWrite
<1> QED BY <1>2, <1>3, <1>4, <1>5, <1>6, CommandLedger

\* The reconciliation works on a cancelled run; by the time it bills, the task
\* may have gone on to the next.
LEMMA ReconcilerLedger ==
  ASSUME LedgerInv, LifeTypes', ReconcilerStep
  PROVE  LedgerInv' /\ Billed
<1>1. /\ TypeInv /\ CommandsBill /\ task \in TaskRow /\ reconciler \in ReconcilerRow
      /\ reconciler.run \in Runs /\ NoReconciler.pc = "idle" /\ task.run \in Nat
  BY CommandFacts
<1>2. worker' = worker /\ cancel' = cancel
  BY DEF ReconcilerStep, ClaimReconciliation, QueryProviderCancellation, BillCancellation,
         CloseCancellation, ReconcilerMarks, ReconcilerBills, execVars
<1>3. Onward /\ SameOwner
  <2>1. CASE QueryProviderCancellation
    BY <1>1, <2>1, LogCancellationGoes DEF QueryProviderCancellation
  <2>2. CASE ~QueryProviderCancellation
    <3>1. task' = task
      BY <2>2 DEF ReconcilerStep, ClaimReconciliation, BillCancellation,
                  CloseCancellation, ReconcilerMarks, ReconcilerBills, execVars
    <3> QED BY <3>1 DEF Onward, SameOwner
  <2> QED BY <2>1, <2>2
<1>4. BillStep
  <2>1. CASE BillCancellation
    <3>1. Abandoned(reconciler.run)
      BY <1>1, <2>1 DEF CommandsBill, BillCancellation
    <3>2. Unpaid(reconciler.run)
      BY <3>1 DEF Abandoned, Unpaid, Over
    <3>3. order' \in {order, Refunded(reconciler.run), Settled(reconciler.run)}
      BY <2>1 DEF BillCancellation
    <3> QED BY <1>1, <3>1, <3>2, <3>3, RefundCloses, SettleCloses, UncertainMarks
  <2>2. CASE ~BillCancellation
    <3>1. order' = order \/ order' = Uncertain(reconciler.run)
      BY <2>2 DEF ReconcilerStep, ClaimReconciliation, QueryProviderCancellation,
                  CloseCancellation, ReconcilerMarks, ReconcilerBills, execVars
    <3> QED BY <1>1, <3>1, UncertainMarks
  <2> QED BY <2>1, <2>2
<1>5. reconciler'.pc # "idle" => Abandoned(reconciler.run)'
  <2>1. CASE ClaimReconciliation
    <3>1. /\ reconciler'.run = task.run /\ task' = task /\ task.status = "cancelled"
      BY <2>1 DEF ClaimReconciliation, Requested, execVars
    <3> QED BY <3>1 DEF Abandoned, Over
  <2>2. CASE ~ClaimReconciliation
    <3>1. \/ reconciler' = NoReconciler
          \/ reconciler'.run = reconciler.run /\ reconciler.pc # "idle"
      BY <1>1, <2>2 DEF ReconcilerStep, QueryProviderCancellation, BillCancellation,
                  CloseCancellation, ReconcilerMarks, ReconcilerBills, ReconcilerGoto,
                  ReconcilerRow
    <3>2. PICK run : run = reconciler.run
      OBVIOUS
    <3>3. Abandoned(run) => Abandoned(run)'
      BY <1>3, OverStays
    <3> QED BY <1>1, <3>1, <3>2, <3>3 DEF CommandsBill, Abandoned, Over
  <2> QED BY <2>1, <2>2
<1>6. CommandsBill'
  BY <1>1, <1>2, <1>3, <1>5, CommandsGoOn
<1>7. OneWrite
  BY DEF ReconcilerStep, ClaimReconciliation, QueryProviderCancellation, BillCancellation,
         CloseCancellation, ReconcilerMarks, ReconcilerBills, execVars, OneWrite
<1> QED BY <1>2, <1>3, <1>4, <1>6, <1>7, CommandLedger

\* A retry leaves the run behind: what is still to be billed is of an older run.
LEMMA RetryLedger ==
  ASSUME LedgerInv, LifeTypes', RetryStep
  PROVE  LedgerInv' /\ Billed
<1>1. /\ TypeInv /\ CommandsBill /\ BillFits /\ task \in TaskRow /\ task.run \in Nat
      /\ task.run \in Runs /\ cancel.run \in Nat /\ reconciler.run \in Nat
      /\ order \in [Runs -> OrderStatus]
  BY CommandFacts, RowNumbers
<1>2. worker' = worker /\ cancel' = cancel /\ reconciler' = reconciler
  BY DEF RetryStep, RetryRead, CheckRetryEligibility, RetryTaskWithBilling, execVars
<1>3. CASE task' = task /\ order' = order
  <2>1. Onward /\ SameOwner /\ BillStep
    BY <1>1, <1>3, UncertainMarks DEF Onward, SameOwner
  <2>2. CommandsBill'
    BY <1>1, <1>2, <2>1, CommandsGoOn
  <2> QED BY <1>2, <1>3, <2>1, <2>2, CommandLedger DEF OneWrite
<1>4. CASE /\ task.run < MaxRuns
           /\ task.status \in {"failed", "cancelled"}
           /\ task' = Released([task EXCEPT !.status = "queued", !.run = @ + 1, !.route = 1,
                                            !.request = NoJob])
           /\ order' = [order EXCEPT ![task.run + 1] = "reserved"]
  <2>1. task'.run = task.run + 1 /\ task'.status = "queued" /\ task'.owner = NoOwner
    BY <1>1, <1>4 DEF Released, TaskRow
  <2>2. task.run + 1 \in Runs
    BY <1>1, <1>4, ExecutionConstants DEF Runs
  <2>3. ASSUME NEW r \in Nat, r <= task.run
        PROVE  r <= task'.run /\ Paid(r)' /\ Unpaid(r)' /\ Abandoned(r)'
    <3>1. r < task'.run /\ r <= task'.run
      BY <1>1, <2>1, <2>3
    <3> QED BY <3>1 DEF Paid, Unpaid, Abandoned, Over
  <2>4. ASSUME NEW w \in Workers PROVE WorkerBills(w)'
    <3>1. WorkerBills(w) /\ worker[w].run \in Runs /\ Runs \subseteq Nat
      BY <1>1, RowNumbers DEF LedgerInv
    <3>2. PICK run \in Nat : run = worker[w].run
      BY <3>1
    <3>3. run <= task'.run /\ Paid(run)' /\ Unpaid(run)'
      BY <2>3, <3>1, <3>2 DEF WorkerBills
    <3>4. task'.owner # w
      BY <2>1, ExecutionConstants
    <3> QED BY <1>2, <3>2, <3>3, <3>4 DEF WorkerBills, Paid, Unpaid, Over
  <2>5. CommandsBill'
    <3>1. PICK run \in Nat : run = cancel.run
      BY <1>1
    <3>2. run <= task'.run /\ Unpaid(run)'
      BY <1>1, <2>3, <3>1 DEF CommandsBill
    <3>3. reconciler.pc # "idle" => Abandoned(reconciler.run)'
      <4>1. PICK past \in Nat : past = reconciler.run
        BY <1>1
      <4>2. reconciler.pc # "idle" => past <= task.run
        BY <1>1, <4>1 DEF CommandsBill, Abandoned, Over
      <4>3. reconciler.pc # "idle" => Abandoned(past)'
        BY <2>3, <4>2
      <4> QED BY <1>2, <4>1, <4>3 DEF Abandoned, Over
    <3> QED BY <1>2, <3>1, <3>2, <3>3 DEF CommandsBill, Unpaid, Abandoned, Over
  <2>6. BillFits' /\ Billed
    BY <1>1, <1>4, <2>1, <2>2 DEF BillFits, Billed, Retries, OpenOrder
  <2> QED BY <2>4, <2>5, <2>6 DEF LedgerInv
<1> QED BY <1>3, <1>4 DEF RetryStep, RetryRead, CheckRetryEligibility, RetryTaskWithBilling,
           execVars

LEMMA CommandCrashLedger ==
  ASSUME LedgerInv, LifeTypes', CommandCrash
  PROVE  LedgerInv' /\ Billed
<1>1. /\ TypeInv /\ CommandsBill /\ task.run \in Runs /\ task.run \in Nat /\ 1 <= task.run
      /\ NoReconciler.pc = "idle"
  BY CommandFacts
<1>2. task' = task /\ order' = order /\ worker' = worker
  BY DEF CommandCrash, execVars
<1>3. Onward /\ SameOwner /\ BillStep
  BY <1>1, <1>2, UncertainMarks DEF Onward, SameOwner
<1>4. cancel' = cancel \/ (cancel'.run = 1 /\ cancel'.pc = "idle")
  BY DEF CommandCrash, CancelEnds, NoCancel
<1>5. reconciler' = reconciler \/ reconciler' = NoReconciler
  BY DEF CommandCrash
<1>6. CommandsBill'
  BY <1>1, <1>3, <1>4, <1>5, CommandsGoOn
<1> QED BY <1>2, <1>3, <1>6, CommandLedger DEF OneWrite

LEMMA LedgerInit == LifecycleInit => LedgerInv
<1> SUFFICES ASSUME LifecycleInit PROVE LedgerInv
  OBVIOUS
<1>1. LifeTypes
  BY LifeTypesInit
<1>2. /\ 1 \in Runs /\ task.run = 1 /\ task.status = "queued" /\ order[1] = "reserved"
      /\ worker = [w \in Workers |-> IdleWorker] /\ cancel = NoCancel
      /\ reconciler = NoReconciler
  BY ConstantTypes DEF LifecycleInit, ExecInit
<1>3. \A w \in Workers : WorkerBills(w)
  <2>1. \A w \in Workers : worker[w] = IdleWorker
    BY <1>2
  <2> QED BY <1>2, <2>1, IdleRow DEF WorkerBills, At, Working
<1>4. CommandsBill
  BY <1>2 DEF CommandsBill, NoCancel, NoReconciler
<1>5. BillFits
  BY <1>2 DEF BillFits, OpenOrder
<1> QED BY <1>1, <1>3, <1>4, <1>5 DEF LedgerInv

LEMMA LedgerStep ==
  LedgerInv /\ [LifecycleNext]_vars => LedgerInv' /\ Billed
<1> SUFFICES ASSUME LedgerInv, [LifecycleNext]_vars PROVE LedgerInv' /\ Billed
  OBVIOUS
<1>1. LifeTypes /\ LifeTypes' /\ TypeInv
  BY LifeTypesStep DEF LedgerInv, LifeTypes
<1>2. ASSUME NEW w \in Workers, PrepareStep(w) \/ CallStep(w) \/ FinishStep(w) \/ Claim(w)
                                \/ NotStarted(w) \/ Crash(w) \/ LoseLease(w)
                                \/ CancelledFailure(w)
      PROVE  RowStep(w)
  BY <1>1, <1>2, PrepareRow, CallRow, FinishRow, ClaimRow, CancelledRow
<1>3. CASE ExecNext /\ UNCHANGED lifeVars
  <2>1. CASE ExpireLease \/ \E r \in Runs : JobEnds(r)
    BY <1>1, <1>3, <2>1, OutsideLedger
  <2>2. ASSUME NEW w \in Workers,
               Claim(w) \/ NotStarted(w) \/ WorkerStep(w) \/ Crash(w) \/ LoseLease(w)
        PROVE  LedgerInv' /\ Billed
    <3>1. RowStep(w)
      BY <1>2, <2>2 DEF WorkerStep
    <3> QED BY <1>1, <1>3, <3>1, RowStepLedger
  <2> QED BY <1>3, <2>1, <2>2 DEF ExecNext
<1>4. ASSUME NEW w \in Workers, CancelledFailure(w) PROVE LedgerInv' /\ Billed
  <2>1. RowStep(w) /\ UNCHANGED lifeVars
    BY <1>2, <1>4 DEF CancelledFailure
  <2> QED BY <1>1, <2>1, RowStepLedger
<1>5. CASE UNCHANGED vars
  <2>1. UNCHANGED lifeVars /\ UNCHANGED execVars
    BY <1>5 DEF vars
  <2> QED BY <1>1, <2>1, OutsideLedger
<1> QED BY <1>1, <1>3, <1>4, <1>5, CancelledResultLedger, CancelLedger, CancellerLedger,
           ReconcilerLedger, RetryLedger, CommandCrashLedger DEF LifecycleNext

LEMMA LedgerKept == LifecycleSpec => []LedgerInv
  BY LedgerInit, LedgerStep, PTL DEF LifecycleSpec

\* No order is closed before its run is over, whatever is cancelled, retried and
\* reconciled meanwhile: a retried task may be working while the bill of the run
\* before it is closed, its own stays open (task_worker.go, task_lifecycle.go).
THEOREM BillsCloseAfterRuns == LifecycleSpec => BillClosesAfterTask
<1> DEFINE Closes == \A r \in Runs :
       order[r] \in OpenOrder /\ order'[r] \notin OpenOrder =>
         task.run > r \/ task.status \in TerminalStatus
<1>1. LedgerInv /\ [LifecycleNext]_vars => Closes
  <2> SUFFICES ASSUME LedgerInv, [LifecycleNext]_vars,
                      NEW r \in Runs, order[r] \in OpenOrder, order'[r] \notin OpenOrder
               PROVE  task.run > r \/ task.status \in TerminalStatus
    OBVIOUS
  <2>1. /\ TypeInv /\ Billed /\ task.run \in Nat /\ Runs \subseteq Nat
        /\ order \in [Runs -> OrderStatus]
    BY LedgerStep, RowNumbers DEF LedgerInv, LifeTypes
  <2>2. ~Retries
    BY <2>1 DEF Retries, OpenOrder
  <2>3. Paid(r) \/ Abandoned(r) \/ Unpaid(r)
    BY <2>1, <2>2, BillStepOfEach DEF Billed
  <2> QED BY <2>1, <2>3 DEF Paid, Abandoned, Unpaid, Over, TerminalStatus
<1>2. Closes => [Closes]_execVars
  OBVIOUS
<1> QED BY <1>1, <1>2, LedgerInit, LedgerStep, PTL DEF LifecycleSpec, BillClosesAfterTask

\* A step of the implementation writes one bill, takes or ends the row, or retries.
LEMMA BilledRefines ==
  ASSUME LedgerInv, Billed
  PROVE  [RunBills!Next]_(RunBills!vars)
<1>1. TypeInv /\ task.run \in Runs /\ task.status \in TaskStatus
  BY RowNumbers DEF LedgerInv, LifeTypes
<1>2. CASE Retries
  BY <1>2 DEF Retries, RunBills!Next, RunBills!Retry
<1>3. ASSUME task'.run = task.run, order' = order,
             \/ task.status = "queued" /\ task'.status \in {"running", "cancelled"}
             \/ task.status = "running" /\ task'.status \in TerminalStatus
      PROVE  RunBills!Take \/ RunBills!End
  BY <1>3 DEF RunBills!Take, RunBills!End, RunBills!Row, RunBills!Ended, TerminalStatus
<1>4. ASSUME task'.run = task.run, task'.status = task.status, NEW r \in Runs,
             order[r] \in {"reserved", "running"},
             order' \in {[order EXCEPT ![r] = "running"], [order EXCEPT ![r] = "uncertain"]}
      PROVE  RunBills!MarkRunning(r) \/ RunBills!MarkUncertain(r) \/ order' = order
  <2>1. order \in [Runs -> OrderStatus]
    BY <1>1, RowNumbers
  <2>2. order[r] = "running" /\ order' = [order EXCEPT ![r] = "running"] => order' = order
    BY <2>1
  <2> QED BY <1>4, <2>2 DEF RunBills!MarkRunning, RunBills!MarkUncertain, RunBills!Bill
<1>5. ASSUME task'.run = task.run, task'.status = task.status, NEW r \in Runs,
             order[r] \in OpenOrder, Paid(r) \/ Abandoned(r),
             order' = [order EXCEPT ![r] = "settled"]
      PROVE  RunBills!Settle(r)
  BY <1>5 DEF RunBills!Settle, RunBills!Bill, RunBills!EndedIn, RunBills!Open, OpenOrder,
              Paid, Abandoned, Over
<1>6. ASSUME task'.run = task.run, task'.status = task.status, NEW r \in Runs,
             order[r] \in OpenOrder, Unpaid(r), order' = [order EXCEPT ![r] = "refunded"]
      PROVE  RunBills!Refund(r)
  BY <1>6 DEF RunBills!Refund, RunBills!Bill, RunBills!EndedIn, RunBills!Open, OpenOrder,
              Unpaid, Over
<1>7. CASE Onward /\ BillStep /\ OneWrite
  <2>1. CASE task'.status = task.status
    <3>1. task'.run = task.run
      BY <1>7 DEF Onward
    <3>2. \/ order' = order
          \/ \E r \in Runs : \/ RunBills!MarkRunning(r) \/ RunBills!MarkUncertain(r)
                             \/ RunBills!Settle(r) \/ RunBills!Refund(r)
      BY <1>4, <1>5, <1>6, <1>7, <2>1, <3>1 DEF BillStep
    <3> QED BY <2>1, <3>1, <3>2 DEF RunBills!Next, RunBills!vars, RunBills!Runs, Runs
  <2>2. CASE task'.status # task.status
    <3>1. RunBills!Take \/ RunBills!End
      BY <1>3, <1>7, <2>2 DEF Onward, OneWrite
    <3> QED BY <3>1 DEF RunBills!Next
  <2> QED BY <2>1, <2>2
<1> QED BY <1>2, <1>7 DEF Billed

\* Row and orders implement TaskBilling, for any number of runs, workers, faults,
\* cancellations and retries: what the billing of a task promises to the ledger and
\* to the user (task_billing.go, task_terminal.go, task_lifecycle.go).
THEOREM RowAndOrdersAreBilling == LifecycleSpec => BillingSpec
<1>1. LifecycleInit => RunBills!Init
  BY DEF LifecycleInit, ExecInit, RunBills!Init, RunBills!Runs, Runs
<1>2. LedgerInv /\ [LifecycleNext]_vars => [RunBills!Next]_(RunBills!vars)
  BY LedgerStep, BilledRefines
<1> QED BY <1>1, <1>2, LedgerKept, PTL DEF LifecycleSpec, BillingSpec, RunBills!Spec

\* The order of the run never contradicts the row: while the task is active it
\* is open, a success is never refunded, a failure never charged.
THEOREM BillFitsTheRow == LifecycleSpec => []BillFits
  BY LedgerKept, PTL DEF LedgerInv

\* An execution that holds the lease works on the run the row says: one that was
\* left behind by a retry writes nothing (taskLeaseWriter).
THEOREM OwnerIsOfTheRun ==
  LifecycleSpec => [](\A w \in Workers : task.owner = w /\ Working(w) => worker[w].run = task.run)
<1>1. LedgerInv => \A w \in Workers : task.owner = w /\ Working(w) => worker[w].run = task.run
  BY DEF LedgerInv, WorkerBills
<1> QED BY <1>1, LedgerKept, PTL

(***************************************************************************)
(* Until a task is retried.  An execution that the user has cancelled goes *)
(* on with the call, beside the commands, and nobody takes the row after   *)
(* it: what TaskExecution_proofs says of the one execution at work         *)
(* (JobInv, ChargeInv) holds with cancellations, too.                      *)
(***************************************************************************)
\* A request to cancel a job names it.
CancelsKnown == \A r \in Runs : canceller[r].pc # "idle" => canceller[r].request # NoJob

\* The reconciliation bills as a success what has succeeded.
ReconcilerKnows == reconciler.outcome = "succeeded" => job[1] = "succeeded"

LEMMA FirstRun ==
  ASSUME MaxRuns = 1, LedgerInv
  PROVE  WorkInv /\ Runs = {1} /\ JobIds = {NoJob, 1}
<1>1. Runs = {1} /\ JobIds = {NoJob, 1} /\ 1 \in Nat
  BY DEF Runs, JobIds
<1>2. TypeInv /\ task \in TaskRow /\ worker \in [Workers -> WorkerRow]
      /\ attempt \in [Runs -> [Routes -> AttemptRow]]
  BY Found DEF LedgerInv, LifeTypes, RowsTyped
<1>3. SingleRun
  BY <1>1, <1>2 DEF SingleRun, TaskRow, WorkerRow, AttemptRow
<1>4. ASSUME NEW w \in Workers, worker[w].pc \in Billing PROVE task.status \notin Active
  <2>1. Paid(1) \/ Unpaid(1)
    BY <1>3, <1>4 DEF LedgerInv, WorkerBills, SingleRun, At
  <2>2. task.status \in {"succeeded", "failed", "cancelled"}
    BY <1>3, <2>1 DEF Paid, Unpaid, Over, SingleRun
  <2> QED BY <2>2 DEF Active
<1> QED BY <1>1, <1>2, <1>3, <1>4 DEF WorkInv

\* What a command does to the row: nothing, it cancels it or names its job.
Tells ==
  \/ task' = task
  \/ task' = Released([task EXCEPT !.status = "cancelled"])
  \/ \E id \in JobIds \ {NoJob} : task' = [task EXCEPT !.request = id]

LEMMA CommandJob ==
  ASSUME WorkInv, JobInv, Tells, worker' = worker, attempt' = attempt, jobs' = jobs,
         order' \in {order, Uncertain(1), Refunded(1), Settled(1)}
  PROVE  JobInv'
<1>1. task \in TaskRow /\ order \in [Runs -> OrderStatus] /\ 1 \in Runs
  BY Found, ConstantTypes DEF WorkInv, RowsTyped
<1>2. Barred => Barred'
  BY <1>1 DEF Barred, Uncertain, Refunded, Settled
<1>3. /\ task.request # NoJob => task'.request # NoJob
      /\ \A w \in Workers : Held(w) => Held(w)'
  BY <1>1 DEF Tells, Released, TaskRow, Held, Fenced
<1> QED BY <1>2, <1>3, JobSame

\* An execution that is cancelled ends, or goes to the bill.
LEMMA CancelledJob ==
  ASSUME WorkInv, JobInv, NEW w \in Workers, CancelledFailure(w) \/ ResultOfCancelledTask(w)
  PROVE  JobInv' /\ Alone(w) /\ Learns(w)
<1>1. /\ worker[w] \in WorkerRow /\ worker \in [Workers -> WorkerRow]
      /\ order' = order /\ attempt' = attempt /\ jobs' = jobs /\ ~At(w, "idle")
  BY Found DEF WorkInv, CancelledFailure, ResultOfCancelledTask, jobVars, At
<1>2. CASE CancelledFailure(w)
  <2>1. Stop(w) \/ \E pc \in {"refund", "uncertain"} : Goto(w, pc)
    BY <1>2 DEF CancelledFailure, Terminal
  <2>2. /\ {"refund", "uncertain"} \subseteq WorkerPc \ Delivered
        /\ {"refund", "uncertain"} \subseteq Billing
    BY DEF WorkerPc, Delivered, Billing
  <2>3. PICK pc \in {"refund", "uncertain"} : Stop(w) \/ Goto(w, pc)
    BY <2>1
  <2>4. Alone(w) /\ worker'[w].pc \in {"idle", pc}
    BY <2>2, <2>3, GotoMoves, StopMoves DEF WorkInv
  <2>5. Learns(w)
    BY <2>2, <2>3, LearnsNothing
  <2> QED BY <1>1, <2>2, <2>4, <2>5, OthersDone, FreeMove DEF Done, Barred
<1>3. CASE ResultOfCancelledTask(w)
  <2>1. worker' = [worker EXCEPT ![w].pc = "uncertain", ![w].run = task.run]
    BY <1>3 DEF ResultOfCancelledTask
  <2>2. Alone(w) /\ worker'[w].pc = "uncertain" /\ worker'[w].outcome = worker[w].outcome
    BY <1>1, <2>1 DEF Alone, WorkerRow
  <2>3. Learns(w)
    BY <2>2 DEF Learns, Delivered
  <2> QED BY <1>1, <2>2, <2>3, OthersDone, FreeMove DEF Done, Billing, Barred
<1> QED BY <1>2, <1>3

\* A cancellation is sent for the row that was cancelled, and its process may stop.
LEMMA CancellerMoves ==
  ASSUME LifeTypes, [LifecycleNext]_vars
  PROVE  \/ canceller' = canceller
         \/ \E r \in Runs :
              \/ \E pc : CancellerGoto(r, pc) /\ canceller[r].pc # "idle"
              \/ canceller' = [canceller EXCEPT ![r] = NoCanceller]
              \/ /\ cancel.pc = "bill" /\ cancel.request # NoJob
                 /\ canceller' = [canceller EXCEPT ![r] =
                                    [pc |-> "state", request |-> cancel.request]]
<1>1. CASE CancelBill
  <2>1. cancel.run \in Runs
    BY DEF LifeTypes, CommandsTyped, CancelRow
  <2> QED BY <1>1, <2>1 DEF CancelBill
<1>2. CASE \E r \in Runs : CancellerStep(r)
  BY <1>2 DEF CancellerStep, SaveCancelledRequest, ClaimTaskProviderCancellation,
              CancelProviderTask, CancellerMarks, CancellerBills
<1>3. CASE CommandCrash
  BY <1>3 DEF CommandCrash
<1>4. ASSUME \/ ExecNext /\ UNCHANGED lifeVars
             \/ (\E w \in Workers : CancelledFailure(w) \/ ResultOfCancelledTask(w))
             \/ CancelRead \/ CancelHydrate \/ CancelTaskIfStatus \/ CancelActiveTask
             \/ ReconcilerStep \/ RetryStep \/ UNCHANGED vars
      PROVE  canceller' = canceller
  BY <1>4 DEF lifeVars, vars, CancelledFailure, ResultOfCancelledTask, CancelRead, CancelHydrate,
     CancelTaskIfStatus, CancelActiveTask, ReconcilerStep, ClaimReconciliation,
     QueryProviderCancellation, BillCancellation, CloseCancellation, ReconcilerMarks,
     ReconcilerBills, RetryStep, RetryRead, CheckRetryEligibility, RetryTaskWithBilling
<1> QED BY <1>1, <1>2, <1>3, <1>4 DEF LifecycleNext, CancelStep

\* Whose job a request to cancel is about.
LEMMA CancelsKnownStep ==
  ASSUME LifeTypes, CancelsKnown, [LifecycleNext]_vars
  PROVE  CancelsKnown'
<1>1. canceller \in [Runs -> CancellerRow]
  BY DEF LifeTypes, CommandsTyped
<1> QED BY <1>1, CancellerMoves DEF CancelsKnown, CancellerGoto, CancellerRow, NoCanceller

\* What the commands do to the bill of the run and to its job.
Bounds ==
  /\ \/ order' \in {order, Uncertain(1), Refunded(1)}
     \/ reconciler.outcome = "succeeded" /\ order' = Settled(1)
  /\ \/ job' = job
     \/ job[1] = "pending" /\ job' = [job EXCEPT ![1] = "cancelled"]

Command == \/ CancelRead \/ CancelHydrate \/ CancelTaskIfStatus \/ CancelBill
           \/ ReconcilerStep \/ RetryStep \/ CommandCrash
           \/ \E r \in Runs : CancellerStep(r)

LEMMA CommandBounds ==
  ASSUME MaxRuns = 1, LedgerInv, CancelsKnown, Command
  PROVE  /\ Tells /\ Bounds
         /\ worker' = worker /\ attempt' = attempt /\ jobs' = jobs
<1>1. /\ Runs = {1} /\ JobIds = {NoJob, 1} /\ task.run = 1 /\ cancel.run = 1 /\ reconciler.run = 1
      /\ reconciler.request \in JobIds /\ job \in [Runs -> JobState]
  <2>1. Runs = {1} /\ JobIds = {NoJob, 1} /\ reconciler \in ReconcilerRow /\ TypeInv
    BY FirstRun, CommandFacts
  <2> QED BY <2>1, Found, CommandFacts DEF ReconcilerRow, RowsTyped
<1>2. CASE UNCHANGED execVars
  <2>1. /\ task' = task /\ order' = order /\ job' = job
        /\ worker' = worker /\ attempt' = attempt /\ jobs' = jobs
    BY <1>2 DEF execVars, jobVars
  <2> QED BY <2>1 DEF Tells, Bounds
<1>3. CancelRead \/ CancelHydrate \/ CommandCrash => UNCHANGED execVars
  BY DEF CancelRead, CancelHydrate, CommandCrash
<1>4. CASE CancelTaskIfStatus
  <2>1. /\ order' = order /\ job' = job /\ worker' = worker /\ attempt' = attempt /\ jobs' = jobs
        /\ task' = task \/ task' = Released([task EXCEPT !.status = "cancelled"])
    BY <1>4 DEF CancelTaskIfStatus, jobVars
  <2> QED BY <2>1 DEF Tells, Bounds
<1>5. CASE CancelBill
  <2>1. /\ task' = task /\ job' = job /\ worker' = worker /\ attempt' = attempt /\ jobs' = jobs
        /\ order' \in {order, Uncertain(cancel.run), Refunded(cancel.run)}
    BY <1>5 DEF CancelBill, jobVars
  <2> QED BY <1>1, <2>1 DEF Tells, Bounds
<1>6. RetryStep => UNCHANGED execVars
  <2>1. ~(task.run < MaxRuns)
    BY <1>1
  <2>2. RetryTaskWithBilling => UNCHANGED execVars
    BY <2>1 DEF RetryTaskWithBilling, execVars
  <2> QED BY <2>2 DEF RetryStep, RetryRead, CheckRetryEligibility
<1>7. CASE ReconcilerStep
  <2>1. CASE QueryProviderCancellation
    <3>1. /\ order' = order /\ job' = job /\ worker' = worker /\ attempt' = attempt /\ jobs' = jobs
          /\ LogCancellation(reconciler.run, reconciler.request)
      BY <2>1 DEF QueryProviderCancellation, jobVars
    <3>2. Tells
      BY <1>1, <3>1 DEF LogCancellation, Tells
    <3> QED BY <3>1, <3>2 DEF Bounds
  <2>2. CASE BillCancellation
    <3>1. /\ task' = task /\ job' = job /\ worker' = worker /\ attempt' = attempt /\ jobs' = jobs
          /\ \/ order' \in {order, Refunded(reconciler.run)}
             \/ reconciler.outcome = "succeeded" /\ order' = Settled(reconciler.run)
      BY <2>2 DEF BillCancellation, jobVars
    <3> QED BY <1>1, <3>1 DEF Tells, Bounds
  <2>3. CASE ReconcilerBills
    <3>1. /\ task' = task /\ job' = job /\ worker' = worker /\ attempt' = attempt /\ jobs' = jobs
          /\ order' = Uncertain(reconciler.run)
      BY <2>3 DEF ReconcilerBills, jobVars
    <3> QED BY <1>1, <3>1 DEF Tells, Bounds
  <2>4. ClaimReconciliation \/ CloseCancellation \/ ReconcilerMarks => UNCHANGED execVars
    BY DEF ClaimReconciliation, CloseCancellation, ReconcilerMarks
  <2> QED BY <1>2, <1>7, <2>1, <2>2, <2>3, <2>4 DEF ReconcilerStep
<1>8. CASE CancellerStep(1)
  <2>1. canceller[1].request \in JobIds
    BY <1>1 DEF LedgerInv, LifeTypes, CommandsTyped, CancellerRow
  <2>2. CASE SaveCancelledRequest(1)
    <3>1. /\ order' = order /\ job' = job /\ worker' = worker /\ attempt' = attempt /\ jobs' = jobs
          /\ task' = [task EXCEPT !.request = canceller[1].request] /\ canceller[1].pc # "idle"
      BY <2>2 DEF SaveCancelledRequest, jobVars
    <3>2. canceller[1].request # NoJob
      BY <1>1, <3>1 DEF CancelsKnown
    <3> QED BY <2>1, <3>1, <3>2 DEF Tells, Bounds
  <2>3. CASE CancelProviderTask(1)
    <3>1. /\ order' = order /\ worker' = worker /\ attempt' = attempt /\ jobs' = jobs
          /\ LogCancellation(1, canceller[1].request) /\ canceller[1].pc # "idle"
          /\ job' \in {job, [job EXCEPT ![canceller[1].request] =
                                  IF @ = "pending" THEN "cancelled" ELSE @]}
      BY <2>3 DEF CancelProviderTask
    <3>2. canceller[1].request = 1
      BY <1>1, <2>1, <3>1 DEF CancelsKnown
    <3>3. \/ job' = job
          \/ job[1] = "pending" /\ job' = [job EXCEPT ![1] = "cancelled"]
      BY <1>1, <3>1, <3>2
    <3>4. Tells
      BY <2>1, <3>1 DEF LogCancellation, Tells
    <3> QED BY <3>1, <3>3, <3>4 DEF Bounds
  <2>4. CASE CancellerBills(1)
    <3>1. /\ task' = task /\ job' = job /\ worker' = worker /\ attempt' = attempt /\ jobs' = jobs
          /\ order' = Uncertain(1)
      BY <2>4 DEF CancellerBills, jobVars
    <3> QED BY <3>1 DEF Tells, Bounds
  <2>5. ClaimTaskProviderCancellation(1) \/ CancellerMarks(1) => UNCHANGED execVars
    BY DEF ClaimTaskProviderCancellation, CancellerMarks
  <2> QED BY <1>2, <1>8, <2>2, <2>3, <2>4, <2>5 DEF CancellerStep
<1> QED BY <1>1, <1>2, <1>3, <1>4, <1>5, <1>6, <1>7, <1>8 DEF Command

\* The context that a cancel command ends.
LEMMA SignalledContext ==
  ASSUME TypeInv, CancelActiveTask
  PROVE  /\ UNCHANGED <<task, order, attempt, jobVars>>
         /\ worker' = worker \/ \E w \in Workers :
              Alone(w) /\ \E x : worker' = [worker EXCEPT ![w].ctx = x]
  BY Found DEF CancelActiveTask, Alone

FirstInv == LedgerInv /\ CancelsKnown /\ JobInv /\ ChargeInv /\ ReconcilerKnows

LEMMA FirstJob ==
  ASSUME MaxRuns = 1, ~Pauses, ~Outages, FirstInv, [LifecycleNext]_vars
  PROVE  JobInv'
<1>1. WorkInv /\ JobInv /\ LedgerInv /\ CancelsKnown /\ TypeInv
  BY FirstRun DEF FirstInv, WorkInv
<1>2. CASE ExecNext \/ UNCHANGED vars
  BY <1>1, <1>2, StepJob DEF vars
<1>3. CASE Command
  <2>1. order' \in {order, Uncertain(1), Refunded(1), Settled(1)}
    BY <1>1, <1>3, CommandBounds DEF Bounds
  <2> QED BY <1>1, <1>3, <2>1, CommandBounds, CommandJob
<1>4. CASE CancelActiveTask
  <2>1. CASE worker' = worker
    BY <1>1, <1>4, <2>1, SignalledContext, CommandJob DEF jobVars, Tells
  <2>2. CASE \E w \in Workers : Alone(w) /\ \E x : worker' = [worker EXCEPT ![w].ctx = x]
    BY <1>1, <1>4, <2>2, SignalledContext, JobContext DEF jobVars
  <2> QED BY <1>1, <1>4, <2>1, <2>2, SignalledContext
<1> QED BY <1>1, <1>2, <1>3, <1>4, CancelledJob DEF LifecycleNext, CancelStep, Command

LEMMA FirstCharge ==
  ASSUME MaxRuns = 1, FirstInv, [LifecycleNext]_vars
  PROVE  ChargeInv' /\ (job[1] = "succeeded" => job'[1] = "succeeded")
<1>1. /\ WorkInv /\ JobInv /\ ChargeInv /\ ReconcilerKnows /\ LedgerInv /\ CancelsKnown /\ TypeInv
      /\ Runs = {1} /\ job \in [Runs -> JobState] /\ order \in [Runs -> OrderStatus]
      /\ worker \in [Workers -> WorkerRow]
  BY FirstRun, Found DEF FirstInv, WorkInv, RowsTyped
<1>2. CASE ExecNext \/ UNCHANGED vars
  BY <1>1, <1>2, ChargeStep, SuccessStays DEF vars
<1>3. CASE Command
  <2>1. /\ worker' = worker /\ jobs' = jobs /\ Bounds
    BY <1>1, <1>3, CommandBounds
  <2>2. /\ job[1] = "succeeded" => job'[1] = "succeeded"
        /\ job'[1] # "none" => job[1] # "none"
    BY <1>1, <2>1 DEF Bounds
  <2>3. order'[1] = "settled" => order[1] = "settled" \/ job[1] = "succeeded"
    BY <1>1, <2>1 DEF Bounds, Uncertain, Refunded, Settled, ReconcilerKnows
  <2> QED BY <1>1, <2>1, <2>2, <2>3 DEF ChargeInv, ChargedForSuccess
<1>4. CASE CancelActiveTask
  <2>1. \A w \in Workers : worker'[w].pc = worker[w].pc /\ worker'[w].outcome = worker[w].outcome
    BY <1>1, <1>4, SignalledContext DEF WorkerRow
  <2> QED BY <1>1, <1>4, <2>1, SignalledContext DEF jobVars, ChargeInv, ChargedForSuccess
<1>5. ASSUME NEW w \in Workers, CancelledFailure(w) \/ ResultOfCancelledTask(w)
      PROVE  ChargeInv' /\ (job[1] = "succeeded" => job'[1] = "succeeded")
  <2>1. order' = order /\ job' = job /\ jobs' = jobs
    BY <1>5 DEF CancelledFailure, ResultOfCancelledTask, jobVars
  <2> QED BY <1>1, <1>5, <2>1, CancelledJob, ChargeLocal
<1> QED BY <1>1, <1>2, <1>3, <1>4, <1>5 DEF LifecycleNext, CancelStep, Command

LEMMA FirstReconciler ==
  ASSUME MaxRuns = 1, FirstInv, [LifecycleNext]_vars
  PROVE  ReconcilerKnows'
<1>1. /\ Runs = {1} /\ JobIds = {NoJob, 1} /\ ReconcilerKnows /\ reconciler \in ReconcilerRow
      /\ reconciler.request \in JobIds
  <2>1. LedgerInv /\ ReconcilerKnows /\ Runs = {1} /\ JobIds = {NoJob, 1}
    BY FirstRun DEF FirstInv
  <2>2. reconciler \in ReconcilerRow
    BY <2>1, CommandFacts
  <2> QED BY <2>1, <2>2 DEF ReconcilerRow
<1>2. job[1] = "succeeded" => job'[1] = "succeeded"
  BY FirstCharge
<1>3. CASE reconciler'.outcome \in {reconciler.outcome, "none"}
  BY <1>1, <1>2, <1>3 DEF ReconcilerKnows
<1>4. CASE QueryProviderCancellation
  <2>1. \/ /\ reconciler.request # NoJob
           /\ reconciler' = [reconciler EXCEPT !.pc = "bill", !.outcome = job[reconciler.request]]
        \/ reconciler' = NoReconciler
        \/ reconciler' = [reconciler EXCEPT !.pc = "mark"]
    BY <1>4 DEF QueryProviderCancellation, ReconcilerGoto
  <2>2. reconciler.request # NoJob => reconciler.request = 1
    BY <1>1
  <2>3. CASE reconciler' = [reconciler EXCEPT !.pc = "bill", !.outcome = job[1]]
    <3>1. reconciler'.outcome = job[1]
      BY <1>1, <2>3 DEF ReconcilerRow
    <3> QED BY <1>2, <3>1 DEF ReconcilerKnows
  <2>4. CASE reconciler' = NoReconciler \/ reconciler' = [reconciler EXCEPT !.pc = "mark"]
    <3>1. reconciler'.outcome \in {reconciler.outcome, "none"}
      BY <1>1, <2>4 DEF ReconcilerRow, NoReconciler
    <3> QED BY <1>3, <3>1
  <2> QED BY <2>1, <2>2, <2>3, <2>4
<1>5. CASE ~QueryProviderCancellation
  <2>1. (ExecNext /\ UNCHANGED lifeVars) \/ UNCHANGED vars => reconciler' = reconciler
    BY DEF lifeVars, vars
  <2>2. \/ \E w \in Workers : CancelledFailure(w) \/ ResultOfCancelledTask(w)
        \/ CancelRead \/ CancelStep \/ RetryStep \/ \E r \in Runs : CancellerStep(r)
        => reconciler' = reconciler
    BY DEF lifeVars, CancelledFailure, ResultOfCancelledTask, CancelRead, CancelStep,
       CancelHydrate, CancelTaskIfStatus, CancelActiveTask, CancelBill, RetryStep, RetryRead,
       CheckRetryEligibility, RetryTaskWithBilling, CancellerStep, SaveCancelledRequest,
       ClaimTaskProviderCancellation, CancelProviderTask, CancellerMarks, CancellerBills
  <2>3. CommandCrash => reconciler' = reconciler \/ reconciler' = NoReconciler
    BY DEF CommandCrash
  <2>4. ReconcilerStep => reconciler'.outcome \in {reconciler.outcome, "none"}
    BY <1>1, <1>5 DEF ReconcilerStep, ClaimReconciliation, BillCancellation, CloseCancellation,
       ReconcilerMarks, ReconcilerBills, ReconcilerGoto, NoReconciler, ReconcilerRow
  <2>5. reconciler'.outcome \in {reconciler.outcome, "none"}
    BY <2>1, <2>2, <2>3, <2>4 DEF LifecycleNext, NoReconciler
  <2> QED BY <1>3, <2>5
<1> QED BY <1>4, <1>5

LEMMA FirstInit == LifecycleInit => FirstInv
<1> SUFFICES ASSUME LifecycleInit PROVE FirstInv
  OBVIOUS
<1>1. LedgerInv /\ JobInv /\ ChargeInv
  BY LedgerInit, InitJob, ChargeInit DEF LifecycleInit
<1>2. CancelsKnown /\ ReconcilerKnows
  BY DEF LifecycleInit, CancelsKnown, NoCanceller, ReconcilerKnows, NoReconciler
<1> QED BY <1>1, <1>2 DEF FirstInv

LEMMA FirstKept ==
  ASSUME MaxRuns = 1, ~Pauses, ~Outages
  PROVE  LifecycleSpec => []FirstInv
<1>1. FirstInv /\ [LifecycleNext]_vars => FirstInv'
  <2> SUFFICES ASSUME FirstInv, [LifecycleNext]_vars PROVE FirstInv'
    OBVIOUS
  <2>1. LedgerInv' /\ CancelsKnown'
    BY LedgerStep, CancelsKnownStep DEF FirstInv, LedgerInv
  <2> QED BY <2>1, FirstJob, FirstCharge, FirstReconciler DEF FirstInv
<1> QED BY <1>1, FirstInit, PTL DEF LifecycleSpec

\* Beside any number of cancel commands, whose process may stop, the request to the
\* upstream and the reconciliation, a task that is not retried submits one job.
THEOREM OneJobBesideCancels ==
  ASSUME MaxRuns = 1, ~Pauses, ~Outages
  PROVE  LifecycleSpec => []OneJobPerRun
<1>1. FirstInv => OneJobPerRun
  BY DEF FirstInv, JobInv
<1> QED BY <1>1, FirstKept, PTL

\* It is charged only for a job that has succeeded, whether the execution, the
\* canceller or the reconciliation closes the bill.
THEOREM ChargedBesideCancels ==
  ASSUME MaxRuns = 1, ~Pauses, ~Outages
  PROVE  LifecycleSpec => []ChargedForSuccess
<1>1. FirstInv => ChargedForSuccess
  BY DEF FirstInv, ChargeInv
<1> QED BY <1>1, FirstKept, PTL

\* And it moves to another supply route only while it has no job.
THEOREM SwitchBesideCancels ==
  ASSUME MaxRuns = 1, ~Pauses, ~Outages
  PROVE  LifecycleSpec => RouteChangesWithoutJob
<1>1. ASSUME FirstInv, [LifecycleNext]_vars
      PROVE  [task'.route # task.route /\ task'.run = task.run => jobs[task.run] = 0]_execVars
  <2>1. WorkInv /\ JobInv /\ LedgerInv /\ CancelsKnown /\ TypeInv /\ task \in TaskRow
    BY <1>1, FirstRun, Found DEF FirstInv, WorkInv, RowsTyped
  <2>2. CASE ExecNext \/ UNCHANGED vars
    <3>1. task'.route # task.route /\ task'.run = task.run => jobs[task.run] = 0
      BY <2>1, <2>2, RouteStep DEF vars
    <3> QED BY <3>1
  <2>3. CASE Command
    <3>1. Tells
      BY <1>1, <2>1, <2>3, CommandBounds
    <3> QED BY <2>1, <3>1 DEF Tells, Released, TaskRow
  <2>4. CASE CancelActiveTask \/ \E w \in Workers : CancelledFailure(w) \/ ResultOfCancelledTask(w)
    BY <2>1, <2>4 DEF CancelActiveTask, CancelledFailure, ResultOfCancelledTask, Terminal,
       Released, TaskRow
  <2> QED BY <1>1, <2>2, <2>3, <2>4 DEF LifecycleNext, CancelStep, Command
<1> QED BY <1>1, FirstKept, PTL DEF LifecycleSpec, RouteChangesWithoutJob

(***************************************************************************)
(* A refund leaves no job behind.  Where the worker refunds by what the    *)
(* call has answered, a cancel command by the row it has read and the      *)
(* reconciliation by what the upstream says, each is right of the job when *)
(* its statement is executed, if no statement of the execution fails and   *)
(* no poll does.                                                           *)
(***************************************************************************)
\* The job of the run, if there is one, has ended without a result.
Resolved == job[1] \notin {"pending", "succeeded"}

\* Nobody has taken the task.
Untaken == jobs[1] = 0 /\ \A w \in Workers : At(w, "idle")

\* What the row says: a task that is not over has an order that can be charged, a
\* queued one was never taken, and a command that is past its write has cancelled it.
RowTells ==
  /\ task.status \in Active => ~Barred
  /\ task.status = "queued" => Untaken
  /\ cancel.pc \in {"signal", "bill"} =>
       task.status = "cancelled" /\ (cancel.status = "queued" => Untaken)
  /\ canceller[1].pc # "idle" => task.status = "cancelled"

\* What an execution knows when it goes to the bill, or will go there unless the
\* row was cancelled; a call that was cancelled had lost its context.
Clear(w) ==
  LET row == worker[w] IN
  /\ row.ctx = "cancelled" => task.status = "cancelled"
  /\ row.outcome \in Cancelled => row.ctx # "live"
  /\ row.pc = "refund" => Resolved
  /\ row.pc = "review" => row.outcome = "unclear" \/ Resolved
  /\ row.pc \in {"refresh", "finish", "failure"} =>
       \/ row.outcome \in {"success", "unclear"} \cup Cancelled
       \/ Resolved \/ task.status = "cancelled"

\* Without a job nobody has its id.
NoTrace ==
  /\ task.request = NoJob /\ orderJob[1] = NoJob /\ callLog[1] = "none"
  /\ \A n \in Routes : attempt[1][n].request = NoJob
  /\ \A w \in Workers : worker[w].request = NoJob /\ worker[w].target = NoJob
  /\ cancel.request = NoJob /\ canceller[1].request = NoJob /\ reconciler.request = NoJob

Traces == job[1] = "none" => NoTrace

\* The reconciliation bills a job that has ended, as it has ended.
BillsEnd ==
  reconciler.pc = "bill" => reconciler.outcome = job[1] /\ job[1] \notin {"none", "pending"}

RefundInv == FirstInv /\ RowTells /\ (\A w \in Workers : Clear(w)) /\ Traces /\ BillsEnd

\* The facts of a state that the steps need.
LEMMA RefundFacts ==
  ASSUME MaxRuns = 1, RefundInv
  PROVE  /\ WorkInv /\ JobInv /\ ChargeInv /\ LedgerInv /\ TypeInv /\ RowInv
         /\ Runs = {1} /\ JobIds = {NoJob, 1} /\ 1 \in Runs /\ NoJob = 0
         /\ task \in TaskRow /\ task.run = 1 /\ worker \in [Workers -> WorkerRow]
         /\ order \in [Runs -> OrderStatus] /\ job \in [Runs -> JobState]
         /\ jobs \in [Runs -> 0 .. 2]
         /\ attempt \in [Runs -> [Routes -> AttemptRow]]
         /\ cancel \in CancelRow /\ reconciler \in ReconcilerRow
         /\ canceller \in [Runs -> CancellerRow]
         /\ (jobs[1] = 0 => Resolved)
<1>1. FirstInv /\ LedgerInv /\ WorkInv /\ JobInv /\ ChargeInv /\ TypeInv /\ 1 \in Runs
  BY FirstRun DEF RefundInv, FirstInv, WorkInv
<1>2. /\ task \in TaskRow /\ task.run = 1 /\ worker \in [Workers -> WorkerRow]
      /\ order \in [Runs -> OrderStatus] /\ job \in [Runs -> JobState]
      /\ jobs \in [Runs -> 0 .. 2] /\ attempt \in [Runs -> [Routes -> AttemptRow]]
  BY <1>1, Found DEF RowsTyped, WorkInv, SingleRun
<1>3. /\ cancel \in CancelRow /\ reconciler \in ReconcilerRow
      /\ canceller \in [Runs -> CancellerRow]
  BY <1>1 DEF LedgerInv, LifeTypes, CommandsTyped
<1>4. RowInv
  BY <1>2, <1>3 DEF RowInv, IsRow, Columns, CancelReadActive, TaskRow, CancelRow
<1>5. jobs[1] = 0 => Resolved
  BY <1>1, <1>2 DEF ChargeInv, Resolved
<1> QED BY <1>1, <1>2, <1>3, <1>4, <1>5, FirstRun DEF NoJob

LEMMA RefundInit == LifecycleInit => RefundInv
<1> SUFFICES ASSUME LifecycleInit PROVE RefundInv
  OBVIOUS
<1>1. FirstInv /\ 1 \in Runs
  BY FirstInit, ConstantTypes
<1>2. /\ task.status = "queued" /\ task.request = NoJob /\ order[1] = "reserved"
      /\ jobs[1] = 0 /\ orderJob[1] = NoJob /\ callLog[1] = "none"
      /\ \A n \in Routes : attempt[1][n].request = NoJob
      /\ \A w \in Workers : worker[w] = IdleWorker
  BY <1>1 DEF LifecycleInit, ExecInit, NoAttempt
<1>3. cancel = NoCancel /\ canceller[1] = NoCanceller /\ reconciler = NoReconciler
  BY <1>1 DEF LifecycleInit
<1>4. RowTells
  BY <1>2, <1>3 DEF RowTells, Barred, Untaken, At, IdleWorker, NoCancel, NoCanceller
<1>5. \A w \in Workers : Clear(w)
  BY <1>2 DEF Clear, IdleWorker, Cancelled
<1>6. Traces /\ BillsEnd
  BY <1>2, <1>3 DEF Traces, NoTrace, IdleWorker, NoCancel, NoCanceller, NoReconciler, BillsEnd
<1> QED BY <1>1, <1>4, <1>5, <1>6 DEF RefundInv

\* The end of the task stays, and it is queued once.
LEMMA EndStays ==
  ASSUME MaxRuns = 1, RefundInv, FirstInv', [LifecycleNext]_vars
  PROVE  /\ task.status \in TerminalStatus => task'.status = task.status
         /\ task'.status = "queued" => task.status = "queued"
         /\ task'.status \in TaskStatus
<1>1. task'.run = task.run /\ task' \in TaskRow
  <2>1. TypeInv'
    BY DEF FirstInv, LedgerInv, LifeTypes
  <2>2. task' \in TaskRow
    BY <2>1 DEF TypeInv, ExecTypeOK, TaskRow
  <2> QED BY <2>2, RefundFacts DEF TaskRow
<1>2. task.status \in TerminalStatus => task'.status = task.status
  BY <1>1, RefundFacts, LifecycleStep DEF Continues
<1>3. task'.status = "queued" => task.status = "queued"
  <2>1. CASE ExecNext
    BY <2>1, RefundFacts, StepShape
       DEF WorkInv, Shape, Quiet, Decides, Bills, Takes, LoseLease
  <2>2. CASE Command
    <3>1. Tells
      BY <2>2, RefundFacts, CommandBounds DEF RefundInv, FirstInv
    <3> QED BY <3>1, RefundFacts DEF Tells, Released, TaskRow
  <2>3. CASE \/ CancelActiveTask \/ UNCHANGED vars
             \/ \E w \in Workers : CancelledFailure(w) \/ ResultOfCancelledTask(w)
    <3>1. task' = task \/ task' = Released([task EXCEPT !.status = "cancelled"])
      BY <2>3 DEF CancelActiveTask, CancelledFailure, ResultOfCancelledTask, Terminal,
         vars, execVars
    <3> QED BY <3>1, RefundFacts DEF Released, TaskRow
  <2> QED BY <2>1, <2>2, <2>3 DEF LifecycleNext, CancelStep, Command
<1> QED BY <1>1, <1>2, <1>3 DEF TaskRow

\* A job that has ended stays ended, and one that has not been submitted is nobody's.
LEMMA EndedStays ==
  ASSUME MaxRuns = 1, RefundInv, [LifecycleNext]_vars
  PROVE  /\ job[1] \notin {"none", "pending"} => job'[1] = job[1]
         /\ job'[1] = "none" => job' = job
         /\ Resolved => Resolved' \/ \E w \in Workers : CreatesJob(w) /\ jobs[1] = 0
<1>1. CASE \E w \in Workers : Submit(w) \/ SubmitUnanswered(w)
  <2>1. PICK w \in Workers : CreatesJob(w)
    BY <1>1 DEF Submit, SubmitUnanswered
  <2>2. jobs[1] = 0
    <3>1. KnowsJob(w) /\ At(w, "call") /\ worker[w].request = NoJob
      BY <2>1, RefundFacts DEF JobInv, CreatesJob, Done, Billing, At
    <3> QED BY <3>1 DEF KnowsJob, At
  <2>3. job[1] = "none"
    BY <2>2, RefundFacts DEF ChargeInv
  <2>4. job'[1] = "pending"
    BY <2>1, RefundFacts DEF CreatesJob, WorkInv, SingleRun
  <2> QED BY <2>1, <2>2, <2>3, <2>4
<1>2. CASE \E r \in Runs : JobEnds(r)
  <2>1. job[1] = "pending" /\ job'[1] \in {"succeeded", "failed"}
    BY <1>2, RefundFacts DEF JobEnds
  <2> QED BY <2>1 DEF Resolved
<1>3. CASE Command
  <2>1. \/ job' = job
        \/ job[1] = "pending" /\ job' = [job EXCEPT ![1] = "cancelled"]
    BY <1>3, RefundFacts, CommandBounds DEF RefundInv, FirstInv, Bounds
  <2> QED BY <2>1, RefundFacts DEF Resolved
<1>4. CASE job' = job
  BY <1>4 DEF Resolved
<1>5. ASSUME NEW w \in Workers,
             Claim(w) \/ NotStarted(w) \/ WorkerStep(w) \/ Crash(w) \/ LoseLease(w)
      PROVE  job' = job \/ Submit(w) \/ SubmitUnanswered(w)
  BY <1>5 DEF Claim, NotStarted, Crash, LoseLease, WorkerStep, PrepareStep, Start, FirstAttempt,
     RouteUnavailable, AdoptAttempt, UnsentAttempt, ResumedAttempt, UnknownAttempt,
     RejectedAttempt, SwitchTaskLogicalRoute, NoNextRoute, CreateRouteAttempt, AttemptNotCreated,
     MarkBillingRunning, BillingNotReady, RouteFails, CallStep, MarkRouteAttemptDispatching,
     DispatchMarkFails, Resume, SubmitRefused, CallCancelled, LogOrder, LogTask, LogCall,
     LogFails, PollPending, PollDone, PollTimesOut, PollFails, PollLogFails, Refresh,
     FinishTaskRouteAttempt, FinishFails, FinishStep, SettleFails, StopWithoutLease,
     DeferRunningTaskForProviderPoll, ExecutionFailure, PersistResult, SaveTaskCompletion,
     SaveFails, SettleBilling, RefundBilling, BillingUnclear, ReviewBilling, CloseBill, jobVars
<1>6. ASSUME \/ ExpireLease \/ CancelActiveTask \/ UNCHANGED vars
             \/ \E w \in Workers : CancelledFailure(w) \/ ResultOfCancelledTask(w)
      PROVE  job' = job
  BY <1>6 DEF ExpireLease, CancelActiveTask, CancelledFailure, ResultOfCancelledTask, vars,
     execVars, jobVars
<1> QED BY <1>1, <1>2, <1>3, <1>4, <1>5, <1>6 DEF LifecycleNext, ExecNext, CancelStep, Command

\* A task that nobody has taken and nobody takes.
LEMMA UntakenStays ==
  ASSUME MaxRuns = 1, RefundInv, [LifecycleNext]_vars, Untaken, task'.status # "running"
  PROVE  Untaken'
<1>1. \A w \in Workers : ~Working(w) /\ worker[w].pc = "idle"
  BY DEF Untaken, Working, At
<1>2. CASE Command
  BY <1>2, RefundFacts, CommandBounds DEF RefundInv, FirstInv, Untaken, At
<1>3. CASE CancelActiveTask \/ ExpireLease \/ UNCHANGED vars \/ \E r \in Runs : JobEnds(r)
  BY <1>1, <1>3 DEF CancelActiveTask, ExpireLease, JobEnds, vars, execVars, jobVars, Untaken, At
<1>4. ASSUME NEW w \in Workers PROVE ~Claim(w)
  BY RefundFacts DEF Claim, TaskRow
<1>5. ASSUME NEW w \in Workers
      PROVE  ~(\/ NotStarted(w) \/ PrepareStep(w) \/ Crash(w) \/ LoseLease(w)
               \/ FinishStep(w) \/ CancelledFailure(w) \/ ResultOfCancelledTask(w))
  BY <1>1 DEF NotStarted, Crash, LoseLease, At, PrepareStep, Start, FirstAttempt,
     RouteUnavailable, AdoptAttempt, UnsentAttempt, ResumedAttempt, UnknownAttempt,
     RejectedAttempt, SwitchTaskLogicalRoute, NoNextRoute, CreateRouteAttempt, AttemptNotCreated,
     MarkBillingRunning, BillingNotReady, RouteFails, FinishStep, StopWithoutLease,
     DeferRunningTaskForProviderPoll, SettleFails, ExecutionFailure, PersistResult,
     SaveTaskCompletion, SaveFails, SettleBilling, RefundBilling, BillingUnclear, ReviewBilling,
     CloseBill, CancelledFailure, ResultOfCancelledTask
<1>6. ASSUME NEW w \in Workers PROVE ~CallStep(w)
  BY <1>1 DEF At, CallStep, MarkRouteAttemptDispatching, DispatchMarkFails, Resume, SubmitRefused,
     Submit, SubmitUnanswered, CreatesJob, CallCancelled, LogOrder, LogTask, LogCall, LogFails,
     PollPending, PollDone, PollTimesOut, PollFails, PollLogFails, Refresh,
     FinishTaskRouteAttempt, FinishFails
<1> QED BY <1>2, <1>3, <1>4, <1>5, <1>6
        DEF LifecycleNext, ExecNext, WorkerStep, CancelStep, Command

\* The order of a task that is not over can be charged.
LEMMA OrderStaysOpen ==
  ASSUME MaxRuns = 1, ~WriteFaults, RefundInv, [LifecycleNext]_vars,
         task.status \in Active
  PROVE  ~Barred'
<1>1. ~Barred /\ task.status \notin {"succeeded", "failed", "cancelled"}
  BY DEF RefundInv, RowTells, Active
<1>2. CASE order' = order
  BY <1>1, <1>2 DEF Barred
<1>3. ASSUME NEW w \in Workers, PrepareStep(w)
      PROVE  order' = order \/ order'[1] = "running"
  <2>1. CASE MarkBillingRunning(w)
    BY <2>1, RefundFacts DEF MarkBillingRunning, WorkInv, SingleRun
  <2>2. CASE ~MarkBillingRunning(w)
    BY <1>3, <2>2 DEF PrepareStep, Start, FirstAttempt, RouteUnavailable, AdoptAttempt,
       UnsentAttempt, ResumedAttempt, UnknownAttempt, RejectedAttempt, SwitchTaskLogicalRoute,
       NoNextRoute, CreateRouteAttempt, AttemptNotCreated, BillingNotReady, RouteFails
  <2> QED BY <2>1, <2>2
<1>4. ASSUME NEW w \in Workers, CallStep(w)
      PROVE  order' = order
  BY <1>4 DEF CallStep, MarkRouteAttemptDispatching, DispatchMarkFails, Resume, SubmitRefused,
     Submit, SubmitUnanswered, CallCancelled, LogOrder, LogTask, LogCall, LogFails, PollPending,
     PollDone, PollTimesOut, PollFails, PollLogFails, Refresh, FinishTaskRouteAttempt, FinishFails
<1>5. ASSUME NEW w \in Workers, FinishStep(w)
      PROVE  order' = order
  <2>1. ~(SettleBilling(w) \/ RefundBilling(w) \/ BillingUnclear(w) \/ ReviewBilling(w))
    BY RefundFacts DEF WorkInv, SettleBilling, RefundBilling, BillingUnclear, ReviewBilling,
       CloseBill, At, Billing
  <2> QED BY <1>5, <2>1 DEF FinishStep, StopWithoutLease, DeferRunningTaskForProviderPoll,
             SettleFails, ExecutionFailure, PersistResult, SaveTaskCompletion, SaveFails
<1>6. ASSUME \/ \E w \in Workers : \/ Claim(w) \/ NotStarted(w) \/ Crash(w) \/ LoseLease(w)
                                   \/ CancelledFailure(w) \/ ResultOfCancelledTask(w)
             \/ ExpireLease \/ (\E r \in Runs : JobEnds(r))
             \/ CancelRead \/ CancelHydrate \/ CancelTaskIfStatus \/ CancelActiveTask
             \/ CommandCrash \/ UNCHANGED vars
      PROVE  order' = order
  BY <1>6 DEF Claim, NotStarted, Crash, LoseLease, CancelledFailure, ResultOfCancelledTask,
     ExpireLease, JobEnds, CancelRead, CancelHydrate, CancelTaskIfStatus, CancelActiveTask,
     CommandCrash, vars, execVars
<1>7. ~CancelBill /\ canceller[1].pc = "idle" /\ reconciler.pc = "idle"
  <2>1. reconciler.pc # "idle" => task.status = "cancelled"
    BY RefundFacts DEF LedgerInv, CommandsBill, Abandoned, Over, ReconcilerRow
  <2> QED BY <1>1, <2>1 DEF CancelBill, RefundInv, RowTells
<1>8. ReconcilerStep => order' = order
  BY <1>7 DEF ReconcilerStep, ClaimReconciliation, QueryProviderCancellation, BillCancellation,
     CloseCancellation, ReconcilerMarks, ReconcilerBills, execVars
<1>9. RetryStep => order' = order
  <2>1. ~(task.run < MaxRuns)
    BY RefundFacts
  <2> QED BY <2>1 DEF RetryStep, RetryRead, CheckRetryEligibility, RetryTaskWithBilling, execVars
<1>10. ASSUME NEW r \in Runs PROVE ~CancellerStep(r)
  <2>1. r = 1
    BY RefundFacts
  <2> QED BY <1>7, <2>1 DEF CancellerStep, SaveCancelledRequest, ClaimTaskProviderCancellation,
             CancelProviderTask, CancellerMarks, CancellerBills
<1> QED BY <1>2, <1>3, <1>4, <1>5, <1>6, <1>7, <1>8, <1>9, <1>10
        DEF LifecycleNext, ExecNext, WorkerStep, CancelStep, Barred

LEMMA RowTellsStep ==
  ASSUME MaxRuns = 1, ~WriteFaults, RefundInv, FirstInv', [LifecycleNext]_vars
  PROVE  RowTells'
<1>1. /\ task.status \in TerminalStatus => task'.status = task.status
      /\ task'.status = "queued" => task.status = "queued"
      /\ task.status \in TerminalStatus \cup Active
  BY EndStays, RefundFacts DEF TaskRow, TaskStatus, TerminalStatus, Active
<1>2. task'.status \in Active => ~Barred'
  BY <1>1, OrderStaysOpen DEF TerminalStatus, Active
<1>3. task'.status = "queued" => Untaken'
  BY <1>1, UntakenStays DEF RefundInv, RowTells
<1>4. task.status = "cancelled" => task'.status = "cancelled" /\ (Untaken => Untaken')
  BY <1>1, UntakenStays DEF TerminalStatus
<1>5. cancel'.pc \in {"signal", "bill"} =>
         task'.status = "cancelled" /\ (cancel'.status = "queued" => Untaken')
  <2>1. CASE cancel' = cancel \/ CancelActiveTask
    <3>1. /\ cancel'.pc \in {"signal", "bill"} => cancel.pc \in {"signal", "bill"}
          /\ cancel'.status = cancel.status
      BY <2>1, RefundFacts DEF CancelActiveTask, CancelGoto, CancelRow
    <3> QED BY <1>4, <3>1 DEF RefundInv, RowTells
  <2>2. CASE CancelTaskIfStatus
    <3>1. CASE cancel'.pc \in {"signal", "bill"}
      <4>1. /\ task.status = cancel.status
            /\ task' = Released([task EXCEPT !.status = "cancelled"])
            /\ cancel' = [cancel EXCEPT !.pc = "signal"]
        BY <2>2, <3>1 DEF CancelTaskIfStatus, CancelGoto, CancelEnds, NoCancel
      <4>2. task'.status = "cancelled" /\ cancel'.status = task.status
        BY <4>1, RefundFacts DEF Released, TaskRow, CancelRow
      <4> QED BY <4>2, UntakenStays DEF RefundInv, RowTells
    <3> QED BY <3>1
  <2>3. CASE CancelRead \/ CancelHydrate \/ CancelBill \/ (CommandCrash /\ CancelEnds)
    <3>1. CASE CancelRead
      BY <3>1 DEF CancelRead
    <3>2. CASE CancelHydrate
      BY <3>2, RefundFacts DEF CancelHydrate, CancelRow
    <3>3. CASE CancelBill \/ CancelEnds
      BY <3>3 DEF CancelBill, CancelEnds, NoCancel
    <3> QED BY <2>3, <3>1, <3>2, <3>3
  <2>4. CASE CommandCrash /\ ~CancelEnds
    BY <2>1, <2>4 DEF CommandCrash
  <2>5. ASSUME \/ ExecNext /\ UNCHANGED lifeVars
               \/ (\E w \in Workers : CancelledFailure(w) \/ ResultOfCancelledTask(w))
               \/ ReconcilerStep \/ RetryStep \/ (\E r \in Runs : CancellerStep(r))
               \/ UNCHANGED vars
        PROVE  cancel' = cancel
    BY <2>5 DEF lifeVars, vars, CancelledFailure, ResultOfCancelledTask, ReconcilerStep,
       ClaimReconciliation, QueryProviderCancellation, BillCancellation, CloseCancellation,
       ReconcilerMarks, ReconcilerBills, RetryStep, RetryRead, CheckRetryEligibility,
       RetryTaskWithBilling, CancellerStep, SaveCancelledRequest, ClaimTaskProviderCancellation,
       CancelProviderTask, CancellerMarks, CancellerBills
  <2> QED BY <2>1, <2>2, <2>3, <2>4, <2>5 DEF LifecycleNext, CancelStep
<1>6. canceller'[1].pc # "idle" => task'.status = "cancelled"
  <2>1. canceller'[1].pc # "idle" => canceller[1].pc # "idle" \/ cancel.pc = "bill"
    BY RefundFacts, CancellerMoves DEF LedgerInv, CancellerGoto, CancellerRow, NoCanceller
  <2> QED BY <1>4, <2>1 DEF RefundInv, RowTells
<1> QED BY <1>2, <1>3, <1>5, <1>6 DEF RowTells

(***************************************************************************)
(* What an execution knows.                                                *)
(***************************************************************************)
LEMMA ClearLocal ==
  ASSUME MaxRuns = 1, RefundInv, FirstInv', [LifecycleNext]_vars,
         NEW w \in Workers, Alone(w), \A v \in Workers : v # w => At(v, "idle"), Clear(w)'
  PROVE  \A v \in Workers : Clear(v)'
<1>1. \A v \in Workers : v # w => worker'[v] = worker[v]
  BY RefundFacts DEF Alone
<1>2. task.status = "cancelled" => task'.status = "cancelled"
  BY EndStays DEF TerminalStatus
<1> QED BY <1>1, <1>2 DEF RefundInv, Clear, At

\* Nobody has submitted, and no execution went on.
LEMMA ClearKept ==
  ASSUME MaxRuns = 1, RefundInv, FirstInv', [LifecycleNext]_vars, worker' = worker, jobs' = jobs
  PROVE  \A w \in Workers : Clear(w)'
<1>1. task.status = "cancelled" => task'.status = "cancelled"
  BY EndStays DEF TerminalStatus
<1>2. Resolved => Resolved'
  <2>1. \A w \in Workers : CreatesJob(w) => jobs[1] # 0
    BY RefundFacts DEF CreatesJob, WorkInv, SingleRun
  <2> QED BY <2>1, EndedStays
<1> QED BY <1>1, <1>2 DEF RefundInv, Clear

\* A switch of the route, and a start of an attempt, are before the job.
LEMMA BeforeJob ==
  ASSUME MaxRuns = 1, RefundInv, NEW w \in Workers, worker[w].pc \in {"switch", "create"}
  PROVE  Resolved \/ task.status = "cancelled"
<1>1. Held(w) /\ OnNewest(w) /\ KnowsJob(w)
  BY RefundFacts DEF JobInv, Done, Billing
<1>2. jobs[1] = 0 \/ Barred
  BY <1>1 DEF OnNewest, KnowsJob
<1>3. Fenced(w) => ~Barred
  BY DEF RefundInv, RowTells, Fenced, Active
<1> QED BY <1>1, <1>2, <1>3, RefundFacts DEF Held

LEMMA ClearPrepare ==
  ASSUME MaxRuns = 1, ~WriteFaults, RefundInv, FirstInv', [LifecycleNext]_vars,
         NEW w \in Workers, PrepareStep(w)
  PROVE  \A v \in Workers : Clear(v)'
<1>1. /\ worker[w] \in WorkerRow /\ worker \in [Workers -> WorkerRow] /\ Clear(w)
  BY RefundFacts DEF RefundInv
<1>2. Alone(w) /\ ~At(w, "idle") /\ (task.status = "cancelled" => task'.status = "cancelled")
  BY RefundFacts, PrepareShape, EndStays
     DEF WorkInv, PrepareStep, Start, FirstAttempt, RouteUnavailable, AdoptAttempt, UnsentAttempt,
         ResumedAttempt, UnknownAttempt, RejectedAttempt, SwitchTaskLogicalRoute, NoNextRoute,
         CreateRouteAttempt, AttemptNotCreated, MarkBillingRunning, BillingNotReady, RouteFails,
         At, TerminalStatus
<1>3. \A v \in Workers : v # w => At(v, "idle")
  BY <1>2, RefundFacts, OthersDone
<1>4. job' = job
  BY DEF PrepareStep, Start, FirstAttempt, RouteUnavailable, AdoptAttempt, UnsentAttempt,
         ResumedAttempt, UnknownAttempt, RejectedAttempt, SwitchTaskLogicalRoute, NoNextRoute,
         CreateRouteAttempt, AttemptNotCreated, MarkBillingRunning, BillingNotReady, RouteFails,
         jobVars
<1>5. CASE Stop(w)
  BY <1>1, <1>2, <1>3, <1>5, ClearLocal DEF Stop, IdleWorker, Clear, Cancelled
\* Where it goes on with the outcome it has, and not to the bill.
<1>6. ASSUME worker'[w].ctx = worker[w].ctx, worker'[w].outcome = worker[w].outcome,
             worker'[w].pc \notin {"refund", "review", "refresh", "finish"},
             worker'[w].pc = "failure" => worker[w].pc \in {"switch", "create"}
      PROVE  \A v \in Workers : Clear(v)'
  <2>1. worker[w].pc \in {"switch", "create"} => Resolved \/ task.status = "cancelled"
    BY BeforeJob
  <2>2. Clear(w)'
    BY <1>1, <1>2, <1>4, <1>6, <2>1 DEF Clear, Resolved
  <2> QED BY <1>2, <1>3, <2>2, ClearLocal
<1>7. CASE \E pc \in {"route", "switch", "mark_running", "dispatch", "uncertain"} : Goto(w, pc)
  <2>1. PICK pc \in {"route", "switch", "mark_running", "dispatch", "uncertain"} : Goto(w, pc)
    BY <1>7
  <2>2. worker'[w] = [worker[w] EXCEPT !.pc = pc]
    BY <1>1, <2>1 DEF Goto
  <2> QED BY <1>1, <1>6, <2>2 DEF WorkerRow
<1>8. CASE Goto(w, "failure") /\ worker[w].pc \in {"switch", "create"}
  <2>1. worker'[w] = [worker[w] EXCEPT !.pc = "failure"]
    BY <1>1, <1>8 DEF Goto
  <2> QED BY <1>1, <1>6, <1>8, <2>1 DEF WorkerRow
<1>9. CASE Fenced(w) /\ Goto(w, "refund") /\ worker[w].pc \in {"switch", "create"}
  <2>1. Resolved
    BY <1>9, BeforeJob DEF Fenced
  <2>2. worker'[w] = [worker[w] EXCEPT !.pc = "refund"]
    BY <1>1, <1>9 DEF Goto
  <2>3. Clear(w)'
    BY <1>1, <1>2, <1>4, <2>1, <2>2 DEF Clear, WorkerRow, Resolved
  <2> QED BY <1>2, <1>3, <2>3, ClearLocal
<1>14. CASE ResumedAttempt(w)
  <2>1. \E pc \in {"adopt", "mark_running"} : \E n, request, target :
           worker' = [worker EXCEPT ![w].pc = pc, ![w].attempt = n, ![w].dispatch = "accepted",
                                    ![w].request = request, ![w].target = target]
    BY <1>14 DEF ResumedAttempt
  <2>2. /\ worker'[w].pc \in {"adopt", "mark_running"} /\ worker'[w].outcome = worker[w].outcome
        /\ worker'[w].ctx = worker[w].ctx
    BY <1>1, <2>1 DEF WorkerRow
  <2> QED BY <1>6, <2>2
<1>10. CASE FirstAttempt(w) \/ UnsentAttempt(w) \/ CreateRouteAttempt(w)
  <2>1. \E pc \in {"create", "mark_running", "dispatch"} :
           \E n, state, request : Take(w, n, state, request, pc)
    <3>1. CASE FirstAttempt(w)
      BY <3>1 DEF FirstAttempt
    <3>2. CASE UnsentAttempt(w)
      BY <3>2 DEF UnsentAttempt
    <3>3. CASE CreateRouteAttempt(w)
      BY <3>3 DEF CreateRouteAttempt
    <3> QED BY <1>10, <3>1, <3>2, <3>3
  <2>2. PICK pc \in {"create", "mark_running", "dispatch"} :
           \E n, state, request : Take(w, n, state, request, pc)
    BY <2>1
  <2>3. /\ worker'[w].pc = pc /\ worker'[w].outcome = worker[w].outcome
        /\ worker'[w].ctx = worker[w].ctx
    BY <1>1, <2>2 DEF Take, WorkerRow
  <2> QED BY <1>6, <2>3
<1>11. CASE SwitchTaskLogicalRoute(w)
  <2>1. \E next, n : worker' = [worker EXCEPT ![w].pc = "create", ![w].route = next,
                                              ![w].attempt = n, ![w].request = NoJob]
    BY <1>11 DEF SwitchTaskLogicalRoute
  <2>2. /\ worker'[w].pc = "create" /\ worker'[w].outcome = worker[w].outcome
        /\ worker'[w].ctx = worker[w].ctx
    BY <1>1, <2>1 DEF WorkerRow
  <2> QED BY <1>6, <2>2
<1>12. CASE BillingNotReady(w)
  <2>1. Fenced(w) => ~Barred
    BY DEF RefundInv, RowTells, Fenced, Active
  <2>2. Barred
    BY <1>12, RefundFacts DEF BillingNotReady, WorkInv, SingleRun, Barred
  <2> QED BY <1>5, <1>12, <2>1, <2>2 DEF BillingNotReady, Terminal
<1>13. CASE \/ Start(w) \/ UnknownAttempt(w) \/ RejectedAttempt(w) \/ NoNextRoute(w)
            \/ AttemptNotCreated(w) \/ MarkBillingRunning(w) \/ RouteFails(w)
            \/ RouteUnavailable(w) \/ AdoptAttempt(w)
  BY <1>5, <1>7, <1>8, <1>9, <1>13
     DEF Start, UnknownAttempt, RejectedAttempt, NoNextRoute, AttemptNotCreated,
         MarkBillingRunning, RouteFails, RouteUnavailable, AdoptAttempt, Terminal, At
<1> QED BY <1>10, <1>11, <1>12, <1>13, <1>14 DEF PrepareStep

LEMMA ClearCall ==
  ASSUME MaxRuns = 1, ~WriteFaults, ~PollFaults, RefundInv, FirstInv', [LifecycleNext]_vars,
         NEW w \in Workers, CallStep(w)
  PROVE  \A v \in Workers : Clear(v)'
<1>1. /\ worker[w] \in WorkerRow /\ worker \in [Workers -> WorkerRow] /\ Clear(w)
  BY RefundFacts DEF RefundInv
<1>2. Alone(w) /\ ~At(w, "idle") /\ (task.status = "cancelled" => task'.status = "cancelled")
  BY RefundFacts, CallShape, EndStays
     DEF WorkInv, CallStep, MarkRouteAttemptDispatching, DispatchMarkFails, Resume, SubmitRefused,
         Submit, SubmitUnanswered, CreatesJob, CallCancelled, LogOrder, LogTask, LogCall,
         LogFails, PollPending, PollDone, PollTimesOut, PollFails, PollLogFails, Refresh,
         FinishTaskRouteAttempt, FinishFails, At, TerminalStatus
<1>3. \A v \in Workers : v # w => At(v, "idle")
  BY <1>2, RefundFacts, OthersDone
<1>4. KnowsJob(w) \/ Done(w)
  BY RefundFacts DEF JobInv
\* Where it goes on with the call.
<1>5. ASSUME worker'[w].ctx = worker[w].ctx, worker'[w].outcome = worker[w].outcome,
             worker'[w].pc \in {"call", "poll", "log_order", "log_task", "log_call",
                                "switch", "result"}
      PROVE  \A v \in Workers : Clear(v)'
  <2>1. Clear(w)'
    BY <1>1, <1>2, <1>5 DEF Clear
  <2> QED BY <1>2, <1>3, <2>1, ClearLocal
\* Where the call is over.
<1>6. ASSUME NEW outcome, Ends(w, outcome, "refresh"),
             outcome \in {"success", "unclear"} \cup Cancelled \/ Resolved',
             outcome \in Cancelled => worker[w].ctx # "live"
      PROVE  \A v \in Workers : Clear(v)'
  <2>1. worker'[w] = [worker[w] EXCEPT !.pc = "refresh", !.outcome = outcome]
    BY <1>1, <1>6 DEF Ends
  <2>2. /\ worker'[w].ctx = worker[w].ctx /\ worker'[w].outcome = outcome
        /\ worker'[w].pc = "refresh"
    BY <1>1, <2>1 DEF WorkerRow
  <2>3. Clear(w)'
    BY <1>1, <1>2, <1>6, <2>2 DEF Clear
  <2> QED BY <1>2, <1>3, <2>3, ClearLocal
<1>7. CASE \/ MarkRouteAttemptDispatching(w) \/ Resume(w) \/ Submit(w) \/ LogOrder(w)
           \/ LogTask(w) \/ LogCall(w)
  <2>1. \/ worker' = [worker EXCEPT ![w].pc = "call", ![w].dispatch = "submission_unknown"]
        \/ worker' = [worker EXCEPT ![w].pc = "poll", ![w].target = worker[w].request]
        \/ worker' = [worker EXCEPT ![w].pc = "log_order", ![w].target = worker[w].run]
        \/ \E pc \in {"call", "log_task", "log_call", "poll"} :
             worker' = [worker EXCEPT ![w].pc = pc]
    BY <1>7 DEF MarkRouteAttemptDispatching, Resume, Submit, LogOrder, LogTask, LogCall, Goto
  <2>2. /\ worker'[w].ctx = worker[w].ctx /\ worker'[w].outcome = worker[w].outcome
        /\ worker'[w].pc \in {"call", "poll", "log_order", "log_task", "log_call"}
    BY <1>1, <2>1 DEF WorkerRow
  <2> QED BY <1>5, <2>2
<1>8. CASE SubmitUnanswered(w) \/ PollTimesOut(w)
  BY <1>6, <1>8 DEF SubmitUnanswered, PollTimesOut, Cancelled
<1>9. CASE SubmitRefused(w)
  <2>1. jobs[1] = 0
    BY <1>4, <1>9 DEF SubmitRefused, KnowsJob, Done, Billing, At
  <2>2. Resolved'
    BY <1>9, <2>1, RefundFacts DEF SubmitRefused, jobVars, Resolved
  <2>3. PICK outcome \in {"failed", "rejected", "slot_full", "slot_timeout"} :
               Ends(w, outcome, "refresh")
    BY <1>9 DEF SubmitRefused
  <2> QED BY <1>6, <2>2, <2>3 DEF Cancelled
<1>10. CASE CallCancelled(w)
  BY <1>6, <1>10 DEF CallCancelled
<1>11. CASE PollDone(w)
  <2>1. worker[w].target = 1
    BY <1>1, <1>4, <1>11, RefundFacts DEF PollDone, KnowsJob, Done, Billing, At, WorkerRow
  <2>2. \/ Ends(w, "success", "refresh")
        \/ job[1] \in {"failed", "cancelled"} /\ Ends(w, "failed", "refresh")
    BY <1>11, <2>1 DEF PollDone
  <2>3. job' = job
    BY <1>11 DEF PollDone, jobVars
  <2> QED BY <1>6, <2>2, <2>3 DEF Cancelled, Resolved
<1>12. CASE PollPending(w)
  BY <1>12, ClearKept DEF PollPending, jobVars
<1>13. CASE Refresh(w) \/ FinishTaskRouteAttempt(w) \/ FinishFails(w)
  <2>1. /\ worker'[w].ctx = worker[w].ctx /\ worker'[w].outcome = worker[w].outcome
        /\ worker'[w].pc \in {"finish", "result", "switch", "failure"}
        /\ worker[w].pc \in {"refresh", "finish"} /\ job' = job
    <3>1. CASE Refresh(w)
      BY <1>1, <3>1 DEF Refresh, WorkerRow, At, jobVars
    <3>2. CASE FinishTaskRouteAttempt(w) \/ FinishFails(w)
      <4>1. /\ worker' = [worker EXCEPT ![w].pc = AfterCall(w), ![w].dispatch = FinishedState(w)]
            /\ job' = job /\ worker[w].pc = "finish"
        BY <3>2 DEF FinishTaskRouteAttempt, FinishFails, jobVars, At
      <4>2. AfterCall(w) \in {"result", "switch", "failure"}
        BY DEF AfterCall
      <4> QED BY <1>1, <4>1, <4>2 DEF WorkerRow
    <3> QED BY <1>13, <3>1, <3>2
  <2>2. Clear(w)'
    BY <1>1, <1>2, <2>1 DEF Clear, Resolved
  <2> QED BY <1>2, <1>3, <2>2, ClearLocal
<1> QED BY <1>7, <1>8, <1>9, <1>10, <1>11, <1>12, <1>13
        DEF CallStep, DispatchMarkFails, LogFails, PollFails, PollLogFails

LEMMA ClearFinish ==
  ASSUME MaxRuns = 1, ~WriteFaults, RefundInv, FirstInv', [LifecycleNext]_vars,
         NEW w \in Workers,
         FinishStep(w) \/ CancelledFailure(w) \/ ResultOfCancelledTask(w)
  PROVE  \A v \in Workers : Clear(v)'
<1>1. /\ worker[w] \in WorkerRow /\ worker \in [Workers -> WorkerRow] /\ Clear(w)
  BY RefundFacts DEF RefundInv
<1>2. /\ ~At(w, "idle") /\ job' = job
      /\ (task.status = "cancelled" => task'.status = "cancelled")
  BY EndStays
     DEF FinishStep, StopWithoutLease, DeferRunningTaskForProviderPoll, SettleFails,
         ExecutionFailure, PersistResult, SaveTaskCompletion, SaveFails, SettleBilling,
         RefundBilling, BillingUnclear, ReviewBilling, CloseBill, CancelledFailure,
         ResultOfCancelledTask, At, jobVars, TerminalStatus
<1>3. \A v \in Workers : v # w => At(v, "idle")
  BY <1>2, RefundFacts, OthersDone
<1>4. CASE Stop(w)
  <2>1. Alone(w) /\ worker'[w] = IdleWorker
    BY <1>4, RefundFacts, StopMoves DEF Stopped
  <2> QED BY <1>3, <2>1, ClearLocal DEF IdleWorker, Clear, Cancelled
<1>5. ASSUME NEW pc \in {"save", "settle", "uncertain", "refund", "review"}, Goto(w, pc),
             pc = "refund" => Resolved, pc = "review" => worker[w].outcome = "unclear" \/ Resolved
      PROVE  \A v \in Workers : Clear(v)'
  <2>1. worker'[w] = [worker[w] EXCEPT !.pc = pc] /\ Alone(w)
    BY <1>1, <1>5 DEF Goto, Alone, WorkerRow
  <2>2. /\ worker'[w].ctx = worker[w].ctx /\ worker'[w].outcome = worker[w].outcome
        /\ worker'[w].pc = pc
    BY <1>1, <2>1 DEF WorkerRow
  <2>3. Clear(w)'
    BY <1>1, <1>2, <1>5, <2>2 DEF Clear, Resolved
  <2> QED BY <1>3, <2>1, <2>3, ClearLocal
<1>6. CASE ExecutionFailure(w)
  <2>1. At(w, "failure") /\ worker[w].outcome \notin Cancelled
    BY <1>6 DEF ExecutionFailure
  <2>2. Fenced(w) => worker[w].outcome \in {"success", "unclear"} \/ Resolved
    BY <1>1, <2>1 DEF Clear, Fenced, At
  <2>3. \/ worker[w].outcome = "success" /\ Terminal(w, "failed", "uncertain")
        \/ /\ worker[w].outcome \notin {"success", "unclear"}
           /\ Terminal(w, "failed", "refund") \/ Terminal(w, "failed", "review")
        \/ worker[w].outcome = "unclear" /\ Terminal(w, "failed", "review")
    <3> DEFINE bill == CASE worker[w].outcome = "success"      -> "uncertain"
                         [] worker[w].outcome \in SlotOutcome -> "refund"
                         [] OTHER                              -> "review"
    <3>1. \/ worker[w].outcome = "success" /\ bill = "uncertain"
          \/ worker[w].outcome \notin {"success", "unclear"} /\ bill \in {"refund", "review"}
          \/ worker[w].outcome = "unclear" /\ bill = "review"
      BY DEF SlotOutcome
    <3>2. Terminal(w, "failed", bill)
      BY <1>6 DEF ExecutionFailure
    <3> HIDE DEF bill
    <3> QED BY <3>1, <3>2
  <2>4. CASE Stop(w)
    BY <1>4, <2>4
  <2>5. CASE ~Stop(w)
    <3>1. Fenced(w)
      BY <2>3, <2>5 DEF Terminal
    <3>2. \/ Goto(w, "uncertain")
          \/ Resolved /\ (Goto(w, "refund") \/ Goto(w, "review"))
          \/ worker[w].outcome = "unclear" /\ Goto(w, "review")
      BY <2>2, <2>3, <2>5, <3>1 DEF Terminal
    <3> QED BY <1>5, <3>2
  <2> QED BY <2>4, <2>5
<1>7. CASE CancelledFailure(w)
  <2>1. task.status = "cancelled"
    <3>1. worker[w].ctx # "live" /\ worker[w].ctx # "lease_lost"
      BY <1>1, <1>7 DEF CancelledFailure, Clear
    <3>2. worker[w].ctx = "cancelled"
      BY <1>1, <3>1 DEF WorkerRow
    <3> QED BY <1>1, <3>2 DEF Clear
  <2> QED BY <1>4, <1>7, <2>1 DEF CancelledFailure
<1>8. CASE ResultOfCancelledTask(w)
  <2>1. worker' = [worker EXCEPT ![w].pc = "uncertain", ![w].run = task.run]
    BY <1>8 DEF ResultOfCancelledTask
  <2>2. /\ worker'[w].ctx = worker[w].ctx /\ worker'[w].outcome = worker[w].outcome
        /\ worker'[w].pc = "uncertain" /\ Alone(w)
    BY <1>1, <2>1 DEF WorkerRow, Alone
  <2>3. Clear(w)'
    BY <1>1, <1>2, <2>2 DEF Clear
  <2> QED BY <1>3, <2>2, <2>3, ClearLocal
<1>9. CASE \/ StopWithoutLease(w) \/ DeferRunningTaskForProviderPoll(w) \/ PersistResult(w)
           \/ SaveTaskCompletion(w) \/ SettleBilling(w) \/ RefundBilling(w)
           \/ BillingUnclear(w) \/ ReviewBilling(w)
  <2>1. Stop(w) \/ \E pc \in {"save", "settle"} : Goto(w, pc)
    BY <1>9 DEF StopWithoutLease, DeferRunningTaskForProviderPoll, PersistResult,
         SaveTaskCompletion, SettleBilling, RefundBilling, BillingUnclear, ReviewBilling, CloseBill
  <2> QED BY <1>4, <1>5, <2>1
<1> QED BY <1>6, <1>7, <1>8, <1>9 DEF FinishStep, SaveFails, SettleFails

LEMMA ClearStep ==
  ASSUME MaxRuns = 1, ~WriteFaults, ~PollFaults, RefundInv, FirstInv', [LifecycleNext]_vars
  PROVE  \A w \in Workers : Clear(w)'
<1>1. /\ worker \in [Workers -> WorkerRow] /\ \A w \in Workers : Clear(w)
      /\ (task.status = "cancelled" => task'.status = "cancelled")
  BY RefundFacts, EndStays DEF RefundInv, TerminalStatus
<1>2. ASSUME NEW w \in Workers, Claim(w) \/ NotStarted(w) \/ Crash(w)
      PROVE  \A v \in Workers : Clear(v)'
  <2>1. /\ Alone(w) /\ worker'[w].ctx = "live" /\ worker'[w].outcome = "none"
        /\ worker'[w].pc \in {"start", "idle"}
    <3>1. CASE Claim(w)
      <4> DEFINE row == [IdleWorker EXCEPT !.pc = "start", !.run = task.run,
                          !.request = task.request, !.route = task.route]
      <4>1. row.pc = "start" /\ row.ctx = "live" /\ row.outcome = "none"
        BY DEF IdleWorker
      <4>2. worker' = [worker EXCEPT ![w] = row]
        BY <3>1 DEF Claim
      <4> HIDE DEF row
      <4> QED BY <1>1, <4>1, <4>2 DEF Alone
    <3>2. CASE NotStarted(w) \/ Crash(w)
      BY <3>2, RefundFacts, StopMoves DEF NotStarted, Crash, Stopped, IdleWorker
    <3> QED BY <1>2, <3>1, <3>2
  <2>2. Clear(w)'
    BY <2>1 DEF Clear, Cancelled
  <2>3. \A v \in Workers : v # w => At(v, "idle")
    <3>1. ~At(w, "idle") \/ task.status = "queued" \/ (task.status = "running" /\ ~task.lease)
      BY <1>2 DEF Claim, NotStarted, Crash, Working, At
    <3> QED BY <3>1, RefundFacts, OthersDone
  <2> QED BY <2>1, <2>2, <2>3, ClearLocal
\* The loss of a lease, and the cancel command, end a context.
<1>3. ASSUME NEW w \in Workers, NEW x, worker' = [worker EXCEPT ![w].ctx = x], job' = job,
             x = "lease_lost" \/ (x = "cancelled" /\ task.status = "cancelled")
      PROVE  \A v \in Workers : Clear(v)'
  <2>1. ASSUME NEW v \in Workers
        PROVE  /\ worker'[v].pc = worker[v].pc /\ worker'[v].outcome = worker[v].outcome
               /\ worker'[v].ctx = worker[v].ctx \/ worker'[v].ctx = x
    BY <1>1, <1>3 DEF WorkerRow
  <2> QED BY <1>1, <1>3, <2>1 DEF Clear, Resolved
<1>4. ASSUME NEW w \in Workers, LoseLease(w)
      PROVE  \A v \in Workers : Clear(v)'
  BY <1>3, <1>4 DEF LoseLease, jobVars
<1>5. CASE CancelActiveTask
  <2>1. task.status = "cancelled" /\ job' = job /\ jobs' = jobs
    BY <1>5 DEF CancelActiveTask, RefundInv, RowTells, jobVars
  <2>2. worker' = worker \/ \E w \in Workers : worker' = [worker EXCEPT ![w].ctx = "cancelled"]
    BY <1>5 DEF CancelActiveTask
  <2> QED BY <1>3, <2>1, <2>2, ClearKept
<1>6. CASE Command
  BY <1>6, RefundFacts, CommandBounds, ClearKept DEF RefundInv, FirstInv
<1>7. CASE ExpireLease \/ UNCHANGED vars \/ \E r \in Runs : JobEnds(r)
  BY <1>7, ClearKept DEF ExpireLease, JobEnds, vars, execVars, jobVars
<1> QED BY <1>2, <1>4, <1>5, <1>6, <1>7, ClearPrepare, ClearCall, ClearFinish
        DEF LifecycleNext, ExecNext, WorkerStep, CancelStep, Command

(***************************************************************************)
(* An id is known only of a job that was submitted.                        *)
(***************************************************************************)
\* What a step of w writes of ids, while there is no job.
Untraced(w) ==
  /\ Alone(w) /\ worker'[w].request = NoJob /\ worker'[w].target = NoJob
  /\ task'.request = NoJob /\ orderJob' = orderJob /\ callLog' = callLog
  /\ \/ attempt' = attempt
     \/ \E n \in Routes : \E state :
          SaveAttempt(w, n, state, NoJob) \/ Saved(w, n, state, NoJob)

LEMMA UntracedStays ==
  ASSUME MaxRuns = 1, RefundInv, NoTrace, NEW w \in Workers, Untraced(w), UNCHANGED lifeVars
  PROVE  NoTrace'
<1>1. \A v \in Workers : worker'[v].request = NoJob /\ worker'[v].target = NoJob
  BY RefundFacts DEF NoTrace, Untraced, Alone
<1>2. \A n \in Routes : attempt'[1][n].request = NoJob
  <2>1. ASSUME NEW n \in Routes, NEW state,
               SaveAttempt(w, n, state, NoJob) \/ Saved(w, n, state, NoJob)
        PROVE  \A m \in Routes : attempt'[1][m].request = NoJob
    <3>1. /\ worker[w].run = 1 /\ 1 \in Runs /\ attempt \in [Runs -> [Routes -> AttemptRow]]
      BY RefundFacts, Found, ConstantTypes DEF WorkInv, SingleRun
    <3>2. Saved(w, n, state, NoJob)
      BY <2>1, <3>1, SaveWrites
    <3>3. PICK route :
             attempt' = [attempt EXCEPT ![1][n] =
                          [state |-> state, request |-> NoJob, route |-> route]]
      BY <3>1, <3>2 DEF Saved
    <3> DEFINE saved == [state |-> state, request |-> NoJob, route |-> route]
    <3>4. saved.request = NoJob /\ attempt' = [attempt EXCEPT ![1][n] = saved]
      BY <3>3
    <3> HIDE DEF saved
    <3> QED BY <3>4, RefundFacts DEF NoTrace
  <2> QED BY <2>1 DEF Untraced, NoTrace
<1> QED BY <1>1, <1>2 DEF NoTrace, Untraced, lifeVars

\* The writes that leave the id in the row as it is.
LEMMA KeepsRequest ==
  ASSUME NEW t \in TaskRow
  PROVE  /\ Released(t).request = t.request
         /\ \A s : Released([t EXCEPT !.status = s]).request = t.request
  BY DEF Released, TaskRow

\* What an execution holds, and where its steps leave the row and the log alone.
LEMMA TraceFacts ==
  ASSUME MaxRuns = 1, RefundInv, NoTrace, NEW w \in Workers
  PROVE  /\ worker[w] \in WorkerRow /\ worker \in [Workers -> WorkerRow] /\ worker[w].run = 1
         /\ worker[w].request = NoJob /\ worker[w].target = NoJob
         /\ worker[w].attempt \in Routes
         /\ task \in TaskRow /\ task.request = NoJob /\ TypeInv /\ SingleRun
         /\ (logVars' = logVars => orderJob' = orderJob /\ callLog' = callLog)
  BY RefundFacts DEF WorkInv, SingleRun, NoTrace, WorkerRow, logVars

LEMMA UntracedMove ==
  ASSUME MaxRuns = 1, RefundInv, NoTrace, NEW w \in Workers,
         Stop(w) \/ (\E pc : Goto(w, pc)) \/ (\E outcome, pc : Ends(w, outcome, pc)),
         attempt' = attempt, logVars' = logVars, task'.request = NoJob
  PROVE  Untraced(w)
<1>1. CASE Stop(w)
  BY <1>1, TraceFacts, StopMoves DEF Stopped, IdleWorker, Untraced
<1>2. ASSUME NEW pc, Goto(w, pc) \/ \E outcome : Ends(w, outcome, pc)
      PROVE  worker'[w].request = NoJob /\ worker'[w].target = NoJob /\ Alone(w)
  BY <1>2, TraceFacts DEF Goto, Ends, WorkerRow, Alone
<1> QED BY <1>1, <1>2, TraceFacts DEF Untraced

LEMMA UntracedTerminal ==
  ASSUME MaxRuns = 1, RefundInv, NoTrace, NEW w \in Workers, NEW status, NEW bill,
         Terminal(w, status, bill), attempt' = attempt, logVars' = logVars
  PROVE  Untraced(w)
<1>1. task'.request = NoJob
  BY TraceFacts, KeepsRequest DEF Terminal
<1> QED BY <1>1, UntracedMove DEF Terminal

LEMMA UntracedPrepare ==
  ASSUME MaxRuns = 1, RefundInv, NoTrace, NEW w \in Workers, PrepareStep(w)
  PROVE  Untraced(w)
<1>1. Alone(w)
  BY TraceFacts, PrepareShape
<1>2. ASSUME NEW pc, NEW n, NEW state, Take(w, n, state, NoJob, pc)
      PROVE  worker'[w].request = NoJob /\ worker'[w].target = NoJob
  BY TraceFacts, <1>2 DEF Take, WorkerRow
<1>3. CASE FirstAttempt(w) \/ UnsentAttempt(w)
  BY <1>1, <1>2, <1>3, TraceFacts DEF FirstAttempt, UnsentAttempt, Untraced
<1>4. CASE CreateRouteAttempt(w)
  <2>0. worker[w].route \in Routes
    BY TraceFacts DEF WorkerRow
  <2>1. Saved(w, worker[w].attempt, "not_sent", NoJob)
    BY <1>4, <2>0 DEF CreateRouteAttempt, Saved
  <2>2. worker'[w].request = NoJob /\ worker'[w].target = NoJob
    BY <1>2, <1>4, TraceFacts DEF CreateRouteAttempt
  <2> QED BY <1>1, <1>4, <2>1, <2>2, TraceFacts DEF CreateRouteAttempt, Untraced
<1>5. CASE SwitchTaskLogicalRoute(w)
  <2>1. \E next, n : /\ task' = [task EXCEPT !.route = next]
                     /\ worker' = [worker EXCEPT ![w].pc = "create", ![w].route = next,
                                                 ![w].attempt = n, ![w].request = NoJob]
    BY <1>5 DEF SwitchTaskLogicalRoute
  <2>2. /\ worker'[w].request = NoJob /\ worker'[w].target = NoJob /\ task'.request = NoJob
    BY <2>1, TraceFacts DEF WorkerRow, TaskRow
  <2> QED BY <1>1, <1>5, <2>2, TraceFacts DEF SwitchTaskLogicalRoute, Untraced
<1>6. ~ResumedAttempt(w)
  <2>1. Attempts(1) # {} => Max(Attempts(1)) \in Routes
    BY TraceFacts, NewestAttempt
  <2> QED BY <2>1, TraceFacts DEF ResumedAttempt, NoTrace
<1>7. CASE Start(w) \/ RejectedAttempt(w) \/ RouteUnavailable(w) \/ MarkBillingRunning(w)
  BY <1>7, TraceFacts, UntracedMove DEF Start, RejectedAttempt, RouteUnavailable,
     MarkBillingRunning
<1>10. CASE AdoptAttempt(w)
  <2>1. SaveAttempt(w, worker[w].attempt, "accepted", NoJob) /\ Goto(w, "mark_running")
    BY <1>10, TraceFacts DEF AdoptAttempt
  <2>2. worker'[w].request = NoJob /\ worker'[w].target = NoJob
    BY <2>1, TraceFacts DEF Goto, WorkerRow
  <2> QED BY <1>1, <1>10, <2>1, <2>2, TraceFacts DEF AdoptAttempt, Untraced
<1>8. CASE UnknownAttempt(w) \/ BillingNotReady(w) \/ RouteFails(w)
  BY <1>8, UntracedTerminal DEF UnknownAttempt, BillingNotReady, RouteFails
<1>9. CASE NoNextRoute(w) \/ AttemptNotCreated(w)
  <2>1. /\ attempt' = attempt /\ logVars' = logVars
        /\ (task' = task /\ Goto(w, "failure")) \/ Terminal(w, "failed", "refund")
    BY <1>9 DEF NoNextRoute, AttemptNotCreated
  <2> QED BY <2>1, TraceFacts, UntracedMove, UntracedTerminal
<1> QED BY <1>3, <1>4, <1>5, <1>6, <1>7, <1>8, <1>9, <1>10 DEF PrepareStep

LEMMA UntracedCall ==
  ASSUME MaxRuns = 1, RefundInv, NoTrace, NEW w \in Workers, CallStep(w), ~CreatesJob(w)
  PROVE  Untraced(w)
<1>1. worker[w].pc \notin {"log_order", "log_task", "log_call", "poll"}
  <2>1. KnowsJob(w) \/ Done(w)
    BY RefundFacts DEF JobInv
  <2> QED BY <2>1, TraceFacts DEF KnowsJob, Done, Billing
<1>2. CASE MarkRouteAttemptDispatching(w)
  <2>1. CASE Goto(w, "call") /\ attempt' = attempt
    BY <1>2, <2>1, TraceFacts, UntracedMove DEF MarkRouteAttemptDispatching
  <2>2. CASE /\ SaveAttempt(w, worker[w].attempt, "submission_unknown", NoJob)
             /\ worker' = [worker EXCEPT ![w].pc = "call", ![w].dispatch = "submission_unknown"]
    <3>1. worker'[w].request = NoJob /\ worker'[w].target = NoJob /\ Alone(w)
      BY <2>2, TraceFacts DEF WorkerRow, Alone
    <3> QED BY <1>2, <2>2, <3>1, TraceFacts DEF MarkRouteAttemptDispatching, Untraced
  <2> QED BY <1>2, <2>1, <2>2 DEF MarkRouteAttemptDispatching
<1>3. CASE DispatchMarkFails(w)
  <2>1. worker'[w].request = NoJob /\ worker'[w].target = NoJob /\ Alone(w)
    BY <1>3, TraceFacts DEF DispatchMarkFails, WorkerRow, Alone
  <2> QED BY <1>3, <2>1, TraceFacts DEF DispatchMarkFails, Untraced
<1>4. CASE SubmitRefused(w) \/ CallCancelled(w)
  BY <1>4, TraceFacts, UntracedMove DEF SubmitRefused, CallCancelled
<1>5. CASE Refresh(w)
  <2>1. worker' = [worker EXCEPT ![w].pc = "finish", ![w].request = NoJob]
    BY <1>5, TraceFacts DEF Refresh
  <2>2. worker'[w].request = NoJob /\ worker'[w].target = NoJob /\ Alone(w)
    BY <2>1, TraceFacts DEF WorkerRow, Alone
  <2> QED BY <1>5, <2>2, TraceFacts DEF Refresh, Untraced
<1>6. CASE FinishTaskRouteAttempt(w) \/ FinishFails(w)
  <2>1. /\ worker' = [worker EXCEPT ![w].pc = AfterCall(w), ![w].dispatch = FinishedState(w)]
        /\ attempt' = attempt \/ SaveAttempt(w, worker[w].attempt, FinishedState(w), NoJob)
        /\ task' = task /\ logVars' = logVars
    BY <1>6, TraceFacts DEF FinishTaskRouteAttempt, FinishFails
  <2>2. worker'[w].request = NoJob /\ worker'[w].target = NoJob /\ Alone(w)
    BY <2>1, TraceFacts DEF WorkerRow, Alone
  <2> QED BY <2>1, <2>2, TraceFacts DEF Untraced
<1>7. ~(\/ Resume(w) \/ LogOrder(w) \/ LogTask(w) \/ LogCall(w) \/ LogFails(w)
        \/ PollPending(w) \/ PollDone(w) \/ PollTimesOut(w) \/ PollFails(w) \/ PollLogFails(w)
        \/ Submit(w) \/ SubmitUnanswered(w))
  BY <1>1, TraceFacts DEF Resume, LogOrder, LogTask, LogCall, LogFails, PollPending, PollDone,
     PollTimesOut, PollFails, PollLogFails, Submit, SubmitUnanswered, At
<1> QED BY <1>2, <1>3, <1>4, <1>5, <1>6, <1>7 DEF CallStep

LEMMA UntracedFinish ==
  ASSUME MaxRuns = 1, RefundInv, NoTrace, NEW w \in Workers,
         FinishStep(w) \/ CancelledFailure(w) \/ ResultOfCancelledTask(w)
  PROVE  Untraced(w)
<1>1. attempt' = attempt /\ logVars' = logVars
  BY DEF FinishStep, StopWithoutLease, DeferRunningTaskForProviderPoll, SettleFails,
         ExecutionFailure, PersistResult, SaveTaskCompletion, SaveFails, SettleBilling,
         RefundBilling, BillingUnclear, ReviewBilling, CloseBill, CancelledFailure,
         ResultOfCancelledTask
<1>2. CASE ResultOfCancelledTask(w)
  <2>1. worker' = [worker EXCEPT ![w].pc = "uncertain", ![w].run = task.run] /\ task' = task
    BY <1>2 DEF ResultOfCancelledTask
  <2>2. worker'[w].request = NoJob /\ worker'[w].target = NoJob /\ Alone(w)
    BY <2>1, TraceFacts DEF WorkerRow, Alone
  <2> QED BY <1>1, <2>1, <2>2, TraceFacts DEF Untraced
<1>3. CASE ExecutionFailure(w) \/ SaveFails(w) \/ CancelledFailure(w)
  <2>1. (\E status, bill : Terminal(w, status, bill)) \/ (Stop(w) /\ task' = task)
    BY <1>3 DEF ExecutionFailure, SaveFails, CancelledFailure
  <2> QED BY <1>1, <2>1, TraceFacts, UntracedTerminal, UntracedMove
<1>4. CASE \/ StopWithoutLease(w) \/ DeferRunningTaskForProviderPoll(w) \/ PersistResult(w)
           \/ SaveTaskCompletion(w) \/ SettleBilling(w) \/ SettleFails(w) \/ RefundBilling(w)
           \/ BillingUnclear(w) \/ ReviewBilling(w)
  <2>1. Stop(w) \/ \E pc : Goto(w, pc)
    BY <1>4 DEF StopWithoutLease, DeferRunningTaskForProviderPoll, PersistResult,
       SaveTaskCompletion, SettleBilling, SettleFails, RefundBilling, BillingUnclear,
       ReviewBilling, CloseBill
  <2>2. \/ task' = task \/ task' = Released(task)
        \/ task' = [task EXCEPT !.status = "succeeded", !.request = worker[w].request]
    BY <1>4 DEF StopWithoutLease, DeferRunningTaskForProviderPoll, PersistResult,
       SaveTaskCompletion, SettleBilling, SettleFails, RefundBilling, BillingUnclear,
       ReviewBilling, CloseBill
  <2>3. task'.request = NoJob
    <3>1. worker[w].request = NoJob /\ task.request = NoJob /\ task \in TaskRow
      BY TraceFacts
    <3>2. CASE task' = [task EXCEPT !.status = "succeeded", !.request = worker[w].request]
      BY <3>1, <3>2 DEF TaskRow
    <3> QED BY <2>2, <3>1, <3>2, KeepsRequest
  <2> QED BY <1>1, <2>1, <2>3, UntracedMove
<1> QED BY <1>2, <1>3, <1>4 DEF FinishStep

\* Where nobody has an id, the commands and the log have none to give.
LEMMA CommandTraces ==
  ASSUME MaxRuns = 1, RefundInv, NoTrace, [LifecycleNext]_vars,
         \/ CancelRead \/ CancelStep \/ ReconcilerStep \/ RetryStep \/ CommandCrash
         \/ \E r \in Runs : CancellerStep(r)
  PROVE  NoTrace'
<1>1. /\ canceller[1].pc = "idle" /\ canceller[1].request = NoJob /\ Runs = {1}
      /\ cancel.request = NoJob /\ cancel \in CancelRow /\ cancel.run = 1
      /\ reconciler.request = NoJob /\ reconciler \in ReconcilerRow /\ reconciler.run = 1
      /\ task \in TaskRow /\ task.request = NoJob
  BY RefundFacts DEF NoTrace, RefundInv, FirstInv, CancelsKnown, CancelRow, ReconcilerRow
<1>2. ASSUME UNCHANGED <<orderJob, callLog, attempt>>, task'.request = NoJob,
             \A w \in Workers : /\ worker'[w].request = worker[w].request
                                /\ worker'[w].target = worker[w].target,
             cancel'.request = NoJob, canceller' = canceller, reconciler'.request = NoJob
      PROVE  NoTrace'
  BY <1>2 DEF NoTrace
<1>3. ~\E r \in Runs : CancellerStep(r)
  BY <1>1 DEF CancellerStep, SaveCancelledRequest, ClaimTaskProviderCancellation,
     CancelProviderTask, CancellerMarks, CancellerBills
<1>4. CASE CancelRead \/ RetryStep \/ CommandCrash
  <2>1. RetryStep => UNCHANGED execVars
    <3>1. ~(task.run < MaxRuns)
      BY RefundFacts
    <3> QED BY <3>1 DEF RetryStep, RetryRead, CheckRetryEligibility, RetryTaskWithBilling, execVars
  <2>2. /\ UNCHANGED execVars
        /\ cancel' = cancel \/ CancelEnds \/ CancelRead
    BY <1>4, <2>1 DEF CancelRead, RetryStep, RetryRead, CheckRetryEligibility,
       RetryTaskWithBilling, CommandCrash
  <2>3. cancel'.request = NoJob
    BY <1>1, <2>2 DEF CancelEnds, NoCancel, CancelRead
  <2>4. /\ reconciler' = reconciler \/ reconciler' = NoReconciler
        /\ canceller' = canceller \/ canceller' = [canceller EXCEPT ![1] = NoCanceller]
    BY <1>1, <1>4 DEF CancelRead, RetryStep, RetryRead, CheckRetryEligibility,
       RetryTaskWithBilling, CommandCrash
  <2>5. reconciler'.request = NoJob /\ canceller'[1].request = NoJob
    BY <1>1, <2>4, RefundFacts DEF NoReconciler, NoCanceller
  <2> QED BY <2>2, <2>3, <2>5 DEF NoTrace, execVars, logVars
<1>5. CASE CancelHydrate
  <2>1. Hydrated(1) = NoJob
    <3>1. orderJob[1] = NoJob /\ Logged = {}
      BY <1>1 DEF NoTrace, Logged
    <3> QED BY <3>1 DEF Hydrated
  <2>2. cancel'.request = NoJob
    BY <1>1, <1>5, <2>1 DEF CancelHydrate, CancelRow
  <2> QED BY <1>1, <1>2, <1>5, <2>2 DEF CancelHydrate, execVars, logVars
<1>6. CASE CancelTaskIfStatus
  <2>1. task'.request = NoJob
    BY <1>1, <1>6, KeepsRequest DEF CancelTaskIfStatus
  <2>2. cancel'.request = NoJob
    BY <1>1, <1>6 DEF CancelTaskIfStatus, CancelGoto, CancelEnds, NoCancel, CancelRow
  <2> QED BY <1>1, <1>2, <1>6, <2>1, <2>2 DEF CancelTaskIfStatus, logVars
<1>7. CASE CancelActiveTask
  <2>1. cancel'.request = NoJob
    BY <1>1, <1>7 DEF CancelActiveTask, CancelGoto, CancelRow
  <2>2. \A w \in Workers : /\ worker'[w].request = worker[w].request
                           /\ worker'[w].target = worker[w].target
    BY <1>7, RefundFacts DEF CancelActiveTask, WorkerRow
  <2> QED BY <1>1, <1>2, <1>7, <2>1, <2>2 DEF CancelActiveTask, logVars
<1>8. CASE CancelBill
  <2>1. cancel'.request = NoJob /\ canceller' = canceller
    BY <1>1, <1>8 DEF CancelBill, CancelEnds, NoCancel
  <2> QED BY <1>1, <1>2, <1>8, <2>1 DEF CancelBill, logVars
<1>9. CASE ReconcilerStep
  <2>1. UNCHANGED <<task, orderJob, callLog, attempt, worker, cancel, canceller>>
    BY <1>1, <1>9 DEF ReconcilerStep, ClaimReconciliation, QueryProviderCancellation,
       LogCancellation, BillCancellation, CloseCancellation, ReconcilerMarks, ReconcilerBills,
       execVars, logVars
  <2>2. reconciler'.request = NoJob
    BY <1>1, <1>9 DEF ReconcilerStep, ClaimReconciliation, QueryProviderCancellation,
       BillCancellation, CloseCancellation, ReconcilerMarks, ReconcilerBills, ReconcilerGoto,
       NoReconciler, ReconcilerRow
  <2> QED BY <1>1, <1>2, <2>1, <2>2
<1> QED BY <1>3, <1>4, <1>5, <1>6, <1>7, <1>8, <1>9 DEF CancelStep

LEMMA TracesStep ==
  ASSUME MaxRuns = 1, RefundInv, [LifecycleNext]_vars
  PROVE  Traces'
<1> SUFFICES ASSUME job'[1] = "none" PROVE NoTrace'
  BY DEF Traces
<1>1. NoTrace /\ job' = job
  BY EndedStays DEF RefundInv, Traces
<1>2. \A w \in Workers : ~CreatesJob(w)
  BY <1>1, RefundFacts DEF CreatesJob, WorkInv, SingleRun
<1>3. ASSUME UNCHANGED lifeVars, NEW w \in Workers,
             \/ PrepareStep(w) \/ CallStep(w)
             \/ FinishStep(w) \/ CancelledFailure(w) \/ ResultOfCancelledTask(w)
      PROVE  NoTrace'
  BY <1>1, <1>2, <1>3, UntracedPrepare, UntracedCall, UntracedFinish, UntracedStays
<1>4. ASSUME UNCHANGED lifeVars, NEW w \in Workers,
             Claim(w) \/ NotStarted(w) \/ Crash(w) \/ LoseLease(w)
      PROVE  NoTrace'
  <2>1. CASE Claim(w)
    <3> DEFINE row == [IdleWorker EXCEPT !.pc = "start", !.run = task.run,
                                         !.request = task.request, !.route = task.route]
    <3>1. row.request = NoJob /\ row.target = NoJob
      BY <1>1, TraceFacts DEF IdleWorker
    <3>2. worker' = [worker EXCEPT ![w] = row]
          /\ task' = [task EXCEPT !.status = "running", !.owner = w, !.lease = TRUE]
          /\ attempt' = attempt /\ logVars' = logVars
      BY <2>1 DEF Claim
    <3> HIDE DEF row
    <3>3. worker'[w].request = NoJob /\ worker'[w].target = NoJob /\ Alone(w)
      BY <1>1, <3>1, <3>2, TraceFacts DEF Alone
    <3>4. task'.request = NoJob
      BY <1>1, <3>2, TraceFacts DEF TaskRow
    <3> QED BY <1>1, <1>4, <3>2, <3>3, <3>4, TraceFacts, UntracedStays DEF Untraced
  <2>2. CASE NotStarted(w) \/ Crash(w)
    <3>1. task'.request = NoJob /\ Stop(w) /\ attempt' = attempt /\ logVars' = logVars
      BY <1>1, <2>2, TraceFacts, KeepsRequest DEF NotStarted, Crash
    <3> QED BY <1>1, <1>4, <3>1, UntracedMove, UntracedStays
  <2>3. CASE LoseLease(w)
    <3>1. worker' = [worker EXCEPT ![w].ctx = "lease_lost"]
          /\ task' = task /\ attempt' = attempt /\ logVars' = logVars
      BY <2>3 DEF LoseLease
    <3>2. worker'[w].request = NoJob /\ worker'[w].target = NoJob /\ Alone(w)
      BY <1>1, <3>1, TraceFacts DEF WorkerRow, Alone
    <3> QED BY <1>1, <1>4, <3>1, <3>2, TraceFacts, UntracedStays DEF Untraced
  <2> QED BY <1>4, <2>1, <2>2, <2>3
<1>5. CASE UNCHANGED lifeVars /\ (ExpireLease \/ \E r \in Runs : JobEnds(r))
  <2>1. task'.request = task.request
    BY <1>5, RefundFacts DEF ExpireLease, JobEnds, TaskRow
  <2> QED BY <1>1, <1>5, <2>1 DEF ExpireLease, JobEnds, NoTrace, logVars, lifeVars
<1>6. CASE UNCHANGED vars
  BY <1>1, <1>6 DEF vars, execVars, lifeVars, logVars, NoTrace
<1>7. \A w \in Workers : CancelledFailure(w) \/ ResultOfCancelledTask(w) => UNCHANGED lifeVars
  BY DEF CancelledFailure, ResultOfCancelledTask
<1> QED BY <1>1, <1>3, <1>4, <1>5, <1>6, <1>7, CommandTraces
        DEF LifecycleNext, ExecNext, WorkerStep, CancelStep

\* The reconciliation bills what it was told.
LEMMA BillsEndStep ==
  ASSUME MaxRuns = 1, RefundInv, [LifecycleNext]_vars
  PROVE  BillsEnd'
<1> SUFFICES ASSUME reconciler'.pc = "bill"
             PROVE  reconciler'.outcome = job'[1] /\ job'[1] \notin {"none", "pending"}
  BY DEF BillsEnd
<1>1. CASE reconciler' = reconciler
  BY <1>1, EndedStays DEF RefundInv, BillsEnd
<1>2. CASE QueryProviderCancellation
  <2>1. /\ reconciler.request # NoJob /\ job[reconciler.request] # "pending"
        /\ reconciler' = [reconciler EXCEPT !.pc = "bill", !.outcome = job[reconciler.request]]
        /\ job' = job
    BY <1>2, RefundFacts DEF QueryProviderCancellation, ReconcilerGoto, NoReconciler,
       ReconcilerRow, jobVars
  <2>2. reconciler.request = 1 /\ reconciler'.outcome = job[1]
    BY <2>1, RefundFacts DEF ReconcilerRow
  <2>3. job[1] # "none"
    BY <2>1 DEF RefundInv, Traces, NoTrace
  <2> QED BY <2>1, <2>2, <2>3
<1>3. CASE ReconcilerStep /\ ~QueryProviderCancellation
  <2>1. reconciler'.pc # "bill"
    BY <1>3, RefundFacts DEF ReconcilerStep, ClaimReconciliation, BillCancellation,
       CloseCancellation, ReconcilerMarks, ReconcilerBills, ReconcilerGoto, NoReconciler,
       ReconcilerRow
  <2> QED BY <2>1
<1>4. CommandCrash => reconciler' = reconciler
  BY DEF CommandCrash, NoReconciler
<1>5. \/ ExecNext /\ UNCHANGED lifeVars
      \/ (\E w \in Workers : CancelledFailure(w) \/ ResultOfCancelledTask(w))
      \/ CancelRead \/ CancelStep \/ RetryStep
      \/ (\E r \in Runs : CancellerStep(r)) \/ UNCHANGED vars
      => reconciler' = reconciler
  BY DEF lifeVars, vars, CancelledFailure, ResultOfCancelledTask, CancelRead, CancelStep,
     CancelHydrate, CancelTaskIfStatus, CancelActiveTask, CancelBill, RetryStep, RetryRead,
     CheckRetryEligibility, RetryTaskWithBilling, CancellerStep, SaveCancelledRequest,
     ClaimTaskProviderCancellation, CancelProviderTask, CancellerMarks, CancellerBills
<1> QED BY <1>1, <1>2, <1>3, <1>4, <1>5 DEF LifecycleNext

LEMMA RefundKept ==
  ASSUME MaxRuns = 1, ~Pauses, ~Outages, ~WriteFaults, ~PollFaults
  PROVE  LifecycleSpec => []RefundInv
<1>1. RefundInv /\ [LifecycleNext]_vars => RefundInv'
  <2> SUFFICES ASSUME RefundInv, [LifecycleNext]_vars PROVE RefundInv'
    OBVIOUS
  <2>1. FirstInv
    BY DEF RefundInv
  <2>2. LedgerInv' /\ CancelsKnown'
    BY <2>1, LedgerStep, CancelsKnownStep DEF FirstInv, LedgerInv
  <2>3. FirstInv'
    BY <2>1, <2>2, FirstJob, FirstCharge, FirstReconciler DEF FirstInv
  <2> QED BY <2>3, RowTellsStep, ClearStep, TracesStep, BillsEndStep DEF RefundInv
<1> QED BY <1>1, RefundInit, PTL DEF LifecycleSpec

\* A worker refunds by what its call has answered, a cancel command a task that
\* nobody has taken and the reconciliation a job that the upstream has ended without
\* a result: no refund of a task that is not retried leaves a job that is still being
\* generated or has its result (RefundBilling, CancelBill, BillCancellation), if no
\* statement of a worker fails and no poll does.
THEOREM RefundBesideCancels ==
  ASSUME MaxRuns = 1, ~Pauses, ~Outages, ~WriteFaults, ~PollFaults
  PROVE  LifecycleSpec => RefundLeavesNoJob
<1>1. ASSUME RefundInv, [LifecycleNext]_vars, order[1] # "refunded", order'[1] = "refunded"
      PROVE  Resolved
  <2>1. /\ order \in [Runs -> OrderStatus] /\ \A w \in Workers : worker[w].run = 1
        /\ cancel.run = 1 /\ reconciler.run = 1 /\ Runs = {1} /\ 1 \in Runs
    BY <1>1, RefundFacts DEF WorkInv, SingleRun, CancelRow, ReconcilerRow
  <2>2. order'[1] # order[1] /\ order' # order
    BY <1>1
  <2>3. ~(order' = Uncertain(1) \/ order' = Settled(1) \/ order' = [order EXCEPT ![1] = "running"])
    BY <1>1, <2>1 DEF Uncertain, Settled
  <2>4. ASSUME NEW w \in Workers, FinishStep(w) PROVE Resolved
    <3>1. CASE RefundBilling(w)
      BY <1>1, <3>1 DEF RefundBilling, CloseBill, At, RefundInv, Clear
    <3>2. CASE ReviewBilling(w)
      <4>1. At(w, "review") /\ (RequiresReview(w) => order' = Uncertain(1))
        BY <2>1, <3>2 DEF ReviewBilling, CloseBill
      <4>2. worker[w].outcome # "unclear"
        BY <2>3, <4>1 DEF RequiresReview
      <4> QED BY <1>1, <4>1, <4>2 DEF RefundInv, Clear, At
    <3>3. CASE ~(RefundBilling(w) \/ ReviewBilling(w))
      <4>1. order' \in {order, Uncertain(1), Settled(1)}
        BY <2>1, <2>4, <3>3 DEF FinishStep, StopWithoutLease, DeferRunningTaskForProviderPoll,
           SettleFails, ExecutionFailure, PersistResult, SaveTaskCompletion, SaveFails,
           SettleBilling, BillingUnclear, CloseBill
      <4> QED BY <2>2, <2>3, <4>1
    <3> QED BY <3>1, <3>2, <3>3
  <2>5. ASSUME NEW w \in Workers PROVE ~PrepareStep(w)
    <3>1. ~MarkBillingRunning(w)
      BY <2>1, <2>3 DEF MarkBillingRunning
    <3> QED BY <2>2, <3>1 DEF PrepareStep, Start, FirstAttempt, RouteUnavailable, AdoptAttempt,
       UnsentAttempt, ResumedAttempt, UnknownAttempt, RejectedAttempt, SwitchTaskLogicalRoute,
       NoNextRoute, CreateRouteAttempt, AttemptNotCreated, BillingNotReady, RouteFails
  <2>6. ASSUME NEW w \in Workers PROVE ~CallStep(w)
    BY <2>1, <2>2, <2>3 DEF CallStep, MarkRouteAttemptDispatching, DispatchMarkFails, Resume,
       SubmitRefused, Submit, SubmitUnanswered, CallCancelled, LogOrder, LogTask, LogCall,
       LogFails, PollPending, PollDone, PollTimesOut, PollFails, PollLogFails, Refresh,
       FinishTaskRouteAttempt, FinishFails
  <2>7. CASE CancelBill
    <3>1. cancel.status = "queued" /\ cancel.pc = "bill"
      BY <2>1, <2>2, <2>3, <2>7 DEF CancelBill
    <3>2. Untaken
      BY <1>1, <3>1 DEF RefundInv, RowTells
    <3> QED BY <1>1, <3>2, RefundFacts DEF Untaken
  <2>8. CASE BillCancellation
    <3>1. reconciler.pc = "bill" /\ reconciler.outcome # "succeeded"
      BY <2>1, <2>2, <2>3, <2>8 DEF BillCancellation
    <3> QED BY <1>1, <3>1 DEF RefundInv, BillsEnd, Resolved
  <2>9. ~(\/ \E w \in Workers : \/ Claim(w) \/ NotStarted(w) \/ Crash(w) \/ LoseLease(w)
                                \/ CancelledFailure(w) \/ ResultOfCancelledTask(w)
          \/ ExpireLease \/ (\E r \in Runs : JobEnds(r))
          \/ CancelRead \/ CancelHydrate \/ CancelTaskIfStatus \/ CancelActiveTask
          \/ CommandCrash \/ UNCHANGED vars)
    BY <2>2 DEF Claim, NotStarted, Crash, LoseLease, CancelledFailure, ResultOfCancelledTask,
       ExpireLease, JobEnds, CancelRead, CancelHydrate, CancelTaskIfStatus, CancelActiveTask,
       CommandCrash, vars, execVars
  <2>10. ReconcilerStep => BillCancellation
    BY <2>1, <2>2, <2>3 DEF ReconcilerStep, ClaimReconciliation, QueryProviderCancellation,
       CloseCancellation, ReconcilerMarks, ReconcilerBills, execVars
  <2>11. ~RetryStep
    <3>1. ~(task.run < MaxRuns)
      BY <1>1, RefundFacts
    <3> QED BY <2>2, <3>1 DEF RetryStep, RetryRead, CheckRetryEligibility, RetryTaskWithBilling,
           execVars
  <2>12. ASSUME NEW r \in Runs PROVE ~CancellerStep(r)
    <3>1. r = 1
      BY <2>1
    <3> QED BY <2>2, <2>3, <3>1 DEF CancellerStep, SaveCancelledRequest,
       ClaimTaskProviderCancellation, CancelProviderTask, CancellerMarks, CancellerBills, execVars
  <2> QED BY <1>1, <2>4, <2>5, <2>6, <2>7, <2>8, <2>9, <2>10, <2>11, <2>12
          DEF LifecycleNext, ExecNext, WorkerStep, CancelStep
<1>2. RefundInv /\ [LifecycleNext]_vars =>
        [\A r \in Runs : order[r] # "refunded" /\ order'[r] = "refunded" =>
           job[r] \notin {"pending", "succeeded"}]_execVars
  <2> SUFFICES ASSUME RefundInv, [LifecycleNext]_vars, NEW r \in Runs,
                      order[r] # "refunded", order'[r] = "refunded"
               PROVE  job[r] \notin {"pending", "succeeded"}
    OBVIOUS
  <2>1. r = 1
    BY RefundFacts
  <2> QED BY <1>1, <2>1 DEF Resolved
<1> QED BY <1>2, RefundKept, PTL DEF LifecycleSpec, RefundLeavesNoJob
=============================================================================
