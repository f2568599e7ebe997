--------------------------- MODULE TaskExecution ----------------------------
(***************************************************************************)
(* One generation task from the queue to a terminal state: the database    *)
(* row, its billing order, its route attempts, the upstream jobs and the   *)
(* workers that claim it (internal/service/task_worker.go,                 *)
(* task_route_executor.go, model_router.go, task_terminal.go and the task  *)
(* functions of internal/repository/repository.go).                        *)
(*                                                                         *)
(* The task is one with a logical model, a billing order and an upstream   *)
(* that answers a submission with a job id, which is polled.  A run is one *)
(* passage through the queue; later runs are retries (TaskLifecycle).  An  *)
(* upstream job is named by the run that submitted it.  A run begins with  *)
(* supply route 1; a route is found unusable when it is looked up, at any  *)
(* time.  next_poll_at only delays a claim and is left out.                *)
(*                                                                         *)
(* A step of a worker is one database statement or one upstream call, so   *)
(* anything may happen between two.  A statement whose failure makes the   *)
(* worker give up with the row as it is (`return err`) is a Crash.         *)
(*                                                                         *)
(* An operator named ...Variant is a plausible mistake in the definition   *)
(* that follows it; no specification uses it (README, mutants).            *)
(***************************************************************************)
EXTENDS Integers, FiniteSets, FiniteSetsExt

CONSTANTS
  Workers,        \* executions that can be in progress at once
  NoOwner,        \* lease_owner of a row that nobody holds
  MaxRuns,        \* bound: passages of the task through the queue
  MaxRoutes,      \* supply routes of the logical model
  MaxFaults,      \* bound: crashes, lost leases, lost answers, failed writes
  Pauses,         \* a lease may expire under a worker that does not notice
  WriteFaults,    \* a database statement of a worker may fail
  Outages,        \* the statement after a failed one may fail with it
  PollFaults,     \* a poll may fail although the job is alive
  DeferSupported  \* the protocol resumes a poll later (shouldDeferVideoProviderTask)

ASSUME ExecutionConstants ==
  /\ NoOwner \notin Workers
  /\ MaxRuns \in Nat \ {0}
  /\ MaxRoutes \in Nat \ {0}
  /\ MaxFaults \in Nat
  /\ {Pauses, WriteFaults, Outages, PollFaults, DeferSupported} \subseteq BOOLEAN

VARIABLES
  task,      \* the task row
  order,     \* status of the billing order of each run
  orderJob,  \* provider_request_id of each order
  attempt,   \* the route attempt rows of each run
  callLog,   \* the log of the call that created the job of each run
  job,       \* upstream: state of the job each run submitted last
  jobs,      \* upstream: how many jobs each run submitted
  worker,    \* what each worker goroutine holds in memory
  faults     \* faults so far

jobVars  == <<job, jobs>>
logVars  == <<orderJob, callLog>>
execVars == <<task, order, attempt, logVars, jobVars, worker, faults>>

Runs   == 1 .. MaxRuns
Routes == 1 .. MaxRoutes
NoJob  == 0
JobIds == Runs \cup {NoJob}

OpenOrder      == {"reserved", "running", "uncertain"}
OrderStatus    == {"absent", "settled", "refunded"} \cup OpenOrder
TerminalStatus == {"succeeded", "failed", "cancelled"}
TaskStatus     == {"queued", "running"} \cup TerminalStatus
DispatchState  == {"none", "not_sent", "submission_unknown", "accepted", "rejected_no_job"}
LogState       == {"none", "succeeded", "failed"}
JobState       == {"none", "pending", "succeeded", "failed", "cancelled"}

\* How a provider call ended.  The slot outcomes come from AcquireChannelSlot,
\* which every request passes: full, waited past the deadline, or cancelled.
SlotOutcome == {"slot_full", "slot_timeout", "slot_cancelled"}
Cancelled   == {"cancelled", "slot_cancelled"}
Outcome     == {"none", "success", "failed", "unclear", "rejected"} \cup Cancelled \cup SlotOutcome

WorkerPc == {"idle", "start", "route", "adopt", "create", "mark_running", "dispatch", "call",
             "log_order", "log_task", "log_call", "poll", "refresh", "finish", "switch",
             "failure", "result", "save", "settle", "refund", "uncertain", "review"}

NoAttempt == [state |-> "none", request |-> NoJob, route |-> 1]

IdleWorker == [pc |-> "idle", run |-> 1, request |-> NoJob, target |-> NoJob, route |-> 1,
               attempt |-> 1, dispatch |-> "none", outcome |-> "none", ctx |-> "live"]

ExecTypeOK ==
  /\ task \in [status : TaskStatus, owner : Workers \cup {NoOwner}, lease : BOOLEAN,
               run : Runs, route : Routes, request : JobIds]
  /\ order \in [Runs -> OrderStatus]
  /\ orderJob \in [Runs -> JobIds]
  /\ attempt \in [Runs -> [Routes -> [state : DispatchState, request : JobIds,
                                     route : Routes]]]
  /\ callLog \in [Runs -> LogState]
  /\ job \in [Runs -> JobState]
  /\ jobs \in [Runs -> 0 .. 2]
  /\ worker \in [Workers -> [pc : WorkerPc, run : Runs, request : JobIds, target : JobIds,
                   route : Routes, attempt : Routes, dispatch : DispatchState,
                   outcome : Outcome, ctx : {"live", "lease_lost", "cancelled"}]]
  /\ faults \in 0 .. MaxFaults

\* CreateTask has queued the task and reserved its order.
ExecInit ==
  /\ task = [status |-> "queued", owner |-> NoOwner, lease |-> FALSE,
             run |-> 1, route |-> 1, request |-> NoJob]
  /\ order = [r \in Runs |-> IF r = 1 THEN "reserved" ELSE "absent"]
  /\ orderJob = [r \in Runs |-> NoJob]
  /\ attempt = [r \in Runs |-> [n \in Routes |-> NoAttempt]]
  /\ callLog = [r \in Runs |-> "none"]
  /\ job = [r \in Runs |-> "none"]
  /\ jobs = [r \in Runs |-> 0]
  /\ worker = [w \in Workers |-> IdleWorker]
  /\ faults = 0

(***************************************************************************)
(* Helpers.                                                                *)
(***************************************************************************)
At(w, pc)   == worker[w].pc = pc
Goto(w, pc) == worker' = [worker EXCEPT ![w].pc = pc]
Stop(w)     == worker' = [worker EXCEPT ![w] = IdleWorker]
Working(w)  == ~At(w, "idle")
Ends(w, outcome, pc) == worker' = [worker EXCEPT ![w].pc = pc, ![w].outcome = outcome]

Fault == faults < MaxFaults /\ faults' = faults + 1

\* taskLeaseWriter: the row is still running under w's unexpired lease.
Fenced(w) == task.status = "running" /\ task.owner = w /\ task.lease

Released(row) == [row EXCEPT !.owner = NoOwner, !.lease = FALSE]

\* The billing calls of the coordinator, one transaction of CreditLedger each.
Uncertain(r) == IF order[r] \in {"reserved", "running"}
                  THEN [order EXCEPT ![r] = "uncertain"] ELSE order
Refunded(r)  == IF order[r] \in OpenOrder THEN [order EXCEPT ![r] = "refunded"] ELSE order
Settled(r)   == IF order[r] \in OpenOrder THEN [order EXCEPT ![r] = "settled"] ELSE order

Attempts(r) == {n \in Routes : attempt[r][n].state # "none"}

TerminalVariant(w, status, billing) ==   \* a missed condition does not stop the billing
  /\ task' = IF Fenced(w) THEN Released([task EXCEPT !.status = status]) ELSE task
  /\ Goto(w, billing)

\* UpdateTaskTerminalState: conditional on the lease; who misses it stops and
\* touches neither the bill nor the session.
Terminal(w, status, billing) ==
  \/ Fenced(w) /\ task' = Released([task EXCEPT !.status = status]) /\ Goto(w, billing)
  \/ ~Fenced(w) /\ task' = task /\ Stop(w)

(***************************************************************************)
(* Claiming.                                                               *)
(***************************************************************************)
ClaimVariant(w) ==   \* running rows are not taken over
  /\ At(w, "idle")
  /\ task.status = "queued"
  /\ task' = [task EXCEPT !.status = "running", !.owner = w, !.lease = TRUE]
  /\ worker' = [worker EXCEPT ![w] = [IdleWorker EXCEPT !.pc = "start", !.run = task.run,
                                        !.request = task.request, !.route = task.route]]
  /\ UNCHANGED <<order, attempt, logVars, jobVars, faults>>

\* ClaimNextTask, with a fresh owner token for every claim.
Claim(w) ==
  /\ At(w, "idle")
  /\ task.status = "queued" \/ (task.status = "running" /\ ~task.lease)
  /\ task' = [task EXCEPT !.status = "running", !.owner = w, !.lease = TRUE]
  /\ worker' = [worker EXCEPT ![w] = [IdleWorker EXCEPT !.pc = "start", !.run = task.run,
                                        !.request = task.request, !.route = task.route]]
  /\ UNCHANGED <<order, attempt, logVars, jobVars, faults>>

\* The process drains before the execution starts: ReleaseTaskLease.
NotStarted(w) ==
  /\ At(w, "start")
  /\ Fault
  /\ task' = IF task.status = "running" /\ task.owner = w THEN Released(task) ELSE task
  /\ Stop(w)
  /\ UNCHANGED <<order, attempt, logVars, jobVars>>

\* A row that was cancelled before the execution registered, and a progress
\* write that misses the lease, end it without any call.
Start(w) ==
  /\ At(w, "start")
  /\ IF Fenced(w) THEN Goto(w, "route") ELSE Stop(w)
  /\ UNCHANGED <<task, order, attempt, logVars, jobVars, faults>>

(***************************************************************************)
(* The route attempt of the run (beginTaskRouteAttempt).                   *)
(***************************************************************************)
SaveAttempt(w, n, state, request) ==
  attempt' = [attempt EXCEPT ![worker[w].run][n] =
               [state |-> state, request |-> request, route |-> @.route]]

\* The attempt the execution goes on with.
Take(w, n, state, request, pc) ==
  worker' = [worker EXCEPT ![w].pc = pc, ![w].attempt = n, ![w].dispatch = state,
                           ![w].request = request]

FirstAttempt(w) ==
  /\ At(w, "route")
  /\ Attempts(worker[w].run) = {}
  /\ Take(w, 1, "none", worker[w].request, "create")
  /\ UNCHANGED <<task, order, attempt, logVars, jobVars, faults>>

\* routedModelForTaskSelection: the route of the task is no longer configured,
\* or blocked for a while, and no attempt was made with it.
RouteUnavailable(w) ==
  /\ At(w, "route")
  /\ Attempts(worker[w].run) = {}
  /\ Goto(w, "switch")
  /\ UNCHANGED <<task, order, attempt, logVars, jobVars, faults>>

UnsentAttempt(w) ==
  LET run == worker[w].run IN
  /\ At(w, "route")
  /\ Attempts(run) # {}
  /\ LET n == Max(Attempts(run)) IN
       /\ attempt[run][n].state = "not_sent"
       /\ Take(w, n, "not_sent", worker[w].request, "mark_running")
  /\ UNCHANGED <<task, order, attempt, logVars, jobVars, faults>>

\* A submitted attempt is only taken up again with the job id of the row or,
\* written back to the row, of the attempt.
ResumedAttempt(w) ==
  LET run == worker[w].run IN
  /\ At(w, "route")
  /\ Attempts(run) # {}
  /\ LET n     == Max(Attempts(run))
         saved == attempt[run][n]
         job0  == IF worker[w].request # NoJob THEN worker[w].request ELSE saved.request
     IN  /\ saved.state \in {"submission_unknown", "accepted"}
         /\ job0 # NoJob
         /\ task' = IF worker[w].request = NoJob THEN [task EXCEPT !.request = job0] ELSE task
         /\ worker' = [worker EXCEPT
              ![w].pc = IF saved.state = "accepted" THEN "mark_running" ELSE "adopt",
              ![w].attempt = n, ![w].dispatch = "accepted", ![w].request = job0,
              ![w].target = saved.request]
  /\ UNCHANGED <<order, attempt, logVars, jobVars, faults>>

\* The copy of an attempt of unknown outcome is saved as accepted, in a statement
\* after that of the row.
AdoptAttempt(w) ==
  /\ At(w, "adopt")
  /\ SaveAttempt(w, worker[w].attempt, "accepted", worker[w].target)
  /\ Goto(w, "mark_running")
  /\ UNCHANGED <<task, order, logVars, jobVars, faults>>

\* Without an id nothing is sent again.
UnknownAttempt(w) ==
  LET run == worker[w].run IN
  /\ At(w, "route")
  /\ Attempts(run) # {}
  /\ LET saved == attempt[run][Max(Attempts(run))] IN
       /\ saved.state \in {"submission_unknown", "accepted"}
       /\ saved.request = NoJob /\ worker[w].request = NoJob
  /\ Terminal(w, "failed", "uncertain")
  /\ UNCHANGED <<order, attempt, logVars, jobVars, faults>>

RejectedAttempt(w) ==
  LET run == worker[w].run IN
  /\ At(w, "route")
  /\ Attempts(run) # {}
  /\ attempt[run][Max(Attempts(run))].state = "rejected_no_job"
  /\ Goto(w, "switch")
  /\ UNCHANGED <<task, order, attempt, logVars, jobVars, faults>>

\* A failed statement of beginTaskRouteAttempt: markPreparationFailure refunds
\* with the reason that no upstream request was sent.
RouteFails(w) ==
  /\ At(w, "route") \/ At(w, "adopt")
  /\ WriteFaults /\ Fault
  /\ Terminal(w, "failed", "refund")
  /\ UNCHANGED <<order, attempt, logVars, jobVars>>

(***************************************************************************)
(* The next supply route (switchTaskToNextRoute).  The execution comes     *)
(* here from beginTaskRouteAttempt with no outcome and from the execution  *)
(* loop with the refusal of the route before.                              *)
(***************************************************************************)
\* SwitchTaskLogicalRoute: one transaction, conditional on the row's status
\* and route and on an order that may still change its price.  Any route may be
\* next that no attempt of the run has used.
SwitchTaskLogicalRoute(w) ==
  LET run    == worker[w].run
      number == Cardinality(Attempts(run)) + 1
      tried  == {attempt[run][n].route : n \in Attempts(run)}
  IN
  /\ At(w, "switch")
  /\ number \in Routes
  /\ task.status = "running" /\ task.route = worker[w].route
  /\ order[run] \in {"reserved", "running"}
  /\ \E next \in Routes \ tried :
       /\ task' = [task EXCEPT !.route = next]
       /\ worker' = [worker EXCEPT ![w].pc = "create", ![w].route = next,
                                    ![w].attempt = number, ![w].request = NoJob]
  /\ UNCHANGED <<order, attempt, logVars, jobVars, faults>>

\* No route is eligible, or the transaction does not apply: the execution loop
\* keeps the refusal it has, a reclaimed task fails before any call.
NoNextRoute(w) ==
  /\ At(w, "switch")
  /\ \/ worker[w].outcome # "none" /\ task' = task /\ Goto(w, "failure")
     \/ worker[w].outcome = "none" /\ Terminal(w, "failed", "refund")
  /\ UNCHANGED <<order, attempt, logVars, jobVars, faults>>

CreateRouteAttempt(w) ==
  LET n == worker[w].attempt IN
  /\ At(w, "create")
  /\ attempt[worker[w].run][n].state = "none"
  /\ attempt' = [attempt EXCEPT ![worker[w].run][n] =
                   [state |-> "not_sent", request |-> NoJob, route |-> worker[w].route]]
  /\ Take(w, n, "not_sent", worker[w].request,
          IF worker[w].outcome = "none" THEN "mark_running" ELSE "dispatch")
  /\ UNCHANGED <<task, order, logVars, jobVars, faults>>

\* The number of an attempt is unique in its run (idx_route_attempt_run_number),
\* and the write may fail: as when there is no route.
AttemptNotCreated(w) ==
  /\ At(w, "create")
  /\ \/ /\ attempt[worker[w].run][worker[w].attempt].state # "none"
        /\ faults' = faults
     \/ WriteFaults /\ Fault
  /\ \/ worker[w].outcome # "none" /\ task' = task /\ Goto(w, "failure")
     \/ worker[w].outcome = "none" /\ Terminal(w, "failed", "refund")
  /\ UNCHANGED <<order, attempt, logVars, jobVars>>

(***************************************************************************)
(* The bill starts running, then the attempt is marked before the call.    *)
(***************************************************************************)
MarkBillingRunning(w) ==
  LET run == worker[w].run IN
  /\ At(w, "mark_running")
  /\ order[run] \in {"reserved", "running"}
  /\ order' = [order EXCEPT ![run] = "running"]
  /\ Goto(w, "dispatch")
  /\ UNCHANGED <<task, attempt, logVars, jobVars, faults>>

\* ErrBillingStateConflict, or a failed statement: refunded as not sent.
BillingNotReady(w) ==
  /\ At(w, "mark_running")
  /\ \/ order[worker[w].run] \notin {"reserved", "running"} /\ faults' = faults
     \/ WriteFaults /\ Fault
  /\ Terminal(w, "failed", "refund")
  /\ UNCHANGED <<order, attempt, logVars, jobVars>>

DispatchingVariant(w) ==   \* the mark is kept in memory until the call is over
  /\ At(w, "dispatch")
  /\ worker' = [worker EXCEPT ![w].pc = "call",
                  ![w].dispatch = IF @ = "not_sent" THEN "submission_unknown" ELSE @]
  /\ UNCHANGED <<task, order, attempt, logVars, jobVars, faults>>

\* markRouteAttemptDispatching: saved without any condition.
MarkRouteAttemptDispatching(w) ==
  /\ At(w, "dispatch")
  /\ \/ /\ worker[w].dispatch = "not_sent"
        /\ SaveAttempt(w, worker[w].attempt, "submission_unknown", NoJob)
        /\ worker' = [worker EXCEPT ![w].pc = "call", ![w].dispatch = "submission_unknown"]
     \/ /\ worker[w].dispatch # "not_sent"
        /\ Goto(w, "call")
        /\ UNCHANGED attempt
  /\ UNCHANGED <<task, order, logVars, jobVars, faults>>

\* The write fails: nothing was called, and the copy says submission_unknown.
DispatchMarkFails(w) ==
  /\ At(w, "dispatch") /\ worker[w].dispatch = "not_sent"
  /\ WriteFaults /\ Fault
  /\ worker' = [worker EXCEPT ![w].pc = "failure", ![w].outcome = "failed",
                               ![w].dispatch = "submission_unknown"]
  /\ UNCHANGED <<task, order, attempt, logVars, jobVars>>

(***************************************************************************)
(* The provider call (processTask).                                        *)
(***************************************************************************)
\* With a job id the call goes on with polling that job.
Resume(w) ==
  /\ At(w, "call")
  /\ worker[w].request # NoJob
  /\ worker' = [worker EXCEPT ![w].pc = "poll", ![w].target = worker[w].request]
  /\ UNCHANGED <<task, order, attempt, logVars, jobVars, faults>>

CreatesJob(w) ==
  /\ At(w, "call") /\ worker[w].request = NoJob
  /\ worker[w].ctx = "live"
  /\ jobs[worker[w].run] < 2
  /\ job' = [job EXCEPT ![worker[w].run] = "pending"]
  /\ jobs' = [jobs EXCEPT ![worker[w].run] = @ + 1]

Submit(w) ==
  /\ CreatesJob(w)
  /\ worker' = [worker EXCEPT ![w].pc = "log_order", ![w].target = worker[w].run]
  /\ UNCHANGED <<task, order, attempt, logVars, faults>>

\* The job exists, but its answer does not arrive.
SubmitUnanswered(w) ==
  /\ CreatesJob(w)
  /\ Fault
  /\ Ends(w, "unclear", "refresh")
  /\ UNCHANGED <<task, order, attempt, logVars>>

\* No job: an error answer, one of the safe refusals 401, 403, 404 and 429, or
\* no channel slot.  The failed call is logged; only its success would matter.
SubmitRefused(w) ==
  /\ At(w, "call") /\ worker[w].request = NoJob
  /\ worker[w].ctx = "live"
  /\ \E outcome \in {"failed", "rejected", "slot_full", "slot_timeout"} :
       Ends(w, outcome, "refresh")
  /\ UNCHANGED <<task, order, attempt, logVars, jobVars, faults>>

\* A context that is over: the request or the wait for a slot ends at once, and
\* a submission whose answer was on its way is given up.
CallCancelled(w) ==
  /\ At(w, "call") \/ At(w, "log_order") \/ At(w, "poll")
  /\ worker[w].ctx # "live"
  /\ \E outcome \in Cancelled :
       /\ At(w, "log_order") => outcome = "cancelled"
       /\ Ends(w, outcome, "refresh")
  /\ UNCHANGED <<task, order, attempt, logVars, jobVars, faults>>

(***************************************************************************)
(* recordProviderRequest: three writes without any condition; when one     *)
(* fails the rest is skipped and the order becomes uncertain.              *)
(***************************************************************************)
LogOrder(w) ==
  /\ At(w, "log_order")
  /\ orderJob' = [orderJob EXCEPT ![worker[w].run] = worker[w].target]
  /\ Goto(w, "log_task")
  /\ UNCHANGED <<task, order, attempt, callLog, jobVars, faults>>

LogTask(w) ==
  /\ At(w, "log_task")
  /\ task' = [task EXCEPT !.request = worker[w].target]
  /\ Goto(w, "log_call")
  /\ UNCHANGED <<order, attempt, logVars, jobVars, faults>>

LogCall(w) ==
  /\ At(w, "log_call")
  /\ callLog' = [callLog EXCEPT ![worker[w].run] = "succeeded"]
  /\ Goto(w, "poll")
  /\ UNCHANGED <<task, order, attempt, orderJob, jobVars, faults>>

LogFails(w) ==
  /\ At(w, "log_order") \/ At(w, "log_task") \/ At(w, "log_call")
  /\ WriteFaults /\ Fault
  /\ order' = Uncertain(worker[w].run) \/ (Outages /\ order' = order)
  /\ Goto(w, "poll")
  /\ UNCHANGED <<task, attempt, logVars, jobVars>>

(***************************************************************************)
(* Polling.  Every poll is logged like the submission: the job id goes to  *)
(* the order and to the row again, whatever has become of them, and the    *)
(* log of the creating call takes over how the poll ended                  *)
(* (mergeVideoAPICallLog).                                                 *)
(***************************************************************************)
Logged == {r \in Runs : callLog[r] # "none"}

LogPoll(w, status) ==
  /\ orderJob' = [orderJob EXCEPT ![worker[w].run] = worker[w].target]
  /\ task' = [task EXCEPT !.request = worker[w].target]
  /\ callLog' = [r \in Runs |-> IF r \in Logged /\ r = Max(Logged) THEN status ELSE callLog[r]]

PollPending(w) ==
  /\ At(w, "poll") /\ worker[w].ctx = "live"
  /\ job[worker[w].target] = "pending"
  /\ LogPoll(w, "succeeded")
  /\ UNCHANGED <<order, attempt, jobVars, worker, faults>>

PollDoneVariant(w) ==   \* every end of the job counts as a result
  /\ At(w, "poll") /\ worker[w].ctx = "live"
  /\ job[worker[w].target] # "pending"
  /\ LogPoll(w, "succeeded")
  /\ Ends(w, "success", "refresh")
  /\ UNCHANGED <<order, attempt, jobVars, faults>>

PollDone(w) ==
  /\ At(w, "poll") /\ worker[w].ctx = "live"
  /\ \/ /\ job[worker[w].target] = "succeeded"
        /\ LogPoll(w, "succeeded")
        /\ Ends(w, "success", "refresh")
     \* a failed job may or may not count as a failed call
     \/ /\ job[worker[w].target] \in {"failed", "cancelled"}
        /\ \E status \in {"succeeded", "failed"} : LogPoll(w, status)
        /\ Ends(w, "failed", "refresh")
  /\ UNCHANGED <<order, attempt, jobVars, faults>>

\* The polling window closes.
PollTimesOut(w) ==
  /\ At(w, "poll") /\ worker[w].ctx = "live"
  /\ Fault
  /\ Ends(w, "unclear", "refresh")
  /\ UNCHANGED <<task, order, attempt, logVars, jobVars>>

\* One poll or the download fails, or finds no channel slot (whose limit is read
\* from the database): the call is over.
PollFails(w) ==
  /\ At(w, "poll") /\ worker[w].ctx = "live"
  /\ PollFaults /\ Fault
  /\ LogPoll(w, "failed") \/ (Outages /\ UNCHANGED <<task, logVars>>)
  /\ \E outcome \in {"failed", "unclear", "rejected", "slot_full", "slot_timeout"} :
       Ends(w, outcome, "refresh")
  /\ UNCHANGED <<order, attempt, jobVars>>

PollLogFails(w) ==
  /\ At(w, "poll") /\ worker[w].ctx = "live"
  /\ WriteFaults /\ Fault
  /\ order' = Uncertain(worker[w].run)
  /\ UNCHANGED <<task, attempt, logVars, jobVars, worker>>

(***************************************************************************)
(* After the call.                                                         *)
(***************************************************************************)
\* refreshTaskProviderState: the id the call has written to the row.
Refresh(w) ==
  /\ At(w, "refresh")
  /\ worker' = [worker EXCEPT ![w].pc = "finish",
                  ![w].request = IF task.request # NoJob THEN task.request ELSE @]
  /\ UNCHANGED <<task, order, attempt, logVars, jobVars, faults>>

FinishedStateVariant(w) ==   \* every failure without an id is a safe refusal
  IF worker[w].outcome = "success" \/ worker[w].request # NoJob
    THEN "accepted" ELSE "rejected_no_job"

\* finishTaskRouteAttempt saves the copy without any condition.
FinishedState(w) ==
  IF worker[w].outcome = "success" \/ worker[w].request # NoJob THEN "accepted"
  ELSE IF worker[w].outcome \in {"rejected"} \cup SlotOutcome THEN "rejected_no_job"
  ELSE "submission_unknown"

\* Where the execution goes: the loss of the lease ends it, a refusal that
\* created no job leads to the next route unless the context is over.
AfterCall(w) ==
  CASE worker[w].outcome = "success" -> "result"
    [] FinishedState(w) = "rejected_no_job"
         /\ worker[w].outcome \notin {"slot_cancelled", "slot_timeout"} -> "switch"
    [] OTHER -> "failure"

FinishTaskRouteAttempt(w) ==
  /\ At(w, "finish")
  /\ SaveAttempt(w, worker[w].attempt, FinishedState(w), worker[w].request)
  /\ worker' = [worker EXCEPT ![w].pc = AfterCall(w), ![w].dispatch = FinishedState(w)]
  /\ UNCHANGED <<task, order, logVars, jobVars, faults>>

\* The save is only logged when it fails.
FinishFails(w) ==
  /\ At(w, "finish")
  /\ WriteFaults /\ Fault
  /\ worker' = [worker EXCEPT ![w].pc = AfterCall(w), ![w].dispatch = FinishedState(w)]
  /\ UNCHANGED <<task, order, attempt, logVars, jobVars>>

\* An execution that has noticed the loss of its lease saves nothing.
StopWithoutLease(w) ==
  /\ At(w, "failure") \/ At(w, "result")
  /\ worker[w].ctx = "lease_lost"
  /\ Stop(w)
  /\ UNCHANGED <<task, order, attempt, logVars, jobVars, faults>>

\* The row stays running and free; a later claim polls the same job.
DeferRunningTaskForProviderPoll(w) ==
  /\ At(w, "failure") /\ worker[w].ctx # "lease_lost"
  /\ DeferSupported
  /\ worker[w].outcome \in {"unclear", "slot_timeout"} /\ worker[w].request # NoJob
  /\ task' = IF Fenced(w) THEN Released(task) ELSE task
  /\ Stop(w)
  /\ UNCHANGED <<order, attempt, logVars, jobVars, faults>>

ExecutionFailureVariant(w) ==   \* what the provider delivered is charged
  /\ At(w, "failure")
  /\ worker[w].ctx # "lease_lost" /\ worker[w].outcome \notin Cancelled
  /\ Terminal(w, "failed",
       CASE worker[w].outcome = "success"      -> "settle"
         [] worker[w].outcome \in SlotOutcome -> "refund"
         [] OTHER                              -> "review")
  /\ UNCHANGED <<order, attempt, logVars, jobVars, faults>>

\* handleExecutionFailure; that of a cancelled call is in TaskLifecycle.  A
\* success that arrives here is one whose media could not be stored.
ExecutionFailure(w) ==
  /\ At(w, "failure")
  /\ worker[w].ctx # "lease_lost" /\ worker[w].outcome \notin Cancelled
  /\ Terminal(w, "failed",
       CASE worker[w].outcome = "success"      -> "uncertain"
         [] worker[w].outcome \in SlotOutcome -> "refund"
         [] OTHER                              -> "review")
  /\ UNCHANGED <<order, attempt, logVars, jobVars, faults>>

\* persistGeneratedMediaResult
PersistResult(w) ==
  /\ At(w, "result") /\ worker[w].ctx # "lease_lost"
  /\ \/ Goto(w, "save") /\ faults' = faults
     \/ WriteFaults /\ Fault /\ Goto(w, "failure")
  /\ UNCHANGED <<task, order, attempt, logVars, jobVars>>

SaveTaskCompletionVariant(w) ==   \* the row is saved without any condition
  /\ At(w, "save")
  /\ task' = [task EXCEPT !.status = "succeeded", !.request = worker[w].request]
  /\ Goto(w, "settle")
  /\ UNCHANGED <<order, attempt, logVars, jobVars, faults>>

\* SaveTaskCompletion under the lease, else ErrTaskStateConflict.  The whole
\* row is saved, the lease included.
SaveTaskCompletion(w) ==
  /\ At(w, "save")
  /\ task.status # "cancelled"
  /\ \/ /\ Fenced(w)
        /\ task' = [task EXCEPT !.status = "succeeded", !.request = worker[w].request]
        /\ Goto(w, "settle")
     \/ ~Fenced(w) /\ task' = task /\ Stop(w)
  /\ UNCHANGED <<order, attempt, logVars, jobVars, faults>>

\* Quota or database error: handleResultPersistenceFailure.
SaveFails(w) ==
  /\ At(w, "save")
  /\ WriteFaults /\ Fault
  /\ Terminal(w, "failed", "uncertain")
  /\ UNCHANGED <<order, attempt, logVars, jobVars>>

(***************************************************************************)
(* The bill of a task that has reached a terminal state, in a statement of *)
(* its own.                                                                *)
(***************************************************************************)
CloseBill(w, pc, bill) ==
  /\ At(w, pc)
  /\ order' = bill
  /\ Stop(w)
  /\ UNCHANGED <<task, attempt, logVars, jobVars, faults>>

\* BillingFailureRequiresReview: an unclear error, an order that is uncertain
\* already, or a successful billable call of this task, of whatever run.
RequiresReview(w) ==
  \/ worker[w].outcome = "unclear"
  \/ order[worker[w].run] = "uncertain"
  \/ \E r \in Runs : callLog[r] = "succeeded"

SettleBilling(w)   == CloseBill(w, "settle", Settled(worker[w].run))
\* A bill that cannot be settled goes to review.
SettleFails(w) ==
  /\ At(w, "settle")
  /\ WriteFaults /\ Fault
  /\ order' = Uncertain(worker[w].run) \/ (Outages /\ order' = order)
  /\ Stop(w)
  /\ UNCHANGED <<task, attempt, logVars, jobVars>>

RefundBilling(w)   == CloseBill(w, "refund", Refunded(worker[w].run))
BillingUnclear(w)  == CloseBill(w, "uncertain", Uncertain(worker[w].run))
ReviewBilling(w)   == CloseBill(w, "review", IF RequiresReview(w)
                                               THEN Uncertain(worker[w].run)
                                               ELSE Refunded(worker[w].run))

(***************************************************************************)
(* Leases, crashes, and the upstream.                                      *)
(***************************************************************************)
\* The goroutine is gone, its lease is not.
Crash(w) ==
  /\ Working(w)
  /\ Fault
  /\ Stop(w)
  /\ UNCHANGED <<task, order, attempt, logVars, jobVars>>

\* The lease ends 45 seconds after the last renewal: under an execution that is
\* gone, or under one that has been paused for that long, whether or not it
\* noticed at the last renewal.
ExpireLease ==
  /\ task.lease
  /\ \E w \in Workers :
       /\ task.owner = w
       /\ \/ At(w, "idle") /\ faults' = faults
          \/ Pauses /\ Working(w) /\ Fault
  /\ task' = [task EXCEPT !.lease = FALSE]
  /\ UNCHANGED <<order, attempt, logVars, jobVars, worker>>

\* A renewal fails: the row is no longer ours, or the database or the global
\* slot did not answer in time.
LoseLease(w) ==
  /\ Working(w) /\ worker[w].ctx = "live"
  /\ \/ ~Fenced(w) /\ faults' = faults
     \/ Fenced(w) /\ Fault
  /\ worker' = [worker EXCEPT ![w].ctx = "lease_lost"]
  /\ UNCHANGED <<task, order, attempt, logVars, jobVars>>

JobEnds(r) ==
  /\ job[r] = "pending"
  /\ \E state \in {"succeeded", "failed"} : job' = [job EXCEPT ![r] = state]
  /\ UNCHANGED <<task, order, attempt, logVars, jobs, worker, faults>>

(***************************************************************************)
(* The specification.                                                      *)
(***************************************************************************)
PrepareStep(w) ==
  \/ Start(w)
  \/ FirstAttempt(w) \/ RouteUnavailable(w) \/ UnsentAttempt(w) \/ UnknownAttempt(w)
  \/ ResumedAttempt(w) \/ AdoptAttempt(w)
  \/ RejectedAttempt(w) \/ SwitchTaskLogicalRoute(w) \/ NoNextRoute(w)
  \/ CreateRouteAttempt(w) \/ AttemptNotCreated(w)
  \/ MarkBillingRunning(w) \/ BillingNotReady(w) \/ RouteFails(w)

CallStep(w) ==
  \/ MarkRouteAttemptDispatching(w) \/ DispatchMarkFails(w)
  \/ Resume(w) \/ Submit(w) \/ SubmitUnanswered(w) \/ SubmitRefused(w) \/ CallCancelled(w)
  \/ LogOrder(w) \/ LogTask(w) \/ LogCall(w) \/ LogFails(w)
  \/ PollPending(w) \/ PollDone(w) \/ PollTimesOut(w) \/ PollFails(w) \/ PollLogFails(w)
  \/ Refresh(w) \/ FinishTaskRouteAttempt(w) \/ FinishFails(w)

FinishStep(w) ==
  \/ StopWithoutLease(w) \/ DeferRunningTaskForProviderPoll(w)
  \/ ExecutionFailure(w)
  \/ PersistResult(w) \/ SaveTaskCompletion(w) \/ SaveFails(w)
  \/ SettleBilling(w) \/ SettleFails(w)
  \/ RefundBilling(w) \/ BillingUnclear(w) \/ ReviewBilling(w)

WorkerStep(w) == PrepareStep(w) \/ CallStep(w) \/ FinishStep(w)

ExecNext ==
  \/ \E w \in Workers :
       Claim(w) \/ NotStarted(w) \/ WorkerStep(w) \/ Crash(w) \/ LoseLease(w)
  \/ ExpireLease
  \/ \E r \in Runs : JobEnds(r)

ExecSpec == ExecInit /\ [][ExecNext]_execVars

\* The dispatch loop claims every two seconds, an execution that is alive goes
\* on, a lease that nobody renews ends, and the upstream finishes what it took.
ExecFairness ==
  /\ WF_execVars(\E w \in Workers : Claim(w))
  /\ \A w \in Workers : WF_execVars(WorkerStep(w))
  /\ WF_execVars(ExpireLease)
  /\ \A r \in Runs : WF_execVars(JobEnds(r))

FairExecSpec == ExecSpec /\ ExecFairness

(***************************************************************************)
(* Properties.                                                             *)
(***************************************************************************)
\* A run never submits a second job, whatever crashes, lost leases, lost
\* answers, refusals and failed writes its executions meet: "上一次提交结果不
\* 明确，为避免重复扣费已停止自动重发" (model_router.go).
OneJobPerRun == \A r \in Runs : jobs[r] <= 1

\* The bill never contradicts the row: a succeeded run is not refunded and a
\* run that failed or was cancelled is not settled, although the row and the
\* order are written one after the other by executions that may be stale.
OutcomeMatchesBill ==
  /\ task.status = "succeeded" => order[task.run] # "refunded"
  /\ task.status # "succeeded" => order[task.run] # "settled"

\* Only the execution that took the row to a terminal state closes its order:
\* "条件更新没有命中时，终态协调器不得继续退款或完成会话"
\* (task-runtime-stability.mdx).
BillClosesAfterTask ==
  [][\A r \in Runs :
       order[r] \in OpenOrder /\ order'[r] \notin OpenOrder =>
         task.run > r \/ task.status \in TerminalStatus]_execVars

\* The route changes only when no job of the run exists: the hold moves to the
\* next price "保证明确未创建上游任务后的故障切线" (logical_models.go).
RouteChangesWithoutJob ==
  [][task'.route # task.route /\ task'.run = task.run => jobs[task.run] = 0]_execVars

\* A charged run has a job that succeeded.
ChargedForSuccess ==
  \A r \in Runs : order[r] = "settled" => job[r] = "succeeded"

\* A refund by the worker leaves no job behind that is still being generated.
RefundLeavesNoJob ==
  [][\A r \in Runs : order[r] # "refunded" /\ order'[r] = "refunded" =>
       job[r] \notin {"pending", "succeeded"}]_execVars

\* A queued task reaches a terminal state once the faults stop: crashes and lost
\* leases are taken up again, nothing is claimed and put back for ever.
TaskTerminates == task.status = "queued" ~> task.status \in TerminalStatus
=============================================================================
