------------------------ MODULE TaskExecution_proofs -------------------------
(***************************************************************************)
(* Theorems about TaskExecution, for any number of workers, supply routes  *)
(* and faults.  In this order: the types, with the numbering of attempts   *)
(* they need (TypeInv); the row and its bill, under every fault (RunInv);  *)
(* and, where no execution outlives its lease unnoticed (~Pauses) and a    *)
(* failed log is followed by the mark of the order (~Outages), that a run  *)
(* has one job (JobInv) and is charged for one that succeeded (ChargeInv). *)
(* The runs of PROJECT.json check the same properties on small instances,  *)
(* and the violated ones show that the two conditions are needed.          *)
(***************************************************************************)
EXTENDS TaskExecution, FiniteSetTheorems, TLAPS

(***************************************************************************)
(* The types, and the numbers of the attempts.                             *)
(***************************************************************************)
TaskRow == [status : TaskStatus, owner : Workers \cup {NoOwner}, lease : BOOLEAN,
            run : Runs, route : Routes, request : JobIds]

WorkerRow == [pc : WorkerPc, run : Runs, request : JobIds, target : JobIds,
              route : Routes, attempt : Routes, dispatch : DispatchState,
              outcome : Outcome, ctx : {"live", "lease_lost", "cancelled"}]

AttemptRow == [state : DispatchState, request : JobIds, route : Routes]

\* The row of an attempt is written: of one that is there or of a new one.
Saved(w, n, state, request) ==
  \E route \in Routes :
    attempt' = [attempt EXCEPT ![worker[w].run][n] =
                 [state |-> state, request |-> request, route |-> route]]

\* The attempts of a run are numbered from one without a gap.
Numbered == \A r \in Runs : \E k \in 0 .. MaxRoutes : Attempts(r) = 1 .. k

\* Where an execution works on an attempt that has been created.
Created == {"adopt", "mark_running", "dispatch", "call", "log_order", "log_task", "log_call",
            "poll", "refresh", "finish"}

\* It creates the next attempt or one that is there already.
Placed(w) ==
  /\ At(w, "create") => 1 .. (worker[w].attempt - 1) \subseteq Attempts(worker[w].run)
  /\ worker[w].pc \in Created => worker[w].attempt \in Attempts(worker[w].run)

TypeInv == ExecTypeOK /\ Numbered /\ \A w \in Workers : Placed(w)

LEMMA ConstantTypes ==
  /\ 1 \in Runs /\ 1 \in Routes /\ NoJob \in JobIds
  /\ Runs \subseteq Nat /\ Routes \subseteq Nat /\ Runs \subseteq JobIds
  /\ IdleWorker \in WorkerRow
  BY ExecutionConstants DEF Runs, Routes, NoJob, JobIds, IdleWorker, WorkerRow, WorkerPc,
       DispatchState, Outcome, Cancelled, SlotOutcome

\* The newest attempt, and the number of the next one.
LEMMA LastAttempt ==
  ASSUME Numbered, NEW r \in Runs
  PROVE  /\ Cardinality(Attempts(r)) \in 0 .. MaxRoutes
         /\ Attempts(r) = 1 .. Cardinality(Attempts(r))
         /\ Attempts(r) # {} => Max(Attempts(r)) = Cardinality(Attempts(r))
         /\ Attempts(r) # {} => Max(Attempts(r)) \in Attempts(r)
<1>1. PICK k \in 0 .. MaxRoutes : Attempts(r) = 1 .. k
  BY DEF Numbered
<1>2. k \in Nat
  BY <1>1, ExecutionConstants
<1>3. Cardinality(1 .. k) = k
  BY <1>2, FS_Interval
<1>4. ASSUME 1 .. k # {} PROVE Max(1 .. k) = k
  <2>1. k \in 1 .. k /\ \A y \in 1 .. k : k >= y
    BY <1>2, <1>4
  <2>2. \A x \in 1 .. k : (\A y \in 1 .. k : x >= y) => x = k
    BY <1>2, <2>1
  <2> QED BY <2>1, <2>2 DEF Max
<1>5. 1 .. k # {} => k \in 1 .. k
  BY <1>2
<1> QED BY <1>1, <1>3, <1>4, <1>5

LEMMA AttemptsBefore ==
  ASSUME Numbered, NEW r \in Runs, NEW n \in Attempts(r)
  PROVE  1 .. (n - 1) \subseteq Attempts(r)
<1>1. PICK k \in 0 .. MaxRoutes : Attempts(r) = 1 .. k
  BY DEF Numbered
<1>2. k \in Nat
  BY <1>1, ExecutionConstants
<1>3. n \in 1 .. k
  BY <1>1
<1> QED BY <1>1, <1>2, <1>3

LEMMA SaveWrites ==
  ASSUME attempt \in [Runs -> [Routes -> AttemptRow]], NEW w \in Workers, NEW n \in Routes,
         worker[w].run \in Runs, NEW state, NEW request, SaveAttempt(w, n, state, request)
  PROVE  Saved(w, n, state, request)
<1>1. attempt[worker[w].run][n].route \in Routes
  BY DEF AttemptRow
<1> QED BY <1>1 DEF SaveAttempt, Saved

\* An attempt that is saved is one that is there, or the next.
LEMMA SavedAttempt ==
  ASSUME TypeInv, NEW w \in Workers, NEW n \in Routes, NEW state \in DispatchState \ {"none"},
         NEW request \in JobIds, SaveAttempt(w, n, state, request) \/ Saved(w, n, state, request),
         1 .. (n - 1) \subseteq Attempts(worker[w].run)
  PROVE  /\ attempt' \in [Runs -> [Routes -> AttemptRow]]
         /\ Numbered'
         /\ \A r \in Runs :
              Attempts(r)' = IF r = worker[w].run THEN Attempts(r) \cup {n} ELSE Attempts(r)
<1> DEFINE run == worker[w].run
<1>1. /\ run \in Runs /\ attempt \in [Runs -> [Routes -> AttemptRow]]
      /\ MaxRoutes \in Nat /\ Routes = 1 .. MaxRoutes
  BY ExecutionConstants DEF TypeInv, ExecTypeOK, AttemptRow, Routes
<1>9. Saved(w, n, state, request)
  BY <1>1, SaveWrites
<1>0. PICK route \in Routes :
         attempt' = [attempt EXCEPT ![run][n] =
                      [state |-> state, request |-> request, route |-> route]]
  BY <1>1, <1>9 DEF Saved
<1>2. attempt' \in [Runs -> [Routes -> AttemptRow]]
  BY <1>0, <1>1 DEF AttemptRow
<1>3. \A r \in Runs, m \in Routes :
         attempt'[r][m] = IF r = run /\ m = n
                            THEN [state |-> state, request |-> request, route |-> route]
                            ELSE attempt[r][m]
  BY <1>0, <1>1
<1>4. \A r \in Runs :
         Attempts(r)' = IF r = run THEN Attempts(r) \cup {n} ELSE Attempts(r)
  BY <1>3 DEF Attempts
<1>5. ASSUME NEW r \in Runs
      PROVE  \E k \in 0 .. MaxRoutes : Attempts(r)' = 1 .. k
  <2>1. PICK k \in 0 .. MaxRoutes : Attempts(r) = 1 .. k
    BY DEF TypeInv, Numbered
  <2>2. CASE r # run \/ n \in 1 .. k
    <3>1. Attempts(r)' = 1 .. k
      BY <1>4, <2>1, <2>2
    <3> QED BY <3>1
  <2>3. CASE r = run /\ n \notin 1 .. k
    <3>1. 1 .. (n - 1) \subseteq 1 .. k /\ n \in 1 .. MaxRoutes
      BY <1>1, <2>1, <2>3
    <3>2. n = k + 1
      <4>1. n - 1 <= k
        <5>1. CASE n = 1
          BY <2>1, <5>1, <1>1
        <5>2. CASE n # 1
          <6>1. n - 1 \in 1 .. (n - 1)
            BY <3>1, <5>2, <1>1
          <6> QED BY <3>1, <6>1
        <5> QED BY <5>1, <5>2
      <4> QED BY <2>1, <2>3, <3>1, <4>1, <1>1
    <3>3. Attempts(r)' = 1 .. (k + 1)
      <4>1. k \in Nat
        BY <1>1, <2>1
      <4>2. (1 .. k) \cup {k + 1} = 1 .. (k + 1)
        BY <4>1
      <4> QED BY <1>4, <2>1, <2>3, <3>2, <4>2
    <3>4. k + 1 \in 0 .. MaxRoutes
      BY <1>1, <2>1, <3>1, <3>2
    <3> QED BY <3>3, <3>4
  <2> QED BY <2>2, <2>3
<1> QED BY <1>2, <1>4, <1>5 DEF Numbered

\* What the step of one execution has to show: the others stay as they are.
RowsTyped ==
  /\ task \in TaskRow
  /\ order \in [Runs -> OrderStatus]
  /\ orderJob \in [Runs -> JobIds]
  /\ callLog \in [Runs -> LogState]
  /\ job \in [Runs -> JobState]
  /\ jobs \in [Runs -> 0 .. 2]
  /\ faults \in 0 .. MaxFaults

Alone(w) == worker' = [worker EXCEPT ![w] = worker'[w]]

Kept == attempt' = attempt

Grown ==
  /\ attempt' \in [Runs -> [Routes -> AttemptRow]]
  /\ Numbered'
  /\ \A r \in Runs : Attempts(r) \subseteq Attempts(r)'

LEMMA LocalStep ==
  ASSUME TypeInv, NEW w \in Workers, Alone(w), worker'[w] \in WorkerRow, Placed(w)',
         RowsTyped', Kept \/ Grown
  PROVE  TypeInv'
<1>1. worker \in [Workers -> WorkerRow]
  BY DEF TypeInv, ExecTypeOK, WorkerRow
<1>2. worker' \in [Workers -> WorkerRow]
  BY <1>1 DEF Alone
<1>3. ASSUME Kept PROVE Grown
  <2>1. attempt' = attempt
    BY <1>3 DEF Kept
  <2>2. \A r : Attempts(r)' = Attempts(r)
    BY <2>1 DEF Attempts
  <2>3. Numbered'
    BY <2>2 DEF TypeInv, Numbered
  <2> QED BY <2>1, <2>2, <2>3 DEF Grown, TypeInv, ExecTypeOK, AttemptRow
<1>4. ASSUME NEW v \in Workers PROVE Placed(v)'
  <2>1. CASE v # w
    <3>1. worker'[v] = worker[v]
      BY <1>1, <2>1 DEF Alone
    <3>2. worker[v].run \in Runs
      BY <1>1 DEF WorkerRow
    <3> QED BY <1>3, <3>1, <3>2 DEF TypeInv, Placed, Grown, At
  <2> QED BY <2>1
<1>5. ExecTypeOK'
  BY <1>2, <1>3 DEF ExecTypeOK, RowsTyped, TaskRow, WorkerRow, AttemptRow, Grown
<1> QED BY <1>3, <1>4, <1>5 DEF TypeInv, Grown

\* The values a step finds.
LEMMA Found ==
  ASSUME TypeInv
  PROVE  /\ RowsTyped /\ attempt \in [Runs -> [Routes -> AttemptRow]]
         /\ worker \in [Workers -> WorkerRow]
  BY DEF TypeInv, ExecTypeOK, RowsTyped, TaskRow, WorkerRow, AttemptRow

\* The bill in every state of the order has one.
LEMMA BillTypes ==
  ASSUME RowsTyped, NEW r \in Runs
  PROVE  /\ Uncertain(r) \in [Runs -> OrderStatus]
         /\ Refunded(r) \in [Runs -> OrderStatus]
         /\ Settled(r) \in [Runs -> OrderStatus]
  BY DEF RowsTyped, Uncertain, Refunded, Settled, OrderStatus, OpenOrder

\* A step that only changes what one execution holds in memory.
LEMMA GotoTypes ==
  ASSUME TypeInv, NEW w \in Workers, NEW pc \in WorkerPc, Goto(w, pc)
  PROVE  /\ Alone(w) /\ worker'[w] \in WorkerRow /\ worker'[w].pc = pc
         /\ worker'[w].run = worker[w].run /\ worker'[w].attempt = worker[w].attempt
<1>1. worker \in [Workers -> WorkerRow] /\ worker[w] \in WorkerRow
  BY Found
<1>2. worker' = [worker EXCEPT ![w] = [worker[w] EXCEPT !.pc = pc]]
  BY <1>1 DEF Goto
<1>3. /\ [worker[w] EXCEPT !.pc = pc] \in WorkerRow
      /\ [worker[w] EXCEPT !.pc = pc].pc = pc
      /\ [worker[w] EXCEPT !.pc = pc].run = worker[w].run
      /\ [worker[w] EXCEPT !.pc = pc].attempt = worker[w].attempt
  BY <1>1 DEF WorkerRow
<1> QED BY <1>1, <1>2, <1>3 DEF Alone

LEMMA StopTypes ==
  ASSUME TypeInv, NEW w \in Workers, Stop(w)
  PROVE  Alone(w) /\ worker'[w] \in WorkerRow /\ worker'[w] = IdleWorker /\ Placed(w)'
<1>1. worker \in [Workers -> WorkerRow]
  BY Found
<1>2. worker'[w] = IdleWorker /\ IdleWorker \in WorkerRow /\ Alone(w)
  BY <1>1, ConstantTypes DEF Stop, Alone
<1>3. worker'[w].pc = "idle"
  BY <1>2 DEF IdleWorker
<1> QED BY <1>2, <1>3 DEF Placed, At, Created

LEMMA EndsTypes ==
  ASSUME TypeInv, NEW w \in Workers, NEW pc \in WorkerPc, NEW outcome \in Outcome,
         Ends(w, outcome, pc)
  PROVE  /\ Alone(w) /\ worker'[w] \in WorkerRow /\ worker'[w].pc = pc
         /\ worker'[w].run = worker[w].run /\ worker'[w].attempt = worker[w].attempt
<1> DEFINE row == [worker[w] EXCEPT !.pc = pc, !.outcome = outcome]
<1>1. worker \in [Workers -> WorkerRow] /\ worker[w] \in WorkerRow
  BY Found
<1>2. worker' = [worker EXCEPT ![w] = row]
  BY <1>1 DEF Ends
<1>3. row \in WorkerRow /\ row.pc = pc /\ row.run = worker[w].run /\ row.attempt = worker[w].attempt
  BY <1>1 DEF WorkerRow
<1> QED BY <1>1, <1>2, <1>3 DEF Alone

LEMMA TerminalTypes ==
  ASSUME TypeInv, NEW w \in Workers, NEW status \in TaskStatus,
         NEW pc \in WorkerPc \ (Created \cup {"create"}), Terminal(w, status, pc)
  PROVE  /\ task' \in TaskRow /\ Alone(w) /\ worker'[w] \in WorkerRow /\ Placed(w)'
<1> USE Found DEF RowsTyped
<1>1. task' \in TaskRow
  BY DEF Terminal, Released, TaskRow
<1>2. CASE Goto(w, pc)
  BY <1>1, <1>2, GotoTypes DEF Placed, At
<1>3. CASE Stop(w)
  BY <1>1, <1>3, StopTypes
<1> QED BY <1>2, <1>3 DEF Terminal

LEMMA PrepareTypes ==
  ASSUME TypeInv, NEW w \in Workers, PrepareStep(w)
  PROVE  TypeInv'
<1> USE Found, ConstantTypes DEF RowsTyped
<1>1. /\ Placed(w) /\ worker[w] \in WorkerRow /\ worker[w].run \in Runs
      /\ worker[w].attempt \in Routes
  BY DEF TypeInv, WorkerRow
<1>2. CASE Start(w) \/ RejectedAttempt(w) \/ RouteUnavailable(w)
  <2>1. RowsTyped' /\ Kept
    BY <1>2 DEF Start, RejectedAttempt, RouteUnavailable, logVars, jobVars, Kept
  <2>2. Goto(w, "route") \/ Goto(w, "switch") \/ Stop(w)
    BY <1>2 DEF Start, RejectedAttempt, RouteUnavailable
  <2>3. {"route", "switch"} \subseteq WorkerPc
    BY DEF WorkerPc
  <2>4. Alone(w) /\ worker'[w] \in WorkerRow /\ Placed(w)'
    BY <2>2, <2>3, GotoTypes, StopTypes DEF Placed, At, Created
  <2> QED BY <2>1, <2>4, LocalStep
<1>3. CASE FirstAttempt(w)
  <2>1. /\ Alone(w) /\ worker'[w] \in WorkerRow /\ worker'[w].pc = "create"
        /\ worker'[w].attempt = 1
    BY <1>1, <1>3 DEF FirstAttempt, Take, Alone, WorkerRow, WorkerPc, DispatchState
  <2>2. RowsTyped' /\ Kept
    BY <1>3 DEF FirstAttempt, logVars, jobVars, Kept
  <2>3. Placed(w)'
    BY <2>1 DEF Placed, At, Created
  <2> QED BY <2>1, <2>2, <2>3, LocalStep
<1>4. CASE UnsentAttempt(w)
  <2> DEFINE n == Max(Attempts(worker[w].run))
  <2>1. n \in Attempts(worker[w].run) /\ n \in Routes
    BY <1>1, <1>4, LastAttempt DEF UnsentAttempt, TypeInv, Attempts
  <2>2. /\ worker' = [worker EXCEPT ![w].pc = "mark_running", ![w].attempt = n,
                                    ![w].dispatch = "not_sent", ![w].request = worker[w].request]
    BY <1>4 DEF UnsentAttempt, Take
  <2> HIDE DEF n
  <2>3. /\ Alone(w) /\ worker'[w] \in WorkerRow /\ worker'[w].pc = "mark_running"
        /\ worker'[w].attempt = n /\ worker'[w].run = worker[w].run
    BY <1>1, <2>1, <2>2 DEF Alone, WorkerRow, WorkerPc, DispatchState
  <2>4. RowsTyped' /\ Kept
    BY <1>4 DEF UnsentAttempt, logVars, jobVars, Kept
  <2>5. Placed(w)'
    BY <2>1, <2>3, <2>4 DEF Placed, At, Created, Kept, Attempts
  <2> QED BY <2>3, <2>4, <2>5, LocalStep
<1>5. CASE ResumedAttempt(w)
  <2> DEFINE run  == worker[w].run
             n    == Max(Attempts(run))
             job0 == IF worker[w].request # NoJob THEN worker[w].request
                     ELSE attempt[run][n].request
  <2>1. n \in Attempts(run) /\ n \in Routes
    BY <1>1, <1>5, LastAttempt DEF ResumedAttempt, TypeInv, Attempts
  <2>2. attempt[run][n] \in AttemptRow /\ job0 \in JobIds
    <3> HIDE DEF n
    <3>1. attempt[run][n] \in AttemptRow
      BY <1>1, <2>1
    <3>2. attempt[run][n].request \in JobIds /\ worker[w].request \in JobIds
      BY <1>1, <3>1 DEF AttemptRow, WorkerRow
    <3> QED BY <3>1, <3>2
  <2>3. /\ \E pc \in {"adopt", "mark_running"} :
             worker' = [worker EXCEPT ![w].pc = pc, ![w].attempt = n, ![w].dispatch = "accepted",
                                      ![w].request = job0, ![w].target = attempt[run][n].request]
        /\ task' = task \/ task' = [task EXCEPT !.request = job0]
        /\ UNCHANGED <<order, attempt, logVars, jobVars, faults>>
    BY <1>5 DEF ResumedAttempt
  <2>4. attempt[run][n].request \in JobIds /\ "accepted" \in DispatchState
        /\ {"adopt", "mark_running"} \subseteq WorkerPc \cap Created
    BY <2>2 DEF AttemptRow, DispatchState, WorkerPc, Created
  <2>5. PICK pc \in {"adopt", "mark_running"} :
             worker' = [worker EXCEPT ![w].pc = pc, ![w].attempt = n, ![w].dispatch = "accepted",
                                      ![w].request = job0, ![w].target = attempt[run][n].request]
    BY <2>3
  <2> DEFINE saved == attempt[run][n].request
  <2> HIDE DEF n, job0, saved
  <2>6. worker' = [worker EXCEPT ![w].pc = pc, ![w].attempt = n, ![w].dispatch = "accepted",
                                 ![w].request = job0, ![w].target = saved]
        /\ saved \in JobIds /\ job0 \in JobIds
    BY <2>2, <2>4, <2>5 DEF saved
  <2>7. /\ Alone(w) /\ worker'[w] \in WorkerRow /\ worker'[w].pc \in {"adopt", "mark_running"}
        /\ worker'[w].attempt = n /\ worker'[w].run = run
    BY <1>1, <2>1, <2>4, <2>6 DEF Alone, WorkerRow
  <2>8. RowsTyped' /\ Kept
    BY <2>3, <2>6 DEF logVars, jobVars, TaskRow, Kept
  <2>9. Placed(w)'
    BY <1>1, <2>1, <2>7, <2>8 DEF Placed, At, Created, Kept, Attempts
  <2> QED BY <2>7, <2>8, <2>9, LocalStep
<1>12. CASE AdoptAttempt(w)
  <2> DEFINE n == worker[w].attempt
  <2>1. /\ SaveAttempt(w, n, "accepted", worker[w].target) /\ Goto(w, "mark_running")
        /\ At(w, "adopt") /\ UNCHANGED <<task, order, logVars, jobVars, faults>>
    BY <1>12 DEF AdoptAttempt
  <2>2. /\ n \in Attempts(worker[w].run) /\ n \in Routes /\ worker[w].target \in JobIds
        /\ "accepted" \in DispatchState \ {"none"} /\ "mark_running" \in WorkerPc
    BY <1>1, <2>1 DEF Placed, At, Created, WorkerRow, DispatchState, WorkerPc
  <2>3. 1 .. (n - 1) \subseteq Attempts(worker[w].run)
    BY <1>1, <2>2, AttemptsBefore DEF TypeInv
  <2>4. /\ attempt' \in [Runs -> [Routes -> AttemptRow]] /\ Numbered'
        /\ \A r \in Runs : Attempts(r)' = IF r = worker[w].run THEN Attempts(r) \cup {n}
                                                                ELSE Attempts(r)
    BY <2>1, <2>2, <2>3, SavedAttempt
  <2>5. Grown
    BY <2>4 DEF Grown
  <2>6. /\ Alone(w) /\ worker'[w] \in WorkerRow /\ worker'[w].pc = "mark_running"
        /\ worker'[w].run = worker[w].run /\ worker'[w].attempt = n
    BY <2>1, <2>2, GotoTypes
  <2>7. Placed(w)'
    BY <1>1, <2>4, <2>6 DEF Placed, At, Created
  <2> QED BY <2>1, <2>5, <2>6, <2>7, LocalStep DEF logVars, jobVars
<1>6. CASE UnknownAttempt(w) \/ RouteFails(w) \/ BillingNotReady(w)
  <2>1. \E pc \in {"uncertain", "refund"} : Terminal(w, "failed", pc)
    BY <1>6 DEF UnknownAttempt, RouteFails, BillingNotReady
  <2>2. /\ "failed" \in TaskStatus
        /\ {"uncertain", "refund"} \subseteq WorkerPc \ (Created \cup {"create"})
    BY DEF TaskStatus, TerminalStatus, WorkerPc, Created
  <2>3. /\ task' \in TaskRow /\ Alone(w) /\ worker'[w] \in WorkerRow /\ Placed(w)'
    BY <2>1, <2>2, TerminalTypes
  <2>4. RowsTyped' /\ Kept
    BY <1>6, <2>3, ExecutionConstants
       DEF UnknownAttempt, RouteFails, BillingNotReady, Fault, logVars, jobVars, Kept
  <2> QED BY <2>3, <2>4, LocalStep
<1>7. CASE SwitchTaskLogicalRoute(w)
  <2> DEFINE run == worker[w].run  number == Cardinality(Attempts(run)) + 1
  <2>1. /\ number \in Routes
        /\ \E next \in Routes :
             /\ task' = [task EXCEPT !.route = next]
             /\ worker' = [worker EXCEPT ![w].pc = "create", ![w].route = next,
                                         ![w].attempt = number, ![w].request = NoJob]
        /\ UNCHANGED <<order, attempt, logVars, jobVars, faults>>
    BY <1>7 DEF SwitchTaskLogicalRoute
  <2>2. 1 .. (number - 1) \subseteq Attempts(run)
    <3>1. Numbered /\ run \in Runs
      BY <1>1 DEF TypeInv
    <3> DEFINE c == Cardinality(Attempts(run))
    <3>2. Attempts(run) = 1 .. c /\ c \in 0 .. MaxRoutes
      BY <3>1, LastAttempt
    <3> HIDE DEF c
    <3>3. c \in Nat
      BY <3>2, ExecutionConstants
    <3>4. (c + 1) - 1 = c
      BY <3>3
    <3> QED BY <3>2, <3>4 DEF c
  <2> HIDE DEF number
  <2>3. PICK next \in Routes :
           /\ task' = [task EXCEPT !.route = next]
           /\ worker' = [worker EXCEPT ![w].pc = "create", ![w].route = next,
                                       ![w].attempt = number, ![w].request = NoJob]
    BY <2>1
  <2>4. /\ Alone(w) /\ worker'[w] \in WorkerRow /\ worker'[w].pc = "create"
        /\ worker'[w].attempt = number /\ worker'[w].run = worker[w].run
    BY <1>1, <2>1, <2>3 DEF Alone, WorkerRow, WorkerPc
  <2>5. RowsTyped' /\ Kept
    BY <2>1, <2>3 DEF logVars, jobVars, Kept, TaskRow
  <2>6. Placed(w)'
    BY <2>2, <2>4, <2>5 DEF Placed, At, Created, Kept, Attempts
  <2> QED BY <2>4, <2>5, <2>6, LocalStep
<1>8. CASE NoNextRoute(w) \/ AttemptNotCreated(w)
  <2>1. /\ UNCHANGED <<order, attempt, logVars, jobVars>> /\ faults' \in 0 .. MaxFaults
        /\ Terminal(w, "failed", "refund") \/ (task' = task /\ Goto(w, "failure"))
    BY <1>8, ExecutionConstants DEF NoNextRoute, AttemptNotCreated, Fault
  <2>2. "failed" \in TaskStatus /\ "refund" \in WorkerPc \ (Created \cup {"create"})
    BY DEF TaskStatus, TerminalStatus, WorkerPc, Created
  <2>3. CASE Terminal(w, "failed", "refund")
    <3>1. /\ task' \in TaskRow /\ Alone(w) /\ worker'[w] \in WorkerRow /\ Placed(w)'
      BY <2>2, <2>3, TerminalTypes
    <3> QED BY <2>1, <3>1, LocalStep DEF logVars, jobVars, Kept
  <2>4. CASE task' = task /\ Goto(w, "failure")
    <3>1. Alone(w) /\ worker'[w] \in WorkerRow /\ worker'[w].pc = "failure"
      BY <1>1, <2>4 DEF Goto, Alone, WorkerRow, WorkerPc
    <3>2. Placed(w)'
      BY <3>1 DEF Placed, At, Created
    <3> QED BY <2>1, <2>4, <3>1, <3>2, LocalStep DEF logVars, jobVars, Kept
  <2> QED BY <2>1, <2>3, <2>4
<1>9. CASE CreateRouteAttempt(w)
  <2> DEFINE n == worker[w].attempt
  <2>0. worker[w].route \in Routes
    BY <1>1 DEF WorkerRow
  <2>1. /\ Saved(w, n, "not_sent", NoJob)
        /\ \E pc \in {"mark_running", "dispatch"} :
             worker' = [worker EXCEPT ![w].pc = pc, ![w].attempt = n,
                                      ![w].dispatch = "not_sent", ![w].request = worker[w].request]
        /\ UNCHANGED <<task, order, logVars, jobVars, faults>>
        /\ At(w, "create")
    BY <1>9, <2>0 DEF CreateRouteAttempt, Saved, Take
  <2>2. 1 .. (n - 1) \subseteq Attempts(worker[w].run) /\ "not_sent" \in DispatchState \ {"none"}
    BY <1>1, <2>1 DEF Placed, DispatchState
  <2>3. /\ attempt' \in [Runs -> [Routes -> AttemptRow]] /\ Numbered'
        /\ \A r \in Runs : Attempts(r)' = IF r = worker[w].run THEN Attempts(r) \cup {n}
                                                                ELSE Attempts(r)
    BY <1>1, <2>1, <2>2, SavedAttempt
  <2>4. Grown
    BY <2>3 DEF Grown
  <2>5. /\ Alone(w) /\ worker'[w] \in WorkerRow /\ worker'[w].pc \in {"mark_running", "dispatch"}
        /\ worker'[w].attempt = n /\ worker'[w].run = worker[w].run
    <3>1. PICK pc \in {"mark_running", "dispatch"} :
             worker' = [worker EXCEPT ![w].pc = pc, ![w].attempt = n,
                                      ![w].dispatch = "not_sent", ![w].request = worker[w].request]
      BY <2>1
    <3>2. pc \in WorkerPc /\ "not_sent" \in DispatchState
      BY DEF WorkerPc, DispatchState
    <3> QED BY <1>1, <3>1, <3>2 DEF Alone, WorkerRow
  <2>6. Placed(w)'
    BY <1>1, <2>3, <2>5 DEF Placed, At, Created
  <2> QED BY <2>1, <2>4, <2>5, <2>6, LocalStep DEF logVars, jobVars
<1>10. CASE MarkBillingRunning(w)
  <2>1. /\ Alone(w) /\ worker'[w] \in WorkerRow /\ worker'[w].pc = "dispatch"
        /\ worker'[w].attempt = worker[w].attempt /\ worker'[w].run = worker[w].run
        /\ At(w, "mark_running")
    BY <1>1, <1>10 DEF MarkBillingRunning, Goto, Alone, WorkerRow, WorkerPc
  <2>2. RowsTyped' /\ Kept
    BY <1>10 DEF MarkBillingRunning, logVars, jobVars, Kept, OrderStatus, OpenOrder
  <2>3. Placed(w)'
    BY <1>1, <2>1, <2>2 DEF Placed, At, Created, Kept, Attempts
  <2> QED BY <2>1, <2>2, <2>3, LocalStep
<1> QED BY <1>2, <1>12, <1>3, <1>4, <1>5, <1>6, <1>7, <1>8, <1>9, <1>10 DEF PrepareStep

\* A step that leaves the attempts alone and goes on with the same one.
LEMMA QuietStep ==
  ASSUME TypeInv, NEW w \in Workers, Alone(w), worker'[w] \in WorkerRow, RowsTyped', Kept,
         worker'[w].run = worker[w].run, worker'[w].attempt = worker[w].attempt,
         worker'[w].pc # "create", worker'[w].pc \in Created => worker[w].pc \in Created
  PROVE  TypeInv'
<1>1. \A r : Attempts(r)' = Attempts(r)
  BY DEF Kept, Attempts
<1>2. Placed(w)'
  BY <1>1 DEF TypeInv, Placed, At
<1> QED BY <1>2, LocalStep

LEMMA LogPollTypes ==
  ASSUME TypeInv, NEW w \in Workers, NEW status \in LogState, LogPoll(w, status)
  PROVE  /\ orderJob' \in [Runs -> JobIds]
         /\ task' \in TaskRow
         /\ callLog' \in [Runs -> LogState]
<1>1. RowsTyped /\ worker[w].run \in Runs /\ worker[w].target \in JobIds
  BY Found DEF WorkerRow
<1>2. orderJob' \in [Runs -> JobIds]
  BY <1>1 DEF LogPoll, RowsTyped
<1>3. task' \in TaskRow
  BY <1>1 DEF LogPoll, RowsTyped, TaskRow
<1>4. callLog' \in [Runs -> LogState]
  <2>1. callLog \in [Runs -> LogState]
    BY <1>1 DEF RowsTyped
  <2> QED BY <2>1 DEF LogPoll
<1> QED BY <1>2, <1>3, <1>4

LEMMA NewJobTypes ==
  ASSUME TypeInv, NEW w \in Workers, CreatesJob(w)
  PROVE  job' \in [Runs -> JobState] /\ jobs' \in [Runs -> 0 .. 2]
<1>1. RowsTyped /\ worker[w].run \in Runs
  BY Found DEF WorkerRow
<1>2. jobs[worker[w].run] + 1 \in 0 .. 2
  BY <1>1 DEF CreatesJob, RowsTyped
<1> QED BY <1>1, <1>2 DEF CreatesJob, RowsTyped, JobState

LEMMA CallTypes ==
  ASSUME TypeInv, NEW w \in Workers, CallStep(w)
  PROVE  TypeInv'
<1> USE Found, ConstantTypes DEF RowsTyped
<1>1. /\ Placed(w) /\ worker[w] \in WorkerRow /\ worker[w].run \in Runs
      /\ worker[w].attempt \in Routes /\ worker[w].target \in JobIds /\ worker[w].request \in JobIds
      /\ worker[w].run \in JobIds
  BY DEF TypeInv, WorkerRow
<1>2. \A pc \in WorkerPc, outcome \in Outcome :
        (Goto(w, pc) \/ Ends(w, outcome, pc)) =>
          /\ Alone(w) /\ worker'[w] \in WorkerRow /\ worker'[w].pc = pc
          /\ worker'[w].run = worker[w].run /\ worker'[w].attempt = worker[w].attempt
  BY GotoTypes, EndsTypes
<1>3. /\ {"refresh", "call", "log_task", "log_call", "poll", "failure"} \subseteq WorkerPc
      /\ {"failed", "unclear", "rejected", "success", "slot_full", "slot_timeout"} \cup Cancelled
           \subseteq Outcome
      /\ {"failure", "result", "switch"} \cap Created = {}
      /\ {"failure", "result", "switch"} \subseteq WorkerPc
      /\ \A pc \in {"dispatch", "call", "log_order", "log_task", "log_call", "poll", "refresh",
                    "finish"} : pc \in Created
      /\ {"succeeded", "failed"} \subseteq LogState
  BY DEF WorkerPc, Outcome, Cancelled, SlotOutcome, Created, LogState
<1>4. CASE MarkRouteAttemptDispatching(w)
  <2> DEFINE n == worker[w].attempt
  <2>1. n \in Attempts(worker[w].run)
    BY <1>1, <1>3, <1>4 DEF MarkRouteAttemptDispatching, Placed, At
  <2>2. CASE SaveAttempt(w, n, "submission_unknown", NoJob)
             /\ worker' = [worker EXCEPT ![w].pc = "call", ![w].dispatch = "submission_unknown"]
    <3>1. "submission_unknown" \in DispatchState \ {"none"}
      BY DEF DispatchState
    <3>2. 1 .. (n - 1) \subseteq Attempts(worker[w].run)
      BY <1>1, <2>1, AttemptsBefore DEF TypeInv
    <3>3. /\ attempt' \in [Runs -> [Routes -> AttemptRow]] /\ Numbered'
          /\ \A r \in Runs : Attempts(r)' = IF r = worker[w].run THEN Attempts(r) \cup {n}
                                                                  ELSE Attempts(r)
      BY <1>1, <2>2, <3>1, <3>2, SavedAttempt
    <3>4. /\ Alone(w) /\ worker'[w] \in WorkerRow /\ worker'[w].pc = "call"
          /\ worker'[w].run = worker[w].run /\ worker'[w].attempt = n
      BY <1>1, <1>3, <2>2, <3>1 DEF Alone, WorkerRow
    <3>5. Grown
      BY <3>3 DEF Grown
    <3>6. Placed(w)'
      BY <1>1, <3>3, <3>4 DEF Placed, At
    <3> QED BY <1>4, <3>4, <3>5, <3>6, LocalStep
          DEF MarkRouteAttemptDispatching, logVars, jobVars
  <2>3. CASE Goto(w, "call") /\ UNCHANGED attempt
    <3>1. RowsTyped' /\ Kept
      BY <1>4, <2>3 DEF MarkRouteAttemptDispatching, logVars, jobVars, Kept
    <3>2. worker[w].pc \in Created
      BY <1>3, <1>4 DEF MarkRouteAttemptDispatching, At
    <3>3. /\ Alone(w) /\ worker'[w] \in WorkerRow /\ worker'[w].pc = "call"
          /\ worker'[w].run = worker[w].run /\ worker'[w].attempt = worker[w].attempt
      BY <1>3, <2>3, GotoTypes
    <3> QED BY <3>1, <3>2, <3>3, QuietStep
  <2> QED BY <1>4, <2>2, <2>3 DEF MarkRouteAttemptDispatching
<1>5. CASE DispatchMarkFails(w)
  <2>1. /\ worker' = [worker EXCEPT ![w].pc = "failure", ![w].outcome = "failed",
                                    ![w].dispatch = "submission_unknown"]
        /\ "submission_unknown" \in DispatchState /\ "failed" \in Outcome /\ "failure" \in WorkerPc
    BY <1>3, <1>5 DEF DispatchMarkFails, DispatchState
  <2>2. /\ Alone(w) /\ worker'[w] \in WorkerRow /\ worker'[w].pc = "failure"
        /\ worker'[w].run = worker[w].run /\ worker'[w].attempt = worker[w].attempt
    BY <1>1, <2>1 DEF Alone, WorkerRow
  <2>3. RowsTyped' /\ Kept
    BY <1>5, ExecutionConstants DEF DispatchMarkFails, Fault, logVars, jobVars, Kept
  <2> QED BY <1>3, <2>2, <2>3, QuietStep
<1>6. CASE Resume(w) \/ Submit(w)
  <2>1. \E pc \in {"poll", "log_order"}, target \in JobIds :
           worker' = [worker EXCEPT ![w].pc = pc, ![w].target = target]
    BY <1>1, <1>6 DEF Resume, Submit
  <2>2. {"poll", "log_order"} \subseteq WorkerPc /\ worker[w].pc \in Created
    BY <1>3, <1>6 DEF WorkerPc, Resume, Submit, CreatesJob, At
  <2>3. PICK pc \in {"poll", "log_order"}, target \in JobIds :
           worker' = [worker EXCEPT ![w].pc = pc, ![w].target = target]
    BY <2>1
  <2>4. /\ Alone(w) /\ worker'[w] \in WorkerRow /\ worker'[w].pc = pc
        /\ worker'[w].run = worker[w].run /\ worker'[w].attempt = worker[w].attempt
    BY <1>1, <2>2, <2>3 DEF Alone, WorkerRow
  <2>5. job' \in [Runs -> JobState] /\ jobs' \in [Runs -> 0 .. 2]
    BY <1>1, <1>6, NewJobTypes DEF Resume, Submit, jobVars
  <2>6. RowsTyped' /\ Kept
    BY <1>6, <2>5 DEF Resume, Submit, logVars, Kept
  <2> QED BY <1>3, <2>2, <2>4, <2>6, QuietStep
<1>7. CASE SubmitUnanswered(w) \/ SubmitRefused(w) \/ CallCancelled(w)
  <2>1. \E outcome \in Outcome : Ends(w, outcome, "refresh")
    BY <1>3, <1>7 DEF SubmitUnanswered, SubmitRefused, CallCancelled
  <2>2. worker[w].pc \in Created
    BY <1>3, <1>7 DEF SubmitUnanswered, SubmitRefused, CallCancelled, CreatesJob, At
  <2>3. job' \in [Runs -> JobState] /\ jobs' \in [Runs -> 0 .. 2]
    BY <1>1, <1>7, NewJobTypes DEF SubmitUnanswered, SubmitRefused, CallCancelled, jobVars
  <2>4. RowsTyped' /\ Kept
    BY <1>7, <2>3, ExecutionConstants
       DEF SubmitUnanswered, SubmitRefused, CallCancelled, Fault, logVars, Kept
  <2>5. /\ Alone(w) /\ worker'[w] \in WorkerRow /\ worker'[w].pc = "refresh"
        /\ worker'[w].run = worker[w].run /\ worker'[w].attempt = worker[w].attempt
    BY <1>2, <1>3, <2>1
  <2> QED BY <2>2, <2>4, <2>5, QuietStep
<1>8. CASE LogOrder(w) \/ LogTask(w) \/ LogCall(w) \/ LogFails(w)
  <2>1. Goto(w, "log_task") \/ Goto(w, "log_call") \/ Goto(w, "poll")
    BY <1>8 DEF LogOrder, LogTask, LogCall, LogFails
  <2>2. worker[w].pc \in Created
    BY <1>3, <1>8 DEF LogOrder, LogTask, LogCall, LogFails, At
  <2>3. /\ Alone(w) /\ worker'[w] \in WorkerRow /\ worker'[w].pc # "create"
        /\ worker'[w].run = worker[w].run /\ worker'[w].attempt = worker[w].attempt
    BY <1>3, <2>1, GotoTypes
  <2>4. /\ orderJob' \in [Runs -> JobIds] /\ callLog' \in [Runs -> LogState]
        /\ order' \in [Runs -> OrderStatus] /\ task' \in TaskRow
    <3>1. CASE LogOrder(w)
      BY <1>1, <3>1 DEF LogOrder
    <3>2. CASE LogTask(w)
      BY <1>1, <3>2 DEF LogTask, TaskRow, logVars
    <3>3. CASE LogCall(w)
      BY <1>1, <1>3, <3>3 DEF LogCall
    <3>4. CASE LogFails(w)
      BY <1>1, <3>4, BillTypes DEF LogFails, logVars
    <3> QED BY <1>8, <3>1, <3>2, <3>3, <3>4
  <2>5. RowsTyped' /\ Kept
    BY <1>8, <2>4, ExecutionConstants
       DEF LogOrder, LogTask, LogCall, LogFails, Fault, jobVars, Kept
  <2> QED BY <2>2, <2>3, <2>5, QuietStep
<1>9. CASE PollPending(w) \/ PollLogFails(w)
  <2>1. worker' = worker /\ attempt' = attempt
    BY <1>9 DEF PollPending, PollLogFails
  <2>2. /\ Alone(w) /\ worker'[w] \in WorkerRow /\ Kept
        /\ worker'[w].run = worker[w].run /\ worker'[w].attempt = worker[w].attempt
        /\ worker'[w].pc = "poll" /\ worker[w].pc = "poll"
    BY <1>1, <1>9, <2>1 DEF Alone, Kept, PollPending, PollLogFails, At
  <2>3. CASE PollPending(w)
    <3>1. RowsTyped'
      BY <1>3, <2>3, LogPollTypes DEF PollPending, jobVars
    <3> QED BY <2>2, <3>1, QuietStep
  <2>4. CASE PollLogFails(w)
    <3>1. RowsTyped'
      <4>1. order' \in [Runs -> OrderStatus]
        BY <1>1, <2>4, BillTypes DEF PollLogFails
      <4> QED BY <2>4, <4>1, ExecutionConstants DEF PollLogFails, Fault, logVars, jobVars
    <3> QED BY <2>2, <3>1, QuietStep
  <2> QED BY <1>9, <2>3, <2>4
<1>10. CASE PollDone(w) \/ PollTimesOut(w) \/ PollFails(w)
  <2>1. \E outcome \in Outcome : Ends(w, outcome, "refresh")
    BY <1>3, <1>10 DEF PollDone, PollTimesOut, PollFails
  <2>2. worker[w].pc \in Created
    BY <1>3, <1>10 DEF PollDone, PollTimesOut, PollFails, At
  <2>3. (\E status \in LogState : LogPoll(w, status)) \/ UNCHANGED <<task, logVars>>
    BY <1>3, <1>10 DEF PollDone, PollTimesOut, PollFails
  <2>4. /\ orderJob' \in [Runs -> JobIds] /\ callLog' \in [Runs -> LogState] /\ task' \in TaskRow
    <3>1. CASE \E status \in LogState : LogPoll(w, status)
      BY <3>1, LogPollTypes
    <3>2. CASE UNCHANGED <<task, logVars>>
      BY <3>2 DEF logVars
    <3> QED BY <2>3, <3>1, <3>2
  <2>5. RowsTyped' /\ Kept
    BY <1>10, <2>4, ExecutionConstants DEF PollDone, PollTimesOut, PollFails, Fault, jobVars, Kept
  <2>6. /\ Alone(w) /\ worker'[w] \in WorkerRow /\ worker'[w].pc = "refresh"
        /\ worker'[w].run = worker[w].run /\ worker'[w].attempt = worker[w].attempt
    BY <1>2, <1>3, <2>1
  <2> QED BY <2>2, <2>5, <2>6, QuietStep
<1>11. CASE Refresh(w)
  <2>1. \E request \in JobIds :
           worker' = [worker EXCEPT ![w].pc = "finish", ![w].request = request]
    <3>1. task.request \in JobIds
      BY DEF TaskRow
    <3> QED BY <1>1, <1>11, <3>1 DEF Refresh
  <2>2. "finish" \in WorkerPc /\ worker[w].pc \in Created
    BY <1>3, <1>11 DEF WorkerPc, Refresh, At
  <2>3. /\ Alone(w) /\ worker'[w] \in WorkerRow /\ worker'[w].pc = "finish"
        /\ worker'[w].run = worker[w].run /\ worker'[w].attempt = worker[w].attempt
    <3>1. PICK request \in JobIds :
             worker' = [worker EXCEPT ![w].pc = "finish", ![w].request = request]
      BY <2>1
    <3> QED BY <1>1, <2>2, <3>1 DEF Alone, WorkerRow
  <2>4. RowsTyped' /\ Kept
    BY <1>11 DEF Refresh, logVars, jobVars, Kept
  <2> QED BY <2>2, <2>3, <2>4, QuietStep
<1>12. CASE FinishTaskRouteAttempt(w) \/ FinishFails(w)
  <2> DEFINE n == worker[w].attempt  state == FinishedState(w)
  <2>1. state \in DispatchState \ {"none"} /\ AfterCall(w) \in {"failure", "result", "switch"}
    BY DEF FinishedState, AfterCall, DispatchState
  <2>2. worker' = [worker EXCEPT ![w].pc = AfterCall(w), ![w].dispatch = state]
    BY <1>12 DEF FinishTaskRouteAttempt, FinishFails
  <2>3. n \in Attempts(worker[w].run) /\ worker[w].pc \in Created
    BY <1>1, <1>3, <1>12 DEF FinishTaskRouteAttempt, FinishFails, Placed, At
  <2> HIDE DEF state
  <2>4. /\ Alone(w) /\ worker'[w] \in WorkerRow /\ worker'[w].pc \in {"failure", "result", "switch"}
        /\ worker'[w].run = worker[w].run /\ worker'[w].attempt = n
    BY <1>1, <1>3, <2>1, <2>2 DEF Alone, WorkerRow
  <2>5. Placed(w)'
    BY <1>3, <2>4 DEF Placed, At
  <2>6. RowsTyped'
    BY <1>12, ExecutionConstants DEF FinishTaskRouteAttempt, FinishFails, Fault, logVars, jobVars
  <2>7. Kept \/ Grown
    <3>1. CASE FinishFails(w)
      BY <3>1 DEF FinishFails, Kept
    <3>2. CASE FinishTaskRouteAttempt(w)
      <4>1. SaveAttempt(w, n, state, worker[w].request)
        BY <3>2 DEF FinishTaskRouteAttempt, state
      <4>2. 1 .. (n - 1) \subseteq Attempts(worker[w].run)
        BY <1>1, <2>3, AttemptsBefore DEF TypeInv
      <4>3. /\ attempt' \in [Runs -> [Routes -> AttemptRow]] /\ Numbered'
            /\ \A r \in Runs : Attempts(r)' = IF r = worker[w].run THEN Attempts(r) \cup {n}
                                                                    ELSE Attempts(r)
        BY <1>1, <2>1, <4>1, <4>2, SavedAttempt
      <4> QED BY <4>3 DEF Grown
    <3> QED BY <1>12, <3>1, <3>2
  <2> QED BY <2>4, <2>5, <2>6, <2>7, LocalStep
<1> QED BY <1>4, <1>5, <1>6, <1>7, <1>8, <1>9, <1>10, <1>11, <1>12 DEF CallStep

LEMMA FinishTypes ==
  ASSUME TypeInv, NEW w \in Workers, FinishStep(w)
  PROVE  TypeInv'
<1> USE Found, ConstantTypes DEF RowsTyped
<1>1. worker[w] \in WorkerRow /\ worker[w].run \in Runs /\ worker[w].request \in JobIds
  BY DEF WorkerRow
<1>2. /\ {"save", "failure", "settle", "refund", "uncertain", "review"} \subseteq
            WorkerPc \ (Created \cup {"create"})
      /\ {"failed", "succeeded"} \subseteq TaskStatus
  BY DEF WorkerPc, Created, TaskStatus, TerminalStatus
<1>3. ASSUME NEW pc \in WorkerPc \ (Created \cup {"create"}), Goto(w, pc)
      PROVE  Alone(w) /\ worker'[w] \in WorkerRow /\ Placed(w)'
  BY <1>3, GotoTypes DEF Placed, At
<1>4. CASE StopWithoutLease(w) \/ DeferRunningTaskForProviderPoll(w)
  <2>1. Alone(w) /\ worker'[w] \in WorkerRow /\ Placed(w)'
    BY <1>4, StopTypes DEF StopWithoutLease, DeferRunningTaskForProviderPoll
  <2>2. task' \in TaskRow
    BY <1>4 DEF StopWithoutLease, DeferRunningTaskForProviderPoll, Released, TaskRow
  <2>3. RowsTyped' /\ Kept
    BY <1>4, <2>2 DEF StopWithoutLease, DeferRunningTaskForProviderPoll, logVars, jobVars, Kept
  <2> QED BY <2>1, <2>3, LocalStep
<1>5. CASE ExecutionFailure(w) \/ SaveFails(w)
  <2>1. \E pc \in {"settle", "refund", "uncertain", "review"} : Terminal(w, "failed", pc)
    BY <1>5 DEF ExecutionFailure, SaveFails
  <2>2. task' \in TaskRow /\ Alone(w) /\ worker'[w] \in WorkerRow /\ Placed(w)'
    BY <1>2, <2>1, TerminalTypes
  <2>3. RowsTyped' /\ Kept
    BY <1>5, <2>2, ExecutionConstants DEF ExecutionFailure, SaveFails, Fault, logVars, jobVars, Kept
  <2> QED BY <2>2, <2>3, LocalStep
<1>6. CASE PersistResult(w)
  <2>1. Goto(w, "save") \/ Goto(w, "failure")
    BY <1>6 DEF PersistResult
  <2>2. RowsTyped' /\ Kept
    BY <1>6, ExecutionConstants DEF PersistResult, Fault, logVars, jobVars, Kept
  <2> QED BY <1>2, <1>3, <2>1, <2>2, LocalStep
<1>7. CASE SaveTaskCompletion(w)
  <2>1. task' \in TaskRow
    BY <1>1, <1>2, <1>7 DEF SaveTaskCompletion, TaskRow
  <2>2. Alone(w) /\ worker'[w] \in WorkerRow /\ Placed(w)'
    BY <1>2, <1>3, <1>7, StopTypes DEF SaveTaskCompletion
  <2>3. RowsTyped' /\ Kept
    BY <1>7, <2>1 DEF SaveTaskCompletion, logVars, jobVars, Kept
  <2> QED BY <2>2, <2>3, LocalStep
<1>8. CASE SettleBilling(w) \/ RefundBilling(w) \/ BillingUnclear(w) \/ ReviewBilling(w)
  <2>1. \E pc \in WorkerPc, bill \in [Runs -> OrderStatus] : CloseBill(w, pc, bill)
    BY <1>1, <1>2, <1>8, BillTypes
       DEF SettleBilling, RefundBilling, BillingUnclear, ReviewBilling
  <2>2. RowsTyped' /\ Kept /\ Stop(w)
    BY <2>1 DEF CloseBill, logVars, jobVars, Kept
  <2> QED BY <2>2, StopTypes, LocalStep
<1>9. CASE SettleFails(w)
  <2>1. order' \in [Runs -> OrderStatus]
    BY <1>1, <1>9, BillTypes DEF SettleFails
  <2>2. RowsTyped' /\ Kept /\ Stop(w)
    BY <1>9, <2>1, ExecutionConstants DEF SettleFails, Fault, logVars, jobVars, Kept
  <2> QED BY <2>2, StopTypes, LocalStep
<1> QED BY <1>4, <1>5, <1>6, <1>7, <1>8, <1>9 DEF FinishStep

LEMMA ClaimTypes ==
  ASSUME TypeInv, NEW w \in Workers, Claim(w) \/ NotStarted(w) \/ Crash(w) \/ LoseLease(w)
  PROVE  TypeInv'
<1> USE Found, ConstantTypes DEF RowsTyped
<1>1. worker[w] \in WorkerRow /\ "running" \in TaskStatus
  BY DEF TaskStatus
<1>2. CASE Claim(w)
  <2> DEFINE row == [IdleWorker EXCEPT !.pc = "start", !.run = task.run,
                       !.request = task.request, !.route = task.route]
  <2>1. task' \in TaskRow
    BY <1>1, <1>2 DEF Claim, TaskRow
  <2>2. row \in WorkerRow /\ row.pc = "start"
    BY DEF IdleWorker, WorkerRow, WorkerPc, TaskRow
  <2>3. worker' = [worker EXCEPT ![w] = row]
    BY <1>2 DEF Claim
  <2> HIDE DEF row
  <2>4. Alone(w) /\ worker'[w] = row
    BY <2>3 DEF Alone
  <2>5. Placed(w)'
    BY <2>2, <2>4 DEF Placed, At, Created
  <2>6. RowsTyped' /\ Kept
    BY <1>2, <2>1 DEF Claim, logVars, jobVars, Kept
  <2> QED BY <2>2, <2>4, <2>5, <2>6, LocalStep
<1>3. CASE NotStarted(w) \/ Crash(w)
  <2>1. Alone(w) /\ worker'[w] \in WorkerRow /\ Placed(w)'
    BY <1>3, StopTypes DEF NotStarted, Crash
  <2>2. task' \in TaskRow
    BY <1>3 DEF NotStarted, Crash, Released, TaskRow
  <2>3. RowsTyped' /\ Kept
    BY <1>3, <2>2, ExecutionConstants DEF NotStarted, Crash, Fault, logVars, jobVars, Kept
  <2> QED BY <2>1, <2>3, LocalStep
<1>4. CASE LoseLease(w)
  <2>1. /\ Alone(w) /\ worker'[w] \in WorkerRow /\ worker'[w].pc = worker[w].pc
        /\ worker'[w].run = worker[w].run /\ worker'[w].attempt = worker[w].attempt
    BY <1>1, <1>4 DEF LoseLease, Alone, WorkerRow
  <2>2. RowsTyped' /\ Kept
    BY <1>4, ExecutionConstants DEF LoseLease, Fault, logVars, jobVars, Kept
  <2>3. Placed(w)'
    BY <2>1, <2>2 DEF TypeInv, Placed, At, Kept, Attempts
  <2> QED BY <2>1, <2>2, <2>3, LocalStep
<1> QED BY <1>2, <1>3, <1>4

LEMMA OutsideTypes ==
  ASSUME TypeInv, ExpireLease \/ (\E r \in Runs : JobEnds(r))
  PROVE  TypeInv'
<1> USE Found DEF RowsTyped
<1>1. worker' = worker /\ attempt' = attempt
  BY DEF ExpireLease, JobEnds
<1>2. task' \in TaskRow
  BY DEF ExpireLease, JobEnds, TaskRow
<1>3. job' \in [Runs -> JobState]
  BY DEF ExpireLease, JobEnds, jobVars, JobState
<1>4. faults' \in 0 .. MaxFaults
  BY ExecutionConstants DEF ExpireLease, JobEnds, Fault
<1>5. /\ order' = order /\ orderJob' = orderJob /\ callLog' = callLog /\ jobs' = jobs
  BY DEF ExpireLease, JobEnds, logVars, jobVars
<1>6. ExecTypeOK'
  BY <1>1, <1>2, <1>3, <1>4, <1>5 DEF TypeInv, ExecTypeOK, TaskRow
<1>7. Numbered' /\ \A w \in Workers : Placed(w)'
  BY <1>1 DEF TypeInv, Numbered, Placed, Attempts, At
<1> QED BY <1>6, <1>7 DEF TypeInv

LEMMA InitTypes == ExecInit => TypeInv
<1> SUFFICES ASSUME ExecInit PROVE TypeInv
  OBVIOUS
<1>1. ExecTypeOK
  <2>1. /\ IdleWorker \in WorkerRow /\ worker = [w \in Workers |-> IdleWorker]
        /\ NoAttempt \in AttemptRow /\ attempt = [r \in Runs |-> [n \in Routes |-> NoAttempt]]
        /\ task \in TaskRow
    BY ConstantTypes DEF ExecInit, NoAttempt, AttemptRow, DispatchState, TaskRow, TaskStatus
  <2>2. /\ worker \in [Workers -> WorkerRow] /\ attempt \in [Runs -> [Routes -> AttemptRow]]
    BY <2>1
  <2>3. /\ order \in [Runs -> OrderStatus] /\ orderJob \in [Runs -> JobIds]
        /\ callLog \in [Runs -> LogState] /\ job \in [Runs -> JobState]
        /\ jobs \in [Runs -> 0 .. 2] /\ faults \in 0 .. MaxFaults
    BY ConstantTypes, ExecutionConstants
       DEF ExecInit, OrderStatus, OpenOrder, LogState, JobState
  <2> QED BY <2>1, <2>2, <2>3 DEF ExecTypeOK, TaskRow, WorkerRow, AttemptRow
<1>2. Numbered
  <2>1. \A r \in Runs : Attempts(r) = {}
    BY DEF ExecInit, Attempts, NoAttempt
  <2>2. 0 \in 0 .. MaxRoutes /\ 1 .. 0 = {}
    BY ExecutionConstants
  <2> QED BY <2>1, <2>2 DEF Numbered
<1>3. \A w \in Workers : Placed(w)
  BY DEF ExecInit, Placed, At, IdleWorker, Created
<1> QED BY <1>1, <1>2, <1>3 DEF TypeInv

LEMMA StepTypes == TypeInv /\ [ExecNext]_execVars => TypeInv'
<1> SUFFICES ASSUME TypeInv, [ExecNext]_execVars PROVE TypeInv'
  OBVIOUS
<1>1. CASE UNCHANGED execVars
  BY <1>1 DEF execVars, logVars, jobVars, TypeInv, ExecTypeOK, Numbered, Placed, Attempts, At
<1>2. CASE ExecNext
  BY <1>2, PrepareTypes, CallTypes, FinishTypes, ClaimTypes, OutsideTypes DEF ExecNext, WorkerStep
<1> QED BY <1>1, <1>2

\* Row, orders, attempts, logs, jobs and executions keep their types, however
\* many workers, runs, routes and faults there are.
THEOREM ExecutionTyped == ExecSpec => []ExecTypeOK
<1>1. TypeInv => ExecTypeOK
  BY DEF TypeInv
<1> QED BY <1>1, InitTypes, StepTypes, PTL DEF ExecSpec

(***************************************************************************)
(* There is one run here: later ones are begun by retries.                 *)
(***************************************************************************)
SingleRun ==
  /\ task.run = 1 /\ task.request \in {NoJob, 1}
  /\ \A n \in Routes : attempt[1][n].request \in {NoJob, 1}
  /\ \A w \in Workers :
       worker[w].run = 1 /\ worker[w].request \in {NoJob, 1} /\ worker[w].target \in {NoJob, 1}

LEMMA SingleFrame ==
  ASSUME TypeInv, SingleRun, NEW w \in Workers, Alone(w),
         worker'[w].run = 1, worker'[w].request \in {NoJob, 1}, worker'[w].target \in {NoJob, 1},
         task'.run = 1, task'.request \in {NoJob, 1},
         \A n \in Routes : attempt'[1][n].request \in {NoJob, 1}
  PROVE  SingleRun'
<1>1. \A v \in Workers : v # w => worker'[v] = worker[v]
  BY Found DEF Alone
<1> QED BY <1>1 DEF SingleRun

\* Most steps of an execution change what it holds by one of these.
Moved(w) ==
  \E pc \in WorkerPc, outcome \in Outcome :
    worker'[w] = [worker[w] EXCEPT !.pc = pc, !.outcome = outcome]

Stopped(w) == worker'[w] = IdleWorker

LEMMA GotoMoves ==
  ASSUME TypeInv, NEW w \in Workers, NEW pc \in WorkerPc, Goto(w, pc)
  PROVE  /\ Alone(w) /\ Moved(w) /\ worker'[w].pc = pc
         /\ worker'[w] = [worker[w] EXCEPT !.pc = pc]
<1>1. worker \in [Workers -> WorkerRow] /\ worker[w] \in WorkerRow
  BY Found
<1>2. worker'[w] = [worker[w] EXCEPT !.pc = pc]
  BY <1>1 DEF Goto
<1>3. worker[w].outcome \in Outcome
  BY <1>1 DEF WorkerRow
<1>4. worker'[w] = [worker[w] EXCEPT !.pc = pc, !.outcome = worker[w].outcome]
  BY <1>1, <1>2 DEF WorkerRow
<1> QED BY <1>2, <1>3, <1>4, GotoTypes DEF Moved

LEMMA EndsMoves ==
  ASSUME TypeInv, NEW w \in Workers, NEW pc \in WorkerPc, NEW outcome \in Outcome,
         Ends(w, outcome, pc)
  PROVE  /\ Alone(w) /\ Moved(w) /\ worker'[w].pc = pc
         /\ worker'[w] = [worker[w] EXCEPT !.pc = pc, !.outcome = outcome]
<1>1. worker \in [Workers -> WorkerRow] /\ worker[w] \in WorkerRow
  BY Found
<1>2. worker'[w] = [worker[w] EXCEPT !.pc = pc, !.outcome = outcome]
  BY <1>1 DEF Ends
<1> QED BY <1>2, EndsTypes DEF Moved

LEMMA StopMoves ==
  ASSUME TypeInv, NEW w \in Workers, Stop(w)
  PROVE  Alone(w) /\ Stopped(w) /\ worker'[w].pc = "idle"
  BY StopTypes DEF Stopped, IdleWorker

LEMMA TerminalMoves ==
  ASSUME TypeInv, NEW w \in Workers, NEW status, NEW pc \in WorkerPc, Terminal(w, status, pc)
  PROVE  /\ Alone(w)
         /\ task'.run = task.run /\ task'.request = task.request /\ task'.route = task.route
         /\ \/ /\ Fenced(w) /\ Moved(w) /\ worker'[w] = [worker[w] EXCEPT !.pc = pc]
               /\ task'.status = status
            \/ ~Fenced(w) /\ Stopped(w) /\ task' = task
<1>1. task \in TaskRow
  BY Found DEF RowsTyped
<1>2. CASE Fenced(w) /\ task' = Released([task EXCEPT !.status = status]) /\ Goto(w, pc)
  <2>1. /\ task'.run = task.run /\ task'.request = task.request /\ task'.route = task.route
        /\ task'.status = status
    BY <1>1, <1>2 DEF Released, TaskRow
  <2> QED BY <1>2, <2>1, GotoMoves
<1>3. CASE ~Fenced(w) /\ task' = task /\ Stop(w)
  BY <1>3, StopMoves
<1> QED BY <1>2, <1>3 DEF Terminal

\* A step that moves an execution, or stops it, and takes no attempt or job.
LEMMA SingleMove ==
  ASSUME TypeInv, SingleRun, NEW w \in Workers, Alone(w), Moved(w) \/ Stopped(w),
         task'.run = 1, task'.request \in {NoJob, 1}, attempt' = attempt
  PROVE  SingleRun'
<1>1. worker[w] \in WorkerRow
  BY Found
<1>2. /\ worker'[w].run = 1 /\ worker'[w].request \in {NoJob, 1}
      /\ worker'[w].target \in {NoJob, 1}
  <2>1. CASE Moved(w)
    <3>1. PICK pc \in WorkerPc, outcome \in Outcome :
             worker'[w] = [worker[w] EXCEPT !.pc = pc, !.outcome = outcome]
      BY <2>1 DEF Moved
    <3> QED BY <1>1, <3>1 DEF SingleRun, WorkerRow
  <2>2. CASE Stopped(w)
    BY <2>2 DEF Stopped, IdleWorker
  <2> QED BY <2>1, <2>2
<1> QED BY <1>2, SingleFrame DEF SingleRun

LEMMA SavedRequest ==
  ASSUME TypeInv, SingleRun, NEW w \in Workers, NEW n \in Routes, NEW state,
         NEW request \in {NoJob, 1},
         SaveAttempt(w, n, state, request) \/ Saved(w, n, state, request)
  PROVE  \A m \in Routes : attempt'[1][m].request \in {NoJob, 1}
<1>1. attempt \in [Runs -> [Routes -> AttemptRow]] /\ worker[w].run = 1 /\ 1 \in Runs
  BY Found, ConstantTypes DEF SingleRun
<1>9. Saved(w, n, state, request)
  BY <1>1, SaveWrites
<1>2. PICK route :
         attempt' = [attempt EXCEPT ![1][n] =
                      [state |-> state, request |-> request, route |-> route]]
  BY <1>1, <1>9 DEF Saved
<1>3. \A m \in Routes :
         attempt'[1][m].request = IF m = n THEN request ELSE attempt[1][m].request
  BY <1>1, <1>2
<1> QED BY <1>3 DEF SingleRun

(***************************************************************************)
(* What a step does to the row and the bill: nothing that ends either, the *)
(* end of the row, the bill after it, or a claim.                          *)
(***************************************************************************)
Billing == {"settle", "refund", "uncertain", "review"}
Active  == {"queued", "running"}

Quiet(w) ==
  /\ task'.status = task.status
  /\ worker'[w].pc \notin Billing
  /\ \/ order' = order
     \/ order' = Uncertain(1)
     \/ order[1] \in {"reserved", "running"} /\ order' = [order EXCEPT ![1] = "running"]

Decides(w) ==
  /\ Fenced(w) /\ order' = order
  /\ \/ task'.status = "failed" /\ worker'[w].pc \in Billing \ {"settle"}
     \/ task'.status = "succeeded" /\ worker'[w].pc = "settle"

Bills(w) ==
  /\ task' = task /\ worker'[w].pc = "idle"
  /\ \/ At(w, "settle") /\ order' = Settled(1)
     \/ worker[w].pc \in Billing \ {"settle"} /\ order' \in {Refunded(1), Uncertain(1)}

Takes(w) ==
  /\ task.status \in Active /\ task'.status = "running"
  /\ order' = order /\ worker'[w].pc = "start"

Shape(w) == Quiet(w) \/ Decides(w) \/ Bills(w) \/ Takes(w)

LEMMA TerminalShape ==
  ASSUME TypeInv, SingleRun, NEW w \in Workers, NEW pc \in Billing \ {"settle"},
         Terminal(w, "failed", pc), order' = order
  PROVE  /\ Alone(w) /\ (Moved(w) \/ Stopped(w)) /\ Shape(w)
         /\ task'.run = 1 /\ task'.request = task.request /\ task'.route = task.route
<1>1. pc \in WorkerPc /\ "idle" \notin Billing /\ worker[w] \in WorkerRow
  BY Found DEF Billing, WorkerPc
<1>2. /\ Alone(w)
      /\ task'.run = task.run /\ task'.request = task.request /\ task'.route = task.route
      /\ \/ /\ Fenced(w) /\ Moved(w) /\ worker'[w] = [worker[w] EXCEPT !.pc = pc]
            /\ task'.status = "failed"
         \/ ~Fenced(w) /\ Stopped(w) /\ task' = task
  BY <1>1, TerminalMoves
<1>3. CASE Fenced(w) /\ worker'[w] = [worker[w] EXCEPT !.pc = pc] /\ task'.status = "failed"
  <2>1. worker'[w].pc = pc
    BY <1>1, <1>3 DEF WorkerRow
  <2> QED BY <1>2, <1>3, <2>1 DEF Shape, Decides, SingleRun
<1>4. CASE Stopped(w) /\ task' = task
  <2>1. worker'[w].pc = "idle"
    BY <1>4 DEF Stopped, IdleWorker
  <2> QED BY <1>1, <1>2, <1>4, <2>1 DEF Shape, Quiet, SingleRun
<1> QED BY <1>2, <1>3, <1>4

\* An execution that goes on somewhere other than to the bill.
LEMMA GoesOn ==
  ASSUME TypeInv, NEW w \in Workers, NEW pc \in WorkerPc \ Billing,
         Goto(w, pc) \/ \E outcome \in Outcome : Ends(w, outcome, pc)
  PROVE  Alone(w) /\ Moved(w) /\ worker'[w].pc \notin Billing
<1>1. CASE Goto(w, pc)
  <2>1. Alone(w) /\ Moved(w) /\ worker'[w].pc = pc
    BY <1>1, GotoMoves
  <2> QED BY <2>1
<1>2. CASE \E outcome \in Outcome : Ends(w, outcome, pc)
  <2>1. PICK outcome \in Outcome : Ends(w, outcome, pc)
    BY <1>2
  <2>2. Alone(w) /\ Moved(w) /\ worker'[w].pc = pc
    BY <2>1, EndsMoves
  <2> QED BY <2>2
<1> QED BY <1>1, <1>2

LEMMA PrepareShape ==
  ASSUME TypeInv, SingleRun, NEW w \in Workers, PrepareStep(w)
  PROVE  Alone(w) /\ SingleRun' /\ Shape(w)
<1>1. /\ worker[w] \in WorkerRow /\ worker \in [Workers -> WorkerRow] /\ worker[w].run = 1
      /\ worker[w].request \in {NoJob, 1} /\ worker[w].target \in {NoJob, 1} /\ task \in TaskRow
      /\ attempt \in [Runs -> [Routes -> AttemptRow]] /\ 1 \in Runs /\ 1 \in Routes
      /\ Numbered
  BY Found, ConstantTypes DEF SingleRun, RowsTyped, TypeInv
<1>2. /\ {"route", "switch", "failure", "dispatch"} \subseteq WorkerPc \ Billing
      /\ {"uncertain", "refund"} \subseteq Billing \ {"settle"}
      /\ {"create", "adopt", "mark_running", "idle"} \cap Billing = {}
      /\ "mark_running" \in WorkerPc
  BY DEF WorkerPc, Billing
<1>3. CASE Start(w) \/ RejectedAttempt(w) \/ RouteUnavailable(w)
  <2>1. Goto(w, "route") \/ Goto(w, "switch") \/ Stop(w)
    BY <1>3 DEF Start, RejectedAttempt, RouteUnavailable
  <2>2. task' = task /\ order' = order /\ attempt' = attempt
    BY <1>3 DEF Start, RejectedAttempt, RouteUnavailable
  <2>3. /\ Alone(w) /\ (Moved(w) \/ Stopped(w))
        /\ worker'[w].pc \notin Billing
    BY <1>2, <2>1, GotoMoves, StopMoves
  <2>4. SingleRun'
    BY <2>2, <2>3, SingleMove DEF SingleRun
  <2> QED BY <2>2, <2>3, <2>4 DEF Shape, Quiet
<1>4. CASE FirstAttempt(w)
  <2>1. /\ worker' = [worker EXCEPT ![w].pc = "create", ![w].attempt = 1, ![w].dispatch = "none",
                                    ![w].request = worker[w].request]
        /\ task' = task /\ order' = order /\ attempt' = attempt
    BY <1>4 DEF FirstAttempt, Take
  <2>2. /\ Alone(w) /\ worker'[w].pc = "create" /\ worker'[w].run = 1
        /\ worker'[w].request = worker[w].request /\ worker'[w].target = worker[w].target
    BY <1>1, <2>1 DEF Alone, WorkerRow
  <2> QED BY <1>1, <1>2, <2>1, <2>2, SingleFrame DEF SingleRun, Shape, Quiet
<1>5. CASE UnsentAttempt(w)
  <2>1. /\ \E n : worker' = [worker EXCEPT ![w].pc = "mark_running", ![w].attempt = n,
                                           ![w].dispatch = "not_sent",
                                           ![w].request = worker[w].request]
        /\ task' = task /\ order' = order /\ attempt' = attempt
    BY <1>5 DEF UnsentAttempt, Take
  <2>2. /\ Alone(w) /\ worker'[w].pc = "mark_running" /\ worker'[w].run = 1
        /\ worker'[w].request = worker[w].request /\ worker'[w].target = worker[w].target
    <3>1. PICK n : worker' = [worker EXCEPT ![w].pc = "mark_running", ![w].attempt = n,
                                            ![w].dispatch = "not_sent",
                                            ![w].request = worker[w].request]
      BY <2>1
    <3> QED BY <1>1, <3>1 DEF Alone, WorkerRow
  <2> QED BY <1>1, <1>2, <2>1, <2>2, SingleFrame DEF SingleRun, Shape, Quiet
<1>6. CASE ResumedAttempt(w)
  <2> DEFINE n    == Max(Attempts(worker[w].run))
             saved == attempt[worker[w].run][n].request
             job0 == IF worker[w].request # NoJob THEN worker[w].request ELSE saved
  <2>1. n \in Routes
    BY <1>1, <1>6, LastAttempt DEF ResumedAttempt, Attempts
  <2>2. saved \in {NoJob, 1} /\ job0 \in {NoJob, 1}
    BY <1>1, <2>1 DEF SingleRun
  <2>3. /\ \E pc \in {"adopt", "mark_running"} :
             worker' = [worker EXCEPT ![w].pc = pc, ![w].attempt = n, ![w].dispatch = "accepted",
                                      ![w].request = job0, ![w].target = saved]
        /\ task' = task \/ task' = [task EXCEPT !.request = job0]
        /\ attempt' = attempt /\ order' = order
    BY <1>6 DEF ResumedAttempt
  <2> HIDE DEF n, job0, saved
  <2>4. /\ Alone(w) /\ worker'[w].pc \in {"adopt", "mark_running"} /\ worker'[w].run = 1
        /\ worker'[w].request = job0 /\ worker'[w].target = saved
    <3>1. PICK pc \in {"adopt", "mark_running"} :
             worker' = [worker EXCEPT ![w].pc = pc, ![w].attempt = n, ![w].dispatch = "accepted",
                                      ![w].request = job0, ![w].target = saved]
      BY <2>3
    <3> QED BY <1>1, <3>1 DEF Alone, WorkerRow
  <2>5. task'.status = task.status /\ task'.run = 1 /\ task'.request \in {NoJob, 1}
    BY <1>1, <2>2, <2>3 DEF SingleRun, TaskRow
  <2>6. SingleRun'
    BY <1>1, <2>2, <2>3, <2>4, <2>5, SingleFrame DEF SingleRun
  <2> QED BY <1>2, <2>3, <2>4, <2>5, <2>6 DEF Shape, Quiet
<1>12. CASE AdoptAttempt(w)
  <2> DEFINE n == worker[w].attempt
  <2>1. /\ SaveAttempt(w, n, "accepted", worker[w].target) /\ Goto(w, "mark_running")
        /\ task' = task /\ order' = order /\ n \in Routes
    BY <1>1, <1>12 DEF AdoptAttempt, WorkerRow
  <2>2. /\ Alone(w) /\ worker'[w].pc = "mark_running"
        /\ worker'[w] = [worker[w] EXCEPT !.pc = "mark_running"]
    BY <1>2, <2>1, GotoMoves
  <2>3. /\ worker'[w].run = 1 /\ worker'[w].request = worker[w].request
        /\ worker'[w].target = worker[w].target
    BY <1>1, <2>2 DEF WorkerRow
  <2>4. \A m \in Routes : attempt'[1][m].request \in {NoJob, 1}
    BY <1>1, <2>1, SavedRequest
  <2>5. SingleRun'
    BY <1>1, <2>1, <2>2, <2>3, <2>4, SingleFrame DEF SingleRun
  <2> QED BY <1>2, <2>1, <2>2, <2>5 DEF Shape, Quiet
<1>7. CASE UnknownAttempt(w) \/ RouteFails(w) \/ BillingNotReady(w)
  <2>1. /\ \E pc \in {"uncertain", "refund"} : Terminal(w, "failed", pc)
        /\ order' = order /\ attempt' = attempt
    BY <1>7 DEF UnknownAttempt, RouteFails, BillingNotReady
  <2>2. /\ Alone(w) /\ (Moved(w) \/ Stopped(w)) /\ Shape(w)
        /\ task'.run = 1 /\ task'.request = task.request
    BY <1>2, <2>1, TerminalShape
  <2> QED BY <2>1, <2>2, SingleMove DEF SingleRun
<1>8. CASE SwitchTaskLogicalRoute(w)
  <2>1. /\ \E next, number :
             /\ task' = [task EXCEPT !.route = next]
             /\ worker' = [worker EXCEPT ![w].pc = "create", ![w].route = next,
                                         ![w].attempt = number, ![w].request = NoJob]
        /\ order' = order /\ attempt' = attempt
    BY <1>8 DEF SwitchTaskLogicalRoute
  <2>2. /\ Alone(w) /\ worker'[w].pc = "create" /\ worker'[w].run = 1
        /\ worker'[w].request = NoJob /\ worker'[w].target = worker[w].target
    <3>1. PICK next, number : worker' = [worker EXCEPT ![w].pc = "create", ![w].route = next,
                                               ![w].attempt = number, ![w].request = NoJob]
      BY <2>1
    <3> QED BY <1>1, <3>1 DEF Alone, WorkerRow
  <2>3. task'.status = task.status /\ task'.run = 1 /\ task'.request = task.request
    BY <1>1, <2>1 DEF SingleRun, TaskRow
  <2> QED BY <1>1, <1>2, <2>1, <2>2, <2>3, SingleFrame DEF SingleRun, Shape, Quiet
<1>9. CASE NoNextRoute(w) \/ AttemptNotCreated(w)
  <2>1. /\ Terminal(w, "failed", "refund") \/ (task' = task /\ Goto(w, "failure"))
        /\ order' = order /\ attempt' = attempt
    BY <1>9 DEF NoNextRoute, AttemptNotCreated
  <2>2. CASE Terminal(w, "failed", "refund")
    <3>1. /\ Alone(w) /\ (Moved(w) \/ Stopped(w)) /\ Shape(w)
          /\ task'.run = 1 /\ task'.request = task.request
      BY <1>2, <2>1, <2>2, TerminalShape
    <3> QED BY <2>1, <3>1, SingleMove DEF SingleRun
  <2>3. CASE task' = task /\ Goto(w, "failure")
    <3>1. Alone(w) /\ Moved(w) /\ worker'[w].pc \notin Billing
      BY <1>2, <2>3, GotoMoves
    <3> QED BY <2>1, <2>3, <3>1, SingleMove DEF SingleRun, Shape, Quiet
  <2> QED BY <2>1, <2>2, <2>3
<1>10. CASE CreateRouteAttempt(w)
  <2> DEFINE n == worker[w].attempt
  <2>0. worker[w].route \in Routes
    BY <1>1 DEF WorkerRow
  <2>1. /\ Saved(w, n, "not_sent", NoJob)
        /\ \E pc \in {"mark_running", "dispatch"} :
             worker' = [worker EXCEPT ![w].pc = pc, ![w].attempt = n,
                                      ![w].dispatch = "not_sent", ![w].request = worker[w].request]
        /\ task' = task /\ order' = order
    BY <1>10, <2>0 DEF CreateRouteAttempt, Saved, Take
  <2>2. /\ Alone(w) /\ worker'[w].pc \in {"mark_running", "dispatch"} /\ worker'[w].run = 1
        /\ worker'[w].request = worker[w].request /\ worker'[w].target = worker[w].target
    <3>1. PICK pc \in {"mark_running", "dispatch"} :
             worker' = [worker EXCEPT ![w].pc = pc, ![w].attempt = n,
                                      ![w].dispatch = "not_sent", ![w].request = worker[w].request]
      BY <2>1
    <3> QED BY <1>1, <3>1 DEF Alone, WorkerRow
  <2>3. \A m \in Routes : attempt'[1][m].request \in {NoJob, 1}
    BY <1>1, <2>1, SavedRequest DEF WorkerRow
  <2> QED BY <1>1, <1>2, <2>1, <2>2, <2>3, SingleFrame DEF SingleRun, Shape, Quiet
<1>11. CASE MarkBillingRunning(w)
  <2>1. /\ task' = task /\ attempt' = attempt /\ Goto(w, "dispatch")
        /\ order[1] \in {"reserved", "running"} /\ order' = [order EXCEPT ![1] = "running"]
    BY <1>1, <1>11 DEF MarkBillingRunning
  <2>2. Alone(w) /\ Moved(w) /\ worker'[w].pc \notin Billing
    <3>1. "dispatch" \in WorkerPc \ Billing
      BY <1>2
    <3> QED BY <2>1, <3>1, GoesOn
  <2>3. SingleRun'
    BY <2>1, <2>2, SingleMove DEF SingleRun
  <2> QED BY <2>1, <2>2, <2>3 DEF Shape, Quiet
<1> QED BY <1>3, <1>12, <1>4, <1>5, <1>6, <1>7, <1>8, <1>9, <1>10, <1>11 DEF PrepareStep

LEMMA CallShape ==
  ASSUME TypeInv, SingleRun, NEW w \in Workers, CallStep(w)
  PROVE  Alone(w) /\ SingleRun' /\ Quiet(w)
<1>1. /\ worker[w] \in WorkerRow /\ worker \in [Workers -> WorkerRow] /\ worker[w].run = 1
      /\ worker[w].request \in {NoJob, 1} /\ worker[w].target \in {NoJob, 1} /\ task \in TaskRow
      /\ task.run = 1 /\ task.request \in {NoJob, 1} /\ worker[w].attempt \in Routes
  BY Found DEF SingleRun, RowsTyped, WorkerRow
<1>2. /\ {"call", "log_task", "log_call", "poll", "refresh", "failure"} \subseteq WorkerPc \ Billing
      /\ {"log_order", "finish", "failure", "result", "switch"} \cap Billing = {}
      /\ {"failed", "unclear", "rejected", "success", "slot_full", "slot_timeout"} \cup Cancelled
           \subseteq Outcome
  BY DEF WorkerPc, Billing, Outcome, Cancelled, SlotOutcome
<1>3. CASE MarkRouteAttemptDispatching(w)
  <2> DEFINE n == worker[w].attempt
  <2>1. task' = task /\ order' = order
    BY <1>3 DEF MarkRouteAttemptDispatching
  <2>2. CASE SaveAttempt(w, n, "submission_unknown", NoJob)
             /\ worker' = [worker EXCEPT ![w].pc = "call", ![w].dispatch = "submission_unknown"]
    <3>1. /\ Alone(w) /\ worker'[w].pc = "call" /\ worker'[w].run = 1
          /\ worker'[w].request = worker[w].request /\ worker'[w].target = worker[w].target
      BY <1>1, <2>2 DEF Alone, WorkerRow
    <3>2. \A m \in Routes : attempt'[1][m].request \in {NoJob, 1}
      BY <1>1, <2>2, SavedRequest
    <3>3. SingleRun'
      BY <1>1, <2>1, <3>1, <3>2, SingleFrame
    <3> QED BY <1>2, <2>1, <3>1, <3>3 DEF Quiet
  <2>3. CASE Goto(w, "call") /\ UNCHANGED attempt
    <3>1. Alone(w) /\ Moved(w) /\ worker'[w].pc \notin Billing
      BY <1>2, <2>3, GotoMoves
    <3>2. SingleRun'
      BY <1>1, <2>1, <2>3, <3>1, SingleMove
    <3> QED BY <2>1, <3>1, <3>2 DEF Quiet
  <2> QED BY <1>3, <2>2, <2>3 DEF MarkRouteAttemptDispatching
<1>4. CASE DispatchMarkFails(w)
  <2>1. /\ worker' = [worker EXCEPT ![w].pc = "failure", ![w].outcome = "failed",
                                    ![w].dispatch = "submission_unknown"]
        /\ task' = task /\ order' = order /\ attempt' = attempt
    BY <1>4 DEF DispatchMarkFails
  <2>2. /\ Alone(w) /\ worker'[w].pc = "failure" /\ worker'[w].run = 1
        /\ worker'[w].request = worker[w].request /\ worker'[w].target = worker[w].target
    BY <1>1, <2>1 DEF Alone, WorkerRow
  <2>3. SingleRun'
    BY <1>1, <2>1, <2>2, SingleFrame DEF SingleRun
  <2> QED BY <1>2, <2>1, <2>2, <2>3 DEF Quiet
<1>5. CASE Resume(w) \/ Submit(w)
  <2>1. /\ \E pc \in {"poll", "log_order"}, target \in {NoJob, 1} :
             worker' = [worker EXCEPT ![w].pc = pc, ![w].target = target]
        /\ task' = task /\ order' = order /\ attempt' = attempt
    BY <1>1, <1>5 DEF Resume, Submit
  <2>2. PICK pc \in {"poll", "log_order"}, target \in {NoJob, 1} :
             worker' = [worker EXCEPT ![w].pc = pc, ![w].target = target]
    BY <2>1
  <2>3. /\ Alone(w) /\ worker'[w].pc = pc /\ worker'[w].run = 1
        /\ worker'[w].request = worker[w].request /\ worker'[w].target = target
    BY <1>1, <2>2 DEF Alone, WorkerRow
  <2>4. SingleRun'
    BY <1>1, <2>1, <2>3, SingleFrame DEF SingleRun
  <2> QED BY <1>2, <2>1, <2>3, <2>4 DEF Quiet
<1>6. CASE SubmitUnanswered(w) \/ SubmitRefused(w) \/ CallCancelled(w)
  <2>1. /\ \E outcome \in Outcome : Ends(w, outcome, "refresh")
        /\ task' = task /\ order' = order /\ attempt' = attempt
    BY <1>2, <1>6 DEF SubmitUnanswered, SubmitRefused, CallCancelled
  <2>2. Alone(w) /\ Moved(w) /\ worker'[w].pc \notin Billing
    <3>1. "refresh" \in WorkerPc \ Billing
      BY <1>2
    <3> QED BY <2>1, <3>1, GoesOn
  <2>3. SingleRun'
    BY <1>1, <2>1, <2>2, SingleMove
  <2> QED BY <2>1, <2>2, <2>3 DEF Quiet
<1>7. CASE LogOrder(w) \/ LogTask(w) \/ LogCall(w) \/ LogFails(w)
  <2>1. /\ Goto(w, "log_task") \/ Goto(w, "log_call") \/ Goto(w, "poll")
        /\ task' = task \/ task' = [task EXCEPT !.request = worker[w].target]
        /\ order' = order \/ order' = Uncertain(1)
        /\ attempt' = attempt
    BY <1>1, <1>7 DEF LogOrder, LogTask, LogCall, LogFails
  <2>2. Alone(w) /\ Moved(w) /\ worker'[w].pc \notin Billing
    <3>1. PICK pc \in {"log_task", "log_call", "poll"} : Goto(w, pc)
      BY <2>1
    <3>2. pc \in WorkerPc \ Billing
      BY <1>2
    <3> QED BY <3>1, <3>2, GoesOn
  <2>3. task'.status = task.status /\ task'.run = 1 /\ task'.request \in {NoJob, 1}
    BY <1>1, <2>1 DEF TaskRow
  <2>4. SingleRun'
    BY <2>1, <2>2, <2>3, SingleMove
  <2> QED BY <2>1, <2>2, <2>3, <2>4 DEF Quiet
<1>8. CASE PollPending(w) \/ PollLogFails(w)
  <2>1. /\ task' = task \/ task' = [task EXCEPT !.request = worker[w].target]
        /\ order' = order \/ order' = Uncertain(1)
        /\ attempt' = attempt /\ worker' = worker /\ worker[w].pc = "poll"
    BY <1>1, <1>8 DEF PollPending, PollLogFails, LogPoll, At
  <2>2. Alone(w) /\ worker'[w].pc \notin Billing
    BY <1>1, <2>1 DEF Alone, Billing
  <2>3. task'.status = task.status /\ task'.run = 1 /\ task'.request \in {NoJob, 1}
    BY <1>1, <2>1 DEF TaskRow
  <2>4. SingleRun'
    BY <1>1, <2>1, <2>2, <2>3, SingleFrame DEF SingleRun
  <2> QED BY <2>1, <2>2, <2>3, <2>4 DEF Quiet
<1>9. CASE PollDone(w) \/ PollTimesOut(w) \/ PollFails(w)
  <2>1. /\ \E outcome \in Outcome : Ends(w, outcome, "refresh")
        /\ task' = task \/ task' = [task EXCEPT !.request = worker[w].target]
        /\ order' = order /\ attempt' = attempt
    BY <1>2, <1>9 DEF PollDone, PollTimesOut, PollFails, LogPoll
  <2>2. Alone(w) /\ Moved(w) /\ worker'[w].pc \notin Billing
    <3>1. "refresh" \in WorkerPc \ Billing
      BY <1>2
    <3> QED BY <2>1, <3>1, GoesOn
  <2>3. task'.status = task.status /\ task'.run = 1 /\ task'.request \in {NoJob, 1}
    BY <1>1, <2>1 DEF TaskRow
  <2>4. SingleRun'
    BY <2>1, <2>2, <2>3, SingleMove
  <2> QED BY <2>1, <2>2, <2>3, <2>4 DEF Quiet
<1>10. CASE Refresh(w)
  <2>1. /\ \E request \in {NoJob, 1} :
             worker' = [worker EXCEPT ![w].pc = "finish", ![w].request = request]
        /\ task' = task /\ order' = order /\ attempt' = attempt
    BY <1>1, <1>10 DEF Refresh
  <2>2. PICK request \in {NoJob, 1} :
             worker' = [worker EXCEPT ![w].pc = "finish", ![w].request = request]
    BY <2>1
  <2>3. /\ Alone(w) /\ worker'[w].pc = "finish" /\ worker'[w].run = 1
        /\ worker'[w].request = request /\ worker'[w].target = worker[w].target
    BY <1>1, <2>2 DEF Alone, WorkerRow
  <2>4. SingleRun'
    BY <1>1, <2>1, <2>3, SingleFrame DEF SingleRun
  <2> QED BY <1>2, <2>1, <2>3, <2>4 DEF Quiet
<1>11. CASE FinishTaskRouteAttempt(w) \/ FinishFails(w)
  <2> DEFINE state == FinishedState(w)  pc == AfterCall(w)
  <2>1. /\ worker' = [worker EXCEPT ![w].pc = pc, ![w].dispatch = state]
        /\ attempt' = attempt \/ SaveAttempt(w, worker[w].attempt, state, worker[w].request)
        /\ task' = task /\ order' = order
    BY <1>11 DEF FinishTaskRouteAttempt, FinishFails
  <2>2. pc \in {"failure", "result", "switch"}
    BY DEF AfterCall
  <2> HIDE DEF pc, state
  <2>3. /\ Alone(w) /\ worker'[w].pc = pc /\ worker'[w].run = 1
        /\ worker'[w].request = worker[w].request /\ worker'[w].target = worker[w].target
    BY <1>1, <2>1 DEF Alone, WorkerRow
  <2>4. \A m \in Routes : attempt'[1][m].request \in {NoJob, 1}
    BY <1>1, <2>1, SavedRequest DEF SingleRun
  <2>5. SingleRun'
    BY <1>1, <2>1, <2>3, <2>4, SingleFrame
  <2> QED BY <1>2, <2>1, <2>2, <2>3, <2>5 DEF Quiet
<1> QED BY <1>3, <1>4, <1>5, <1>6, <1>7, <1>8, <1>9, <1>10, <1>11 DEF CallStep

LEMMA FinishShape ==
  ASSUME TypeInv, SingleRun, NEW w \in Workers, FinishStep(w)
  PROVE  Alone(w) /\ SingleRun' /\ Shape(w)
<1>1. /\ worker[w] \in WorkerRow /\ worker[w].run = 1 /\ worker[w].request \in {NoJob, 1}
      /\ task \in TaskRow /\ task.run = 1 /\ task.request \in {NoJob, 1}
  BY Found DEF SingleRun, RowsTyped
<1>2. /\ {"save", "failure"} \subseteq WorkerPc \ Billing /\ "idle" \notin Billing
      /\ {"uncertain", "refund", "review"} \subseteq Billing \ {"settle"}
      /\ "settle" \in WorkerPc
  BY DEF WorkerPc, Billing
<1>3. CASE StopWithoutLease(w) \/ DeferRunningTaskForProviderPoll(w)
  <2>1. Stop(w) /\ order' = order /\ attempt' = attempt /\ (task' = task \/ task' = Released(task))
    BY <1>3 DEF StopWithoutLease, DeferRunningTaskForProviderPoll
  <2>2. Alone(w) /\ Stopped(w) /\ worker'[w].pc \notin Billing
    BY <1>2, <2>1, StopMoves
  <2>3. task'.status = task.status /\ task'.run = 1 /\ task'.request \in {NoJob, 1}
    BY <1>1, <2>1 DEF Released, TaskRow
  <2>4. SingleRun'
    BY <2>1, <2>2, <2>3, SingleMove
  <2> QED BY <2>1, <2>2, <2>3, <2>4 DEF Shape, Quiet
<1>4. CASE ExecutionFailure(w) \/ SaveFails(w)
  <2>1. /\ \E pc \in {"refund", "uncertain", "review"} : Terminal(w, "failed", pc)
        /\ order' = order /\ attempt' = attempt
    BY <1>4 DEF ExecutionFailure, SaveFails
  <2>2. /\ Alone(w) /\ (Moved(w) \/ Stopped(w)) /\ Shape(w)
        /\ task'.run = 1 /\ task'.request = task.request
    BY <1>2, <2>1, TerminalShape
  <2> QED BY <1>1, <2>1, <2>2, SingleMove
<1>5. CASE PersistResult(w)
  <2>1. /\ Goto(w, "save") \/ Goto(w, "failure")
        /\ task' = task /\ order' = order /\ attempt' = attempt
    BY <1>5 DEF PersistResult
  <2>2. Alone(w) /\ Moved(w) /\ worker'[w].pc \notin Billing
    BY <1>2, <2>1, GotoMoves
  <2>3. SingleRun'
    BY <1>1, <2>1, <2>2, SingleMove
  <2> QED BY <2>1, <2>2, <2>3 DEF Shape, Quiet
<1>6. CASE SaveTaskCompletion(w)
  <2>1. order' = order /\ attempt' = attempt
    BY <1>6 DEF SaveTaskCompletion
  <2>2. CASE /\ Fenced(w) /\ Goto(w, "settle")
             /\ task' = [task EXCEPT !.status = "succeeded", !.request = worker[w].request]
    <3>1. Alone(w) /\ Moved(w) /\ worker'[w].pc = "settle"
      BY <1>2, <2>2, GotoMoves
    <3>2. task'.status = "succeeded" /\ task'.run = 1 /\ task'.request \in {NoJob, 1}
      BY <1>1, <2>2 DEF TaskRow
    <3>3. SingleRun'
      BY <2>1, <3>1, <3>2, SingleMove
    <3> QED BY <2>1, <2>2, <3>1, <3>2, <3>3 DEF Shape, Decides
  <2>3. CASE task' = task /\ Stop(w)
    <3>1. Alone(w) /\ Stopped(w) /\ worker'[w].pc \notin Billing
      BY <1>2, <2>3, StopMoves
    <3>2. SingleRun'
      BY <1>1, <2>1, <2>3, <3>1, SingleMove
    <3> QED BY <2>1, <2>3, <3>1, <3>2 DEF Shape, Quiet
  <2> QED BY <1>6, <2>2, <2>3 DEF SaveTaskCompletion
<1>7. CASE SettleBilling(w) \/ RefundBilling(w) \/ BillingUnclear(w) \/ ReviewBilling(w)
  <2>1. /\ Stop(w) /\ task' = task /\ attempt' = attempt
        /\ \/ At(w, "settle") /\ order' = Settled(1)
           \/ worker[w].pc \in {"refund", "uncertain", "review"}
              /\ order' \in {Refunded(1), Uncertain(1)}
    BY <1>1, <1>7
       DEF SettleBilling, RefundBilling, BillingUnclear, ReviewBilling, CloseBill, At
  <2>2. Alone(w) /\ Stopped(w) /\ worker'[w].pc = "idle"
    BY <2>1, StopMoves
  <2>3. SingleRun'
    BY <1>1, <2>1, <2>2, SingleMove
  <2> QED BY <1>2, <2>1, <2>2, <2>3 DEF Shape, Bills
<1>8. CASE SettleFails(w)
  <2>1. /\ Stop(w) /\ task' = task /\ attempt' = attempt
        /\ order' = order \/ order' = Uncertain(1)
    BY <1>1, <1>8 DEF SettleFails
  <2>2. Alone(w) /\ Stopped(w) /\ worker'[w].pc = "idle"
    BY <2>1, StopMoves
  <2>3. SingleRun'
    BY <1>1, <2>1, <2>2, SingleMove
  <2> QED BY <1>2, <2>1, <2>2, <2>3 DEF Shape, Quiet
<1> QED BY <1>3, <1>4, <1>5, <1>6, <1>7, <1>8 DEF FinishStep

LEMMA ClaimShape ==
  ASSUME TypeInv, SingleRun, NEW w \in Workers,
         Claim(w) \/ NotStarted(w) \/ Crash(w) \/ LoseLease(w)
  PROVE  Alone(w) /\ SingleRun' /\ (Shape(w) \/ LoseLease(w))
<1>1. /\ worker[w] \in WorkerRow /\ worker \in [Workers -> WorkerRow] /\ worker[w].run = 1
      /\ worker[w].request \in {NoJob, 1} /\ worker[w].target \in {NoJob, 1} /\ task \in TaskRow
      /\ task.run = 1 /\ task.request \in {NoJob, 1}
  BY Found DEF SingleRun, RowsTyped
<1>2. CASE Claim(w)
  <2> DEFINE row == [IdleWorker EXCEPT !.pc = "start", !.run = task.run,
                       !.request = task.request, !.route = task.route]
  <2>1. /\ worker' = [worker EXCEPT ![w] = row]
        /\ task' = [task EXCEPT !.status = "running", !.owner = w, !.lease = TRUE]
        /\ order' = order /\ attempt' = attempt /\ task.status \in Active
    BY <1>2 DEF Claim, Active
  <2>2. row.pc = "start" /\ row.run = 1 /\ row.request = task.request /\ row.target = NoJob
    BY <1>1 DEF IdleWorker
  <2>3. Alone(w) /\ worker'[w] = row
    BY <1>1, <2>1 DEF Alone
  <2> HIDE DEF row
  <2>4. task'.status = "running" /\ task'.run = 1 /\ task'.request = task.request
    BY <1>1, <2>1 DEF TaskRow
  <2>5. SingleRun'
    BY <1>1, <2>1, <2>2, <2>3, <2>4, SingleFrame DEF SingleRun
  <2> QED BY <2>1, <2>2, <2>3, <2>4, <2>5 DEF Shape, Takes
<1>3. CASE NotStarted(w) \/ Crash(w)
  <2>1. Stop(w) /\ order' = order /\ attempt' = attempt /\ (task' = task \/ task' = Released(task))
    BY <1>3 DEF NotStarted, Crash
  <2>2. Alone(w) /\ Stopped(w) /\ worker'[w].pc \notin Billing
    BY <2>1, StopMoves DEF Billing
  <2>3. task'.status = task.status /\ task'.run = 1 /\ task'.request \in {NoJob, 1}
    BY <1>1, <2>1 DEF Released, TaskRow
  <2>4. SingleRun'
    BY <2>1, <2>2, <2>3, SingleMove
  <2> QED BY <2>1, <2>2, <2>3, <2>4 DEF Shape, Quiet
<1>4. CASE LoseLease(w)
  <2>1. /\ worker' = [worker EXCEPT ![w].ctx = "lease_lost"]
        /\ task' = task /\ attempt' = attempt
    BY <1>4 DEF LoseLease
  <2>2. /\ Alone(w) /\ worker'[w].run = 1
        /\ worker'[w].request = worker[w].request /\ worker'[w].target = worker[w].target
    BY <1>1, <2>1 DEF Alone, WorkerRow
  <2>3. SingleRun'
    BY <1>1, <2>1, <2>2, SingleFrame DEF SingleRun
  <2> QED BY <1>4, <2>2, <2>3
<1> QED BY <1>2, <1>3, <1>4

\* The steps of no execution.
LEMMA OutsideShape ==
  ASSUME TypeInv, SingleRun, ExpireLease \/ (\E r \in Runs : JobEnds(r))
  PROVE  /\ SingleRun' /\ worker' = worker /\ attempt' = attempt /\ order' = order
         /\ task'.status = task.status
<1>1. task \in TaskRow
  BY Found DEF RowsTyped
<1>2. /\ worker' = worker /\ attempt' = attempt /\ order' = order
      /\ task' = task \/ task' = [task EXCEPT !.lease = FALSE]
  BY DEF ExpireLease, JobEnds
<1>3. task'.status = task.status /\ task'.run = task.run /\ task'.request = task.request
  BY <1>1, <1>2 DEF TaskRow
<1> QED BY <1>2, <1>3 DEF SingleRun

\* Every step of the system.
LEMMA StepShape ==
  ASSUME TypeInv, SingleRun, ExecNext
  PROVE  /\ SingleRun'
         /\ \/ \E w \in Workers : Alone(w) /\ (Shape(w) \/ LoseLease(w))
            \/ /\ ExpireLease \/ \E r \in Runs : JobEnds(r)
               /\ worker' = worker /\ order' = order /\ task'.status = task.status
<1>1. CASE \E w \in Workers :
             Claim(w) \/ NotStarted(w) \/ WorkerStep(w) \/ Crash(w) \/ LoseLease(w)
  <2>1. PICK w \in Workers :
               Claim(w) \/ NotStarted(w) \/ WorkerStep(w) \/ Crash(w) \/ LoseLease(w)
    BY <1>1
  <2>2. Alone(w) /\ SingleRun' /\ (Shape(w) \/ LoseLease(w))
    BY <2>1, PrepareShape, CallShape, FinishShape, ClaimShape DEF WorkerStep, Shape
  <2> QED BY <2>2
<1>2. CASE ExpireLease \/ \E r \in Runs : JobEnds(r)
  BY <1>2, OutsideShape
<1> QED BY <1>1, <1>2 DEF ExecNext

(***************************************************************************)
(* Only the execution that ends the row closes the bill.                   *)
(***************************************************************************)
\* What the row says while its bill is open, and while somebody is to close it.
BillInv ==
  /\ task.status \in Active => order[1] \in OpenOrder
  /\ \A w \in Workers :
       /\ At(w, "settle") => task.status = "succeeded"
       /\ worker[w].pc \in Billing \ {"settle"} => task.status = "failed"
  /\ OutcomeMatchesBill

LEMMA BillShape ==
  ASSUME TypeInv, SingleRun, SingleRun', BillInv, NEW w \in Workers, Alone(w), Shape(w)
  PROVE  /\ BillInv'
         /\ \A r \in Runs :
              order[r] \in OpenOrder /\ order'[r] \notin OpenOrder =>
                r = 1 /\ task.status \in TerminalStatus
<1>1. /\ order \in [Runs -> OrderStatus] /\ 1 \in Runs /\ task.run = 1 /\ task'.run = 1
      /\ task.status \in TaskStatus
  BY Found, ConstantTypes DEF RowsTyped, SingleRun, TaskRow
<1>2. \A v \in Workers : v # w => worker'[v] = worker[v]
  BY Found DEF Alone
<1>3. CASE Quiet(w)
  <2>1. /\ \A r \in Runs : r # 1 => order'[r] = order[r]
        /\ order[1] \in OpenOrder => order'[1] \in OpenOrder
        /\ order[1] \notin OpenOrder => order'[1] = order[1]
    BY <1>1, <1>3 DEF Quiet, Uncertain, OpenOrder
  <2>2. task'.status = task.status /\ worker'[w].pc \notin Billing
    BY <1>3 DEF Quiet
  <2>3. order'[1] \in OpenOrder => order'[1] # "settled" /\ order'[1] # "refunded"
    BY DEF OpenOrder
  <2> QED BY <1>1, <1>2, <2>1, <2>2, <2>3 DEF BillInv, OutcomeMatchesBill, At, Billing
<1>4. CASE Decides(w)
  <2>1. task.status = "running" /\ order' = order /\ order[1] \in OpenOrder
    BY <1>4 DEF Decides, Fenced, BillInv, Active
  <2>2. order[1] # "settled" /\ order[1] # "refunded"
    BY <2>1 DEF OpenOrder
  <2>3. \A v \in Workers : worker[v].pc \notin Billing
    BY <2>1 DEF BillInv, At
  <2>4. \A v \in Workers : v # w => worker'[v].pc \notin Billing
    BY <1>2, <2>3
  <2>5. CASE task'.status = "failed" /\ worker'[w].pc \in Billing \ {"settle"}
    BY <1>1, <2>1, <2>2, <2>4, <2>5 DEF BillInv, OutcomeMatchesBill, At, Billing, Active
  <2>6. CASE task'.status = "succeeded" /\ worker'[w].pc = "settle"
    BY <1>1, <2>1, <2>2, <2>4, <2>6 DEF BillInv, OutcomeMatchesBill, At, Billing, Active
  <2> QED BY <1>4, <2>5, <2>6 DEF Decides
<1>5. CASE Bills(w)
  <2>1. task' = task /\ worker'[w].pc = "idle"
    BY <1>5 DEF Bills
  <2>2. CASE At(w, "settle") /\ order' = Settled(1)
    <3>1. task.status = "succeeded"
      BY <2>2 DEF BillInv
    <3>2. /\ \A r \in Runs : r # 1 => order'[r] = order[r]
          /\ order'[1] \in {"settled", order[1]}
      BY <1>1, <2>2 DEF Settled
    <3>3. OutcomeMatchesBill'
      BY <1>1, <2>1, <3>1, <3>2 DEF BillInv, OutcomeMatchesBill
    <3>4. task.status \notin Active /\ task.status \in TerminalStatus
      BY <3>1 DEF Active, TerminalStatus
    <3> QED BY <1>2, <2>1, <3>2, <3>3, <3>4 DEF BillInv, At, Billing
  <2>3. CASE worker[w].pc \in Billing \ {"settle"} /\ order' \in {Refunded(1), Uncertain(1)}
    <3>1. task.status = "failed"
      BY <2>3 DEF BillInv
    <3>2. /\ \A r \in Runs : r # 1 => order'[r] = order[r]
          /\ order'[1] \in {"refunded", "uncertain", order[1]}
      BY <1>1, <2>3 DEF Refunded, Uncertain
    <3>3. OutcomeMatchesBill'
      BY <1>1, <2>1, <3>1, <3>2 DEF BillInv, OutcomeMatchesBill
    <3>4. task.status \notin Active /\ task.status \in TerminalStatus
      BY <3>1 DEF Active, TerminalStatus
    <3> QED BY <1>2, <2>1, <3>2, <3>3, <3>4 DEF BillInv, At, Billing
  <2> QED BY <1>5, <2>2, <2>3 DEF Bills
<1>6. CASE Takes(w)
  <2>1. /\ task.status \in Active /\ task'.status = "running" /\ order' = order
        /\ worker'[w].pc = "start"
    BY <1>6 DEF Takes
  <2>2. order[1] \in OpenOrder /\ task.status # "succeeded" /\ task.status # "failed"
    BY <2>1 DEF BillInv, Active
  <2>3. order[1] # "settled" /\ order[1] # "refunded"
    BY <2>2 DEF OpenOrder
  <2>4. \A v \in Workers : v # w => worker'[v].pc \notin Billing
    BY <1>2, <2>2 DEF BillInv, At
  <2> QED BY <1>1, <2>1, <2>2, <2>3, <2>4 DEF BillInv, OutcomeMatchesBill, At, Billing
<1> QED BY <1>3, <1>4, <1>5, <1>6 DEF Shape

LEMMA BillKept ==
  ASSUME TypeInv, SingleRun, SingleRun', BillInv, order' = order, task'.status = task.status,
         \A w \in Workers : worker'[w].pc = worker[w].pc
  PROVE  BillInv'
  BY DEF BillInv, OutcomeMatchesBill, SingleRun, At

RunInv == TypeInv /\ SingleRun /\ BillInv

LEMMA InitRun == ExecInit => RunInv
<1> SUFFICES ASSUME ExecInit PROVE RunInv
  OBVIOUS
<1>1. TypeInv
  BY InitTypes
<1>2. SingleRun
  BY ConstantTypes DEF ExecInit, SingleRun, NoAttempt, IdleWorker, NoJob
<1>3. BillInv
  <2>1. order[1] = "reserved" /\ task.run = 1 /\ task.status = "queued"
    BY ConstantTypes DEF ExecInit
  <2>2. \A w \in Workers : worker[w].pc = "idle"
    BY DEF ExecInit, IdleWorker
  <2> QED BY <2>1, <2>2 DEF BillInv, OutcomeMatchesBill, OpenOrder, At, Billing, Active
<1> QED BY <1>1, <1>2, <1>3 DEF RunInv

LEMMA StepRun ==
  ASSUME RunInv, [ExecNext]_execVars
  PROVE  /\ RunInv'
         /\ \A r \in Runs :
              order[r] \in OpenOrder /\ order'[r] \notin OpenOrder =>
                r = 1 /\ task.status \in TerminalStatus
<1> USE DEF RunInv
<1>1. TypeInv'
  BY StepTypes
<1>2. CASE UNCHANGED execVars
  <2>1. task' = task /\ order' = order /\ attempt' = attempt /\ worker' = worker
    BY <1>2 DEF execVars
  <2>2. SingleRun'
    BY <2>1 DEF SingleRun
  <2> QED BY <1>1, <2>1, <2>2, BillKept
<1>3. CASE ExecNext
  <2>1. SingleRun'
    BY <1>3, StepShape
  <2>2. CASE \E w \in Workers : Alone(w) /\ Shape(w)
    BY <1>1, <2>1, <2>2, BillShape
  <2>3. CASE \E w \in Workers : LoseLease(w)
    <3>1. PICK w \in Workers : LoseLease(w)
      BY <2>3
    <3>2. /\ task' = task /\ order' = order
          /\ worker' = [worker EXCEPT ![w].ctx = "lease_lost"]
      BY <3>1 DEF LoseLease
    <3>3. worker \in [Workers -> WorkerRow]
      BY Found
    <3>4. \A v \in Workers : worker'[v].pc = worker[v].pc
      BY <3>2, <3>3 DEF WorkerRow
    <3> QED BY <1>1, <2>1, <3>2, <3>4, BillKept
  <2>4. CASE worker' = worker /\ order' = order /\ task'.status = task.status
    BY <1>1, <2>1, <2>4, BillKept
  <2> QED BY <1>3, <2>2, <2>3, <2>4, StepShape
<1> QED BY <1>2, <1>3

LEMMA ExecutionRun == ExecSpec => []RunInv
<1>1. RunInv /\ [ExecNext]_execVars => RunInv'
  BY StepRun
<1> QED BY <1>1, InitRun, PTL DEF ExecSpec

\* A succeeded run is not refunded and a failed one not settled, although the row
\* and the order are written one after the other, by executions that may have
\* lost their lease, and with any number of crashes and failed statements.
THEOREM OutcomeAndBillAgree == ExecSpec => []OutcomeMatchesBill
<1>1. RunInv => OutcomeMatchesBill
  BY DEF RunInv, BillInv
<1> QED BY <1>1, ExecutionRun, PTL

\* An order is closed only after its run has ended in the row.
THEOREM TaskEndsBeforeBill == ExecSpec => BillClosesAfterTask
<1>1. ASSUME RunInv, [ExecNext]_execVars
      PROVE  [\A r \in Runs :
                order[r] \in OpenOrder /\ order'[r] \notin OpenOrder =>
                  task.run > r \/ task.status \in TerminalStatus]_execVars
  BY <1>1, StepRun
<1>2. QED BY <1>1, ExecutionRun, PTL DEF ExecSpec, BillClosesAfterTask

(***************************************************************************)
(* One job for a run.  Without pauses an execution keeps its lease until it*)
(* has ended the row or the user has cancelled it, so that no two of them  *)
(* work on the run; and a failed log of a submission is not followed by a  *)
(* failed mark of the order.                                               *)
(***************************************************************************)
\* Who is to close the bill has ended the row.
WorkInv ==
  /\ TypeInv /\ SingleRun
  /\ \A w \in Workers : worker[w].pc \in Billing => task.status \notin Active

LEMMA RunWorks == RunInv => WorkInv
  BY DEF RunInv, WorkInv, BillInv, At, Billing, Active

\* The order can no longer be marked running or moved to another price.
Barred == order[1] \notin {"reserved", "running"}

Newest(n) == n \in Attempts(1) /\ \A m \in Attempts(1) : m <= n

Sent == {"submission_unknown", "accepted"}

\* An answer that counts as a refusal, so that another route may be tried.
Refusal == {"rejected"} \cup SlotOutcome

\* A job has left its trace in the newest attempt.
JobHasAttempt ==
  jobs[1] > 0 =>
    \E n \in Routes :
      /\ Newest(n)
      /\ \/ attempt[1][n].state \in Sent
         \/ attempt[1][n].state = "rejected_no_job" /\ Barred

\* An execution that is not at work on the row, or no longer.
Done(w) == worker[w].pc \in Billing \cup {"idle"}

\* The attempt an execution works on.
OnNewest(w) ==
  LET row == worker[w]  saved == attempt[1][worker[w].attempt] IN
  /\ row.pc = "create" => jobs[1] = 0 /\ \A m \in Attempts(1) : m < row.attempt
  /\ row.pc \in Created => Newest(row.attempt)
  /\ row.pc \in {"mark_running", "dispatch"} =>
       /\ saved.state = row.dispatch /\ row.dispatch \in {"not_sent", "accepted"}
       /\ row.dispatch = "accepted" => row.request # NoJob
  /\ row.pc = "adopt" => row.dispatch = "accepted" /\ row.request # NoJob
  /\ row.pc \in Created \ {"mark_running", "dispatch"} => saved.state \in Sent

\* What it knows of a job that exists.
KnowsJob(w) ==
  LET row == worker[w] IN
  /\ row.pc = "call" => jobs[1] = 0 \/ row.request # NoJob
  /\ row.pc \in {"log_order", "log_task", "log_call", "poll"} => row.target # NoJob
  /\ row.pc = "log_call" => task.request # NoJob
  /\ row.pc = "poll" \/ (row.pc = "refresh" /\ row.outcome \in Refusal) =>
       jobs[1] = 0 \/ Barred \/ row.request # NoJob \/ task.request # NoJob
  /\ row.pc = "finish" /\ row.outcome \in Refusal =>
       jobs[1] = 0 \/ Barred \/ row.request # NoJob
  /\ row.pc = "switch" => jobs[1] = 0 \/ Barred

\* The row is its own, or nobody's any more.
Held(w) == Fenced(w) \/ task.status = "cancelled"

JobInv ==
  /\ JobHasAttempt /\ OneJobPerRun
  /\ \A w \in Workers : Done(w) \/ (Held(w) /\ OnNewest(w) /\ KnowsJob(w))
  /\ \A v, w \in Workers : v # w => At(v, "idle") \/ At(w, "idle")

\* Where nothing is assumed of the attempts.
Free == {"start", "route", "failure", "result", "save"}

\* Whoever makes a step is alone at work.
LEMMA OthersDone ==
  ASSUME WorkInv, JobInv, NEW w \in Workers,
         ~At(w, "idle") \/ task.status = "queued" \/ (task.status = "running" /\ ~task.lease)
  PROVE  \A v \in Workers : v # w => At(v, "idle")
<1>1. CASE task.status = "queued" \/ (task.status = "running" /\ ~task.lease)
  <2>1. \A v \in Workers : Done(v) /\ worker[v].pc \notin Billing
    BY <1>1 DEF WorkInv, JobInv, Held, Fenced, Active
  <2> QED BY <2>1 DEF Done, At
<1>2. CASE ~At(w, "idle")
  BY <1>2 DEF JobInv
<1> QED BY <1>1, <1>2

LEMMA JobLocal ==
  ASSUME WorkInv, NEW w \in Workers, Alone(w), \A v \in Workers : v # w => At(v, "idle"),
         JobHasAttempt', OneJobPerRun', Done(w)' \/ (Held(w)' /\ OnNewest(w)' /\ KnowsJob(w)')
  PROVE  JobInv'
<1>1. \A v \in Workers : v # w => worker'[v] = worker[v]
  BY Found DEF Alone, WorkInv
<1>2. \A v \in Workers : v # w => At(v, "idle")'
  BY <1>1 DEF At
<1> QED BY <1>2 DEF JobInv, Done, At

LEMMA JobsKept ==
  ASSUME JobInv, attempt' = attempt, jobs' = jobs, Barred => Barred'
  PROVE  /\ JobHasAttempt' /\ OneJobPerRun'
         /\ Attempts(1)' = Attempts(1) /\ \A n : Newest(n)' = Newest(n)
<1>1. Attempts(1)' = Attempts(1)
  BY DEF Attempts
<1>2. \A n : Newest(n)' = Newest(n)
  BY <1>1 DEF Newest
<1>3. OneJobPerRun'
  BY DEF JobInv, OneJobPerRun
<1>4. JobHasAttempt'
  BY <1>2 DEF JobInv, JobHasAttempt
<1> QED BY <1>1, <1>2, <1>3, <1>4

LEMMA FreeMove ==
  ASSUME WorkInv, JobInv, NEW w \in Workers, Alone(w), \A v \in Workers : v # w => At(v, "idle"),
         attempt' = attempt, jobs' = jobs, Barred => Barred',
         Done(w)' \/ (Held(w)' /\ worker'[w].pc \in Free)
  PROVE  JobInv'
<1>1. CASE worker'[w].pc \in Free
  <2>1. OnNewest(w)' /\ KnowsJob(w)'
    BY <1>1 DEF OnNewest, KnowsJob, Free, Created
  <2> QED BY <2>1, JobLocal, JobsKept
<1>2. CASE Done(w)'
  BY <1>2, JobLocal, JobsKept
<1> QED BY <1>1, <1>2

\* The order never becomes open for a switch again.
LEMMA BarredStays ==
  ASSUME WorkInv, NEW w \in Workers, Shape(w), Barred
  PROVE  Barred'
<1>1. order \in [Runs -> OrderStatus] /\ 1 \in Runs
  BY Found, ConstantTypes DEF WorkInv, RowsTyped
<1>2. order'[1] \in {order[1], "settled", "refunded", "uncertain"}
  BY <1>1 DEF Shape, Quiet, Decides, Bills, Takes, Uncertain, Refunded, Settled, Barred
<1> QED BY <1>2 DEF Barred

LEMMA NewestAttempt ==
  ASSUME TypeInv
  PROVE  /\ \A m, n \in Routes : Newest(m) /\ Newest(n) => m = n
         /\ Attempts(1) # {} => Max(Attempts(1)) \in Routes /\ Newest(Max(Attempts(1)))
<1>1. 1 \in Runs /\ Routes \subseteq Nat /\ Numbered
  BY ConstantTypes DEF TypeInv
<1>2. \A m, n \in Routes : Newest(m) /\ Newest(n) => m = n
  BY <1>1 DEF Newest
<1>3. ASSUME Attempts(1) # {} PROVE Max(Attempts(1)) \in Routes /\ Newest(Max(Attempts(1)))
  <2> DEFINE c == Cardinality(Attempts(1))
  <2>1. Attempts(1) = 1 .. c /\ Max(Attempts(1)) = c /\ c \in Attempts(1) /\ c \in 0 .. MaxRoutes
    BY <1>1, <1>3, LastAttempt
  <2>2. c \in Routes
    BY <2>1 DEF Attempts
  <2> HIDE DEF c
  <2>3. \A m \in 1 .. c : m <= c
    BY <1>1, <2>2
  <2> QED BY <2>1, <2>2, <2>3 DEF Newest
<1> QED BY <1>2, <1>3

\* The newest attempt is saved, or the next one begun.
LEMMA SaveNewest ==
  ASSUME WorkInv, NEW w \in Workers, NEW n \in Routes, NEW state \in DispatchState \ {"none"},
         NEW request, SaveAttempt(w, n, state, request) \/ Saved(w, n, state, request),
         \A m \in Attempts(1) : m <= n
  PROVE  Newest(n)' /\ attempt'[1][n].state = state
<1>1. attempt \in [Runs -> [Routes -> AttemptRow]] /\ 1 \in Runs /\ worker[w].run = 1
      /\ Routes \subseteq Nat
  BY Found, ConstantTypes DEF WorkInv, SingleRun
<1>9. Saved(w, n, state, request)
  BY <1>1, SaveWrites
<1>0. PICK route :
         attempt' = [attempt EXCEPT ![1][n] =
                      [state |-> state, request |-> request, route |-> route]]
  BY <1>1, <1>9 DEF Saved
<1>2. \A m \in Routes :
         attempt'[1][m].state = IF m = n THEN state ELSE attempt[1][m].state
  BY <1>0, <1>1
<1>3. attempt'[1][n].state = state
  BY <1>2
<1>4. Attempts(1)' = Attempts(1) \cup {n}
  BY <1>2 DEF Attempts
<1>5. n <= n
  BY <1>1
<1> QED BY <1>3, <1>4, <1>5 DEF Newest

LEMMA JobPrepare ==
  ASSUME WorkInv, JobInv, NEW w \in Workers, PrepareStep(w)
  PROVE  JobInv'
<1>1. /\ worker[w] \in WorkerRow /\ worker \in [Workers -> WorkerRow] /\ worker[w].run = 1
      /\ task \in TaskRow /\ attempt \in [Runs -> [Routes -> AttemptRow]]
      /\ 1 \in Runs /\ 1 \in Routes /\ worker[w].attempt \in Routes /\ Routes \subseteq Nat
      /\ jobs \in [Runs -> 0 .. 2] /\ TypeInv /\ Numbered
  BY Found, ConstantTypes DEF WorkInv, SingleRun, RowsTyped, TypeInv, WorkerRow
<1>2. Alone(w) /\ Shape(w)
  BY PrepareShape DEF WorkInv
<1>3. Barred => Barred'
  BY <1>2, BarredStays
<1>4. worker[w].pc \in {"start", "route", "adopt", "create", "switch", "mark_running"}
      /\ jobs' = jobs
  BY DEF PrepareStep, Start, FirstAttempt, RouteUnavailable, UnsentAttempt,
         ResumedAttempt, AdoptAttempt, UnknownAttempt,
         RejectedAttempt, SwitchTaskLogicalRoute, NoNextRoute, CreateRouteAttempt,
         AttemptNotCreated, MarkBillingRunning, BillingNotReady, RouteFails, At, jobVars
<1>5. /\ \A v \in Workers : v # w => At(v, "idle")
      /\ Held(w) /\ OnNewest(w) /\ KnowsJob(w)
  <2>1. ~At(w, "idle") /\ ~Done(w)
    BY <1>4 DEF At, Done, Billing
  <2> QED BY <2>1, OthersDone DEF JobInv
<1>6. CASE \/ Start(w) \/ UnknownAttempt(w) \/ NoNextRoute(w) \/ AttemptNotCreated(w)
           \/ BillingNotReady(w) \/ RouteFails(w)
  <2>1. attempt' = attempt
    BY <1>6 DEF Start, UnknownAttempt, NoNextRoute, AttemptNotCreated, BillingNotReady, RouteFails
  <2>2. \/ task' = task /\ (Goto(w, "route") \/ Goto(w, "failure"))
        \/ Stop(w)
        \/ \E pc \in {"uncertain", "refund"} : Terminal(w, "failed", pc)
    BY <1>6 DEF Start, UnknownAttempt, NoNextRoute, AttemptNotCreated, BillingNotReady, RouteFails
  <2>3. CASE task' = task /\ (Goto(w, "route") \/ Goto(w, "failure"))
    <3>1. PICK pc \in {"route", "failure"} : Goto(w, pc)
      BY <2>3
    <3>2. worker'[w].pc \in Free
      BY <1>1, <3>1 DEF Goto, WorkerRow, Free
    <3>3. Held(w)'
      BY <1>5, <2>3 DEF Held, Fenced
    <3> QED BY <1>2, <1>3, <1>4, <1>5, <2>1, <3>2, <3>3, FreeMove
  <2>4. CASE Stop(w) \/ \E pc \in {"uncertain", "refund"} : Terminal(w, "failed", pc)
    <3>1. Stop(w) \/ \E pc \in {"uncertain", "refund"} : Goto(w, pc)
      BY <2>4 DEF Terminal
    <3>2. worker'[w].pc \in {"idle", "uncertain", "refund"}
      BY <1>1, <3>1 DEF Goto, Stop, WorkerRow, IdleWorker
    <3>3. Done(w)'
      BY <3>2 DEF Done, Billing
    <3> QED BY <1>2, <1>3, <1>4, <1>5, <2>1, <3>3, FreeMove
  <2> QED BY <2>2, <2>3, <2>4
<1>7. CASE FirstAttempt(w)
  <2>1. /\ worker' = [worker EXCEPT ![w].pc = "create", ![w].attempt = 1, ![w].dispatch = "none",
                                    ![w].request = worker[w].request]
        /\ task' = task /\ attempt' = attempt /\ Attempts(1) = {}
    BY <1>1, <1>7 DEF FirstAttempt, Take
  <2>2. worker'[w].pc = "create" /\ worker'[w].attempt = 1
    BY <1>1, <2>1 DEF WorkerRow
  <2>3. jobs[1] = 0
    <3>1. \A n \in Routes : ~Newest(n)
      BY <2>1 DEF Newest
    <3> QED BY <1>1, <3>1 DEF JobInv, JobHasAttempt
  <2>4. JobHasAttempt' /\ OneJobPerRun' /\ Attempts(1)' = {}
    BY <1>3, <1>4, <2>1, JobsKept
  <2>5. Held(w)' /\ OnNewest(w)' /\ KnowsJob(w)'
    BY <1>4, <1>5, <2>1, <2>2, <2>3, <2>4 DEF Held, Fenced, OnNewest, KnowsJob, Created
  <2> QED BY <1>2, <1>5, <2>4, <2>5, JobLocal
<1>8. CASE UnsentAttempt(w)
  <2>0. PICK n \in Routes : n = Max(Attempts(1)) /\ Newest(n)
    BY <1>1, <1>8, NewestAttempt DEF UnsentAttempt
  <2>1. /\ worker' = [worker EXCEPT ![w].pc = "mark_running", ![w].attempt = n,
                                    ![w].dispatch = "not_sent", ![w].request = worker[w].request]
        /\ task' = task /\ attempt' = attempt /\ attempt[1][n].state = "not_sent"
    BY <1>1, <1>8, <2>0 DEF UnsentAttempt, Take
  <2>2. Newest(n)
    BY <2>0
  <2>3. /\ worker'[w].pc = "mark_running" /\ worker'[w].attempt = n
        /\ worker'[w].dispatch = "not_sent"
    BY <1>1, <2>1 DEF WorkerRow
  <2>4. JobHasAttempt' /\ OneJobPerRun' /\ Newest(n)'
    BY <1>3, <1>4, <2>1, <2>2, JobsKept
  <2>5. Held(w)' /\ OnNewest(w)' /\ KnowsJob(w)'
    BY <1>4, <1>5, <2>1, <2>3, <2>4 DEF Held, Fenced, OnNewest, KnowsJob, Created
  <2> QED BY <1>2, <1>5, <2>4, <2>5, JobLocal
<1>9. CASE ResumedAttempt(w)
  <2>0. PICK n \in Routes : n = Max(Attempts(1)) /\ Newest(n)
    BY <1>1, <1>9, NewestAttempt DEF ResumedAttempt
  <2> DEFINE saved == attempt[1][n]
             pc    == IF saved.state = "accepted" THEN "mark_running" ELSE "adopt"
             job0  == IF worker[w].request # NoJob THEN worker[w].request ELSE saved.request
  <2>1. /\ worker' = [worker EXCEPT ![w].pc = pc, ![w].attempt = n, ![w].dispatch = "accepted",
                                    ![w].request = job0, ![w].target = saved.request]
        /\ task' = task \/ task' = [task EXCEPT !.request = job0]
        /\ attempt' = attempt /\ job0 # NoJob /\ saved.state \in Sent
    BY <1>1, <1>9, <2>0 DEF ResumedAttempt, Sent
  <2>2. \/ saved.state = "accepted" /\ pc = "mark_running"
        \/ saved.state \in Sent /\ pc = "adopt"
    BY <2>1 DEF Sent
  <2> HIDE DEF job0, pc, saved
  <2>3. /\ worker'[w].pc = pc /\ worker'[w].attempt = n
        /\ worker'[w].dispatch = "accepted" /\ worker'[w].request = job0
    BY <1>1, <2>1 DEF WorkerRow
  <2>4. JobHasAttempt' /\ OneJobPerRun' /\ Newest(n)'
    BY <1>3, <1>4, <2>0, <2>1, JobsKept
  <2>5. Held(w)'
    BY <1>1, <1>5, <2>1 DEF Held, Fenced, TaskRow
  <2>6. attempt'[1][n].state = saved.state
    BY <2>1 DEF saved
  <2>7. OnNewest(w)' /\ KnowsJob(w)'
    BY <2>1, <2>2, <2>3, <2>4, <2>6 DEF OnNewest, KnowsJob, Created
  <2> QED BY <1>2, <1>5, <2>4, <2>5, <2>7, JobLocal
<1>14. CASE AdoptAttempt(w)
  <2>0. PICK n \in Routes : n = worker[w].attempt
    BY <1>1
  <2>1. /\ SaveAttempt(w, n, "accepted", worker[w].target) /\ Goto(w, "mark_running")
        /\ task' = task /\ At(w, "adopt")
    BY <1>14, <2>0 DEF AdoptAttempt
  <2>2. /\ \A m \in Attempts(1) : m <= n
        /\ worker[w].dispatch = "accepted" /\ worker[w].request # NoJob
    BY <1>5, <2>0, <2>1 DEF OnNewest, Newest, Created, At
  <2>3. /\ worker'[w].pc = "mark_running" /\ worker'[w].attempt = n
        /\ worker'[w].dispatch = "accepted" /\ worker'[w].request = worker[w].request
    BY <1>1, <2>0, <2>1, <2>2 DEF Goto, WorkerRow
  <2>4. Newest(n)' /\ attempt'[1][n].state = "accepted"
    <3>1. "accepted" \in DispatchState \ {"none"}
      BY DEF DispatchState
    <3> QED BY <2>1, <2>2, <3>1, SaveNewest
  <2>5. JobHasAttempt' /\ OneJobPerRun'
    BY <1>4, <2>2, <2>4 DEF JobInv, JobHasAttempt, OneJobPerRun, Sent
  <2>6. Held(w)'
    BY <1>5, <2>1 DEF Held, Fenced
  <2>7. OnNewest(w)' /\ KnowsJob(w)'
    BY <2>2, <2>3, <2>4 DEF OnNewest, KnowsJob, Created
  <2> QED BY <1>2, <1>5, <2>5, <2>6, <2>7, JobLocal
<1>15. CASE RouteUnavailable(w)
  <2>1. Goto(w, "switch") /\ task' = task /\ attempt' = attempt /\ Attempts(1) = {}
    BY <1>1, <1>15 DEF RouteUnavailable
  <2>2. jobs[1] = 0
    <3>1. \A n \in Routes : ~Newest(n)
      BY <2>1 DEF Newest
    <3> QED BY <1>1, <3>1 DEF JobInv, JobHasAttempt
  <2>3. worker'[w].pc = "switch"
    BY <1>1, <2>1 DEF Goto, WorkerRow
  <2>4. JobHasAttempt' /\ OneJobPerRun'
    BY <1>3, <1>4, <2>1, JobsKept
  <2>5. Held(w)' /\ OnNewest(w)' /\ KnowsJob(w)'
    BY <1>4, <1>5, <2>1, <2>2, <2>3 DEF Held, Fenced, OnNewest, KnowsJob, Created
  <2> QED BY <1>2, <1>5, <2>4, <2>5, JobLocal
<1>10. CASE RejectedAttempt(w)
  <2> DEFINE n == Max(Attempts(1))
  <2>1. /\ Goto(w, "switch") /\ task' = task /\ attempt' = attempt
        /\ attempt[1][n].state = "rejected_no_job" /\ Attempts(1) # {}
    BY <1>1, <1>10 DEF RejectedAttempt
  <2>2. n \in Routes /\ Newest(n)
    BY <1>1, <2>1, NewestAttempt
  <2> HIDE DEF n
  <2>3. jobs[1] = 0 \/ Barred
    <3>1. \A m \in Routes : Newest(m) => m = n
      BY <1>1, <2>2, NewestAttempt
    <3> QED BY <1>1, <2>1, <3>1 DEF JobInv, JobHasAttempt, Sent
  <2>4. worker'[w].pc = "switch"
    BY <1>1, <2>1 DEF Goto, WorkerRow
  <2>5. JobHasAttempt' /\ OneJobPerRun'
    BY <1>3, <1>4, <2>1, JobsKept
  <2>6. Held(w)' /\ OnNewest(w)' /\ KnowsJob(w)'
    BY <1>3, <1>4, <1>5, <2>1, <2>3, <2>4 DEF Held, Fenced, OnNewest, KnowsJob, Created
  <2> QED BY <1>2, <1>5, <2>5, <2>6, JobLocal
<1>11. CASE SwitchTaskLogicalRoute(w)
  <2> DEFINE number == Cardinality(Attempts(1)) + 1
  <2>1. /\ \E next : /\ task' = [task EXCEPT !.route = next]
                     /\ worker' = [worker EXCEPT ![w].pc = "create", ![w].route = next,
                                                 ![w].attempt = number, ![w].request = NoJob]
        /\ attempt' = attempt /\ ~Barred /\ At(w, "switch")
    BY <1>1, <1>11 DEF SwitchTaskLogicalRoute, Barred
  <2>2. jobs[1] = 0
    BY <1>5, <2>1 DEF KnowsJob, At
  <2>3. \A m \in Attempts(1) : m < number
    <3> DEFINE c == Cardinality(Attempts(1))
    <3>1. Attempts(1) = 1 .. c /\ c \in 0 .. MaxRoutes
      BY <1>1, LastAttempt
    <3> HIDE DEF c
    <3>2. \A m \in 1 .. c : m < c + 1
      BY <3>1, ExecutionConstants
    <3>3. \A m \in Attempts(1) : m < c + 1
      BY <3>1, <3>2
    <3> QED BY <3>3 DEF c
  <2> HIDE DEF number
  <2>4. worker'[w].pc = "create" /\ worker'[w].attempt = number
    BY <1>1, <2>1 DEF WorkerRow
  <2>5. JobHasAttempt' /\ OneJobPerRun' /\ Attempts(1)' = Attempts(1)
    BY <1>3, <1>4, <2>1, JobsKept
  <2>6. Held(w)'
    BY <1>1, <1>5, <2>1 DEF Held, Fenced, TaskRow
  <2>7. OnNewest(w)' /\ KnowsJob(w)'
    BY <1>4, <2>2, <2>3, <2>4, <2>5 DEF OnNewest, KnowsJob, Created
  <2> QED BY <1>2, <1>5, <2>5, <2>6, <2>7, JobLocal
<1>12. CASE CreateRouteAttempt(w)
  <2>0. PICK n \in Routes : n = worker[w].attempt
    BY <1>1
  <2>1. /\ Saved(w, n, "not_sent", NoJob)
        /\ \E pc \in {"mark_running", "dispatch"} :
             worker' = [worker EXCEPT ![w].pc = pc, ![w].attempt = n,
                                      ![w].dispatch = "not_sent", ![w].request = worker[w].request]
        /\ task' = task /\ At(w, "create")
    <3>1. worker[w].route \in Routes
      BY <1>1 DEF WorkerRow
    <3> QED BY <1>12, <2>0, <3>1 DEF CreateRouteAttempt, Saved, Take
  <2>2. jobs[1] = 0 /\ \A m \in Attempts(1) : m < n
    BY <1>5, <2>0, <2>1 DEF OnNewest, At
  <2>3. Newest(n)' /\ attempt'[1][n].state = "not_sent"
    <3>1. "not_sent" \in DispatchState \ {"none"}
      BY DEF DispatchState
    <3>2. \A m \in Attempts(1) : m <= n
      <4>1. \A m \in Attempts(1) : m \in Nat
        BY <1>1 DEF Attempts
      <4> QED BY <1>1, <2>2, <4>1
    <3> QED BY <1>1, <2>1, <3>1, <3>2, SaveNewest
  <2>4. /\ worker'[w].pc \in {"mark_running", "dispatch"} /\ worker'[w].attempt = n
        /\ worker'[w].dispatch = "not_sent"
    <3>1. PICK pc \in {"mark_running", "dispatch"} :
             worker' = [worker EXCEPT ![w].pc = pc, ![w].attempt = n,
                                      ![w].dispatch = "not_sent", ![w].request = worker[w].request]
      BY <2>1
    <3> QED BY <1>1, <3>1 DEF WorkerRow
  <2>5. JobHasAttempt' /\ OneJobPerRun'
    BY <1>4, <2>2 DEF JobInv, JobHasAttempt, OneJobPerRun
  <2>6. Held(w)' /\ OnNewest(w)' /\ KnowsJob(w)'
    BY <1>5, <2>1, <2>3, <2>4 DEF Held, Fenced, OnNewest, KnowsJob, Created
  <2> QED BY <1>2, <1>5, <2>5, <2>6, JobLocal
<1>13. CASE MarkBillingRunning(w)
  <2>0. PICK n \in Routes : n = worker[w].attempt
    BY <1>1
  <2>1. task' = task /\ attempt' = attempt /\ Goto(w, "dispatch") /\ At(w, "mark_running")
    BY <1>13 DEF MarkBillingRunning
  <2>2. /\ worker'[w].pc = "dispatch" /\ worker'[w].attempt = n
        /\ worker'[w].dispatch = worker[w].dispatch /\ worker'[w].request = worker[w].request
    BY <1>1, <2>0, <2>1 DEF Goto, WorkerRow
  <2>3. JobHasAttempt' /\ OneJobPerRun' /\ \A m : Newest(m)' = Newest(m)
    BY <1>3, <1>4, <2>1, JobsKept
  <2>4. Newest(n)'
    BY <1>5, <2>0, <2>1, <2>3 DEF OnNewest, Created, At
  <2>5. Held(w)' /\ OnNewest(w)' /\ KnowsJob(w)'
    BY <1>5, <2>0, <2>1, <2>2, <2>4 DEF Held, Fenced, OnNewest, KnowsJob, Created, At
  <2> QED BY <1>2, <1>5, <2>3, <2>5, JobLocal
<1> QED BY <1>6, <1>7, <1>8, <1>9, <1>10, <1>11, <1>12, <1>13, <1>14, <1>15 DEF PrepareStep

\* A step of a call that saves no attempt and creates no job.
LEMMA CallMove ==
  ASSUME WorkInv, JobInv, NEW w \in Workers, Alone(w), \A v \in Workers : v # w => At(v, "idle"),
         attempt' = attempt, jobs' = jobs, Barred => Barred', Held(w)', OnNewest(w),
         worker[w].pc \in Created \ {"adopt", "mark_running", "dispatch"},
         worker'[w].pc \in Created \ {"adopt", "mark_running", "dispatch"},
         worker'[w].attempt = worker[w].attempt, KnowsJob(w)'
  PROVE  JobInv'
<1>1. PICK n \in Routes : n = worker[w].attempt
  BY Found DEF WorkInv, WorkerRow
<1>2. JobHasAttempt' /\ OneJobPerRun' /\ \A m : Newest(m)' = Newest(m)
  BY JobsKept
<1>3. Newest(n) /\ attempt[1][n].state \in Sent
  BY <1>1 DEF OnNewest
<1>4. Newest(n)' /\ attempt'[1][n].state \in Sent
  BY <1>2, <1>3
<1>5. OnNewest(w)'
  BY <1>1, <1>4 DEF OnNewest, Created
<1> QED BY <1>2, <1>5, JobLocal

LEMMA JobCall ==
  ASSUME ~Outages, WorkInv, JobInv, NEW w \in Workers, CallStep(w)
  PROVE  JobInv'
<1>1. /\ worker[w] \in WorkerRow /\ worker \in [Workers -> WorkerRow] /\ worker[w].run = 1
      /\ task \in TaskRow /\ attempt \in [Runs -> [Routes -> AttemptRow]]
      /\ 1 \in Runs /\ worker[w].attempt \in Routes /\ NoJob = 0
      /\ jobs \in [Runs -> 0 .. 2] /\ TypeInv
  BY Found, ConstantTypes DEF WorkInv, SingleRun, RowsTyped, TypeInv, WorkerRow, NoJob
<1>2. Alone(w) /\ Quiet(w) /\ Shape(w)
  BY CallShape DEF WorkInv, Shape
<1>3. Barred => Barred'
  BY <1>2, BarredStays
<1>4. worker[w].pc \in {"dispatch", "call", "log_order", "log_task", "log_call", "poll",
                       "refresh", "finish"}
  BY DEF CallStep, MarkRouteAttemptDispatching, DispatchMarkFails, Resume, Submit, CreatesJob,
         SubmitUnanswered, SubmitRefused, CallCancelled, LogOrder, LogTask, LogCall, LogFails,
         PollPending, PollDone, PollTimesOut, PollFails, PollLogFails, Refresh,
         FinishTaskRouteAttempt, FinishFails, At
<1>5. /\ \A v \in Workers : v # w => At(v, "idle")
      /\ Held(w) /\ OnNewest(w) /\ KnowsJob(w)
  <2>1. ~At(w, "idle") /\ ~Done(w)
    BY <1>4 DEF At, Done, Billing
  <2> QED BY <2>1, OthersDone DEF JobInv
<1>6. Held(w)'
  <2>1. task' = task \/ task' = [task EXCEPT !.request = worker[w].target]
    BY DEF CallStep, MarkRouteAttemptDispatching, DispatchMarkFails, Resume, Submit,
           SubmitUnanswered, SubmitRefused, CallCancelled, LogOrder, LogTask, LogCall, LogFails,
           PollPending, PollDone, PollTimesOut, PollFails, PollLogFails, LogPoll, Refresh,
           FinishTaskRouteAttempt, FinishFails
  <2> QED BY <1>1, <1>5, <2>1 DEF Held, Fenced, TaskRow
<1>7. /\ {"call", "log_order", "log_task", "log_call", "poll", "refresh", "finish"} =
            Created \ {"adopt", "mark_running", "dispatch"}
      /\ {"unclear", "success", "failed", "cancelled"} \cap Refusal = {}
  BY DEF Created, Refusal, SlotOutcome
<1>8. CASE MarkRouteAttemptDispatching(w)
  <2>0. PICK n \in Routes : n = worker[w].attempt
    BY <1>1
  <2>1. At(w, "dispatch") /\ jobs' = jobs
    BY <1>8 DEF MarkRouteAttemptDispatching, jobVars
  <2>2. /\ Newest(n) /\ attempt[1][n].state = worker[w].dispatch
        /\ worker[w].dispatch \in {"not_sent", "accepted"}
        /\ worker[w].dispatch = "accepted" => worker[w].request # NoJob
    BY <1>5, <2>0, <2>1 DEF OnNewest, At, Created
  <2>3. CASE worker[w].dispatch = "not_sent"
    <3>1. /\ SaveAttempt(w, n, "submission_unknown", NoJob)
          /\ worker' = [worker EXCEPT ![w].pc = "call", ![w].dispatch = "submission_unknown"]
      BY <1>8, <2>0, <2>3 DEF MarkRouteAttemptDispatching
    <3>2. worker'[w].pc = "call" /\ worker'[w].attempt = n
      BY <1>1, <2>0, <3>1 DEF WorkerRow
    <3>3. jobs[1] = 0
      <4>1. \A m \in Routes : Newest(m) => m = n
        BY <1>1, <2>2, NewestAttempt
      <4>2. attempt[1][n].state = "not_sent"
        BY <2>2, <2>3
      <4> QED BY <1>1, <4>1, <4>2 DEF JobInv, JobHasAttempt, Sent
    <3>4. Newest(n)' /\ attempt'[1][n].state = "submission_unknown"
      <4>1. "submission_unknown" \in DispatchState \ {"none"}
        BY DEF DispatchState
      <4> QED BY <2>2, <3>1, <4>1, SaveNewest DEF Newest
    <3>5. JobHasAttempt' /\ OneJobPerRun'
      BY <2>1, <3>3 DEF JobInv, JobHasAttempt, OneJobPerRun
    <3>6. OnNewest(w)' /\ KnowsJob(w)'
      BY <2>1, <3>2, <3>3, <3>4 DEF OnNewest, KnowsJob, Created, Sent
    <3> QED BY <1>2, <1>5, <1>6, <3>5, <3>6, JobLocal
  <2>4. CASE worker[w].dispatch = "accepted"
    <3>1. Goto(w, "call") /\ attempt' = attempt
      BY <1>8, <2>4 DEF MarkRouteAttemptDispatching
    <3>2. /\ worker'[w].pc = "call" /\ worker'[w].attempt = n
          /\ worker'[w].request = worker[w].request
      BY <1>1, <2>0, <3>1 DEF Goto, WorkerRow
    <3>3. JobHasAttempt' /\ OneJobPerRun' /\ \A m : Newest(m)' = Newest(m)
      BY <1>3, <2>1, <3>1, JobsKept
    <3>4. OnNewest(w)' /\ KnowsJob(w)'
      BY <2>2, <2>4, <3>1, <3>2, <3>3 DEF OnNewest, KnowsJob, Created, Sent
    <3> QED BY <1>2, <1>5, <1>6, <3>3, <3>4, JobLocal
  <2> QED BY <2>2, <2>3, <2>4
<1>9. CASE DispatchMarkFails(w)
  <2>1. /\ worker' = [worker EXCEPT ![w].pc = "failure", ![w].outcome = "failed",
                                    ![w].dispatch = "submission_unknown"]
        /\ attempt' = attempt /\ jobs' = jobs
    BY <1>9 DEF DispatchMarkFails, jobVars
  <2>2. worker'[w].pc \in Free
    BY <1>1, <2>1 DEF WorkerRow, Free
  <2> QED BY <1>2, <1>3, <1>5, <1>6, <2>1, <2>2, FreeMove
<1>10. CASE Resume(w)
  <2>1. /\ worker' = [worker EXCEPT ![w].pc = "poll", ![w].target = worker[w].request]
        /\ worker[w].request # NoJob /\ attempt' = attempt /\ jobs' = jobs /\ At(w, "call")
    BY <1>10 DEF Resume, jobVars
  <2>2. /\ worker'[w].pc = "poll" /\ worker'[w].attempt = worker[w].attempt
        /\ worker'[w].request = worker[w].request /\ worker'[w].target = worker[w].request
    BY <1>1, <2>1 DEF WorkerRow
  <2>3. KnowsJob(w)'
    BY <2>1, <2>2 DEF KnowsJob
  <2> QED BY <1>2, <1>3, <1>4, <1>5, <1>6, <1>7, <2>1, <2>2, <2>3, CallMove DEF At
<1>11. CASE Submit(w) \/ SubmitUnanswered(w)
  <2>0. PICK n \in Routes : n = worker[w].attempt
    BY <1>1
  <2>1. /\ CreatesJob(w) /\ attempt' = attempt
        /\ \/ worker' = [worker EXCEPT ![w].pc = "log_order", ![w].target = 1]
           \/ Ends(w, "unclear", "refresh")
    BY <1>1, <1>11 DEF Submit, SubmitUnanswered
  <2>2. jobs[1] = 0
    BY <1>5, <2>1 DEF CreatesJob, KnowsJob, At
  <2>3. jobs'[1] = 1 /\ \A r \in Runs : r # 1 => jobs'[r] = jobs[r]
    BY <1>1, <2>1, <2>2 DEF CreatesJob
  <2>4. Newest(n) /\ attempt[1][n].state \in Sent
    BY <1>5, <1>7, <2>0, <2>1 DEF OnNewest, CreatesJob, At
  <2>5. Newest(n)' /\ attempt'[1][n].state \in Sent
    BY <2>1, <2>4 DEF Newest, Attempts
  <2>6. JobHasAttempt' /\ OneJobPerRun'
    BY <2>3, <2>5 DEF JobInv, JobHasAttempt, OneJobPerRun
  <2>7. /\ worker'[w].attempt = n
        /\ \/ worker'[w].pc = "log_order" /\ worker'[w].target = 1
           \/ worker'[w].pc = "refresh" /\ worker'[w].outcome = "unclear"
    BY <1>1, <2>0, <2>1 DEF Ends, WorkerRow
  <2>8. OnNewest(w)' /\ KnowsJob(w)'
    BY <1>1, <1>7, <2>5, <2>7 DEF OnNewest, KnowsJob, Created
  <2> QED BY <1>2, <1>5, <1>6, <2>6, <2>8, JobLocal
<1>12. CASE SubmitRefused(w) \/ CallCancelled(w)
  <2>1. /\ attempt' = attempt /\ jobs' = jobs /\ task' = task
        /\ \E outcome \in Outcome :
             /\ Ends(w, outcome, "refresh")
             /\ At(w, "log_order") => outcome = "cancelled"
        /\ worker[w].pc \in {"call", "log_order", "poll"}
    <3>1. {"failed", "rejected", "slot_full", "slot_timeout"} \cup Cancelled \subseteq Outcome
      BY DEF Outcome, Cancelled, SlotOutcome
    <3> QED BY <1>12, <3>1 DEF SubmitRefused, CallCancelled, jobVars, At
  <2>2. PICK outcome \in Outcome :
             /\ Ends(w, outcome, "refresh")
             /\ At(w, "log_order") => outcome = "cancelled"
    BY <2>1
  <2>3. /\ worker'[w].pc = "refresh" /\ worker'[w].attempt = worker[w].attempt
        /\ worker'[w].request = worker[w].request /\ worker'[w].outcome = outcome
    BY <1>1, <2>2 DEF Ends, WorkerRow
  <2>4. KnowsJob(w)'
    BY <1>3, <1>5, <1>7, <2>1, <2>2, <2>3 DEF KnowsJob, At
  <2> QED BY <1>2, <1>3, <1>5, <1>6, <1>7, <2>1, <2>3, <2>4, CallMove
<1>13. CASE LogOrder(w) \/ LogTask(w) \/ LogCall(w)
  <2>1. /\ attempt' = attempt /\ jobs' = jobs
        /\ \/ At(w, "log_order") /\ Goto(w, "log_task")
           \/ /\ At(w, "log_task") /\ Goto(w, "log_call")
              /\ task' = [task EXCEPT !.request = worker[w].target]
           \/ At(w, "log_call") /\ Goto(w, "poll") /\ task' = task
    BY <1>13 DEF LogOrder, LogTask, LogCall, jobVars
  <2>2. /\ worker'[w].attempt = worker[w].attempt /\ worker'[w].target = worker[w].target
        /\ \/ At(w, "log_order") /\ worker'[w].pc = "log_task"
           \/ /\ At(w, "log_task") /\ worker'[w].pc = "log_call"
              /\ task'.request = worker[w].target
           \/ At(w, "log_call") /\ worker'[w].pc = "poll" /\ task' = task
    BY <1>1, <2>1 DEF Goto, WorkerRow, TaskRow
  <2>3. KnowsJob(w)'
    BY <1>5, <2>2 DEF KnowsJob, At
  <2>4. /\ worker[w].pc \in Created \ {"adopt", "mark_running", "dispatch"}
        /\ worker'[w].pc \in Created \ {"adopt", "mark_running", "dispatch"}
    BY <1>7, <2>2 DEF At
  <2> QED BY <1>2, <1>3, <1>5, <1>6, <2>1, <2>2, <2>3, <2>4, CallMove
<1>14. CASE LogFails(w) \/ PollLogFails(w)
  <2>1. /\ attempt' = attempt /\ jobs' = jobs /\ order' = Uncertain(1)
        /\ \/ worker' = worker /\ At(w, "poll")
           \/ Goto(w, "poll") /\ worker[w].pc \in {"log_order", "log_task", "log_call"}
    BY <1>1, <1>14 DEF LogFails, PollLogFails, jobVars, At
  <2>2. Barred'
    <3>1. order \in [Runs -> OrderStatus]
      BY Found DEF WorkInv, RowsTyped
    <3> QED BY <1>1, <2>1, <3>1 DEF Barred, Uncertain
  <2>3. /\ worker'[w].pc = "poll" /\ worker'[w].attempt = worker[w].attempt
        /\ worker'[w].target = worker[w].target
        /\ worker[w].pc \in {"log_order", "log_task", "log_call", "poll"}
    BY <1>1, <2>1 DEF Goto, WorkerRow, At
  <2>4. KnowsJob(w)'
    BY <1>5, <2>2, <2>3 DEF KnowsJob
  <2> QED BY <1>2, <1>3, <1>5, <1>6, <1>7, <2>1, <2>3, <2>4, CallMove
<1>15. CASE PollPending(w) \/ PollDone(w) \/ PollFails(w)
  <2>1. /\ attempt' = attempt /\ jobs' = jobs /\ At(w, "poll")
        /\ task' = [task EXCEPT !.request = worker[w].target]
        /\ worker' = worker \/ \E outcome : Ends(w, outcome, "refresh")
    BY <1>15 DEF PollPending, PollDone, PollFails, LogPoll, jobVars
  <2>2. task'.request # NoJob
    BY <1>1, <1>5, <2>1 DEF KnowsJob, At, TaskRow
  <2>3. /\ worker'[w].attempt = worker[w].attempt /\ worker'[w].target = worker[w].target
        /\ worker'[w].pc \in {"poll", "refresh"}
    BY <1>1, <2>1 DEF Ends, WorkerRow, At
  <2>4. KnowsJob(w)'
    BY <1>5, <2>1, <2>2, <2>3 DEF KnowsJob, At
  <2> QED BY <1>2, <1>3, <1>5, <1>6, <1>7, <2>1, <2>3, <2>4, CallMove DEF At
<1>16. CASE PollTimesOut(w)
  <2>1. /\ attempt' = attempt /\ jobs' = jobs /\ At(w, "poll") /\ Ends(w, "unclear", "refresh")
    BY <1>16 DEF PollTimesOut, jobVars
  <2>2. /\ worker'[w].attempt = worker[w].attempt /\ worker'[w].pc = "refresh"
        /\ worker'[w].outcome = "unclear"
    BY <1>1, <2>1 DEF Ends, WorkerRow
  <2>3. KnowsJob(w)'
    BY <1>7, <2>2 DEF KnowsJob
  <2> QED BY <1>2, <1>3, <1>5, <1>6, <1>7, <2>1, <2>2, <2>3, CallMove DEF At
<1>17. CASE Refresh(w)
  <2>1. /\ worker' = [worker EXCEPT ![w].pc = "finish",
                        ![w].request = IF task.request # NoJob THEN task.request ELSE @]
        /\ attempt' = attempt /\ jobs' = jobs /\ At(w, "refresh")
    BY <1>17 DEF Refresh, jobVars
  <2>2. /\ worker'[w].attempt = worker[w].attempt /\ worker'[w].pc = "finish"
        /\ worker'[w].outcome = worker[w].outcome
        /\ task.request # NoJob \/ worker[w].request # NoJob => worker'[w].request # NoJob
    BY <1>1, <2>1 DEF WorkerRow
  <2>3. KnowsJob(w)'
    BY <1>3, <1>5, <2>1, <2>2 DEF KnowsJob, At
  <2> QED BY <1>2, <1>3, <1>5, <1>6, <1>7, <2>1, <2>2, <2>3, CallMove DEF At
<1>18. CASE FinishTaskRouteAttempt(w) \/ FinishFails(w)
  <2>0. PICK n \in Routes : n = worker[w].attempt
    BY <1>1
  <2>1. /\ worker' = [worker EXCEPT ![w].pc = AfterCall(w), ![w].dispatch = FinishedState(w)]
        /\ jobs' = jobs /\ At(w, "finish")
    BY <1>18 DEF FinishTaskRouteAttempt, FinishFails, jobVars
  <2>2. /\ FinishedState(w) \in Sent \cup {"rejected_no_job"}
        /\ FinishedState(w) = "rejected_no_job" =>
             worker[w].outcome \in Refusal /\ worker[w].request = NoJob
        /\ AfterCall(w) \in {"result", "switch", "failure"}
        /\ AfterCall(w) = "switch" => FinishedState(w) = "rejected_no_job"
    <3>1. \/ FinishedState(w) = "accepted"
          \/ /\ FinishedState(w) = "rejected_no_job"
             /\ worker[w].outcome \in {"rejected"} \cup SlotOutcome /\ worker[w].request = NoJob
          \/ FinishedState(w) = "submission_unknown"
      BY DEF FinishedState
    <3>2. \/ AfterCall(w) = "result"
          \/ AfterCall(w) = "switch" /\ FinishedState(w) = "rejected_no_job"
          \/ AfterCall(w) = "failure"
      BY DEF AfterCall
    <3> QED BY <3>1, <3>2 DEF Sent, Refusal
  <2>3. FinishedState(w) = "rejected_no_job" => jobs[1] = 0 \/ Barred
    BY <1>5, <2>1, <2>2 DEF KnowsJob, At
  <2>4. PICK state : state = FinishedState(w)
    OBVIOUS
  <2>5. Newest(n) /\ attempt[1][n].state \in Sent
    BY <1>5, <1>7, <2>0, <2>1 DEF OnNewest, At
  <2>6. JobHasAttempt' /\ OneJobPerRun'
    <3>1. CASE FinishFails(w)
      <4>1. attempt' = attempt
        BY <3>1 DEF FinishFails
      <4> QED BY <1>3, <2>1, <4>1, JobsKept
    <3>2. CASE FinishTaskRouteAttempt(w)
      <4>1. SaveAttempt(w, n, state, worker[w].request)
        BY <2>0, <2>4, <3>2 DEF FinishTaskRouteAttempt
      <4>2. state \in DispatchState \ {"none"}
        BY <2>2, <2>4 DEF Sent, DispatchState
      <4>3. Newest(n)' /\ attempt'[1][n].state = state
        BY <2>5, <4>1, <4>2, SaveNewest DEF Newest
      <4> QED BY <1>3, <2>1, <2>2, <2>3, <2>4, <4>3 DEF JobInv, JobHasAttempt, OneJobPerRun
    <3> QED BY <1>18, <3>1, <3>2
  <2>7. worker'[w].pc = AfterCall(w)
    BY <1>1, <2>1 DEF WorkerRow
  <2>8. worker'[w].pc \in {"result", "switch", "failure"}
    BY <2>2, <2>7
  <2>9. worker'[w].pc = "switch" => jobs'[1] = 0 \/ Barred'
    BY <1>3, <2>1, <2>2, <2>3, <2>7
  <2>10. OnNewest(w)' /\ KnowsJob(w)'
    BY <2>8, <2>9 DEF OnNewest, KnowsJob, Created
  <2> QED BY <1>2, <1>5, <1>6, <2>6, <2>10, JobLocal
<1> QED BY <1>8, <1>9, <1>10, <1>11, <1>12, <1>13, <1>14, <1>15, <1>16, <1>17, <1>18 DEF CallStep

LEMMA JobFinish ==
  ASSUME WorkInv, JobInv, NEW w \in Workers, FinishStep(w)
  PROVE  JobInv'
<1>1. worker[w] \in WorkerRow /\ worker \in [Workers -> WorkerRow]
  BY Found DEF WorkInv
<1>2. Alone(w) /\ Shape(w)
  BY FinishShape DEF WorkInv
<1>3. Barred => Barred'
  BY <1>2, BarredStays
<1>4. attempt' = attempt /\ jobs' = jobs
  BY DEF FinishStep, StopWithoutLease, DeferRunningTaskForProviderPoll, ExecutionFailure,
         PersistResult, SaveTaskCompletion, SaveFails, SettleBilling, SettleFails, RefundBilling,
         BillingUnclear, ReviewBilling, CloseBill, jobVars
<1>5. \/ \E pc \in Billing : Goto(w, pc)
      \/ Stop(w)
      \/ At(w, "result") /\ task' = task /\ (Goto(w, "save") \/ Goto(w, "failure"))
  <2>1. \A pc : Terminal(w, "failed", pc) => Goto(w, pc) \/ Stop(w)
    BY DEF Terminal
  <2>2. {"settle", "refund", "uncertain", "review"} = Billing
    BY DEF Billing
  <2> QED BY <2>1, <2>2
       DEF FinishStep, StopWithoutLease, DeferRunningTaskForProviderPoll, ExecutionFailure,
           PersistResult, SaveTaskCompletion, SaveFails, SettleBilling, SettleFails, RefundBilling,
           BillingUnclear, ReviewBilling, CloseBill
<1>6. \A v \in Workers : v # w => At(v, "idle")
  <2>1. ~At(w, "idle")
    BY DEF FinishStep, StopWithoutLease, DeferRunningTaskForProviderPoll, ExecutionFailure,
           PersistResult, SaveTaskCompletion, SaveFails, SettleBilling, SettleFails, RefundBilling,
           BillingUnclear, ReviewBilling, CloseBill, At
  <2> QED BY <2>1, OthersDone
<1>7. CASE Stop(w) \/ \E pc \in Billing : Goto(w, pc)
  <2>1. Done(w)'
    BY <1>1, <1>7 DEF Goto, Stop, WorkerRow, IdleWorker, Done
  <2> QED BY <1>2, <1>3, <1>4, <1>6, <2>1, FreeMove
<1>8. CASE At(w, "result") /\ task' = task /\ (Goto(w, "save") \/ Goto(w, "failure"))
  <2>1. worker'[w].pc \in Free
    BY <1>1, <1>8 DEF Goto, WorkerRow, Free
  <2>2. Held(w)'
    BY <1>8 DEF JobInv, Done, Billing, Held, Fenced, At
  <2> QED BY <1>2, <1>3, <1>4, <1>6, <2>1, <2>2, FreeMove
<1> QED BY <1>5, <1>7, <1>8

\* The context of an execution says nothing of the job.
LEMMA JobContext ==
  ASSUME WorkInv, JobInv, NEW w \in Workers, Alone(w), NEW x,
         worker' = [worker EXCEPT ![w].ctx = x], task' = task,
         attempt' = attempt, jobs' = jobs, order' = order
  PROVE  JobInv'
<1>1. /\ worker[w] \in WorkerRow /\ worker \in [Workers -> WorkerRow]
      /\ \A v \in Workers : v # w => worker'[v] = worker[v]
  BY Found DEF WorkInv, Alone
<1>2. PICK n \in Routes : n = worker[w].attempt
  BY <1>1 DEF WorkerRow
<1>3. /\ worker'[w].pc = worker[w].pc /\ worker'[w].attempt = n
      /\ worker'[w].request = worker[w].request /\ worker'[w].target = worker[w].target
      /\ worker'[w].outcome = worker[w].outcome /\ worker'[w].dispatch = worker[w].dispatch
  BY <1>1, <1>2 DEF WorkerRow
<1>4. /\ JobHasAttempt' /\ OneJobPerRun' /\ Attempts(1)' = Attempts(1)
      /\ \A m : Newest(m)' = Newest(m)
  BY JobsKept DEF Barred
<1>5. \A u, v \in Workers : u # v => At(u, "idle")' \/ At(v, "idle")'
  BY <1>1, <1>3 DEF JobInv, At
<1>6. ASSUME NEW v \in Workers PROVE (Done(v) \/ (Held(v) /\ OnNewest(v) /\ KnowsJob(v)))'
  <2>1. CASE v # w
    <3>1. worker'[v] = worker[v]
      BY <1>1, <2>1
    <3>2. PICK m \in Routes : m = worker[v].attempt
      BY <1>1 DEF WorkerRow
    <3>3. Done(v) => Done(v)'
      BY <3>1 DEF Done
    <3>4. Held(v) /\ KnowsJob(v) => Held(v)' /\ KnowsJob(v)'
      BY <3>1 DEF Held, Fenced, KnowsJob, Barred
    <3>5. OnNewest(v) => OnNewest(v)'
      BY <1>4, <3>1, <3>2 DEF OnNewest
    <3> QED BY <3>3, <3>4, <3>5 DEF JobInv
  <2>2. CASE v = w
    <3>1. Done(w) => Done(w)'
      BY <1>3 DEF Done
    <3>2. Held(w) /\ KnowsJob(w) => Held(w)' /\ KnowsJob(w)'
      BY <1>3 DEF Held, Fenced, KnowsJob, Barred
    <3>3. OnNewest(w) => OnNewest(w)'
      BY <1>2, <1>3, <1>4 DEF OnNewest
    <3> QED BY <2>2, <3>1, <3>2, <3>3 DEF JobInv
  <2> QED BY <2>1, <2>2
<1> QED BY <1>4, <1>5, <1>6 DEF JobInv

LEMMA JobClaim ==
  ASSUME WorkInv, JobInv, NEW w \in Workers,
         Claim(w) \/ NotStarted(w) \/ Crash(w) \/ LoseLease(w)
  PROVE  JobInv'
<1>1. /\ worker[w] \in WorkerRow /\ worker \in [Workers -> WorkerRow] /\ task \in TaskRow
      /\ \E n \in Routes : n = worker[w].attempt
  BY Found DEF WorkInv, RowsTyped, WorkerRow
<1>2. Alone(w)
  BY ClaimShape DEF WorkInv
<1>3. attempt' = attempt /\ jobs' = jobs /\ order' = order /\ (Barred => Barred')
  BY DEF Claim, NotStarted, Crash, LoseLease, jobVars, Barred
<1>4. \A v \in Workers : v # w => At(v, "idle")
  <2>1. ~At(w, "idle") \/ task.status = "queued" \/ (task.status = "running" /\ ~task.lease)
    BY DEF Claim, NotStarted, Crash, LoseLease, Working, At
  <2> QED BY <2>1, OthersDone
<1>5. CASE Claim(w)
  <2> DEFINE row == [IdleWorker EXCEPT !.pc = "start", !.run = task.run,
                       !.request = task.request, !.route = task.route]
  <2>1. /\ worker' = [worker EXCEPT ![w] = row]
        /\ task' = [task EXCEPT !.status = "running", !.owner = w, !.lease = TRUE]
    BY <1>5 DEF Claim
  <2>2. row.pc = "start"
    BY DEF IdleWorker
  <2> HIDE DEF row
  <2>3. worker'[w].pc \in Free
    BY <1>1, <2>1, <2>2 DEF Free
  <2>4. Held(w)'
    BY <1>1, <2>1 DEF Held, Fenced, TaskRow
  <2> QED BY <1>2, <1>3, <1>4, <2>3, <2>4, FreeMove
<1>6. CASE NotStarted(w) \/ Crash(w)
  <2>1. Done(w)'
    BY <1>1, <1>6 DEF NotStarted, Crash, Stop, IdleWorker, Done
  <2> QED BY <1>2, <1>3, <1>4, <2>1, FreeMove
<1>7. CASE LoseLease(w)
  <2>1. \E x : worker' = [worker EXCEPT ![w].ctx = x] /\ task' = task
    BY <1>7 DEF LoseLease
  <2> QED BY <1>2, <1>3, <2>1, JobContext
<1> QED BY <1>5, <1>6, <1>7

\* A step of somebody else: the row is not taken from who holds it, its job not
\* forgotten, the order not opened again.
LEMMA JobSame ==
  ASSUME JobInv, worker' = worker, attempt' = attempt, jobs' = jobs, Barred => Barred',
         task.request # NoJob => task'.request # NoJob,
         \A w \in Workers : Done(w) \/ (Held(w) => Held(w)')
  PROVE  JobInv'
<1>1. /\ JobHasAttempt' /\ OneJobPerRun' /\ Attempts(1)' = Attempts(1)
      /\ \A m : Newest(m)' = Newest(m)
  BY JobsKept
<1>2. ASSUME NEW w \in Workers
      PROVE  (Done(w) \/ (Held(w) /\ OnNewest(w) /\ KnowsJob(w)))'
  <2>1. Done(w) => Done(w)'
    BY DEF Done
  <2>2. ASSUME ~Done(w) PROVE Held(w)' /\ OnNewest(w)' /\ KnowsJob(w)'
    <3>1. Held(w) /\ OnNewest(w) /\ KnowsJob(w)
      BY <2>2 DEF JobInv
    <3>2. Held(w)'
      BY <2>2, <3>1
    <3>3. KnowsJob(w)'
      BY <3>1 DEF KnowsJob
    <3>4. OnNewest(w)'
      BY <1>1, <3>1 DEF OnNewest, Newest
    <3> QED BY <3>2, <3>3, <3>4
  <2> QED BY <2>1, <2>2
<1>3. \A v, w \in Workers : v # w => At(v, "idle")' \/ At(w, "idle")'
  BY DEF JobInv, At
<1> QED BY <1>1, <1>2, <1>3 DEF JobInv

LEMMA JobOutside ==
  ASSUME ~Pauses, WorkInv, JobInv, ExpireLease \/ (\E r \in Runs : JobEnds(r))
  PROVE  JobInv'
<1>1. task \in TaskRow
  BY Found DEF WorkInv, RowsTyped
<1>2. CASE ExpireLease
  <2>1. task' = [task EXCEPT !.lease = FALSE] /\ \E w \in Workers : task.owner = w /\ At(w, "idle")
    BY <1>2 DEF ExpireLease
  <2>2. task'.request = task.request /\ task'.status = task.status
    BY <1>1, <2>1 DEF TaskRow
  <2>3. \A w \in Workers : Done(w) \/ (Held(w) => Held(w)')
    BY <2>1, <2>2 DEF Held, Fenced, Done, At
  <2> QED BY <1>2, <2>2, <2>3, JobSame DEF ExpireLease, jobVars, Barred
<1>3. CASE \E r \in Runs : JobEnds(r)
  BY <1>3, JobSame DEF JobEnds, logVars, jobVars, Barred, Held, Fenced
<1> QED BY <1>2, <1>3

LEMMA InitJob == ExecInit => JobInv
<1> SUFFICES ASSUME ExecInit PROVE JobInv
  OBVIOUS
<1>1. \A r \in Runs : jobs[r] = 0
  BY DEF ExecInit
<1>2. \A w \in Workers : Done(w) /\ At(w, "idle")
  BY DEF ExecInit, IdleWorker, Done, At
<1> QED BY <1>1, <1>2, ConstantTypes DEF JobInv, JobHasAttempt, OneJobPerRun

LEMMA StepJob ==
  ASSUME ~Pauses, ~Outages, WorkInv, JobInv, [ExecNext]_execVars
  PROVE  JobInv'
<1>1. CASE UNCHANGED execVars
  BY <1>1, JobSame DEF execVars, jobVars, Barred, Held, Fenced
<1>2. CASE ExecNext
  BY <1>2, JobPrepare, JobCall, JobFinish, JobClaim, JobOutside DEF ExecNext, WorkerStep
<1> QED BY <1>1, <1>2

LEMMA ExecutionJob ==
  ASSUME ~Pauses, ~Outages
  PROVE  ExecSpec => [](WorkInv /\ JobInv)
<1>1. RunInv /\ JobInv /\ [ExecNext]_execVars => (RunInv /\ JobInv)'
  BY StepRun, StepJob, RunWorks
<1> QED BY <1>1, InitRun, InitJob, RunWorks, PTL DEF ExecSpec

\* A run never submits a second job, whatever crashes, lost leases, lost answers,
\* refusals and failed writes its executions meet, as long as an execution that
\* is paused does not outlive its lease and a failed log of the submission is
\* followed by the mark of the order.
THEOREM OneJob ==
  ASSUME ~Pauses, ~Outages
  PROVE  ExecSpec => []OneJobPerRun
<1>1. WorkInv /\ JobInv => OneJobPerRun
  BY DEF JobInv
<1> QED BY <1>1, ExecutionJob, PTL

\* Only the switch of the route changes the route.
LEMMA RouteKept ==
  ASSUME WorkInv, ExecNext, \A w \in Workers : ~SwitchTaskLogicalRoute(w)
  PROVE  task'.route = task.route
<1>1. task \in TaskRow
  BY Found DEF WorkInv, RowsTyped
<1>2. \A w, status, pc : Terminal(w, status, pc) => task'.route = task.route
  BY <1>1 DEF Terminal, Released, TaskRow
<1>3. ASSUME NEW w \in Workers, PrepareStep(w) PROVE task'.route = task.route
  BY <1>1, <1>2, <1>3 DEF PrepareStep, Start, FirstAttempt, RouteUnavailable, UnsentAttempt,
         ResumedAttempt, AdoptAttempt,
     UnknownAttempt, RejectedAttempt, NoNextRoute, CreateRouteAttempt, AttemptNotCreated,
     MarkBillingRunning, BillingNotReady, RouteFails, TaskRow
<1>4. ASSUME NEW w \in Workers, CallStep(w) PROVE task'.route = task.route
  <2>1. task' = task \/ task' = [task EXCEPT !.request = worker[w].target]
    BY <1>4 DEF CallStep, MarkRouteAttemptDispatching, DispatchMarkFails, Resume, Submit,
           SubmitUnanswered, SubmitRefused, CallCancelled, LogOrder, LogTask, LogCall, LogFails,
           PollPending, PollDone, PollTimesOut, PollFails, PollLogFails, LogPoll, Refresh,
           FinishTaskRouteAttempt, FinishFails
  <2> QED BY <1>1, <2>1 DEF TaskRow
<1>5. ASSUME NEW w \in Workers, FinishStep(w) PROVE task'.route = task.route
  BY <1>1, <1>2, <1>5 DEF FinishStep, StopWithoutLease, DeferRunningTaskForProviderPoll,
     ExecutionFailure, PersistResult, SaveTaskCompletion, SaveFails, SettleBilling, SettleFails,
     RefundBilling, BillingUnclear, ReviewBilling, CloseBill, Released, TaskRow
<1>6. ASSUME NEW w \in Workers, Claim(w) \/ NotStarted(w) \/ Crash(w) \/ LoseLease(w)
      PROVE  task'.route = task.route
  BY <1>1, <1>6 DEF Claim, NotStarted, Crash, LoseLease, Released, TaskRow
<1>7. ASSUME ExpireLease \/ (\E r \in Runs : JobEnds(r)) PROVE task'.route = task.route
  BY <1>1, <1>7 DEF ExpireLease, JobEnds, TaskRow
<1> QED BY <1>3, <1>4, <1>5, <1>6, <1>7 DEF ExecNext, WorkerStep

LEMMA RouteStep ==
  ASSUME WorkInv, JobInv, [ExecNext]_execVars, task'.route # task.route, task'.run = task.run
  PROVE  jobs[task.run] = 0
<1>1. ExecNext
  BY DEF execVars
<1>2. PICK w \in Workers : SwitchTaskLogicalRoute(w)
  BY <1>1, RouteKept
<1>3. At(w, "switch") /\ order[1] \in {"reserved", "running"} /\ task.run = 1
  BY <1>2 DEF SwitchTaskLogicalRoute, WorkInv, SingleRun
<1>4. KnowsJob(w) /\ ~Barred
  BY <1>3 DEF JobInv, Done, Billing, At, Barred
<1> QED BY <1>3, <1>4 DEF KnowsJob, At

\* The task moves to another supply route only while its run has no job, under
\* the same two conditions.
THEOREM SwitchBeforeJob ==
  ASSUME ~Pauses, ~Outages
  PROVE  ExecSpec => RouteChangesWithoutJob
<1>1. WorkInv /\ JobInv /\ [ExecNext]_execVars =>
        [task'.route # task.route /\ task'.run = task.run => jobs[task.run] = 0]_execVars
  BY RouteStep
<1> QED BY <1>1, ExecutionJob, PTL DEF ExecSpec, RouteChangesWithoutJob

(***************************************************************************)
(* What is charged was delivered.                                          *)
(***************************************************************************)
Delivered == {"result", "save", "settle"}

ChargeInv ==
  /\ job[1] # "none" => jobs[1] > 0
  /\ \A w \in Workers :
       /\ worker[w].outcome = "success" => job[1] = "succeeded"
       /\ worker[w].pc \in Delivered => worker[w].outcome = "success"
  /\ ChargedForSuccess

\* What one execution learns, and where it goes with it.
Learns(w) ==
  /\ worker'[w].outcome = "success" => worker[w].outcome = "success" \/ job[1] = "succeeded"
  /\ worker'[w].pc \in Delivered => worker'[w].outcome = "success"

LEMMA SettledBy ==
  ASSUME WorkInv, NEW w \in Workers, Shape(w) \/ LoseLease(w) \/ order' = order, NEW r \in Runs,
         order'[r] = "settled", order[r] # "settled"
  PROVE  r = 1 /\ At(w, "settle")
<1>1. order \in [Runs -> OrderStatus] /\ 1 \in Runs
  BY Found, ConstantTypes DEF WorkInv, RowsTyped
<1> QED BY <1>1 DEF Shape, Quiet, Decides, Bills, Takes, Uncertain, Refunded, Settled, LoseLease

LEMMA ChargeLocal ==
  ASSUME WorkInv, ChargeInv, NEW w \in Workers, Alone(w),
         Shape(w) \/ LoseLease(w) \/ order' = order, Learns(w), job' = job, jobs' = jobs
  PROVE  ChargeInv'
<1>1. \A v \in Workers : v # w => worker'[v] = worker[v]
  BY Found DEF Alone, WorkInv
<1>2. ChargedForSuccess'
  <2>1. ASSUME NEW r \in Runs, order'[r] = "settled" PROVE job'[r] = "succeeded"
    <3>1. CASE order[r] = "settled"
      BY <3>1 DEF ChargeInv, ChargedForSuccess
    <3>2. CASE order[r] # "settled"
      <4>1. r = 1 /\ At(w, "settle")
        BY <2>1, <3>2, SettledBy
      <4> QED BY <4>1 DEF ChargeInv, At, Delivered
    <3> QED BY <3>1, <3>2
  <2> QED BY <2>1 DEF ChargedForSuccess
<1>3. \A v \in Workers :
         /\ worker'[v].outcome = "success" => job'[1] = "succeeded"
         /\ worker'[v].pc \in Delivered => worker'[v].outcome = "success"
  BY <1>1 DEF ChargeInv, Learns
<1> QED BY <1>2, <1>3 DEF ChargeInv

\* An execution that goes somewhere else than to the result.
LEMMA LearnsNothing ==
  ASSUME WorkInv, NEW w \in Workers, NEW pc \in WorkerPc \ Delivered,
         Goto(w, pc) \/ Stop(w) \/ \E outcome \in Outcome \ {"success"} : Ends(w, outcome, pc)
  PROVE  Learns(w)
<1>1. worker[w] \in WorkerRow /\ worker \in [Workers -> WorkerRow]
  BY Found DEF WorkInv
<1>2. CASE Goto(w, pc)
  BY <1>1, <1>2 DEF Goto, WorkerRow, Learns
<1>3. CASE Stop(w)
  BY <1>1, <1>3 DEF Stop, IdleWorker, Learns, Delivered
<1>4. CASE \E outcome \in Outcome \ {"success"} : Ends(w, outcome, pc)
  <2>1. PICK outcome \in Outcome \ {"success"} : Ends(w, outcome, pc)
    BY <1>4
  <2>2. worker'[w].pc = pc /\ worker'[w].outcome = outcome
    BY <1>1, <2>1 DEF Ends, WorkerRow
  <2> QED BY <2>2 DEF Learns
<1> QED BY <1>2, <1>3, <1>4

LEMMA ChargePrepare ==
  ASSUME WorkInv, ChargeInv, NEW w \in Workers, PrepareStep(w)
  PROVE  ChargeInv'
<1>1. worker[w] \in WorkerRow /\ worker \in [Workers -> WorkerRow]
  BY Found DEF WorkInv
<1>2. Alone(w) /\ Shape(w)
  BY PrepareShape DEF WorkInv
<1>3. job' = job /\ jobs' = jobs
  BY DEF PrepareStep, Start, FirstAttempt, RouteUnavailable, UnsentAttempt,
         ResumedAttempt, AdoptAttempt, UnknownAttempt,
         RejectedAttempt, SwitchTaskLogicalRoute, NoNextRoute, CreateRouteAttempt,
         AttemptNotCreated, MarkBillingRunning, BillingNotReady, RouteFails, jobVars
<1>4. CASE \/ Start(w) \/ UnknownAttempt(w) \/ NoNextRoute(w) \/ AttemptNotCreated(w)
           \/ BillingNotReady(w) \/ RouteFails(w) \/ RejectedAttempt(w) \/ MarkBillingRunning(w)
           \/ RouteUnavailable(w) \/ AdoptAttempt(w)
  <2>1. \A pc : Terminal(w, "failed", pc) => Goto(w, pc) \/ Stop(w)
    BY DEF Terminal
  <2>2. \E pc \in {"route", "failure", "switch", "mark_running", "dispatch", "uncertain", "refund"} :
           Goto(w, pc) \/ Stop(w)
    BY <1>4, <2>1 DEF Start, UnknownAttempt, NoNextRoute, AttemptNotCreated, BillingNotReady,
       RouteFails, RejectedAttempt, MarkBillingRunning, RouteUnavailable, AdoptAttempt
  <2>3. {"route", "failure", "switch", "mark_running", "dispatch", "uncertain", "refund"} \subseteq
           WorkerPc \ Delivered
    BY DEF WorkerPc, Delivered
  <2>4. Learns(w)
    BY <2>2, <2>3, LearnsNothing
  <2> QED BY <1>2, <1>3, <2>4, ChargeLocal
<1>5. CASE FirstAttempt(w) \/ UnsentAttempt(w) \/ CreateRouteAttempt(w)
  <2>1. \E pc \in {"create", "mark_running", "dispatch"} :
           \E n, state, request : Take(w, n, state, request, pc)
    <3>1. CASE FirstAttempt(w)
      BY <3>1 DEF FirstAttempt
    <3>2. CASE UnsentAttempt(w)
      BY <3>2 DEF UnsentAttempt
    <3>3. CASE CreateRouteAttempt(w)
      BY <3>3 DEF CreateRouteAttempt
    <3> QED BY <1>5, <3>1, <3>2, <3>3
  <2>2. PICK pc \in {"create", "mark_running", "dispatch"} :
           \E n, state, request : Take(w, n, state, request, pc)
    BY <2>1
  <2>3. worker'[w].pc = pc /\ worker'[w].outcome = worker[w].outcome
    BY <1>1, <2>2 DEF Take, WorkerRow
  <2>4. Learns(w)
    BY <2>3 DEF Learns, Delivered
  <2> QED BY <1>2, <1>3, <2>4, ChargeLocal
<1>7. CASE ResumedAttempt(w)
  <2>1. \E pc \in {"adopt", "mark_running"} :
           \E n, request, target :
             worker' = [worker EXCEPT ![w].pc = pc, ![w].attempt = n, ![w].dispatch = "accepted",
                                      ![w].request = request, ![w].target = target]
    BY <1>7 DEF ResumedAttempt
  <2>2. worker'[w].pc \in {"adopt", "mark_running"} /\ worker'[w].outcome = worker[w].outcome
    BY <1>1, <2>1 DEF WorkerRow
  <2>3. Learns(w)
    BY <2>2 DEF Learns, Delivered
  <2> QED BY <1>2, <1>3, <2>3, ChargeLocal
<1>6. CASE SwitchTaskLogicalRoute(w)
  <2>1. \E next, number : worker' = [worker EXCEPT ![w].pc = "create", ![w].route = next,
                                           ![w].attempt = number, ![w].request = NoJob]
    BY <1>6 DEF SwitchTaskLogicalRoute
  <2>2. worker'[w].pc = "create" /\ worker'[w].outcome = worker[w].outcome
    BY <1>1, <2>1 DEF WorkerRow
  <2>3. Learns(w)
    BY <2>2 DEF Learns, Delivered
  <2> QED BY <1>2, <1>3, <2>3, ChargeLocal
<1> QED BY <1>4, <1>5, <1>6, <1>7 DEF PrepareStep

LEMMA ChargeCall ==
  ASSUME WorkInv, JobInv, ChargeInv, NEW w \in Workers, CallStep(w)
  PROVE  ChargeInv'
<1>1. /\ worker[w] \in WorkerRow /\ worker \in [Workers -> WorkerRow] /\ worker[w].run = 1
      /\ worker[w].target \in {NoJob, 1} /\ 1 \in Runs /\ NoJob = 0
      /\ jobs \in [Runs -> 0 .. 2] /\ job \in [Runs -> JobState] /\ order \in [Runs -> OrderStatus]
  BY Found, ConstantTypes DEF WorkInv, SingleRun, RowsTyped, NoJob
<1>2. Alone(w) /\ Quiet(w) /\ Shape(w)
  BY CallShape DEF WorkInv, Shape
<1>3. /\ {"refresh", "call", "log_task", "log_call", "poll", "failure"} \subseteq WorkerPc \ Delivered
      /\ {"failed", "unclear", "rejected", "slot_full", "slot_timeout"} \cup Cancelled
           \subseteq Outcome \ {"success"}
  BY DEF WorkerPc, Delivered, Outcome, Cancelled, SlotOutcome
<1>4. ASSUME job' = job, jobs' = jobs, Learns(w) PROVE ChargeInv'
  BY <1>2, <1>4, ChargeLocal
<1>5. CASE Submit(w) \/ SubmitUnanswered(w)
  <2>1. /\ CreatesJob(w)
        /\ \/ worker' = [worker EXCEPT ![w].pc = "log_order", ![w].target = worker[w].run]
           \/ Ends(w, "unclear", "refresh")
    BY <1>5 DEF Submit, SubmitUnanswered
  <2>2. jobs[1] = 0
    <3>1. KnowsJob(w) /\ At(w, "call") /\ worker[w].request = NoJob
      BY <2>1 DEF JobInv, CreatesJob, Done, Billing, At
    <3> QED BY <3>1 DEF KnowsJob, At
  <2>3. job[1] = "none" /\ order' = order
    BY <1>5, <2>2 DEF ChargeInv, Submit, SubmitUnanswered
  <2>4. /\ \A v \in Workers : worker[v].outcome # "success"
        /\ \A v \in Workers : worker[v].pc \notin Delivered
    BY <2>3 DEF ChargeInv
  <2>5. worker'[w].outcome # "success" /\ worker'[w].pc \notin Delivered
    BY <1>1, <2>1, <2>4 DEF Ends, WorkerRow, Delivered
  <2>6. \A v \in Workers : v # w => worker'[v] = worker[v]
    BY <1>1, <1>2 DEF Alone
  <2>7. jobs'[1] = 1 /\ \A r \in Runs : r # 1 => job'[r] = job[r]
    BY <1>1, <2>1, <2>2 DEF CreatesJob
  <2>8. ChargedForSuccess'
    <3>1. order[1] # "settled"
      BY <1>1, <2>3 DEF ChargeInv, ChargedForSuccess
    <3> QED BY <2>3, <2>7, <3>1 DEF ChargeInv, ChargedForSuccess
  <2> QED BY <2>4, <2>5, <2>6, <2>7, <2>8 DEF ChargeInv
<1>6. CASE \/ SubmitRefused(w) \/ CallCancelled(w) \/ PollTimesOut(w) \/ PollFails(w)
  <2>1. /\ job' = job /\ jobs' = jobs
        /\ \E outcome \in Outcome \ {"success"} : Ends(w, outcome, "refresh")
    BY <1>3, <1>6 DEF SubmitRefused, CallCancelled, PollTimesOut, PollFails, jobVars
  <2>2. "refresh" \in WorkerPc \ Delivered
    BY <1>3
  <2> QED BY <1>4, <2>1, <2>2, LearnsNothing
<1>7. CASE LogOrder(w) \/ LogTask(w) \/ LogCall(w) \/ LogFails(w)
  <2>1. /\ job' = job /\ jobs' = jobs
        /\ \E pc \in {"log_task", "log_call", "poll"} : Goto(w, pc)
    BY <1>7 DEF LogOrder, LogTask, LogCall, LogFails, jobVars
  <2>2. {"log_task", "log_call", "poll"} \subseteq WorkerPc \ Delivered
    BY <1>3
  <2> QED BY <1>4, <2>1, <2>2, LearnsNothing
<1>8. CASE PollPending(w) \/ PollLogFails(w)
  <2>1. job' = job /\ jobs' = jobs /\ worker' = worker
    BY <1>8 DEF PollPending, PollLogFails, jobVars
  <2>2. Learns(w)
    BY <2>1 DEF Learns, ChargeInv
  <2> QED BY <1>4, <2>1, <2>2
<1>9. CASE PollDone(w)
  <2>1. /\ job' = job /\ jobs' = jobs /\ At(w, "poll")
        /\ \/ job[worker[w].target] = "succeeded" /\ Ends(w, "success", "refresh")
           \/ Ends(w, "failed", "refresh")
    BY <1>9 DEF PollDone, jobVars
  <2>2. worker[w].target = 1
    <3>1. KnowsJob(w)
      BY <2>1 DEF JobInv, Done, Billing, At
    <3> QED BY <1>1, <2>1, <3>1 DEF KnowsJob, At
  <2>3. Learns(w)
    BY <1>1, <2>1, <2>2 DEF Ends, WorkerRow, Learns, Delivered
  <2> QED BY <1>4, <2>1, <2>3
<1>10. CASE MarkRouteAttemptDispatching(w) \/ DispatchMarkFails(w) \/ Resume(w) \/ Refresh(w)
  <2>1. /\ job' = job /\ jobs' = jobs
        /\ \/ worker' = [worker EXCEPT ![w].pc = "call", ![w].dispatch = "submission_unknown"]
           \/ Goto(w, "call")
           \/ worker' = [worker EXCEPT ![w].pc = "failure", ![w].outcome = "failed",
                                       ![w].dispatch = "submission_unknown"]
           \/ worker' = [worker EXCEPT ![w].pc = "poll", ![w].target = worker[w].request]
           \/ worker' = [worker EXCEPT ![w].pc = "finish",
                           ![w].request = IF task.request # NoJob THEN task.request ELSE @]
    BY <1>10 DEF MarkRouteAttemptDispatching, DispatchMarkFails, Resume, Refresh, jobVars
  <2>2. /\ worker'[w].pc \in {"call", "failure", "poll", "finish"}
        /\ worker'[w].outcome \in {worker[w].outcome, "failed"}
    BY <1>1, <2>1 DEF Goto, WorkerRow
  <2>3. Learns(w)
    BY <2>2 DEF Learns, Delivered
  <2> QED BY <1>4, <2>1, <2>3
<1>11. CASE FinishTaskRouteAttempt(w) \/ FinishFails(w)
  <2>1. /\ worker' = [worker EXCEPT ![w].pc = AfterCall(w), ![w].dispatch = FinishedState(w)]
        /\ job' = job /\ jobs' = jobs
    BY <1>11 DEF FinishTaskRouteAttempt, FinishFails, jobVars
  <2>2. worker'[w].pc = AfterCall(w) /\ worker'[w].outcome = worker[w].outcome
    BY <1>1, <2>1 DEF WorkerRow
  <2>3. AfterCall(w) \in Delivered => worker[w].outcome = "success"
    BY DEF AfterCall, Delivered
  <2>4. Learns(w)
    BY <2>2, <2>3 DEF Learns
  <2> QED BY <1>4, <2>1, <2>4
<1> QED BY <1>5, <1>6, <1>7, <1>8, <1>9, <1>10, <1>11 DEF CallStep

LEMMA ChargeFinish ==
  ASSUME WorkInv, ChargeInv, NEW w \in Workers, FinishStep(w)
  PROVE  ChargeInv'
<1>1. worker[w] \in WorkerRow /\ worker \in [Workers -> WorkerRow]
  BY Found DEF WorkInv
<1>2. Alone(w) /\ Shape(w)
  BY FinishShape DEF WorkInv
<1>3. job' = job /\ jobs' = jobs
  BY DEF FinishStep, StopWithoutLease, DeferRunningTaskForProviderPoll, ExecutionFailure,
         PersistResult, SaveTaskCompletion, SaveFails, SettleBilling, SettleFails, RefundBilling,
         BillingUnclear, ReviewBilling, CloseBill, jobVars
<1>4. \/ \E pc \in {"refund", "uncertain", "review", "failure"} : Goto(w, pc) \/ Stop(w)
      \/ At(w, "result") /\ Goto(w, "save")
      \/ At(w, "save") /\ Goto(w, "settle")
  <2>1. \A pc : Terminal(w, "failed", pc) => Goto(w, pc) \/ Stop(w)
    BY DEF Terminal
  <2> QED BY <2>1
       DEF FinishStep, StopWithoutLease, DeferRunningTaskForProviderPoll, ExecutionFailure,
           PersistResult, SaveTaskCompletion, SaveFails, SettleBilling, SettleFails, RefundBilling,
           BillingUnclear, ReviewBilling, CloseBill
<1>5. CASE \E pc \in {"refund", "uncertain", "review", "failure"} : Goto(w, pc) \/ Stop(w)
  <2>1. {"refund", "uncertain", "review", "failure"} \subseteq WorkerPc \ Delivered
    BY DEF WorkerPc, Delivered
  <2>2. Learns(w)
    BY <1>5, <2>1, LearnsNothing
  <2> QED BY <1>2, <1>3, <2>2, ChargeLocal
<1>6. CASE (At(w, "result") /\ Goto(w, "save")) \/ (At(w, "save") /\ Goto(w, "settle"))
  <2>1. worker[w].outcome = "success"
    BY <1>6 DEF ChargeInv, At, Delivered
  <2>2. worker'[w].outcome = worker[w].outcome
    BY <1>1, <1>6 DEF Goto, WorkerRow
  <2>3. Learns(w)
    BY <2>1, <2>2 DEF Learns
  <2> QED BY <1>2, <1>3, <2>3, ChargeLocal
<1> QED BY <1>4, <1>5, <1>6

LEMMA ChargeClaim ==
  ASSUME WorkInv, ChargeInv, NEW w \in Workers,
         Claim(w) \/ NotStarted(w) \/ Crash(w) \/ LoseLease(w)
  PROVE  ChargeInv'
<1>1. worker[w] \in WorkerRow /\ worker \in [Workers -> WorkerRow]
  BY Found DEF WorkInv
<1>2. /\ Alone(w) /\ (Shape(w) \/ LoseLease(w)) /\ job' = job /\ jobs' = jobs
  BY ClaimShape DEF WorkInv, Claim, NotStarted, Crash, LoseLease, jobVars
<1>3. CASE Claim(w)
  <2> DEFINE row == [IdleWorker EXCEPT !.pc = "start", !.run = task.run,
                       !.request = task.request, !.route = task.route]
  <2>1. worker' = [worker EXCEPT ![w] = row]
    BY <1>3 DEF Claim
  <2>2. row.pc = "start" /\ row.outcome = "none"
    BY DEF IdleWorker
  <2> HIDE DEF row
  <2>3. Learns(w)
    BY <1>1, <2>1, <2>2 DEF Learns, Delivered
  <2> QED BY <1>2, <2>3, ChargeLocal
<1>4. CASE NotStarted(w) \/ Crash(w)
  <2>1. Learns(w)
    BY <1>1, <1>4 DEF NotStarted, Crash, Stop, IdleWorker, Learns, Delivered
  <2> QED BY <1>2, <2>1, ChargeLocal
<1>5. CASE LoseLease(w)
  <2>1. worker'[w].pc = worker[w].pc /\ worker'[w].outcome = worker[w].outcome
    BY <1>1, <1>5 DEF LoseLease, WorkerRow
  <2>2. Learns(w)
    BY <2>1 DEF Learns, ChargeInv
  <2> QED BY <1>2, <2>2, ChargeLocal
<1> QED BY <1>3, <1>4, <1>5

LEMMA ChargeOutside ==
  ASSUME WorkInv, ChargeInv, ExpireLease \/ (\E r \in Runs : JobEnds(r))
  PROVE  ChargeInv'
<1>1. job \in [Runs -> JobState] /\ 1 \in Runs
  BY Found, ConstantTypes DEF WorkInv, RowsTyped
<1>2. worker' = worker /\ order' = order /\ jobs' = jobs
  BY DEF ExpireLease, JobEnds, jobVars
<1>3. /\ \A r \in Runs : job[r] = "succeeded" => job'[r] = "succeeded"
      /\ \A r \in Runs : job'[r] # "none" => job[r] # "none"
  BY <1>1 DEF ExpireLease, JobEnds, jobVars
<1> QED BY <1>1, <1>2, <1>3 DEF ChargeInv, ChargedForSuccess

LEMMA ChargeInit == ExecInit => ChargeInv
<1> SUFFICES ASSUME ExecInit PROVE ChargeInv
  OBVIOUS
<1>1. job[1] = "none" /\ \A r \in Runs : order[r] # "settled"
  BY ConstantTypes DEF ExecInit
<1>2. \A w \in Workers : worker[w].outcome = "none" /\ worker[w].pc = "idle"
  BY DEF ExecInit, IdleWorker
<1> QED BY <1>1, <1>2 DEF ChargeInv, ChargedForSuccess, Delivered

LEMMA ChargeStep ==
  ASSUME WorkInv, JobInv, ChargeInv, [ExecNext]_execVars
  PROVE  ChargeInv'
<1>1. CASE UNCHANGED execVars
  BY <1>1 DEF execVars, jobVars, ChargeInv, ChargedForSuccess
<1>2. CASE ExecNext
  BY <1>2, ChargePrepare, ChargeCall, ChargeFinish, ChargeClaim, ChargeOutside
     DEF ExecNext, WorkerStep
<1> QED BY <1>1, <1>2

\* A job that has succeeded remains the job of its run.
LEMMA SuccessStays ==
  ASSUME WorkInv, JobInv, ChargeInv, [ExecNext]_execVars, job[1] = "succeeded"
  PROVE  job'[1] = "succeeded"
<1>1. job \in [Runs -> JobState] /\ 1 \in Runs /\ \A w \in Workers : worker[w].run = 1
  BY Found, ConstantTypes DEF WorkInv, RowsTyped, SingleRun
<1>2. ASSUME NEW w \in Workers PROVE ~CreatesJob(w)
  <2>1. CreatesJob(w) => KnowsJob(w) /\ At(w, "call") /\ worker[w].request = NoJob
    BY DEF JobInv, CreatesJob, Done, Billing, At
  <2> QED BY <2>1 DEF KnowsJob, At, ChargeInv
<1>3. CASE \E r \in Runs : JobEnds(r)
  BY <1>1, <1>3 DEF JobEnds
<1>4. CASE ~\E r \in Runs : JobEnds(r)
  <2>1. ASSUME NEW w \in Workers,
               Claim(w) \/ NotStarted(w) \/ WorkerStep(w) \/ Crash(w) \/ LoseLease(w)
        PROVE  job' = job
    <3>1. CASE PrepareStep(w)
      BY <3>1 DEF PrepareStep, Start, FirstAttempt, RouteUnavailable, UnsentAttempt,
         ResumedAttempt, AdoptAttempt, UnknownAttempt,
         RejectedAttempt, SwitchTaskLogicalRoute, NoNextRoute, CreateRouteAttempt,
         AttemptNotCreated, MarkBillingRunning, BillingNotReady, RouteFails, jobVars
    <3>2. CASE CallStep(w)
      BY <1>2, <3>2 DEF CallStep, MarkRouteAttemptDispatching, DispatchMarkFails, Resume, Submit,
         SubmitUnanswered, SubmitRefused, CallCancelled, LogOrder, LogTask, LogCall, LogFails,
         PollPending, PollDone, PollTimesOut, PollFails, PollLogFails, Refresh,
         FinishTaskRouteAttempt, FinishFails, jobVars
    <3>3. CASE FinishStep(w)
      BY <3>3 DEF FinishStep, StopWithoutLease, DeferRunningTaskForProviderPoll, ExecutionFailure,
         PersistResult, SaveTaskCompletion, SaveFails, SettleBilling, SettleFails, RefundBilling,
         BillingUnclear, ReviewBilling, CloseBill, jobVars
    <3>4. CASE Claim(w) \/ NotStarted(w) \/ Crash(w) \/ LoseLease(w)
      BY <3>4 DEF Claim, NotStarted, Crash, LoseLease, jobVars
    <3> QED BY <2>1, <3>1, <3>2, <3>3, <3>4 DEF WorkerStep
  <2>2. ExpireLease \/ UNCHANGED execVars => job' = job
    BY DEF ExpireLease, execVars, jobVars
  <2> QED BY <1>4, <2>1, <2>2 DEF ExecNext
<1> QED BY <1>3, <1>4

\* A run is charged only when its job has succeeded.
THEOREM ChargedRunHasJob ==
  ASSUME ~Pauses, ~Outages
  PROVE  ExecSpec => []ChargedForSuccess
<1>1. (WorkInv /\ JobInv) /\ ChargeInv /\ [ExecNext]_execVars => ChargeInv'
  BY ChargeStep
<1>2. ChargeInv => ChargedForSuccess
  BY DEF ChargeInv
<1> QED BY <1>1, <1>2, ChargeInit, ExecutionJob, PTL DEF ExecSpec
=============================================================================
