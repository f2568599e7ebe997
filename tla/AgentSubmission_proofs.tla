------------------------ MODULE AgentSubmission_proofs ------------------------
(***************************************************************************)
(* Theorems about AgentSubmission, for any number of runtimes, keys, slots *)
(* and troubles: types, one submission per key, the account of a receipt,  *)
(* the ends of records and the slots they take.                            *)
(***************************************************************************)
EXTENDS AgentSubmission, FiniteSetTheorems, TLAPS

(***************************************************************************)
(* Types.  The session counts changes of the account, each a trouble.      *)
(***************************************************************************)
TaskRecord == [pc : Steps, ticket : 0..MaxTickets, epoch : Epochs, account : Account]
Tasks      == [Runtimes -> [Keys -> TaskRecord]]
Lease      == [holder : Runtimes \cup {Nobody}, key : Keys \cup {NoKey},
               epoch : Epochs, live : BOOLEAN]
Job        == [count : Nat, account : Account, running : BOOLEAN]
Rows       == [Keys -> Row]
Memory     == [Runtimes -> [Keys -> Stages]]
Serials    == [Runtimes -> Keys \cup {NoKey}]

TypeInv == SubmissionTypeOK /\ session <= troubles

LEMMA Zeros == 0 \in 0..MaxTickets /\ 0 \in Epochs /\ 0 \in Account
  BY SubmissionConstants DEF Epochs, Account

LEMMA TypeParts == TypeInv <=>
  /\ disk \in Rows /\ nextTicket \in 1..(MaxTickets + 1) /\ mem \in Memory
  /\ task \in Tasks /\ serial \in Serials /\ cli \in Lease
  /\ nextEpoch \in Epochs \ {0} /\ session \in Account /\ jobs \in [Keys -> Job]
  /\ troubles \in 0..MaxTroubles /\ session <= troubles
  BY DEF TypeInv, SubmissionTypeOK, Rows, Memory, Tasks, TaskRecord, Serials, Lease, Job

LEMMA NoRowType == NoRow \in Row
  BY Zeros DEF NoRow, Row, States

LEMMA NoTaskType == NoTask \in TaskRecord
  BY Zeros DEF NoTask, TaskRecord, Steps

LEMMA FreeType == Free \in Lease
  BY Zeros DEF Free, Lease

LEMMA EndedType == ASSUME NEW row, NEW s \in States PROVE Ended(row, s) \in Row
  BY Zeros DEF Ended, NoRow, Row

LEMMA RecoveredType == ASSUME NEW row \in Row PROVE Recovered(row) \in Row
<1>1. Ended(row, "failed") \in Row /\ Ended(row, "unknown") \in Row
  BY EndedType DEF States
<1> QED
  BY <1>1 DEF Recovered

LEMMA FreshType == ASSUME disk \in Rows PROVE Fresh \in Rows
<1>1. \A k \in Keys : Recovered(disk[k]) \in Row
  BY RecoveredType DEF Rows
<1> QED
  BY <1>1 DEF Fresh, Rows

LEMMA KnownType == ASSUME NEW rows \in Rows PROVE Known(rows) \in [Keys -> Stages]
<1>1. \A k \in Keys : rows[k].state \in States
  BY DEF Rows, Row
<1>2. \A s \in States : Stage(s) \in Stages
  BY DEF Stage, States, Terminal, Stages
<1> QED
  BY <1>1, <1>2 DEF Known

LEMMA FreshExcept ==
  ASSUME disk \in Rows, NEW k \in Keys, NEW x \in Row
  PROVE  [Fresh EXCEPT ![k] = x] \in Rows
  BY FreshType DEF Rows

LEMMA UpdateType ==
  ASSUME disk \in Rows, mem \in Memory, troubles \in 0..MaxTroubles, NEW r \in Runtimes,
         NEW rows \in Rows, Saved(r, rows) \/ Fails(r, rows) \/ Invalid(r, rows)
  PROVE  disk' \in Rows /\ mem' \in Memory /\ troubles' \in troubles..MaxTroubles
<1>1. Fresh \in Rows /\ Known(rows) \in [Keys -> Stages]
  BY FreshType, KnownType
<1>2. [mem EXCEPT ![r] = Known(rows)] \in Memory
  BY <1>1 DEF Memory
<1>3. troubles \in troubles..MaxTroubles /\ (Trouble => troubles' \in troubles..MaxTroubles)
  BY SubmissionConstants DEF Trouble
<1> QED
  BY <1>1, <1>2, <1>3
     DEF Saved, Fails, Fumbled, SavedLate, NotSaved, NotRead, Invalid

LEMMA SetTask ==
  ASSUME task \in Tasks, NEW r \in Runtimes, NEW k \in Keys, NEW x \in TaskRecord,
         task' = [task EXCEPT ![r][k] = x]
  PROVE  task' \in Tasks /\ task'[r][k] = x
  BY DEF Tasks

LEMMA TaskFields ==
  ASSUME NEW t \in TaskRecord
  PROVE  /\ t.epoch \in Nat /\ t.account \in Account /\ t.pc \in Steps
         /\ \A step \in Steps : [t EXCEPT !.pc = step] \in TaskRecord
  BY DEF TaskRecord, Epochs

LEMMA GotoType ==
  ASSUME task \in Tasks, NEW r \in Runtimes, NEW k \in Keys, NEW step \in Steps,
         Goto(r, k, step)
  PROVE  /\ task' \in Tasks
         /\ task'[r][k].pc = step
         /\ step # "none" => task'[r][k] = [task[r][k] EXCEPT !.pc = step]
<1>1. task[r][k] \in TaskRecord
  BY DEF Tasks
<1>2. CASE step = "none"
  <2>1. task' = [task EXCEPT ![r][k] = NoTask]
    BY <1>2 DEF Goto
  <2>2. task' \in Tasks /\ task'[r][k] = NoTask
    BY <2>1, NoTaskType, SetTask
  <2>3. NoTask.pc = step
    BY <1>2 DEF NoTask
  <2> QED
    BY <2>2, <2>3, <1>2, Zenon
<1>3. CASE step # "none"
  <2>1. task' = [task EXCEPT ![r][k] = [task[r][k] EXCEPT !.pc = step]]
    BY <1>3 DEF Goto
  <2>2. [task[r][k] EXCEPT !.pc = step] \in TaskRecord
    BY <1>1, TaskFields
  <2>3. [task[r][k] EXCEPT !.pc = step].pc = step
    BY <1>1 DEF TaskRecord
  <2> QED
    BY <2>1, <2>2, <2>3, SetTask
<1> QED
  BY <1>2, <1>3

LEMMA ServeType ==
  ASSUME serial \in Serials, NEW r \in Runtimes, NEW k \in Keys, NEW step, Serve(r, k, step)
  PROVE  serial' \in Serials
  BY DEF Serve, Serials

LEMMA LetGoType ==
  ASSUME cli \in Lease, NEW r, NEW k, cli' = Released(r, k) \/ LetGo(r, k)
  PROVE  cli' \in Lease
  BY FreeType DEF LetGo, Released

LEMMA InitTypeInv == Init => TypeInv
<1> SUFFICES ASSUME Init PROVE TypeInv
  OBVIOUS
<1>1. 1 \in 1..(MaxTickets + 1) /\ 0 \in 0..MaxTroubles /\ MaxTroubles \in Nat
  BY SubmissionConstants
<1>2. disk \in Rows /\ mem \in Memory
  BY NoRowType DEF Init, Rows, Memory, Stages
<1>3. task \in Tasks /\ cli \in Lease /\ serial \in Serials
  BY NoTaskType, FreeType DEF Init, Tasks, Serials
<1>4. jobs \in [Keys -> Job]
  BY Zeros DEF Init, Job, NoJob
<1> QED
  BY <1>1, <1>2, <1>3, <1>4, TypeParts, Zeros DEF Init, Epochs

LEMMA StepTypeInv == TypeInv /\ [Next]_vars => TypeInv'
<1> SUFFICES ASSUME TypeInv, [Next]_vars PROVE TypeInv'
  OBVIOUS
<1>t. /\ disk \in Rows /\ nextTicket \in 1..(MaxTickets + 1) /\ mem \in Memory
      /\ task \in Tasks /\ serial \in Serials /\ cli \in Lease
      /\ nextEpoch \in Nat \ {0} /\ session \in Account /\ jobs \in [Keys -> Job]
      /\ troubles \in 0..MaxTroubles /\ session <= troubles
  BY TypeParts DEF Epochs
<1>c. MaxTickets \in Nat /\ MaxTroubles \in Nat /\ session \in Nat /\ troubles \in Nat
      /\ Nobody \notin Runtimes
  BY <1>t, SubmissionConstants DEF Account
<1>p. ASSUME disk' \in Rows, nextTicket' \in 1..(MaxTickets + 1), mem' \in Memory,
             task' \in Tasks, serial' \in Serials, cli' \in Lease,
             nextEpoch' \in Nat \ {0}, session' \in Account, jobs' \in [Keys -> Job],
             troubles' \in 0..MaxTroubles, session' <= troubles'
      PROVE  TypeInv'
  BY <1>p, TypeParts DEF TypeInv, SubmissionTypeOK, Rows, Memory, Tasks, TaskRecord, Serials,
     Lease, Job, Epochs
<1>f. /\ Fresh \in Rows
      /\ \A k \in Keys : Fresh[k] \in Row /\ Fresh[k] = Recovered(disk[k])
  BY <1>t, FreshType DEF Rows, Fresh
<1>u. ASSUME NEW n \in troubles..MaxTroubles
      PROVE  n \in 0..MaxTroubles /\ session <= n
  BY <1>c, <1>t
<1>v. ASSUME Trouble \/ UNCHANGED troubles
      PROVE  troubles' \in troubles..MaxTroubles
  BY <1>v, <1>c, <1>t DEF Trouble
<1>1. ASSUME NEW r \in Runtimes, NEW k \in Keys, Enqueue(r, k)
      PROVE  TypeInv'
  <2>1. nextTicket \in 0..MaxTickets /\ nextTicket + 1 \in 1..(MaxTickets + 1)
    BY <1>1, <1>t, <1>c DEF Enqueue
  <2>2. QueuedRow(r) \in Row
    BY <2>1, NoRowType DEF QueuedRow, Row, States
  <2> DEFINE rows == [Fresh EXCEPT ![k] = QueuedRow(r)]
  <2>3. rows \in Rows
    BY <2>2, <1>t, FreshExcept
  <2>4. [NoTask EXCEPT !.pc = "starting", !.ticket = nextTicket] \in TaskRecord
    BY <2>1, NoTaskType DEF TaskRecord, Steps
  <2>5. CASE /\ Saved(r, rows) /\ nextTicket' = nextTicket + 1
             /\ task' = [task EXCEPT ![r][k] = [NoTask EXCEPT !.pc = "starting",
                                                             !.ticket = nextTicket]]
             /\ serial' = [serial EXCEPT ![r] = k]
    <3>1. disk' \in Rows /\ mem' \in Memory /\ troubles' \in troubles..MaxTroubles
      BY <2>5, <2>3, <1>t, UpdateType
    <3>2. task' \in Tasks
      BY <2>5, <2>4, <1>t, SetTask
    <3>3. serial' \in Serials
      BY <2>5, <1>t DEF Serials
    <3> QED
      BY <3>1, <3>2, <3>3, <2>1, <2>5, <1>u, <1>t, <1>p, <1>1 DEF Enqueue, arbiter
  <2>6. CASE /\ Trouble /\ mem' = [mem EXCEPT ![r] = Known(Fresh)]
             /\ \/ disk' = rows /\ nextTicket' = nextTicket + 1
                \/ UNCHANGED <<disk, nextTicket>>
             /\ UNCHANGED <<task, serial>>
    <3>1. troubles' \in troubles..MaxTroubles
      BY <2>6, <1>v
    <3>2. mem' \in Memory
      BY <2>6, <1>t, <1>f, KnownType DEF Memory
    <3>3. disk' \in Rows /\ nextTicket' \in 1..(MaxTickets + 1)
      BY <2>6, <2>3, <2>1, <1>t
    <3> QED
      BY <3>1, <3>2, <3>3, <2>6, <1>u, <1>t, <1>p, <1>1 DEF Enqueue, arbiter
  <2> QED
    BY <2>5, <2>6, <1>1 DEF Enqueue
<1>2. ASSUME NEW r \in Runtimes, NEW k \in Keys, Reserve(r, k)
      PROVE  TypeInv'
  <2> DEFINE x    == [Fresh[k] EXCEPT !.state = "pending", !.phase = "reserved",
                                      !.owner = r, !.live = TRUE, !.ticket = 0]
             rows == [Fresh EXCEPT ![k] = [@ EXCEPT !.state = "pending", !.phase = "reserved",
                                             !.owner = r, !.live = TRUE, !.ticket = 0]]
  <2>1. x \in Row
    BY <1>f, Zeros DEF Row, States
  <2>2. rows \in Rows /\ Fresh \in Rows
    BY <2>1, <1>t, <1>f, FreshExcept
  <2>3. Saved(r, rows) \/ Fumbled(r, rows) \/ Saved(r, Fresh) \/ NotRead(r)
    BY <1>2 DEF Reserve
  <2>4. disk' \in Rows /\ mem' \in Memory /\ troubles' \in troubles..MaxTroubles
    BY <2>2, <2>3, <1>t, UpdateType DEF Fails
  <2>5. [NoTask EXCEPT !.pc = "reserved"] \in TaskRecord
    BY NoTaskType DEF TaskRecord, Steps
  <2>6. \/ UNCHANGED serial /\ task' = [task EXCEPT ![r][k] = [NoTask EXCEPT !.pc = "reserved"]]
        \/ \E step \in {"none", "queued"} : Step(r, k, step)
    BY <1>2 DEF Reserve
  <2>7. task' \in Tasks /\ serial' \in Serials
    BY <2>5, <2>6, <1>t, SetTask, GotoType, ServeType DEF Step, Steps
  <2> QED
    BY <2>4, <2>7, <1>2, <1>t, <1>u, <1>p DEF Reserve, arbiter
<1>3. ASSUME NEW r \in Runtimes, NEW k \in Keys, Promote(r, k)
      PROVE  TypeInv'
  <2>1. task' \in Tasks
    BY <1>3, <1>t, GotoType DEF Promote, Steps
  <2> QED
    BY <2>1, <1>3, <1>t, <1>p DEF Promote, arbiter
<1>4. ASSUME NEW r \in Runtimes, NEW k \in Keys, Prepare(r, k)
      PROVE  TypeInv'
  <2> DEFINE x == [task[r][k] EXCEPT !.pc = "ready", !.account = session]
  <2>0. task[r][k] \in TaskRecord
    BY <1>t DEF Tasks
  <2>1. x \in TaskRecord
    BY <2>0, <1>t DEF TaskRecord, Steps
  <2>2. task' = [task EXCEPT ![r][k] = x] \/ Goto(r, k, "unspawned")
    BY <1>4 DEF Prepare
  <2> HIDE DEF x
  <2>3. task' \in Tasks
    BY <2>1, <2>2, <1>t, SetTask, GotoType DEF Steps
  <2> QED
    BY <2>3, <1>4, <1>t, <1>p DEF Prepare, arbiter
<1>5. ASSUME NEW r \in Runtimes, NEW k \in Keys, Acquire(r, k)
      PROVE  TypeInv'
  <2> DEFINE x == [task[r][k] EXCEPT !.pc = "granted", !.epoch = nextEpoch]
             y == [NoTask EXCEPT !.pc = "unspawned"]
  <2>0. task[r][k] \in TaskRecord
    BY <1>t DEF Tasks
  <2>1. x \in TaskRecord
    BY <2>0, <1>t DEF TaskRecord, Steps, Epochs
  <2>2. y \in TaskRecord
    BY NoTaskType DEF TaskRecord, Steps
  <2>3. \/ task' = [task EXCEPT ![r][k] = x] /\ UNCHANGED serial
        \/ Step(r, k, "none")
        \/ task' = [task EXCEPT ![r][k] = y] /\ UNCHANGED serial
    BY <1>5 DEF Acquire
  <2> HIDE DEF x, y
  <2>4. task' \in Tasks /\ serial' \in Serials
    BY <2>1, <2>2, <2>3, <1>t, SetTask, GotoType, ServeType DEF Step, Steps
  <2>5. nextEpoch' \in Nat \ {0}
    BY <1>5, <1>t DEF Acquire
  <2>6. \/ cli' = [holder |-> r, key |-> k, epoch |-> nextEpoch, live |-> TRUE]
        \/ UNCHANGED cli
    BY <1>5 DEF Acquire
  <2>7. [holder |-> r, key |-> k, epoch |-> nextEpoch, live |-> TRUE] \in Lease
    BY <1>t DEF Lease, Epochs
  <2>8. cli' \in Lease
    BY <2>6, <2>7, <1>t
  <2>9. UNCHANGED <<disk, nextTicket, mem, session, jobs, troubles>>
    BY <1>5 DEF Acquire
  <2> QED
    BY <2>4, <2>5, <2>8, <2>9, <1>t, <1>p
<1>6. ASSUME NEW r \in Runtimes, NEW k \in Keys, CommitFence(r, k)
      PROVE  TypeInv'
  <2> DEFINE x    == [Fresh[k] EXCEPT !.phase = "permitted", !.epoch = task[r][k].epoch,
                                      !.account = task[r][k].account]
             rows == [Fresh EXCEPT ![k] = [@ EXCEPT !.phase = "permitted",
                        !.epoch = task[r][k].epoch, !.account = task[r][k].account]]
  <2>1. task[r][k] \in TaskRecord
    BY <1>t DEF Tasks
  <2>2. x \in Row
    BY <2>1, <1>f, TaskFields DEF Row, Epochs
  <2>3. rows \in Rows /\ Fresh \in Rows
    BY <2>2, <1>t, <1>f, FreshExcept
  <2>4. \/ Saved(r, rows) \/ Saved(r, Fresh) \/ Fumbled(r, rows) \/ NotRead(r)
        \/ UNCHANGED <<disk, mem, troubles>>
    BY <1>6 DEF CommitFence
  <2>5. disk' \in Rows /\ mem' \in Memory /\ troubles' \in troubles..MaxTroubles
    BY <2>3, <2>4, <1>t, <1>v, UpdateType DEF Fails
  <2>6. \E step \in {"permitted", "none", "unspawned"} : Step(r, k, step)
    BY <1>6 DEF CommitFence
  <2>7. task' \in Tasks /\ serial' \in Serials
    BY <2>6, <1>t, GotoType, ServeType DEF Step, Steps
  <2>8. cli' \in Lease
    BY <1>6, <1>t, LetGoType DEF CommitFence
  <2> QED
    BY <2>5, <2>7, <2>8, <1>6, <1>t, <1>u, <1>p DEF CommitFence
<1>7. ASSUME NEW r \in Runtimes, NEW k \in Keys, Run(r, k)
      PROVE  TypeInv'
  <2>1. ASSUME jobs' = [jobs EXCEPT ![k] = [count |-> @.count + 1, account |-> session,
                                           running |-> TRUE]]
        PROVE  jobs' \in [Keys -> Job]
    BY <2>1, <1>t DEF Job
  <2>2. jobs' \in [Keys -> Job]
    BY <2>1, <1>7, <1>t DEF Run
  <2>3. task' \in Tasks
    BY <1>7, <1>t, GotoType DEF Run, Steps
  <2>4. cli' \in Lease
    BY <1>7, <1>t, LetGoType DEF Run
  <2> QED
    BY <2>2, <2>3, <2>4, <1>7, <1>t, <1>p DEF Run
<1>8. ASSUME NEW r \in Runtimes, NEW k \in Keys, CommitReceipt(r, k)
      PROVE  TypeInv'
  <2> DEFINE x    == [Ended(Fresh[k], "accepted") EXCEPT !.account = Fresh[k].account]
             rows == [Fresh EXCEPT ![k] = x]
  <2>1. x \in Row
    BY <1>f, EndedType DEF Row, States
  <2>2. rows \in Rows /\ Fresh \in Rows
    BY <2>1, <1>t, <1>f, FreshExcept
  <2>3. \/ Saved(r, rows) \/ Saved(r, Fresh) \/ Fumbled(r, rows) \/ NotRead(r)
        \/ UNCHANGED <<disk, mem, troubles>>
    BY <1>8 DEF CommitReceipt
  <2>4. disk' \in Rows /\ mem' \in Memory /\ troubles' \in troubles..MaxTroubles
    BY <2>2, <2>3, <1>t, <1>v, UpdateType DEF Fails
  <2>5. \E step \in {"none", "lost"} : Step(r, k, step)
    BY <1>8 DEF CommitReceipt
  <2>6. task' \in Tasks /\ serial' \in Serials
    BY <2>5, <1>t, GotoType, ServeType DEF Step, Steps
  <2>7. cli' \in Lease
    BY <1>8, <1>t, LetGoType DEF CommitReceipt
  <2> QED
    BY <2>4, <2>6, <2>7, <1>8, <1>t, <1>u, <1>p DEF CommitReceipt
<1>9. ASSUME NEW r \in Runtimes, NEW k \in Keys, CommitFailure(r, k)
      PROVE  TypeInv'
  <2> DEFINE rows == [Fresh EXCEPT ![k] = FailureRow(r, k)]
  <2>1. FailureRow(r, k) \in Row
    BY <1>f, EndedType, NoRowType DEF FailureRow, States
  <2>2. rows \in Rows /\ Fresh \in Rows
    BY <2>1, <1>t, <1>f, FreshExcept
  <2>3. Saved(r, rows) \/ Saved(r, Fresh) \/ Fumbled(r, rows) \/ NotRead(r)
    BY <1>9 DEF CommitFailure
  <2>4. disk' \in Rows /\ mem' \in Memory /\ troubles' \in troubles..MaxTroubles
    BY <2>2, <2>3, <1>t, UpdateType DEF Fails
  <2>5. \E step \in {"none", "failing"} : Step(r, k, step)
    BY <1>9 DEF CommitFailure
  <2>6. task' \in Tasks /\ serial' \in Serials
    BY <2>5, <1>t, GotoType, ServeType DEF Step, Steps
  <2> QED
    BY <2>4, <2>6, <1>9, <1>t, <1>u, <1>p DEF CommitFailure, arbiter
<1>e. ASSUME NEW k \in Keys, NEW s \in States
      PROVE  [Fresh EXCEPT ![k] = Ended(@, s)] \in Rows
  BY <1>t, EndedType, FreshExcept
<1>10. ASSUME NEW r \in Runtimes, NEW k \in Keys, FailTask(r, k)
       PROVE  TypeInv'
  <2> DEFINE rows == [Fresh EXCEPT ![k] = Ended(@, "failed")]
  <2>1. rows \in Rows /\ Fresh \in Rows
    BY <1>e, <1>f DEF States
  <2>2. \/ UNCHANGED <<disk, mem, troubles>> \/ Saved(r, Fresh) \/ Invalid(r, rows)
        \/ Saved(r, rows) \/ Fumbled(r, rows) \/ NotRead(r)
    BY <1>10 DEF FailTask
  <2>3. disk' \in Rows /\ mem' \in Memory /\ troubles' \in troubles..MaxTroubles
    BY <2>1, <2>2, <1>t, <1>v, UpdateType DEF Fails
  <2>4. task' \in Tasks /\ serial' \in Serials
    BY <1>10, <1>t, GotoType, ServeType DEF FailTask, Step, Steps
  <2> QED
    BY <2>3, <2>4, <1>10, <1>t, <1>u, <1>p DEF FailTask, arbiter
<1>11. ASSUME NEW r \in Runtimes, NEW k \in Keys, CancelTask(r, k) \/ DeleteTask(r, k)
       PROVE  TypeInv'
  <2>1. \E s \in {"cancelled", "deleted"} :
          \/ Saved(r, [Fresh EXCEPT ![k] = Ended(@, s)])
          \/ Fails(r, [Fresh EXCEPT ![k] = Ended(@, s)])
          \/ Invalid(r, [Fresh EXCEPT ![k] = Ended(@, s)])
    BY <1>11 DEF CancelTask, DeleteTask
  <2>2. disk' \in Rows /\ mem' \in Memory /\ troubles' \in troubles..MaxTroubles
    BY <2>1, <1>e, <1>t, UpdateType DEF States
  <2>3. task' \in Tasks
    BY <1>11, <1>t, GotoType DEF CancelTask, DeleteTask, Dequeue, Steps
  <2> QED
    BY <2>2, <2>3, <1>11, <1>t, <1>u, <1>p DEF CancelTask, DeleteTask, arbiter
<1>12. ASSUME NEW r \in Runtimes, NEW k \in Keys, Reconcile(r, k)
       PROVE  TypeInv'
  <2>1. PICK s \in {"succeeded", "failed", "cancelled"} :
               disk' = [disk EXCEPT ![k] = Ended(disk[k], s)]
    BY <1>12 DEF Reconcile
  <2>2. Ended(disk[k], s) \in Row
    BY EndedType DEF States
  <2>3. disk' \in Rows
    BY <2>1, <2>2, <1>t DEF Rows
  <2>4. mem' \in Memory
    BY <1>12, <1>t DEF Reconcile, Memory, Stages
  <2> QED
    BY <2>3, <2>4, <1>12, <1>t, <1>p DEF Reconcile, arbiter
<1>13. ASSUME NEW r \in Runtimes, Load(r)
       PROVE  TypeInv'
  <2>1. disk' \in Rows /\ mem' \in Memory /\ troubles' \in troubles..MaxTroubles
    BY <1>13, <1>f, <1>t, UpdateType DEF Load
  <2> QED
    BY <2>1, <1>13, <1>t, <1>u, <1>p DEF Load, arbiter
<1>r. ASSUME NEW r \in Runtimes, Restarted(r)
      PROVE  mem' \in Memory /\ task' \in Tasks /\ serial' \in Serials
  BY <1>r, <1>t, NoTaskType DEF Restarted, Memory, Tasks, Serials, Stages
<1>d. ASSUME NEW r \in Runtimes, NEW rows \in Rows
      PROVE  /\ Disowned(rows, r) \in Rows
             /\ \A k \in Keys : Disowned(rows, r)[k] \in Row
  BY DEF Disowned, Rows, Row
<1>14. ASSUME NEW r \in Runtimes, Crash(r)
       PROVE  TypeInv'
  <2>1. mem' \in Memory /\ task' \in Tasks /\ serial' \in Serials
    BY <1>14, <1>r DEF Crash
  <2>2. disk' \in Rows /\ troubles' \in troubles..MaxTroubles
    BY <1>14, <1>d, <1>t, <1>v DEF Crash
  <2>3. cli' \in Lease
    BY <1>14, <1>t DEF Crash, Lease
  <2> QED
    BY <2>1, <2>2, <2>3, <1>14, <1>t, <1>u, <1>p DEF Crash
<1>15. ASSUME NEW r \in Runtimes, Dispose(r)
       PROVE  TypeInv'
  <2>1. mem' \in Memory /\ task' \in Tasks /\ serial' \in Serials
    BY <1>15, <1>r DEF Dispose
  <2>2. \A k \in Keys : Ended(Fresh[k], "failed") \in Row /\ Disowned(Fresh, r)[k] \in Row
    BY <1>f, <1>d, EndedType DEF States
  <2>3. disk' \in Rows
    BY <1>15, <2>2 DEF Dispose, Rows
  <2> QED
    BY <2>1, <2>3, <1>15, <1>t, <1>p DEF Dispose, arbiter
<1>16. ASSUME NEW k \in Keys, Finish(k)
       PROVE  TypeInv'
  <2>1. jobs' \in [Keys -> Job]
    BY <1>16, <1>t DEF Finish, Job
  <2> QED
    BY <2>1, <1>16, <1>t, <1>p DEF Finish, arbiter
<1>17. ASSUME NEW k \in Keys, Expire(k) \/ Pause(k)
       PROVE  TypeInv'
  <2>1. troubles' \in troubles..MaxTroubles
    BY <1>17, <1>v DEF Expire, Pause
  <2>2. Ends(k)
    BY <1>17 DEF Expire, Pause
  <2>3. disk' \in Rows
    BY <2>2, <1>t DEF Ends, Rows, Row
  <2> QED
    BY <2>1, <2>2, <2>3, <1>t, <1>u, <1>p DEF Ends, arbiter
<1>18. ASSUME ExpireInvocation \/ PauseInvocation \/ RefreshInvocation
       PROVE  TypeInv'
  <2>1. troubles' \in troubles..MaxTroubles
    BY <1>18, <1>v DEF ExpireInvocation, PauseInvocation, RefreshInvocation
  <2>2. cli' \in Lease
    BY <1>18, <1>t DEF ExpireInvocation, PauseInvocation, RefreshInvocation, InvocationEnds, Lease
  <2> QED
    BY <2>1, <2>2, <1>18, <1>t, <1>u, <1>p
       DEF ExpireInvocation, PauseInvocation, RefreshInvocation, InvocationEnds
<1>19. ASSUME ChangeAccount
       PROVE  TypeInv'
  <2>1. troubles' = troubles + 1 /\ troubles' \in 0..MaxTroubles /\ session' = session + 1
    BY <1>19, <1>c, <1>t DEF ChangeAccount, Trouble
  <2>2. session' <= troubles' /\ session' \in Account
    BY <2>1, <1>c, <1>t DEF Account
  <2>3. nextEpoch' \in Nat \ {0} /\ cli' \in Lease
    BY <1>19, <1>t, FreeType DEF ChangeAccount
  <2> QED
    BY <2>1, <2>2, <2>3, <1>19, <1>t, <1>p DEF ChangeAccount
<1>20. CASE UNCHANGED vars
  BY <1>20, <1>t, <1>p DEF vars
<1> QED
  BY <1>1, <1>2, <1>3, <1>4, <1>5, <1>6, <1>7, <1>8, <1>9, <1>10, <1>11, <1>12, <1>13, <1>14,
     <1>15, <1>16, <1>17, <1>18, <1>19, <1>20 DEF Next, Submit

(* The type invariant of AgentSubmission, for any runtimes, keys and bounds. *)
THEOREM SubmissionTyped == SubmissionSpec => []SubmissionTypeOK
<1>1. SubmissionSpec => []TypeInv
  BY InitTypeInv, StepTypeInv, PTL DEF SubmissionSpec
<1>2. TypeInv => SubmissionTypeOK
  BY DEF TypeInv
<1> QED
  BY <1>1, <1>2, PTL

-----------------------------------------------------------------------------
(***************************************************************************)
(* What a step may do to the record of a key, to the tasks that work on it *)
(* and to its jobs.                                                        *)
(***************************************************************************)
\* A record ages: it ends, or loses its owner, but never begins again.
Aged(j) ==
  \/ /\ disk'[j].state = disk[j].state /\ disk'[j].phase = disk[j].phase
     /\ disk'[j].epoch = disk[j].epoch /\ disk'[j].account = disk[j].account
     /\ disk'[j].owner \in {disk[j].owner, Nobody}
  \/ disk[j].state \in {"queued", "pending"} /\ disk'[j].state \in Terminal
  \/ disk[j].state = "accepted" /\ disk'[j].state = "failed"
  \/ /\ disk[j].state = "accepted" /\ ~jobs[j].running
     /\ disk'[j].state \in {"succeeded", "cancelled"}

SameJob(j) == jobs'[j].count = jobs[j].count /\ jobs'[j].account = jobs[j].account

\* Where a task holds nothing: nothing depends on what it knows.
Quiet == {"none", "starting", "queued", "promoting", "lost", "failing"}

Calms(r, k) == task'[r][k] = task[r][k] \/ task'[r][k].pc \in Quiet

Rests ==
  /\ \A j \in Keys : Aged(j) /\ SameJob(j)
  /\ \A r \in Runtimes, j \in Keys : Calms(r, j)
  /\ session <= session'

\* A step of r at the record of k leaves the other records alone.
Only(r, k) ==
  /\ \A j \in Keys \ {k} : Aged(j) /\ SameJob(j)
  /\ \A s \in Runtimes, j \in Keys : s # r \/ j # k => task'[s][j] = task[s][j]
  /\ session' = session

Owns(r, k) == disk[k].state = "pending" /\ disk[k].owner = r

Queues(r, k) ==
  /\ disk[k].state = "absent" /\ disk'[k].state = "queued"
  /\ Calms(r, k) /\ SameJob(k)

Reserves(r, k) ==
  /\ disk[k].state = "queued"
  /\ disk'[k].state = "pending" /\ disk'[k].phase = "reserved" /\ disk'[k].owner = r
  /\ Calms(r, k) \/ task'[r][k].pc = "reserved"
  /\ SameJob(k)

Prepares(r, k) ==
  /\ task[r][k].pc = "reserved" /\ task'[r][k].pc = "ready" /\ task'[r][k].account = session
  /\ disk'[k] = disk[k] /\ SameJob(k)

Acquires(r, k) ==
  /\ task[r][k].pc = "ready" /\ task'[r][k].pc = "granted"
  /\ task'[r][k].account = task[r][k].account
  /\ disk'[k] = disk[k] /\ SameJob(k)

GivesUp(r, k) ==
  /\ task[r][k].pc \in {"reserved", "ready", "granted", "permitted"}
  /\ task'[r][k].pc = "unspawned"
  /\ Aged(k) /\ SameJob(k)

Fences(r, k) ==
  /\ task[r][k].pc = "granted" /\ task'[r][k].pc \in {"permitted", "unspawned"}
  /\ task'[r][k].epoch = task[r][k].epoch /\ task'[r][k].account = task[r][k].account
  /\ Owns(r, k) /\ disk'[k].state = "pending" /\ disk'[k].owner = r
  /\ disk'[k].phase = "permitted" /\ disk'[k].epoch = task[r][k].epoch
  /\ disk'[k].account = task[r][k].account
  /\ SameJob(k)

Runs(r, k) ==
  /\ task[r][k].pc = "permitted" /\ task'[r][k].pc \in {"receipt", "lost"}
  /\ task'[r][k].epoch = task[r][k].epoch /\ task'[r][k].account = task[r][k].account
  /\ jobs'[k].count = jobs[k].count + 1 /\ jobs'[k].account = session
  /\ disk'[k] = disk[k]

Accepts(r, k) ==
  /\ task[r][k].pc = "receipt" /\ session = task[r][k].account
  /\ Owns(r, k)
  /\ disk'[k].state = "accepted" /\ disk'[k].account = disk[k].account
  /\ task'[r][k].pc \in Quiet /\ SameJob(k)

Removes(r, k) ==
  /\ task[r][k].pc = "unspawned" /\ Owns(r, k)
  /\ task[r][k].epoch = 0 \/ task[r][k].epoch = disk[k].epoch
  /\ disk'[k].state = "absent"
  /\ Calms(r, k) /\ SameJob(k)

KeyStep(r, k) ==
  \/ Queues(r, k) \/ Reserves(r, k) \/ Prepares(r, k) \/ Acquires(r, k) \/ GivesUp(r, k)
  \/ Fences(r, k) \/ Runs(r, k) \/ Accepts(r, k) \/ Removes(r, k)

LEMMA RecoveredAges ==
  ASSUME NEW row \in Row
  PROVE  \/ Recovered(row) = row
         \/ row.state \in {"queued", "pending"} /\ Recovered(row).state \in Terminal
<1>1. ASSUME NEW s \in States PROVE Ended(row, s).state = s
  BY DEF Ended, NoRow
<1>2. \A s \in {"failed", "unknown"} : Ended(row, s).state \in Terminal
  BY <1>1 DEF States, Terminal
<1> QED
  BY <1>2 DEF Recovered

LEMMA EndedState == ASSUME NEW row, NEW s PROVE Ended(row, s).state = s
  BY DEF Ended, NoRow

\* A record that is to be read as absent, queued, pending or accepted is so.
LEMMA FreshReads ==
  ASSUME disk \in Rows, NEW k \in Keys
  PROVE  /\ Fresh[k] \in Row /\ disk[k] \in Row
         /\ Fresh[k] = disk[k] \/ Fresh[k].state \in Terminal
         /\ Fresh[k].state \notin Terminal => Fresh[k] = disk[k]
<1>1. Fresh[k] = Recovered(disk[k]) /\ disk[k] \in Row
  BY DEF Fresh, Rows
<1> QED
  BY <1>1, RecoveredAges, RecoveredType

LEMMA FreshAges ==
  ASSUME disk \in Rows, NEW j \in Keys, disk'[j] = disk[j] \/ disk'[j] = Fresh[j]
  PROVE  Aged(j)
<1>1. Fresh[j] = Recovered(disk[j]) /\ disk[j] \in Row
  BY DEF Fresh, Rows
<1>2. CASE disk'[j] = disk[j]
  BY <1>2 DEF Aged
<1> QED
  BY <1>1, <1>2, RecoveredAges DEF Aged

LEMMA EndedAges ==
  ASSUME disk \in Rows, NEW j \in Keys, NEW s \in States, disk'[j] = Ended(Fresh[j], s),
         \/ Fresh[j].state \in {"queued", "pending"} /\ s \in Terminal
         \/ Fresh[j].state = "accepted" /\ s = "failed"
  PROVE  Aged(j)
<1>1. Fresh[j] = disk[j]
  BY FreshReads DEF Terminal
<1> QED
  BY <1>1, EndedState DEF Aged

LEMMA UpdateAges ==
  ASSUME disk \in Rows, NEW r \in Runtimes, NEW k \in Keys, NEW x \in Row,
         NEW rows, rows = [Fresh EXCEPT ![k] = x],
         Saved(r, rows) \/ Fails(r, rows) \/ Invalid(r, rows)
  PROVE  /\ \A j \in Keys \ {k} : Aged(j)
         /\ disk'[k] = x \/ Aged(k)
<1>1. disk' = disk \/ disk' = Fresh \/ disk' = rows
  BY DEF Saved, Fails, Fumbled, SavedLate, NotSaved, NotRead, Invalid
<1>2. \A j \in Keys : rows[j] = IF j = k THEN x ELSE Fresh[j]
  BY DEF Fresh
<1>3. \A j \in Keys \ {k} : disk'[j] = disk[j] \/ disk'[j] = Fresh[j]
  BY <1>1, <1>2
<1>4. disk'[k] = disk[k] \/ disk'[k] = Fresh[k] \/ disk'[k] = x
  BY <1>1, <1>2
<1> QED
  BY <1>3, <1>4, FreshAges

LEMMA ReadAges ==
  ASSUME disk \in Rows, NEW r \in Runtimes, Saved(r, Fresh) \/ NotRead(r)
  PROVE  \A j \in Keys : Aged(j)
<1>1. disk' = disk \/ disk' = Fresh
  BY DEF Saved, NotRead
<1> QED
  BY <1>1, FreshAges

LEMMA SetOnly ==
  ASSUME task \in Tasks, NEW r \in Runtimes, NEW k \in Keys, NEW x,
         task' = [task EXCEPT ![r][k] = x]
  PROVE  /\ \A s \in Runtimes, j \in Keys : s # r \/ j # k => task'[s][j] = task[s][j]
         /\ task'[r][k] = x
  BY DEF Tasks

LEMMA GotoOnly ==
  ASSUME task \in Tasks, NEW r \in Runtimes, NEW k \in Keys, NEW step, Goto(r, k, step)
  PROVE  \A s \in Runtimes, j \in Keys : s # r \/ j # k => task'[s][j] = task[s][j]
<1>1. PICK x : task' = [task EXCEPT ![r][k] = x]
  BY DEF Goto
<1> QED
  BY <1>1, SetOnly

LEMMA GotoCalms ==
  ASSUME task \in Tasks, NEW r \in Runtimes, NEW k \in Keys, NEW step \in Quiet,
         Goto(r, k, step)
  PROVE  \A s \in Runtimes, j \in Keys : Calms(s, j)
<1>1. task'[r][k].pc = step
  BY GotoType DEF Quiet, Steps
<1> QED
  BY <1>1, GotoOnly DEF Calms

LEMMA GotoFields ==
  ASSUME task \in Tasks, NEW r \in Runtimes, NEW k \in Keys, NEW step \in Steps,
         step # "none", Goto(r, k, step)
  PROVE  /\ task'[r][k].pc = step
         /\ task'[r][k].epoch = task[r][k].epoch /\ task'[r][k].account = task[r][k].account
<1>1. task'[r][k].pc = step /\ task'[r][k] = [task[r][k] EXCEPT !.pc = step]
  BY GotoType
<1>2. task[r][k] \in TaskRecord
  BY DEF Tasks
<1> QED
  BY <1>1, <1>2 DEF TaskRecord

Shape == Rests \/ \E r \in Runtimes, k \in Keys : Only(r, k) /\ KeyStep(r, k)

LEMMA StepShape == ASSUME TypeInv, Next PROVE Shape
<1>t. /\ disk \in Rows /\ task \in Tasks /\ jobs \in [Keys -> Job] /\ session \in Nat
  BY TypeParts DEF Account
<1>f. \A k \in Keys : /\ Fresh[k] \in Row /\ disk[k] \in Row
                      /\ Fresh[k].state \notin Terminal => Fresh[k] = disk[k]
  BY <1>t, FreshReads
<1>q. ASSUME \A j \in Keys : Aged(j), UNCHANGED jobs, session' = session,
             \A s \in Runtimes, j \in Keys : Calms(s, j)
      PROVE  Shape
  BY <1>q, <1>t DEF Shape, Rests, SameJob
<1>k. ASSUME NEW r \in Runtimes, NEW k \in Keys, \A j \in Keys \ {k} : Aged(j),
             UNCHANGED jobs, session' = session, KeyStep(r, k),
             \A s \in Runtimes, j \in Keys : s # r \/ j # k => task'[s][j] = task[s][j]
      PROVE  Shape
  BY <1>k DEF Shape, Only, SameJob
<1>g. ASSUME NEW r \in Runtimes, NEW k \in Keys, NEW step \in Quiet, Goto(r, k, step)
      PROVE  \A s \in Runtimes, j \in Keys : Calms(s, j)
  BY <1>g, <1>t, GotoCalms
<1>s. ASSUME UNCHANGED task PROVE \A s \in Runtimes, j \in Keys : Calms(s, j)
  BY <1>s DEF Calms
<1>d. ASSUME UNCHANGED disk PROVE \A j \in Keys : Aged(j)
  BY <1>d DEF Aged
<1>1. ASSUME NEW r \in Runtimes, NEW k \in Keys, Enqueue(r, k)
      PROVE  Shape
  <2> DEFINE rows == [Fresh EXCEPT ![k] = QueuedRow(r)]
             x    == [NoTask EXCEPT !.pc = "starting", !.ticket = nextTicket]
  <2>1. disk[k].state = "absent" /\ QueuedRow(r).state = "queued"
    BY <1>1, <1>f DEF Enqueue, Terminal, QueuedRow, NoRow
  <2>2. UNCHANGED jobs /\ session' = session
    BY <1>1 DEF Enqueue, arbiter
  <2>3. disk' = disk \/ disk' = rows
    BY <1>1 DEF Enqueue, Saved
  <2>4. task' = task \/ task' = [task EXCEPT ![r][k] = x]
    BY <1>1 DEF Enqueue
  <2>5. \A s \in Runtimes, j \in Keys : Calms(s, j)
    <3>1. x.pc \in Quiet
      BY DEF NoTask, Quiet
    <3> HIDE DEF x
    <3> QED
      BY <3>1, <2>4, <1>t, SetOnly DEF Calms
  <2>6. CASE disk' = disk
    BY <2>6, <2>2, <2>5, <1>d, <1>q
  <2>7. CASE disk' = rows
    <3>1. \A j \in Keys \ {k} : Aged(j)
      BY <2>7, <1>t, FreshAges DEF Fresh
    <3>2. disk'[k].state = "queued"
      BY <2>7, <2>1 DEF Fresh
    <3>3. Queues(r, k)
      BY <3>2, <2>1, <2>2, <2>5 DEF Queues, SameJob
    <3>4. \A s \in Runtimes, j \in Keys : s # r \/ j # k => task'[s][j] = task[s][j]
      <4> HIDE DEF x
      <4> QED
        BY <2>4, <1>t, SetOnly
    <3> QED
      BY <3>1, <3>3, <3>4, <2>2, <1>k DEF KeyStep
  <2> QED
    BY <2>3, <2>6, <2>7
<1>2. ASSUME NEW r \in Runtimes, NEW k \in Keys, Reserve(r, k)
      PROVE  Shape
  <2> DEFINE x    == [Fresh[k] EXCEPT !.state = "pending", !.phase = "reserved",
                                      !.owner = r, !.live = TRUE, !.ticket = 0]
             rows == [Fresh EXCEPT ![k] = [@ EXCEPT !.state = "pending", !.phase = "reserved",
                                             !.owner = r, !.live = TRUE, !.ticket = 0]]
             y    == [NoTask EXCEPT !.pc = "reserved"]
  <2>1. x \in Row /\ x.state = "pending" /\ x.phase = "reserved" /\ x.owner = r
    BY <1>f, Zeros DEF Row, States
  <2>2. UNCHANGED jobs /\ session' = session
    BY <1>2 DEF Reserve, arbiter
  <2>3. \/ /\ HasPriority(Fresh, k)
           /\ \/ Saved(r, rows) /\ task' = [task EXCEPT ![r][k] = y]
              \/ Fumbled(r, rows) /\ Goto(r, k, "none")
        \/ /\ Saved(r, Fresh) \/ NotRead(r)
           /\ \E step \in {"none", "queued"} : Goto(r, k, step)
    BY <1>2 DEF Reserve, Step
  <2>4. ASSUME Saved(r, Fresh) \/ NotRead(r),
               \E step \in {"none", "queued"} : Goto(r, k, step)
        PROVE  Shape
    BY <2>4, <2>2, <1>t, <1>g, <1>q, ReadAges DEF Quiet
  <2>5. ASSUME HasPriority(Fresh, k), Saved(r, rows) \/ Fumbled(r, rows), disk'[k] = x,
               task'[r][k].pc = "reserved" \/ Calms(r, k),
               \A s \in Runtimes, j \in Keys : s # r \/ j # k => task'[s][j] = task[s][j]
        PROVE  Shape
    <3>1. disk[k].state = "queued"
      BY <2>5, <1>f DEF HasPriority, Waiting, Terminal
    <3>2. \A j \in Keys \ {k} : Aged(j)
      BY <2>5, <2>1, <1>t, UpdateAges DEF Fails
    <3>3. Reserves(r, k)
      BY <3>1, <2>1, <2>2, <2>5 DEF Reserves, SameJob
    <3> QED
      BY <3>2, <3>3, <2>2, <2>5, <1>k DEF KeyStep
  <2>6. y.pc = "reserved" /\ rows[k] = x
    BY DEF NoTask, Fresh
  <2> HIDE DEF x, y, rows
  <2>7. CASE /\ HasPriority(Fresh, k) /\ Saved(r, rows)
             /\ task' = [task EXCEPT ![r][k] = y]
    <3>1. disk'[k] = x
      BY <2>6, <2>7 DEF Saved
    <3>2. /\ task'[r][k].pc = "reserved"
          /\ \A s \in Runtimes, j \in Keys : s # r \/ j # k => task'[s][j] = task[s][j]
      BY <2>6, <2>7, <1>t DEF Tasks
    <3> QED
      BY <3>1, <3>2, <2>5, <2>7
  <2>8. CASE HasPriority(Fresh, k) /\ Fumbled(r, rows) /\ Goto(r, k, "none")
    <3>1. disk' = disk \/ disk'[k] = x
      BY <2>6, <2>8 DEF Fumbled, SavedLate, NotSaved
    <3>2. \A s \in Runtimes, j \in Keys : Calms(s, j)
      BY <2>8, <1>g DEF Quiet
    <3>3. CASE disk' = disk
      BY <3>2, <3>3, <2>2, <1>d, <1>q
    <3>4. CASE disk'[k] = x
      BY <3>2, <3>4, <2>5, <2>8, <1>t, GotoOnly
    <3> QED
      BY <3>1, <3>3, <3>4
  <2> QED
    BY <2>3, <2>4, <2>7, <2>8
<1>e. ASSUME NEW r \in Runtimes, NEW k \in Keys, NEW s \in States, NEW rows,
             rows = [Fresh EXCEPT ![k] = Ended(Fresh[k], s)],
             \/ Fresh[k].state \in {"queued", "pending"} /\ s \in Terminal
             \/ Fresh[k].state = "accepted" /\ s = "failed",
             Saved(r, rows) \/ Fails(r, rows) \/ Invalid(r, rows)
      PROVE  \A j \in Keys : Aged(j)
  <2>1. Ended(Fresh[k], s) \in Row
    BY EndedType
  <2>2. (\A j \in Keys \ {k} : Aged(j)) /\ (disk'[k] = Ended(Fresh[k], s) \/ Aged(k))
    BY <2>1, <1>e, <1>t, UpdateAges
  <2>3. disk'[k] = Ended(Fresh[k], s) => Aged(k)
    BY <1>e, <1>t, EndedAges
  <2> QED
    BY <2>2, <2>3
<1>3. ASSUME NEW r \in Runtimes, NEW k \in Keys, Promote(r, k)
      PROVE  Shape
  <2>1. \E step \in {"none", "promoting"} : Goto(r, k, step)
    BY <1>3 DEF Promote
  <2> QED
    BY <2>1, <1>3, <1>g, <1>d, <1>q DEF Promote, arbiter, Quiet
<1>4. ASSUME NEW r \in Runtimes, NEW k \in Keys, Prepare(r, k)
      PROVE  Shape
  <2> DEFINE x == [task[r][k] EXCEPT !.pc = "ready", !.account = session]
  <2>1. task[r][k].pc = "reserved" /\ UNCHANGED <<disk, jobs, session>>
    BY <1>4 DEF Prepare, At, arbiter
  <2>2. x.pc = "ready" /\ x.account = session
    BY <1>t DEF Tasks, TaskRecord
  <2>3. task' = [task EXCEPT ![r][k] = x] \/ Goto(r, k, "unspawned")
    BY <1>4 DEF Prepare
  <2> HIDE DEF x
  <2>4. CASE task' = [task EXCEPT ![r][k] = x]
    <3>1. Prepares(r, k)
      BY <2>1, <2>2, <2>4, <1>t, <1>d DEF Prepares, SameJob, Tasks
    <3> QED
      BY <3>1, <2>1, <2>4, <1>t, <1>d, <1>k DEF KeyStep, Tasks
  <2>5. CASE Goto(r, k, "unspawned")
    BY <2>1, <2>5, <1>t, <1>d, <1>k, GotoOnly, GotoFields
       DEF KeyStep, GivesUp, SameJob, Steps
  <2> QED
    BY <2>3, <2>4, <2>5
<1>5. ASSUME NEW r \in Runtimes, NEW k \in Keys, Acquire(r, k)
      PROVE  Shape
  <2> DEFINE x == [task[r][k] EXCEPT !.pc = "granted", !.epoch = nextEpoch]
             y == [NoTask EXCEPT !.pc = "unspawned"]
  <2>1. task[r][k].pc = "ready" /\ UNCHANGED <<disk, jobs, session>>
    BY <1>5 DEF Acquire, At
  <2>2. x.pc = "granted" /\ x.account = task[r][k].account /\ y.pc = "unspawned"
    BY <1>t DEF Tasks, TaskRecord, NoTask
  <2>3. \/ task' = [task EXCEPT ![r][k] = x] \/ Goto(r, k, "none")
        \/ task' = [task EXCEPT ![r][k] = y]
    BY <1>5 DEF Acquire, Step
  <2> HIDE DEF x, y
  <2>4. CASE task' = [task EXCEPT ![r][k] = x]
    <3>1. Acquires(r, k)
      BY <2>1, <2>2, <2>4, <1>t, <1>d DEF Acquires, SameJob, Tasks
    <3> QED
      BY <3>1, <2>1, <2>4, <1>t, <1>d, <1>k DEF KeyStep, Tasks
  <2>5. CASE Goto(r, k, "none")
    BY <2>1, <2>5, <1>g, <1>d, <1>q DEF Quiet
  <2>6. CASE task' = [task EXCEPT ![r][k] = y]
    <3>1. GivesUp(r, k)
      BY <2>1, <2>2, <2>6, <1>t, <1>d DEF GivesUp, SameJob, Tasks
    <3> QED
      BY <3>1, <2>1, <2>6, <1>t, <1>d, <1>k DEF KeyStep, Tasks
  <2> QED
    BY <2>3, <2>4, <2>5, <2>6
<1>6. ASSUME NEW r \in Runtimes, NEW k \in Keys, CommitFence(r, k)
      PROVE  Shape
  <2> DEFINE ok   == Mine(r, k, Fresh[k]) /\ Fresh[k].live
                     /\ Fresh[k].epoch <= task[r][k].epoch
             x    == [Fresh[k] EXCEPT !.phase = "permitted", !.epoch = task[r][k].epoch,
                                      !.account = task[r][k].account]
             rows == [Fresh EXCEPT ![k] = [@ EXCEPT !.phase = "permitted",
                        !.epoch = task[r][k].epoch, !.account = task[r][k].account]]
  <2>0. task[r][k] \in TaskRecord
    BY <1>t DEF Tasks
  <2>1. x \in Row
    BY <2>0, <1>f, TaskFields DEF Row, Epochs
  <2>2. rows = [Fresh EXCEPT ![k] = x]
    OBVIOUS
  <2>3. /\ x.state = Fresh[k].state /\ x.owner = Fresh[k].owner /\ x.phase = "permitted"
        /\ x.epoch = task[r][k].epoch /\ x.account = task[r][k].account
    BY <2>0, <1>f, TaskFields DEF Row, Epochs
  <2>4. task[r][k].pc = "granted" /\ UNCHANGED <<jobs, session>>
    BY <1>6 DEF CommitFence, At
  <2>5. \/ ok /\ Saved(r, rows) /\ Goto(r, k, "permitted")
        \/ Saved(r, Fresh) /\ Goto(r, k, "none")
        \/ /\ (ok /\ Fumbled(r, rows)) \/ NotRead(r) \/ UNCHANGED disk
           /\ Goto(r, k, "unspawned")
    BY <1>6 DEF CommitFence, Step
  <2>6. ok => Owns(r, k) /\ Fresh[k] = disk[k]
    BY <1>f DEF Mine, Owns, Terminal
  <2>7. rows[k] = x
    BY <2>2 DEF Fresh
  <2> HIDE DEF ok, x, rows
  <2>8. ASSUME NEW step \in {"permitted", "unspawned"}, Goto(r, k, step), ok,
               Saved(r, rows) \/ Fumbled(r, rows), disk'[k] = x
        PROVE  Shape
    <3>1. \A j \in Keys \ {k} : Aged(j)
      BY <2>8, <2>1, <2>2, <1>t, UpdateAges DEF Fails
    <3>2. /\ task'[r][k].pc = step /\ task'[r][k].epoch = task[r][k].epoch
          /\ task'[r][k].account = task[r][k].account
      BY <2>8, <1>t, GotoFields DEF Steps
    <3>3. Fences(r, k)
      BY <3>2, <2>3, <2>4, <2>6, <2>8 DEF Fences, Owns, SameJob
    <3> QED
      BY <3>1, <3>3, <2>4, <2>8, <1>t, <1>k, GotoOnly DEF KeyStep
  <2>9. ASSUME Goto(r, k, "unspawned"), UNCHANGED disk
        PROVE  Shape
    BY <2>9, <2>4, <1>t, <1>d, <1>k, GotoOnly, GotoFields DEF KeyStep, GivesUp, SameJob, Steps
  <2>10. CASE Saved(r, Fresh) /\ Goto(r, k, "none")
    BY <2>10, <2>4, <1>t, <1>g, <1>q, ReadAges DEF Quiet
  <2>11. CASE ok /\ Saved(r, rows) /\ Goto(r, k, "permitted")
    BY <2>11, <2>7, <2>8 DEF Saved
  <2>12. CASE ok /\ Fumbled(r, rows) /\ Goto(r, k, "unspawned")
    <3>1. disk' = disk \/ disk' = rows
      BY <2>12 DEF Fumbled, SavedLate, NotSaved
    <3> QED
      BY <3>1, <2>12, <2>7, <2>8, <2>9
  <2> QED
    BY <2>5, <2>9, <2>10, <2>11, <2>12 DEF NotRead
<1>7. ASSUME NEW r \in Runtimes, NEW k \in Keys, Run(r, k)
      PROVE  Shape
  <2>1. task[r][k].pc = "permitted" /\ UNCHANGED <<disk, session>>
    BY <1>7 DEF Run, At
  <2>2. \/ /\ jobs' = [jobs EXCEPT ![k] = [count |-> @.count + 1, account |-> session,
                                           running |-> TRUE]]
           /\ \E step \in {"receipt", "lost"} : Goto(r, k, step)
        \/ UNCHANGED jobs /\ Goto(r, k, "lost")
        \/ UNCHANGED jobs /\ Goto(r, k, "unspawned")
    BY <1>7 DEF Run
  <2>3. ASSUME jobs' = [jobs EXCEPT ![k] = [count |-> @.count + 1, account |-> session,
                                            running |-> TRUE]],
               NEW step \in {"receipt", "lost"}, Goto(r, k, step)
        PROVE  Shape
    <3>1. /\ jobs'[k].count = jobs[k].count + 1 /\ jobs'[k].account = session
          /\ \A j \in Keys \ {k} : SameJob(j)
      BY <2>3, <1>t DEF SameJob
    <3>2. /\ task'[r][k].pc = step /\ task'[r][k].epoch = task[r][k].epoch
          /\ task'[r][k].account = task[r][k].account
      BY <2>3, <1>t, GotoFields DEF Steps
    <3>3. Runs(r, k)
      BY <3>1, <3>2, <2>1 DEF Runs
    <3>4. Only(r, k)
      BY <3>1, <2>1, <2>3, <1>t, <1>d, GotoOnly DEF Only
    <3> QED
      BY <3>3, <3>4 DEF Shape, KeyStep
  <2>4. CASE UNCHANGED jobs /\ Goto(r, k, "lost")
    BY <2>1, <2>4, <1>g, <1>d, <1>q DEF Quiet
  <2>5. CASE UNCHANGED jobs /\ Goto(r, k, "unspawned")
    <3>1. task'[r][k].pc = "unspawned"
      BY <2>5, <1>t, GotoFields DEF Steps
    <3>2. GivesUp(r, k)
      BY <3>1, <2>1, <2>5, <1>d DEF GivesUp, SameJob
    <3> QED
      BY <3>2, <2>1, <2>5, <1>t, <1>d, <1>k, GotoOnly DEF KeyStep
  <2> QED
    BY <2>2, <2>3, <2>4, <2>5
<1>8. ASSUME NEW r \in Runtimes, NEW k \in Keys, CommitReceipt(r, k)
      PROVE  Shape
  <2> DEFINE ok   == Current(r, k) /\ Mine(r, k, Fresh[k])
             x    == [Ended(Fresh[k], "accepted") EXCEPT !.account = Fresh[k].account]
             rows == [Fresh EXCEPT ![k] = x]
  <2>1. x \in Row /\ x.state = "accepted" /\ x.account = Fresh[k].account /\ rows[k] = x
    <3>1. Ended(Fresh[k], "accepted") \in Row /\ Ended(Fresh[k], "accepted").state = "accepted"
      BY EndedType, EndedState DEF States
    <3>2. Fresh[k].account \in Account
      BY <1>f DEF Row
    <3> HIDE DEF rows
    <3>3. x \in Row /\ x.state = "accepted" /\ x.account = Fresh[k].account
      BY <3>1, <3>2 DEF Row
    <3> HIDE DEF x
    <3> QED
      BY <3>3 DEF Fresh, rows
  <2>2. task[r][k].pc = "receipt" /\ UNCHANGED <<jobs, session>>
    BY <1>8 DEF CommitReceipt, At
  <2>3. \/ ok /\ Saved(r, rows) /\ Goto(r, k, "none")
        \/ ok /\ Fumbled(r, rows) /\ Goto(r, k, "lost")
        \/ /\ Saved(r, Fresh) \/ NotRead(r) \/ UNCHANGED disk
           /\ \E step \in {"none", "lost"} : Goto(r, k, step)
    BY <1>8 DEF CommitReceipt, Step
  <2>4. ok => Owns(r, k) /\ Fresh[k] = disk[k] /\ session = task[r][k].account
    BY <1>f DEF Mine, Owns, Terminal, Current
  <2>5. \A step \in {"none", "lost"} :
          Goto(r, k, step) => \A s \in Runtimes, j \in Keys : Calms(s, j)
    BY <1>g DEF Quiet
  <2> HIDE DEF ok, x, rows
  <2>6. CASE ok /\ (Saved(r, rows) \/ Fumbled(r, rows))
             /\ \E step \in {"none", "lost"} : Goto(r, k, step)
    <3>1. disk' = disk \/ disk'[k] = x
      BY <2>1, <2>6 DEF Saved, Fumbled, SavedLate, NotSaved
    <3>2. \A j \in Keys \ {k} : Aged(j)
      BY <2>1, <2>6, <1>t, UpdateAges DEF Fails, rows
    <3>3. CASE disk' = disk
      BY <3>3, <2>2, <2>5, <2>6, <1>d, <1>q
    <3>4. CASE disk'[k] = x
      <4>1. Accepts(r, k)
        <5>1. task'[r][k].pc \in Quiet
          BY <2>6, <1>t, GotoType DEF Quiet, Steps
        <5> QED
          BY <5>1, <3>4, <2>1, <2>2, <2>4, <2>6 DEF Accepts, SameJob
      <4> QED
        BY <4>1, <3>2, <2>2, <2>6, <1>t, <1>k, GotoOnly DEF KeyStep
    <3> QED
      BY <3>1, <3>3, <3>4
  <2>7. CASE /\ Saved(r, Fresh) \/ NotRead(r) \/ UNCHANGED disk
             /\ \E step \in {"none", "lost"} : Goto(r, k, step)
    BY <2>2, <2>5, <2>7, <1>t, <1>d, <1>q, ReadAges
  <2> QED
    BY <2>3, <2>6, <2>7
<1>9. ASSUME NEW r \in Runtimes, NEW k \in Keys, CommitFailure(r, k)
      PROVE  Shape
  <2> DEFINE ok   == Mine(r, k, Fresh[k]) /\ task[r][k].epoch \in {0, Fresh[k].epoch}
             rows == [Fresh EXCEPT ![k] = FailureRow(r, k)]
  <2>1. UNCHANGED <<jobs, session>>
    BY <1>9 DEF CommitFailure, arbiter
  <2>2. /\ \/ ok /\ (Saved(r, rows) \/ Fumbled(r, rows))
           \/ Saved(r, Fresh) \/ NotRead(r)
        /\ \E step \in {"none", "failing"} : Goto(r, k, step)
    BY <1>9 DEF CommitFailure, Step
  <2>3. ok => Owns(r, k) /\ Fresh[k] = disk[k]
    BY <1>f DEF Mine, Owns, Terminal
  <2>4. \A s \in Runtimes, j \in Keys : Calms(s, j)
    BY <2>2, <1>g DEF Quiet
  <2>5. CASE Saved(r, Fresh) \/ NotRead(r)
    BY <2>1, <2>4, <2>5, <1>t, <1>q, ReadAges
  <2>6. CASE ok /\ (Saved(r, rows) \/ Fumbled(r, rows)) /\ At(r, k, {"unspawned"})
    <3>1. FailureRow(r, k) = NoRow
      BY <2>6 DEF FailureRow
    <3>2. rows[k] = NoRow
      BY <3>1 DEF Fresh
    <3>3. disk' = disk \/ disk'[k] = NoRow
      <4> HIDE DEF rows, ok
      <4> QED
        BY <3>2, <2>6 DEF Saved, Fumbled, SavedLate, NotSaved
    <3>4. \A j \in Keys \ {k} : Aged(j)
      BY <3>1, <2>6, <1>t, NoRowType, UpdateAges DEF Fails
    <3>5. CASE disk' = disk
      BY <3>5, <2>1, <2>4, <1>d, <1>q
    <3>6. CASE disk'[k] = NoRow
      <4>1. disk'[k].state = "absent" /\ task[r][k].pc = "unspawned"
        BY <3>6, <2>6 DEF NoRow, At
      <4>2. task[r][k].epoch = 0 \/ task[r][k].epoch = disk[k].epoch
        BY <2>3, <2>6
      <4>3. Removes(r, k)
        BY <4>1, <4>2, <2>1, <2>3, <2>4, <2>6 DEF Removes, SameJob
      <4> QED
        BY <4>3, <3>4, <2>1, <2>2, <1>t, <1>k, GotoOnly DEF KeyStep
    <3> QED
      BY <3>3, <3>5, <3>6
  <2>7. CASE ok /\ (Saved(r, rows) \/ Fumbled(r, rows)) /\ ~At(r, k, {"unspawned"})
    <3>1. rows = [Fresh EXCEPT ![k] = Ended(Fresh[k], "unknown")] /\ Fresh[k].state = "pending"
      BY <2>7 DEF FailureRow, Mine
    <3>2. \A j \in Keys : Aged(j)
      <4> HIDE DEF rows, ok
      <4> QED
        BY <3>1, <2>7, <1>e DEF Fails, States, Terminal
    <3> QED
      BY <3>2, <2>1, <2>4, <1>q
  <2> QED
    BY <2>2, <2>5, <2>6, <2>7
<1>10. ASSUME NEW r \in Runtimes, NEW k \in Keys, FailTask(r, k)
       PROVE  Shape
  <2> DEFINE rows == [Fresh EXCEPT ![k] = Ended(Fresh[k], "failed")]
  <2>1. UNCHANGED <<jobs, session>> /\ Goto(r, k, "none")
    BY <1>10 DEF FailTask, Step, arbiter
  <2>2. \A s \in Runtimes, j \in Keys : Calms(s, j)
    BY <2>1, <1>g DEF Quiet
  <2>3. rows = [Fresh EXCEPT ![k] = Ended(@, "failed")]
    OBVIOUS
  <2>4. \/ UNCHANGED disk \/ Saved(r, Fresh) \/ NotRead(r) \/ Invalid(r, rows)
        \/ /\ Fresh[k].state \in {"queued", "accepted"}
           /\ Saved(r, rows) \/ Fumbled(r, rows)
    BY <2>3, <1>10 DEF FailTask
  <2>5. Invalid(r, rows) => disk' = Fresh
    BY DEF Invalid
  <2>6. CASE Fresh[k].state \in {"queued", "accepted"} /\ (Saved(r, rows) \/ Fumbled(r, rows))
    <3>1. \A j \in Keys : Aged(j)
      BY <2>6, <1>e DEF Fails, States, Terminal
    <3> QED
      BY <3>1, <2>1, <2>2, <1>q
  <2>7. CASE UNCHANGED disk \/ Saved(r, Fresh) \/ NotRead(r) \/ disk' = Fresh
    BY <2>1, <2>2, <2>7, <1>t, <1>d, <1>q, ReadAges, FreshAges
  <2> QED
    BY <2>4, <2>5, <2>6, <2>7
<1>u. ASSUME NEW r \in Runtimes, NEW k \in Keys, Dequeue(r, k)
      PROVE  \A s \in Runtimes, j \in Keys : Calms(s, j)
  BY <1>u, <1>g, <1>s DEF Dequeue, Quiet
<1>11. ASSUME NEW r \in Runtimes, NEW k \in Keys, CancelTask(r, k)
       PROVE  Shape
  <2> DEFINE rows == [Fresh EXCEPT ![k] = Ended(Fresh[k], "cancelled")]
  <2>1. /\ Fresh[k].state = "queued"
        /\ Saved(r, rows) \/ Fails(r, rows)
        /\ Dequeue(r, k) \/ UNCHANGED task
        /\ UNCHANGED <<jobs, session>>
    BY <1>11 DEF CancelTask, arbiter
  <2>2. \A j \in Keys : Aged(j)
    BY <2>1, <1>e DEF States, Terminal
  <2> QED
    BY <2>1, <2>2, <1>u, <1>s, <1>q
<1>12. ASSUME NEW r \in Runtimes, NEW k \in Keys, DeleteTask(r, k)
       PROVE  Shape
  <2> DEFINE rows == [Fresh EXCEPT ![k] = Ended(Fresh[k], "deleted")]
  <2>1. /\ Fresh[k].state \in {"queued", "pending"}
        /\ Saved(r, rows) \/ Fails(r, rows) \/ Invalid(r, rows)
        /\ Dequeue(r, k) \/ UNCHANGED task
        /\ UNCHANGED <<jobs, session>>
    BY <1>12 DEF DeleteTask, arbiter
  <2>2. \A j \in Keys : Aged(j)
    BY <2>1, <1>e DEF States, Terminal
  <2> QED
    BY <2>1, <2>2, <1>u, <1>s, <1>q
<1>13. ASSUME NEW r \in Runtimes, NEW k \in Keys, Reconcile(r, k)
       PROVE  Shape
  <2>1. disk[k].state = "accepted" /\ ~jobs[k].running /\ UNCHANGED <<task, jobs, session>>
    BY <1>13 DEF Reconcile, arbiter
  <2>2. PICK s \in {"succeeded", "failed", "cancelled"} :
               disk' = [disk EXCEPT ![k] = Ended(disk[k], s)]
    BY <1>13 DEF Reconcile
  <2>3. disk'[k].state = s /\ \A j \in Keys \ {k} : disk'[j] = disk[j]
    BY <2>2, <1>t, EndedState DEF Rows
  <2>4. \A j \in Keys : Aged(j)
    BY <2>1, <2>3 DEF Aged
  <2> QED
    BY <2>1, <2>4, <1>s, <1>q
<1>14. ASSUME NEW r \in Runtimes, Load(r)
       PROVE  Shape
  BY <1>14, <1>t, <1>s, <1>q, ReadAges DEF Load, arbiter
<1>r. ASSUME NEW r \in Runtimes, Restarted(r)
      PROVE  \A s \in Runtimes, j \in Keys : Calms(s, j)
  <2>1. NoTask.pc \in Quiet
    BY DEF NoTask, Quiet
  <2>2. \A s \in Runtimes, j \in Keys : task'[s][j] = task[s][j] \/ task'[s][j] = NoTask
    BY <1>r, <1>t DEF Restarted, Tasks
  <2> QED
    BY <2>1, <2>2 DEF Calms
<1>o. ASSUME NEW r \in Runtimes, NEW j \in Keys, NEW rows \in Rows
      PROVE  LET row == Disowned(rows, r)[j] IN
               /\ row.state = rows[j].state /\ row.phase = rows[j].phase
               /\ row.epoch = rows[j].epoch /\ row.account = rows[j].account
               /\ row.owner \in {rows[j].owner, Nobody}
  BY DEF Disowned, Rows, Row
<1>15. ASSUME NEW r \in Runtimes, Crash(r)
       PROVE  Shape
  <2>1. \A j \in Keys : Aged(j)
    BY <1>15, <1>o, <1>t DEF Crash, Aged
  <2> QED
    BY <1>15, <2>1, <1>r, <1>q DEF Crash
<1>16. ASSUME NEW r \in Runtimes, Dispose(r)
       PROVE  Shape
  <2>1. ASSUME NEW j \in Keys PROVE Aged(j)
    <3>1. CASE Fresh[j].state = "queued" /\ Fresh[j].owner = r
      <4>1. disk'[j] = Ended(Fresh[j], "failed")
        BY <3>1, <1>16 DEF Dispose
      <4> QED
        BY <4>1, <3>1, <1>t, EndedAges DEF States, Terminal
    <3>2. CASE ~(Fresh[j].state = "queued" /\ Fresh[j].owner = r)
      <4>1. disk'[j] = Disowned(Fresh, r)[j]
        BY <3>2, <1>16 DEF Dispose
      <4>2. Fresh \in Rows
        BY <1>t, FreshType
      <4>3. /\ disk'[j].state = Fresh[j].state /\ disk'[j].phase = Fresh[j].phase
            /\ disk'[j].epoch = Fresh[j].epoch /\ disk'[j].account = Fresh[j].account
            /\ disk'[j].owner \in {Fresh[j].owner, Nobody}
        BY <4>1, <4>2, <1>o
      <4>4. \/ Fresh[j] = disk[j]
            \/ disk[j].state \in {"queued", "pending"} /\ Fresh[j].state \in Terminal
        BY <1>t, RecoveredAges DEF Fresh, Rows
      <4> QED
        BY <4>3, <4>4 DEF Aged
    <3> QED
      BY <3>1, <3>2
  <2> QED
    BY <1>16, <2>1, <1>r, <1>q DEF Dispose, arbiter
<1>17. ASSUME NEW k \in Keys, Finish(k)
       PROVE  Shape
  <2>1. \A j \in Keys : SameJob(j)
    BY <1>17, <1>t DEF Finish, SameJob, Job
  <2> QED
    BY <1>17, <2>1, <1>t, <1>s, <1>d DEF Finish, Shape, Rests, arbiter
<1>18. ASSUME NEW k \in Keys, Expire(k) \/ Pause(k)
       PROVE  Shape
  <2>1. Ends(k)
    BY <1>18 DEF Expire, Pause
  <2>2. ASSUME NEW j \in Keys PROVE Aged(j)
    BY <2>1, <1>t DEF Ends, Aged, Rows, Row
  <2> QED
    BY <2>1, <2>2, <1>s, <1>q DEF Ends, arbiter
<1>19. ASSUME ExpireInvocation \/ PauseInvocation \/ RefreshInvocation
       PROVE  Shape
  BY <1>19, <1>s, <1>d, <1>q
     DEF ExpireInvocation, PauseInvocation, RefreshInvocation, InvocationEnds
<1>20. ASSUME ChangeAccount
       PROVE  Shape
  <2>1. UNCHANGED <<disk, task, jobs>> /\ session <= session'
    BY <1>20, <1>t DEF ChangeAccount
  <2> QED
    BY <2>1, <1>s, <1>d DEF Shape, Rests, SameJob
<1> QED
  BY <1>1, <1>2, <1>3, <1>4, <1>5, <1>6, <1>7, <1>8, <1>9, <1>10, <1>11, <1>12, <1>13, <1>14,
     <1>15, <1>16, <1>17, <1>18, <1>19, <1>20 DEF Next, Submit

-----------------------------------------------------------------------------
(***************************************************************************)
(* Ends stay: no step of any runtime begins a record again.                *)
(***************************************************************************)
LEMMA ShapeEnds ==
  ASSUME Shape, NEW k \in Keys
  PROVE  /\ disk[k].state \in Terminal => disk'[k].state = disk[k].state
         /\ disk[k].state = "accepted" =>
              \/ disk'[k].state \in {"accepted", "failed"}
              \/ disk'[k].state \in {"succeeded", "cancelled"} /\ ~jobs[k].running
<1>1. CASE Aged(k)
  BY <1>1 DEF Aged, Terminal
<1>2. CASE disk'[k] = disk[k] \/ disk[k].state \in {"absent", "queued"}
  BY <1>2 DEF Terminal
<1>3. ASSUME NEW r \in Runtimes, NEW j \in Keys, Only(r, j), KeyStep(r, j)
      PROVE  Aged(k) \/ disk'[k] = disk[k] \/ disk[k].state \in {"absent", "queued"}
             \/ disk[k].state = "pending"
  BY <1>3 DEF Only, KeyStep, Queues, Reserves, Prepares, Acquires, GivesUp, Fences, Runs,
     Accepts, Removes, Owns
<1>4. CASE disk[k].state = "pending"
  BY <1>4 DEF Terminal
<1> QED
  BY <1>1, <1>2, <1>3, <1>4 DEF Shape, Rests

(* A record that has ended stays as it ended, and one that the provider     *)
(* accepted is failed or takes the end of its job: for any runtimes, keys   *)
(* and bounds no recovery, cancellation, removal or late commit submits it  *)
(* again, or calls it succeeded or cancelled while its job runs.            *)
THEOREM EndsStayForGood == SubmissionSpec => EndsStay
<1> DEFINE Kept ==
      \A k \in Keys :
        /\ disk[k].state \in Terminal => disk'[k].state = disk[k].state
        /\ disk[k].state = "accepted" =>
             \/ disk'[k].state \in {"accepted", "failed"}
             \/ disk'[k].state \in {"succeeded", "cancelled"} /\ ~jobs[k].running
<1>1. TypeInv /\ [Next]_vars => [Kept]_vars
  BY StepShape, ShapeEnds
<1>2. SubmissionSpec => [][Kept]_vars
  BY <1>1, InitTypeInv, StepTypeInv, PTL DEF SubmissionSpec
<1> QED
  BY <1>2 DEF EndsStay

-----------------------------------------------------------------------------
(***************************************************************************)
(* One submission per key.  Whoever may still submit (a task that is       *)
(* permitted) or commit a receipt is bound to a record that says so, and   *)
(* a record that could be queued or reserved again has no submission.      *)
(***************************************************************************)
Bound(r, k) ==
  \/ disk[k].state \in Terminal
  \/ /\ disk[k].state = "pending" /\ disk[k].phase = "permitted"
     /\ disk[k].owner \in {r, Nobody}
     /\ disk[k].epoch = task[r][k].epoch /\ disk[k].account = task[r][k].account

Spent(k) ==
  \/ jobs[k].count = 0
  \/ jobs[k].count = 1 /\ \/ disk[k].state \in Terminal \cup {"accepted"}
                          \/ disk[k].state = "pending" /\ disk[k].phase = "permitted"

AcceptedOnce(k) ==
  disk[k].state = "accepted" => jobs[k].count = 1 /\ jobs[k].account = disk[k].account

Permitted(r, k) == task[r][k].pc = "permitted" => jobs[k].count = 0 /\ Bound(r, k)

Received(r, k) ==
  task[r][k].pc = "receipt" =>
    /\ jobs[k].count = 1 /\ Bound(r, k)
    /\ task[r][k].account <= jobs[k].account /\ jobs[k].account <= session

Unfenced(r, k) ==
  task[r][k].pc \in {"reserved", "ready", "granted"} /\ Owns(r, k) =>
    disk[k].phase = "reserved"

Unspawned(r, k) ==
  /\ task[r][k].pc = "unspawned" /\ Owns(r, k)
  /\ task[r][k].epoch = 0 \/ task[r][k].epoch = disk[k].epoch
  => jobs[k].count = 0

Earlier(r, k) ==
  task[r][k].pc \in {"ready", "granted", "permitted", "receipt"} => task[r][k].account <= session

TaskInv(r, k) ==
  Permitted(r, k) /\ Received(r, k) /\ Unfenced(r, k) /\ Unspawned(r, k) /\ Earlier(r, k)

OnePermitted(k) ==
  \A r, s \in Runtimes :
    task[r][k].pc = "permitted" /\ task[s][k].pc = "permitted" => r = s

KeyOK(k) ==
  /\ Spent(k) /\ AcceptedOnce(k) /\ OnePermitted(k)
  /\ \A r \in Runtimes : TaskInv(r, k)

KeyInv == \A k \in Keys : KeyOK(k)

LEMMA InitKeyInv == Init => KeyInv
  BY DEF Init, KeyInv, KeyOK, Spent, AcceptedOnce, OnePermitted, TaskInv, Permitted, Received,
     Unfenced, Unspawned, Earlier, NoRow, NoTask, NoJob

Numbers(k) ==
  /\ jobs[k].count \in Nat /\ jobs[k].account \in Nat
  /\ \A r \in Runtimes : task[r][k].account \in Nat

LEMMA TypeNumbers == ASSUME TypeInv, NEW k \in Keys PROVE Numbers(k) /\ session \in Nat
<1>1. /\ task \in Tasks /\ jobs \in [Keys -> Job] /\ session \in Account
  BY TypeParts
<1>2. jobs[k] \in Job /\ \A r \in Runtimes : task[r][k] \in TaskRecord
  BY <1>1 DEF Tasks
<1>3. Account \subseteq Nat
  BY SubmissionConstants DEF Account
<1> QED
  BY <1>1, <1>2, <1>3 DEF Job, TaskRecord, Numbers

LEMMA QuietTask ==
  ASSUME NEW k, NEW s, task'[s][k].pc \in Quiet
  PROVE  TaskInv(s, k)'
  BY DEF TaskInv, Permitted, Received, Unfenced, Unspawned, Earlier, Quiet

\* A task keeps what it holds while its record ages and nothing is submitted.
LEMMA AgedTask ==
  ASSUME NEW k \in Keys, NEW s \in Runtimes, KeyOK(k), Numbers(k), session \in Nat,
         session' \in Nat, session <= session', Aged(k), SameJob(k),
         \/ Calms(s, k)
         \/ /\ task[s][k].pc \in {"reserved", "ready", "granted", "permitted"}
            /\ task'[s][k].pc = "unspawned"
  PROVE  TaskInv(s, k)'
<1>1. TaskInv(s, k) /\ Spent(k) /\ s # Nobody
  BY SubmissionConstants DEF KeyOK
<1>2. Owns(s, k)' => /\ Owns(s, k) /\ disk'[k].phase = disk[k].phase
                     /\ disk'[k].epoch = disk[k].epoch
  BY <1>1 DEF Owns, Aged, Terminal
<1>3. task'[s][k] = task[s][k] /\ Bound(s, k) => Bound(s, k)'
  BY DEF Bound, Aged, Terminal
<1>4. CASE task'[s][k] = task[s][k]
  <2>1. Permitted(s, k)'
    BY <1>1, <1>3, <1>4 DEF TaskInv, Permitted, SameJob
  <2>2. Unfenced(s, k)'
    BY <1>1, <1>2, <1>4 DEF TaskInv, Unfenced
  <2>3. Unspawned(s, k)'
    BY <1>1, <1>2, <1>4 DEF TaskInv, Unspawned, SameJob
  <2>4. Received(s, k)'
    BY <1>1, <1>3, <1>4 DEF TaskInv, Received, SameJob, Numbers
  <2>5. Earlier(s, k)'
    BY <1>1, <1>4 DEF TaskInv, Earlier, Numbers
  <2> QED
    BY <2>1, <2>2, <2>3, <2>4, <2>5 DEF TaskInv
<1>5. CASE /\ task[s][k].pc \in {"reserved", "ready", "granted", "permitted"}
           /\ task'[s][k].pc = "unspawned"
  <2>1. Owns(s, k)' => jobs[k].count = 0
    BY <1>1, <1>2, <1>5 DEF TaskInv, Permitted, Unfenced, Spent, Owns, Terminal
  <2> QED
    BY <2>1, <1>5 DEF TaskInv, Permitted, Received, Unfenced, Unspawned, Earlier, SameJob
<1> QED
  BY <1>4, <1>5, QuietTask DEF Calms

LEMMA AgedKeeps ==
  ASSUME NEW k \in Keys, KeyOK(k), Numbers(k), session \in Nat, session' \in Nat,
         session <= session', Aged(k), SameJob(k),
         \A s \in Runtimes :
           \/ Calms(s, k)
           \/ /\ task[s][k].pc \in {"reserved", "ready", "granted", "permitted"}
              /\ task'[s][k].pc = "unspawned"
  PROVE  KeyOK(k)'
<1>1. Spent(k)' /\ AcceptedOnce(k)'
  BY DEF KeyOK, Spent, AcceptedOnce, Aged, SameJob, Terminal
<1>2. OnePermitted(k)'
  BY DEF KeyOK, OnePermitted, Calms, Quiet
<1>3. \A s \in Runtimes : TaskInv(s, k)'
  BY AgedTask
<1> QED
  BY <1>1, <1>2, <1>3 DEF KeyOK

\* A task that holds no permit is disturbed only through a record it owns.
LEMMA FreeTask ==
  ASSUME NEW k, NEW s, TaskInv(s, k), task'[s][k] = task[s][k], session' = session,
         task[s][k].pc \notin {"permitted", "receipt"},
         Owns(s, k)' => jobs'[k].count = 0 /\ disk'[k].phase = "reserved"
  PROVE  TaskInv(s, k)'
  BY DEF TaskInv, Permitted, Received, Unfenced, Unspawned, Earlier

\* Who holds the record keeps every other runtime from a permit.
LEMMA OwnerAlone ==
  ASSUME NEW k \in Keys, NEW r \in Runtimes, NEW s \in Runtimes \ {r}, KeyOK(k), Owns(r, k)
  PROVE  task[s][k].pc \notin {"permitted", "receipt"} /\ ~Owns(s, k)
<1>1. TaskInv(s, k) /\ r # Nobody
  BY SubmissionConstants DEF KeyOK
<1> QED
  BY <1>1 DEF TaskInv, Permitted, Received, Bound, Owns, Terminal

LEMMA KeyStepKeeps ==
  ASSUME NEW k \in Keys, NEW r \in Runtimes, KeyOK(k), Numbers(k), session \in Nat,
         session' = session, KeyStep(r, k),
         \A s \in Runtimes \ {r} : task'[s][k] = task[s][k]
  PROVE  KeyOK(k)'
<1>i. /\ Spent(k) /\ AcceptedOnce(k) /\ OnePermitted(k)
      /\ r # Nobody /\ \A s \in Runtimes : TaskInv(s, k)
  BY SubmissionConstants DEF KeyOK
<1>p. ASSUME Spent(k)', AcceptedOnce(k)', OnePermitted(k)', TaskInv(r, k)',
             \A s \in Runtimes \ {r} : TaskInv(s, k)'
      PROVE  KeyOK(k)'
  BY <1>p DEF KeyOK
<1>n. ASSUME \A s \in Runtimes \ {r} : task[s][k].pc \notin {"permitted", "receipt"}
      PROVE  OnePermitted(k)'
  BY <1>n DEF OnePermitted
<1>o. ASSUME \A s \in Runtimes \ {r} : /\ task[s][k].pc \notin {"permitted", "receipt"}
                                       /\ ~Owns(s, k)'
      PROVE  \A s \in Runtimes \ {r} : TaskInv(s, k)'
  BY <1>o, <1>i, FreeTask
<1>1. CASE Queues(r, k) \/ Reserves(r, k)
  <2>1. jobs[k].count = 0 /\ jobs'[k].count = 0
    BY <1>1, <1>i DEF Queues, Reserves, Spent, SameJob, Terminal
  <2>2. \A s \in Runtimes : task[s][k].pc \notin {"permitted", "receipt"}
    BY <1>1, <1>i, <2>1
       DEF Queues, Reserves, TaskInv, Permitted, Received, Bound, Terminal
  <2>3. \A s \in Runtimes \ {r} : ~Owns(s, k)'
    BY <1>1 DEF Queues, Reserves, Owns
  <2>4. Owns(r, k)' => disk'[k].phase = "reserved"
    BY <1>1 DEF Queues, Reserves, Owns
  <2>5. TaskInv(r, k)'
    <3>1. CASE task'[r][k] = task[r][k]
      BY <3>1, <2>1, <2>2, <2>4, <1>i, FreeTask
    <3>2. CASE task'[r][k].pc \in Quiet
      BY <3>2, QuietTask
    <3>3. CASE task'[r][k].pc = "reserved"
      BY <3>3, <2>4 DEF TaskInv, Permitted, Received, Unfenced, Unspawned, Earlier
    <3> QED
      BY <3>1, <3>2, <3>3, <1>1 DEF Queues, Reserves, Calms
  <2>6. Spent(k)' /\ AcceptedOnce(k)'
    BY <2>1, <1>1 DEF Spent, AcceptedOnce, Queues, Reserves
  <2> QED
    BY <2>2, <2>3, <2>5, <2>6, <1>n, <1>o, <1>p
<1>2. CASE Prepares(r, k) \/ Acquires(r, k)
  <2>1. Aged(k) /\ SameJob(k) /\ disk'[k] = disk[k]
    BY <1>2 DEF Prepares, Acquires, Aged
  <2>2. \A s \in Runtimes \ {r} : TaskInv(s, k)'
    BY <2>1, AgedTask DEF Calms
  <2>3. TaskInv(r, k)'
    BY <1>2, <1>i, <2>1
       DEF Prepares, Acquires, TaskInv, Permitted, Received, Unfenced, Unspawned, Earlier,
           Owns, Numbers
  <2>4. Spent(k)' /\ AcceptedOnce(k)'
    BY <1>i, <2>1 DEF Spent, AcceptedOnce, SameJob
  <2>5. OnePermitted(k)'
    BY <1>2, <1>i DEF OnePermitted, Prepares, Acquires
  <2> QED
    BY <2>2, <2>3, <2>4, <2>5, <1>p
<1>3. CASE GivesUp(r, k)
  BY <1>3, AgedKeeps DEF GivesUp, Calms
<1>4. CASE Fences(r, k)
  <2>1. jobs[k].count = 0 /\ jobs'[k].count = 0
    BY <1>4, <1>i DEF Fences, TaskInv, Unfenced, Spent, Owns, SameJob, Terminal
  <2>2. \A s \in Runtimes \ {r} : task[s][k].pc \notin {"permitted", "receipt"}
    BY <1>4, OwnerAlone DEF Fences
  <2>3. \A s \in Runtimes \ {r} : ~Owns(s, k)'
    BY <1>4 DEF Fences, Owns
  <2>4. Bound(r, k)'
    BY <1>4 DEF Fences, Bound
  <2>5. TaskInv(r, k)'
    BY <1>4, <1>i, <2>1, <2>4
       DEF Fences, TaskInv, Permitted, Received, Unfenced, Unspawned, Earlier
  <2>6. Spent(k)' /\ AcceptedOnce(k)'
    BY <2>1, <1>4 DEF Spent, AcceptedOnce, Fences
  <2> QED
    BY <2>2, <2>3, <2>5, <2>6, <1>n, <1>o, <1>p
<1>5. CASE Runs(r, k)
  <2>1. jobs[k].count = 0 /\ jobs'[k].count = 1 /\ Bound(r, k)
    BY <1>5, <1>i DEF Runs, TaskInv, Permitted
  <2>2. \A s \in Runtimes \ {r} : task[s][k].pc \notin {"permitted", "receipt"}
    BY <1>5, <1>i, <2>1 DEF Runs, OnePermitted, TaskInv, Received
  <2>3. \A s \in Runtimes \ {r} : ~Owns(s, k)'
    BY <1>5, <2>1, SubmissionConstants DEF Runs, Bound, Owns, Terminal
  <2>4. Bound(r, k)'
    BY <1>5, <2>1 DEF Runs, Bound
  <2>5. task[r][k].account <= session
    BY <1>5, <1>i DEF Runs, TaskInv, Earlier
  <2>6. TaskInv(r, k)'
    BY <1>5, <2>1, <2>4, <2>5
       DEF Runs, TaskInv, Permitted, Received, Unfenced, Unspawned, Earlier
  <2>7. Spent(k)' /\ AcceptedOnce(k)'
    BY <1>5, <2>1 DEF Runs, Spent, AcceptedOnce, Bound, Terminal
  <2> QED
    BY <2>2, <2>3, <2>6, <2>7, <1>n, <1>o, <1>p
<1>6. CASE Accepts(r, k)
  <2>1. /\ jobs[k].count = 1 /\ task[r][k].account <= jobs[k].account
        /\ jobs[k].account <= session /\ disk[k].account = task[r][k].account
    BY <1>6, <1>i DEF Accepts, TaskInv, Received, Bound, Owns, Terminal
  <2>2. jobs'[k].count = 1 /\ jobs'[k].account = disk'[k].account
    BY <1>6, <2>1 DEF Accepts, SameJob, Numbers
  <2>3. \A s \in Runtimes \ {r} : task[s][k].pc \notin {"permitted", "receipt"}
    BY <1>6, OwnerAlone DEF Accepts
  <2>4. \A s \in Runtimes : ~Owns(s, k)'
    BY <1>6 DEF Accepts, Owns
  <2>5. TaskInv(r, k)'
    BY <1>6, QuietTask DEF Accepts
  <2>6. Spent(k)' /\ AcceptedOnce(k)'
    BY <1>6, <2>2 DEF Spent, AcceptedOnce, Accepts
  <2> QED
    BY <2>3, <2>4, <2>5, <2>6, <1>n, <1>o, <1>p
<1>7. CASE Removes(r, k)
  <2>1. jobs[k].count = 0 /\ jobs'[k].count = 0
    BY <1>7, <1>i DEF Removes, TaskInv, Unspawned, SameJob
  <2>2. \A s \in Runtimes \ {r} : task[s][k].pc \notin {"permitted", "receipt"}
    BY <1>7, OwnerAlone DEF Removes
  <2>3. \A s \in Runtimes : ~Owns(s, k)'
    BY <1>7 DEF Removes, Owns
  <2>4. TaskInv(r, k)'
    <3>1. CASE task'[r][k] = task[r][k]
      BY <3>1, <2>3, <1>7, <1>i, FreeTask DEF Removes
    <3>2. CASE task'[r][k].pc \in Quiet
      BY <3>2, QuietTask
    <3> QED
      BY <3>1, <3>2, <1>7 DEF Removes, Calms
  <2>5. Spent(k)' /\ AcceptedOnce(k)'
    BY <2>1, <1>7 DEF Spent, AcceptedOnce, Removes
  <2> QED
    BY <2>2, <2>3, <2>4, <2>5, <1>n, <1>o, <1>p
<1> QED
  BY <1>1, <1>2, <1>3, <1>4, <1>5, <1>6, <1>7 DEF KeyStep

LEMMA StepKeyInv == TypeInv /\ TypeInv' /\ KeyInv /\ [Next]_vars => KeyInv'
<1> SUFFICES ASSUME TypeInv, TypeInv', KeyInv, [Next]_vars, NEW k \in Keys
             PROVE  KeyOK(k)'
  BY DEF KeyInv
<1>1. KeyOK(k) /\ Numbers(k) /\ session \in Nat
  BY TypeNumbers DEF KeyInv
<1>2. session' \in Nat
  BY SubmissionConstants DEF TypeInv, SubmissionTypeOK, Account
<1>3. CASE UNCHANGED vars
  BY <1>3, <1>1 DEF vars, KeyOK, Spent, AcceptedOnce, OnePermitted, TaskInv, Permitted, Received,
     Unfenced, Unspawned, Earlier, Bound, Owns
<1>4. CASE Rests
  BY <1>4, <1>1, <1>2, AgedKeeps DEF Rests
<1>5. ASSUME NEW r \in Runtimes, NEW j \in Keys, Only(r, j), KeyStep(r, j)
      PROVE  KeyOK(k)'
  <2>1. CASE j = k
    BY <2>1, <1>5, <1>1, KeyStepKeeps DEF Only
  <2>2. CASE j # k
    <3>1. Aged(k) /\ SameJob(k) /\ session <= session'
      BY <2>2, <1>5, <1>1 DEF Only
    <3>2. \A s \in Runtimes : Calms(s, k)
      BY <2>2, <1>5 DEF Only, Calms
    <3> QED
      BY <3>1, <3>2, <1>1, <1>2, AgedKeeps
  <2> QED
    BY <2>1, <2>2
<1> QED
  BY <1>3, <1>4, <1>5, StepShape DEF Shape

LEMMA KeyInvHolds == SubmissionSpec => [](TypeInv /\ KeyInv)
  BY InitTypeInv, InitKeyInv, StepTypeInv, StepKeyInv, PTL DEF SubmissionSpec

(* One idempotency key is submitted at most once, for any number of         *)
(* runtimes that share the journal, and of crashes, lost receipts, failed   *)
(* writes, paused leases and changes of the account.                        *)
THEOREM SubmittedOnce == SubmissionSpec => []SubmitOnce
<1>1. KeyInv => SubmitOnce
  <2> SUFFICES ASSUME KeyInv, NEW k \in Keys PROVE jobs[k].count <= 1
    BY DEF SubmitOnce
  <2>1. Spent(k)
    BY DEF KeyInv, KeyOK
  <2> QED
    BY <2>1 DEF Spent
<1> QED
  BY <1>1, KeyInvHolds, PTL

(* The receipt on record is of the one submission, under the account that   *)
(* the record is bound to.                                                  *)
THEOREM ReceiptOfAccount == SubmissionSpec => []AcceptedAccount
<1>1. KeyInv => AcceptedAccount
  BY DEF KeyInv, KeyOK, AcceptedOnce, AcceptedAccount
<1> QED
  BY <1>1, KeyInvHolds, PTL

-----------------------------------------------------------------------------
(***************************************************************************)
(* Slots.  A record enters a slot by a reservation with priority only, and *)
(* one whose generation runs leaves it by failTask only.                   *)
(***************************************************************************)
Ageing(j) ==
  \/ disk'[j].state = disk[j].state
  \/ disk[j].state \in {"absent", "queued"} /\ disk'[j].state \notin HoldsSlot
  \/ /\ disk[j].state = "pending"
     /\ disk[j].phase = "reserved" \/ disk'[j].state \in {"absent", "accepted", "unknown"}
  \/ /\ disk[j].state = "accepted"
     /\ \/ ~jobs[j].running
        \/ disk'[j].state = "failed" /\ \E r \in Runtimes : At(r, j, {"failing"})

\* The journal grows by one record, if at all.
OneNew == \E k \in Keys : \A j \in Keys \ {k} : disk[j].state = "absent" =>
                                                 disk'[j].state = "absent"

EntersSlot(k) ==
  /\ HasPriority(Fresh, k) /\ disk'[k].state = "pending"
  /\ \A j \in Keys \ {k} : disk'[j].state = Fresh[j].state

LEMMA FreshAgeing ==
  ASSUME disk \in Rows, NEW j \in Keys, disk'[j].state \in {disk[j].state, Fresh[j].state}
  PROVE  /\ Ageing(j)
         /\ disk[j].state = "absent" => disk'[j].state = "absent"
         /\ Fresh[j].state \in HoldsSlot => disk[j].state \in HoldsSlot
         /\ Fresh[j].state = "absent" <=> disk[j].state = "absent"
<1>1. Fresh[j] = Recovered(disk[j]) /\ disk[j] \in Row
  BY DEF Fresh, Rows
<1>2. \A s : Ended(disk[j], s).state = s
  BY EndedState
<1> QED
  BY <1>1, <1>2 DEF Recovered, Ageing, HoldsSlot

\* A locked update of one record.
LEMMA UpdateAgeing ==
  ASSUME disk \in Rows, NEW r \in Runtimes, NEW k \in Keys, NEW x, NEW rows,
         rows = [Fresh EXCEPT ![k] = x],
         Saved(r, rows) \/ Fails(r, rows) \/ Invalid(r, rows) \/ UNCHANGED disk,
         disk'[k] = x => Ageing(k)
  PROVE  (\A j \in Keys : Ageing(j)) /\ OneNew
<1>1. disk' = disk \/ disk' = Fresh \/ disk' = rows
  BY DEF Saved, Fails, Fumbled, SavedLate, NotSaved, NotRead, Invalid
<1>2. \A j \in Keys : rows[j] = IF j = k THEN x ELSE Fresh[j]
  BY DEF Fresh
<1>3. \A j \in Keys \ {k} : disk'[j].state \in {disk[j].state, Fresh[j].state}
  BY <1>1, <1>2
<1>4. disk'[k].state \in {disk[k].state, Fresh[k].state} \/ disk'[k] = x
  BY <1>1, <1>2
<1> QED
  BY <1>3, <1>4, FreshAgeing DEF OneNew

LEMMA ReadAgeing ==
  ASSUME disk \in Rows, NEW k \in Keys,
         \/ UNCHANGED disk \/ disk' = Fresh
         \/ \E r \in Runtimes : Saved(r, Fresh) \/ NotRead(r)
  PROVE  (\A j \in Keys : Ageing(j)) /\ OneNew
<1>1. \A j \in Keys : disk'[j].state \in {disk[j].state, Fresh[j].state}
  BY DEF Saved, NotRead
<1> QED
  BY <1>1, FreshAgeing DEF OneNew

LEMMA StepAgeing ==
  ASSUME TypeInv, Next, NEW key \in Keys
  PROVE  OneNew /\ ((\A j \in Keys : Ageing(j)) \/ \E k \in Keys : EntersSlot(k))
<1> DEFINE Goal == OneNew /\ ((\A j \in Keys : Ageing(j)) \/ \E k \in Keys : EntersSlot(k))
<1>t. disk \in Rows /\ jobs \in [Keys -> Job]
  BY TypeParts
<1>f. \A k \in Keys : /\ Fresh[k] \in Row /\ disk[k] \in Row
                      /\ Fresh[k].state \notin Terminal => Fresh[k] = disk[k]
  BY <1>t, FreshReads
<1>q. UNCHANGED disk => Goal
  BY <1>t, ReadAgeing
<1>e. ASSUME NEW r \in Runtimes, NEW k \in Keys, NEW s \in Terminal \ {"unknown"},
             Fresh[k].state \in {"queued", "accepted"},
             Fresh[k].state = "accepted" =>
               ~jobs[k].running \/ (s = "failed" /\ At(r, k, {"failing"})),
             \/ Saved(r, [Fresh EXCEPT ![k] = Ended(Fresh[k], s)])
             \/ Fails(r, [Fresh EXCEPT ![k] = Ended(Fresh[k], s)])
      PROVE  Goal
  <2>1. Ended(Fresh[k], s).state = s
    BY EndedState
  <2>2. Fresh[k] = disk[k]
    BY <1>e, <1>f DEF Terminal
  <2>3. disk'[k] = Ended(Fresh[k], s) => Ageing(k)
    BY <1>e, <2>1, <2>2 DEF Ageing, HoldsSlot, Terminal
  <2> QED
    BY <1>e, <1>t, <2>3, UpdateAgeing
<1>1. ASSUME NEW r \in Runtimes, NEW k \in Keys, Enqueue(r, k) PROVE Goal
  <2> DEFINE x == QueuedRow(r)
  <2>1. Fresh[k].state = "absent" /\ (disk' = disk \/ disk' = Fresh \/ disk' = [Fresh EXCEPT ![k] = x])
    BY <1>1 DEF Enqueue, Saved
  <2>2. disk[k].state = "absent" /\ x.state = "queued"
    BY <2>1, <1>f DEF Terminal, QueuedRow, NoRow
  <2> HIDE DEF x
  <2>3. CASE disk' = [Fresh EXCEPT ![k] = x]
    <3>1. disk'[k] = x /\ \A j \in Keys \ {k} : disk'[j] = Fresh[j]
      BY <2>3 DEF Fresh
    <3>2. Ageing(k)
      BY <2>2, <3>1 DEF Ageing, HoldsSlot
    <3> QED
      BY <1>t, <3>1, <3>2, FreshAgeing DEF OneNew
  <2> QED
    BY <1>t, <2>1, <2>3, ReadAgeing
<1>2. ASSUME NEW r \in Runtimes, NEW k \in Keys, Reserve(r, k) PROVE Goal
  <2> DEFINE x == [Fresh[k] EXCEPT !.state = "pending", !.phase = "reserved",
                                   !.owner = r, !.live = TRUE, !.ticket = 0]
             rows == [Fresh EXCEPT ![k] = x]
  <2>1. rows = [Fresh EXCEPT ![k] = [@ EXCEPT !.state = "pending", !.phase = "reserved",
                                             !.owner = r, !.live = TRUE, !.ticket = 0]]
    OBVIOUS
  <2>2. x.state = "pending"
    BY <1>f DEF Row
  <2>3. \/ HasPriority(Fresh, k) /\ (Saved(r, rows) \/ Fumbled(r, rows))
        \/ Saved(r, Fresh) \/ NotRead(r)
    BY <1>2, <2>1 DEF Reserve
  <2> HIDE DEF x
  <2>4. CASE disk' = rows /\ HasPriority(Fresh, k)
    <3>1. disk'[k] = x /\ \A j \in Keys \ {k} : disk'[j] = Fresh[j]
      BY <2>4 DEF Fresh
    <3>2. EntersSlot(k)
      BY <2>2, <2>4, <3>1 DEF EntersSlot
    <3>3. OneNew
      BY <1>t, <3>1, FreshAgeing DEF OneNew
    <3> QED
      BY <3>2, <3>3
  <2> HIDE DEF rows
  <2>5. CASE Fumbled(r, rows) /\ disk' # rows
    BY <1>q, <2>5 DEF Fumbled, SavedLate, NotSaved
  <2> QED
    BY <1>t, <2>3, <2>4, <2>5, ReadAgeing DEF Saved
<1>3. ASSUME NEW r \in Runtimes, NEW k \in Keys, Promote(r, k) \/ Prepare(r, k) \/ Acquire(r, k)
                                                  \/ Run(r, k) PROVE Goal
  BY <1>3, <1>q DEF Promote, Prepare, Acquire, Run
<1>4. ASSUME NEW r \in Runtimes, NEW k \in Keys, CommitFence(r, k) PROVE Goal
  <2> DEFINE x    == [Fresh[k] EXCEPT !.phase = "permitted", !.epoch = task[r][k].epoch,
                                      !.account = task[r][k].account]
             rows == [Fresh EXCEPT ![k] = x]
  <2>1. rows = [Fresh EXCEPT ![k] = [@ EXCEPT !.phase = "permitted",
                  !.epoch = task[r][k].epoch, !.account = task[r][k].account]]
    OBVIOUS
  <2>2. x.state = Fresh[k].state
    BY <1>f DEF Row
  <2>3. \/ Mine(r, k, Fresh[k]) /\ (Saved(r, rows) \/ Fumbled(r, rows))
        \/ Saved(r, Fresh) \/ NotRead(r) \/ UNCHANGED disk
    BY <1>4, <2>1 DEF CommitFence
  <2>4. disk'[k] = x => Ageing(k)
    BY <1>t, <2>2, FreshAgeing
  <2> HIDE DEF x
  <2>5. CASE Saved(r, rows) \/ Fumbled(r, rows)
    BY <1>t, <2>4, <2>5, UpdateAgeing DEF Fails
  <2> HIDE DEF rows
  <2> QED
    BY <1>t, <2>3, <2>5, ReadAgeing
<1>5. ASSUME NEW r \in Runtimes, NEW k \in Keys, CommitReceipt(r, k) PROVE Goal
  <2> DEFINE x    == [Ended(Fresh[k], "accepted") EXCEPT !.account = Fresh[k].account]
             rows == [Fresh EXCEPT ![k] = x]
  <2>1. x.state = "accepted"
    BY EndedType, EndedState DEF Row, States
  <2>2. \/ Mine(r, k, Fresh[k]) /\ (Saved(r, rows) \/ Fumbled(r, rows))
        \/ Saved(r, Fresh) \/ NotRead(r) \/ UNCHANGED disk
    BY <1>5 DEF CommitReceipt
  <2>3. Mine(r, k, Fresh[k]) => disk[k].state = "pending"
    BY <1>f DEF Mine, Terminal
  <2> HIDE DEF x
  <2>4. CASE Mine(r, k, Fresh[k]) /\ (Saved(r, rows) \/ Fumbled(r, rows))
    <3>1. disk'[k] = x => Ageing(k)
      BY <2>1, <2>3, <2>4 DEF Ageing
    <3> QED
      BY <1>t, <2>4, <3>1, UpdateAgeing DEF Fails
  <2> HIDE DEF rows
  <2> QED
    BY <1>t, <2>2, <2>4, ReadAgeing
<1>6. ASSUME NEW r \in Runtimes, NEW k \in Keys, CommitFailure(r, k) PROVE Goal
  <2> DEFINE x    == FailureRow(r, k)
             rows == [Fresh EXCEPT ![k] = x]
  <2>1. x.state \in {"absent", "unknown"}
    BY EndedState DEF FailureRow, NoRow
  <2>2. \/ Mine(r, k, Fresh[k]) /\ (Saved(r, rows) \/ Fumbled(r, rows))
        \/ Saved(r, Fresh) \/ NotRead(r)
    BY <1>6 DEF CommitFailure
  <2>3. Mine(r, k, Fresh[k]) => disk[k].state = "pending"
    BY <1>f DEF Mine, Terminal
  <2> HIDE DEF x
  <2>4. CASE Mine(r, k, Fresh[k]) /\ (Saved(r, rows) \/ Fumbled(r, rows))
    <3>1. disk'[k] = x => Ageing(k)
      BY <2>1, <2>3, <2>4 DEF Ageing
    <3> QED
      BY <1>t, <2>4, <3>1, UpdateAgeing DEF Fails
  <2> HIDE DEF rows
  <2> QED
    BY <1>t, <2>2, <2>4, ReadAgeing
<1>7. ASSUME NEW r \in Runtimes, NEW k \in Keys, FailTask(r, k) PROVE Goal
  <2> DEFINE rows == [Fresh EXCEPT ![k] = Ended(Fresh[k], "failed")]
  <2>1. rows = [Fresh EXCEPT ![k] = Ended(@, "failed")]
    OBVIOUS
  <2>2. \/ UNCHANGED disk \/ Saved(r, Fresh) \/ NotRead(r) \/ Invalid(r, rows)
        \/ /\ Fresh[k].state \in {"queued", "accepted"}
           /\ Saved(r, rows) \/ Fumbled(r, rows)
    BY <2>1, <1>7 DEF FailTask
  <2>3. CASE /\ Fresh[k].state \in {"queued", "accepted"}
             /\ Saved(r, rows) \/ Fumbled(r, rows)
    <3>1. At(r, k, {"failing"}) /\ "failed" \in Terminal \ {"unknown"}
      BY <1>7 DEF FailTask, Terminal
    <3>2. Saved(r, rows) \/ Fails(r, rows)
      BY <2>3 DEF Fails
    <3> QED
      BY <2>3, <3>1, <3>2, <1>e
  <2>4. Invalid(r, rows) => disk' = Fresh
    BY DEF Invalid
  <2> QED
    BY <1>t, <2>2, <2>3, <2>4, ReadAgeing
<1>8. ASSUME NEW r \in Runtimes, NEW k \in Keys, CancelTask(r, k) PROVE Goal
  <2> DEFINE rows == [Fresh EXCEPT ![k] = Ended(Fresh[k], "cancelled")]
  <2>1. Fresh[k].state = "queued" /\ (Saved(r, rows) \/ Fails(r, rows))
    BY <1>8 DEF CancelTask
  <2>2. "cancelled" \in Terminal \ {"unknown"}
    BY DEF Terminal
  <2> QED
    BY <2>1, <2>2, <1>e
<1>9. ASSUME NEW r \in Runtimes, NEW k \in Keys, DeleteTask(r, k) PROVE Goal
  <2> DEFINE rows == [Fresh EXCEPT ![k] = Ended(Fresh[k], "deleted")]
  <2>1. \/ Fresh[k].state = "queued" /\ (Saved(r, rows) \/ Fails(r, rows))
        \/ Invalid(r, rows)
    BY <1>9 DEF DeleteTask
  <2>2. "deleted" \in Terminal \ {"unknown"}
    BY DEF Terminal
  <2>3. Invalid(r, rows) => disk' = Fresh
    BY DEF Invalid
  <2>4. CASE Fresh[k].state = "queued" /\ (Saved(r, rows) \/ Fails(r, rows))
    BY <2>2, <2>4, <1>e
  <2> QED
    BY <1>t, <2>1, <2>3, <2>4, ReadAgeing
<1>10. ASSUME NEW r \in Runtimes, NEW k \in Keys, Reconcile(r, k) PROVE Goal
  <2>1. disk[k].state = "accepted" /\ ~jobs[k].running
    BY <1>10 DEF Reconcile
  <2>2. PICK s \in {"succeeded", "failed", "cancelled"} :
               disk' = [disk EXCEPT ![k] = Ended(disk[k], s)]
    BY <1>10 DEF Reconcile
  <2>3. disk'[k].state = s /\ \A j \in Keys \ {k} : disk'[j] = disk[j]
    BY <2>2, <1>t, EndedState DEF Rows
  <2>4. s \in Terminal \ {"unknown"}
    BY DEF Terminal
  <2>5. Ageing(k)
    BY <2>1, <2>3, <2>4 DEF Ageing
  <2>6. \A j \in Keys \ {k} : Ageing(j)
    BY <2>3, <1>t, FreshAgeing
  <2> QED
    BY <2>1, <2>3, <2>5, <2>6 DEF OneNew
<1>11. ASSUME NEW r \in Runtimes, Load(r) PROVE Goal
  BY <1>11, <1>t, ReadAgeing DEF Load
<1>o. ASSUME NEW r \in Runtimes, NEW j \in Keys, NEW rows \in Rows
      PROVE  Disowned(rows, r)[j].state = rows[j].state
  BY DEF Disowned, Rows, Row
<1>a. ASSUME \A j \in Keys : disk'[j].state \in {disk[j].state, Fresh[j].state} PROVE Goal
  BY <1>a, <1>t, FreshAgeing DEF OneNew
<1>12. ASSUME NEW r \in Runtimes, Crash(r) PROVE Goal
  <2>1. \A j \in Keys : disk'[j].state = disk[j].state
    BY <1>12, <1>o, <1>t DEF Crash
  <2> QED
    BY <2>1, <1>a
<1>13. ASSUME NEW r \in Runtimes, Dispose(r) PROVE Goal
  <2>1. ASSUME NEW j \in Keys
        PROVE  Ageing(j) /\ (disk[j].state = "absent" => disk'[j].state = "absent")
    <3>1. CASE Fresh[j].state = "queued" /\ Fresh[j].owner = r
      <4>1. disk'[j] = Ended(Fresh[j], "failed")
        BY <3>1, <1>13 DEF Dispose
      <4>2. disk[j].state = "queued" /\ disk'[j].state = "failed"
        BY <4>1, <3>1, <1>f, EndedState DEF Terminal
      <4> QED
        BY <4>2 DEF Ageing, HoldsSlot
    <3>2. CASE ~(Fresh[j].state = "queued" /\ Fresh[j].owner = r)
      <4>1. disk'[j] = Disowned(Fresh, r)[j]
        BY <3>2, <1>13 DEF Dispose
      <4>2. Fresh \in Rows
        BY <1>t, FreshType
      <4>3. disk'[j].state = Fresh[j].state
        BY <4>1, <4>2, <1>o
      <4> QED
        BY <4>3, <1>t, FreshAgeing
    <3> QED
      BY <3>1, <3>2
  <2> QED
    BY <2>1 DEF OneNew
<1>14. ASSUME NEW k \in Keys, Expire(k) \/ Pause(k) PROVE Goal
  <2>1. \A j \in Keys : disk'[j].state = disk[j].state
    BY <1>14, <1>t DEF Expire, Pause, Ends, Rows, Row
  <2> QED
    BY <2>1, <1>a
<1>15. ASSUME \/ \E k \in Keys : Finish(k)
              \/ ExpireInvocation \/ PauseInvocation \/ RefreshInvocation \/ ChangeAccount
       PROVE  Goal
  BY <1>15, <1>q DEF Finish, ExpireInvocation, PauseInvocation, RefreshInvocation,
     InvocationEnds, ChangeAccount
<1> QED
  BY <1>1, <1>2, <1>3, <1>4, <1>5, <1>6, <1>7, <1>8, <1>9, <1>10, <1>11, <1>12, <1>13, <1>14,
     <1>15 DEF Next, Submit

\* What runs was submitted, and it is on record; a permit is for a pending
\* record, or for one that was recovered as unknown.
Occupies(k) ==
  /\ jobs[k].running => jobs[k].count # 0 /\ disk[k].state \in HoldsSlot \cup {"failed"}
  /\ \A r \in Runtimes :
       task[r][k].pc = "permitted" => disk[k].state \in {"pending", "unknown"}

LEMMA JobsAgeing ==
  ASSUME TypeInv, Next, NEW j \in Keys, jobs'[j].running
  PROVE  \/ jobs'[j] = jobs[j]
         \/ /\ disk' = disk /\ jobs'[j].count = jobs[j].count + 1
            /\ \E r \in Runtimes : task[r][j].pc = "permitted"
<1>t. jobs \in [Keys -> Job]
  BY TypeParts
<1>1. ASSUME NEW r \in Runtimes, NEW k \in Keys, Run(r, k)
      PROVE  \/ jobs'[j] = jobs[j]
             \/ /\ disk' = disk /\ jobs'[j].count = jobs[j].count + 1
                /\ task[r][j].pc = "permitted"
  <2>1. /\ disk' = disk /\ task[r][k].pc = "permitted"
        /\ \/ jobs' = [jobs EXCEPT ![k] = [count |-> @.count + 1, account |-> session,
                                           running |-> TRUE]]
           \/ UNCHANGED jobs
    BY <1>1 DEF Run, At
  <2>2. CASE j = k
    BY <2>1, <2>2, <1>t
  <2>3. CASE j # k
    BY <2>1, <2>3, <1>t
  <2> QED
    BY <2>2, <2>3
<1>2. ASSUME NEW k \in Keys, Finish(k) PROVE jobs'[j] = jobs[j]
  <2>1. jobs' = [jobs EXCEPT ![k].running = FALSE] /\ jobs[k] \in Job
    BY <1>2, <1>t DEF Finish
  <2>2. j # k
    BY <2>1, <1>t DEF Job
  <2> QED
    BY <2>1, <2>2, <1>t
<1>3. \/ jobs' = jobs \/ (\E r \in Runtimes, k \in Keys : Run(r, k))
      \/ \E k \in Keys : Finish(k)
  <2>1. ASSUME NEW r \in Runtimes, NEW k \in Keys,
               \/ Enqueue(r, k) \/ Promote(r, k) \/ Reserve(r, k) \/ Prepare(r, k)
               \/ Acquire(r, k) \/ CommitFence(r, k) \/ CommitReceipt(r, k)
               \/ CommitFailure(r, k) \/ FailTask(r, k)
               \/ CancelTask(r, k) \/ DeleteTask(r, k) \/ Reconcile(r, k)
        PROVE  jobs' = jobs
    BY <2>1 DEF Enqueue, Promote, Reserve, Prepare, Acquire, CommitFence, CommitReceipt,
       CommitFailure, FailTask, CancelTask, DeleteTask, Reconcile
  <2>2. ASSUME \/ \E r \in Runtimes : Load(r) \/ Crash(r) \/ Dispose(r)
               \/ \E k \in Keys : Expire(k) \/ Pause(k)
               \/ ExpireInvocation \/ PauseInvocation \/ RefreshInvocation \/ ChangeAccount
        PROVE  jobs' = jobs
    BY <2>2 DEF Load, Crash, Dispose, Expire, Pause, Ends, ExpireInvocation, PauseInvocation,
       RefreshInvocation, InvocationEnds, ChangeAccount
  <2> QED
    BY <2>1, <2>2 DEF Next, Submit
<1> QED
  BY <1>1, <1>2, <1>3

\* A permit is given for a pending record only.
LEMMA PermitAgeing ==
  ASSUME Shape, NEW r \in Runtimes, NEW k \in Keys, task'[r][k].pc = "permitted"
  PROVE  task[r][k].pc = "permitted" \/ disk'[k].state = "pending"
<1>1. CASE Rests
  BY <1>1 DEF Rests, Calms, Quiet
<1>2. ASSUME NEW s \in Runtimes, NEW j \in Keys, Only(s, j), KeyStep(s, j)
      PROVE  task[r][k].pc = "permitted" \/ disk'[k].state = "pending"
  <2>1. CASE s # r \/ j # k
    BY <1>2, <2>1 DEF Only
  <2>2. CASE s = r /\ j = k
    BY <1>2, <2>2 DEF KeyStep, Queues, Reserves, Prepares, Acquires, GivesUp, Fences, Runs,
       Accepts, Removes, Calms, Quiet
  <2> QED
    BY <2>1, <2>2
<1> QED
  BY <1>1, <1>2 DEF Shape

\* What a step does to a record whose generation runs, or may yet be started.
LEMMA HeldAgeing ==
  ASSUME TypeInv, KeyInv, KeyInv', Next, NEW k \in Keys, Ageing(k), jobs[k].count # 0,
         disk[k].state \in HoldsSlot, jobs'[k].count = jobs[k].count
  PROVE  \/ disk'[k].state \in HoldsSlot
         \/ /\ disk[k].state = "accepted"
            /\ \/ ~jobs[k].running
               \/ disk'[k].state = "failed" /\ \E r \in Runtimes : At(r, k, {"failing"})
<1>1. Spent(k) /\ Spent(k)'
  BY DEF KeyInv, KeyOK
<1>2. Shape
  BY StepShape
<1>3. disk[k].state \in Terminal => disk'[k].state = disk[k].state
  BY <1>2, ShapeEnds
<1>4. disk'[k].state # "absent"
  BY <1>1 DEF Spent, Terminal
<1>5. disk[k].state = "pending" => disk[k].phase # "reserved"
  BY <1>1 DEF Spent, Terminal
<1> QED
  BY <1>3, <1>4, <1>5 DEF Ageing, HoldsSlot, Terminal

LEMMA OccupiesStep ==
  ASSUME TypeInv, TypeInv', KeyInv, KeyInv', \A k \in Keys : Occupies(k), [Next]_vars,
         NEW k \in Keys
  PROVE  Occupies(k)'
<1>i. Occupies(k) /\ KeyOK(k) /\ KeyOK(k)' /\ Numbers(k)
  BY TypeNumbers DEF KeyInv
<1>u. CASE UNCHANGED vars
  BY <1>u, <1>i DEF vars, Occupies
<1> SUFFICES ASSUME Next PROVE Occupies(k)'
  BY <1>u
<1>s. Shape
  BY StepShape
<1>e. disk[k].state \in Terminal => disk'[k].state = disk[k].state
  BY <1>s, ShapeEnds
<1>a. Ageing(k) \/ disk[k].state \in {"absent", "queued"} \/ disk'[k].state = Fresh[k].state
  BY StepAgeing, FreshReads, TypeParts DEF EntersSlot, HasPriority, Waiting, Terminal
<1>b. Ageing(k) \/ disk[k].state \in {"absent", "queued"}
  BY <1>a, FreshAgeing, TypeParts
<1>1. ASSUME jobs'[k].running
      PROVE  jobs'[k].count # 0 /\ disk'[k].state \in HoldsSlot \cup {"failed"}
  <2>1. CASE jobs'[k] = jobs[k]
    <3>1. /\ jobs[k].count # 0 /\ jobs[k].running /\ jobs'[k].count = jobs[k].count
          /\ disk[k].state \in HoldsSlot \cup {"failed"}
      BY <2>1, <1>1, <1>i DEF Occupies
    <3>2. CASE disk[k].state = "failed"
      BY <3>1, <3>2, <1>e DEF Terminal
    <3>3. CASE disk[k].state \in HoldsSlot
      <4>1. Ageing(k)
        BY <1>b, <3>3 DEF HoldsSlot
      <4> QED
        BY <4>1, <3>1, <3>3, HeldAgeing
    <3> QED
      BY <3>1, <3>2, <3>3
  <2>2. CASE /\ disk' = disk /\ jobs'[k].count = jobs[k].count + 1
             /\ \E r \in Runtimes : task[r][k].pc = "permitted"
    <3>1. disk'[k].state = disk[k].state /\ jobs[k].count \in Nat
      BY <2>2, <1>i DEF Numbers
    <3> QED
      BY <3>1, <2>2, <1>i DEF Occupies, HoldsSlot
  <2> QED
    BY <2>1, <2>2, <1>1, JobsAgeing
<1>2. ASSUME NEW r \in Runtimes, task'[r][k].pc = "permitted"
      PROVE  disk'[k].state \in {"pending", "unknown"}
  <2>1. CASE task[r][k].pc = "permitted"
    <3>1. /\ disk[k].state \in {"pending", "unknown"} /\ Bound(r, k) /\ Bound(r, k)'
          /\ jobs'[k].count = 0
      BY <2>1, <1>2, <1>i DEF Occupies, KeyOK, TaskInv, Permitted
    <3>2. CASE disk[k].state = "unknown"
      BY <3>2, <1>e DEF Terminal
    <3>3. CASE disk[k].state = "pending"
      <4>1. disk[k].phase = "permitted" /\ disk'[k].state \in Terminal \cup {"pending"}
        BY <3>1, <3>3 DEF Bound, Terminal
      <4> QED
        BY <1>b, <3>3, <4>1 DEF Ageing, Terminal
    <3> QED
      BY <3>1, <3>2, <3>3
  <2> QED
    BY <2>1, <1>2, <1>s, PermitAgeing
<1> QED
  BY <1>1, <1>2 DEF Occupies

\* The records are finitely many, so are those that hold a slot.
Recorded == {k \in Keys : disk[k].state # "absent"}
SlotInv  == IsFiniteSet(Recorded) /\ SlotsTaken(disk) <= MaxActive

LEMMA OneMore ==
  ASSUME NEW S, NEW x, IsFiniteSet(S)
  PROVE  IsFiniteSet(S \cup {x}) /\ Cardinality(S \cup {x}) <= Cardinality(S) + 1
<1>1. PICK n \in Nat : n = Cardinality(S)
  BY FS_CardinalityType
<1>2. CASE x \in S
  <2>1. S \cup {x} = S
    BY <1>2
  <2>2. Cardinality(S \cup {x}) = n
    BY <1>1, <2>1
  <2>3. n <= Cardinality(S) + 1
    BY <1>1
  <2> QED
    BY <2>1, <2>2, <2>3
<1>3. CASE x \notin S
  <2>1. IsFiniteSet(S \cup {x}) /\ Cardinality(S \cup {x}) = Cardinality(S) + 1
    BY <1>3, FS_AddElement
  <2> QED
    BY <1>1, <2>1
<1> QED
  BY <1>2, <1>3

LEMMA SlotStep ==
  ASSUME TypeInv, SlotInv, [Next]_vars
  PROVE  SlotInv'
<1> DEFINE Holders == {k \in Keys : disk[k].state \in HoldsSlot}
<1>i. IsFiniteSet(Recorded) /\ Cardinality(Holders) <= MaxActive /\ MaxActive \in Nat
  BY SubmissionConstants DEF SlotInv, SlotsTaken
<1>h. Holders \subseteq Recorded /\ IsFiniteSet(Holders) /\ Cardinality(Holders) \in Nat
  <2>1. Holders \subseteq Recorded
    BY DEF Recorded, HoldsSlot
  <2> QED
    BY <2>1, <1>i, FS_Subset, FS_CardinalityType
<1>p. ASSUME IsFiniteSet(Recorded)', Cardinality(Holders)' <= MaxActive PROVE SlotInv'
  BY <1>p DEF SlotInv, SlotsTaken
<1>u. CASE UNCHANGED vars
  BY <1>u, <1>i, <1>p DEF vars, Recorded
<1>e. CASE Keys = {}
  <2>1. Recorded' = {} /\ Holders' = {}
    BY <1>e DEF Recorded
  <2> QED
    <3> HIDE DEF Holders
    <3>1. IsFiniteSet(Recorded)'
      BY <2>1, FS_EmptySet
    <3>2. Cardinality(Holders') <= MaxActive
      BY <2>1, <1>i, FS_EmptySet
    <3> QED
      BY <3>1, <3>2, <1>p
<1> SUFFICES ASSUME Next, NEW key \in Keys PROVE SlotInv'
  BY <1>u, <1>e
<1>1. OneNew /\ ((\A j \in Keys : Ageing(j)) \/ \E k \in Keys : EntersSlot(k))
  BY StepAgeing
<1>2. IsFiniteSet(Recorded)'
  <2>1. PICK k \in Keys : \A j \in Keys \ {k} : disk[j].state = "absent" =>
                                                 disk'[j].state = "absent"
    BY <1>1 DEF OneNew
  <2>2. Recorded' \subseteq Recorded \cup {k}
    BY <2>1 DEF Recorded
  <2>3. IsFiniteSet(Recorded \cup {k})
    BY <1>i, FS_AddElement
  <2> QED
    BY <2>2, <2>3, FS_Subset
<1>3. CASE \A j \in Keys : Ageing(j)
  <2>1. Holders' \subseteq Holders
    BY <1>3 DEF Ageing, HoldsSlot
  <2>2. Cardinality(Holders') <= Cardinality(Holders) /\ Cardinality(Holders') \in Nat
    <3> HIDE DEF Holders
    <3> QED
      BY <2>1, <1>h, FS_Subset, FS_CardinalityType
  <2> HIDE DEF Holders
  <2> QED
    BY <2>2, <1>2, <1>h, <1>i, <1>p
<1>4. CASE \E k \in Keys : EntersSlot(k)
  <2>1. PICK k \in Keys : EntersSlot(k)
    BY <1>4
  <2> DEFINE Fresher == {j \in Keys : Fresh[j].state \in HoldsSlot}
             Before  == Ahead(Fresh, k)
  <2>2. ASSUME NEW j \in Keys
        PROVE  /\ Fresh[j].state \in HoldsSlot => disk[j].state \in HoldsSlot
               /\ Fresh[j].state = "absent" <=> disk[j].state = "absent"
    <3>1. disk \in Rows
      BY TypeParts
    <3>2. Fresh[j] = Recovered(disk[j]) /\ disk[j] \in Row
      BY <3>1 DEF Fresh, Rows
    <3>3. \A s : Ended(disk[j], s).state = s
      BY EndedState
    <3> QED
      BY <3>2, <3>3 DEF Recovered, HoldsSlot
  <2>3. Fresher \subseteq Holders /\ Before \subseteq Recorded
    BY <2>2 DEF Ahead, Waiting, Recorded
  <2>4. Cardinality(Before) + Cardinality(Fresher) < MaxActive
    BY <2>1 DEF EntersSlot, HasPriority, SlotsTaken
  <2>5. Holders' \subseteq Fresher \cup {k}
    BY <2>1 DEF EntersSlot
  <2> HIDE DEF Before, Fresher, Holders
  <2>6. /\ IsFiniteSet(Before) /\ Cardinality(Before) \in Nat
        /\ IsFiniteSet(Fresher) /\ Cardinality(Fresher) \in Nat
    BY <2>3, <1>h, <1>i, FS_Subset, FS_CardinalityType
  <2>7. /\ IsFiniteSet(Fresher \cup {k})
        /\ Cardinality(Fresher \cup {k}) <= Cardinality(Fresher) + 1
    BY <2>6, OneMore
  <2>8. Cardinality(Holders') <= Cardinality(Fresher \cup {k})
        /\ Cardinality(Holders') \in Nat /\ Cardinality(Fresher \cup {k}) \in Nat
    BY <2>5, <2>7, FS_Subset, FS_CardinalityType
  <2>9. Cardinality(Holders') <= MaxActive
    BY <2>4, <2>6, <2>7, <2>8, <1>i
  <2> QED
    BY <2>9, <1>2, <1>p
<1> QED
  BY <1>1, <1>3, <1>4

LEMMA SlotInit == Init => SlotInv /\ \A k \in Keys : Occupies(k)
<1> SUFFICES ASSUME Init PROVE SlotInv /\ \A k \in Keys : Occupies(k)
  OBVIOUS
<1>1. \A k \in Keys : disk[k].state = "absent"
  BY DEF Init, NoRow
<1>2. Recorded = {} /\ {k \in Keys : disk[k].state \in HoldsSlot} = {}
  BY <1>1 DEF Recorded, HoldsSlot
<1>3. SlotInv
  BY <1>2, FS_EmptySet, SubmissionConstants DEF SlotInv, SlotsTaken
<1>4. \A k \in Keys : Occupies(k)
  BY DEF Init, Occupies, NoJob, NoTask
<1> QED
  BY <1>3, <1>4

LEMMA SlotsHeld ==
  SubmissionSpec => [](TypeInv /\ KeyInv /\ SlotInv /\ \A k \in Keys : Occupies(k))
<1> DEFINE Inv == TypeInv /\ KeyInv /\ SlotInv /\ \A k \in Keys : Occupies(k)
<1>1. Init => Inv
  BY InitTypeInv, InitKeyInv, SlotInit
<1>2. Inv /\ [Next]_vars => Inv'
  BY StepTypeInv, StepKeyInv, SlotStep, OccupiesStep
<1> QED
  BY <1>1, <1>2, PTL DEF SubmissionSpec

(* The slots of the provider are never overdrawn, and what runs there is on *)
(* record as taking a slot or was marked failed: for any number of runtimes *)
(* that reserve from what each reads (reserveSubmissionSlot).               *)
THEOREM SlotsAreEnough == SubmissionSpec => []SlotsSuffice
<1>1. SlotInv /\ (\A k \in Keys : Occupies(k)) => SlotsSuffice
  BY DEF SlotInv, Occupies, SlotsSuffice
<1> QED
  BY <1>1, SlotsHeld, PTL

(* A slot is freed under a running generation by failTask only: by no       *)
(* recovery, cancellation, removal or reconciliation of any runtime.        *)
THEOREM SlotsAreKept == SubmissionSpec => SlotIsKept
<1> DEFINE Inv  == TypeInv /\ KeyInv /\ SlotInv /\ \A k \in Keys : Occupies(k)
           Kept == \A k \in Keys :
              jobs[k].running /\ disk[k].state \in HoldsSlot /\ disk'[k].state \notin HoldsSlot
                => disk[k].state = "accepted" /\ \E r \in Runtimes : At(r, k, {"failing"})
<1>1. Inv /\ Inv' /\ [Next]_vars => [Kept]_vars
  <2> SUFFICES ASSUME Inv, Inv', Next, NEW k \in Keys, jobs[k].running,
                      disk[k].state \in HoldsSlot, disk'[k].state \notin HoldsSlot
               PROVE  disk[k].state = "accepted" /\ \E r \in Runtimes : At(r, k, {"failing"})
    OBVIOUS
  <2>1. Ageing(k)
    <3>1. CASE \A j \in Keys : Ageing(j)
      BY <3>1
    <3>2. CASE \E j \in Keys : EntersSlot(j)
      <4>1. PICK j \in Keys : EntersSlot(j)
        BY <3>2
      <4>2. disk'[k].state = Fresh[k].state
        BY <4>1 DEF EntersSlot, HoldsSlot
      <4> QED
        BY <4>2, FreshAgeing, TypeParts
    <3> QED
      BY <3>1, <3>2, StepAgeing
  <2>2. jobs[k].count # 0 /\ Spent(k) /\ Spent(k)'
    BY TypeNumbers DEF Occupies, KeyInv, KeyOK
  <2>3. jobs'[k].count = jobs[k].count
    <3>1. SameJob(k) \/ jobs'[k].count = jobs[k].count + 1
      BY StepShape DEF Shape, Rests, Only, KeyStep, Queues, Reserves, Prepares, Acquires,
         GivesUp, Fences, Runs, Accepts, Removes
    <3> QED
      BY <3>1, <2>2 DEF SameJob, Spent
  <2> QED
    BY <2>1, <2>2, <2>3, HeldAgeing
<1>2. SubmissionSpec => [][Kept]_vars
  <2> HIDE DEF Kept
  <2>1. SubmissionSpec => []Inv
    BY SlotsHeld
  <2> HIDE DEF Inv
  <2> QED
    BY <1>1, <2>1, PTL DEF SubmissionSpec
<1> QED
  BY <1>2 DEF SlotIsKept
=============================================================================
