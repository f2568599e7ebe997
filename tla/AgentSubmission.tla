-------------------------- MODULE AgentSubmission ---------------------------
(***************************************************************************)
(* canvas-agent/src/dreamina-cli-runtime.ts and dreamina-cli-arbiter.ts:   *)
(* how local runtimes that share one journal submit paid generations       *)
(* through one command line client, each at most once.                     *)
(*                                                                         *)
(* A locked read-modify-write of the journal is one step (JournalFile says *)
(* why); a write may still fail, with or without having taken effect.      *)
(* Each runtime keeps the records it last saw and refuses to reload a      *)
(* journal that seems to have gone back.  Time is a flag on each lease.    *)
(***************************************************************************)
EXTENDS Naturals, FiniteSets

CONSTANTS
  Runtimes,    \* processes that share the journal and the client
  Keys,        \* operations (idempotency keys)
  Nobody,      \* an owner that is gone, or none
  NoKey,
  MaxActive,   \* maxActiveTasks: official slots
  MaxTickets,  \* bound: records queued
  MaxTroubles  \* bound: failed lock waits and writes, leases of live owners that
               \* expire, crashes and changes of the account, all together

ASSUME SubmissionConstants ==
  /\ MaxActive \in Nat \ {0}
  /\ {MaxTickets, MaxTroubles} \subseteq Nat
  /\ Nobody \notin Runtimes /\ NoKey \notin Keys

VARIABLES
  disk,        \* the journal: the record of each key
  nextTicket,  \* its nextQueueTicket
  mem,         \* the state of each record as a runtime last knew it
  task,        \* the submission a runtime works on, per key
  serial,      \* the key whose first start holds up the runtime's enqueues
  cli,         \* the arbiter's active invocation
  nextEpoch,   \* its next fence epoch
  session,     \* its session epoch: the account that is logged in
  jobs,        \* what the provider has for each key
  troubles     \* counter of the bound

vars == <<disk, nextTicket, mem, task, serial, cli, nextEpoch, session, jobs, troubles>>

States == {"absent", "queued", "pending", "accepted", "succeeded", "failed",
           "cancelled", "unknown", "deleted"}
Terminal == {"succeeded", "failed", "cancelled", "unknown", "deleted"}
HoldsSlot == {"pending", "unknown", "accepted"}

\* What a runtime remembers of a record, and stateRank of it.
Stages == {"absent", "queued", "pending", "accepted", "ended"}
Stage(s) == IF s \in Terminal THEN "ended" ELSE s
Rank == [s \in Stages |-> CASE s \in {"absent", "queued"} -> 0
                            [] s = "pending" -> 1
                            [] s = "accepted" -> 2
                            [] s = "ended" -> 3]

Epochs  == Nat
Account == 0..MaxTroubles

Row == [state : States, phase : {"none", "reserved", "permitted"},
        owner : Runtimes \cup {Nobody}, live : BOOLEAN, ticket : 0..MaxTickets,
        epoch : Epochs, account : Account]

NoRow == [state |-> "absent", phase |-> "none", owner |-> Nobody, live |-> FALSE,
          ticket |-> 0, epoch |-> 0, account |-> 0]

Steps == {"none", "starting", "queued", "promoting", "reserved", "ready", "granted",
          "permitted", "receipt", "unspawned", "lost", "failing"}

NoTask == [pc |-> "none", ticket |-> 0, epoch |-> 0, account |-> 0]
Free   == [holder |-> Nobody, key |-> NoKey, epoch |-> 0, live |-> FALSE]
NoJob  == [count |-> 0, account |-> 0, running |-> FALSE]

(* Journal, runtimes, arbiter and provider have their types.                *)
SubmissionTypeOK ==
  /\ disk \in [Keys -> Row]
  /\ nextTicket \in 1..(MaxTickets + 1)
  /\ mem \in [Runtimes -> [Keys -> Stages]]
  /\ task \in [Runtimes -> [Keys -> [pc : Steps, ticket : 0..MaxTickets,
                                     epoch : Epochs, account : Account]]]
  /\ serial \in [Runtimes -> Keys \cup {NoKey}]
  /\ cli \in [holder : Runtimes \cup {Nobody}, key : Keys \cup {NoKey},
              epoch : Epochs, live : BOOLEAN]
  /\ nextEpoch \in Epochs \ {0} /\ session \in Account
  /\ jobs \in [Keys -> [count : Nat, account : Account, running : BOOLEAN]]
  /\ troubles \in 0..MaxTroubles

Init ==
  /\ disk = [k \in Keys |-> NoRow] /\ nextTicket = 1
  /\ mem  = [r \in Runtimes |-> [k \in Keys |-> "absent"]]
  /\ task = [r \in Runtimes |-> [k \in Keys |-> NoTask]]
  /\ serial = [r \in Runtimes |-> NoKey]
  /\ cli = Free /\ nextEpoch = 1 /\ session = 0
  /\ jobs = [k \in Keys |-> NoJob]
  /\ troubles = 0

(***************************************************************************)
(* reloadFromDisk: leases that expired are ended, then the journal must    *)
(* not be behind what this runtime knows, record by record.                *)
(***************************************************************************)
\* An ended record keeps its fence, but nobody compares it again.
Ended(row, s) == [NoRow EXCEPT !.state = s]

RecoveredVariant(row) ==   \* a submission that may have left is failed as well
  IF row.state \in {"pending", "queued"} /\ ~row.live THEN Ended(row, "failed") ELSE row

Recovered(row) ==
  CASE row.state = "pending" /\ ~row.live ->
         Ended(row, IF row.phase = "reserved" THEN "failed" ELSE "unknown")
    [] row.state = "queued" /\ ~row.live -> Ended(row, "failed")
    [] OTHER -> row

Fresh == [k \in Keys |-> Recovered(disk[k])]

Behind(r, k) == /\ mem[r][k] # "absent"
                /\ \/ Fresh[k].state = "absent"
                   \/ Rank[Stage(Fresh[k].state)] < Rank[mem[r][k]]

Loads(r) == \A k \in Keys : ~Behind(r, k)

Known(rows) == [k \in Keys |-> Stage(rows[k].state)]

Trouble == troubles < MaxTroubles /\ troubles' = troubles + 1

\* The outcomes of a locked update: saved; saved but reported as failed; not
\* saved though the memory of the runtime has changed; not even read.
Saved(r, rows) ==
  /\ Loads(r) /\ UNCHANGED troubles
  /\ disk' = rows /\ mem' = [mem EXCEPT ![r] = Known(rows)]

SavedLate(r, rows) ==
  /\ Loads(r) /\ Trouble
  /\ disk' = rows /\ mem' = [mem EXCEPT ![r] = Known(rows)]

NotSaved(r, rows) ==
  /\ Loads(r) /\ Trouble
  /\ UNCHANGED disk /\ mem' = [mem EXCEPT ![r] = Known(rows)]

NotRead(r) ==
  /\ \/ ~Loads(r) /\ UNCHANGED troubles
     \/ Trouble
  /\ UNCHANGED <<disk, mem>>

Fumbled(r, rows) == SavedLate(r, rows) \/ NotSaved(r, rows)
Fails(r, rows)   == Fumbled(r, rows) \/ NotRead(r)

\* validRuntimeDiskState refuses a reservation on a record that has ended: the
\* write fails every time, after the change of the memory.
Invalid(r, rows) ==
  /\ Loads(r) /\ UNCHANGED troubles
  /\ disk' = Fresh /\ mem' = [mem EXCEPT ![r] = Known(rows)]

At(r, k, steps) == task[r][k].pc \in steps
Goto(r, k, step) ==
  task' = [task EXCEPT ![r][k] = IF step = "none" THEN NoTask
                                 ELSE [task[r][k] EXCEPT !.pc = step]]
\* enqueueSerial goes on once the first start of k has returned.
Serve(r, k, step) ==
  serial' = IF serial[r] = k /\ step \in {"none", "queued"}
            THEN [serial EXCEPT ![r] = NoKey] ELSE serial

Step(r, k, step) == Goto(r, k, step) /\ Serve(r, k, step)

Released(r, k) == IF cli.holder = r /\ cli.epoch = task[r][k].epoch THEN Free ELSE cli
\* A release that fails leaves the lease to expire.
LetGo(r, k) == cli' = Released(r, k) \/ (troubles' # troubles /\ UNCHANGED cli)

arbiter == <<cli, nextEpoch, session>>

(***************************************************************************)
(* enqueueNew, startTaskNow and reserveSubmissionSlot.                     *)
(***************************************************************************)
QueuedRowVariant(r) ==   \* the ticket after the one that is counted
  [NoRow EXCEPT !.state = "queued", !.owner = r, !.live = TRUE, !.ticket = nextTicket + 1]

QueuedRow(r) ==
  [NoRow EXCEPT !.state = "queued", !.owner = r, !.live = TRUE, !.ticket = nextTicket]

Enqueue(r, k) ==
  /\ serial[r] = NoKey /\ At(r, k, {"none"})
  /\ Fresh[k].state = "absent" /\ nextTicket <= MaxTickets
  /\ LET rows == [Fresh EXCEPT ![k] = QueuedRow(r)] IN
     \/ /\ Saved(r, rows)
        /\ nextTicket' = nextTicket + 1
        /\ task' = [task EXCEPT ![r][k] = [NoTask EXCEPT !.pc = "starting",
                                                        !.ticket = nextTicket]]
        /\ serial' = [serial EXCEPT ![r] = k]
     \/ /\ Loads(r) /\ Trouble   \* rolled back in memory
        /\ mem' = [mem EXCEPT ![r] = Known(Fresh)]
        /\ \/ disk' = rows /\ nextTicket' = nextTicket + 1
           \/ UNCHANGED <<disk, nextTicket>>
        /\ UNCHANGED <<task, serial>>
  /\ UNCHANGED <<arbiter, jobs>>

SlotsTaken(rows) == Cardinality({k \in Keys : rows[k].state \in HoldsSlot})

Waiting(rows) == {k \in Keys : rows[k].state = "queued" /\ rows[k].live}

\* Those before k in the queue, by ticket.
Ahead(rows, k) == {j \in Waiting(rows) : rows[j].ticket < rows[k].ticket}

HasPriorityVariant(rows, k) ==   \* one too many
  k \in Waiting(rows) /\ Cardinality(Ahead(rows, k)) + SlotsTaken(rows) <= MaxActive

\* hasQueuedGenerationPriority: k is among as many of the first as slots are free.
HasPriority(rows, k) ==
  k \in Waiting(rows) /\ Cardinality(Ahead(rows, k)) + SlotsTaken(rows) < MaxActive

Reserve(r, k) ==
  /\ At(r, k, {"starting", "promoting"})
  /\ LET rows == [Fresh EXCEPT ![k] = [@ EXCEPT !.state = "pending", !.phase = "reserved",
                                         !.owner = r, !.live = TRUE, !.ticket = 0]] IN
     \/ /\ HasPriority(Fresh, k)
        /\ \/ /\ Saved(r, rows) /\ UNCHANGED serial
              /\ task' = [task EXCEPT ![r][k] = [NoTask EXCEPT !.pc = "reserved"]]
           \/ Fumbled(r, rows) /\ Step(r, k, "none")
     \/ /\ Fresh[k].state = "queued" /\ ~HasPriority(Fresh, k)
        /\ Saved(r, Fresh) /\ Step(r, k, "queued")
     \/ Fresh[k].state # "queued" /\ Saved(r, Fresh) /\ Step(r, k, "none")
     \/ /\ NotRead(r)
        /\ Step(r, k, IF At(r, k, {"promoting"}) /\ mem[r][k] = "queued"
                      THEN "queued" ELSE "none")
  /\ UNCHANGED <<nextTicket, arbiter, jobs>>

\* promoteQueueHead, by the heartbeat of the head or a slot this runtime freed.
Promote(r, k) ==
  /\ At(r, k, {"queued"})
  /\ \A j \in Keys \ {k} : ~(At(r, j, {"queued", "promoting"})
                             /\ task[r][j].ticket < task[r][k].ticket)
  /\ Goto(r, k, IF mem[r][k] = "queued" THEN "promoting" ELSE "none")
  /\ UNCHANGED <<disk, nextTicket, mem, serial, arbiter, jobs, troubles>>

(***************************************************************************)
(* submitPrepared: account, invocation lease, fence, process, receipt.     *)
(***************************************************************************)
Mine(r, k, row) == row.state = "pending" /\ row.owner = r

Prepare(r, k) ==
  /\ At(r, k, {"reserved"})
  /\ \/ task' = [task EXCEPT ![r][k] = [@ EXCEPT !.pc = "ready", !.account = session]]
     \/ Goto(r, k, "unspawned")   \* not logged in, not installed, aborted
  /\ UNCHANGED <<disk, nextTicket, mem, serial, arbiter, jobs, troubles>>

\* The arbiter's acquire; an account that changed leaves the reservation alone.
Acquire(r, k) ==
  /\ At(r, k, {"ready"})
  /\ \/ /\ ~cli.live /\ session = task[r][k].account
        /\ cli' = [holder |-> r, key |-> k, epoch |-> nextEpoch, live |-> TRUE]
        /\ task' = [task EXCEPT ![r][k] = [@ EXCEPT !.pc = "granted", !.epoch = nextEpoch]]
        /\ nextEpoch' = nextEpoch + 1 /\ UNCHANGED serial
     \/ /\ ~cli.live /\ session # task[r][k].account
        /\ Step(r, k, "none") /\ UNCHANGED <<cli, nextEpoch>>
     \/ /\ task' = [task EXCEPT ![r][k] = [NoTask EXCEPT !.pc = "unspawned"]]   \* waited too long
        /\ UNCHANGED <<serial, cli, nextEpoch>>
  /\ UNCHANGED <<disk, nextTicket, mem, session, jobs, troubles>>

CommitFence(r, k) ==
  /\ At(r, k, {"granted"})
  /\ LET row  == Fresh[k]
         ok   == Mine(r, k, row) /\ row.live /\ row.epoch <= task[r][k].epoch
         rows == [Fresh EXCEPT ![k] = [@ EXCEPT !.phase = "permitted",
                    !.epoch = task[r][k].epoch, !.account = task[r][k].account]] IN
     \/ ok /\ Saved(r, rows) /\ Step(r, k, "permitted") /\ UNCHANGED cli
     \/ ~ok /\ Saved(r, Fresh) /\ Step(r, k, "none") /\ cli' = Released(r, k)
     \/ /\ \/ ok /\ Fumbled(r, rows)
           \/ NotRead(r)
           \/ UNCHANGED <<disk, mem, troubles>>   \* aborted while it waits for the lock
        /\ Step(r, k, "unspawned") /\ LetGo(r, k)
  /\ UNCHANGED <<nextTicket, nextEpoch, session, jobs>>

\* runProcess.  The process submits under whoever is logged in, and its receipt
\* may be lost.
Run(r, k) ==
  /\ At(r, k, {"permitted"})
  /\ LET submitted == jobs' = [jobs EXCEPT ![k] = [count |-> @.count + 1, account |-> session,
                                                  running |-> TRUE]] IN
     \/ submitted /\ Goto(r, k, "receipt") /\ UNCHANGED cli
     \/ submitted /\ Goto(r, k, "lost") /\ cli' = Released(r, k)
     \/ UNCHANGED jobs /\ Goto(r, k, "lost") /\ cli' = Released(r, k)
     \/ UNCHANGED jobs /\ Goto(r, k, "unspawned") /\ cli' = Released(r, k)
  /\ UNCHANGED <<disk, nextTicket, mem, serial, nextEpoch, session, troubles>>

CurrentVariant(r, k) == TRUE   \* the receipt is not checked against the lease

\* assertCurrent of the invocation lease.
Current(r, k) == /\ cli.live /\ cli.holder = r /\ cli.epoch = task[r][k].epoch
                 /\ session = task[r][k].account

CommitReceipt(r, k) ==
  /\ At(r, k, {"receipt"})
  /\ LET row  == Fresh[k]
         ok   == Mine(r, k, row) /\ row.phase = "permitted" /\ row.epoch = task[r][k].epoch
         rows == [Fresh EXCEPT ![k] = [Ended(row, "accepted") EXCEPT !.account = row.account]] IN
     \/ Current(r, k) /\ ok /\ Saved(r, rows) /\ Step(r, k, "none")
     \/ Current(r, k) /\ ok /\ Fumbled(r, rows) /\ Step(r, k, "lost")
     \/ Current(r, k) /\ ~ok /\ Saved(r, Fresh) /\ Step(r, k, "none")
     \/ Current(r, k) /\ NotRead(r) /\ Step(r, k, "lost")
     \/ ~Current(r, k) /\ Step(r, k, "none") /\ UNCHANGED <<disk, mem, troubles>>
  /\ LetGo(r, k)
  /\ UNCHANGED <<nextTicket, nextEpoch, session, jobs>>

FailureRowVariant(r, k) == NoRow   \* whether a process ran or not

\* A process that never ran leaves no record, one that ran an unknown submission.
FailureRow(r, k) == IF At(r, k, {"unspawned"}) THEN NoRow ELSE Ended(Fresh[k], "unknown")

\* commitSubmissionFailure.
CommitFailure(r, k) ==
  /\ At(r, k, {"unspawned", "lost"})
  /\ LET ok   == Mine(r, k, Fresh[k]) /\ task[r][k].epoch \in {0, Fresh[k].epoch}
         rows == [Fresh EXCEPT ![k] = FailureRow(r, k)] IN
     \/ ok /\ Saved(r, rows) /\ Step(r, k, "none")
     \/ ok /\ Fumbled(r, rows) /\ Step(r, k, "failing")
     \/ ~ok /\ Saved(r, Fresh) /\ Step(r, k, "none")
     \/ NotRead(r) /\ Step(r, k, "failing")
  /\ UNCHANGED <<nextTicket, arbiter, jobs>>

\* failTask, of what the runtime remembers as not ended.  The record is failed,
\* which is refused while it still has its reservation.
Unended(r, k) == mem[r][k] \notin {"ended", "absent"}

FailTaskVariant(r, k) ==   \* the record on disk may have ended since
  /\ At(r, k, {"failing"}) /\ Step(r, k, "none")
  /\ \/ ~Unended(r, k) /\ UNCHANGED <<disk, mem, troubles>>
     \/ Unended(r, k) /\ Fresh[k].state # "absent"
        /\ Saved(r, [Fresh EXCEPT ![k] = Ended(@, "failed")])
  /\ UNCHANGED <<nextTicket, arbiter, jobs>>

FailTask(r, k) ==
  /\ At(r, k, {"failing"}) /\ Step(r, k, "none")
  /\ LET row  == Fresh[k]
         rows == [Fresh EXCEPT ![k] = Ended(@, "failed")] IN
     \/ ~Unended(r, k) /\ UNCHANGED <<disk, mem, troubles>>
     \/ /\ Unended(r, k)
        /\ \/ row.state \in Terminal \cup {"absent"} /\ Saved(r, Fresh)
           \/ row.state = "pending" /\ Invalid(r, rows)
           \/ row.state \in {"queued", "accepted"} /\ Saved(r, rows)
           \/ row.state \in {"queued", "accepted"} /\ Fumbled(r, rows)
           \/ NotRead(r)
  /\ UNCHANGED <<nextTicket, arbiter, jobs>>

(***************************************************************************)
(* loadState, cancelTask and deleteTask.                                   *)
(***************************************************************************)
Load(r) ==
  /\ Saved(r, Fresh)
  /\ UNCHANGED <<nextTicket, task, serial, arbiter, jobs>>

\* The own task of a record that was ended under it leaves the local queue.
Dequeue(r, k) == IF At(r, k, {"queued"}) THEN Goto(r, k, "none") ELSE UNCHANGED task

CancelTask(r, k) ==
  /\ Fresh[k].state = "queued"
  /\ LET rows == [Fresh EXCEPT ![k] = Ended(@, "cancelled")] IN
     \/ Saved(r, rows) /\ Dequeue(r, k)
     \/ Fails(r, rows) /\ UNCHANGED task
  /\ UNCHANGED <<nextTicket, serial, arbiter, jobs>>

\* A reserved submission is to be deleted as well, but keeps its reservation;
\* any later one is only hidden.
DeleteTask(r, k) ==
  /\ LET rows == [Fresh EXCEPT ![k] = Ended(@, "deleted")] IN
     \/ Fresh[k].state = "queued" /\ Saved(r, rows) /\ Dequeue(r, k)
     \/ Fresh[k].state = "queued" /\ Fails(r, rows) /\ UNCHANGED task
     \/ /\ Fresh[k].state = "pending" /\ Fresh[k].phase = "reserved"
        /\ Invalid(r, rows) /\ UNCHANGED task
  /\ UNCHANGED <<nextTicket, serial, arbiter, jobs>>

(***************************************************************************)
(* The provider ends a job; a reconciliation of any runtime records it.    *)
(***************************************************************************)
Finish(k) ==
  /\ jobs[k].running
  /\ jobs' = [jobs EXCEPT ![k].running = FALSE]
  /\ UNCHANGED <<disk, nextTicket, mem, task, serial, arbiter, troubles>>

\* The reconciler reads the journal itself and recovers no lease; its runtime
\* takes the record over at once or with its next reload.
Reconcile(r, k) ==
  /\ disk[k].state = "accepted" /\ ~jobs[k].running
  /\ \E s \in {"succeeded", "failed", "cancelled"} : disk' = [disk EXCEPT ![k] = Ended(@, s)]
  /\ mem' = mem \/ mem' = [mem EXCEPT ![r][k] = "ended"]
  /\ UNCHANGED <<nextTicket, task, serial, arbiter, jobs, troubles>>

(***************************************************************************)
(* Login and logout hold the client's lease and change the session.        *)
(***************************************************************************)
ChangeAccount ==
  /\ ~cli.live /\ Trouble
  /\ session' = session + 1 /\ nextEpoch' = nextEpoch + 1 /\ cli' = Free
  /\ UNCHANGED <<disk, nextTicket, mem, task, serial, jobs>>

(***************************************************************************)
(* Leases, crashes and restarts.  A heartbeat renews the lease of a task   *)
(* its runtime works on, as long as the runtime can reload.                *)
(***************************************************************************)
Renewed(r, k) == Loads(r) /\ ~At(r, k, {"none", "failing"})

Ends(k) ==
  /\ disk[k].live
  /\ disk' = [disk EXCEPT ![k].live = FALSE]
  /\ UNCHANGED <<nextTicket, mem, task, serial, arbiter, jobs>>

Attended(k) == disk[k].owner # Nobody /\ Renewed(disk[k].owner, k)

Expire(k) == ~Attended(k) /\ Ends(k) /\ UNCHANGED troubles
Pause(k)  == Attended(k) /\ Ends(k) /\ Trouble

Invoking == \E r \in Runtimes, k \in Keys :
              /\ cli.holder = r /\ task[r][k].epoch = cli.epoch
              /\ At(r, k, {"granted", "permitted", "receipt"})

InvocationEnds ==
  /\ cli.live
  /\ cli' = [cli EXCEPT !.live = FALSE]
  /\ UNCHANGED <<disk, nextTicket, mem, task, serial, nextEpoch, session, jobs>>

ExpireInvocation == ~Invoking /\ InvocationEnds /\ UNCHANGED troubles
PauseInvocation  == Invoking /\ InvocationEnds /\ Trouble

\* The arbiter's heartbeat: it renews an expired lease that nobody has replaced.
RefreshInvocation ==
  /\ Invoking /\ ~cli.live
  /\ cli' = [cli EXCEPT !.live = TRUE]
  /\ UNCHANGED <<disk, nextTicket, mem, task, serial, nextEpoch, session, jobs, troubles>>

Disowned(rows, r) == [k \in Keys |-> IF rows[k].owner = r THEN [rows[k] EXCEPT !.owner = Nobody]
                                     ELSE rows[k]]

Restarted(r) ==
  /\ mem' = [mem EXCEPT ![r] = [k \in Keys |-> "absent"]]
  /\ task' = [task EXCEPT ![r] = [k \in Keys |-> NoTask]]
  /\ serial' = [serial EXCEPT ![r] = NoKey]

\* The next runtime has another owner id; what the last one owned runs out.
Crash(r) ==
  /\ Trouble
  /\ disk' = Disowned(disk, r)
  /\ cli' = IF cli.holder = r THEN [cli EXCEPT !.holder = Nobody] ELSE cli
  /\ Restarted(r)
  /\ UNCHANGED <<nextTicket, nextEpoch, session, jobs>>

\* failOwnedQueuedTasksOnDispose, once the submissions under way have ended.
Dispose(r) ==
  /\ Loads(r) /\ \A k \in Keys : At(r, k, {"none", "queued"})
  /\ disk' = [k \in Keys |->
       IF Fresh[k].state = "queued" /\ Fresh[k].owner = r THEN Ended(Fresh[k], "failed")
       ELSE Disowned(Fresh, r)[k]]
  /\ Restarted(r)
  /\ UNCHANGED <<nextTicket, arbiter, jobs, troubles>>

Submit(r, k) ==
  \/ Reserve(r, k) \/ Prepare(r, k) \/ Acquire(r, k) \/ CommitFence(r, k)
  \/ Run(r, k) \/ CommitReceipt(r, k) \/ CommitFailure(r, k) \/ FailTask(r, k)

Next ==
  \/ \E r \in Runtimes, k \in Keys :
       \/ Enqueue(r, k) \/ Promote(r, k) \/ Submit(r, k)
       \/ CancelTask(r, k) \/ DeleteTask(r, k) \/ Reconcile(r, k)
  \/ \E r \in Runtimes : Load(r) \/ Crash(r) \/ Dispose(r)
  \/ \E k \in Keys : Finish(k) \/ Expire(k) \/ Pause(k)
  \/ ExpireInvocation \/ PauseInvocation \/ RefreshInvocation \/ ChangeAccount

SubmissionSpec == Init /\ [][Next]_vars

-----------------------------------------------------------------------------
(* Whatever crashes, lost receipts, failed writes and repeated requests     *)
(* there are, the provider gets one submission for one idempotency key.     *)
SubmitOnce == \A k \in Keys : jobs[k].count <= 1

(* The records of all runtimes together never take more than the slots, and *)
(* a generation that runs at the provider is on record as taking one, or    *)
(* was marked failed.                                                       *)
SlotsSuffice ==
  /\ SlotsTaken(disk) <= MaxActive
  /\ \A k \in Keys : jobs[k].running => disk[k].state \in HoldsSlot \cup {"failed"}

(* A generation that runs loses its slot in one way only: failTask of a     *)
(* runtime whose receipt was saved and reported as not saved.  No recovery, *)
(* cancellation or removal by any runtime frees the slot under it.          *)
SlotIsKept ==
  [][\A k \in Keys :
        jobs[k].running /\ disk[k].state \in HoldsSlot /\ disk'[k].state \notin HoldsSlot
          => disk[k].state = "accepted" /\ \E r \in Runtimes : At(r, k, {"failing"})]_vars

(* The receipt on record is of a submission made under the account that the *)
(* record is bound to, though the account may change while the client runs. *)
AcceptedAccount ==
  \A k \in Keys : disk[k].state = "accepted" =>
                    jobs[k].count = 1 /\ jobs[k].account = disk[k].account

(* What a record has ended with stays, and an accepted one ends only by      *)
(* itself or through the provider: it is never removed or submitted again,   *)
(* and never called succeeded or cancelled while the provider still works on *)
(* it, whichever runtimes act on records they loaded before.                 *)
EndsStay ==
  [][\A k \in Keys :
        /\ disk[k].state \in Terminal => disk'[k].state = disk[k].state
        /\ disk[k].state = "accepted" =>
             \/ disk'[k].state \in {"accepted", "failed"}
             \/ disk'[k].state \in {"succeeded", "cancelled"} /\ ~jobs[k].running
    ]_vars
=============================================================================
