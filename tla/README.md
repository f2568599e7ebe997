# Verification of the generation system

TLA+ models of the parts of this repository that decide what becomes of a paid
generation. In the Go backend: the credit ledger, the task queue and its
workers, the supply routes, the cancel and retry commands, and the payments that
buy credits. In the local canvas agent: the journal its runtimes share and the submission of a generation through
a command line client. In the web client: how the output of a generation becomes
an asset, once, although several tabs watch it. TLC checks the models on small
instances; TLAPS proves theorems about them for every instance.

## 1. The system

A generation runs in one of two places. The Go backend (`backend/`) takes tasks
from the web client, reserves credits, queues the task, and has worker
goroutines call an upstream provider; a video task is submitted once and then
polled, for minutes, across process restarts. The canvas agent
(`canvas-agent/`), a process on the user's machine, submits through a command
line client under the user's own account. Either way the web client (`web/`)
consumes the finished task: it stores the output as an asset and then attaches
it to a node of the canvas or resumes the assistant that asked for it.

The backend's state is in a database (SQLite or PostgreSQL) that several
processes may share; slots, rate limits and circuit breakers are in memory or
Redis. The agent's state is in one JSON file that several runtimes share under
a lock directory. The web client's is in the storage of the browser, which all
its tabs share.

Backend, in `backend/internal/`:

| Component | State | Operations | Interacts with | What is hard |
|---|---|---|---|---|
| Credit ledger (`repository/finance.go`) | account balances, billing orders, ledger entries, redeem codes | reserve, run, uncertain, settle, refund, restore, reprice, adjust, redeem, grant | every paid operation | read-then-write transactions that overlap; long sequences of calls; costs above the hold |
| Task queue and worker (`service/task_worker.go`, `repository/repository.go`) | task row with status, owner, lease, run, upstream id | claim, renew, execute, defer, complete, fail | ledger, routes, provider | crashes between two statements, lost leases, executions that wake up late |
| Route attempts (`service/model_router.go`, `repository/logical_models.go`) | attempt rows with a dispatch state, the task's route | begin, mark dispatching, finish, switch route | worker, ledger (reprice) | never submitting a second job; knowing that a refusal created none |
| Terminal coordinator (`service/task_terminal.go`) | — | row, then bill, for success, failure, cancellation, failed save | worker, ledger | two transactions that must agree |
| Provider adapter (`service/provider.go`) | upstream id on order, row and call log | submit, poll, log | provider, slots | an answer that is lost after the job exists |
| Task commands (`service/task_lifecycle.go`) | — | cancel, retry | all of the above | acting on a row read earlier |
| Provider cancellation (`service/provider_task_cancellation.go`) | cancellation status, attempts | request, reconcile, give up | provider, ledger | late success, bounded attempts |
| Manual recovery (`service/provider_task_recovery.go`) | recovery lease | query a failed task, restore the charge | provider, ledger | a status read minutes ago |
| Task creation (`service/task_creation.go`) | — | admission limit, reserve, insert | ledger | counting without a lock |
| Runtime coordinator (`service/coordination.go`) | slot leases, windows, circuits | acquire, renew, release, wait | every call | leases that end under a live holder |
| Worker runtime (`service/worker_runtime.go`) | started, draining, wait group | start, goLoop, goTask, drain, stop | all loops | start against drain |
| Payments (`service/payment.go`, `repository/payment.go`) | payment orders, the inbox of notifications | create, refresh, notify, query, close, expire | ledger, provider's plugin | a late payment against a close; four ways to notice one payment |
| Payment reconciliation (`service/payment_reconciliation.go`) | daily runs and their items | begin, compare, recover, complete, fail | payments, ledger | a comparison that fails or dies midway |
| System proxy (`handler/auth.go`) | — | reserve, forward, settle or refund | ledger | a crash after the answer |
| Text replay (`service/text_replay.go`) | deltas, draft | append, compact, clean up | worker | append against close |
| Resource deletion (`service/resource_deletion_worker.go`) | deletion jobs with leases | claim, delete, retry | storage | a reference that appears late |
| Storage quota, uploads, migration | used bytes, sessions | reserve, finish | storage | concurrent uploads |
| Host updater (`hostupdate/`) | update phases | prepare, switch, roll back | docker | a restart in the middle |
| Comfy bridge (`repository/comfy_bridge.go`) | jobs leased to devices | claim, report | canvas agent | lost devices |

Canvas agent, in `canvas-agent/src/`, and web client, in `web/src/`:

| Component | State | Operations | Interacts with | What is hard |
|---|---|---|---|---|
| Journal file (`dreamina-cli-state.ts`) | the file, its backup, temporaries, the lock directory | lock, take over, recover, read, write, replace, release | every runtime on the machine | a crash between two renames; an owner that sleeps past its lease |
| Submission runtime (`dreamina-cli-runtime.ts`) | a record per idempotency key; records and tasks in memory | enqueue, reserve, submit, receipt, fail, cancel, delete, reload, dispose | journal, arbiter, client | at most one submission whatever is lost; slots counted by several runtimes |
| Command line arbiter (`dreamina-cli-arbiter.ts`) | invocation lease, fence epoch, session epoch | acquire, renew, assert, release, change session | runtime | an account that changes under a submission |
| Task reconciler (`dreamina-task-reconciler.ts`) | poll leases | observe, commit, back off | runtime, provider | a stale observation |
| Task store and projection (`dreamina-task-store.ts`) | task versions, outbox, inbox, effects | project, claim, complete | runtime, web client | compare-and-set, growth to a limit |
| Product effects (`services/generation-task-materializer.ts`, `provider-neutral-generation-effects.ts`, `local-dreamina-generation.ts`) | a record with a fenced lease per effect and account | claim, renew, complete, release | asset store, task store of the agent | two tabs that consume one task; an answer lost after the record changed |
| Assets (`services/project-asset-sync.ts`, `generation-asset-repository.ts`) | stored assets per account, two locks | fetch, insert or return, delete | effects, account switch | the account read before an await and used after it |
| Account switch (`lib/user-session.ts`, `services/generation-consumer-lifecycle.ts`) | the active scope, the consumers of a page | pause, drain, switch | everything stored per account | consumers of another tab |
| Stores and remote synchronisation (`stores/`, `services/user-data-sync.ts`) | queued snapshots, revisions | rebase, flush, pull | backend | a snapshot rebased on a newer document |
| Catalogue, auth, projects, plugins, pages, migrations | rows, files, editor state | CRUD, parsing, rendering | | not state machines of several actors |

What makes the modelled components correct:

- ledger: the entries of an order add up to its status; the frozen balance is
  the sum of the open holds; nothing pays twice; a settled order is final;
- worker: one upstream job per run, whatever fails; the bill agrees with the
  row; a charge needs a job that succeeded; a refund leaves no live job; every
  task ends;
- commands: a run ends once; a cancelled run is billed by what became of its
  job, or goes to review; nobody pays for a second run with the first one's
  cost under review;
- payments: a payment is granted once, whoever notices it and how often; a
  credited order has a paid trade, and a closed one cannot be paid unless the
  provider did not know it; what was paid is credited or reported in the end;
- journal: an update takes effect at once, whole and at most once; an
  acknowledged update is never lost; what a crash leaves can be recovered;
- submission: one submission per idempotency key; no more slots than the
  provider gives; a running generation keeps its slot; a receipt belongs to the
  account of its record; an end stays;
- effects: only the newest claim ends an effect, and only before it lapses; a
  completed materialization has its asset in its own account; a deleted asset
  stays deleted; the assistant is resumed once.

`PROJECT.json` lists every component with its status and, under `hazards`, each
place of the code that is hard to test, with the property that covers it or the
reason why none does.

## 2. Modules

| Module | Models | Builds on |
|---|---|---|
| `CreditLedger` | each function of `finance.go` that moves credits, as an atomic step | — |
| `CreditTransactions` | the same functions as transactions that read, then commit | `EXTENDS CreditLedger` |
| `TaskExecution` | task row, order, route attempts, upstream, workers | — |
| `TaskBilling` | what the billing of a task promises (abstract) | — |
| `TaskLifecycle` | cancel, retry, upstream cancellation, reconciliation | `EXTENDS TaskExecution`, `INSTANCE TaskBilling` |
| `PaymentOrders` | topups: requests, the two loops, the inbox, the provider's trade | — |
| `PaymentReconciliation` | the daily comparison beside all of it, and what topups promise | `EXTENDS PaymentOrders`, `INSTANCE CreditLedger` |
| `AtomicJournal` | what the agent's journal promises (abstract) | — |
| `JournalFile` | the journal as files, renames and a lock directory | `INSTANCE AtomicJournal` |
| `AgentSubmission` | runtimes, arbiter, reconciler and provider on one journal | — |
| `OnceEffect` | what an authority of product effects promises (abstract) | — |
| `GenerationEffects` | consumers, effect records, locks, assets, account switch | `INSTANCE OnceEffect` |
| `CreditLedger_proofs`, `CreditTransactions_proofs`, `TaskExecution_proofs`, `TaskLifecycle_proofs`, `PaymentOrders_proofs`, `JournalFile_proofs`, `AgentSubmission_proofs`, `GenerationEffects_proofs` | theorems | the module of that name and `TLAPS` |
| `MC...` | model values, symmetry sets | one per model |

### CreditLedger

`available`, `reserved` are the two columns of `credit_accounts`; `order[o]` is
the row of `billing_orders` with status, user, mode, amount and actual amount.
The ledger table is kept as sums (`ledgerAvailable`, `ledgerReserved` per order,
`adjusted` and `entry` per user), because the properties need no more. `usage[o]`
is the cost of the newest successful usage log of the order, which
`billingUsage` reads; it may be reported by nobody, in which case a token order
cannot be settled, and `KeepObservedCost` is the write that
`SettleBillingOrder` makes outside its failed transaction, on the one condition
that the order is neither settled nor refunded. Each function is one
action with the guards of its early returns; the function of the balances that
its body writes is a separate operator (`SettleWrites`, `RefundWrites`,
`RestoreWrites`, `RepriceWrites`) that takes the order row *as it was read*, so
that `CreditTransactions` can use it with a stale row.

### CreditTransactions

`txn[s]` holds, for each session, the kind of transaction and the row and usage
it read in `Begin`. `Commit` applies the writes to what is current, since the
balance is changed by `SET x = x + ?` with a condition on the frozen amount,
while the order is overwritten. `isolation` is the database the program was
started with: under `"snapshot"` (SQLite) a transaction that is older than the
last commit cannot write, under `"read_committed"` (PostgreSQL) it can.
`Statement` stands for the functions whose whole effect hangs on conditional
updates. `MayOverlap(i)` names the kinds that may have another transaction on
the same order between their read and their commit.

The abstract specification is `LedgerSpec`: the atomic steps of `CreditLedger`
and, under READ COMMITTED only, `ChargesEarlierUsage`, a settlement or restore
that charges a usage reported before the newest one, because the usage was read
before another request logged it. The refinement is the identity on the
variables of `CreditLedger`.

### TaskExecution

`task` is the row, `order[r]` the status of the order of run `r`, `attempt[r][n]`
the route attempt rows with their dispatch state and upstream id, `callLog[r]`
and `orderJob[r]` the other two places where the id is kept, `job` and `jobs`
the upstream. `worker[w]` is what a goroutine has in memory, with `pc` naming
the next statement, and `ctx` the state of its context (live, cancelled, lease
lost). Actions are named after the function whose statement they are:
`Claim`, `Start`, `FirstAttempt` ... `RejectedAttempt` (the branches of
`beginTaskRouteAttempt`; `RouteUnavailable` is the one whose route is not
configured or blocked, and `AdoptAttempt` the second of the two writes that take up
an attempt of unknown outcome), `SwitchTaskLogicalRoute` (to any route of which the
run has no attempt: an attempt row has its `route` beside its number),
`CreateRouteAttempt` and its failure `AttemptNotCreated`,
`MarkBillingRunning`, `MarkRouteAttemptDispatching`, `Submit` with its ways to
fail, `LogOrder`/`LogTask`/`LogCall` (the writes of `LogAPICall`), `Poll...`,
`FinishTaskRouteAttempt`, `DeferRunningTaskForProviderPoll`, `ExecutionFailure`,
`SaveTaskCompletion`, and the bills; a settlement that fails puts the order under
review, if that can be written (`SettleFails`). How an execution ends whose context or row was
cancelled (`CancelledFailure`, `ResultOfCancelledTask`) is in `TaskLifecycle`, the
only place where a cancellation can come from. Between any two of them another worker, a
crash, a lease that expires or the upstream may move. Faults have a budget
(`MaxFaults`); `Pauses`, `WriteFaults`, `Outages` and `PollFaults` say which
kinds there are.

### TaskBilling and TaskLifecycle

Adds the cancel command (`CancelRead`, `CancelHydrate`, `CancelTaskIfStatus`,
`CancelActiveTask`, `CancelBill`), the goroutine that sends the upstream
cancellation, the reconciliation loop, and the retry command. Each goes on with
what it read before; the unconditional write of the upstream id
(`SaveCancelledRequest`) is what it is in the code.

`TaskBilling` is what is left of all this for the ledger and the user: the run, the
status of the row, and a bill per run. A run is taken and ends once; a retry begins
the next run with a bill of its own; a bill is closed once, after its run, as the end
of the run allows. `RunBills` maps the run and status of `task` and `order` to it;
workers, attempts, jobs and commands are the detail, and `BillingSpec` is its `Spec`.
It promises no more than the code does: a bill may be open when the task is retried,
and what an earlier run had ended as is not on the row any more.

### PaymentOrders and PaymentReconciliation

`status[p]` is the row of a payment order, `expired` the orders whose
`expires_at` has passed, `link` those whose checkout a user was given, `trade[p]`
what the provider has, `inbox[p]` the row of `payment_notifications`, `available`
and `entry` the account and the ledger entries of payments and other grants.
`call[c]` is what a goroutine is at: one per HTTP request, one for the loop that
closes expired orders and queries pending ones (with the rest of its batch,
`todo`), one for the loop that drains the inbox. A call goes from place to
place, an answer (`heard`) is used a step after it was given, and anything may
happen in between. `CompletePaymentOrder`, `MarkPaymentOrderClosed`,
`RestoreClosingPaymentOrder` and the claim are the transactions of
`repository/payment.go` with the conditions they put on the row; `QueryOrder`,
`AfterQuery`, `CloseOrder`, `CloseFails`, `CloseMissing` and `QueryFails` are the
branches of `closePaymentOrder` and `queryPaymentOrder`. `notFoundKnown`, fixed
for a behaviour, says whether `ErrOrderNotFound` survives the plugin boundary.
`Trouble` is an error, a lost answer or a crash, of which there are `MaxTroubles`.

`PaymentReconciliation` adds the half-hourly run of the day's comparison
(`run`, its error `items`, and `audit`, where the goroutine is): download of the
bill, a row at a time, a signed query for each order that is not credited, and
the credit or the error item that follows. `Ledger` is `CreditLedger` with
payments and gifts as references and no billing orders: `PaymentsAreGrants` is
its `Spec`.

### AtomicJournal and JournalFile

`AtomicJournal` has a record per idempotency key and three facts about each
update: it takes effect at once and at most once (`applied`), only as the next
stage of one record, and it is acknowledged (`acked`) only after it took effect.
`JournalFile` has the file, its Windows backup, a temporary file per turn, the
lock directory with the nonce of its lease, and for each process the file
operation it is about to make: taking the lock, judging a lease stale, renaming
the lock away and putting it back, recovering a half-made replacement, sweeping
temporaries, reading, writing, checking the lease, replacing, releasing. A
process may die, or a file operation fail, at each. On POSIX a process may also
sleep past its lease anywhere (`Pausing`). The journal of the refinement is the
file, or the backup while there is no file (`Content`), which is what a reader
gets after recovery. `JournalSpec` is `AtomicJournal!Spec` under that mapping.

### AgentSubmission

A locked read-modify-write of the journal is one step here, which is what
`JournalFile` shows; a write may still fail, with or without having taken
effect. `disk[k]` is the record of a key with its state, its phase within the
submission, the owner of its queue or reservation lease, ticket, fence epoch and
account; `mem[r]` what each runtime last saw, which it will not let go back;
`task[r][k]` where a runtime is in submitting a key, with the names of the steps
of `submitWithLock`'s asynchronous sibling; `cli` the arbiter's invocation lease
and `session` the account; `jobs[k]` what the provider has. `HasPriority` and
`SlotsTaken` are the code's counting of slots over the journal.
Recovery of dead owners (`Recovered`), the observations of the reconciler, and
cancel and delete commands may fall between any two steps. An observation
(`Reconcile`) is written to the journal as it is on disk, whatever the runtime
has loaded, and ends an accepted record as the provider says: succeeded, failed,
or cancelled. `EndsStay`: while the generation runs at the
provider, nothing calls an accepted record succeeded or cancelled, and what it
ended as stays. An invocation lease whose release fails stays
until it lapses, which the model has as a lease that nobody released.

### OnceEffect and GenerationEffects

`OnceEffect` says what an authority of product effects promises: an effect is
worked on under a numbered claim, only the newest claim can end it, only while
it has not lapsed, and done stays done. `GenerationEffects` has the consumers of
one finished generation (`run`), each in a page, the records of the effects
(`effect`, per account in the browser's storage or one for all in the agent's
task store), the lease a page of the agent's store keeps (`lease`), the two
locks of the asset storage, the stored asset of each account, and the active
account. A consumer claims the materialization, downloads, takes the locks,
compares the account, reads and writes the assets, completes; then it attaches
or resumes. Not every task comes with outputs: the projection of a task
(`projectGenerationTaskResult`) puts them there, and the agent's tasks have
them, but a task of the backend whose continuation is handed over has only its
`resultJson`, and `consumeGenerationTaskAgent` then resumes without materializing
(`project-asset-sync.ts:513`). `outputs`, fixed for a behaviour, says which kind
of task it is, `Handed` which combinations there are, and `First` which effect comes
first. `ServedAfterAsset` is therefore about tasks with outputs only; a continuation
without them waits for no asset. An output that already names its asset
(`generation-task-materializer.ts:175`) needs none of the steps between claim and
completion; no caller passes one, and the model has none. It may be aborted, reloaded, suspended past its lease or lose an
answer at each step, and the user may delete the asset or switch accounts.
`OnceSpec` is `OnceEffect!Spec` with a worker's claim read off `run`.

### Variants

A definition `XVariant` before `X` is a mistake that could be made in `X`: a
dropped guard, a refund counted twice, a status left out. No specification uses
it. Replacing `X` by it breaks the property that `PROJECT.json` pairs with it
under `mutants`, which shows that the property depends on that code.

## 3. Runs

The submission run checks for deadlock. The others set `CHECK_DEADLOCK FALSE`,
because the system may come to rest: all orders closed, a finished task with no
command left, all turns with the lock taken, an output consumed. `ExecTypeOK` is part
of `LifecycleTypeOK`, which the cancel run checks.

| Run (cfg) | Bounds | Shows |
|---|---|---|
| ledger (`MCCreditLedger`) | 2 users, 2 orders, prices 1 and 3, cost 2, one code, one grant | the seven properties of the ledger under every sequence of calls |
| transactions (`Transactions`) | 2 sessions, 2 orders of one user, price 1, costs 0 and 2; both databases | overlapping transactions implement the atomic ledger: settle, refund and restore under snapshots, restores under READ COMMITTED |
| race (`TransactionsRace`) | same, settle and refund overlap under READ COMMITTED | **violation**: a settled order is refunded |
| faults (`ExecutionFaults`) | 2 executions, 3 routes, 5 faults: crashes, lost leases and answers, failing statements (attempts and settlements among them) and polls | one job per run, route changes only without a job, every task ends |
| pauses (`ExecutionPauses`) | 2 executions, 1 route, 2 faults, outages, executions paused beyond their lease | only who ended the row bills it, and as it ended |
| refund_after_poll (`RefundAfterPoll`) | 2 executions, 1 route, 2 faults | **violation**, see section 6 |
| cancel (`LifecycleCancel`) | 1 run, 1 execution at a time, 2 cancels, 3 checks, 1 fault | billing of a cancelled run by what became of its job, and that it is billed at all |
| retry (`LifecycleRetry`) | 2 runs, 1 cancel, 3 checks, commands may die; in the second run a command or a second execution | a run ends once; row and orders implement `TaskBilling`, with late writers of the first run |
| payments (`Payments`) | 1 order, 1 request at a time, both loops, the provider, 1 gift, 1 attempt per notification, 1 trouble, error recognised or not | a payment is granted once; order, ledger and trade agree; what was paid is credited or reported; expired orders end |
| journal (`JournalFile`) | 2 runtimes, 2 keys, 1 crash, 1 failed operation; POSIX 2 turns with pauses, Windows 3 without, and 4 without troubles | the files implement `AtomicJournal`; what recovery refuses was a removal |
| submission (`AgentSubmission`) | 2 runtimes, 2 keys, 1 slot, 2 tickets, 1 trouble, 2 if one is a change of the account | one submission per key, slots, accounts, ends that stay |
| effects (`GenerationEffects`) | 2 pages, 2 consumers (in one page or two), 2 accounts, 2 claims per effect, 1 trouble, 1 switch, with the records of the agent one of the two; both authorities, tasks with outputs and continuations without | the effects implement `OnceEffect`; assets and accounts agree; a resume happens once |

Why these bounds are enough to be interesting: the ledger's functions touch one
order and one account at a time, so two orders of one user (the frozen sum
hides whose hold is whose) and a second user reach every interference; a price
change between 1 and 3 and a cost of 2 reach supplements, partial refunds and a
cost above the hold. A second execution is what a takeover needs; three routes allow a
switch after a switch; five faults allow a crash at the submission, at each
log write and in the takeover. `CreditBound` only keeps administrators from
adding for ever. `MaxChecks = 3` lets the reconciliation ask once, ask again and
give up (the code's constant is larger). Two turns with the journal's lock
let one process sleep and a second take over and finish; any number is the theorem's
(section 4). On Windows, where the theorem does not hold, three turns are checked
with a crash and a failed operation and four without (`Bounded`): it
takes one to leave a record, one whose owner stumbles, one that loses its lock to
the stumbler and one that follows. Without pauses a process does not sleep in
the moment between a failed lease and the removal of its directory either
(`InUse`): if it did, the four turns would violate `JournalSpec`. Two keys and one slot are the smallest instance in
which a queue has an order and a slot can be taken twice; one trouble is a lost
receipt, a failed write or a crash, before or after a change of the account, with
every interleaving of the two runtimes (the theorems have any number). One trouble, one
switch and two claims let an effect be taken over from a consumer that is still
at work while the account changes. The retry run leaves out one product of
interleavings (`OneAtATime`): once a task was retried, a command that is still under
way is interleaved with one execution, and two executions with each other.

The runs that check liveness (faults, cancel, payments) declare no symmetry, which
would be unsound for it, and have the smaller bounds. Without pauses no two executions
of a run are at work at once, so one worker, which comes back after a crash, is
enough for the cancel run. Distinct states: ledger 354 thousand, transactions 359, faults 761, pauses 176, cancel 289, retry 694,
submission 444, effects 185. The faults run takes about two minutes on two cores, the others about half a minute.

One payment order is enough for the payments because a transaction touches one
row and one reference; what races is the request, the two loops and the
comparison of the day on that row, with one trouble: a lost notification, a lost
answer, an error or a crash. A balance limit of 2 with an order worth 1 and a gift worth 2 lets
the gift fill the account. The run's other bounds are in the guards: a gift is
granted before the user's first order; there is one bill, of one day, which is
there when no request is at work (`EndDay`), and after it nothing is paid and no
request begins (`NextMorning`), since a payment of the next day is on the next
bill. The loops and the comparison go on. Left out of the actions: the
half-minute for which a queried order is skipped, and the two minutes after
which a closing order counts as abandoned (here it does when the loop is idle).
A claimed batch and the marking of its rows are one step, and the drain of the
inbox stands for the attempt `AcceptPaymentNotification` makes at once.

`ChargedForSuccess` and `RefundLeavesNoJob` are checked, and proved, with one
run of a task (and `RefundLeavesNoJob` without failing statements): otherwise the code
violates them in ways the hazards describe. The effects run has `Twins = FALSE` and
`Elsewhere = FALSE`: the cases excluded so are disagreements of section 6.

### Fairness

`FairExecSpec` assumes weak fairness of claiming (the dispatch loop ticks every
two seconds), of each living worker's steps (a goroutine is scheduled, each call
has a time limit), of lease expiry (wall clock) and of the upstream finishing a
job. Nothing makes a fault stop but the budget. Under it `TaskTerminates` holds:
a deferred or abandoned task is claimed again and ends. `FairLifecycleSpec`
assumes weak fairness of a begun cancel, of the cancelling goroutine and of the
reconciliation loop (five seconds); it has no fairness for giving a command, and
none for `CommandCrash`, which the cancel run switches off: after a crash
between the cancelled row and the bill nothing in the code closes the order.
`FairRecSpec` assumes weak fairness of a request that has begun, of the two
payment loops (their tickers and the time limits of the plugin calls: 45 seconds
in the host, 20 in its client, two minutes for a bill), of the day's end, of
`expires_at` being passed, and of the comparison, which is tried every half hour
until it completes. Nobody is assumed to pay, to follow a link, or to notify.
The models of the agent and of the web client state safety only.

## 4. Proofs

`CreditLedger_proofs` proves, for any sets of users, orders, codes and
references and any prices, costs and values in `Nat`, from the assumption
`LedgerConstants`:

- `TypeCorrect`: `Spec => []TypeOK`, one step per action;
- `LedgerExplained`: `Spec => []LedgerExplainsOrders`. The property is inductive
  together with `TypeOK`: each action changes one order, adds to its sums what
  the function posts, and moves its status accordingly; for all other orders the
  sums and the row are unchanged;
- `SettledStays`: `Spec => SettledIsFinal`, since each action on an order
  requires a status that is not settled;
- `OverdraftExplained`: `Spec => OverdraftOnlyByFinalCost`. A step that lowers a
  balance below zero either compares the balance first (reserving, repricing,
  adjusting), which is excluded, or settles or restores an order at more than it
  held. `TypeOK` is the only invariant it needs;
- `PaidOnce`: `Spec => []SourcePaysOnce`, inductive by itself: `SourceStep` says
  that a step leaves entries and codes alone or pays one source that nobody was
  paid for;
- `HoldsAddUp` (`ReservedIsHeld`) and `CreditsAddUp` (`AvailableIsExplained`): each
  balance is a sum over a set. `SumOf` is the sum as `MapThenSumSet` computes it, by recursion on
  the subsets; what one more element or one changed value does to it is proved
  without an induction theorem, from a smallest subset for which it would not hold
  (`SmallestSubset`). `BalanceInv` relates both balances to sums over
  the orders of a user, which are finitely many although order ids need not be
  (`FiniteOrders`, part of the invariant). `MovesOneOrder` says what every
  operation on an order is to the accounts: one entry, for the user the order
  belongs to from then on. `CreditsAddUp` sums over codes and references and assumes
  that they are finitely many (`IsFiniteSet(Sources)`), or the sum means nothing;
- `HoldsCovered`: with `HoldsAddUp`, no open order asks for more than the
  reserved balance, so the error "reserved credit balance is inconsistent" of
  `finance.go:779` and `:965` cannot occur.

The lemmas say what posting an entry does to the sums of one order and to the
balance of one user, and that a step on one order leaves the others as they are.

`CreditTransactions_proofs` proves, for any number of sessions and under
`SafeOverlaps` (READ COMMITTED, if it is considered, lets only restores overlap
on an order; snapshots let anything), that the transactions implement the
atomic ledger: `TransactionsAreAtomic` (`TxnSpec => LedgerSpec`),
`SnapshotIsAtomic` (with snapshots only, `TxnSpec => Spec` of `CreditLedger`),
and with them `TransactionsTyped`, `SettledStaysConcurrently`,
`HoldsAddUpConcurrently`, `CreditsAddUpConcurrently`, `PaidOnceConcurrently` and
`OverdraftExplainedConcurrently`: what is promised of the atomic functions holds
under every overlap the assumption admits. `LedgerSpec` has one step `Spec` lacks, the
settlement at an earlier usage, which keeps the balances too. The invariant
`TxnInv` says of every open transaction what it carries from its read part
(`Carries`), what of it still holds in the database (`Holds`) unless its
snapshot is older than the last commit, and that under a snapshot the usage it
will charge is the newest (`Newest`). Under READ COMMITTED other steps do reach
an order that was read; `Drift` names what they may do to it (not change its
user, mode and amount, not close it while it is open, not take back a usage),
and the lemmas show it for each statement and each commit.

`TaskExecution_proofs` proves, for any number of workers, routes, runs and
faults, in four layers that build on each other:

- `ExecutionTyped`, from `TypeInv`: the attempts of a run are numbered without a
  gap (`Numbered`), and an execution works on one that exists or on the next
  (`Placed`), or the newest attempt would not be defined;
- `OutcomeAndBillAgree` and `TaskEndsBeforeBill`, under every fault. `StepShape`
  first sorts every step, on the row and the orders alone, into those that
  leave both (*quiet*), end a run (*decides*), bill one that has ended (*bills*)
  or take the row to a worker (*takes*). `BillInv` then says that the order of an
  active row is open and that who settles or refunds found the row succeeded or
  failed. `SingleRun`: a second run begins only with the retry of
  `TaskLifecycle`, so these theorems are about the first;
- `OneJob` and `SwitchBeforeJob`, where no execution outlives its lease
  (`~Pauses`) and a failed log is followed by the mark of the order
  (`~Outages`); section 6 shows what happens otherwise. `OthersDone` says that the
  execution that acts is the only one at work, `JobInv` that a job always
  leaves a trace in the newest attempt (`JobHasAttempt`), and that whoever may
  submit is on that attempt and knows the job if there is one (`OnNewest`,
  `KnowsJob`);
- `ChargedRunHasJob`, from `ChargeInv`, under the same two conditions: an
  execution that will report success polled a job that had succeeded.

`TaskLifecycle_proofs` proves `RunEnds`: `LifecycleSpec => RunEndsOnce`, for any
sets of workers and any bounds, with every kind of fault, from no assumption
about the constants. The inductive invariant `RowInv` says that the row is a
record whose run is a number and that a cancel command remembers an *active*
status: the conditional update of a cancellation compares the row with that
copy, so without it the update could hit a row that has ended. `Continues(t, u)`
says that row `u` keeps the run and the end of row `t`; there is one lemma per
group of actions, each sorting its statements into those that leave the status
alone (`ColumnWrites`), those that compare it first (`StatusWrites`), and the
retry, which begins the next run. The unconditional writes of the job id are
among the first: they touch the row of an ended run, but not its end.

Two more layers hold for any number of runs, cancellations and retries:

- `LifecycleTyped`, from `LifeTypes`: the types of workers, commands and reconciler.
  A canceller that looks for a logged job takes the newest run that has one, which
  exists because the runs up to a number are well founded;
- `BillsCloseAfterRuns` (`BillClosesAfterTask`), `BillFitsTheRow` and
  `OwnerIsOfTheRun`, from `LedgerInv`: who is about to settle found the run that it
  works on succeeded, who is about to refund found it failed or cancelled
  (`WorkerBills`, `CommandsBill`), and a worker that still holds the lease is of the
  row's run, so one that a retry left behind writes nothing. `BillFits` is
  weaker than `OutcomeMatchesBill` in one point: a cancelled run may be settled, when
  the reconciliation learns that its job had succeeded. `OutcomeMatchesBill` is therefore
  a property of the executions, checked and proved without the commands;
- `RowAndOrdersAreBilling`: `LifecycleSpec => BillingSpec`, the refinement, from the same
  invariant. Each lemma of `LedgerInv` also says what its step is for the ledger
  (`Billed`): within a run it takes or ends the row (`Onward`) or writes one order, and
  closes it only if `LedgerInv` says that the run has ended that way (`BillStep`), never
  both at once (`OneWrite`); or it is the retry. `BilledRefines` maps these to the
  actions of `TaskBilling`.

The last layer is about a task that is not retried (`MaxRuns = 1`), with any number of
workers, routes, faults and cancel commands, whose process may stop between any two
steps, the goroutine that cancels upstream and the reconciliation:

- `OneJobBesideCancels`, `SwitchBesideCancels` and `ChargedBesideCancels`, under the two
  conditions of `OneJob`. `JobInv` and `ChargeInv` of `TaskExecution_proofs` are stated
  so that they survive a cancellation: an execution's row is its own *or cancelled*
  (`Held`), and whoever goes to the bill found a row that has ended (`WorkInv`).
  `CommandBounds` says that a command cancels the row or writes a job id to it (`Tells`),
  marks or closes the bill, and cancels a pending job (`Bounds`); `CancelsKnown` that a
  canceller has an id, `ReconcilerKnows` that what the reconciliation settles has
  succeeded. Together with `LedgerInv` they are `FirstInv`;
- `RefundBesideCancels` (`RefundLeavesNoJob`), where moreover no statement of a worker and
  no poll fails; section 6 has what happens otherwise. `RefundInv` adds what each of those
  who refund relies on. A worker goes to the bill with an answer that says that there is
  no job or that it failed (`Clear`); a job may still be there when the row was cancelled,
  and then its `Terminal` misses. A cancel command refunds what it read as queued, and
  what it cancelled in that state nobody has taken (`RowTells`, `Untaken`). The
  reconciliation refunds a job that has ended, and an ended job stays (`BillsEnd`); it
  has the id of a job that exists, since before a submission nobody has one, neither row,
  order, attempts nor log (`Traces`).

With a second run `OneJobPerRun`, `ChargedForSuccess` and `RefundLeavesNoJob` fail, which
is why `MaxRuns = 1` is a hypothesis: what belongs to run 1 is applied to run 2
(section 6 and the hazard at `repository.go:447`).

The proof of `LedgerInv` corrected the model. A cancellation that finds no job
upstream had been modelled as if it knew one, so that a canceller of run 1
could mark the cancellation of run 2 as requested; `LogCancellation` and
`QueryProviderCancellation` now do what the code does without an id.

`PaymentOrders_proofs` proves, for any users, orders, gifts, requests, limits and
troubles, from `PaymentConstants`:

- `PaymentTypes` and `OrdersMatchTrades`: the invariant `RecInv` relates what a
  call is about to do to the world it does it in. `Goes` says that a call which
  heard "paid" or "closed" heard what the trade now is (both are final,
  `TradeHolds`), that one which heard "missing" runs where the error is
  recognised, and that a notification is being processed only while its attempts
  are not used up; without it a credit could be given for an answer that had
  meanwhile become false, and an order closed that can be paid;
- `PaymentsGrantOnce`: `RecSpec => PaymentsAreGrants`. `RowEffect` sorts every
  step, on rows and accounts alone, into those that move orders and no credit,
  the one credit of a payment whose reference nobody was granted, and a gift.

`AgentSubmission_proofs` proves, for any runtimes, keys, slots and troubles:

- `SubmissionTyped`: types; the session counts changes of the account, each a
  trouble, so it is bounded (`session <= troubles`);
- `EndsStayForGood` (`EndsStay`): no step changes a record that has ended, and an accepted
  one only fails, or ends as the provider did: the reconciliation is the only step
  that calls it succeeded or cancelled, when the generation is over. Only the state
  functions the actions write matter, since most compare what they loaded with
  what is there;
- `SubmittedOnce` and `ReceiptOfAccount` from one invariant per key, `KeyInv`.
  `StepShape` first sorts every step into those that leave a key alone (`Rests`)
  and the few that touch it (`KeyStep`). The invariant then relates journal,
  provider and each runtime's task: a key with a job has a record that says so,
  permitted, accepted or ended (`Spent`); an accepted record has one job, of its
  account (`AcceptedOnce`); at most one runtime is about to start the client for
  a key (`OnePermitted`); and a task that is about to start it, holds its
  receipt or puts a record back is bound to a record of its own epoch and
  account, or to one that has ended (`TaskInv`);
- `SlotsAreEnough` (`SlotsSuffice`) and `SlotsAreKept` (`SlotIsKept`). `Ageing` says
  how any step may change a record: it enters a slot by a reservation
  with priority only (`EntersSlot`), and one whose generation runs leaves it by
  `failTask` only. `Occupies` says that what runs is on record, and `SlotInv` that the
  recorded keys are finitely many, whatever the set of keys is, and take no more
  slots than there are; a reservation with priority finds one free.

`JournalFile_proofs` proves, for any number of keys, turns, crashes and failed
operations, from `JournalConstants` and `Missing` (what does not exist is no file):

- `JournalTyped` and `InstalledOnce`, for any number of runtimes on any platform,
  asleep or not: a turn belongs to one process, nobody else writes its temporary
  file, and it is applied at most once, before it is confirmed (`JournalInv`);
- `FilesAreTheJournal`: on POSIX two runtimes implement `AtomicJournal`,
  although both may be at the rename at once. The lease alone does not keep them
  apart, since a sleeper still believes in it. `Token` is a lease that is on disk,
  in the lock directory or in one renamed away; with two runtimes at most one has
  it (`Exclusive`). Who has it and has come to the read has removed the temporary
  of the other, or has it on its list (`OrderInv`), and without its temporary the
  other's rename fails (`Armed`). So what is planned, and what is written, is an
  update of the journal that is there (`PlanInv`). Both hypotheses are needed: three
  runtimes, or two on Windows, do lose an update (section 6);
- `ApartFilesAreTheJournal`: on Windows as on POSIX the files implement
  `AtomicJournal` where one runtime uses them, which may die between any two file
  operations and come back (`KeptApart`), or any number of runtimes of which none
  dies or sleeps past its lease, whatever operations fail. Of several, `LockInv` says
  why: the lock directory that is there is the one its maker holds and never looks
  stale, so nobody takes it over (`LockExcludes`). Of one owner, `PairInv` says what
  it relies on: a journal beside a backup is an update of the backup (`TwoFiles`),
  no backup is left once recovery is over, and what it is about to write is an
  update of what there is (`PairOf`);
- `RefusesOnlyRemovals`: under either hypothesis, and on POSIX for any number of
  runtimes, the only pair of files that recovery refuses for good is a removal.

`GenerationEffects_proofs` proves, for any pages, consumers, accounts and
bounds, `TypeCorrect`, `Invariant`, `DeletedForGood` and, where no two consumers
share a page of the agent's store (`~Twins`), `ImplementsOnce`: `EffectSpec =>
OnceSpec`. The invariant `IInv` has what an action relies on that was true some
steps before: the lease a page keeps is the one of its only consumer
(`LeaseKept`, with `HomesApart`), and what a consumer read of the stored assets
under the storage lock still stands when it writes (`ReadStands`).

`AssetBehindCompleted`, `ServedOnlyAfterAsset` and `ResumesOnce` hold for shared
pages too, where the account is not switched under a consumer of the browser's
records (`SwitchesWait`; section 6 shows what a switch in another tab does).
`FlowInv` says that a consumer works at the effects of the scope it started in, that
it comes to the second effect of a task with outputs after the first is completed and to the end of the
first after its asset is there; `ResumeInv` that, as long as nothing went wrong, one
consumer at most holds the effect and the resume was consumed by it or is done.

What stays with TLC: liveness, out of reach of the prover (`TaskTerminates`,
`CancelledIsBilled`, `PaidIsNotForgotten`, `ExpiredEndsIfRecognised`); and the journal of
two runtimes on Windows where one dies, `JournalSpec` and `RefusedOnlyAfterRemoval`,
which hold within the bounds of the run but not for every value of them (section 6).
Every other safety property of a passing run is stated by a theorem.

## 5. What is not modelled

Backend: the price arithmetic (an order's price and a usage's cost are values),
tasks without a logical model or a billing order, text and image tasks (they
have no upstream job to resume), sessions, replay drafts and outputs at the end
of a task, upstream protocols, `next_poll_at` (it only delays a claim); payment
channels and their settings, refunds at the provider, signatures and the plugin
processes, the parsing of bills; task creation, manual recovery, the coordinator, text replay, storage, the host
updater and the Comfy bridge. Agent: the synchronous run path
of the runtime, the task store with its outbox, poll leases and back-off, the
HTTP endpoints, field checks of records. Web client: downloads, previews and
uploads, the remote synchronisation and its snapshots, pages and components.
The components without a module are listed with the reason in `PROJECT.json`.

## 6. Where the code disagrees with itself

Runs that end in a violation:

1. **race**: `RefundBillingOrder` and `SettleBillingOrder` check the status they
   read and write without repeating the check, so on PostgreSQL a refund can
   overwrite a settlement. `RestoreRefundedBillingOrder` shows the fix already in
   use: run transactions and the theorem hold for it.
2. **refund_after_poll**: the execution that submitted a video job refunds its
   order when a poll fails, while the job is pending. `BillingFailureRequiresReview`
   would send the order to review if a call of the task had succeeded
   (`task_billing_test.go:144`), and the submission was such a call, but
   `mergeVideoAPICallLog` (`service/admin.go:687`, `:721`) merges the log of the
   failed poll into the submission's and marks it failed, so that
   `handleExecutionFailure` refunds (`task_terminal.go:140-143`). TLC's trace is the
   first execution of a task, with a single fault, the failing poll. A poll that got no channel slot
   is refunded by the same branch without that question.

Known, without a run of their own (each is reached by the models under the
constants named):

- an order marked uncertain is refunded by the next worker that claims the task
  (`TaskExecution`, one crash and one failed write);
- a retry passes between the cancellation of the row and the review mark of its
  order (`TaskLifecycle`, two runs);
- `SwitchTaskLogicalRoute` (`repository/logical_models.go:272`) compares the status and
  the route of the row, not its lease or its run. An execution of run 1 whose poll found
  no channel slot does not see that the row was cancelled and retried, which cleared its
  job id, and records its attempt as refused without a job; once run 2 is claimed it
  switches the row of run 2, while the order of run 1 is still open, and submits a second
  job for run 1 (`OneJobPerRun` in `TaskLifecycle`, two runs, two routes, one failed
  poll, 24 states);
- on PostgreSQL a settlement may charge the usage that was newest when it read,
  not when it commits (`ChargesEarlierUsage`);
- a log of the submission and a mark of the attempt that fail in one outage let
  the next route submit a second job (`Outages = TRUE`);
- a switch of the account in another tab lets a materialization end in the new
  account's assets while its record is completed for the old one
  (`Elsewhere = TRUE`, thirteen steps to a violation of `CompletedHasAsset`);
- two consumers in one page share the agent's lease, and the later one's fence
  replaces the earlier one's (`Twins = TRUE`, ten steps to a violation of
  `OnceSpec`);
- `deleteTask` and `failTask` leave a reservation on a record that has ended,
  which the validation of the journal refuses: the runtime's memory stays ahead
  of the file and it refuses every reload (`Invalid` in `AgentSubmission`);
- three runtimes, one of which sleeps past its lease, can lose an acknowledged
  update while the lock is put back (`JournalFile`, three processes);
- on Windows two runtimes can lose a pending submission without any pause: B is
  about to rename away a stale lock, A takes it over and is about to set the
  journal aside, B renames A's fresh lock away, dies, comes back and takes the free
  lock; its recovery finds no backup, then A sets the journal aside, and B reads
  an empty journal, restores the backup in the second recovery and writes over it
  what it planned on the empty one, which `assignJournalVersions` admits
  where only pending records are gone (`JournalFile`, three turns, two crashes);
- on Windows a process that dies before it removes the journal's backup, when its
  update removed a submission, leaves a pair of files that every later recovery
  refuses, although `dreamina-cli-state.ts:136` promises a recoverable state at
  every interruption point (`RefusedOnlyAfterRemoval` says that nothing else does);
- an expired payment order whose link nobody followed is claimed, refused by
  query and close, and put back to pending for ever: the sentinel
  `ErrOrderNotFound`, which the close needs (`service/payment.go:802`), does not
  survive the plugin boundary (`payment/rpc.go:137`). `ExpiredEndsIfRecognised`
  without its condition on `notFoundKnown` is violated. Such orders count as
  active, and five of them keep a user from a new one (`service/payment.go:482`);
  a provider that can neither query nor close has the same effect, and a day
  without a bill never completes its comparison;
- a comparison that completed with error items is not repeated by the loop, only
  by an administrator, and `FailPaymentReconciliation` fails a run whoever works
  on it (`PaymentReconciliation`).

## 7. Plan

Done: the ledger and its transactions, the execution of a task and the commands
on it, payments and their reconciliation, the agent's journal and submissions, the web client's effects, and the
theorems of section 4. Next, in this order:

1. The agent's task store (compare-and-set of versions, outbox, compaction) and
   the web client's remote synchronisation with its rebased snapshots.
2. `RuntimeSlots`: slot leases, renewal, expiry, waiters; never more holders
   than the limit among live leases. `WorkerRuntime`: start, drain, stop.
3. `ProviderRecovery`: manual recovery beside workers, retries and the stale
   `wasRefunded`; `TaskAdmission`: creations against the active task limit.
4. `TextReplay`, `ResourceDeletion`, `ProxyBilling`.
5. `HostUpdate`, `ComfyBridge`.

## 8. Running it

    tlc -config MCCreditLedger.cfg MCCreditLedger.tla
    tlc -config Transactions.cfg MCCreditTransactions.tla
    tlc -config ExecutionFaults.cfg MCTaskExecution.tla
    tlc -config LifecycleCancel.cfg MCTaskLifecycle.tla
    tlc -config Payments.cfg MCPaymentReconciliation.tla
    tlc -config JournalFile.cfg MCJournalFile.tla
    tlc -config AgentSubmission.cfg MCAgentSubmission.tla
    tlc -config GenerationEffects.cfg MCGenerationEffects.tla
    tlapm CreditLedger_proofs.tla
    tlapm CreditTransactions_proofs.tla
    tlapm TaskExecution_proofs.tla
    tlapm TaskLifecycle_proofs.tla
    tlapm PaymentOrders_proofs.tla
    tlapm JournalFile_proofs.tla
    tlapm AgentSubmission_proofs.tla
    tlapm GenerationEffects_proofs.tla

and likewise for the other configurations; each takes a few minutes at most.
