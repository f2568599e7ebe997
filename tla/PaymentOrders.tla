--------------------------- MODULE PaymentOrders ---------------------------
(***************************************************************************)
(* Topups: payment orders, their checkout at a payment provider, and the   *)
(* ways a payment is noticed (internal/service/payment.go,                 *)
(* internal/repository/payment.go).  A request of the user or of an        *)
(* administrator creates, refreshes, queries or closes an order; one loop  *)
(* closes expired orders and queries pending ones; the provider's          *)
(* notifications go through a durable inbox that another loop drains.  All *)
(* of them work on what they read or heard earlier, and any may die.       *)
(*                                                                         *)
(* An answer that belongs to another amount, currency or trade number is   *)
(* an error to every caller (ErrPaymentEvidenceMismatch), so it is heard   *)
(* as "error" here.  ...Variant: README, mutants.                          *)
(***************************************************************************)
EXTENDS Integers, FiniteSets

CONSTANTS
  Users,          \* owners of credit accounts
  Payments,       \* payment orders, one per idempotency key of a user
  NoPayment,
  Owner,          \* the user of each payment order
  Gifts,          \* references of other grants: signup, check-in, ...
  Credits,        \* what each payment order and each gift is worth
  MaxBalance,     \* maxPaymentCreditBalance
  MaxActive,      \* maxActivePaymentOrdersPerUser
  MaxAttempts,    \* attempts the inbox makes with a notification (20 in the code)
  NotFoundKnown,  \* whether the host recognises ErrOrderNotFound; both may be considered
  Requests,       \* goroutines of HTTP requests
  OrderLoop,      \* the loop that closes expired orders and queries pending ones
  InboxLoop,      \* the loop that drains the notifications
  MaxTroubles     \* bound: errors, lost answers and crashes

Callers == Requests \cup {OrderLoop, InboxLoop}

ASSUME PaymentConstants ==
  /\ Owner \in [Payments -> Users]
  /\ Payments \cap Gifts = {}
  /\ Credits \in [Payments \cup Gifts -> Nat]
  /\ MaxBalance \in Nat
  /\ MaxActive \in Nat
  /\ MaxAttempts \in Nat
  /\ MaxTroubles \in Nat
  /\ NotFoundKnown \subseteq BOOLEAN
  /\ NoPayment \notin Payments

VARIABLES
  status,         \* status of each payment order
  expired,        \* orders whose expires_at has passed
  link,           \* orders whose checkout a user has been given
  trade,          \* the provider's trade for each order
  inbox,          \* the notification about each order
  available,      \* available_microcredits of each account
  entry,          \* ledger entries of each user for each payment order and gift
  call,           \* what each goroutine is at
  troubles,
  notFoundKnown   \* fixed: ErrOrderNotFound survives the way from the provider's adapter

orderVars  == <<status, expired, link>>
creditVars == <<available, entry>>
payVars    == <<orderVars, trade, inbox, creditVars, call, troubles, notFoundKnown>>

Unresolved    == {"created", "pending", "closing", "create_failed"}
Claimable     == Unresolved \ {"closing"}
PaymentStatus == {"absent", "closed", "credited"} \cup Unresolved
TradeStatus   == {"none", "open", "closed", "paid"}
InboxStatus   == {"none", "pending", "failed", "processed"}
Answers       == {"none", "open", "closed", "paid", "missing", "error"}
Batches       == {"expire", "poll"}
Operations    == {"idle", "create", "refresh", "query", "close", "notify"} \cup Batches
Places        == {"idle", "insert", "offer", "checkout", "unoffered", "query", "apply",
                  "close", "recheck", "reapply", "restore", "next", "mark", "retry"}

Call == [op : Operations, pay : Payments \cup {NoPayment}, at : Places, heard : Answers,
         missing : BOOLEAN, todo : SUBSET Payments]

Idle == [op |-> "idle", pay |-> NoPayment, at |-> "idle", heard |-> "none",
         missing |-> FALSE, todo |-> {}]

PaymentTypeOK ==
  /\ status \in [Payments -> PaymentStatus]
  /\ expired \in SUBSET Payments
  /\ link \in SUBSET Payments
  /\ trade \in [Payments -> TradeStatus]
  /\ inbox \in [Payments -> [status : InboxStatus, attempts : 0..MaxAttempts]]
  /\ available \in [Users -> Nat]
  /\ entry \in [Users -> [Payments \cup Gifts -> Nat]]
  /\ call \in [Callers -> Call]
  /\ \A c \in Callers : call[c].at \notin {"idle", "next"} => call[c].pay \in Payments
  /\ troubles \in 0..MaxTroubles
  /\ notFoundKnown \in BOOLEAN

PaymentInit ==
  /\ status = [p \in Payments |-> "absent"]
  /\ expired = {}
  /\ link = {}
  /\ trade = [p \in Payments |-> "none"]
  /\ inbox = [p \in Payments |-> [status |-> "none", attempts |-> 0]]
  /\ available = [u \in Users |-> 0]
  /\ entry = [u \in Users |-> [r \in Payments \cup Gifts |-> 0]]
  /\ call = [c \in Callers |-> Idle]
  /\ troubles = 0
  /\ notFoundKnown \in NotFoundKnown

Calm    == UNCHANGED troubles
Trouble == troubles < MaxTroubles /\ troubles' = troubles + 1

(***************************************************************************)
(* The statements of the repository, for one order.                        *)
(***************************************************************************)
Active(u) == {p \in Payments : Owner[p] = u /\ status[p] \in Unresolved}

Overflows(p)       == available[Owner[p]] > MaxBalance - Credits[p]

CompleteVariant(p) ==   \* the lock of the row and the ledger's reference do not stop a second grant
  /\ ~Overflows(p)
  /\ status' = [status EXCEPT ![p] = "credited"]
  /\ entry' = [entry EXCEPT ![Owner[p]][p] = @ + 1]
  /\ available' = [available EXCEPT ![Owner[p]] = @ + Credits[p]]

\* The one transaction that credits: the order's row is locked, the ledger's
\* reference key is unique, the balance must not overflow.
CompletePaymentOrder(p) ==
  \/ /\ status[p] = "credited"
     /\ UNCHANGED <<status, creditVars>>
  \/ /\ status[p] # "credited"
     /\ \A u \in Users : entry[u][p] = 0
     /\ ~Overflows(p)
     /\ status' = [status EXCEPT ![p] = "credited"]
     /\ entry' = [entry EXCEPT ![Owner[p]][p] = @ + 1]
     /\ available' = [available EXCEPT ![Owner[p]] = @ + Credits[p]]

MarkClosedVariant(p) == status' = [status EXCEPT ![p] = "closed"]   \* unconditional

\* Its ways to fail: the ledger has the reference already, or the balance is full.
Refused(p) == /\ status[p] # "credited"
              /\ Overflows(p) \/ \E u \in Users : entry[u][p] > 0

\* Conditional on the row; a credited or closed order is left as it is.
MarkPaymentOrderClosed(p) ==
  status' = IF status[p] \in Unresolved THEN [status EXCEPT ![p] = "closed"] ELSE status

(***************************************************************************)
(* How a call goes on.  A batch of the loop takes its next order; what     *)
(* failed is put back (RestoreClosingPaymentOrder) or counted              *)
(* (RetryPaymentNotification) by the operations that do so.                *)
(***************************************************************************)
Moves(c, place) == call' = [call EXCEPT ![c].at = place, ![c].heard = "none"]

Ended(k) == IF k.op \in Batches THEN [Idle EXCEPT !.op = k.op, !.at = "next", !.todo = k.todo]
            ELSE Idle

Done(c) == call' = [call EXCEPT ![c] = Ended(@)]

Succeeds(c) == IF call[c].op = "notify" THEN Moves(c, "mark") ELSE Done(c)

\* A failed create is recorded; a checkout that met another status finds none.
Fails(c) == CASE call[c].op = "expire" -> Moves(c, "restore")
              [] call[c].op = "notify" -> Moves(c, "retry")
              [] call[c].op = "create" /\ call[c].at \in {"offer", "checkout"} -> Moves(c, "unoffered")
              [] OTHER -> Done(c)

Begins(c, op, p, place) ==
  /\ call[c] = Idle
  /\ call' = [call EXCEPT ![c] = [Idle EXCEPT !.op = op, !.pay = p, !.at = place]]
  /\ Calm
  /\ UNCHANGED <<orderVars, trade, inbox, creditVars, notFoundKnown>>

(***************************************************************************)
(* Requests: what they check before they act.                              *)
(***************************************************************************)
BeginCreate(c, p) ==
  /\ status[p] = "absent"
  /\ Cardinality(Active(Owner[p])) < MaxActive
  /\ Begins(c, "create", p, "insert")

BeginRefresh(c, p) ==
  /\ status[p] \in {"pending", "create_failed"}
  /\ p \notin expired
  /\ Begins(c, "refresh", p, "query")

BeginQuery(c, p) ==
  /\ status[p] \in Unresolved
  /\ Begins(c, "query", p, "query")

BeginClose(c, p) ==
  /\ status[p] \in Unresolved
  /\ Begins(c, "close", p, "query")

\* The idempotency key: a second request finds the row of the first.
CreatePaymentOrder(c) ==
  LET p == call[c].pay IN
  /\ call[c].at = "insert"
  /\ \/ /\ status[p] = "absent"
        /\ status' = [status EXCEPT ![p] = "created"]
        /\ Moves(c, "offer")
     \/ /\ status[p] # "absent"
        /\ Done(c)
        /\ UNCHANGED status
  /\ Calm
  /\ UNCHANGED <<expired, link, trade, inbox, creditVars, notFoundKnown>>

\* WeChat opens the trade now, Alipay's signed link opens it when it is followed.
MayOpen(p) == \/ trade[p] = "none" /\ trade' = [trade EXCEPT ![p] = "open"]
              \/ UNCHANGED trade

Offered(c) ==
  /\ call[c].at = "offer"
  /\ MayOpen(call[c].pay)
  /\ Moves(c, "checkout")
  /\ Calm
  /\ UNCHANGED <<orderVars, inbox, creditVars, notFoundKnown>>

\* The provider refuses an ended trade; its answer may be lost, or never come.
NotOffered(c) ==
  /\ call[c].at = "offer"
  /\ \/ trade[call[c].pay] \in {"closed", "paid"} /\ UNCHANGED trade /\ Calm
     \/ MayOpen(call[c].pay) /\ Trouble
  /\ Fails(c)
  /\ UNCHANGED <<orderVars, inbox, creditVars, notFoundKnown>>

SetPaymentOrderCheckout(c) ==
  LET p == call[c].pay IN
  /\ call[c].at = "checkout"
  /\ \/ /\ status[p] \in Claimable
        /\ status' = [status EXCEPT ![p] = "pending"]
        /\ link' = link \cup {p}
        /\ Done(c)
        /\ Calm
     \/ /\ (status[p] \notin Claimable /\ Calm) \/ Trouble
        /\ Fails(c)
        /\ UNCHANGED <<status, link>>
  /\ UNCHANGED <<expired, trade, inbox, creditVars, notFoundKnown>>

SetPaymentOrderCreateFailure(c) ==
  LET p == call[c].pay IN
  /\ call[c].at = "unoffered"
  /\ status' = IF status[p] = "created" THEN [status EXCEPT ![p] = "create_failed"] ELSE status
  /\ Done(c)
  /\ Calm
  /\ UNCHANGED <<expired, link, trade, inbox, creditVars, notFoundKnown>>

(***************************************************************************)
(* Query, close and query again: queryPaymentOrder, closePaymentOrder and  *)
(* the query RefreshPaymentCheckout begins with.                           *)
(***************************************************************************)
NotFound == IF notFoundKnown THEN "missing" ELSE "error"
Answer(p) == IF trade[p] = "none" THEN NotFound ELSE trade[p]

QueryOrder(c) ==
  /\ call[c].at \in {"query", "recheck"}
  /\ \E answer \in {Answer(call[c].pay), "error"} :
       /\ answer = "error" /\ Answer(call[c].pay) # "error" => Trouble
       /\ answer = Answer(call[c].pay) => Calm
       /\ call' = [call EXCEPT ![c].heard = answer,
                     ![c].at = IF @ = "query" THEN "apply" ELSE "reapply"]
  /\ UNCHANGED <<orderVars, trade, inbox, creditVars, notFoundKnown>>

Hears(c, answer) == call[c].at \in {"apply", "reapply"} /\ call[c].heard = answer

\* applyPaymentResult with a paid answer, or a notification.
ApplyPaid(c) ==
  /\ Hears(c, "paid")
  /\ CompletePaymentOrder(call[c].pay)
  /\ Succeeds(c)
  /\ Calm
  /\ UNCHANGED <<expired, link, trade, inbox, notFoundKnown>>

ApplyClosed(c) ==
  /\ Hears(c, "closed")
  /\ MarkPaymentOrderClosed(call[c].pay)
  /\ Succeeds(c)
  /\ Calm
  /\ UNCHANGED <<expired, link, trade, inbox, creditVars, notFoundKnown>>

\* The transaction refuses, or the database fails.
ApplyFails(c) ==
  /\ \/ Hears(c, "paid") /\ Refused(call[c].pay) /\ Calm
     \/ (Hears(c, "paid") \/ Hears(c, "closed")) /\ Trouble
  /\ Fails(c)
  /\ UNCHANGED <<orderVars, trade, inbox, creditVars, notFoundKnown>>

\* The trade can still be paid, or does not exist as far as the host can tell.
AfterQuery(c) ==
  /\ call[c].at = "apply" /\ call[c].heard \in {"open", "missing"}
  /\ CASE call[c].op = "refresh"           -> Moves(c, "offer")
       [] call[c].op \in {"query", "poll"} -> Done(c)
       [] OTHER -> call' = [call EXCEPT ![c].at = "close", ![c].heard = "none",
                              ![c].missing = call[c].heard = "missing"]
  /\ Calm
  /\ UNCHANGED <<orderVars, trade, inbox, creditVars, notFoundKnown>>

QueryFails(c) ==
  /\ \/ Hears(c, "error")
     \/ call[c].at = "reapply" /\ call[c].heard = "open"
     \/ call[c].at = "reapply" /\ call[c].heard = "missing" /\ ~call[c].missing
  /\ Fails(c)
  /\ Calm
  /\ UNCHANGED <<orderVars, trade, inbox, creditVars, notFoundKnown>>

\* The provider closes an open trade; its answer is applied like a query's.
CloseOrder(c) ==
  LET p == call[c].pay IN
  /\ call[c].at = "close"
  /\ trade[p] = "open"
  /\ trade' = [trade EXCEPT ![p] = "closed"]
  /\ call' = [call EXCEPT ![c].heard = "closed", ![c].at = "apply", ![c].missing = FALSE]
  /\ Calm
  /\ UNCHANGED <<orderVars, inbox, creditVars, notFoundKnown>>

\* It refuses a trade that has ended or does not exist; or the answer is lost.
CloseFails(c) ==
  LET p == call[c].pay IN
  /\ call[c].at = "close"
  /\ \/ /\ trade[p] # "open"
        /\ call' = [call EXCEPT ![c].at = "recheck",
                      ![c].missing = @ /\ trade[p] = "none"]
        /\ Calm /\ UNCHANGED trade
     \/ /\ Trouble
        /\ trade' \in {trade, IF trade[p] = "open" THEN [trade EXCEPT ![p] = "closed"] ELSE trade}
        /\ call' = [call EXCEPT ![c].at = "recheck", ![c].missing = FALSE]
  /\ UNCHANGED <<orderVars, inbox, creditVars, notFoundKnown>>

\* Three times not found: the order is closed here although its link may live.
CloseMissing(c) ==
  /\ call[c].at = "reapply" /\ call[c].heard = "missing" /\ call[c].missing
  /\ MarkPaymentOrderClosed(call[c].pay)
  /\ Done(c)
  /\ Calm
  /\ UNCHANGED <<expired, link, trade, inbox, creditVars, notFoundKnown>>

(***************************************************************************)
(* The loop of the orders: claim the expired, close each, query the rest.  *)
(* A closing order with nobody at it (its updated_at is old) is claimed    *)
(* again.  That an order queried within the last half minute is skipped is *)
(* left out.                                                               *)
(***************************************************************************)
ExpiredVariant == {p \in Payments : status[p] \in Claimable /\ p \in expired}   \* closing is left to others

Expired == {p \in Payments : \/ status[p] \in Claimable /\ p \in expired
                             \/ status[p] = "closing"}
Pending == {p \in Payments : status[p] \in Claimable}

Batch(op, orders) == call' = [call EXCEPT ![OrderLoop] = [Idle EXCEPT !.op = op, !.at = "next", !.todo = orders]]

ClaimExpiredPaymentOrders ==
  /\ call[OrderLoop] = Idle
  /\ Expired # {}
  /\ status' = [p \in Payments |-> IF p \in Expired THEN "closing" ELSE status[p]]
  /\ Batch("expire", Expired)
  /\ Calm
  /\ UNCHANGED <<expired, link, trade, inbox, creditVars, notFoundKnown>>

PaymentOrdersNeedingQuery ==
  /\ \/ call[OrderLoop] = Idle /\ Expired = {} /\ Pending # {}
     \/ call[OrderLoop].op = "expire" /\ call[OrderLoop].at = "next" /\ call[OrderLoop].todo = {}
  /\ Batch("poll", Pending)
  /\ Calm
  /\ UNCHANGED <<orderVars, trade, inbox, creditVars, notFoundKnown>>

NextInBatch(p) ==
  /\ call[OrderLoop].at = "next" /\ p \in call[OrderLoop].todo
  /\ call' = [call EXCEPT ![OrderLoop].pay = p, ![OrderLoop].at = "query",
                ![OrderLoop].todo = @ \ {p}]
  /\ Calm
  /\ UNCHANGED <<orderVars, trade, inbox, creditVars, notFoundKnown>>

EndBatch ==
  /\ call[OrderLoop].op = "poll" /\ call[OrderLoop].at = "next" /\ call[OrderLoop].todo = {}
  /\ call' = [call EXCEPT ![OrderLoop] = Idle]
  /\ Calm
  /\ UNCHANGED <<orderVars, trade, inbox, creditVars, notFoundKnown>>

RestoreClosingPaymentOrder(c) ==
  LET p == call[c].pay IN
  /\ call[c].at = "restore"
  /\ status' = IF status[p] = "closing" THEN [status EXCEPT ![p] = "pending"] ELSE status
  /\ Done(c)
  /\ Calm
  /\ UNCHANGED <<expired, link, trade, inbox, creditVars, notFoundKnown>>

(***************************************************************************)
(* Notifications.  A repeated one conflicts with the row of the first.     *)
(***************************************************************************)
SaveVerifiedPaymentNotification(p) ==
  /\ trade[p] = "paid"
  /\ inbox[p].status = "none"
  /\ inbox' = [inbox EXCEPT ![p].status = "pending"]
  /\ Calm
  /\ UNCHANGED <<orderVars, trade, creditVars, call, notFoundKnown>>

ProcessVariant(p) ==   \* attempts are counted and not limited
  /\ inbox[p].status \in {"pending", "failed"}
  /\ call[InboxLoop] = Idle
  /\ call' = [call EXCEPT ![InboxLoop] = [Idle EXCEPT !.op = "notify", !.pay = p,
                                            !.at = "apply", !.heard = "paid"]]
  /\ Calm
  /\ UNCHANGED <<orderVars, trade, inbox, creditVars, notFoundKnown>>

\* The drain of the inbox, and the attempt AcceptPaymentNotification makes at once.
ProcessPaymentNotification(p) ==
  /\ inbox[p].status \in {"pending", "failed"}
  /\ inbox[p].attempts < MaxAttempts
  /\ call[InboxLoop] = Idle
  /\ call' = [call EXCEPT ![InboxLoop] = [Idle EXCEPT !.op = "notify", !.pay = p,
                                            !.at = "apply", !.heard = "paid"]]
  /\ Calm
  /\ UNCHANGED <<orderVars, trade, inbox, creditVars, notFoundKnown>>

CompletePaymentNotification(c) ==
  /\ call[c].at = "mark"
  /\ \/ inbox' = [inbox EXCEPT ![call[c].pay].status = "processed"] /\ Done(c) /\ Calm
     \/ UNCHANGED inbox /\ Fails(c) /\ Trouble
  /\ UNCHANGED <<orderVars, trade, creditVars, notFoundKnown>>

RetryPaymentNotification(c) ==
  /\ call[c].at = "retry"
  /\ inbox' = [inbox EXCEPT ![call[c].pay] = [status |-> "failed", attempts |-> @.attempts + 1]]
  /\ Done(c)
  /\ Calm
  /\ UNCHANGED <<orderVars, trade, creditVars, notFoundKnown>>

(***************************************************************************)
(* Around the program: time, users with a link, the provider, crashes.     *)
(***************************************************************************)
Expire(p) ==
  /\ status[p] # "absent" /\ p \notin expired
  /\ expired' = expired \cup {p}
  /\ Calm
  /\ UNCHANGED <<status, link, trade, inbox, creditVars, call, notFoundKnown>>

TradeMoves(p, from, to) ==
  /\ trade[p] = from
  /\ trade' = [trade EXCEPT ![p] = to]
  /\ Calm
  /\ UNCHANGED <<orderVars, inbox, creditVars, call, notFoundKnown>>

FollowLink(p) == p \in link /\ TradeMoves(p, "none", "open")
Pay(p)        == p \in link /\ TradeMoves(p, "open", "paid")
Lapse(p)      == p \in expired /\ TradeMoves(p, "open", "closed")

\* GrantCreditsOnce, for the other references; it has no upper limit.  Bound:
\* before the user's first order.
GrantGift(u, g) ==
  /\ \A p \in Payments : Owner[p] = u => status[p] = "absent"
  /\ \A v \in Users : entry[v][g] = 0
  /\ entry' = [entry EXCEPT ![u][g] = @ + 1]
  /\ available' = [available EXCEPT ![u] = @ + Credits[g]]
  /\ Calm
  /\ UNCHANGED <<orderVars, trade, inbox, call, notFoundKnown>>

Crash(c) ==
  /\ call[c] # Idle
  /\ call' = [call EXCEPT ![c] = Idle]
  /\ Trouble
  /\ UNCHANGED <<orderVars, trade, inbox, creditVars, notFoundKnown>>

Request(c, p) ==
  \/ BeginCreate(c, p)
  \/ BeginRefresh(c, p)
  \/ BeginQuery(c, p)
  \/ BeginClose(c, p)

Continue(c) ==
  \/ CreatePaymentOrder(c)
  \/ Offered(c)
  \/ NotOffered(c)
  \/ SetPaymentOrderCheckout(c)
  \/ SetPaymentOrderCreateFailure(c)
  \/ QueryOrder(c)
  \/ ApplyPaid(c)
  \/ ApplyClosed(c)
  \/ ApplyFails(c)
  \/ AfterQuery(c)
  \/ QueryFails(c)
  \/ CloseOrder(c)
  \/ CloseFails(c)
  \/ CloseMissing(c)
  \/ RestoreClosingPaymentOrder(c)
  \/ CompletePaymentNotification(c)
  \/ RetryPaymentNotification(c)

LoopStep ==
  \/ ClaimExpiredPaymentOrders
  \/ PaymentOrdersNeedingQuery
  \/ \E p \in Payments : NextInBatch(p)
  \/ EndBatch

World(p) ==
  \/ SaveVerifiedPaymentNotification(p)
  \/ Expire(p)
  \/ FollowLink(p)
  \/ Pay(p)
  \/ Lapse(p)

PaymentNext ==
  \/ \E c \in Requests, p \in Payments : Request(c, p)
  \/ \E c \in Callers : Continue(c) \/ Crash(c)
  \/ LoopStep
  \/ \E p \in Payments : World(p) \/ ProcessPaymentNotification(p)
  \/ \E u \in Users, g \in Gifts : GrantGift(u, g)

PaymentSpec == PaymentInit /\ [][PaymentNext]_payVars
=============================================================================
