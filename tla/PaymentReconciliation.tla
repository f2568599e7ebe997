----------------------- MODULE PaymentReconciliation -----------------------
(***************************************************************************)
(* The daily comparison of the provider's bill with the payment orders     *)
(* (internal/service/payment_reconciliation.go), beside everything         *)
(* PaymentOrders has, and what the two promise together: a payment credits *)
(* once, and one that was made is credited or reported.                    *)
(*                                                                         *)
(* The provider's bill of a day has every trade paid on it.  A bill whose  *)
(* rows differ from the signed query in amount or trade number ends in an  *)
(* error item, which stands for any item that credits nothing.             *)
(***************************************************************************)
EXTENDS PaymentOrders

VARIABLES
  dayOver,   \* the bill of the day can be downloaded
  run,       \* status of the day's payment_reconciliation_runs row
  items,     \* orders with an error item in the run
  audit      \* what the goroutine that reconciles is at

auditVars == <<dayOver, run, items, audit>>
recVars   == <<payVars, auditVars>>

RunStatus == {"none", "running", "failed", "completed"}

\* bill: rows not yet compared; pay: the row being confirmed; failed: error items.
Audit == [at : {"idle", "bill", "records", "query", "apply"}, bill : SUBSET Payments,
          failed : SUBSET Payments, pay : Payments \cup {NoPayment}, heard : Answers]

NoAudit == [at |-> "idle", bill |-> {}, failed |-> {}, pay |-> NoPayment, heard |-> "none"]

RecTypeOK ==
  /\ PaymentTypeOK
  /\ dayOver \in BOOLEAN
  /\ run \in RunStatus
  /\ items \in SUBSET Payments
  /\ audit \in Audit
  /\ audit.at \in {"query", "apply"} => audit.pay \in Payments

RecInit ==
  /\ PaymentInit
  /\ dayOver = FALSE
  /\ run = "none"
  /\ items = {}
  /\ audit = NoAudit

Paid == {p \in Payments : trade[p] = "paid"}

\* The bill is there the next morning, when every request of the day has ended.
EndDay ==
  /\ ~dayOver
  /\ \A c \in Requests : call[c] = Idle
  /\ dayOver' = TRUE
  /\ UNCHANGED <<payVars, run, items, audit>>

\* BeginPaymentReconciliation: a new run, or the old one again without its items.
BeginRun ==
  /\ run' = "running"
  /\ items' = {}
  /\ audit' = [NoAudit EXCEPT !.at = "bill"]
  /\ UNCHANGED <<payVars, dayOver>>

\* The half-hourly loop: no completed run, and none that somebody works on.
DailyReconciliation ==
  /\ dayOver /\ audit = NoAudit
  /\ run # "completed"
  /\ BeginRun

\* An administrator may repeat a completed run.
RunAgain ==
  /\ dayOver /\ audit = NoAudit
  /\ run = "completed"
  /\ BeginRun

\* The orders of the day that are credited, read just before the download.
CreditedPaymentOrdersBetween == {p \in Payments : status[p] = "credited"}

\* A day without trades has no bill, which is known only if the error is.
EmptyDay == /\ notFoundKnown
            /\ CreditedPaymentOrdersBetween = {}
            /\ \A p \in Payments : status[p] \notin Unresolved

\* A credited order that the bill does not have is an error item too.
DownloadTradeBill ==
  /\ audit.at = "bill"
  /\ Paid # {} \/ EmptyDay
  /\ audit' = [audit EXCEPT !.bill = Paid, !.failed = CreditedPaymentOrdersBetween \ Paid,
                 !.at = "records"]
  /\ UNCHANGED <<payVars, dayOver, run, items>>

FailPaymentReconciliation ==
  /\ audit.at \in {"bill", "records"}
  /\ \/ audit.at = "bill" /\ Paid = {} /\ ~EmptyDay /\ Calm
     \/ Trouble
  /\ run' = "failed"
  /\ audit' = NoAudit
  /\ UNCHANGED <<orderVars, trade, inbox, creditVars, call, notFoundKnown, dayOver, items>>

\* comparePaymentReconciliation: a row whose order is credited matches, any
\* other must be confirmed by a signed query.
CompareRow(p) ==
  /\ audit.at = "records" /\ p \in audit.bill
  /\ audit' = IF status[p] = "credited" THEN [audit EXCEPT !.bill = @ \ {p}]
              ELSE [audit EXCEPT !.bill = @ \ {p}, !.pay = p, !.at = "query"]
  /\ UNCHANGED <<payVars, dayOver, run, items>>

ConfirmRow ==
  /\ audit.at = "query"
  /\ \/ audit' = [audit EXCEPT !.heard = Answer(audit.pay), !.at = "apply"] /\ Calm
     \/ audit' = [audit EXCEPT !.heard = "error", !.at = "apply"] /\ Trouble
  /\ UNCHANGED <<orderVars, trade, inbox, creditVars, call, notFoundKnown, dayOver, run, items>>

NextRow == [audit EXCEPT !.pay = NoPayment, !.heard = "none", !.at = "records"]

RecoverRow ==
  /\ audit.at = "apply" /\ audit.heard = "paid"
  /\ CompletePaymentOrder(audit.pay)
  /\ audit' = NextRow
  /\ UNCHANGED <<expired, link, trade, inbox, call, troubles, notFoundKnown, dayOver, run, items>>

RowFailsVariant ==   \* a row that is not confirmed leaves no item
  LET p == audit.pay IN
  /\ audit.at = "apply"
  /\ \/ audit.heard # "paid" /\ Calm
     \/ audit.heard = "paid" /\ Refused(p) /\ Calm
     \/ audit.heard = "paid" /\ Trouble
  /\ audit' = NextRow
  /\ UNCHANGED <<orderVars, trade, inbox, creditVars, call, notFoundKnown, dayOver, run, items>>

RowFails ==
  LET p == audit.pay IN
  /\ audit.at = "apply"
  /\ \/ audit.heard # "paid" /\ Calm
     \/ audit.heard = "paid" /\ Refused(p) /\ Calm
     \/ audit.heard = "paid" /\ Trouble
  /\ audit' = [NextRow EXCEPT !.failed = @ \cup {p}]
  /\ UNCHANGED <<orderVars, trade, inbox, creditVars, call, notFoundKnown, dayOver, run, items>>

CompletePaymentReconciliation ==
  /\ audit.at = "records" /\ audit.bill = {}
  /\ run' = "completed"
  /\ items' = audit.failed
  /\ audit' = NoAudit
  /\ UNCHANGED <<payVars, dayOver>>

AuditCrash ==
  /\ audit # NoAudit
  /\ audit' = NoAudit
  /\ Trouble
  /\ UNCHANGED <<orderVars, trade, inbox, creditVars, call, notFoundKnown, dayOver, run, items>>

AuditStep ==
  \/ DownloadTradeBill
  \/ FailPaymentReconciliation
  \/ \E p \in Payments : CompareRow(p)
  \/ ConfirmRow
  \/ RecoverRow
  \/ RowFails
  \/ CompletePaymentReconciliation

\* Bound: once the bill is there nothing more is paid and only the loops query
\* and close orders.
NextMorning == Paid' = Paid /\ \A c \in Requests : UNCHANGED call[c]

PaymentStep ==
  /\ PaymentNext
  /\ dayOver => NextMorning
  /\ UNCHANGED auditVars

RecNext ==
  \/ PaymentStep
  \/ EndDay
  \/ DailyReconciliation
  \/ RunAgain
  \/ AuditStep
  \/ AuditCrash

RecSpec == RecInit /\ [][RecNext]_recVars

(***************************************************************************)
(* What topups promise.                                                    *)
(***************************************************************************)
\* An order is credited exactly when its ledger entry exists, and only for a
\* trade that was paid; one that is closed here is closed at the provider, so
\* that it cannot be paid any more, unless the provider never heard of it
\* (repository/payment.go:542: "Closed orders have already been confirmed
\* unpaid by query/close").
OrderMatchesTrade ==
  \A p \in Payments :
    /\ status[p] = "credited" <=> entry[Owner[p]][p] = 1
    /\ status[p] = "credited" => trade[p] = "paid"
    /\ status[p] = "closed" /\ trade[p] # "closed" => notFoundKnown

NoRows == [o \in {} |-> 0]

Ledger == INSTANCE CreditLedger WITH
  NoUser <- NoPayment, Orders <- {}, Prices <- {}, Costs <- {}, Codes <- {},
  References <- Payments \cup Gifts, Value <- Credits, Adjustments <- {}, CreditBound <- 0,
  reserved <- [u \in Users |-> 0], order <- NoRows, usage <- NoRows,
  ledgerAvailable <- NoRows, ledgerReserved <- NoRows,
  adjusted <- [u \in Users |-> 0], code <- NoRows

\* To the ledger every step of requests, loops and reconciliation is a grant
\* of a reference that nobody was paid for, or nothing at all: however often
\* and by whomever a payment is noticed, it credits once.
PaymentsAreGrants == Ledger!Spec

Alone(step) == step /\ UNCHANGED auditVars

\* Every call ends (a plugin is given up after its time limit), the loops tick,
\* time passes.  Nobody is assumed to pay, to follow a link or to notify.
OrderLoopGoes == LoopStep \/ Continue(OrderLoop)
InboxLoopGoes == Continue(InboxLoop) \/ \E p \in Payments : ProcessPaymentNotification(p)
TimePasses    == \E p \in Payments : Expire(p)

FairRecSpec ==
  /\ RecSpec
  /\ \A c \in Requests : WF_recVars(Alone(Continue(c)))
  /\ WF_recVars(Alone(OrderLoopGoes))
  /\ WF_recVars(Alone(InboxLoopGoes))
  /\ WF_recVars(Alone(TimePasses))
  /\ WF_recVars(EndDay)
  /\ WF_recVars(DailyReconciliation \/ AuditStep)

\* A payment that was made is credited, or the day's reconciliation reports it
\* to the administrators, or the balance has no room for it (line 259 of
\* repository/payment.go): notifications may all be lost, queries and their
\* answers fail and the order be closed as not found meanwhile.
PaidIsNotForgotten ==
  \A p \in Payments :
    trade[p] = "paid" ~> status[p] = "credited" \/ p \in items \/ Overflows(p)

Resolved(p) == status[p] \in {"closed", "credited"} \/ Overflows(p)

\* Unpaid orders are closed automatically after the minutes an administrator
\* sets (web/src/pages/admin/payments/payments-page.tsx:625) where the host
\* recognises that the provider has no such trade; where it does not, an order
\* whose link nobody followed is claimed, refused and put back for ever.
ExpiredEndsIfRecognised ==
  \A p \in Payments : p \in expired /\ notFoundKnown ~> Resolved(p)
=============================================================================
