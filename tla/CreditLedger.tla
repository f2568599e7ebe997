---------------------------- MODULE CreditLedger ----------------------------
(***************************************************************************)
(* The credit account, the billing orders and the credit ledger of         *)
(* internal/repository/finance.go, with every function of that file that   *)
(* moves credits as one atomic step.  This is what the rest of the backend *)
(* relies on; CreditTransactions shows when a database gives it.           *)
(*                                                                         *)
(* Amounts are microcredits.  A token order whose three prices are zero is *)
(* settled like a fixed order (zeroPricedTokenOrder), so it is one here.   *)
(* ReservedAmountMicrocredits equals AmountMicrocredits on every path that *)
(* writes it, so `amount` stands for both.                                 *)
(*                                                                         *)
(* An operator named ...Variant is a plausible mistake in the definition   *)
(* that follows it; no specification uses it (README, mutants).            *)
(***************************************************************************)
EXTENDS Integers, FiniteSets, FiniteSetsExt

CONSTANTS
  Users,        \* owners of credit accounts
  NoUser,       \* the user of an order that does not exist
  Orders,       \* billing order ids, each used at most once
  Prices,       \* amounts an order can be priced at
  Costs,        \* costs that a reported token usage can amount to
  Codes,        \* redeem codes
  References,   \* reference keys of one-off grants (signup:..., checkin:...)
  Value,        \* credits a code or a reference is worth
  Adjustments,  \* amounts an administrator can add or, when negative, remove
  CreditBound   \* bound: no adjustment lifts a balance above it

Sources == Codes \cup References

ASSUME LedgerConstants ==
  /\ NoUser \notin Users
  /\ Prices \subseteq Nat
  /\ Costs \subseteq Nat
  /\ Codes \cap References = {}
  /\ Value \in [Sources -> Nat]
  /\ Adjustments \subseteq Int
  /\ CreditBound \in Nat

VARIABLES
  available,        \* available_microcredits of each account
  reserved,         \* reserved_microcredits of each account
  order,            \* the billing order rows
  usage,            \* cost of the newest successful usage log of each order
  ledgerAvailable,  \* sum of the available deltas of an order's ledger entries
  ledgerReserved,   \* sum of the reserved deltas of an order's ledger entries
  adjusted,         \* sum of the administrator entries of each user
  entry,            \* ledger entries of each user for each code or reference
  code              \* status of each redeem code

accountVars == <<available, reserved>>
ledgerVars  == <<ledgerAvailable, ledgerReserved>>
creditVars  == <<adjusted, entry, code>>
vars == <<accountVars, order, usage, ledgerVars, creditVars>>

OpenStatus  == {"reserved", "running", "uncertain"}
OrderStatus == {"absent", "settled", "refunded"} \cup OpenStatus
Modes       == {"fixed", "token"}
NoUsage     == -1

OrderRow == [status : OrderStatus, user : Users \cup {NoUser}, mode : Modes,
             amount : Nat, actual : Nat]

NoOrder == [status |-> "absent", user |-> NoUser, mode |-> "fixed",
            amount |-> 0, actual |-> 0]

TypeOK ==
  /\ available \in [Users -> Int]
  /\ reserved \in [Users -> Nat]
  /\ order \in [Orders -> OrderRow]
  /\ \A o \in Orders : order[o].status # "absent" => order[o].user \in Users
  /\ usage \in [Orders -> Nat \cup {NoUsage}]
  /\ ledgerAvailable \in [Orders -> Int]
  /\ ledgerReserved \in [Orders -> Int]
  /\ adjusted \in [Users -> Int]
  /\ entry \in [Users -> [Sources -> Nat]]
  /\ code \in [Codes -> {"unused", "redeemed", "retired"}]

Init ==
  /\ available = [u \in Users |-> 0]
  /\ reserved = [u \in Users |-> 0]
  /\ order = [o \in Orders |-> NoOrder]
  /\ usage = [o \in Orders |-> NoUsage]
  /\ ledgerAvailable = [o \in Orders |-> 0]
  /\ ledgerReserved = [o \in Orders |-> 0]
  /\ adjusted = [u \in Users |-> 0]
  /\ entry = [u \in Users |-> [s \in Sources |-> 0]]
  /\ code = [c \in Codes |-> "unused"]

(***************************************************************************)
(* One ledger entry of order o: the same deltas on the account and on the  *)
(* sums of the order's entries.                                            *)
(***************************************************************************)
PostEntry(o, u, availableDelta, reservedDelta) ==
  /\ available' = [available EXCEPT ![u] = @ + availableDelta]
  /\ reserved' = [reserved EXCEPT ![u] = @ + reservedDelta]
  /\ ledgerAvailable' = [ledgerAvailable EXCEPT ![o] = @ + availableDelta]
  /\ ledgerReserved' = [ledgerReserved EXCEPT ![o] = @ + reservedDelta]

(***************************************************************************)
(* Billing orders.                                                         *)
(***************************************************************************)
ReserveVariant(o, u, mode, price) ==   \* available balance not compared
  /\ order[o].status = "absent"
  /\ order' = [order EXCEPT ![o] = [status |-> "reserved", user |-> u, mode |-> mode,
                                    amount |-> price, actual |-> 0]]
  /\ PostEntry(o, u, -price, price)
  /\ UNCHANGED <<usage, creditVars>>

\* Pre-authorisation: the whole price moves from available to reserved.
ReserveBillingOrder(o, u, mode, price) ==
  /\ order[o].status = "absent"
  /\ available[u] >= price
  /\ order' = [order EXCEPT ![o] = [status |-> "reserved", user |-> u, mode |-> mode,
                                    amount |-> price, actual |-> 0]]
  /\ PostEntry(o, u, -price, price)
  /\ UNCHANGED <<usage, creditVars>>

MarkBillingRunning(o) ==
  /\ order[o].status = "reserved"
  /\ order' = [order EXCEPT ![o].status = "running"]
  /\ UNCHANGED <<accountVars, usage, ledgerVars, creditVars>>

\* The hold is kept; only the status says that the cost is not known.
MarkBillingUncertain(o) ==
  /\ order[o].status \in {"reserved", "running"}
  /\ order' = [order EXCEPT ![o].status = "uncertain"]
  /\ UNCHANGED <<accountVars, usage, ledgerVars, creditVars>>

\* A successful call log with usage, which the provider client writes.
ObserveUsage(o, cost) ==
  /\ order[o].status # "absent"
  /\ usage' = [usage EXCEPT ![o] = cost]
  /\ UNCHANGED <<accountVars, order, ledgerVars, creditVars>>

\* What an order costs once its result is accepted.
CostKnown(o, row) == row.mode = "token" => usage[o] # NoUsage
Cost(o, row) == IF row.mode = "token" THEN usage[o] ELSE row.amount

SettleWritesVariant(o, row, cost) ==   \* the hold shrinks by the cost, not by the price
  /\ reserved[row.user] >= row.amount
  /\ PostEntry(o, row.user, row.amount - cost, -cost)
  /\ order' = [order EXCEPT ![o].status = "settled", ![o].actual = cost]
  /\ UNCHANGED <<usage, creditVars>>

\* The writes of SettleBillingOrder for an order read as `row`: the hold ends,
\* what it did not cost returns, what it cost more is taken.
SettleWrites(o, row, cost) ==
  /\ reserved[row.user] >= row.amount
  /\ PostEntry(o, row.user, row.amount - cost, -row.amount)
  /\ order' = [order EXCEPT ![o].status = "settled", ![o].actual = cost]
  /\ UNCHANGED <<usage, creditVars>>

SettleBillingOrder(o) ==
  /\ order[o].status \in OpenStatus
  /\ CostKnown(o, order[o])
  /\ SettleWrites(o, order[o], Cost(o, order[o]))

\* A settlement that rolls back after it read the usage keeps the cost it
\* computed on the order, unless the order was closed meanwhile; how the order
\* is priced by then is not looked at again.
KeepObservedCost(o, cost) ==
  /\ order[o].status \in OpenStatus
  /\ order' = [order EXCEPT ![o].actual = cost]
  /\ UNCHANGED <<accountVars, usage, ledgerVars, creditVars>>

\* The writes of RefundBillingOrder for an order read as `row`.
RefundWrites(o, row) ==
  /\ reserved[row.user] >= row.amount
  /\ PostEntry(o, row.user, row.amount, -row.amount)
  /\ order' = [order EXCEPT ![o].status = "refunded"]
  /\ UNCHANGED <<usage, creditVars>>

RefundTwiceVariant(o) ==   \* no early return for a refunded order
  /\ order[o].status \in OpenStatus \cup {"refunded"}
  /\ RefundWrites(o, order[o])

RefundSettledVariant(o) ==   \* no early return for a settled order
  /\ order[o].status \in OpenStatus \cup {"settled"}
  /\ RefundWrites(o, order[o])

RefundBillingOrder(o) ==
  /\ order[o].status \in OpenStatus
  /\ RefundWrites(o, order[o])

RestoreWritesVariant(o, row, cost) ==   \* the order update is unconditional too
  /\ PostEntry(o, row.user, -cost, 0)
  /\ order' = [order EXCEPT ![o].status = "settled", ![o].actual = cost]
  /\ UNCHANGED <<usage, creditVars>>

\* The writes of RestoreRefundedBillingOrder: the order update is conditional
\* on the row still being refunded, the account update is not.
RestoreWrites(o, row, cost) ==
  /\ order[o].status = "refunded"
  /\ PostEntry(o, row.user, -cost, 0)
  /\ order' = [order EXCEPT ![o].status = "settled", ![o].actual = cost]
  /\ UNCHANGED <<usage, creditVars>>

RestoreRefundedBillingOrder(o) ==
  /\ order[o].status = "refunded"
  /\ CostKnown(o, order[o])
  /\ RestoreWrites(o, order[o], Cost(o, order[o]))

RepriceWritesVariant(o, row, mode, price) ==   \* the amount of the order stays
  LET delta == price - row.amount IN
  /\ order[o].status \in {"reserved", "running"}
  /\ delta > 0 => available[row.user] >= delta
  /\ delta < 0 => reserved[row.user] >= -delta
  /\ PostEntry(o, row.user, -delta, delta)
  /\ order' = [order EXCEPT ![o].mode = mode]
  /\ UNCHANGED <<usage, creditVars>>

\* The billing part of SwitchTaskLogicalRoute: the hold moves to the price of
\* the next supply route.
RepriceWrites(o, row, mode, price) ==
  LET delta == price - row.amount IN
  /\ order[o].status \in {"reserved", "running"}
  /\ delta > 0 => available[row.user] >= delta
  /\ delta < 0 => reserved[row.user] >= -delta
  /\ PostEntry(o, row.user, -delta, delta)
  /\ order' = [order EXCEPT ![o].mode = mode, ![o].amount = price]
  /\ UNCHANGED <<usage, creditVars>>

RepriceBillingOrder(o, mode, price) ==
  /\ order[o].status \in {"reserved", "running"}
  /\ price > 0
  /\ RepriceWrites(o, order[o], mode, price)

(***************************************************************************)
(* Credits that no order explains.                                         *)
(***************************************************************************)
AdjustCreditsVariant(u, amount) ==   \* the account changes without a ledger entry
  /\ amount < 0 => available[u] + amount >= 0
  /\ amount > 0 => available[u] + amount <= CreditBound
  /\ available' = [available EXCEPT ![u] = @ + amount]
  /\ UNCHANGED <<reserved, order, usage, ledgerVars, creditVars>>

AdjustCredits(u, amount) ==
  /\ amount < 0 => available[u] + amount >= 0
  /\ amount > 0 => available[u] + amount <= CreditBound
  /\ available' = [available EXCEPT ![u] = @ + amount]
  /\ adjusted' = [adjusted EXCEPT ![u] = @ + amount]
  /\ UNCHANGED <<reserved, order, usage, ledgerVars, entry, code>>

\* One ledger entry of user u for a code or a reference key.
CreditFrom(u, source) ==
  /\ available' = [available EXCEPT ![u] = @ + Value[source]]
  /\ entry' = [entry EXCEPT ![u][source] = @ + 1]
  /\ UNCHANGED <<reserved, order, usage, ledgerVars, adjusted>>

RedeemCodeVariant(u, c) ==   \* the update of the code is not conditional
  /\ code[c] # "retired"
  /\ code' = [code EXCEPT ![c] = "redeemed"]
  /\ CreditFrom(u, c)

\* The code's status is taken over with a conditional update.
RedeemCode(u, c) ==
  /\ code[c] = "unused"
  /\ code' = [code EXCEPT ![c] = "redeemed"]
  /\ CreditFrom(u, c)

\* Disabled by an administrator with its batch, or expired.
RetireCode(c) ==
  /\ code[c] = "unused"
  /\ code' = [code EXCEPT ![c] = "retired"]
  /\ UNCHANGED <<accountVars, order, usage, ledgerVars, adjusted, entry>>

\* The unique reference key of the entry makes a repeated grant a no-op.
GrantCreditsOnce(u, r) ==
  /\ \A v \in Users : entry[v][r] = 0
  /\ CreditFrom(u, r)
  /\ UNCHANGED code

OrderStep(o) ==
  \/ \E u \in Users, mode \in Modes, price \in Prices :
       ReserveBillingOrder(o, u, mode, price)
  \/ MarkBillingRunning(o)
  \/ MarkBillingUncertain(o)
  \/ \E cost \in Costs : ObserveUsage(o, cost) \/ KeepObservedCost(o, cost)
  \/ SettleBillingOrder(o)
  \/ RefundBillingOrder(o)
  \/ RestoreRefundedBillingOrder(o)
  \/ \E mode \in Modes, price \in Prices : RepriceBillingOrder(o, mode, price)

CreditStep ==
  \/ \E u \in Users :
       \/ \E amount \in Adjustments : AdjustCredits(u, amount)
       \/ \E c \in Codes : RedeemCode(u, c)
       \/ \E r \in References : GrantCreditsOnce(u, r)
  \/ \E c \in Codes : RetireCode(c)

Next == CreditStep \/ \E o \in Orders : OrderStep(o)

Spec == Init /\ [][Next]_vars

(***************************************************************************)
(* What the ledger promises.                                               *)
(***************************************************************************)
IsOpen(o)   == order[o].status \in OpenStatus
Held(o)     == IF IsOpen(o) THEN order[o].amount ELSE 0
OrdersOf(u) == {o \in Orders : order[o].user = u}

Explained(o) ==
  /\ order[o].status \in {"absent", "refunded"} =>
       ledgerAvailable[o] = 0 /\ ledgerReserved[o] = 0
  /\ IsOpen(o) =>
       ledgerAvailable[o] = -order[o].amount /\ ledgerReserved[o] = order[o].amount
  /\ order[o].status = "settled" =>
       ledgerAvailable[o] = -order[o].actual /\ ledgerReserved[o] = 0

\* The ledger entries of an order add up to what its status says: an open
\* order moved its price from available to reserved, a refunded one nothing,
\* a settled one paid its actual cost (every path of finance.go that posts an
\* entry, in whatever order the calls of worker, reconciler and admin come).
LedgerExplainsOrders == \A o \in Orders : Explained(o)

\* The frozen balance of a user is exactly the sum of the holds of that user's
\* open orders, so no later settlement or refund meets "reserved credit
\* balance is inconsistent".
ReservedIsHeld ==
  \A u \in Users : reserved[u] = MapThenSumSet(Held, OrdersOf(u))

\* The spendable balance is what administrators, codes and grants brought in
\* and the orders took out: no credit is lost or made by a sequence of calls.
AvailableIsExplained ==
  \A u \in Users :
    available[u] = adjusted[u]
                     + MapThenSumSet(LAMBDA s : entry[u][s] * Value[s], Sources)
                     + MapThenSumSet(LAMBDA o : ledgerAvailable[o], OrdersOf(u))

\* A code or a reference key is paid out at most once over all users, and a
\* code is marked redeemed exactly when it was paid (RedeemCode's conditional
\* update, GrantCreditsOnce's unique key).
SourcePaysOnce ==
  \A s \in Sources :
    /\ \A u \in Users : entry[u][s] <= 1
    /\ \A u, v \in Users : entry[u][s] = 1 /\ entry[v][s] = 1 => u = v
    /\ s \in Codes => (code[s] = "redeemed" <=> \E u \in Users : entry[u][s] = 1)

\* A settled order is never refunded, charged again or changed: finance.go:951
\* answers "settled billing order requires a manual refund".
SettledIsFinal ==
  [][\A o \in Orders : order[o].status = "settled" =>
       UNCHANGED <<order[o], ledgerAvailable[o], ledgerReserved[o]>>]_vars

\* The balance of u is charged for an order that cost more than it held.
ChargedBeyondHold(u) ==
  \E o \in OrdersOf(u) : /\ order[o].status # "settled"
                         /\ order'[o].status = "settled"
                         /\ order'[o].actual > Held(o)

Overdraft ==
  \A u \in Users : available'[u] < available[u] /\ available'[u] < 0 => ChargedBeyondHold(u)

\* A balance sinks below zero only in a step that charges an order more than
\* the order still held: reservations, price changes and administrators never
\* overdraw (the available_microcredits >= ? conditions).
OverdraftOnlyByFinalCost == [][Overdraft]_vars
=============================================================================
