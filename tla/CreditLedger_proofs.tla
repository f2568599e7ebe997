------------------------ MODULE CreditLedger_proofs -------------------------
(***************************************************************************)
(* Proofs about CreditLedger for every set of users, orders, prices, costs *)
(* and codes.  The inductive invariant is the type invariant together with *)
(* LedgerExplainsOrders: each constrains one order at a time, so a step on *)
(* one order is checked against that order's row and ledger sums alone.    *)
(* The last part adds the two balances as sums over the orders of a user:  *)
(* they are inductive once every user is known to have finitely many.      *)
(***************************************************************************)
EXTENDS CreditLedger, FiniteSetTheorems, TLAPS

\* The initial state has the types the rest of the backend expects.
LEMMA InitType == Init => TypeOK
  BY LedgerConstants DEF Init, TypeOK, OrderRow, NoOrder, OrderStatus, OpenStatus,
       Modes, NoUsage

\* Posting an entry keeps the account and the ledger sums integers, and the
\* frozen balance a natural number when the entry does not release more than
\* is frozen (PostEntry, the conditional account updates).
LEMMA PostEntryType ==
  ASSUME TypeOK, NEW o \in Orders, NEW u \in Users, NEW a \in Int, NEW r \in Int,
         reserved[u] + r >= 0, PostEntry(o, u, a, r)
  PROVE  /\ available' \in [Users -> Int]
         /\ reserved' \in [Users -> Nat]
         /\ ledgerAvailable' \in [Orders -> Int]
         /\ ledgerReserved' \in [Orders -> Int]
         /\ ledgerAvailable'[o] = ledgerAvailable[o] + a
         /\ ledgerReserved'[o] = ledgerReserved[o] + r
         /\ \A p \in Orders \ {o} : /\ ledgerAvailable'[p] = ledgerAvailable[p]
                                    /\ ledgerReserved'[p] = ledgerReserved[p]
  BY DEF TypeOK, PostEntry

\* The steps that credit a user from a code, a grant or an administrator keep
\* the types and touch no order (AdjustCredits, RedeemCode, GrantCreditsOnce).
LEMMA CreditStepType ==
  ASSUME TypeOK, CreditStep
  PROVE  TypeOK' /\ UNCHANGED <<order, usage, ledgerVars>>
<1> USE LedgerConstants DEF TypeOK, accountVars, ledgerVars, creditVars
<1>1. ASSUME NEW u \in Users, NEW amount \in Adjustments, AdjustCredits(u, amount)
      PROVE  TypeOK' /\ UNCHANGED <<order, usage, ledgerVars>>
  BY <1>1 DEF AdjustCredits
<1>2. ASSUME NEW u \in Users, NEW s \in Sources, CreditFrom(u, s)
      PROVE  /\ available' \in [Users -> Int]
             /\ entry' \in [Users -> [Sources -> Nat]]
             /\ UNCHANGED <<reserved, adjusted, order, usage, ledgerVars>>
  <2>1. Value[s] \in Nat /\ entry[u][s] + 1 \in Nat
    BY <1>2
  <2>2. available' \in [Users -> Int]
    BY <1>2, <2>1 DEF CreditFrom
  <2>3. entry' \in [Users -> [Sources -> Nat]]
    BY <1>2, <2>1 DEF CreditFrom
  <2> QED BY <1>2, <2>2, <2>3 DEF CreditFrom
<1>3. ASSUME NEW u \in Users, NEW c \in Codes, RedeemCode(u, c)
      PROVE  TypeOK' /\ UNCHANGED <<order, usage, ledgerVars>>
  <2>1. c \in Sources /\ CreditFrom(u, c)
    BY <1>3 DEF RedeemCode, Sources
  <2>2. code' \in [Codes -> {"unused", "redeemed", "retired"}]
    BY <1>3 DEF RedeemCode
  <2> QED BY <2>1, <2>2, <1>2
<1>4. ASSUME NEW u \in Users, NEW r \in References, GrantCreditsOnce(u, r)
      PROVE  TypeOK' /\ UNCHANGED <<order, usage, ledgerVars>>
  <2>1. r \in Sources /\ CreditFrom(u, r) /\ UNCHANGED code
    BY <1>4 DEF GrantCreditsOnce, Sources
  <2> QED BY <2>1, <1>2
<1>5. ASSUME NEW c \in Codes, RetireCode(c)
      PROVE  TypeOK' /\ UNCHANGED <<order, usage, ledgerVars>>
  BY <1>5 DEF RetireCode
<1> QED BY <1>1, <1>3, <1>4, <1>5 DEF CreditStep

\* A row of an existing order has a user, a natural amount and actual cost.
LEMMA RowType ==
  ASSUME TypeOK, NEW o \in Orders, order[o].status # "absent"
  PROVE  /\ order[o] \in OrderRow
         /\ order[o].user \in Users
         /\ order[o].amount \in Nat
         /\ order[o].actual \in Nat
         /\ reserved[order[o].user] \in Nat
  BY DEF TypeOK, OrderRow

\* The final cost of an order whose cost is known is a natural number (Cost).
LEMMA CostType ==
  ASSUME TypeOK, NEW o \in Orders, order[o].status # "absent", CostKnown(o, order[o])
  PROVE  Cost(o, order[o]) \in Nat
  BY RowType DEF TypeOK, CostKnown, Cost, NoUsage

\* A step that posts an entry for order o and puts a well-formed row in its
\* place keeps TypeOK, and keeps every other order explained.
LEMMA PostedOrderStep ==
  ASSUME TypeOK, LedgerExplainsOrders, NEW o \in Orders, NEW u \in Users,
         NEW a \in Int, NEW r \in Int, reserved[u] + r >= 0, PostEntry(o, u, a, r),
         NEW row \in OrderRow, row.user \in Users, order' = [order EXCEPT ![o] = row],
         UNCHANGED <<usage, creditVars>>,
         Explained(o)'
  PROVE  TypeOK' /\ LedgerExplainsOrders'
<1>1. /\ available' \in [Users -> Int]
      /\ reserved' \in [Users -> Nat]
      /\ ledgerAvailable' \in [Orders -> Int]
      /\ ledgerReserved' \in [Orders -> Int]
      /\ \A p \in Orders \ {o} : /\ ledgerAvailable'[p] = ledgerAvailable[p]
                                 /\ ledgerReserved'[p] = ledgerReserved[p]
  BY PostEntryType
<1>2. /\ order' \in [Orders -> OrderRow]
      /\ order'[o] = row
      /\ \A p \in Orders \ {o} : order'[p] = order[p]
  BY DEF TypeOK
<1>3. \A p \in Orders : order'[p].status # "absent" => order'[p].user \in Users
  BY <1>2 DEF TypeOK
<1>4. TypeOK'
  BY <1>1, <1>2, <1>3 DEF TypeOK, creditVars
<1>5. \A p \in Orders \ {o} : Explained(p)'
  BY <1>1, <1>2 DEF Explained, LedgerExplainsOrders, IsOpen
<1>6. LedgerExplainsOrders'
  BY <1>5 DEF Explained, LedgerExplainsOrders
<1> QED BY <1>4, <1>6

\* An order that ends with a status, a cost and an entry that closes its sums
\* stays explained (SettleBillingOrder, RefundBillingOrder, Restore...).
LEMMA ClosedOrderStep ==
  ASSUME TypeOK, LedgerExplainsOrders, NEW o \in Orders,
         NEW s \in {"settled", "refunded"}, NEW cost \in Nat,
         NEW a \in Int, NEW r \in Int, order[o].status # "absent",
         PostEntry(o, order[o].user, a, r), reserved[order[o].user] + r >= 0,
         \/ order' = [order EXCEPT ![o].status = s, ![o].actual = cost]
         \/ s = "refunded" /\ order' = [order EXCEPT ![o].status = s],
         s = "refunded" => ledgerAvailable[o] + a = 0,
         s = "settled" => ledgerAvailable[o] + a = -cost,
         ledgerReserved[o] + r = 0,
         UNCHANGED <<usage, creditVars>>
  PROVE  TypeOK' /\ LedgerExplainsOrders'
<1>0. Explained(o) /\ order[o] \in OrderRow /\ o \in DOMAIN order
  BY DEF LedgerExplainsOrders, TypeOK
<1>1. PICK final \in Nat :
        /\ order' = [order EXCEPT ![o] = [@ EXCEPT !.status = s, !.actual = final]]
        /\ s = "settled" => final = cost
  <2>1. CASE order' = [order EXCEPT ![o].status = s, ![o].actual = cost]
    BY <2>1
  <2>2. CASE s = "refunded" /\ order' = [order EXCEPT ![o].status = s]
    <3>1. [order[o] EXCEPT !.status = s]
            = [order[o] EXCEPT !.status = s, !.actual = order[o].actual]
      BY <1>0 DEF OrderRow
    <3>2. order[o].actual \in Nat
      BY RowType
    <3> QED BY <2>2, <3>1, <3>2
  <2> QED BY <2>1, <2>2
<1> DEFINE row == [order[o] EXCEPT !.status = s, !.actual = final]
<1>2. /\ row \in OrderRow /\ row.user = order[o].user /\ row.user \in Users
      /\ row.status = s /\ row.actual = final
  BY <1>0, RowType DEF OrderRow, OrderStatus
<1>3. order' = [order EXCEPT ![o] = row] /\ order'[o] = row
  BY <1>1, <1>0 DEF TypeOK
<1>4. /\ ledgerAvailable'[o] = ledgerAvailable[o] + a
      /\ ledgerReserved'[o] = ledgerReserved[o] + r
  BY <1>2, PostEntryType
<1>5. Explained(o)'
  BY <1>1, <1>2, <1>3, <1>4 DEF Explained, IsOpen, OpenStatus
<1> HIDE DEF row
<1> QED BY <1>2, <1>3, <1>5, PostedOrderStep

\* Every operation on an order keeps the types and the ledger's account of the
\* order (the functions of finance.go that take a billing order id).
LEMMA OrderStepExplained ==
  ASSUME TypeOK, LedgerExplainsOrders, NEW o \in Orders, OrderStep(o)
  PROVE  TypeOK' /\ LedgerExplainsOrders'
<1> USE LedgerConstants
<1>1. Explained(o) /\ order[o] \in OrderRow /\ o \in DOMAIN order
  BY DEF LedgerExplainsOrders, TypeOK
<1>2. CASE \E u \in Users, mode \in Modes, price \in Prices :
             ReserveBillingOrder(o, u, mode, price)
  <2>1. PICK u \in Users, mode \in Modes, price \in Prices :
               ReserveBillingOrder(o, u, mode, price)
    BY <1>2
  <2> DEFINE row == [status |-> "reserved", user |-> u, mode |-> mode,
                     amount |-> price, actual |-> 0]
             a   == -price
             r   == price
  <2>2. /\ row \in OrderRow /\ row.user \in Users
        /\ row.status = "reserved" /\ row.amount = price
    BY DEF OrderRow, OrderStatus, OpenStatus
  <2>3. /\ a \in Int /\ r \in Int /\ reserved[u] + r >= 0
        /\ ledgerAvailable[o] = 0 /\ ledgerReserved[o] = 0
    BY <1>1, <2>1 DEF TypeOK, Explained, ReserveBillingOrder
  <2>4. /\ order' = [order EXCEPT ![o] = row] /\ order'[o] = row
        /\ PostEntry(o, u, a, r)
        /\ UNCHANGED <<usage, creditVars>>
    BY <1>1, <2>1 DEF ReserveBillingOrder
  <2>5. /\ ledgerAvailable'[o] = ledgerAvailable[o] + a
        /\ ledgerReserved'[o] = ledgerReserved[o] + r
    BY <2>3, <2>4, PostEntryType
  <2>6. Explained(o)'
    BY <2>2, <2>3, <2>4, <2>5 DEF Explained, IsOpen, OpenStatus
  <2> HIDE DEF row, a, r
  <2> QED BY <2>2, <2>3, <2>4, <2>6, PostedOrderStep
<1>3. CASE MarkBillingRunning(o) \/ MarkBillingUncertain(o)
  <2>1. /\ order[o].status \in {"reserved", "running"}
        /\ UNCHANGED <<accountVars, usage, ledgerVars, creditVars>>
        /\ \E s \in {"running", "uncertain"} : order' = [order EXCEPT ![o].status = s]
    BY <1>3 DEF MarkBillingRunning, MarkBillingUncertain
  <2>2. PICK s \in {"running", "uncertain"} : order' = [order EXCEPT ![o].status = s]
    BY <2>1
  <2> DEFINE row == [order[o] EXCEPT !.status = s]
  <2>3. /\ row \in OrderRow /\ row.user \in Users
        /\ row.status = s /\ row.amount = order[o].amount
    BY <1>1, <2>1, RowType DEF OrderRow, OrderStatus, OpenStatus
  <2>4. order' = [order EXCEPT ![o] = row]
    BY <2>2, <1>1
  <2>5. order'[o] = row /\ \A p \in Orders \ {o} : order'[p] = order[p]
    BY <2>4 DEF TypeOK
  <2>6. TypeOK'
    BY <2>1, <2>3, <2>5, <2>4 DEF TypeOK, accountVars, ledgerVars, creditVars
  <2>7. Explained(o)'
    BY <1>1, <2>1, <2>3, <2>5 DEF Explained, IsOpen, OpenStatus, ledgerVars
  <2>8. \A p \in Orders \ {o} : Explained(p)'
    BY <2>1, <2>5 DEF LedgerExplainsOrders, Explained, IsOpen, ledgerVars
  <2> QED BY <2>6, <2>7, <2>8 DEF LedgerExplainsOrders
<1>4. ASSUME NEW cost \in Costs, ObserveUsage(o, cost) \/ KeepObservedCost(o, cost)
      PROVE  TypeOK' /\ LedgerExplainsOrders'
  <2>1. CASE ObserveUsage(o, cost)
    <3>1. /\ usage' \in [Orders -> Nat \cup {NoUsage}]
          /\ UNCHANGED <<accountVars, order, ledgerVars, creditVars>>
      BY <2>1 DEF ObserveUsage, TypeOK
    <3> QED BY <3>1 DEF TypeOK, LedgerExplainsOrders, Explained, IsOpen, accountVars,
                     ledgerVars, creditVars
  <2>2. CASE KeepObservedCost(o, cost)
    <3> DEFINE row == [order[o] EXCEPT !.actual = cost]
    <3>1. /\ order[o].status \in OpenStatus /\ cost \in Nat
          /\ UNCHANGED <<accountVars, usage, ledgerVars, creditVars>>
          /\ order' = [order EXCEPT ![o].actual = cost]
      BY <2>2 DEF KeepObservedCost
    <3>2. /\ row \in OrderRow /\ row.user \in Users
          /\ row.status = order[o].status /\ row.amount = order[o].amount
      BY <1>1, <3>1, RowType DEF OrderRow, OpenStatus
    <3>3. /\ order' = [order EXCEPT ![o] = row] /\ order'[o] = row
          /\ \A p \in Orders \ {o} : order'[p] = order[p]
      BY <1>1, <3>1 DEF TypeOK
    <3>4. TypeOK'
      BY <3>1, <3>2, <3>3 DEF TypeOK, accountVars, ledgerVars, creditVars
    <3>5. Explained(o)'
      BY <1>1, <3>1, <3>2, <3>3 DEF Explained, IsOpen, OpenStatus, ledgerVars
    <3>6. \A p \in Orders \ {o} : Explained(p)'
      BY <3>1, <3>3 DEF LedgerExplainsOrders, Explained, IsOpen, ledgerVars
    <3> QED BY <3>4, <3>5, <3>6 DEF LedgerExplainsOrders
  <2> QED BY <1>4, <2>1, <2>2
<1>6. CASE SettleBillingOrder(o)
  <2>1. /\ IsOpen(o) /\ order[o].status # "absent" /\ CostKnown(o, order[o])
        /\ SettleWrites(o, order[o], Cost(o, order[o]))
    BY <1>6 DEF SettleBillingOrder, IsOpen, OpenStatus
  <2>2. /\ Cost(o, order[o]) \in Nat /\ order[o].amount \in Nat
        /\ reserved[order[o].user] \in Nat
    BY <2>1, RowType, CostType
  <2>3. ledgerAvailable[o] = -order[o].amount /\ ledgerReserved[o] = order[o].amount
    BY <1>1, <2>1 DEF Explained
  <2> DEFINE cost == Cost(o, order[o])
             a    == order[o].amount - cost
             r    == -order[o].amount
  <2>4. /\ a \in Int /\ r \in Int /\ reserved[order[o].user] + r >= 0
        /\ ledgerAvailable[o] + a = -cost /\ ledgerReserved[o] + r = 0
    BY <2>1, <2>2, <2>3 DEF SettleWrites
  <2>5. /\ PostEntry(o, order[o].user, a, r)
        /\ order' = [order EXCEPT ![o].status = "settled", ![o].actual = cost]
        /\ UNCHANGED <<usage, creditVars>>
    BY <2>1 DEF SettleWrites
  <2>6. cost \in Nat
    BY <2>2
  <2> HIDE DEF cost, a, r
  <2> QED BY ClosedOrderStep, <2>1, <2>4, <2>5, <2>6
<1>7. CASE RefundBillingOrder(o)
  <2>1. IsOpen(o) /\ order[o].status # "absent" /\ RefundWrites(o, order[o])
    BY <1>7 DEF RefundBillingOrder, IsOpen, OpenStatus
  <2>2. order[o].amount \in Nat /\ reserved[order[o].user] \in Nat
    BY <2>1, RowType
  <2>3. ledgerAvailable[o] = -order[o].amount /\ ledgerReserved[o] = order[o].amount
    BY <1>1, <2>1 DEF Explained
  <2> DEFINE a == order[o].amount
             r == -order[o].amount
  <2>4. /\ a \in Int /\ r \in Int /\ reserved[order[o].user] + r >= 0
        /\ ledgerAvailable[o] + a = 0 /\ ledgerReserved[o] + r = 0
    BY <2>1, <2>2, <2>3 DEF RefundWrites
  <2>5. /\ PostEntry(o, order[o].user, a, r)
        /\ order' = [order EXCEPT ![o].status = "refunded"]
        /\ UNCHANGED <<usage, creditVars>>
    BY <2>1 DEF RefundWrites
  <2> HIDE DEF a, r
  <2> QED BY ClosedOrderStep, <2>1, <2>4, <2>5
<1>8. CASE RestoreRefundedBillingOrder(o)
  <2>1. /\ order[o].status = "refunded" /\ CostKnown(o, order[o])
        /\ RestoreWrites(o, order[o], Cost(o, order[o]))
    BY <1>8 DEF RestoreRefundedBillingOrder
  <2>2. Cost(o, order[o]) \in Nat /\ reserved[order[o].user] \in Nat
    BY <2>1, RowType, CostType
  <2>3. ledgerAvailable[o] = 0 /\ ledgerReserved[o] = 0
    BY <1>1, <2>1 DEF Explained
  <2> DEFINE cost == Cost(o, order[o])
             a    == -cost
             r    == 0
  <2>4. /\ cost \in Nat /\ a \in Int /\ r \in Int
        /\ reserved[order[o].user] + r >= 0
        /\ ledgerAvailable[o] + a = -cost /\ ledgerReserved[o] + r = 0
    BY <2>2, <2>3
  <2>5. /\ PostEntry(o, order[o].user, a, r)
        /\ order' = [order EXCEPT ![o].status = "settled", ![o].actual = cost]
        /\ UNCHANGED <<usage, creditVars>>
    BY <2>1 DEF RestoreWrites
  <2> HIDE DEF cost, a, r
  <2> QED BY ClosedOrderStep, <2>1, <2>4, <2>5
<1>9. CASE \E mode \in Modes, price \in Prices : RepriceBillingOrder(o, mode, price)
  <2>1. PICK mode \in Modes, price \in Prices : RepriceBillingOrder(o, mode, price)
    BY <1>9
  <2> DEFINE row   == [order[o] EXCEPT !.mode = mode, !.amount = price]
             delta == price - order[o].amount
  <2>2. /\ IsOpen(o) /\ order[o].status # "absent" /\ price \in Nat
        /\ order[o].user \in Users /\ order[o].amount \in Nat
        /\ reserved[order[o].user] \in Nat
    BY <2>1, RowType DEF RepriceBillingOrder, IsOpen, OpenStatus
  <2>3. /\ row \in OrderRow /\ row.user = order[o].user
        /\ row.status = order[o].status /\ row.amount = price
    BY <1>1, <2>2 DEF OrderRow
  <2>4. /\ delta < 0 => reserved[order[o].user] >= -delta
        /\ PostEntry(o, order[o].user, -delta, delta)
        /\ order' = [order EXCEPT ![o].mode = mode, ![o].amount = price]
        /\ UNCHANGED <<usage, creditVars>>
    BY <2>1 DEF RepriceBillingOrder, RepriceWrites
  <2>5. order' = [order EXCEPT ![o] = row] /\ order'[o] = row
    BY <2>4, <1>1 DEF TypeOK
  <2>6. /\ delta \in Int /\ -delta \in Int
        /\ reserved[order[o].user] + delta >= 0
    BY <2>2, <2>4
  <2>7. /\ ledgerAvailable[o] = -order[o].amount
        /\ ledgerReserved[o] = order[o].amount
    BY <1>1, <2>2 DEF Explained
  <2>8. /\ ledgerAvailable'[o] = ledgerAvailable[o] + -delta
        /\ ledgerReserved'[o] = ledgerReserved[o] + delta
    BY <2>2, <2>4, <2>6, PostEntryType
  <2>9. /\ ledgerAvailable'[o] = -price /\ ledgerReserved'[o] = price
    BY <2>2, <2>7, <2>8
  <2>10. Explained(o)'
    BY <2>2, <2>3, <2>5, <2>9 DEF Explained, IsOpen, OpenStatus
  <2> HIDE DEF row, delta
  <2> QED BY <2>2, <2>3, <2>4, <2>5, <2>6, <2>10, PostedOrderStep
<1> QED BY <1>2, <1>3, <1>4, <1>6, <1>7, <1>8, <1>9 DEF OrderStep

\* The inductive invariant is preserved by every step and by stuttering.
LEMMA NextExplained ==
  TypeOK /\ LedgerExplainsOrders /\ [Next]_vars => TypeOK' /\ LedgerExplainsOrders'
<1> SUFFICES ASSUME TypeOK, LedgerExplainsOrders, [Next]_vars
             PROVE  TypeOK' /\ LedgerExplainsOrders'
  OBVIOUS
<1>1. CASE \E o \in Orders : OrderStep(o)
  BY <1>1, OrderStepExplained
<1>2. CASE CreditStep
  BY <1>2, CreditStepType DEF LedgerExplainsOrders, Explained, IsOpen, ledgerVars
<1>3. CASE UNCHANGED vars
  BY <1>3 DEF vars, accountVars, ledgerVars, creditVars, TypeOK,
       LedgerExplainsOrders, Explained, IsOpen
<1> QED BY <1>1, <1>2, <1>3 DEF Next

\* No order has been billed before the first call.
LEMMA InitExplained == Init => LedgerExplainsOrders
  BY DEF Init, LedgerExplainsOrders, Explained, IsOpen, NoOrder, OpenStatus

\* Whatever calls are made in whatever order, accounts, orders and ledger sums
\* keep their types; in particular the frozen balance is never negative.
THEOREM TypeCorrect == Spec => []TypeOK
<1>1. Init => TypeOK /\ LedgerExplainsOrders
  BY InitType, InitExplained
<1> QED BY <1>1, NextExplained, PTL DEF Spec

\* For every instance, the ledger entries of every order add up to what its
\* status says it cost or holds.
THEOREM LedgerExplained == Spec => []LedgerExplainsOrders
<1>1. Init => TypeOK /\ LedgerExplainsOrders
  BY InitType, InitExplained
<1> QED BY <1>1, NextExplained, PTL DEF Spec

\* No step changes a settled order's row or posts an entry for it (the status
\* checks of SettleBillingOrder, RefundBillingOrder, RestoreRefundedBillingOrder
\* and SwitchTaskLogicalRoute).
LEMMA SettledStep ==
  ASSUME TypeOK, [Next]_vars, NEW o \in Orders, order[o].status = "settled"
  PROVE  UNCHANGED <<order[o], ledgerAvailable[o], ledgerReserved[o]>>
<1>1. CASE CreditStep
  BY <1>1 DEF CreditStep, AdjustCredits, RedeemCode, RetireCode, GrantCreditsOnce,
       CreditFrom, ledgerVars
<1>2. ASSUME NEW p \in Orders, OrderStep(p)
      PROVE  UNCHANGED <<order[o], ledgerAvailable[o], ledgerReserved[o]>>
  <2>1. CASE p = o
    <3>1. \E cost \in Costs : ObserveUsage(o, cost)
      BY <1>2, <2>1 DEF OrderStep, ReserveBillingOrder, MarkBillingRunning,
           MarkBillingUncertain, SettleBillingOrder, RefundBillingOrder, OpenStatus,
           RestoreRefundedBillingOrder, RepriceBillingOrder, KeepObservedCost
    <3> QED BY <3>1 DEF ObserveUsage, ledgerVars
  <2>2. CASE p # o
    <3>1. \/ UNCHANGED <<order, ledgerVars>>
          \/ \E row : order' = [order EXCEPT ![p] = row] /\ UNCHANGED ledgerVars
          \/ \E row : \E u, a, r : order' = [order EXCEPT ![p] = row] /\ PostEntry(p, u, a, r)
      <4>1. CASE \E u \in Users, mode \in Modes, price \in Prices :
                   ReserveBillingOrder(p, u, mode, price)
        BY <4>1 DEF ReserveBillingOrder
      <4>2. CASE MarkBillingRunning(p) \/ MarkBillingUncertain(p)
        BY <4>2 DEF MarkBillingRunning, MarkBillingUncertain
      <4>3. CASE \E cost \in Costs : ObserveUsage(p, cost) \/ KeepObservedCost(p, cost)
        BY <4>3 DEF ObserveUsage, KeepObservedCost
      <4>4. CASE SettleBillingOrder(p)
        BY <4>4 DEF SettleBillingOrder, SettleWrites
      <4>5. CASE RefundBillingOrder(p)
        BY <4>5 DEF RefundBillingOrder, RefundWrites
      <4>6. CASE RestoreRefundedBillingOrder(p)
        BY <4>6 DEF RestoreRefundedBillingOrder, RestoreWrites
      <4>7. CASE \E mode \in Modes, price \in Prices : RepriceBillingOrder(p, mode, price)
        BY <4>7 DEF RepriceBillingOrder, RepriceWrites
      <4> QED BY <1>2, <4>1, <4>2, <4>3, <4>4, <4>5, <4>6, <4>7 DEF OrderStep
    <3>2. order'[o] = order[o]
      BY <2>2, <3>1 DEF TypeOK
    <3>3. ledgerAvailable'[o] = ledgerAvailable[o] /\ ledgerReserved'[o] = ledgerReserved[o]
      BY <2>2, <3>1 DEF TypeOK, PostEntry, ledgerVars
    <3> QED BY <3>2, <3>3
  <2> QED BY <2>1, <2>2
<1>3. CASE UNCHANGED vars
  BY <1>3 DEF vars, ledgerVars
<1> QED BY <1>1, <1>2, <1>3 DEF Next

\* A settled order stays as it is for every number of users, orders and calls.
THEOREM SettledStays == Spec => SettledIsFinal
<1>1. TypeOK /\ [Next]_vars =>
        [\A o \in Orders : order[o].status = "settled" =>
           UNCHANGED <<order[o], ledgerAvailable[o], ledgerReserved[o]>>]_vars
  BY SettledStep
<1> QED BY <1>1, TypeCorrect, PTL DEF Spec, SettledIsFinal

\* What a step on one order does to the balance of a user: an entry posted for
\* another account leaves it alone, one for this account adds its delta.
LEMMA PostedBalance ==
  ASSUME TypeOK, NEW o \in Orders, NEW v \in Users, NEW a \in Int, NEW r \in Int,
         PostEntry(o, v, a, r), NEW u \in Users, available'[u] < available[u]
  PROVE  u = v /\ a < 0 /\ available'[u] = available[u] + a
<1>1. available[u] \in Int
  BY DEF TypeOK
<1>2. CASE u = v
  <2>1. available'[u] = available[u] + a
    BY <1>2 DEF TypeOK, PostEntry
  <2> QED BY <1>1, <1>2, <2>1
<1>3. CASE u # v
  <2>1. available'[u] = available[u]
    BY <1>3 DEF TypeOK, PostEntry
  <2> QED BY <1>1, <2>1
<1> QED BY <1>2, <1>3

\* A balance that sinks below zero does so because an order is settled at more
\* than it held: reserveBillingOrder, SwitchTaskLogicalRoute and AdjustCredits
\* compare the balance first, every other function only adds.
LEMMA OverdraftStep ==
  ASSUME TypeOK, [Next]_vars, NEW u \in Users,
         available'[u] < available[u], available'[u] < 0
  PROVE  ChargedBeyondHold(u)
<1> USE LedgerConstants
<1>1. available[u] \in Int
  BY DEF TypeOK
<1>2. CASE CreditStep
  <2>1. ASSUME NEW v \in Users, NEW amount \in Adjustments, AdjustCredits(v, amount)
        PROVE  FALSE
    <3>1. amount \in Int /\ available[v] \in Int
      BY DEF TypeOK
    <3>2. available'[u] = IF u = v THEN available[u] + amount ELSE available[u]
      BY <2>1 DEF AdjustCredits, TypeOK
    <3> QED BY <1>1, <2>1, <3>1, <3>2 DEF AdjustCredits
  <2>2. ASSUME NEW v \in Users, NEW s \in Sources, CreditFrom(v, s)
        PROVE  FALSE
    <3>1. Value[s] \in Nat
      OBVIOUS
    <3>2. available'[u] = IF u = v THEN available[u] + Value[s] ELSE available[u]
      BY <2>2 DEF CreditFrom, TypeOK
    <3> QED BY <1>1, <3>1, <3>2
  <2>3. ASSUME NEW c \in Codes, RetireCode(c)
        PROVE  FALSE
    BY <1>1, <2>3 DEF RetireCode, accountVars
  <2> QED BY <1>2, <2>1, <2>2, <2>3 DEF CreditStep, RedeemCode, GrantCreditsOnce, Sources
<1>3. ASSUME NEW o \in Orders, OrderStep(o)
      PROVE  ChargedBeyondHold(u)
  <2>1. ASSUME NEW v \in Users, NEW mode \in Modes, NEW price \in Prices,
               ReserveBillingOrder(o, v, mode, price)
        PROVE  FALSE
    <3>1. price \in Int /\ -price \in Int
      OBVIOUS
    <3>2. u = v /\ available'[u] = available[u] + -price
      BY <2>1, <3>1, PostedBalance DEF ReserveBillingOrder
    <3> QED BY <1>1, <2>1, <3>1, <3>2 DEF ReserveBillingOrder
  <2>2. CASE UNCHANGED accountVars
    BY <1>1, <2>2 DEF accountVars
  <2>3. CASE SettleBillingOrder(o)
    <3> DEFINE cost == Cost(o, order[o])
    <3>1. /\ order[o].status \in OpenStatus /\ order[o].status \notin {"absent", "settled"}
          /\ CostKnown(o, order[o])
          /\ PostEntry(o, order[o].user, order[o].amount - cost, -order[o].amount)
          /\ order' = [order EXCEPT ![o].status = "settled", ![o].actual = cost]
      BY <2>3 DEF SettleBillingOrder, SettleWrites, OpenStatus
    <3>2. /\ order[o] \in OrderRow /\ order[o].user \in Users
          /\ order[o].amount \in Nat /\ cost \in Nat
      BY <3>1, RowType, CostType
    <3>3. order'[o].status = "settled" /\ order'[o].actual = cost
      BY <3>1, <3>2 DEF TypeOK, OrderRow
    <3> HIDE DEF cost
    <3>4. order[o].amount - cost \in Int /\ -order[o].amount \in Int
      BY <3>2
    <3>5. order[o].user = u /\ order[o].amount - cost < 0
      BY <3>1, <3>2, <3>4, PostedBalance
    <3>6. Held(o) = order[o].amount
      BY <3>1 DEF Held, IsOpen
    <3>7. o \in OrdersOf(u) /\ order[o].status # "settled" /\ cost > Held(o)
      BY <3>1, <3>2, <3>5, <3>6 DEF OrdersOf
    <3> QED BY <3>3, <3>7 DEF ChargedBeyondHold
  <2>4. CASE RefundBillingOrder(o)
    <3>1. /\ order[o].status # "absent"
          /\ PostEntry(o, order[o].user, order[o].amount, -order[o].amount)
      BY <2>4 DEF RefundBillingOrder, RefundWrites, OpenStatus
    <3>2. order[o].user \in Users /\ order[o].amount \in Nat
      BY <3>1, RowType
    <3>3. order[o].amount \in Int /\ -order[o].amount \in Int
      BY <3>2
    <3>4. order[o].amount < 0
      BY <3>1, <3>2, <3>3, PostedBalance
    <3> QED BY <3>2, <3>4
  <2>5. CASE RestoreRefundedBillingOrder(o)
    <3> DEFINE cost == Cost(o, order[o])
    <3>1. /\ order[o].status = "refunded"
          /\ CostKnown(o, order[o])
          /\ PostEntry(o, order[o].user, -cost, 0)
          /\ order' = [order EXCEPT ![o].status = "settled", ![o].actual = cost]
      BY <2>5 DEF RestoreRefundedBillingOrder, RestoreWrites
    <3>2. order[o] \in OrderRow /\ order[o].user \in Users /\ cost \in Nat
      BY <3>1, RowType, CostType
    <3>3. order'[o].status = "settled" /\ order'[o].actual = cost
      BY <3>1, <3>2 DEF TypeOK, OrderRow
    <3> HIDE DEF cost
    <3>4. -cost \in Int /\ 0 \in Int
      BY <3>2
    <3>5. order[o].user = u /\ -cost < 0
      BY <3>1, <3>2, <3>4, PostedBalance
    <3>6. Held(o) = 0
      BY <3>1 DEF Held, IsOpen, OpenStatus
    <3>7. o \in OrdersOf(u) /\ order[o].status # "settled" /\ cost > Held(o)
      BY <3>1, <3>2, <3>5, <3>6 DEF OrdersOf
    <3> QED BY <3>3, <3>7 DEF ChargedBeyondHold
  <2>6. ASSUME NEW mode \in Modes, NEW price \in Prices,
               RepriceBillingOrder(o, mode, price)
        PROVE  FALSE
    <3> DEFINE delta == price - order[o].amount
    <3>1. /\ order[o].status # "absent"
          /\ delta > 0 => available[order[o].user] >= delta
          /\ PostEntry(o, order[o].user, -delta, delta)
      BY <2>6 DEF RepriceBillingOrder, RepriceWrites
    <3>2. order[o].user \in Users /\ order[o].amount \in Nat /\ price \in Nat
      BY <3>1, RowType
    <3>3. delta \in Int /\ -delta \in Int
      BY <3>2
    <3> HIDE DEF delta
    <3>4. order[o].user = u /\ -delta < 0 /\ available'[u] = available[u] + -delta
      BY <3>1, <3>2, <3>3, PostedBalance
    <3> QED BY <1>1, <3>1, <3>3, <3>4
  <2> QED
    BY <1>3, <2>1, <2>2, <2>3, <2>4, <2>5, <2>6
       DEF OrderStep, MarkBillingRunning, MarkBillingUncertain, ObserveUsage,
           KeepObservedCost
<1>4. CASE UNCHANGED vars
  BY <1>1, <1>4 DEF vars, accountVars
<1> QED BY <1>2, <1>3, <1>4 DEF Next

\* Credits are overdrawn only by a result that cost more than was reserved for
\* it, however many users, orders and administrators there are.
THEOREM OverdraftExplained == Spec => OverdraftOnlyByFinalCost
<1>1. TypeOK /\ [Next]_vars => [Overdraft]_vars
  BY OverdraftStep DEF Overdraft
<1> QED BY <1>1, TypeCorrect, PTL DEF Spec, OverdraftOnlyByFinalCost

\* Codes and grants: who was paid, and what the code says of it.
LEMMA SourceStep ==
  ASSUME TypeOK, SourcePaysOnce, [Next]_vars
  PROVE  SourcePaysOnce'
<1>1. /\ \A s \in Sources, u \in Users : entry[u][s] \in Nat
      /\ Codes \subseteq Sources /\ References \subseteq Sources
      /\ \A c \in Codes, r \in References : c # r
  BY LedgerConstants DEF TypeOK, Sources
<1>2. ASSUME UNCHANGED <<entry, code>>
      PROVE  SourcePaysOnce'
  BY <1>2 DEF SourcePaysOnce
<1>3. ASSUME NEW v \in Users, NEW s \in Sources, CreditFrom(v, s),
             \A u \in Users : entry[u][s] = 0,
             s \in Codes => code'[s] = "redeemed",
             \A c \in Codes \ {s} : code'[c] = code[c]
      PROVE  SourcePaysOnce'
  <2>1. \A u \in Users, t \in Sources :
          entry'[u][t] = IF u = v /\ t = s THEN 1 ELSE entry[u][t]
    BY <1>3 DEF CreditFrom, TypeOK
  <2>2. ASSUME NEW t \in Sources
        PROVE  /\ \A u \in Users : entry'[u][t] <= 1
               /\ \A u, w \in Users : entry'[u][t] = 1 /\ entry'[w][t] = 1 => u = w
               /\ t \in Codes => (code'[t] = "redeemed" <=> \E u \in Users : entry'[u][t] = 1)
    BY <1>3, <2>1 DEF SourcePaysOnce
  <2> QED BY <2>2 DEF SourcePaysOnce
<1>4. ASSUME NEW v \in Users, NEW c \in Codes, RedeemCode(v, c)
      PROVE  SourcePaysOnce'
  <2>1. /\ code[c] = "unused" /\ CreditFrom(v, c) /\ code'[c] = "redeemed"
        /\ \A d \in Codes \ {c} : code'[d] = code[d]
    BY <1>4 DEF RedeemCode, TypeOK
  <2>2. \A u \in Users : entry[u][c] = 0
    BY <1>1, <2>1 DEF SourcePaysOnce
  <2> QED BY <1>1, <1>3, <2>1, <2>2
<1>5. ASSUME NEW v \in Users, NEW r \in References, GrantCreditsOnce(v, r)
      PROVE  SourcePaysOnce'
  BY <1>1, <1>3, <1>5 DEF GrantCreditsOnce
<1>6. ASSUME NEW c \in Codes, RetireCode(c)
      PROVE  SourcePaysOnce'
  <2>1. /\ code[c] = "unused" /\ code'[c] = "retired" /\ entry' = entry
        /\ \A d \in Codes \ {c} : code'[d] = code[d]
    BY <1>6 DEF RetireCode, TypeOK
  <2> QED BY <2>1 DEF SourcePaysOnce
<1>7. ASSUME NEW u \in Users, NEW amount \in Adjustments, AdjustCredits(u, amount)
      PROVE  SourcePaysOnce'
  BY <1>2, <1>7 DEF AdjustCredits
<1>8. ASSUME NEW o \in Orders, OrderStep(o)
      PROVE  SourcePaysOnce'
  <2>1. UNCHANGED creditVars
    BY <1>8 DEF OrderStep, ReserveBillingOrder, MarkBillingRunning, MarkBillingUncertain,
         ObserveUsage, KeepObservedCost, SettleBillingOrder, SettleWrites, RefundBillingOrder,
         RefundWrites, RestoreRefundedBillingOrder, RestoreWrites, RepriceBillingOrder,
         RepriceWrites
  <2> QED BY <1>2, <2>1 DEF creditVars
<1>9. CASE UNCHANGED vars
  BY <1>2, <1>9 DEF vars, creditVars
<1> QED BY <1>4, <1>5, <1>6, <1>7, <1>8, <1>9 DEF Next, CreditStep

\* No code and no grant pays twice or to two users, and a code says whether it
\* was paid, for any number of users, codes and grants.
THEOREM PaidOnce == Spec => []SourcePaysOnce
<1>1. Init => SourcePaysOnce
  BY LedgerConstants DEF Init, SourcePaysOnce, Sources
<1> QED BY <1>1, SourceStep, TypeCorrect, PTL DEF Spec

(***************************************************************************)
(* Sums over a finite set, as MapThenSumSet computes them: by recursion on *)
(* the set, one chosen member at a time.  What holds of all its subsets is *)
(* proved from a smallest one for which it would not hold.                 *)
(***************************************************************************)
Pick(T) == CHOOSE x \in T : TRUE

\* What MapThenSumSet computes by recursion on the subsets in D.
Sums(f, sum, D) ==
  sum = [T \in D |-> IF T = {} THEN 0 ELSE f[Pick(T)] + sum[T \ {Pick(T)}]]

SubsetSums(f, S) == CHOOSE sum : Sums(f, sum, SUBSET S)
SumOf(f, S) == SubsetSums(f, S)[S]

LEMMA LeastNumber ==
  ASSUME NEW B, B \subseteq Nat, B # {}
  PROVE  \E m \in B : \A n \in B : m <= n
<1> DEFINE Below == {1..n : n \in B}
<1>1. Below \subseteq FiniteSubsetsOf(Nat) /\ Below # {}
  <2>1. \A n \in B : IsFiniteSet(1..n) /\ 1..n \subseteq Nat
    BY FS_Interval
  <2> QED BY <2>1 DEF FiniteSubsetsOf
<1>2. PICK X \in Below : \A Y \in Below : <<Y, X>> \notin StrictSubsetOrdering(Nat)
  <2> HIDE DEF Below
  <2> QED BY <1>1, FS_StrictSubsetOrderingWellFounded, WFMin
<1>3. PICK m \in B : X = 1..m
  OBVIOUS
<1>4. ASSUME NEW n \in B, n < m
      PROVE  FALSE
  <2>1. m \in 1..m /\ m \notin 1..n /\ 1..n \subseteq 1..m
    BY <1>4
  <2>2. <<1..n, 1..m>> \in StrictSubsetOrdering(Nat)
    BY <2>1 DEF StrictSubsetOrdering
  <2> QED BY <1>2, <1>3, <2>2
<1>5. \A n \in B : m <= n
  BY <1>4
<1> QED BY <1>5

LEMMA SmallestSubset ==
  ASSUME NEW S, IsFiniteSet(S), NEW B, B \subseteq SUBSET S, B # {}
  PROVE  \E T \in B : \A U \in B : U \subseteq T => U = T
<1>1. B \subseteq FiniteSubsetsOf(S)
  BY FS_FiniteSubsetsOfFinite
<1>2. PICK T \in B : \A U \in B : <<U, T>> \notin StrictSubsetOrdering(S)
  BY <1>1, FS_StrictSubsetOrderingWellFounded, WFMin
<1>3. ASSUME NEW U \in B, U \subseteq T, U # T
      PROVE  FALSE
  <2>1. <<U, T>> \in StrictSubsetOrdering(S)
    BY <1>3 DEF StrictSubsetOrdering
  <2> QED BY <1>2, <2>1
<1> QED BY <1>2, <1>3

Small(S, n) == {T \in SUBSET S : Cardinality(T) <= n}

LEMMA SumUpTo ==
  ASSUME NEW S, IsFiniteSet(S), NEW f \in [S -> Int]
  PROVE  \A n \in Nat : \E sum \in [Small(S, n) -> Int] : Sums(f, sum, Small(S, n))
<1> DEFINE P(n) == \E sum \in [Small(S, n) -> Int] : Sums(f, sum, Small(S, n))
           B == {n \in Nat : ~P(n)}
<1>0. \A T \in SUBSET S : IsFiniteSet(T) /\ Cardinality(T) \in Nat
  BY FS_Subset, FS_CardinalityType
<1>1. P(0)
  <2>1. \A T \in Small(S, 0) : T = {}
    BY <1>0, FS_EmptySet DEF Small
  <2>2. Sums(f, [T \in Small(S, 0) |-> 0], Small(S, 0))
    BY <2>1 DEF Sums
  <2>3. [T \in Small(S, 0) |-> 0] \in [Small(S, 0) -> Int]
    OBVIOUS
  <2> QED BY <2>2, <2>3
<1>2. ASSUME NEW n \in Nat, P(n)
      PROVE  P(n + 1)
  <2>1. PICK sum \in [Small(S, n) -> Int] : Sums(f, sum, Small(S, n))
    BY <1>2
  <2> DEFINE next == [T \in Small(S, n + 1) |->
                        IF T = {} THEN 0 ELSE f[Pick(T)] + sum[T \ {Pick(T)}]]
  <2>2. ASSUME NEW T \in Small(S, n + 1), T # {}
        PROVE  Pick(T) \in T /\ Pick(T) \in S /\ T \ {Pick(T)} \in Small(S, n)
    <3>1. Pick(T) \in T
      BY <2>2 DEF Pick
    <3>2. Cardinality(T \ {Pick(T)}) = Cardinality(T) - 1
      BY <3>1, <1>0, FS_RemoveElement DEF Small
    <3> QED BY <3>1, <3>2, <1>0 DEF Small
  <2>3. next \in [Small(S, n + 1) -> Int]
    BY <2>1, <2>2
  <2>4. \A T \in Small(S, n) : T \in Small(S, n + 1) /\ next[T] = sum[T]
    <3>1. \A T \in Small(S, n) : T \in Small(S, n + 1)
      BY <1>0 DEF Small
    <3>2. \A T \in Small(S, n) :
            sum[T] = IF T = {} THEN 0 ELSE f[Pick(T)] + sum[T \ {Pick(T)}]
      BY <2>1, Zenon DEF Sums
    <3> QED BY <3>1, <3>2
  <2>5. Sums(f, next, Small(S, n + 1))
    <3>1. \A T \in Small(S, n + 1) :
            T # {} => sum[T \ {Pick(T)}] = next[T \ {Pick(T)}]
      BY <2>2, <2>4
    <3> QED BY <3>1 DEF Sums
  <2> HIDE DEF next
  <2> QED BY <2>3, <2>5
<1>3. ASSUME B # {} PROVE FALSE
  <2>1. PICK m \in B : \A n \in B : m <= n
    <3> HIDE DEF P
    <3>1. B \subseteq Nat
      OBVIOUS
    <3> HIDE DEF B
    <3> QED BY <3>1, <1>3, LeastNumber
  <2>2. m \in Nat /\ ~P(m) /\ m # 0
    BY <1>1
  <2>3. m - 1 \in Nat /\ (m - 1) + 1 = m
    BY <2>2
  <2>4. P(m - 1)
    <3> HIDE DEF P
    <3> QED BY <2>1, <2>3
  <2> HIDE DEF P
  <2> QED BY <1>2, <2>2, <2>3, <2>4
<1> QED BY <1>3

\* The recursion has a solution, the sums over subsets.
LEMMA SumExists ==
  ASSUME NEW S, IsFiniteSet(S), NEW f \in [S -> Int]
  PROVE  \E sum \in [SUBSET S -> Int] : Sums(f, sum, SUBSET S)
<1>1. Cardinality(S) \in Nat
  BY FS_CardinalityType
<1>2. \A T \in SUBSET S : Cardinality(T) <= Cardinality(S)
  BY FS_Subset
<1>3. Small(S, Cardinality(S)) = SUBSET S
  BY <1>2 DEF Small
<1>4. \E sum \in [Small(S, Cardinality(S)) -> Int] : Sums(f, sum, Small(S, Cardinality(S)))
  BY <1>1, SumUpTo
<1> QED BY <1>3, <1>4

LEMMA SumIs ==
  ASSUME NEW S, IsFiniteSet(S), NEW f \in [S -> Int]
  PROVE  SubsetSums(f, S) \in [SUBSET S -> Int] /\ Sums(f, SubsetSums(f, S), SUBSET S)
<1> DEFINE sum == SubsetSums(f, S)
<1>1. PICK sol \in [SUBSET S -> Int] : Sums(f, sol, SUBSET S)
  BY SumExists
<1>2. Sums(f, sum, SUBSET S)
  BY <1>1 DEF SubsetSums
<1>3. ASSUME NEW g, NEW h, Sums(f, g, SUBSET S), Sums(f, h, SUBSET S)
      PROVE  g = h
  <2> DEFINE B == {T \in SUBSET S : g[T] # h[T]}
  <2>1. \A T \in SUBSET S : /\ g[T] = IF T = {} THEN 0 ELSE f[Pick(T)] + g[T \ {Pick(T)}]
                            /\ h[T] = IF T = {} THEN 0 ELSE f[Pick(T)] + h[T \ {Pick(T)}]
    BY <1>3, Zenon DEF Sums
  <2>2. ASSUME B # {} PROVE FALSE
    <3>0. B \subseteq SUBSET S
      OBVIOUS
    <3>1. PICK T \in B : \A U \in B : U \subseteq T => U = T
      <4> HIDE DEF B
      <4> QED BY <2>2, <3>0, SmallestSubset
    <3>2. T # {} /\ T \ {Pick(T)} \in SUBSET S
      <4>1. T \in SUBSET S /\ g[T] # h[T]
        OBVIOUS
      <4>2. T = {} => g[T] = 0 /\ h[T] = 0
        BY <2>1, <4>1
      <4> QED BY <4>1, <4>2
    <3>3. Pick(T) \in T
      BY <3>2 DEF Pick
    <3>4. g[T \ {Pick(T)}] = h[T \ {Pick(T)}]
      BY <3>1, <3>2, <3>3
    <3> QED BY <2>1, <3>2, <3>4
  <2>3. \A T \in SUBSET S : g[T] = h[T]
    BY <2>2
  <2>4. /\ g = [T \in SUBSET S |-> g[T]]
        /\ h = [T \in SUBSET S |-> h[T]]
    <3>1. \A q : Sums(f, q, SUBSET S) => q = [T \in SUBSET S |-> q[T]]
      BY DEF Sums
    <3> QED BY <1>3, <3>1
  <2> QED BY <2>3, <2>4
<1>4. sum = sol
  <2> HIDE DEF sum
  <2> QED BY <1>1, <1>2, <1>3
<1> QED BY <1>1, <1>2, <1>4

\* A sum does not depend on the order in which its terms are chosen.
LEMMA SumWithout ==
  ASSUME NEW S, IsFiniteSet(S), NEW f \in [S -> Int], NEW g \in [SUBSET S -> Int],
         Sums(f, g, SUBSET S), NEW T \in SUBSET S, NEW x \in T
  PROVE  g[T] = f[x] + g[T \ {x}]
<1> DEFINE B == {U \in SUBSET S : \E y \in U : g[U] # f[y] + g[U \ {y}]}
<1>1. \A U \in SUBSET S : g[U] = IF U = {} THEN 0 ELSE f[Pick(U)] + g[U \ {Pick(U)}]
  <2>1. g = [U \in SUBSET S |-> IF U = {} THEN 0 ELSE f[Pick(U)] + g[U \ {Pick(U)}]]
    BY DEF Sums
  <2> QED BY <2>1, Zenon
<1>2. ASSUME B # {} PROVE FALSE
  <2>0. B \subseteq SUBSET S
    OBVIOUS
  <2>1. PICK U \in B : \A V \in B : V \subseteq U => V = U
    <3> HIDE DEF B
    <3> QED BY <1>2, <2>0, SmallestSubset
  <2>2. PICK y \in U : g[U] # f[y] + g[U \ {y}]
    OBVIOUS
  <2> DEFINE c == Pick(U)
  <2>3. c \in U
    BY <2>2 DEF Pick
  <2>4. g[U] = f[c] + g[U \ {c}]
    BY <1>1, <2>2
  <2>5. c # y
    BY <2>2, <2>4
  <2> HIDE DEF c
  <2>6. U \ {c} \in SUBSET S /\ U \ {y} \in SUBSET S /\ y \in U \ {c} /\ c \in U \ {y}
        /\ (U \ {c}) \ {y} = (U \ {y}) \ {c}
    BY <2>3, <2>5
  <2>7. /\ g[U \ {c}] = f[y] + g[(U \ {c}) \ {y}]
        /\ g[U \ {y}] = f[c] + g[(U \ {y}) \ {c}]
    <3>1. U \ {c} # U /\ U \ {y} # U
      BY <2>3, <2>2
    <3>2. U \ {c} \notin B /\ U \ {y} \notin B
      <4> HIDE DEF B
      <4> QED BY <2>1, <3>1
    <3> QED BY <3>2, <2>6
  <2>8. f[c] \in Int /\ f[y] \in Int /\ g[(U \ {c}) \ {y}] \in Int
    BY <2>3, <2>6
  <2>9. g[U] = f[c] + (f[y] + g[(U \ {c}) \ {y}])
    BY <2>4, <2>7
  <2>10. f[y] + g[U \ {y}] = f[y] + (f[c] + g[(U \ {c}) \ {y}])
    BY <2>6, <2>7
  <2> HIDE DEF B
  <2> QED BY <2>2, <2>8, <2>9, <2>10
<1> QED BY <1>2

\* Two tables that agree on the members of T have the same sum over T.
LEMMA SumSame ==
  ASSUME NEW S, IsFiniteSet(S), NEW f \in [S -> Int],
         NEW R, IsFiniteSet(R), NEW h \in [R -> Int],
         NEW T, T \subseteq S, T \subseteq R, \A x \in T : f[x] = h[x]
  PROVE  SubsetSums(f, S)[T] = SubsetSums(h, R)[T]
<1> DEFINE g == SubsetSums(f, S)
           k == SubsetSums(h, R)
           B == {U \in SUBSET T : g[U] # k[U]}
<1>0. Sums(f, g, SUBSET S) /\ Sums(h, k, SUBSET R)
  BY SumIs
<1> HIDE DEF g, k
<1>1. /\ \A U \in SUBSET S : g[U] = IF U = {} THEN 0 ELSE f[Pick(U)] + g[U \ {Pick(U)}]
      /\ \A U \in SUBSET R : k[U] = IF U = {} THEN 0 ELSE h[Pick(U)] + k[U \ {Pick(U)}]
  <2>1. g = [U \in SUBSET S |-> IF U = {} THEN 0 ELSE f[Pick(U)] + g[U \ {Pick(U)}]]
    BY <1>0 DEF Sums
  <2>2. k = [U \in SUBSET R |-> IF U = {} THEN 0 ELSE h[Pick(U)] + k[U \ {Pick(U)}]]
    BY <1>0 DEF Sums
  <2>3. \A U \in SUBSET S : g[U] = IF U = {} THEN 0 ELSE f[Pick(U)] + g[U \ {Pick(U)}]
    BY <2>1, Zenon
  <2>4. \A U \in SUBSET R : k[U] = IF U = {} THEN 0 ELSE h[Pick(U)] + k[U \ {Pick(U)}]
    BY <2>2, Zenon
  <2> QED BY <2>3, <2>4
<1>2. ASSUME B # {} PROVE FALSE
  <2>1. B \subseteq SUBSET T /\ IsFiniteSet(T)
    BY FS_Subset
  <2>2. PICK U \in B : \A V \in B : V \subseteq U => V = U
    <3> HIDE DEF B
    <3> QED BY <1>2, <2>1, SmallestSubset
  <2>3. U \in SUBSET T /\ U \in SUBSET S /\ U \in SUBSET R /\ g[U] # k[U]
    OBVIOUS
  <2>4. U # {}
    BY <1>1, <2>3
  <2>5. Pick(U) \in U
    BY <2>4 DEF Pick
  <2>6. g[U \ {Pick(U)}] = k[U \ {Pick(U)}]
    BY <2>2, <2>3, <2>5
  <2>7. /\ g[U] = f[Pick(U)] + g[U \ {Pick(U)}]
        /\ k[U] = h[Pick(U)] + k[U \ {Pick(U)}]
    BY <1>1, <2>3, <2>4
  <2> QED BY <2>3, <2>5, <2>6, <2>7
<1>3. g[T] = k[T]
  BY <1>2
<1> QED BY <1>3 DEF g, k

\* What one member contributes to a sum.
Term(f, S, x) == IF x \in S THEN f[x] ELSE 0

\* A sum of integers is an integer, and taking one member out of it takes out
\* that member's term.
LEMMA SumApart ==
  ASSUME NEW S, IsFiniteSet(S), NEW f \in [S -> Int], NEW x
  PROVE  /\ SumOf(f, S) \in Int
         /\ SubsetSums(f, S)[S \ {x}] \in Int
         /\ SumOf(f, S) = Term(f, S, x) + SubsetSums(f, S)[S \ {x}]
<1> DEFINE sum == SubsetSums(f, S)
<1>1. sum \in [SUBSET S -> Int] /\ Sums(f, sum, SUBSET S)
  BY SumIs
<1>2. SumOf(f, S) = sum[S]
  BY DEF SumOf
<1> HIDE DEF sum
<1>3. S \in SUBSET S /\ S \ {x} \in SUBSET S
  OBVIOUS
<1>4. SumOf(f, S) \in Int /\ sum[S \ {x}] \in Int
  BY <1>1, <1>2, <1>3
<1>5. CASE x \in S
  <2>1. sum[S] = f[x] + sum[S \ {x}]
    BY <1>1, <1>3, <1>5, SumWithout
  <2> QED BY <1>2, <1>4, <1>5, <2>1 DEF Term, sum
<1>6. CASE x \notin S
  <2>1. S \ {x} = S
    BY <1>6
  <2>2. sum[S \ {x}] = SumOf(f, S)
    BY <1>2, <2>1
  <2>3. Term(f, S, x) = 0
    BY <1>6 DEF Term
  <2>4. SumOf(f, S) = Term(f, S, x) + sum[S \ {x}]
    BY <1>4, <2>2, <2>3
  <2> QED BY <1>4, <2>4 DEF sum
<1> QED BY <1>5, <1>6

\* When only x is added, removed or given another value, the sum changes by
\* the change of what x contributes.
LEMMA SumStep ==
  ASSUME NEW S, IsFiniteSet(S), NEW f \in [S -> Int],
         NEW R, IsFiniteSet(R), NEW h \in [R -> Int],
         NEW x, S \ {x} = R \ {x}, \A y \in S \ {x} : f[y] = h[y]
  PROVE  /\ SumOf(f, S) \in Int /\ SumOf(h, R) \in Int
         /\ SumOf(h, R) - SumOf(f, S) = Term(h, R, x) - Term(f, S, x)
<1> DEFINE g == SubsetSums(f, S)
           k == SubsetSums(h, R)
<1>1. /\ g \in [SUBSET S -> Int] /\ Sums(f, g, SUBSET S)
      /\ k \in [SUBSET R -> Int] /\ Sums(h, k, SUBSET R)
  BY SumIs
<1>2. /\ SumOf(f, S) \in Int /\ g[S \ {x}] \in Int
      /\ SumOf(f, S) = Term(f, S, x) + g[S \ {x}]
  BY SumApart
<1>3. /\ SumOf(h, R) \in Int /\ k[R \ {x}] \in Int
      /\ SumOf(h, R) = Term(h, R, x) + k[R \ {x}]
  BY SumApart
<1> HIDE DEF g, k
<1>4. g[S \ {x}] = k[R \ {x}]
  <2> DEFINE T == S \ {x}
  <2>1. /\ T \subseteq S /\ T \subseteq R
        /\ \A y \in T : f[y] = h[y]
    OBVIOUS
  <2>2. T = R \ {x}
    OBVIOUS
  <2> HIDE DEF T
  <2>3. SubsetSums(f, S)[T] = SubsetSums(h, R)[T]
    BY <2>1, SumSame
  <2> QED BY <2>2, <2>3 DEF T, g, k
<1>5. Term(f, S, x) \in Int /\ Term(h, R, x) \in Int
  BY DEF Term
<1> DEFINE rest == g[S \ {x}]
           more == Term(h, R, x)
           less == Term(f, S, x)
<1>6. rest \in Int /\ SumOf(f, S) = less + rest /\ SumOf(h, R) = more + rest
  BY <1>2, <1>3, <1>4
<1>7. more \in Int /\ less \in Int
  BY <1>5
<1> HIDE DEF rest, more, less
<1>8. SumOf(h, R) - SumOf(f, S) = more - less
  BY <1>6, <1>7
<1> QED BY <1>2, <1>3, <1>8 DEF more, less

\* A table of zeros adds up to zero.
LEMMA SumOfZeros ==
  ASSUME NEW S, IsFiniteSet(S), NEW f \in [S -> Int], \A x \in S : f[x] = 0
  PROVE  SumOf(f, S) = 0
<1> DEFINE g == SubsetSums(f, S)
           B == {U \in SUBSET S : g[U] # 0}
<1>0. Sums(f, g, SUBSET S)
  BY SumIs
<1> HIDE DEF g
<1>1. \A U \in SUBSET S : g[U] = IF U = {} THEN 0 ELSE f[Pick(U)] + g[U \ {Pick(U)}]
  <2>1. g = [U \in SUBSET S |-> IF U = {} THEN 0 ELSE f[Pick(U)] + g[U \ {Pick(U)}]]
    BY <1>0 DEF Sums
  <2> QED BY <2>1, Zenon
<1>2. ASSUME B # {} PROVE FALSE
  <2>1. B \subseteq SUBSET S
    OBVIOUS
  <2>2. PICK U \in B : \A V \in B : V \subseteq U => V = U
    <3> HIDE DEF B
    <3> QED BY <1>2, <2>1, SmallestSubset
  <2>3. U \in SUBSET S /\ g[U] # 0 /\ U # {}
    BY <1>1
  <2>4. Pick(U) \in U
    BY <2>3 DEF Pick
  <2>5. g[U \ {Pick(U)}] = 0
    BY <2>2, <2>3, <2>4
  <2>6. g[U] = f[Pick(U)] + g[U \ {Pick(U)}]
    BY <1>1, <2>3
  <2> QED BY <2>3, <2>4, <2>5, <2>6
<1>3. g[S] = 0
  BY <1>2
<1> QED BY <1>3 DEF g, SumOf

\* Naturals add up to a natural number, no smaller than any one of them.
LEMMA SumOfNats ==
  ASSUME NEW S, IsFiniteSet(S), NEW f \in [S -> Nat], NEW x \in S
  PROVE  SumOf(f, S) \in Nat /\ f[x] <= SumOf(f, S)
<1> DEFINE g == SubsetSums(f, S)
           B == {U \in SUBSET S : ~(g[U] >= 0)}
<1>0. f \in [S -> Int]
  OBVIOUS
<1>1. g \in [SUBSET S -> Int] /\ Sums(f, g, SUBSET S)
  BY <1>0, SumIs
<1> HIDE DEF g
<1>2. \A U \in SUBSET S : g[U] = IF U = {} THEN 0 ELSE f[Pick(U)] + g[U \ {Pick(U)}]
  <2>1. g = [U \in SUBSET S |-> IF U = {} THEN 0 ELSE f[Pick(U)] + g[U \ {Pick(U)}]]
    BY <1>1 DEF Sums
  <2> QED BY <2>1, Zenon
<1>3. ASSUME B # {} PROVE FALSE
  <2>1. B \subseteq SUBSET S
    OBVIOUS
  <2>2. PICK U \in B : \A V \in B : V \subseteq U => V = U
    <3> HIDE DEF B
    <3> QED BY <1>3, <2>1, SmallestSubset
  <2>3. U \in SUBSET S /\ ~(g[U] >= 0) /\ U # {}
    BY <1>2
  <2>4. Pick(U) \in U
    BY <2>3 DEF Pick
  <2>5. g[U \ {Pick(U)}] >= 0
    BY <2>2, <2>3, <2>4
  <2>6. g[U] = f[Pick(U)] + g[U \ {Pick(U)}]
    BY <1>2, <2>3
  <2>7. f[Pick(U)] \in Nat /\ g[U \ {Pick(U)}] \in Int
    BY <1>1, <2>3, <2>4
  <2> QED BY <2>3, <2>5, <2>6, <2>7
<1>4. g[S \ {x}] >= 0
  BY <1>3
<1>5. /\ SumOf(f, S) \in Int /\ g[S \ {x}] \in Int
      /\ SumOf(f, S) = f[x] + g[S \ {x}]
  BY <1>0, SumApart DEF Term, g
<1>6. f[x] \in Nat
  OBVIOUS
<1> QED BY <1>4, <1>5, <1>6

(***************************************************************************)
(* The balances as sums.  Frozen(u) is what the ledger entries of each     *)
(* order of u keep frozen, Spent(u) what they took from or returned to the *)
(* spendable balance, Income(u) what codes and grants brought in.          *)
(***************************************************************************)
Frozen(u) == [o \in OrdersOf(u) |-> ledgerReserved[o]]
Spent(u)  == [o \in OrdersOf(u) |-> ledgerAvailable[o]]
Income(u) == [s \in Sources |-> entry[u][s] * Value[s]]

\* A user has finitely many orders, although there is no end of order ids.
FiniteOrders == \A u \in Users : IsFiniteSet(OrdersOf(u))

FrozenAddsUp == \A u \in Users : reserved[u] = SumOf(Frozen(u), OrdersOf(u))

SpentAddsUp ==
  \A u \in Users :
    available[u] = adjusted[u] + SumOf(Income(u), Sources) + SumOf(Spent(u), OrdersOf(u))

AccountInv == TypeOK /\ LedgerExplainsOrders /\ FiniteOrders

\* What every operation on an order is to the accounts: one entry, posted for
\* the user the order belongs to from then on, or no entry at all.
MovesOneOrder(o) ==
  /\ \A p \in Orders \ {o} : order'[p] = order[p]
  /\ UNCHANGED creditVars
  /\ \/ order'[o].user = order[o].user /\ UNCHANGED <<accountVars, ledgerVars>>
     \/ \E v \in Users, a \in Int, r \in Int :
          /\ PostEntry(o, v, a, r)
          /\ order'[o].user = v
          /\ order[o].user = v \/ order[o].status = "absent"

\* The sum over the orders of a user changes by what the entry of one
\* order adds, for either column of the ledger.
LEMMA TableMoves ==
  ASSUME NEW o \in Orders, NEW u \in Users,
         IsFiniteSet(OrdersOf(u)), IsFiniteSet(OrdersOf(u)'),
         \A p \in Orders \ {o} : order'[p] = order[p],
         NEW f \in [OrdersOf(u) -> Int], NEW h \in [OrdersOf(u)' -> Int],
         \A p \in OrdersOf(u) \ {o} : f[p] = h[p],
         NEW before \in Int, NEW d \in Int,
         o \in OrdersOf(u) => f[o] = before,
         o \in OrdersOf(u)' => h[o] = before + d,
         order[o].user # order'[o].user => before = 0
  PROVE  SumOf(h, OrdersOf(u)')
           = SumOf(f, OrdersOf(u)) + (IF order'[o].user = u THEN d ELSE 0)
<1> DEFINE S == OrdersOf(u)
           R == OrdersOf(u)'
           c == IF order'[o].user = u THEN d ELSE 0
<1>1. c \in Int
  OBVIOUS
<1>2. /\ S \subseteq Orders /\ R \subseteq Orders /\ S \ {o} = R \ {o}
      /\ o \in S <=> order[o].user = u
      /\ o \in R <=> order'[o].user = u
  BY DEF OrdersOf
<1>3. IsFiniteSet(S) /\ IsFiniteSet(R)
  OBVIOUS
<1> HIDE DEF S, R
<1>4. /\ f \in [S -> Int] /\ h \in [R -> Int]
      /\ \A y \in S \ {o} : f[y] = h[y]
      /\ o \in S => f[o] = before
      /\ o \in R => h[o] = before + d
  BY DEF S, R
<1>5. Term(f, S, o) = (IF order[o].user = u THEN before ELSE 0)
  BY <1>2, <1>4 DEF Term
<1>6. Term(h, R, o) = (IF order'[o].user = u THEN before + d ELSE 0)
  BY <1>2, <1>4 DEF Term
<1>7. /\ SumOf(f, S) \in Int /\ SumOf(h, R) \in Int
      /\ SumOf(h, R) - SumOf(f, S) = Term(h, R, o) - Term(f, S, o)
  <2>1. S \ {o} = R \ {o}
    BY <1>2
  <2>2. f \in [S -> Int] /\ h \in [R -> Int] /\ \A y \in S \ {o} : f[y] = h[y]
    BY <1>4
  <2> QED BY ONLY <2>1, <2>2, <1>3, SumStep
<1>8. Term(h, R, o) - Term(f, S, o) = c
  BY <1>5, <1>6
<1> HIDE DEF c
<1>9. SumOf(h, R) = SumOf(f, S) + c
  BY <1>1, <1>7, <1>8
<1> QED BY <1>9 DEF S, R, c

\* Frozen(u) and Spent(u) add up to the change of the user's balances.
LEMMA OrderMoves ==
  ASSUME AccountInv, LedgerExplainsOrders', NEW o \in Orders, MovesOneOrder(o), NEW u \in Users
  PROVE  /\ IsFiniteSet(OrdersOf(u)')
         /\ SumOf(Frozen(u)', OrdersOf(u)')
              = SumOf(Frozen(u), OrdersOf(u)) + (reserved'[u] - reserved[u])
         /\ SumOf(Spent(u)', OrdersOf(u)')
              = SumOf(Spent(u), OrdersOf(u)) + (available'[u] - available[u])
<1>1. IsFiniteSet(OrdersOf(u)) /\ OrdersOf(u)' \subseteq OrdersOf(u) \cup {o}
  BY DEF AccountInv, FiniteOrders, MovesOneOrder, OrdersOf
<1>2. IsFiniteSet(OrdersOf(u)')
  BY <1>1, FS_AddElement, FS_Subset
<1>3. CASE order'[o].user = order[o].user /\ UNCHANGED <<accountVars, ledgerVars>>
  <2>1. OrdersOf(u)' = OrdersOf(u)
    BY <1>3 DEF MovesOneOrder, OrdersOf
  <2>2. Frozen(u)' = Frozen(u) /\ Spent(u)' = Spent(u)
    BY <1>3, <2>1 DEF Frozen, Spent, ledgerVars
  <2>3. /\ Frozen(u) \in [OrdersOf(u) -> Int] /\ Spent(u) \in [OrdersOf(u) -> Int]
        /\ reserved[u] \in Int /\ available[u] \in Int
    BY DEF AccountInv, TypeOK, Frozen, Spent, OrdersOf
  <2>4. SumOf(Frozen(u), OrdersOf(u)) \in Int /\ SumOf(Spent(u), OrdersOf(u)) \in Int
    BY <1>1, <2>3, SumApart
  <2>5. reserved'[u] - reserved[u] = 0 /\ available'[u] - available[u] = 0
    BY <1>3, <2>3 DEF accountVars
  <2> QED BY <1>2, <2>1, <2>2, <2>4, <2>5
<1>4. ASSUME NEW v \in Users, NEW a \in Int, NEW r \in Int, PostEntry(o, v, a, r),
             order'[o].user = v, order[o].user = v \/ order[o].status = "absent"
      PROVE  /\ SumOf(Frozen(u)', OrdersOf(u)')
                  = SumOf(Frozen(u), OrdersOf(u)) + (reserved'[u] - reserved[u])
             /\ SumOf(Spent(u)', OrdersOf(u)')
                  = SumOf(Spent(u), OrdersOf(u)) + (available'[u] - available[u])
  <2>1. order[o].user # v => ledgerReserved[o] = 0 /\ ledgerAvailable[o] = 0
    BY <1>4 DEF AccountInv, LedgerExplainsOrders, Explained
  <2>2. /\ available \in [Users -> Int] /\ reserved \in [Users -> Int]
        /\ ledgerAvailable \in [Orders -> Int] /\ ledgerReserved \in [Orders -> Int]
        /\ TypeOK /\ LedgerExplainsOrders
    BY DEF AccountInv, TypeOK
  <2>3. \A p \in Orders \ {o} : order'[p] = order[p]
    BY DEF MovesOneOrder
  <2>4. SumOf(Frozen(u)', OrdersOf(u)')
          = SumOf(Frozen(u), OrdersOf(u)) + (reserved'[u] - reserved[u])
    <3>1. /\ ledgerReserved' \in [Orders -> Int] /\ ledgerReserved'[o] = ledgerReserved[o] + r
          /\ \A p \in Orders \ {o} : ledgerReserved'[p] = ledgerReserved[p]
          /\ reserved'[u] - reserved[u] = (IF v = u THEN r ELSE 0)
      <4>1. /\ ledgerReserved' = [ledgerReserved EXCEPT ![o] = @ + r]
            /\ reserved' = [reserved EXCEPT ![v] = @ + r]
        BY <1>4 DEF PostEntry
      <4>2. ledgerReserved' \in [Orders -> Int] /\ ledgerReserved'[o] = ledgerReserved[o] + r
        BY <2>2, <4>1
      <4>3. \A p \in Orders \ {o} : ledgerReserved'[p] = ledgerReserved[p]
        BY <2>2, <4>1
      <4>4. reserved[u] \in Int /\ reserved'[u] = (IF v = u THEN reserved[u] + r ELSE reserved[u])
        BY <2>2, <4>1
      <4>5. reserved'[u] - reserved[u] = (IF v = u THEN r ELSE 0)
        BY <4>4
      <4> QED BY <4>2, <4>3, <4>5
    <3>2. /\ Frozen(u) \in [OrdersOf(u) -> Int] /\ Frozen(u)' \in [OrdersOf(u)' -> Int]
          /\ \A p \in OrdersOf(u) \ {o} : Frozen(u)[p] = Frozen(u)'[p]
          /\ o \in OrdersOf(u) => Frozen(u)[o] = ledgerReserved[o]
          /\ o \in OrdersOf(u)' => Frozen(u)'[o] = ledgerReserved[o] + r
      BY <2>2, <2>3, <3>1 DEF Frozen, OrdersOf
    <3>3. ledgerReserved[o] \in Int /\ (order[o].user # order'[o].user => ledgerReserved[o] = 0)
      BY <1>4, <2>1, <2>2
    <3>4. SumOf(Frozen(u)', OrdersOf(u)')
            = SumOf(Frozen(u), OrdersOf(u)) + (IF order'[o].user = u THEN r ELSE 0)
      BY <1>1, <1>2, <2>3, <3>2, <3>3, TableMoves
    <3> QED BY <1>4, <3>1, <3>4
  <2>5. SumOf(Spent(u)', OrdersOf(u)')
          = SumOf(Spent(u), OrdersOf(u)) + (available'[u] - available[u])
    <3>1. /\ ledgerAvailable' \in [Orders -> Int] /\ ledgerAvailable'[o] = ledgerAvailable[o] + a
          /\ \A p \in Orders \ {o} : ledgerAvailable'[p] = ledgerAvailable[p]
          /\ available'[u] - available[u] = (IF v = u THEN a ELSE 0)
      <4>1. /\ ledgerAvailable' = [ledgerAvailable EXCEPT ![o] = @ + a]
            /\ available' = [available EXCEPT ![v] = @ + a]
        BY <1>4 DEF PostEntry
      <4>2. ledgerAvailable' \in [Orders -> Int] /\ ledgerAvailable'[o] = ledgerAvailable[o] + a
        BY <2>2, <4>1
      <4>3. \A p \in Orders \ {o} : ledgerAvailable'[p] = ledgerAvailable[p]
        BY <2>2, <4>1
      <4>4. available[u] \in Int /\ available'[u] = (IF v = u THEN available[u] + a ELSE available[u])
        BY <2>2, <4>1
      <4>5. available'[u] - available[u] = (IF v = u THEN a ELSE 0)
        BY <4>4
      <4> QED BY <4>2, <4>3, <4>5
    <3>2. /\ Spent(u) \in [OrdersOf(u) -> Int] /\ Spent(u)' \in [OrdersOf(u)' -> Int]
          /\ \A p \in OrdersOf(u) \ {o} : Spent(u)[p] = Spent(u)'[p]
          /\ o \in OrdersOf(u) => Spent(u)[o] = ledgerAvailable[o]
          /\ o \in OrdersOf(u)' => Spent(u)'[o] = ledgerAvailable[o] + a
      BY <2>2, <2>3, <3>1 DEF Spent, OrdersOf
    <3>3. ledgerAvailable[o] \in Int /\ (order[o].user # order'[o].user => ledgerAvailable[o] = 0)
      BY <1>4, <2>1, <2>2
    <3>4. SumOf(Spent(u)', OrdersOf(u)')
            = SumOf(Spent(u), OrdersOf(u)) + (IF order'[o].user = u THEN a ELSE 0)
      BY <1>1, <1>2, <2>3, <3>2, <3>3, TableMoves
    <3> QED BY <1>4, <3>1, <3>4
  <2> QED BY <2>4, <2>5
<1> QED BY <1>2, <1>3, <1>4 DEF MovesOneOrder

\* Every operation on an order posts one entry or none (OrderStep).
LEMMA OrderStepMovesOne ==
  ASSUME TypeOK, NEW o \in Orders, OrderStep(o)
  PROVE  MovesOneOrder(o)
<1> USE LedgerConstants
<1>0. order \in [Orders -> OrderRow]
  BY DEF TypeOK
<1>1. CASE \E u \in Users, mode \in Modes, price \in Prices :
             ReserveBillingOrder(o, u, mode, price)
  <2>1. PICK u \in Users, mode \in Modes, price \in Prices :
               ReserveBillingOrder(o, u, mode, price)
    BY <1>1
  <2>2. /\ PostEntry(o, u, -price, price) /\ UNCHANGED creditVars
        /\ order[o].status = "absent" /\ order'[o].user = u
        /\ \A p \in Orders \ {o} : order'[p] = order[p]
    BY <1>0, <2>1 DEF ReserveBillingOrder
  <2>3. -price \in Int /\ price \in Int
    OBVIOUS
  <2> QED BY <2>2, <2>3 DEF MovesOneOrder
<1>2. CASE \/ MarkBillingRunning(o)
           \/ MarkBillingUncertain(o)
           \/ \E cost \in Costs : ObserveUsage(o, cost) \/ KeepObservedCost(o, cost)
  BY <1>0, <1>2 DEF MovesOneOrder, MarkBillingRunning, MarkBillingUncertain, ObserveUsage,
       KeepObservedCost, OrderRow
<1>3. ASSUME NEW a \in Int, NEW r \in Int, order[o].status # "absent",
             PostEntry(o, order[o].user, a, r), UNCHANGED creditVars,
             order'[o].user = order[o].user,
             \A p \in Orders \ {o} : order'[p] = order[p]
      PROVE  MovesOneOrder(o)
  <2>1. order[o].user \in Users
    BY <1>3, RowType
  <2> QED BY <1>3, <2>1 DEF MovesOneOrder
<1>4. CASE SettleBillingOrder(o)
  <2>1. /\ order[o].status # "absent" /\ CostKnown(o, order[o])
        /\ SettleWrites(o, order[o], Cost(o, order[o]))
    BY <1>4 DEF SettleBillingOrder, OpenStatus
  <2>2. order[o].amount - Cost(o, order[o]) \in Int /\ -order[o].amount \in Int
    BY <2>1, RowType, CostType
  <2>3. /\ order'[o].user = order[o].user
        /\ \A p \in Orders \ {o} : order'[p] = order[p]
    BY <1>0, <2>1 DEF SettleWrites, OrderRow
  <2> QED BY <1>3, <2>1, <2>2, <2>3 DEF SettleWrites
<1>5. CASE RefundBillingOrder(o)
  <2>1. order[o].status # "absent" /\ RefundWrites(o, order[o])
    BY <1>5 DEF RefundBillingOrder, OpenStatus
  <2>2. order[o].amount \in Int /\ -order[o].amount \in Int
    BY <2>1, RowType
  <2>3. /\ order'[o].user = order[o].user
        /\ \A p \in Orders \ {o} : order'[p] = order[p]
    BY <1>0, <2>1 DEF RefundWrites, OrderRow
  <2> QED BY <1>3, <2>1, <2>2, <2>3 DEF RefundWrites
<1>6. CASE RestoreRefundedBillingOrder(o)
  <2>1. /\ order[o].status # "absent" /\ CostKnown(o, order[o])
        /\ RestoreWrites(o, order[o], Cost(o, order[o]))
    BY <1>6 DEF RestoreRefundedBillingOrder
  <2>2. -Cost(o, order[o]) \in Int /\ 0 \in Int
    BY <2>1, CostType
  <2>3. /\ order'[o].user = order[o].user
        /\ \A p \in Orders \ {o} : order'[p] = order[p]
    BY <1>0, <2>1 DEF RestoreWrites, OrderRow
  <2> QED BY <1>3, <2>1, <2>2, <2>3 DEF RestoreWrites
<1>7. CASE \E mode \in Modes, price \in Prices : RepriceBillingOrder(o, mode, price)
  <2>1. PICK mode \in Modes, price \in Prices :
               RepriceBillingOrder(o, mode, price)
    BY <1>7
  <2>2. order[o].status # "absent" /\ RepriceWrites(o, order[o], mode, price)
    BY <2>1 DEF RepriceBillingOrder
  <2>3. price - order[o].amount \in Int /\ -(price - order[o].amount) \in Int
    BY <2>2, RowType
  <2>4. /\ order'[o].user = order[o].user
        /\ \A p \in Orders \ {o} : order'[p] = order[p]
    BY <1>0, <2>2 DEF RepriceWrites, OrderRow
  <2> QED BY <1>3, <2>2, <2>3, <2>4 DEF RepriceWrites
<1> QED BY <1>1, <1>2, <1>4, <1>5, <1>6, <1>7 DEF OrderStep

\* A step that posts for one order keeps both sums, the income and the
\* adjustments being left alone.
LEMMA OneOrderKeepsSums ==
  ASSUME AccountInv, FrozenAddsUp, LedgerExplainsOrders', NEW o \in Orders, MovesOneOrder(o)
  PROVE  /\ FiniteOrders' /\ FrozenAddsUp'
         /\ IsFiniteSet(Sources) /\ SpentAddsUp => SpentAddsUp'
<1>1. ASSUME NEW u \in Users
      PROVE  /\ IsFiniteSet(OrdersOf(u)')
             /\ reserved'[u] = SumOf(Frozen(u)', OrdersOf(u)')
  <2>1. reserved[u] \in Int /\ reserved'[u] \in Int
    BY DEF AccountInv, TypeOK, MovesOneOrder, accountVars, PostEntry
  <2>2. reserved[u] = SumOf(Frozen(u), OrdersOf(u))
    BY DEF FrozenAddsUp
  <2>3. /\ IsFiniteSet(OrdersOf(u)')
        /\ SumOf(Frozen(u)', OrdersOf(u)')
              = SumOf(Frozen(u), OrdersOf(u)) + (reserved'[u] - reserved[u])
    BY OrderMoves
  <2> QED BY <2>1, <2>2, <2>3
<1>2. ASSUME NEW u \in Users, IsFiniteSet(Sources), SpentAddsUp
      PROVE  available'[u] = adjusted'[u] + SumOf(Income(u)', Sources)
                               + SumOf(Spent(u)', OrdersOf(u)')
  <2>1. available[u] \in Int /\ available'[u] \in Int /\ adjusted[u] \in Int
    BY DEF AccountInv, TypeOK, MovesOneOrder, accountVars, PostEntry
  <2>2. Income(u)' = Income(u) /\ adjusted' = adjusted
    BY DEF MovesOneOrder, creditVars, Income
  <2>3. Income(u) \in [Sources -> Int] /\ Spent(u) \in [OrdersOf(u) -> Int]
    BY LedgerConstants DEF AccountInv, TypeOK, Income, Spent, OrdersOf
  <2>4. SumOf(Income(u), Sources) \in Int
    BY <1>2, <2>3, SumApart
  <2>5. SumOf(Spent(u), OrdersOf(u)) \in Int
    BY <2>3, SumApart DEF AccountInv, FiniteOrders
  <2>6. SumOf(Spent(u)', OrdersOf(u)')
          = SumOf(Spent(u), OrdersOf(u)) + (available'[u] - available[u])
    BY OrderMoves
  <2>7. available[u] = adjusted[u] + SumOf(Income(u), Sources) + SumOf(Spent(u), OrdersOf(u))
    BY <1>2 DEF SpentAddsUp
  <2>8. SumOf(Income(u)', Sources) = SumOf(Income(u), Sources) /\ adjusted'[u] = adjusted[u]
    BY <2>2
  <2> QED BY <2>1, <2>4, <2>5, <2>6, <2>7, <2>8
<1> QED BY <1>1, <1>2 DEF FiniteOrders, FrozenAddsUp, SpentAddsUp

\* A code or a grant adds its value to the income of one user and to nobody
\* else's (CreditFrom).
LEMMA IncomeMoves ==
  ASSUME TypeOK, IsFiniteSet(Sources), NEW v \in Users, NEW s \in Sources, CreditFrom(v, s),
         NEW u \in Users
  PROVE  /\ SumOf(Income(u), Sources) \in Int
         /\ SumOf(Income(u)', Sources)
              = SumOf(Income(u), Sources) + (IF u = v THEN Value[s] ELSE 0)
<1> DEFINE f == Income(u)
           h == Income(u)'
           n == entry[u][s]
           w == Value[s]
<1>1. /\ \A t \in Sources : Value[t] \in Nat /\ entry[u][t] \in Nat
      /\ \A t \in Sources : entry'[u][t] = IF u = v /\ t = s THEN n + 1 ELSE entry[u][t]
  BY LedgerConstants DEF TypeOK, CreditFrom
<1>2. /\ f \in [Sources -> Int] /\ h \in [Sources -> Int]
      /\ \A t \in Sources \ {s} : f[t] = h[t]
  BY <1>1 DEF Income
<1>3. Term(f, Sources, s) = n * w
  BY DEF Income, Term
<1>4. Term(h, Sources, s) = IF u = v THEN (n + 1) * w ELSE n * w
  BY <1>1 DEF Income, Term
<1>5. n \in Nat /\ w \in Nat
  BY <1>1
<1> HIDE DEF f, h, n, w
<1>6. n * w \in Int /\ (n + 1) * w = n * w + w
  BY <1>5
<1>7. /\ SumOf(f, Sources) \in Int /\ SumOf(h, Sources) \in Int
      /\ SumOf(h, Sources) - SumOf(f, Sources) = Term(h, Sources, s) - Term(f, Sources, s)
  BY <1>2, SumStep
<1>8. Term(h, Sources, s) - Term(f, Sources, s) = IF u = v THEN w ELSE 0
  BY <1>3, <1>4, <1>5, <1>6
<1>9. SumOf(h, Sources) = SumOf(f, Sources) + (IF u = v THEN w ELSE 0)
  BY <1>5, <1>7, <1>8
<1> QED BY <1>7, <1>9 DEF f, h, w

\* Administrators, codes and grants leave the orders alone; what they add to a
\* balance they add to the adjustments or to the income.
LEMMA CreditKeepsSums ==
  ASSUME AccountInv, FrozenAddsUp, CreditStep
  PROVE  /\ FiniteOrders' /\ FrozenAddsUp'
         /\ IsFiniteSet(Sources) /\ SpentAddsUp => SpentAddsUp'
<1>1. UNCHANGED <<reserved, order, ledgerVars>>
  BY DEF CreditStep, AdjustCredits, RedeemCode, RetireCode, GrantCreditsOnce, CreditFrom,
       accountVars
<1>2. \A u \in Users : /\ OrdersOf(u)' = OrdersOf(u)
                       /\ Frozen(u)' = Frozen(u) /\ Spent(u)' = Spent(u)
  BY <1>1 DEF OrdersOf, Frozen, Spent, ledgerVars
<1>3. FiniteOrders' /\ FrozenAddsUp'
  BY <1>1, <1>2 DEF AccountInv, FiniteOrders, FrozenAddsUp
<1>4. ASSUME IsFiniteSet(Sources), SpentAddsUp, NEW u \in Users
      PROVE  available'[u] = adjusted'[u] + SumOf(Income(u)', Sources)
                               + SumOf(Spent(u)', OrdersOf(u)')
  <2>0. /\ Income(u) \in [Sources -> Int] /\ Spent(u) \in [OrdersOf(u) -> Int]
        /\ available[u] \in Int /\ adjusted[u] \in Int
    BY LedgerConstants DEF AccountInv, TypeOK, Income, Spent, OrdersOf
  <2>1. SumOf(Income(u), Sources) \in Int
    BY <1>4, <2>0, SumApart
  <2>2. SumOf(Spent(u), OrdersOf(u)) \in Int
    BY <2>0, SumApart DEF AccountInv, FiniteOrders
  <2>3. available[u] = adjusted[u] + SumOf(Income(u), Sources) + SumOf(Spent(u), OrdersOf(u))
    BY <1>4 DEF SpentAddsUp
  <2>4. SumOf(Spent(u)', OrdersOf(u)') = SumOf(Spent(u), OrdersOf(u))
    BY <1>2
  <2>5. ASSUME NEW v \in Users, NEW amount \in Adjustments, AdjustCredits(v, amount)
        PROVE  available'[u] = adjusted'[u] + SumOf(Income(u)', Sources)
                                 + SumOf(Spent(u)', OrdersOf(u)')
    <3>1. /\ amount \in Int
          /\ available'[u] = available[u] + (IF u = v THEN amount ELSE 0)
          /\ adjusted'[u] = adjusted[u] + (IF u = v THEN amount ELSE 0)
      BY <2>0, <2>5, LedgerConstants DEF AdjustCredits, AccountInv, TypeOK
    <3>2. SumOf(Income(u)', Sources) = SumOf(Income(u), Sources)
      BY <2>5 DEF AdjustCredits, Income
    <3> QED BY <2>0, <2>1, <2>2, <2>3, <2>4, <3>1, <3>2
  <2>6. ASSUME NEW v \in Users, NEW s \in Sources, CreditFrom(v, s)
        PROVE  available'[u] = adjusted'[u] + SumOf(Income(u)', Sources)
                                 + SumOf(Spent(u)', OrdersOf(u)')
    <3>1. /\ Value[s] \in Int
          /\ available'[u] = available[u] + (IF u = v THEN Value[s] ELSE 0)
          /\ adjusted'[u] = adjusted[u]
      BY <2>0, <2>6, LedgerConstants DEF CreditFrom, AccountInv, TypeOK
    <3>2. SumOf(Income(u)', Sources)
            = SumOf(Income(u), Sources) + (IF u = v THEN Value[s] ELSE 0)
      BY <1>4, <2>6, IncomeMoves DEF AccountInv
    <3> QED BY <2>0, <2>1, <2>2, <2>3, <2>4, <3>1, <3>2
  <2>7. ASSUME NEW c \in Codes, RetireCode(c)
        PROVE  available'[u] = adjusted'[u] + SumOf(Income(u)', Sources)
                                 + SumOf(Spent(u)', OrdersOf(u)')
    <3>1. available'[u] = available[u] /\ adjusted'[u] = adjusted[u] /\ Income(u)' = Income(u)
      BY <2>7 DEF RetireCode, accountVars, Income
    <3> QED BY <2>3, <2>4, <3>1
  <2> QED BY <2>5, <2>6, <2>7 DEF CreditStep, RedeemCode, GrantCreditsOnce, Sources
<1> QED BY <1>3, <1>4 DEF SpentAddsUp

\* Without orders and without credits every balance is zero.
LEMMA InitAddsUp ==
  Init => FiniteOrders /\ FrozenAddsUp /\ (IsFiniteSet(Sources) => SpentAddsUp)
<1> SUFFICES ASSUME Init
             PROVE  FiniteOrders /\ FrozenAddsUp /\ (IsFiniteSet(Sources) => SpentAddsUp)
  OBVIOUS
<1>1. \A u \in Users : OrdersOf(u) = {}
  BY LedgerConstants DEF Init, OrdersOf, NoOrder
<1>2. IsFiniteSet({})
  BY FS_EmptySet
<1>3. ASSUME NEW u \in Users
      PROVE  SumOf(Frozen(u), OrdersOf(u)) = 0 /\ SumOf(Spent(u), OrdersOf(u)) = 0
  <2>1. /\ Frozen(u) \in [{} -> Int] /\ \A x \in {} : Frozen(u)[x] = 0
        /\ Spent(u) \in [{} -> Int] /\ \A x \in {} : Spent(u)[x] = 0
    BY <1>1 DEF Frozen, Spent
  <2> QED BY <1>1, <1>2, <2>1, SumOfZeros
<1>4. ASSUME NEW u \in Users, IsFiniteSet(Sources)
      PROVE  SumOf(Income(u), Sources) = 0
  <2>1. Income(u) \in [Sources -> Int] /\ \A s \in Sources : Income(u)[s] = 0
    <3>1. \A s \in Sources : entry[u][s] * Value[s] = 0
      BY LedgerConstants DEF Init
    <3> QED BY <3>1 DEF Income
  <2> QED BY <1>4, <2>1, SumOfZeros
<1>5. \A u \in Users : available[u] = 0 /\ reserved[u] = 0 /\ adjusted[u] = 0
  BY DEF Init
<1>6. ASSUME NEW u \in Users
      PROVE  IsFiniteSet(OrdersOf(u)) /\ reserved[u] = SumOf(Frozen(u), OrdersOf(u))
  BY <1>1, <1>2, <1>3, <1>5
<1>7. ASSUME NEW u \in Users, IsFiniteSet(Sources)
      PROVE  available[u] = adjusted[u] + SumOf(Income(u), Sources)
                              + SumOf(Spent(u), OrdersOf(u))
  <2>1. SumOf(Income(u), Sources) = 0
    BY <1>4, <1>7
  <2>2. SumOf(Spent(u), OrdersOf(u)) = 0 /\ available[u] = 0 /\ adjusted[u] = 0
    BY <1>3, <1>5
  <2> QED BY <2>1, <2>2
<1> QED BY <1>6, <1>7 DEF FiniteOrders, FrozenAddsUp, SpentAddsUp

\* The sums are those that CreditLedger states.
LEMMA HoldsAreFrozen ==
  ASSUME TypeOK, LedgerExplainsOrders, FrozenAddsUp
  PROVE  ReservedIsHeld
<1>1. \A o \in Orders : Held(o) = ledgerReserved[o]
  <2>1. \A o \in Orders : order[o] \in OrderRow /\ Explained(o)
    BY DEF TypeOK, LedgerExplainsOrders
  <2> QED BY <2>1 DEF Held, Explained, IsOpen, OpenStatus, OrderRow, OrderStatus
<1>2. ASSUME NEW u \in Users
      PROVE  reserved[u] = MapThenSumSet(Held, OrdersOf(u))
  <2>1. [o \in OrdersOf(u) |-> Held(o)] = Frozen(u)
    BY <1>1 DEF Frozen, OrdersOf
  <2>2. MapThenSumSet(Held, OrdersOf(u))
          = SumOf([o \in OrdersOf(u) |-> Held(o)], OrdersOf(u))
    BY DEF MapThenSumSet, MapThenFoldSet, SumOf, SubsetSums, Sums, Pick
  <2> QED BY <2>1, <2>2 DEF FrozenAddsUp
<1> QED BY <1>2 DEF ReservedIsHeld

LEMMA SpendingIsExplained ==
  ASSUME SpentAddsUp
  PROVE  AvailableIsExplained
<1>1. ASSUME NEW u \in Users
      PROVE  /\ MapThenSumSet(LAMBDA s : entry[u][s] * Value[s], Sources)
                  = SumOf(Income(u), Sources)
             /\ MapThenSumSet(LAMBDA o : ledgerAvailable[o], OrdersOf(u))
                  = SumOf(Spent(u), OrdersOf(u))
  <2>1. MapThenSumSet(LAMBDA s : entry[u][s] * Value[s], Sources) = SumOf(Income(u), Sources)
    BY DEF MapThenSumSet, MapThenFoldSet, SumOf, SubsetSums, Sums, Pick, Income
  <2>2. MapThenSumSet(LAMBDA o : ledgerAvailable[o], OrdersOf(u)) = SumOf(Spent(u), OrdersOf(u))
    BY DEF MapThenSumSet, MapThenFoldSet, SumOf, SubsetSums, Sums, Pick, Spent
  <2> QED BY <2>1, <2>2
<1> QED BY <1>1 DEF SpentAddsUp, AvailableIsExplained

\* The invariant of the balances: the types, the ledger's account of every
\* order, and both balances as sums over the orders of the user.
BalanceInv ==
  /\ AccountInv
  /\ FrozenAddsUp
  /\ IsFiniteSet(Sources) => SpentAddsUp

\* A step that posts for one order, or none, keeps the invariant.
LEMMA OneOrderKeepsBalances ==
  ASSUME BalanceInv, NEW o \in Orders, MovesOneOrder(o), TypeOK', LedgerExplainsOrders'
  PROVE  BalanceInv'
  BY OneOrderKeepsSums DEF BalanceInv, AccountInv

LEMMA InitBalances == Init => BalanceInv
  BY InitType, InitExplained, InitAddsUp DEF BalanceInv, AccountInv

LEMMA NextBalances ==
  ASSUME BalanceInv, [Next]_vars
  PROVE  BalanceInv'
<1>1. TypeOK /\ LedgerExplainsOrders /\ TypeOK' /\ LedgerExplainsOrders'
  BY NextExplained DEF BalanceInv, AccountInv
<1>2. CASE CreditStep
  BY <1>1, <1>2, CreditKeepsSums DEF BalanceInv, AccountInv
<1>3. ASSUME NEW o \in Orders, OrderStep(o)
      PROVE  BalanceInv'
  <2>1. MovesOneOrder(o)
    BY <1>1, <1>3, OrderStepMovesOne
  <2> QED BY <1>1, <2>1, OneOrderKeepsBalances
<1>4. CASE UNCHANGED vars
  <2>1. UNCHANGED <<available, reserved, adjusted>>
    BY <1>4 DEF vars, accountVars, creditVars
  <2>2. \A u \in Users : /\ OrdersOf(u)' = OrdersOf(u) /\ Income(u)' = Income(u)
                         /\ Frozen(u)' = Frozen(u) /\ Spent(u)' = Spent(u)
    BY <1>4 DEF vars, ledgerVars, creditVars, OrdersOf, Frozen, Spent, Income
  <2> QED BY <1>1, <2>1, <2>2 DEF BalanceInv, AccountInv, FiniteOrders, FrozenAddsUp,
                                SpentAddsUp
<1> QED BY <1>2, <1>3, <1>4 DEF Next

LEMMA BalancesHeld == BalanceInv => ReservedIsHeld
  BY HoldsAreFrozen DEF BalanceInv, AccountInv

LEMMA BalancesExplained ==
  ASSUME IsFiniteSet(Sources)
  PROVE  BalanceInv => AvailableIsExplained
  BY SpendingIsExplained DEF BalanceInv

\* What every user has frozen covers each order that is open.
OpenOrdersCovered ==
  \A o \in Orders : IsOpen(o) => reserved[order[o].user] >= order[o].amount

LEMMA BalancesCover == BalanceInv => OpenOrdersCovered
<1> SUFFICES ASSUME BalanceInv, NEW o \in Orders, IsOpen(o)
             PROVE  reserved[order[o].user] >= order[o].amount
  BY DEF OpenOrdersCovered
<1> DEFINE u == order[o].user
<1>1. u \in Users /\ o \in OrdersOf(u) /\ order[o].amount \in Nat
  BY RowType DEF BalanceInv, AccountInv, IsOpen, OpenStatus, OrdersOf
<1>2. \A p \in Orders : ledgerReserved[p] \in Nat
  <2>1. \A p \in Orders : order[p] \in OrderRow /\ Explained(p)
    BY DEF BalanceInv, AccountInv, TypeOK, LedgerExplainsOrders
  <2> QED BY <2>1 DEF Explained, IsOpen, OpenStatus, OrderRow, OrderStatus
<1>3. ledgerReserved[o] = order[o].amount
  BY DEF BalanceInv, AccountInv, LedgerExplainsOrders, Explained
<1> HIDE DEF u
<1>4. Frozen(u) \in [OrdersOf(u) -> Nat] /\ Frozen(u)[o] = order[o].amount
  BY <1>1, <1>2, <1>3 DEF Frozen, OrdersOf
<1>5. IsFiniteSet(OrdersOf(u)) /\ reserved[u] = SumOf(Frozen(u), OrdersOf(u))
  BY <1>1 DEF BalanceInv, AccountInv, FiniteOrders, FrozenAddsUp
<1>6. SumOf(Frozen(u), OrdersOf(u)) \in Nat /\ order[o].amount <= SumOf(Frozen(u), OrdersOf(u))
  BY <1>1, <1>4, <1>5, SumOfNats
<1>7. reserved[u] >= order[o].amount
  BY <1>1, <1>5, <1>6
<1> QED BY <1>7 DEF u

\* The frozen balance of every user is the sum of the holds of that user's open
\* orders, for any number of users and of orders.
THEOREM HoldsAddUp == Spec => []ReservedIsHeld
  BY InitBalances, NextBalances, BalancesHeld, PTL DEF Spec

\* So no settlement and no refund of an open order can fail on "reserved credit
\* balance is inconsistent" (finance.go:779 and :965).
THEOREM HoldsCovered == Spec => []OpenOrdersCovered
  BY InitBalances, NextBalances, BalancesCover, PTL DEF Spec

\* No credit is lost or made: the spendable balance is what came in, less what
\* the orders took.  The codes and reference keys must be finitely many, or
\* their sum would have no meaning; orders and users need not be.
THEOREM CreditsAddUp == ASSUME IsFiniteSet(Sources) PROVE Spec => []AvailableIsExplained
  BY InitBalances, NextBalances, BalancesExplained, PTL DEF Spec

=============================================================================
