---------------------- MODULE CreditTransactions_proofs -----------------------
(***************************************************************************)
(* The transactions of finance.go behave like the atomic functions of      *)
(* CreditLedger, for every number of sessions, orders, prices and costs:   *)
(* under a snapshot whatever overlaps, under READ COMMITTED when only      *)
(* restores overlap on an order (the race run shows what a settlement next *)
(* to a refund does).                                                      *)
(*                                                                         *)
(* The argument follows what a transaction read.  Under a snapshot it may  *)
(* still write only if nothing was committed since, so what it read holds. *)
(* Under READ COMMITTED other steps reach its order, but none of them      *)
(* changes the order's user, mode and amount, closes it under a settlement *)
(* or takes back a reported usage: Drift names what they may do.           *)
(***************************************************************************)
EXTENDS CreditTransactions, CreditLedger_proofs

SafeOverlaps ==
  "read_committed" \in Isolations => MayOverlap("read_committed") \subseteq {"restore"}

Base ==
  /\ TypeOK
  /\ LedgerExplainsOrders
  /\ usage \in [Orders -> Costs \cup {NoUsage}]

\* What a transaction carries from its read part.
Carries(t) ==
  /\ t \in Txn
  /\ t.row.user \in Users
  /\ t.kind = "reprice" => t.price \in Prices /\ t.price > 0
  /\ t.kind \in {"settle", "restore"} /\ t.row.mode = "token" => t.cost \in Costs

\* What it read and still relies on is true of the database.
Holds(t) ==
  /\ order[t.order].status # "absent"
  /\ order[t.order].user = t.row.user
  /\ order[t.order].mode = t.row.mode
  /\ order[t.order].amount = t.row.amount
  /\ t.kind \in {"settle", "refund"} => order[t.order].status \in OpenStatus
  /\ t.kind \in {"settle", "restore"} =>
       /\ t.row.mode = "token" => usage[t.order] # NoUsage
       /\ t.row.mode # "token" => t.cost = t.row.amount

\* The usage it charges is the newest one.
Newest(t) ==
  t.kind \in {"settle", "restore"} /\ t.row.mode = "token" => t.cost = usage[t.order]

Sound(t) ==
  /\ Carries(t)
  /\ ~t.stale => Holds(t)
  /\ isolation = "snapshot" /\ ~t.stale => Newest(t)
  /\ isolation = "read_committed" => ~t.stale

\* Under READ COMMITTED only restores share an order.
OnlyRestoresShare ==
  isolation = "read_committed" =>
    \A s, t \in Sessions :
      IsBusy(s) /\ IsBusy(t) /\ s # t /\ txn[s].order = txn[t].order =>
        txn[s].kind = "restore" /\ txn[t].kind = "restore"

TxnInv ==
  /\ Base
  /\ TxnTypeOK
  /\ \A s \in Sessions : IsBusy(s) => Sound(txn[s])
  /\ OnlyRestoresShare

\* What a step may do to an order that an open transaction has read.
Drift(o) ==
  /\ usage[o] # NoUsage => usage'[o] # NoUsage
  /\ order[o].status # "absent" =>
       /\ order'[o].status # "absent"
       /\ order'[o].user = order[o].user
       /\ order'[o].mode = order[o].mode
       /\ order'[o].amount = order[o].amount
       /\ order[o].status \in OpenStatus => order'[o].status \in OpenStatus

(***************************************************************************)
(* The ledger under the steps it sees.                                     *)
(***************************************************************************)

\* A settlement or a restore that charges an earlier usage closes the order as
\* the newest one would.
LEMMA LateStepExplained ==
  ASSUME TypeOK, LedgerExplainsOrders, NEW o \in Orders, ChargesEarlierUsage(o)
  PROVE  TypeOK' /\ LedgerExplainsOrders'
<1>1. Explained(o) /\ order[o] \in OrderRow
  BY DEF LedgerExplainsOrders, TypeOK
<1>2. ASSUME NEW cost \in Costs, order[o].status \in OpenStatus,
             SettleWrites(o, order[o], cost)
      PROVE  TypeOK' /\ LedgerExplainsOrders'
  <2>1. IsOpen(o) /\ order[o].status # "absent" /\ cost \in Nat
    BY <1>2, LedgerConstants DEF IsOpen, OpenStatus
  <2>2. order[o].amount \in Nat /\ reserved[order[o].user] \in Nat
    BY <2>1, RowType
  <2>3. ledgerAvailable[o] = -order[o].amount /\ ledgerReserved[o] = order[o].amount
    BY <1>1, <2>1 DEF Explained
  <2> DEFINE a == order[o].amount - cost
             r == -order[o].amount
  <2>4. /\ a \in Int /\ r \in Int /\ reserved[order[o].user] + r >= 0
        /\ ledgerAvailable[o] + a = -cost /\ ledgerReserved[o] + r = 0
    BY <1>2, <2>1, <2>2, <2>3 DEF SettleWrites
  <2>5. /\ PostEntry(o, order[o].user, a, r)
        /\ order' = [order EXCEPT ![o].status = "settled", ![o].actual = cost]
        /\ UNCHANGED <<usage, creditVars>>
    BY <1>2 DEF SettleWrites
  <2> HIDE DEF a, r
  <2> QED BY ClosedOrderStep, <2>1, <2>4, <2>5
<1>3. ASSUME NEW cost \in Costs, order[o].status = "refunded",
             RestoreWrites(o, order[o], cost)
      PROVE  TypeOK' /\ LedgerExplainsOrders'
  <2>1. cost \in Nat /\ order[o].status # "absent" /\ reserved[order[o].user] \in Nat
    BY <1>3, RowType, LedgerConstants
  <2>2. ledgerAvailable[o] = 0 /\ ledgerReserved[o] = 0
    BY <1>1, <1>3 DEF Explained
  <2> DEFINE a == -cost
             r == 0
  <2>3. /\ a \in Int /\ r \in Int /\ reserved[order[o].user] + r >= 0
        /\ ledgerAvailable[o] + a = -cost /\ ledgerReserved[o] + r = 0
    BY <2>1, <2>2
  <2>4. /\ PostEntry(o, order[o].user, a, r)
        /\ order' = [order EXCEPT ![o].status = "settled", ![o].actual = cost]
        /\ UNCHANGED <<usage, creditVars>>
    BY <1>3 DEF RestoreWrites
  <2> HIDE DEF a, r
  <2> QED BY ClosedOrderStep, <2>1, <2>3, <2>4
<1> QED BY <1>2, <1>3 DEF ChargesEarlierUsage

\* Usage logs hold costs (ObserveUsage), and no other step writes one.
LEMMA UsageStep ==
  ASSUME usage \in [Orders -> Costs \cup {NoUsage}], [LedgerStep]_vars
  PROVE  usage' \in [Orders -> Costs \cup {NoUsage}]
<1>1. ASSUME NEW o \in Orders, NEW cost \in Costs, ObserveUsage(o, cost)
      PROVE  usage' \in [Orders -> Costs \cup {NoUsage}]
  BY <1>1 DEF ObserveUsage
<1>2. ASSUME NEW o \in Orders, OrderStep(o)
      PROVE  usage' = usage \/ \E cost \in Costs : ObserveUsage(o, cost)
  BY <1>2 DEF OrderStep, ReserveBillingOrder, MarkBillingRunning, MarkBillingUncertain,
       KeepObservedCost, SettleBillingOrder, SettleWrites, RefundBillingOrder,
       RefundWrites, RestoreRefundedBillingOrder, RestoreWrites, RepriceBillingOrder,
       RepriceWrites
<1>3. CreditStep => usage' = usage
  BY DEF CreditStep, AdjustCredits, RedeemCode, RetireCode, GrantCreditsOnce, CreditFrom
<1>4. ASSUME NEW o \in Orders, ChargesEarlierUsage(o)
      PROVE  usage' = usage
  BY <1>4 DEF ChargesEarlierUsage, SettleWrites, RestoreWrites
<1>5. UNCHANGED vars => usage' = usage
  BY DEF vars
<1> QED BY <1>1, <1>2, <1>3, <1>4, <1>5 DEF LedgerStep, Next

LEMMA BaseStep ==
  ASSUME Base, [LedgerStep]_vars
  PROVE  Base'
<1>1. usage' \in [Orders -> Costs \cup {NoUsage}]
  BY UsageStep DEF Base
<1>2. CASE \E o \in Orders : ChargesEarlierUsage(o)
  BY <1>1, <1>2, LateStepExplained DEF Base
<1>3. CASE [Next]_vars
  BY <1>1, <1>3, NextExplained DEF Base
<1> QED BY <1>2, <1>3 DEF LedgerStep

(***************************************************************************)
(* Every transaction step is a step of the ledger, or none.                *)
(***************************************************************************)

\* The write part of a transaction whose reads still hold is the function of
\* CreditLedger; under READ COMMITTED it may charge an earlier usage.
LEMMA WritesAreAtomic ==
  ASSUME Base, NEW t, Carries(t), Holds(t), Writes(t),
         isolation = "read_committed" \/ Newest(t)
  PROVE  LedgerStep
<1> DEFINE o == t.order
<1>1. o \in Orders /\ t.row \in OrderRow /\ t.mode \in Modes /\ t.row.mode \in Modes
  BY DEF Carries, Txn, OrderRow
<1>2. CASE t.kind = "settle" /\ SettleWrites(t.order, t.row, t.cost)
  <2>1. SettleWrites(o, order[o], t.cost) /\ order[o].status \in OpenStatus
    BY <1>2 DEF Holds, SettleWrites
  <2>2. CASE t.row.mode # "token" \/ Newest(t)
    <3>1. CostKnown(o, order[o]) /\ t.cost = Cost(o, order[o])
      BY <1>2, <2>2 DEF Holds, Newest, CostKnown, Cost
    <3>2. OrderStep(o)
      BY <2>1, <3>1 DEF SettleBillingOrder, OrderStep
    <3> QED BY <1>1, <3>2 DEF LedgerStep, Next
  <2>3. CASE t.row.mode = "token" /\ isolation = "read_committed"
    <3>1. ChargesEarlierUsage(o)
      BY <1>2, <2>1, <2>3 DEF Holds, Carries, ChargesEarlierUsage
    <3> QED BY <1>1, <2>3, <3>1 DEF LedgerStep
  <2> QED BY <2>2, <2>3
<1>3. CASE t.kind = "restore" /\ RestoreWrites(t.order, t.row, t.cost)
  <2>1. RestoreWrites(o, order[o], t.cost) /\ order[o].status = "refunded"
    BY <1>3 DEF Holds, RestoreWrites
  <2>2. CASE t.row.mode # "token" \/ Newest(t)
    <3>1. CostKnown(o, order[o]) /\ t.cost = Cost(o, order[o])
      BY <1>3, <2>2 DEF Holds, Newest, CostKnown, Cost
    <3>2. OrderStep(o)
      BY <2>1, <3>1 DEF RestoreRefundedBillingOrder, OrderStep
    <3> QED BY <1>1, <3>2 DEF LedgerStep, Next
  <2>3. CASE t.row.mode = "token" /\ isolation = "read_committed"
    <3>1. ChargesEarlierUsage(o)
      BY <1>3, <2>1, <2>3 DEF Holds, Carries, ChargesEarlierUsage
    <3> QED BY <1>1, <2>3, <3>1 DEF LedgerStep
  <2> QED BY <2>2, <2>3
<1>4. CASE t.kind = "refund" /\ RefundWrites(t.order, t.row)
  <2>1. RefundBillingOrder(o)
    BY <1>4 DEF Holds, RefundBillingOrder, RefundWrites
  <2> QED BY <1>1, <2>1 DEF OrderStep, LedgerStep, Next
<1>5. CASE t.kind = "reprice" /\ RepriceWrites(t.order, t.row, t.mode, t.price)
  <2>1. t.price \in Prices /\ t.price > 0
    BY <1>5 DEF Carries
  <2>2. RepriceWrites(o, order[o], t.mode, t.price)
    BY <1>5 DEF Holds, RepriceWrites
  <2>3. RepriceBillingOrder(o, t.mode, t.price)
    BY <2>1, <2>2 DEF RepriceBillingOrder, RepriceWrites
  <2> QED BY <1>1, <2>1, <2>3 DEF OrderStep, LedgerStep, Next
<1> QED BY <1>2, <1>3, <1>4, <1>5 DEF Writes

\* The only isolations are the two of internal/database/database.go.
LEMMA IsolationType ==
  ASSUME TxnTypeOK
  PROVE  isolation \in {"snapshot", "read_committed"} /\ isolation \in Isolations
  BY TransactionConstants DEF TxnTypeOK

\* An open transaction has the fields of one.
LEMMA BusyType ==
  ASSUME TxnTypeOK, NEW s \in Sessions, IsBusy(s)
  PROVE  txn[s] \in Txn /\ txn[s].order \in Orders
<1>1. txn[s] \in Txn \cup {Idle}
  BY DEF TxnTypeOK
<1>2. txn[s] # Idle
  BY DEF IsBusy, Idle
<1>3. txn[s] \in Txn
  BY <1>1, <1>2
<1> QED BY <1>3 DEF Txn

\* Whatever a session does, the ledger makes one of its own steps or none.
LEMMA TxnStepIsLedgerStep ==
  ASSUME TxnInv, [TxnNext]_txnVars
  PROVE  [LedgerStep]_vars
<1>1. ASSUME Statement PROVE Next
  BY <1>1 DEF Statement, Next, OrderStep
<1>2. ASSUME NEW s \in Sessions, Commit(s) PROVE LedgerStep
  <2>1. IsBusy(s) /\ Sound(txn[s]) /\ Writes(txn[s]) /\ Base
    BY <1>2 DEF Commit, TxnInv
  <2>2. isolation \in {"snapshot", "read_committed"}
    BY IsolationType DEF TxnInv
  <2>3. ~txn[s].stale
    BY <1>2, <2>1, <2>2 DEF Commit, Sound
  <2>4. Carries(txn[s]) /\ Holds(txn[s]) /\ (isolation = "read_committed" \/ Newest(txn[s]))
    BY <2>1, <2>2, <2>3 DEF Sound
  <2> QED BY <2>1, <2>4, WritesAreAtomic
<1>3. ASSUME NEW s \in Sessions, RollbackKeepingCost(s) PROVE Next
  <2>1. IsBusy(s) /\ Carries(txn[s]) /\ txn[s].kind = "settle" /\ txn[s].row.mode = "token"
    BY <1>3 DEF RollbackKeepingCost, TxnInv, Sound
  <2>2. txn[s].order \in Orders /\ txn[s].cost \in Costs
    BY <2>1, BusyType DEF Carries, TxnInv
  <2> QED BY <1>3, <2>2 DEF RollbackKeepingCost, OrderStep, Next
<1>4. ASSUME NEW s \in Sessions, NEW kind, NEW o, NEW mode, NEW price,
             Begin(s, kind, o, mode, price) \/ Rollback(s)
      PROVE  UNCHANGED vars
  BY <1>4 DEF Begin, Rollback
<1>5. UNCHANGED txnVars => UNCHANGED vars
  BY DEF txnVars
<1> QED BY <1>1, <1>2, <1>3, <1>4, <1>5 DEF TxnNext, LedgerStep

(***************************************************************************)
(* What steps do to an order that a transaction has read.                  *)
(***************************************************************************)

\* A function on order p leaves every other order as it is.
LEMMA OtherOrderDrift ==
  ASSUME Base, NEW o \in Orders, NEW p, p # o, usage' = usage,
         \E row : order' = [order EXCEPT ![p] = row]
  PROVE  Drift(o)
<1>1. order'[o] = order[o]
  BY DEF Base, TypeOK
<1> QED BY <1>1 DEF Drift

\* Neither a credit nor a conditional status update changes what a transaction
\* relies on, and a new order was nobody's before.
LEMMA StatementDrift ==
  ASSUME Base, Statement, NEW o \in Orders
  PROVE  Drift(o)
<1>1. /\ order \in [Orders -> OrderRow] /\ order[o] \in OrderRow
      /\ \A cost \in Costs : cost # NoUsage
      /\ usage \in [Orders -> Costs \cup {NoUsage}]
  BY LedgerConstants DEF Base, TypeOK, NoUsage
<1>2. CASE CreditStep
  <2>1. UNCHANGED <<order, usage>>
    BY <1>2 DEF CreditStep, AdjustCredits, RedeemCode, RetireCode, GrantCreditsOnce, CreditFrom
  <2> QED BY <2>1 DEF Drift
<1>3. ASSUME NEW p \in Orders, NEW u \in Users, NEW mode \in Modes, NEW price \in Prices,
             ReserveBillingOrder(p, u, mode, price)
      PROVE  Drift(o)
  <2>1. CASE p = o
    BY <1>3, <2>1 DEF Drift, ReserveBillingOrder
  <2>2. CASE p # o
    BY <1>3, <2>2, OtherOrderDrift DEF ReserveBillingOrder
  <2> QED BY <2>1, <2>2
<1>4. ASSUME NEW p \in Orders, MarkBillingRunning(p) \/ MarkBillingUncertain(p)
      PROVE  Drift(o)
  <2>1. /\ usage' = usage
        /\ \E s \in {"running", "uncertain"} : order' = [order EXCEPT ![p].status = s]
    BY <1>4 DEF MarkBillingRunning, MarkBillingUncertain
  <2>2. CASE p = o
    <3>1. PICK s \in {"running", "uncertain"} :
                 order' = [order EXCEPT ![o] = [order[o] EXCEPT !.status = s]]
      BY <1>1, <2>1, <2>2
    <3>2. /\ order'[o].status = s
          /\ order'[o].user = order[o].user
          /\ order'[o].mode = order[o].mode
          /\ order'[o].amount = order[o].amount
      BY <1>1, <3>1 DEF OrderRow
    <3> QED BY <2>1, <3>2 DEF Drift, OpenStatus
  <2>3. CASE p # o
    BY <2>1, <2>3, OtherOrderDrift
  <2> QED BY <2>2, <2>3
<1>5. ASSUME NEW p \in Orders, NEW cost \in Costs, ObserveUsage(p, cost)
      PROVE  Drift(o)
  <2>1. order' = order /\ usage' = [usage EXCEPT ![p] = cost]
    BY <1>5 DEF ObserveUsage
  <2>2. usage[o] # NoUsage => usage'[o] # NoUsage
    BY <1>1, <2>1
  <2> QED BY <2>1, <2>2 DEF Drift
<1> QED BY <1>2, <1>3, <1>4, <1>5 DEF Statement

\* A commit reaches the order of another transaction only when both restore
\* it; the first one to write settles it.
LEMMA CommitDrift ==
  ASSUME TxnInv, isolation = "read_committed", NEW s \in Sessions, NEW t \in Sessions,
         s # t, IsBusy(t), Commit(s)
  PROVE  Drift(txn[t].order)
<1> DEFINE o == txn[t].order
           p == txn[s].order
<1>1. /\ IsBusy(s) /\ o \in Orders /\ p \in Orders
      /\ txn[s] \in Txn /\ Writes(txn[s]) /\ Base
  BY BusyType DEF TxnInv, Commit
<1>2. /\ order \in [Orders -> OrderRow] /\ order[o] \in OrderRow
      /\ usage' = usage
  BY <1>1 DEF Base, TypeOK, Writes, SettleWrites, RefundWrites, RestoreWrites, RepriceWrites
<1>3. CASE p = o
  <2>1. txn[s].kind = "restore"
    BY <1>1, <1>3 DEF TxnInv, OnlyRestoresShare
  <2>2. RestoreWrites(o, txn[s].row, txn[s].cost)
    BY <1>1, <1>3, <2>1 DEF Writes
  <2>3. /\ order[o].status = "refunded"
        /\ order' = [order EXCEPT ![o] = [order[o] EXCEPT !.status = "settled",
                                                          !.actual = txn[s].cost]]
    BY <1>2, <2>2 DEF RestoreWrites
  <2>4. /\ order'[o].status = "settled"
        /\ order'[o].user = order[o].user
        /\ order'[o].mode = order[o].mode
        /\ order'[o].amount = order[o].amount
    BY <1>1, <1>2, <2>3 DEF OrderRow
  <2> QED BY <1>2, <2>3, <2>4 DEF Drift, OpenStatus
<1>4. CASE p # o
  <2>1. \E row : order' = [order EXCEPT ![p] = row]
    BY <1>1 DEF Writes, SettleWrites, RefundWrites, RestoreWrites, RepriceWrites
  <2> QED BY <1>1, <1>2, <1>4, <2>1, OtherOrderDrift
<1> QED BY <1>3, <1>4

\* A settlement that keeps its cost has the order to itself.
LEMMA KeptCostDrift ==
  ASSUME TxnInv, isolation = "read_committed", NEW s \in Sessions, NEW t \in Sessions,
         s # t, IsBusy(t), RollbackKeepingCost(s)
  PROVE  Drift(txn[t].order)
<1>1. /\ IsBusy(s) /\ txn[s].kind = "settle" /\ txn[t].order \in Orders /\ Base
      /\ KeepObservedCost(txn[s].order, txn[s].cost)
  BY BusyType DEF TxnInv, RollbackKeepingCost
<1>2. txn[s].order # txn[t].order
  BY <1>1 DEF TxnInv, OnlyRestoresShare
<1>3. usage' = usage /\ \E row : order' = [order EXCEPT ![txn[s].order] = row]
  BY <1>1 DEF KeepObservedCost
<1> QED BY <1>1, <1>2, <1>3, OtherOrderDrift

(***************************************************************************)
(* The invariant of the open transactions.                                 *)
(***************************************************************************)

\* A commit changes nothing of another open transaction but its snapshot's age.
LEMMA CommittedTxn ==
  ASSUME TxnTypeOK, NEW keep, Committed(keep)
  PROVE  /\ txn' \in [Sessions -> Txn \cup {Idle}]
         /\ \A s \in Sessions : IsBusy(s)' =>
              /\ IsBusy(s) /\ s \notin keep
              /\ txn'[s] = [txn[s] EXCEPT !.stale = (isolation = "snapshot")]
<1>1. ASSUME NEW s \in Sessions, IsBusy(s)
      PROVE  [txn[s] EXCEPT !.stale = (isolation = "snapshot")] \in Txn
  BY <1>1, BusyType DEF Txn
<1>2. ASSUME NEW s \in Sessions
      PROVE  txn'[s] = IF s \in keep \/ ~IsBusy(s) THEN Idle
                       ELSE [txn[s] EXCEPT !.stale = (isolation = "snapshot")]
  BY DEF Committed
<1>3. txn' \in [Sessions -> Txn \cup {Idle}]
  BY <1>1 DEF Committed
<1>4. ASSUME NEW s \in Sessions, IsBusy(s)'
      PROVE  IsBusy(s) /\ s \notin keep
  <2>1. txn'[s] # Idle
    BY <1>4 DEF IsBusy, Idle
  <2> QED BY <1>2, <2>1
<1> QED BY <1>2, <1>3, <1>4

\* After a commit, an open transaction is stale (snapshot) or its reads hold
\* because its order only drifted (READ COMMITTED).
LEMMA SoundAfterCommit ==
  ASSUME TxnInv, UNCHANGED isolation, NEW keep, Committed(keep),
         \A s \in Sessions : isolation = "read_committed" /\ IsBusy(s) /\ s \notin keep =>
           Drift(txn[s].order)
  PROVE  /\ \A s \in Sessions : IsBusy(s)' => Sound(txn[s])'
         /\ OnlyRestoresShare'
<1>1. isolation \in {"snapshot", "read_committed"} /\ TxnTypeOK
  BY IsolationType DEF TxnInv
<1>2. ASSUME NEW s \in Sessions, IsBusy(s)'
      PROVE  /\ IsBusy(s) /\ s \notin keep /\ txn[s] \in Txn /\ txn'[s] \in Txn
             /\ txn'[s].kind = txn[s].kind /\ txn'[s].order = txn[s].order
             /\ txn'[s].row = txn[s].row /\ txn'[s].cost = txn[s].cost
             /\ txn'[s].price = txn[s].price
             /\ txn'[s].stale = (isolation = "snapshot")
  <2>1. /\ IsBusy(s) /\ s \notin keep
        /\ txn'[s] = [txn[s] EXCEPT !.stale = (isolation = "snapshot")]
    BY <1>1, <1>2, CommittedTxn
  <2>2. txn[s] \in Txn
    BY <1>1, <2>1, BusyType
  <2> QED BY <2>1, <2>2 DEF Txn
<1>3. ASSUME NEW s \in Sessions, IsBusy(s)'
      PROVE  Sound(txn[s])'
  <2>1. Sound(txn[s])
    BY <1>2, <1>3 DEF TxnInv
  <2>2. Carries(txn[s])'
    BY <1>2, <1>3, <2>1 DEF Sound, Carries
  <2>3. ASSUME isolation = "read_committed" PROVE Holds(txn[s])'
    <3>1. Drift(txn[s].order)
      BY <1>2, <1>3, <2>3
    <3>2. Holds(txn[s])
      BY <2>1, <2>3 DEF Sound
    <3> QED BY <1>2, <1>3, <3>1, <3>2 DEF Holds, Drift
  <2>4. txn'[s].stale = (isolation = "snapshot") /\ isolation' = isolation
    BY <1>2, <1>3
  <2> QED BY <1>1, <2>2, <2>3, <2>4 DEF Sound
<1>4. OnlyRestoresShare'
  BY <1>2 DEF TxnInv, OnlyRestoresShare
<1> QED BY <1>3, <1>4

\* The read part: every early return the function makes holds when it is open.
LEMMA BeginSound ==
  ASSUME SafeOverlaps, TxnInv, UNCHANGED isolation, NEW s \in Sessions, NEW kind \in Kinds,
         NEW o \in Orders, NEW mode \in Modes, NEW price \in Nat,
         kind = "reprice" => price \in Prices,
         Begin(s, kind, o, mode, price)
  PROVE  /\ txn' \in [Sessions -> Txn \cup {Idle}]
         /\ \A t \in Sessions : IsBusy(t)' => Sound(txn[t])'
         /\ OnlyRestoresShare'
<1> DEFINE new == [kind |-> kind, order |-> o, row |-> order[o],
                   cost |-> IF kind \in {"settle", "restore"} THEN Cost(o, order[o]) ELSE 0,
                   mode |-> mode, price |-> price, stale |-> FALSE]
<1>1. /\ txn \in [Sessions -> Txn \cup {Idle}] /\ TypeOK /\ order[o] \in OrderRow
      /\ usage[o] \in Costs \cup {NoUsage}
      /\ isolation \in {"snapshot", "read_committed"} /\ isolation \in Isolations
  BY IsolationType DEF TxnInv, TxnTypeOK, Base, TypeOK
<1>2. /\ txn' = [txn EXCEPT ![s] = new] /\ UNCHANGED vars
      /\ kind \in {"settle", "refund"} => order[o].status \in OpenStatus
      /\ kind = "restore" => order[o].status = "refunded"
      /\ kind = "reprice" => order[o].status \in {"reserved", "running"} /\ price > 0
      /\ kind \in {"settle", "restore"} => CostKnown(o, order[o])
      /\ \A t \in Overlaps(o) : {kind, txn[t].kind} \subseteq MayOverlap(isolation)
  BY DEF Begin
<1>3. order[o].status # "absent" /\ order[o].user \in Users
  BY <1>1, <1>2 DEF Kinds, OpenStatus, TypeOK
<1>4. kind \in {"settle", "restore"} => Cost(o, order[o]) \in Nat
  BY <1>1, <1>2, <1>3, CostType
<1>5. new \in Txn
  BY <1>1, <1>4 DEF Txn
<1>6. txn' \in [Sessions -> Txn \cup {Idle}]
  BY <1>1, <1>2, <1>5
<1>7. txn'[s] = new /\ \A t \in Sessions \ {s} : txn'[t] = txn[t]
  BY <1>1, <1>2
<1>8. /\ new.kind = kind /\ new.order = o /\ new.row = order[o] /\ new.price = price
      /\ new.stale = FALSE
      /\ kind \in {"settle", "restore"} => new.cost = Cost(o, order[o])
  OBVIOUS
<1> HIDE DEF new
<1>9. Carries(new)
  BY <1>1, <1>2, <1>3, <1>5, <1>8 DEF Carries, CostKnown, Cost
<1>10. Holds(new)
  BY <1>2, <1>3, <1>8 DEF Holds, CostKnown, Cost
<1>11. Newest(new)
  BY <1>8 DEF Newest, Cost
<1>12. Sound(txn[s])'
  BY <1>2, <1>7, <1>8, <1>9, <1>10, <1>11
     DEF Sound, Carries, Holds, Newest, vars
<1>13. ASSUME NEW t \in Sessions, t # s, IsBusy(t)'
       PROVE  IsBusy(t) /\ Sound(txn[t])'
  <2>1. IsBusy(t) /\ txn'[t] = txn[t]
    BY <1>7, <1>13 DEF IsBusy
  <2>2. Sound(txn[t])
    BY <2>1 DEF TxnInv
  <2> QED BY <1>2, <2>1, <2>2 DEF Sound, Carries, Holds, Newest, vars
<1>14. ASSUME isolation = "read_committed", NEW t \in Sessions, t # s, IsBusy(t),
              txn[t].order = o
       PROVE  kind = "restore" /\ txn[t].kind = "restore"
  BY <1>1, <1>2, <1>14 DEF Overlaps, SafeOverlaps
<1>15. OnlyRestoresShare'
  <2> SUFFICES ASSUME isolation = "read_committed", NEW t \in Sessions, NEW v \in Sessions,
                      IsBusy(t)', IsBusy(v)', t # v, txn'[t].order = txn'[v].order
               PROVE  txn'[t].kind = "restore" /\ txn'[v].kind = "restore"
    BY DEF OnlyRestoresShare
  <2>1. CASE t = s
    <3>1. IsBusy(v) /\ txn'[v] = txn[v] /\ txn[v].order = o
      BY <1>7, <1>8, <2>1 DEF IsBusy
    <3> QED BY <1>7, <1>8, <1>14, <2>1, <3>1
  <2>2. CASE v = s
    <3>1. IsBusy(t) /\ txn'[t] = txn[t] /\ txn[t].order = o
      BY <1>7, <1>8, <2>2 DEF IsBusy
    <3> QED BY <1>7, <1>8, <1>14, <2>2, <3>1
  <2>3. CASE t # s /\ v # s
    <3>1. IsBusy(t) /\ IsBusy(v) /\ txn'[t] = txn[t] /\ txn'[v] = txn[v]
      BY <1>7, <2>3 DEF IsBusy
    <3> QED BY <3>1 DEF TxnInv, OnlyRestoresShare
  <2> QED BY <2>1, <2>2, <2>3
<1> QED BY <1>6, <1>12, <1>13, <1>15

\* A rollback forgets the transaction and changes nothing else.
LEMMA RollbackSound ==
  ASSUME TxnInv, UNCHANGED isolation, NEW s \in Sessions, Rollback(s)
  PROVE  /\ txn' \in [Sessions -> Txn \cup {Idle}]
         /\ \A t \in Sessions : IsBusy(t)' => Sound(txn[t])'
         /\ OnlyRestoresShare'
<1>1. txn \in [Sessions -> Txn \cup {Idle}]
  BY DEF TxnInv, TxnTypeOK
<1>2. txn' = [txn EXCEPT ![s] = Idle] /\ UNCHANGED vars
  BY DEF Rollback
<1>3. ASSUME NEW t \in Sessions, IsBusy(t)'
      PROVE  IsBusy(t) /\ txn'[t] = txn[t]
  BY <1>1, <1>2, <1>3 DEF IsBusy, Idle
<1>4. ASSUME NEW t \in Sessions, IsBusy(t)'
      PROVE  Sound(txn[t])'
  <2>1. Sound(txn[t])
    BY <1>3, <1>4 DEF TxnInv
  <2> QED BY <1>2, <1>3, <1>4, <2>1 DEF Sound, Carries, Holds, Newest, vars
<1>5. OnlyRestoresShare'
  BY <1>3 DEF TxnInv, OnlyRestoresShare
<1>6. txn' \in [Sessions -> Txn \cup {Idle}]
  BY <1>1, <1>2
<1> QED BY <1>4, <1>5, <1>6

LEMMA TxnInvInit == TxnInit => TxnInv
<1> SUFFICES ASSUME TxnInit PROVE TxnInv
  OBVIOUS
<1>1. Base
  BY InitType, InitExplained DEF TxnInit, Base, Init
<1>2. \A s \in Sessions : ~IsBusy(s)
  BY DEF TxnInit, IsBusy, Idle
<1>3. TxnTypeOK
  BY <1>1 DEF TxnInit, TxnTypeOK, Base
<1> QED BY <1>1, <1>2, <1>3 DEF TxnInv, OnlyRestoresShare

LEMMA TxnInvStep ==
  ASSUME SafeOverlaps, TxnInv, [TxnNext]_txnVars
  PROVE  TxnInv'
<1>1. Base'
  BY TxnStepIsLedgerStep, BaseStep DEF TxnInv
<1> DEFINE Rest == /\ txn' \in [Sessions -> Txn \cup {Idle}]
                   /\ \A s \in Sessions : IsBusy(s)' => Sound(txn[s])'
                   /\ OnlyRestoresShare'
<1>2. CASE UNCHANGED txnVars
  <2>1. txn' = txn /\ isolation' = isolation /\ UNCHANGED vars
    BY <1>2 DEF txnVars
  <2>2. \A s \in Sessions : IsBusy(s)' => Sound(txn[s])'
    BY <2>1 DEF TxnInv, IsBusy, Sound, Carries, Holds, Newest, vars
  <2>3. OnlyRestoresShare'
    BY <2>1 DEF TxnInv, IsBusy, OnlyRestoresShare
  <2>4. TxnTypeOK'
    BY <1>1, <2>1 DEF TxnInv, TxnTypeOK, Base
  <2> QED BY <1>1, <2>2, <2>3, <2>4 DEF TxnInv
<1>3. CASE TxnNext
  <2>0. UNCHANGED isolation
    BY <1>3 DEF TxnNext
  <2>1. ASSUME Statement PROVE Rest
    <3>1. Committed({})
      BY <2>1 DEF Statement
    <3>2. \A s \in Sessions : IsBusy(s) => Drift(txn[s].order)
      BY <2>1, StatementDrift, BusyType DEF TxnInv
    <3> QED BY <2>0, <3>1, <3>2, SoundAfterCommit, CommittedTxn DEF TxnInv
  <2>2. ASSUME NEW s \in Sessions, Commit(s) PROVE Rest
    <3>1. Committed({s})
      BY <2>2 DEF Commit
    <3>2. \A t \in Sessions : isolation = "read_committed" /\ IsBusy(t) /\ t \notin {s} =>
             Drift(txn[t].order)
      BY <2>2, CommitDrift
    <3> QED BY <2>0, <3>1, <3>2, SoundAfterCommit, CommittedTxn DEF TxnInv
  <2>3. ASSUME NEW s \in Sessions, RollbackKeepingCost(s) PROVE Rest
    <3>1. Committed({s})
      BY <2>3 DEF RollbackKeepingCost
    <3>2. \A t \in Sessions : isolation = "read_committed" /\ IsBusy(t) /\ t \notin {s} =>
             Drift(txn[t].order)
      BY <2>3, KeptCostDrift
    <3> QED BY <2>0, <3>1, <3>2, SoundAfterCommit, CommittedTxn DEF TxnInv
  <2>4. ASSUME NEW s \in Sessions, Rollback(s) PROVE Rest
    BY <2>0, <2>4, RollbackSound
  <2>5. ASSUME NEW s \in Sessions, NEW kind \in {"settle", "refund", "restore"},
               NEW o \in Orders, Begin(s, kind, o, "fixed", 0)
        PROVE  Rest
    <3>1. kind \in Kinds /\ "fixed" \in Modes /\ 0 \in Nat /\ kind # "reprice"
      BY DEF Kinds, Modes
    <3> QED BY <2>0, <2>5, <3>1, BeginSound
  <2>6. ASSUME NEW s \in Sessions, NEW o \in Orders, NEW mode \in Modes, NEW price \in Prices,
               Begin(s, "reprice", o, mode, price)
        PROVE  Rest
    <3>1. "reprice" \in Kinds /\ price \in Nat
      BY LedgerConstants DEF Kinds
    <3> QED BY <2>0, <2>6, <3>1, BeginSound
  <2>7. Rest
    BY <1>3, <2>1, <2>2, <2>3, <2>4, <2>5, <2>6 DEF TxnNext
  <2>8. TxnTypeOK'
    BY <1>1, <2>0, <2>7 DEF TxnInv, TxnTypeOK, Base
  <2> QED BY <1>1, <2>7, <2>8 DEF TxnInv
<1> QED BY <1>2, <1>3

\* The transactions keep to the types, whatever overlaps under a snapshot.
THEOREM TransactionsTyped == ASSUME SafeOverlaps PROVE TxnSpec => []TxnTypeOK
<1>1. TxnInv => TxnTypeOK
  BY DEF TxnInv
<1> QED BY <1>1, TxnInvInit, TxnInvStep, PTL DEF TxnSpec

\* Each transaction of finance.go, read part and write part with whatever runs
\* between them, behaves like its function in CreditLedger executed at once.
\* Under READ COMMITTED it may charge a usage that is not the newest any more.
THEOREM TransactionsAreAtomic == ASSUME SafeOverlaps PROVE TxnSpec => LedgerSpec
<1>1. TxnInit => Init
  BY DEF TxnInit
<1> QED BY <1>1, TxnInvInit, TxnInvStep, TxnStepIsLedgerStep, PTL DEF TxnSpec, LedgerSpec

\* On SQLite they implement CreditLedger itself, whatever overlaps.
THEOREM SnapshotIsAtomic == ASSUME Isolations = {"snapshot"} PROVE TxnSpec => Spec
<1>1. SafeOverlaps
  BY DEF SafeOverlaps
<1>2. TxnInv /\ [TxnNext]_txnVars => [Next]_vars
  <2>1. TxnInv => isolation = "snapshot"
    BY DEF TxnInv, TxnTypeOK
  <2> QED BY <2>1, TxnStepIsLedgerStep DEF LedgerStep
<1>3. TxnInit => Init
  BY DEF TxnInit
<1> QED BY <1>1, <1>2, <1>3, TxnInvInit, TxnInvStep, PTL DEF TxnSpec, Spec

\* A settled order stays as it is although other transactions have read it
\* before it was settled (finance.go:951).
THEOREM SettledStaysConcurrently == ASSUME SafeOverlaps PROVE TxnSpec => SettledIsFinal
<1>1. ASSUME TxnInv, [TxnNext]_txnVars
      PROVE  [\A o \in Orders : order[o].status = "settled" =>
                UNCHANGED <<order[o], ledgerAvailable[o], ledgerReserved[o]>>]_vars
  <2>1. [LedgerStep]_vars /\ TypeOK
    BY <1>1, TxnStepIsLedgerStep DEF TxnInv, Base
  <2>2. ASSUME NEW o \in Orders, order[o].status = "settled",
               NEW p \in Orders, ChargesEarlierUsage(p)
        PROVE  UNCHANGED <<order[o], ledgerAvailable[o], ledgerReserved[o]>>
    <3>1. p # o
      BY <2>2 DEF ChargesEarlierUsage, OpenStatus
    <3>2. /\ \E row : order' = [order EXCEPT ![p] = row]
          /\ \E u, a, r : PostEntry(p, u, a, r)
      BY <2>2 DEF ChargesEarlierUsage, SettleWrites, RestoreWrites
    <3> QED BY <2>1, <3>1, <3>2 DEF TypeOK, PostEntry
  <2> QED BY <2>1, <2>2, SettledStep DEF LedgerStep
<1> QED BY <1>1, TxnInvInit, TxnInvStep, PTL DEF TxnSpec, SettledIsFinal

\* A settlement or a restore that charges an earlier usage posts one entry.
LEMMA LateStepMovesOne ==
  ASSUME TypeOK, NEW o \in Orders, ChargesEarlierUsage(o)
  PROVE  MovesOneOrder(o)
<1>1. PICK cost \in Costs :
        \/ order[o].status \in OpenStatus /\ SettleWrites(o, order[o], cost)
        \/ order[o].status = "refunded" /\ RestoreWrites(o, order[o], cost)
  BY DEF ChargesEarlierUsage
<1>2. /\ order \in [Orders -> OrderRow] /\ cost \in Int
      /\ order[o].user \in Users /\ order[o].amount \in Int
  BY <1>1, RowType, LedgerConstants DEF TypeOK, OpenStatus
<1>3. /\ order'[o].user = order[o].user
      /\ \A p \in Orders \ {o} : order'[p] = order[p]
      /\ UNCHANGED creditVars
  BY <1>1, <1>2 DEF SettleWrites, RestoreWrites, OrderRow
<1>4. \E a \in Int, r \in Int : PostEntry(o, order[o].user, a, r)
  <2>1. CASE SettleWrites(o, order[o], cost)
    <3>1. order[o].amount - cost \in Int /\ -order[o].amount \in Int
      BY <1>2
    <3> QED BY <2>1, <3>1 DEF SettleWrites
  <2>2. CASE RestoreWrites(o, order[o], cost)
    <3>1. -cost \in Int /\ 0 \in Int
      BY <1>2
    <3> QED BY <2>2, <3>1 DEF RestoreWrites
  <2> QED BY <1>1, <2>1, <2>2
<1> QED BY <1>2, <1>3, <1>4 DEF MovesOneOrder

\* The balances are kept by whatever step the ledger sees.
LEMMA LedgerStepBalances ==
  ASSUME BalanceInv, [LedgerStep]_vars
  PROVE  BalanceInv'
<1>1. ASSUME NEW o \in Orders, ChargesEarlierUsage(o)
      PROVE  BalanceInv'
  <2>1. TypeOK /\ LedgerExplainsOrders
    BY DEF BalanceInv, AccountInv
  <2>2. MovesOneOrder(o) /\ TypeOK' /\ LedgerExplainsOrders'
    BY <1>1, <2>1, LateStepMovesOne, LateStepExplained
  <2> QED BY <2>2, OneOrderKeepsBalances
<1> QED BY <1>1, NextBalances DEF LedgerStep

\* The frozen balance stays the sum of the holds when the functions run as
\* transactions that overlap: the account is written with relative updates,
\* never from what a transaction read earlier.
THEOREM HoldsAddUpConcurrently == ASSUME SafeOverlaps PROVE TxnSpec => []ReservedIsHeld
<1>1. LedgerSpec => []BalanceInv
  BY InitBalances, LedgerStepBalances, PTL DEF LedgerSpec
<1> QED BY <1>1, TransactionsAreAtomic, BalancesHeld, PTL

\* Nor does a credit get lost or made between two transactions.
THEOREM CreditsAddUpConcurrently ==
  ASSUME SafeOverlaps, IsFiniteSet(Sources)
  PROVE  TxnSpec => []AvailableIsExplained
<1>1. LedgerSpec => []BalanceInv
  BY InitBalances, LedgerStepBalances, PTL DEF LedgerSpec
<1> QED BY <1>1, TransactionsAreAtomic, BalancesExplained, PTL

\* No code and no grant is paid twice by transactions that overlap: the status
\* of the code and the unique reference key are tested by the writes.
THEOREM PaidOnceConcurrently == ASSUME SafeOverlaps PROVE TxnSpec => []SourcePaysOnce
<1>1. Init => SourcePaysOnce
  BY LedgerConstants DEF Init, SourcePaysOnce, Sources
<1>2. ASSUME BalanceInv, SourcePaysOnce, [LedgerStep]_vars
      PROVE  SourcePaysOnce'
  <2>1. ASSUME NEW o \in Orders, ChargesEarlierUsage(o)
        PROVE  SourcePaysOnce'
    <3>1. UNCHANGED <<entry, code>>
      BY <2>1 DEF ChargesEarlierUsage, SettleWrites, RestoreWrites, creditVars
    <3> QED BY <1>2, <3>1 DEF SourcePaysOnce
  <2>2. TypeOK /\ ([Next]_vars => SourcePaysOnce')
    BY <1>2, SourceStep DEF BalanceInv, AccountInv
  <2>3. [Next]_vars \/ \E o \in Orders : ChargesEarlierUsage(o)
    BY <1>2 DEF LedgerStep
  <2> QED BY <2>1, <2>2, <2>3
<1>3. LedgerSpec => []SourcePaysOnce
  BY <1>1, <1>2, InitBalances, LedgerStepBalances, PTL DEF LedgerSpec
<1> QED BY <1>3, TransactionsAreAtomic, PTL

\* A late step overdraws only by what it costs more than the order held.
LEMMA LateOverdraft ==
  ASSUME TypeOK, NEW o \in Orders, ChargesEarlierUsage(o), NEW u \in Users,
         available'[u] < available[u]
  PROVE  ChargedBeyondHold(u)
<1>1. PICK cost \in Costs :
        \/ order[o].status \in OpenStatus /\ SettleWrites(o, order[o], cost)
        \/ order[o].status = "refunded" /\ RestoreWrites(o, order[o], cost)
  BY DEF ChargesEarlierUsage
<1>2. /\ order[o] \in OrderRow /\ order[o].user \in Users
      /\ order[o].amount \in Nat /\ cost \in Nat /\ order[o].status # "settled"
  BY <1>1, RowType, LedgerConstants DEF OpenStatus
<1>3. order'[o].status = "settled" /\ order'[o].actual = cost
  BY <1>1, <1>2 DEF SettleWrites, RestoreWrites, TypeOK, OrderRow
<1>4. CASE order[o].status \in OpenStatus /\ SettleWrites(o, order[o], cost)
  <2>1. order[o].amount - cost \in Int /\ -order[o].amount \in Int
    BY <1>2
  <2>2. order[o].user = u /\ order[o].amount - cost < 0
    BY <1>2, <1>4, <2>1, PostedBalance DEF SettleWrites
  <2>3. o \in OrdersOf(u) /\ cost > Held(o)
    BY <1>2, <1>4, <2>2 DEF OrdersOf, Held, IsOpen
  <2> QED BY <1>2, <1>3, <2>3 DEF ChargedBeyondHold
<1>5. CASE order[o].status = "refunded" /\ RestoreWrites(o, order[o], cost)
  <2>1. -cost \in Int /\ 0 \in Int
    BY <1>2
  <2>2. order[o].user = u /\ -cost < 0
    BY <1>2, <1>5, <2>1, PostedBalance DEF RestoreWrites
  <2>3. o \in OrdersOf(u) /\ cost > Held(o)
    BY <1>2, <1>5, <2>2 DEF OrdersOf, Held, IsOpen, OpenStatus
  <2> QED BY <1>2, <1>3, <2>3 DEF ChargedBeyondHold
<1> QED BY <1>1, <1>4, <1>5

\* Two transactions that overlap overdraw a balance no other way than one of
\* them alone: each compares the balance in the update that lowers it.
THEOREM OverdraftExplainedConcurrently ==
  ASSUME SafeOverlaps PROVE TxnSpec => OverdraftOnlyByFinalCost
<1>1. ASSUME BalanceInv, [LedgerStep]_vars
      PROVE  [Overdraft]_vars
  <2>1. TypeOK
    BY <1>1 DEF BalanceInv, AccountInv
  <2>2. ASSUME NEW u \in Users, available'[u] < available[u], available'[u] < 0
        PROVE  ChargedBeyondHold(u)
    <3>1. [Next]_vars \/ \E o \in Orders : ChargesEarlierUsage(o)
      BY <1>1 DEF LedgerStep
    <3>2. CASE [Next]_vars
      BY <2>1, <2>2, <3>2, OverdraftStep
    <3>3. CASE \E o \in Orders : ChargesEarlierUsage(o)
      BY <2>1, <2>2, <3>3, LateOverdraft
    <3> QED BY <3>1, <3>2, <3>3
  <2> QED BY <2>2 DEF Overdraft
<1>2. LedgerSpec => OverdraftOnlyByFinalCost
  BY <1>1, InitBalances, LedgerStepBalances, PTL DEF LedgerSpec, OverdraftOnlyByFinalCost
<1> QED BY <1>2, TransactionsAreAtomic, PTL
=============================================================================
