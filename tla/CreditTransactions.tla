------------------------- MODULE CreditTransactions -------------------------
(***************************************************************************)
(* The same functions of internal/repository/finance.go as database        *)
(* transactions: SettleBillingOrder, RefundBillingOrder,                   *)
(* RestoreRefundedBillingOrder and SwitchTaskLogicalRoute read the order   *)
(* row first, without locking it, and write later from what they read.     *)
(* The account update of the write part takes the account row's lock until *)
(* the commit, so the writes of one transaction are one step.              *)
(*                                                                         *)
(* isolation is the database's (internal/database/database.go), chosen     *)
(* when the program starts:                                                *)
(*   "snapshot"        SQLite in WAL mode with deferred transactions: a    *)
(*                     transaction whose read snapshot is older than the   *)
(*                     newest commit cannot start writing;                 *)
(*   "read_committed"  PostgreSQL's default.                               *)
(***************************************************************************)
EXTENDS CreditLedger

CONSTANTS
  Sessions,       \* database connections with a transaction of their own
  Isolations,     \* the databases considered: "snapshot", "read_committed"
  MayOverlap(_)   \* bound: which transactions may overlap on an order, by isolation

Kinds == {"settle", "refund", "restore", "reprice"}

ASSUME TransactionConstants ==
  /\ Isolations \subseteq {"snapshot", "read_committed"}
  /\ \A i \in Isolations : MayOverlap(i) \subseteq Kinds

VARIABLES
  isolation,   \* the isolation of this database, fixed
  txn          \* the open transaction of each session

Idle == [kind |-> "idle"]

Txn == [kind : Kinds, order : Orders, row : OrderRow, cost : Nat \cup {NoUsage},
        mode : Modes, price : Nat, stale : BOOLEAN]

txnVars == <<vars, isolation, txn>>

TxnTypeOK ==
  /\ TypeOK
  /\ isolation \in Isolations
  /\ txn \in [Sessions -> Txn \cup {Idle}]

TxnInit == Init /\ isolation \in Isolations /\ txn = [s \in Sessions |-> Idle]

IsBusy(s)       == txn[s].kind # "idle"
Overlaps(o)     == {s \in Sessions : IsBusy(s) /\ txn[s].order = o}
\* A commit makes every snapshot that is still open older than the database.
Committed(keep) == txn' = [s \in Sessions |->
                             IF s \in keep \/ ~IsBusy(s) THEN Idle
                             ELSE [txn[s] EXCEPT !.stale = isolation = "snapshot"]]

(***************************************************************************)
(* The read part: the row and, for a token order, the newest usage.  The   *)
(* early returns of each function on the status it reads are the guards.   *)
(***************************************************************************)
Begin(s, kind, o, mode, price) ==
  /\ ~IsBusy(s)
  /\ \A t \in Overlaps(o) : {kind, txn[t].kind} \subseteq MayOverlap(isolation)
  /\ kind \in {"settle", "refund"} => order[o].status \in OpenStatus
  /\ kind = "restore" => order[o].status = "refunded"
  /\ kind = "reprice" => order[o].status \in {"reserved", "running"} /\ price > 0
  /\ kind \in {"settle", "restore"} => CostKnown(o, order[o])
  /\ txn' = [txn EXCEPT ![s] =
       [kind |-> kind, order |-> o, row |-> order[o],
        cost |-> IF kind \in {"settle", "restore"} THEN Cost(o, order[o]) ELSE 0,
        mode |-> mode, price |-> price, stale |-> FALSE]]
  /\ UNCHANGED vars

(***************************************************************************)
(* The write part, from the row as it was read.                            *)
(***************************************************************************)
Writes(t) ==
  \/ t.kind = "settle"  /\ SettleWrites(t.order, t.row, t.cost)
  \/ t.kind = "refund"  /\ RefundWrites(t.order, t.row)
  \/ t.kind = "restore" /\ RestoreWrites(t.order, t.row, t.cost)
  \/ t.kind = "reprice" /\ RepriceWrites(t.order, t.row, t.mode, t.price)

CommitVariant(s) ==   \* a stale snapshot may still write
  /\ IsBusy(s)
  /\ Writes(txn[s])
  /\ Committed({s})

Commit(s) ==
  /\ IsBusy(s)
  /\ isolation = "snapshot" => ~txn[s].stale
  /\ Writes(txn[s])
  /\ Committed({s})

\* An error, a cancelled context, a conditional update that hits no row or a
\* stale snapshot rolls everything back.
Rollback(s) ==
  /\ IsBusy(s)
  /\ txn' = [txn EXCEPT ![s] = Idle]
  /\ UNCHANGED vars

\* After a rolled-back settlement of a token order, a statement of its own
\* keeps the observed cost on an order that is still open.
RollbackKeepingCost(s) ==
  /\ IsBusy(s)
  /\ txn[s].kind = "settle" /\ txn[s].row.mode = "token"
  /\ KeepObservedCost(txn[s].order, txn[s].cost)
  /\ Committed({s})

(***************************************************************************)
(* Single conditional statements, and transactions whose first statement   *)
(* already writes the account: no read to act on later.                    *)
(***************************************************************************)
Statement ==
  /\ \/ CreditStep
     \/ \E o \in Orders :
          \/ \E u \in Users, mode \in Modes, price \in Prices :
               ReserveBillingOrder(o, u, mode, price)
          \/ MarkBillingRunning(o)
          \/ MarkBillingUncertain(o)
          \/ \E cost \in Costs : ObserveUsage(o, cost)
  /\ Committed({})

TxnNext ==
  /\ \/ Statement
     \/ \E s \in Sessions :
          \/ \E kind \in {"settle", "refund", "restore"}, o \in Orders :
               Begin(s, kind, o, "fixed", 0)
          \/ \E o \in Orders, mode \in Modes, price \in Prices :
               Begin(s, "reprice", o, mode, price)
          \/ Commit(s)
          \/ Rollback(s)
          \/ RollbackKeepingCost(s)
  /\ UNCHANGED isolation

TxnSpec == TxnInit /\ [][TxnNext]_txnVars

(***************************************************************************)
(* The functions are atomic after all: every behaviour is one of           *)
(* CreditLedger, whose properties therefore hold.  Under READ COMMITTED a  *)
(* usage that is logged while a transaction runs is not what it charges.   *)
(***************************************************************************)
ChargesEarlierUsage(o) ==
  /\ order[o].mode = "token" /\ usage[o] # NoUsage
  /\ \E cost \in Costs :
       \/ order[o].status \in OpenStatus /\ SettleWrites(o, order[o], cost)
       \/ order[o].status = "refunded" /\ RestoreWrites(o, order[o], cost)

LedgerStep ==
  \/ Next
  \/ isolation = "read_committed" /\ \E o \in Orders : ChargesEarlierUsage(o)

LedgerSpec == Init /\ [][LedgerStep]_vars
=============================================================================
