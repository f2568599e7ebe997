------------------------- MODULE PaymentOrders_proofs -------------------------
(***************************************************************************)
(* Payment orders and their reconciliation, for every number of users,     *)
(* orders, gifts and requests: the types, that an order's status agrees    *)
(* with its ledger entry and with the provider's trade, and that all of it *)
(* together is a credit ledger to which only one-off grants are made.      *)
(*                                                                         *)
(* The argument follows what a goroutine has heard.  A trade that is paid  *)
(* or closed stays so (TradeHolds), therefore an answer that says so is    *)
(* still true when it is applied, however late (Goes).  What a step does   *)
(* to rows and balances is then one of three effects (RowEffect), and the  *)
(* three are enough for the invariant and for the refinement.              *)
(***************************************************************************)
EXTENDS PaymentReconciliation, TLAPS

\* What goroutine c is at, and what it heard, against the trades and the inbox.
Goes(c, k, trades, notes) ==
  /\ k \in Call
  /\ k.at \notin {"idle", "next"} => k.pay \in Payments
  /\ k.heard # "none" => k.pay \in Payments
  /\ k.at = "next" => k.heard = "none"
  /\ k.at \in {"mark", "retry"} => k.op = "notify"
  /\ k.at \in {"idle", "next"} => k.op # "notify"
  /\ k.op = "notify" => c = InboxLoop /\ k.pay \in Payments /\ trades[k.pay] = "paid"
                          /\ notes[k.pay].attempts < MaxAttempts
  /\ k.heard = "paid" => trades[k.pay] = "paid"
  /\ k.heard = "closed" => trades[k.pay] = "closed"
  /\ k.heard = "missing" => notFoundKnown

CallsSound ==
  /\ call \in [Callers -> Call]
  /\ \A c \in Callers : Goes(c, call[c], trade, inbox)

InboxRow == [status : InboxStatus, attempts : 0..MaxAttempts]

WorldSound ==
  /\ expired \in SUBSET Payments
  /\ link \in SUBSET Payments
  /\ trade \in [Payments -> TradeStatus]
  /\ inbox \in [Payments -> InboxRow]
  /\ \A p \in Payments : inbox[p].status # "none" => trade[p] = "paid"
  /\ troubles \in 0..MaxTroubles
  /\ notFoundKnown \in BOOLEAN

RowsSound ==
  /\ status \in [Payments -> PaymentStatus]
  /\ available \in [Users -> Nat]
  /\ entry \in [Users -> [Payments \cup Gifts -> Nat]]
  /\ OrderMatchesTrade

AuditSound ==
  /\ dayOver \in BOOLEAN
  /\ run \in RunStatus
  /\ items \in SUBSET Payments
  /\ audit \in Audit
  /\ audit.at \in {"query", "apply"} => audit.pay \in Payments
  /\ audit.at = "apply" /\ audit.heard = "paid" => trade[audit.pay] = "paid"

RecInv == CallsSound /\ WorldSound /\ RowsSound /\ AuditSound

\* What no step undoes.
TradeHolds ==
  /\ \A p \in Payments : trade[p] \in {"paid", "closed"} => trade'[p] = trade[p]
  /\ notFoundKnown' = notFoundKnown

\* Orders may change, but none becomes credited or stops being so, and one is
\* closed for a reason.
OrdersMove ==
  /\ UNCHANGED creditVars
  /\ status' \in [Payments -> PaymentStatus]
  /\ \A p \in Payments :
       /\ status'[p] = "credited" <=> status[p] = "credited"
       /\ status'[p] = "closed" =>
            status[p] = "closed" \/ trade[p] = "closed" \/ notFoundKnown

PaymentCredited == \E p \in Payments : trade[p] = "paid" /\ CompletePaymentOrder(p)

GiftGranted ==
  /\ UNCHANGED status
  /\ \E u \in Users, g \in Gifts :
       /\ \A v \in Users : entry[v][g] = 0
       /\ entry' = [entry EXCEPT ![u][g] = @ + 1]
       /\ available' = [available EXCEPT ![u] = @ + Credits[g]]

RowEffect == OrdersMove \/ PaymentCredited \/ GiftGranted

\* Caller c goes on to a call that the trades and the inbox bear out.
Advance(c) ==
  \E k \in Call : call' = [call EXCEPT ![c] = k] /\ Goes(c, k, trade', inbox')

(***************************************************************************)
(* Calls.                                                                  *)
(***************************************************************************)
LEMMA CallersKept ==
  ASSUME CallsSound, NEW c \in Callers, Advance(c), TradeHolds,
         c = InboxLoop \/ UNCHANGED inbox
  PROVE  CallsSound'
<1>1. PICK k \in Call : call' = [call EXCEPT ![c] = k] /\ Goes(c, k, trade', inbox')
  BY DEF Advance
<1>2. call' \in [Callers -> Call] /\ call'[c] = k
  BY <1>1 DEF CallsSound
<1>3. ASSUME NEW d \in Callers
      PROVE  Goes(d, call[d], trade, inbox)'
  <2>1. CASE d = c
    BY <1>1, <1>2, <2>1 DEF Goes, TradeHolds
  <2>2. CASE d # c
    <3>1. call'[d] = call[d] /\ Goes(d, call[d], trade, inbox)
      BY <1>1, <2>2 DEF CallsSound
    <3>2. call[d].op = "notify" => UNCHANGED inbox
      BY <3>1, <2>2 DEF Goes
    <3> QED BY <3>1, <3>2 DEF Goes, TradeHolds
  <2> QED BY <2>1, <2>2
<1> QED BY <1>2, <1>3 DEF CallsSound

\* Nobody's call changes.
LEMMA CallersUntouched ==
  ASSUME CallsSound, UNCHANGED call, TradeHolds,
         \A p \in Payments : inbox'[p].attempts = inbox[p].attempts
  PROVE  CallsSound'
<1>1. ASSUME NEW d \in Callers
      PROVE  Goes(d, call[d], trade, inbox)'
  <2>1. Goes(d, call[d], trade, inbox)
    BY DEF CallsSound
  <2> QED BY <2>1 DEF Goes, TradeHolds
<1> QED BY <1>1 DEF CallsSound

LEMMA TradesUntouched ==
  ASSUME UNCHANGED <<trade, notFoundKnown>>
  PROVE  TradeHolds
BY DEF TradeHolds

LEMMA IdleGoes ==
  ASSUME NEW c, NEW trades, NEW notes
  PROVE  Idle \in Call /\ Goes(c, Idle, trades, notes)
BY DEF Goes, Idle, Call, Operations, Places, Answers

LEMMA MovesGoes ==
  ASSUME CallsSound, NEW c \in Callers, call[c].pay \in Payments, UNCHANGED inbox, TradeHolds,
         NEW place \in Places \ {"idle", "next"},
         place \in {"mark", "retry"} => call[c].op = "notify",
         Moves(c, place)
  PROVE  Advance(c)
<1> DEFINE k == [call[c] EXCEPT !.at = place, !.heard = "none"]
<1>1. call[c] \in Call /\ Goes(c, call[c], trade, inbox)
  BY DEF CallsSound
<1>2. k \in Call
  BY <1>1 DEF Call, Answers
<1>3. call' = [call EXCEPT ![c] = k]
  BY DEF Moves
<1>4. /\ k.pay = call[c].pay /\ k.op = call[c].op /\ k.at = place /\ k.heard = "none"
  BY <1>1 DEF Call
<1>5. Goes(c, k, trade', inbox')
  BY <1>1, <1>2, <1>4 DEF Goes, TradeHolds
<1> QED BY <1>2, <1>3, <1>5 DEF Advance

LEMMA DoneGoes ==
  ASSUME CallsSound, NEW c \in Callers, Done(c)
  PROVE  Advance(c)
<1> DEFINE k == Ended(call[c])
<1>1. call[c] \in Call
  BY DEF CallsSound
<1>2. k \in Call
  BY <1>1 DEF Call, Ended, Idle, Operations, Places, Answers, Batches
<1>3. call' = [call EXCEPT ![c] = k]
  BY DEF Done
<1>4. k.op # "notify" /\ k.at \in {"idle", "next"} /\ k.heard = "none"
  BY <1>1 DEF Ended, Idle, Batches, Call
<1>5. Goes(c, k, trade', inbox')
  BY <1>2, <1>4 DEF Goes
<1> QED BY <1>2, <1>3, <1>5 DEF Advance

LEMMA FailsGoes ==
  ASSUME CallsSound, NEW c \in Callers, call[c].pay \in Payments, UNCHANGED inbox, TradeHolds,
         Fails(c)
  PROVE  Advance(c)
<1>1. CASE call[c].op = "expire"
  BY <1>1, MovesGoes DEF Fails, Places
<1>2. CASE call[c].op = "notify"
  BY <1>2, MovesGoes DEF Fails, Places
<1>3. CASE call[c].op = "create" /\ call[c].at \in {"offer", "checkout"}
  BY <1>3, MovesGoes DEF Fails, Places
<1>4. CASE call[c].op \notin {"expire", "notify"} /\ ~(call[c].op = "create" /\ call[c].at \in {"offer", "checkout"})
  <2>1. Done(c)
    BY <1>4 DEF Fails
  <2> QED BY <2>1, DoneGoes
<1> QED BY <1>1, <1>2, <1>3, <1>4

LEMMA SucceedsGoes ==
  ASSUME CallsSound, NEW c \in Callers, call[c].pay \in Payments, UNCHANGED inbox, TradeHolds,
         Succeeds(c)
  PROVE  Advance(c)
BY MovesGoes, DoneGoes DEF Succeeds, Places

\* A caller that waits for nothing and is not idle has an order in hand.
LEMMA InHand ==
  ASSUME CallsSound, NEW c \in Callers, call[c].at \notin {"idle", "next"}
  PROVE  call[c].pay \in Payments
BY DEF CallsSound, Goes

(***************************************************************************)
(* One step of one goroutine.                                              *)
(***************************************************************************)
CallerStep(c) ==
  /\ Advance(c)
  /\ TradeHolds
  /\ WorldSound'
  /\ RowEffect
  /\ c = InboxLoop \/ UNCHANGED inbox

LEMMA TroublesKept ==
  ASSUME WorldSound, Calm \/ Trouble
  PROVE  troubles' \in 0..MaxTroubles
BY PaymentConstants DEF WorldSound, Calm, Trouble

LEMMA WorldKept ==
  ASSUME WorldSound, Calm \/ Trouble, UNCHANGED <<expired, trade, inbox, notFoundKnown>>,
         link' \in SUBSET Payments
  PROVE  WorldSound' /\ TradeHolds
BY TroublesKept DEF WorldSound, TradeHolds

LEMMA OrdersKept ==
  ASSUME RowsSound, UNCHANGED <<status, creditVars>>
  PROVE  RowEffect
BY DEF RowsSound, RowEffect, OrdersMove

\* A step that only moves the call.
LEMMA OnlyTheCall ==
  ASSUME RecInv, NEW c \in Callers, Advance(c), Calm \/ Trouble,
         UNCHANGED <<orderVars, trade, inbox, creditVars, notFoundKnown>>
  PROVE  CallerStep(c)
BY WorldKept, OrdersKept DEF CallerStep, RecInv, WorldSound, orderVars

\* A step that moves the call and the status of its order.
LEMMA OnlyTheStatus ==
  ASSUME RecInv, NEW c \in Callers, Advance(c), Calm, OrdersMove,
         UNCHANGED <<expired, trade, inbox, notFoundKnown>>, link' \in SUBSET Payments
  PROVE  CallerStep(c)
BY WorldKept DEF CallerStep, RecInv, RowEffect

LEMMA StatusMoves ==
  ASSUME RowsSound, NEW p \in Payments, NEW s \in Unresolved, status[p] \in Unresolved \cup {"absent"},
         status' = [status EXCEPT ![p] = s], UNCHANGED creditVars
  PROVE  OrdersMove
BY DEF RowsSound, OrdersMove, Unresolved, PaymentStatus

\* The statements behind an order's own creation and checkout.
LEMMA CheckoutStep ==
  ASSUME RecInv, NEW c \in Callers,
         \/ CreatePaymentOrder(c) \/ SetPaymentOrderCheckout(c) \/ SetPaymentOrderCreateFailure(c)
  PROVE  CallerStep(c)
<1> DEFINE p == call[c].pay
<1>1. p \in Payments
  BY InHand DEF RecInv, CreatePaymentOrder, SetPaymentOrderCheckout, SetPaymentOrderCreateFailure
<1>2. CASE CreatePaymentOrder(c)
  <2>1. Advance(c)
    BY <1>1, <1>2, TradesUntouched, MovesGoes, DoneGoes DEF RecInv, CreatePaymentOrder, Places
  <2>2. OrdersMove
    BY <1>1, <1>2, StatusMoves DEF RecInv, CreatePaymentOrder, RowsSound, OrdersMove, Unresolved
  <2> QED BY <1>2, <2>1, <2>2, OnlyTheStatus DEF CreatePaymentOrder, RecInv, WorldSound
<1>3. CASE SetPaymentOrderCheckout(c)
  <2>1. Advance(c)
    BY <1>1, <1>3, TradesUntouched, FailsGoes, DoneGoes DEF RecInv, SetPaymentOrderCheckout
  <2>2. OrdersMove
    BY <1>1, <1>3, StatusMoves
       DEF RecInv, SetPaymentOrderCheckout, RowsSound, OrdersMove, Unresolved, Claimable
  <2>3. link' \in SUBSET Payments
    BY <1>1, <1>3 DEF SetPaymentOrderCheckout, RecInv, WorldSound
  <2>4. Calm \/ Trouble
    BY <1>3 DEF SetPaymentOrderCheckout
  <2>5. UNCHANGED <<expired, trade, inbox, notFoundKnown>>
    BY <1>3 DEF SetPaymentOrderCheckout
  <2> QED BY <2>1, <2>2, <2>3, <2>4, <2>5, WorldKept DEF CallerStep, RecInv, RowEffect
<1>4. CASE SetPaymentOrderCreateFailure(c)
  <2>1. Advance(c)
    BY <1>4, DoneGoes DEF RecInv, SetPaymentOrderCreateFailure
  <2>2. OrdersMove
    BY <1>1, <1>4, StatusMoves
       DEF RecInv, SetPaymentOrderCreateFailure, RowsSound, OrdersMove, Unresolved
  <2> QED BY <1>4, <2>1, <2>2, OnlyTheStatus
          DEF SetPaymentOrderCreateFailure, RecInv, WorldSound
<1> QED BY <1>2, <1>3, <1>4

LEMMA OfferStep ==
  ASSUME RecInv, NEW c \in Callers, Offered(c) \/ NotOffered(c)
  PROVE  CallerStep(c)
<1> DEFINE p == call[c].pay
<1>1. p \in Payments
  BY InHand DEF RecInv, Offered, NotOffered
<1>2. /\ UNCHANGED <<orderVars, inbox, creditVars, notFoundKnown>>
      /\ Calm \/ Trouble
      /\ MayOpen(p) \/ UNCHANGED trade
  BY DEF Offered, NotOffered
<1>3. TradeHolds /\ WorldSound'
  BY <1>1, <1>2, TroublesKept
     DEF MayOpen, TradeHolds, WorldSound, RecInv, TradeStatus, orderVars
<1>4. Advance(c)
  BY <1>1, <1>2, <1>3, MovesGoes, FailsGoes DEF RecInv, Offered, NotOffered, Places
<1>5. RowEffect
  BY <1>2, OrdersKept DEF RecInv, orderVars
<1> QED BY <1>2, <1>3, <1>4, <1>5 DEF CallerStep

\* What a query hears is true of the trade.
LEMMA QueryStep ==
  ASSUME RecInv, NEW c \in Callers, QueryOrder(c)
  PROVE  CallerStep(c)
<1> DEFINE p == call[c].pay
<1>1. p \in Payments
  BY InHand DEF RecInv, QueryOrder
<1>2. PICK answer \in {Answer(p), "error"} :
        call' = [call EXCEPT ![c].heard = answer,
                             ![c].at = IF @ = "query" THEN "apply" ELSE "reapply"]
  BY DEF QueryOrder
<1>3. Calm \/ Trouble
  BY DEF QueryOrder
<1>4. UNCHANGED <<orderVars, trade, inbox, creditVars, notFoundKnown>>
  BY DEF QueryOrder
<1>5. /\ answer \in Answers /\ answer # "none"
      /\ answer = "paid" => trade[p] = "paid"
      /\ answer = "closed" => trade[p] = "closed"
      /\ answer = "missing" => notFoundKnown
  BY <1>1 DEF Answer, NotFound, Answers, RecInv, WorldSound, TradeStatus
<1> DEFINE k == [call[c] EXCEPT !.heard = answer,
                    !.at = IF @ = "query" THEN "apply" ELSE "reapply"]
<1>6. call[c] \in Call /\ Goes(c, call[c], trade, inbox)
  BY DEF RecInv, CallsSound
<1>7. k \in Call /\ call' = [call EXCEPT ![c] = k]
  BY <1>2, <1>5, <1>6 DEF Call, Places
<1>8. k.pay = p /\ k.op = call[c].op /\ k.at \in {"apply", "reapply"} /\ k.heard = answer
  BY <1>6 DEF Call
<1>9. Goes(c, k, trade', inbox')
  BY <1>1, <1>4, <1>5, <1>6, <1>7, <1>8 DEF Goes
<1> QED BY <1>3, <1>4, <1>7, <1>9, OnlyTheCall DEF Advance

LEMMA ApplyStep ==
  ASSUME RecInv, NEW c \in Callers, ApplyPaid(c) \/ ApplyClosed(c) \/ ApplyFails(c)
  PROVE  CallerStep(c)
<1> DEFINE p == call[c].pay
<1>1. p \in Payments
  BY InHand DEF RecInv, ApplyPaid, ApplyClosed, ApplyFails, Hears
<1>2. Goes(c, call[c], trade, inbox)
  BY DEF RecInv, CallsSound
<1>3. CASE ApplyPaid(c)
  <2>1. Advance(c)
    BY <1>1, <1>3, TradesUntouched, SucceedsGoes DEF RecInv, ApplyPaid
  <2>2. RowEffect
    BY <1>1, <1>2, <1>3 DEF ApplyPaid, Hears, Goes, RowEffect, PaymentCredited
  <2> QED BY <1>3, <2>1, <2>2, WorldKept DEF CallerStep, ApplyPaid, RecInv, WorldSound
<1>4. CASE ApplyClosed(c)
  <2>1. Advance(c)
    BY <1>1, <1>4, TradesUntouched, SucceedsGoes DEF RecInv, ApplyClosed
  <2>2. OrdersMove
    BY <1>1, <1>2, <1>4
       DEF ApplyClosed, Hears, Goes, MarkPaymentOrderClosed, OrdersMove, RecInv, RowsSound,
           PaymentStatus, Unresolved
  <2> QED BY <1>4, <2>1, <2>2, OnlyTheStatus DEF ApplyClosed, RecInv, WorldSound
<1>5. CASE ApplyFails(c)
  <2>1. Advance(c)
    BY <1>1, <1>5, TradesUntouched, FailsGoes DEF RecInv, ApplyFails
  <2> QED BY <1>5, <2>1, OnlyTheCall DEF ApplyFails
<1> QED BY <1>3, <1>4, <1>5

LEMMA AfterQueryStep ==
  ASSUME RecInv, NEW c \in Callers, AfterQuery(c) \/ QueryFails(c)
  PROVE  CallerStep(c)
<1>1. call[c].pay \in Payments
  BY InHand DEF RecInv, AfterQuery, QueryFails, Hears
<1>2. CASE AfterQuery(c)
  <2>1. CASE call[c].op = "refresh"
    <3>1. Moves(c, "offer")
      BY <1>2, <2>1 DEF AfterQuery
    <3> QED BY <1>1, <1>2, <3>1, TradesUntouched, MovesGoes, OnlyTheCall DEF RecInv, AfterQuery, Places
  <2>2. CASE call[c].op \in {"query", "poll"}
    <3>1. Done(c)
      BY <1>2, <2>2 DEF AfterQuery
    <3> QED BY <1>2, <3>1, DoneGoes, OnlyTheCall DEF RecInv, AfterQuery
  <2>3. CASE call[c].op \notin {"refresh", "query", "poll"}
    <3> DEFINE k == [call[c] EXCEPT !.at = "close", !.heard = "none",
                                    !.missing = (call[c].heard = "missing")]
    <3>1. call[c] \in Call /\ Goes(c, call[c], trade, inbox)
      BY DEF RecInv, CallsSound
    <3>2. call' = [call EXCEPT ![c].at = "close", ![c].heard = "none",
                               ![c].missing = (call[c].heard = "missing")]
      BY <1>2, <2>3 DEF AfterQuery
    <3>3. k \in Call /\ call' = [call EXCEPT ![c] = k]
      BY <3>1, <3>2 DEF Call, Places, Answers
    <3>4. k.pay = call[c].pay /\ k.op = call[c].op /\ k.at = "close" /\ k.heard = "none"
      BY <3>1 DEF Call
    <3>5. UNCHANGED <<orderVars, trade, inbox, creditVars, notFoundKnown>> /\ Calm
      BY <1>2 DEF AfterQuery
    <3>6. Goes(c, k, trade', inbox')
      BY <1>1, <3>1, <3>3, <3>4, <3>5 DEF Goes
    <3> QED BY <3>3, <3>5, <3>6, OnlyTheCall DEF Advance
  <2> QED BY <2>1, <2>2, <2>3
<1>3. CASE QueryFails(c)
  BY <1>1, <1>3, TradesUntouched, FailsGoes, OnlyTheCall DEF RecInv, QueryFails
<1> QED BY <1>2, <1>3

\* Only an open trade is closed, and what was heard of it is closed then too.
LEMMA CloseStep ==
  ASSUME RecInv, NEW c \in Callers, CloseOrder(c) \/ CloseFails(c) \/ CloseMissing(c)
  PROVE  CallerStep(c)
<1> DEFINE p == call[c].pay
<1>1. p \in Payments
  BY InHand DEF RecInv, CloseOrder, CloseFails, CloseMissing
<1>2. call[c] \in Call /\ Goes(c, call[c], trade, inbox)
  BY DEF RecInv, CallsSound
<1>3. CASE CloseOrder(c)
  <2> DEFINE k == [call[c] EXCEPT !.heard = "closed", !.at = "apply", !.missing = FALSE]
  <2>1. k \in Call /\ call' = [call EXCEPT ![c] = k]
    BY <1>2, <1>3 DEF CloseOrder, Call, Places, Answers
  <2>2. k.pay = p /\ k.op = call[c].op /\ k.at = "apply" /\ k.heard = "closed"
    BY <1>2 DEF Call
  <2>3. /\ trade[p] = "open" /\ trade' = [trade EXCEPT ![p] = "closed"] /\ Calm
        /\ UNCHANGED <<orderVars, inbox, creditVars, notFoundKnown>>
    BY <1>3 DEF CloseOrder
  <2>4. Goes(c, k, trade', inbox')
    BY <1>1, <1>2, <2>1, <2>2, <2>3 DEF Goes, RecInv, WorldSound
  <2>5. TradeHolds /\ WorldSound'
    BY <1>1, <2>3, TroublesKept DEF TradeHolds, RecInv, WorldSound, TradeStatus, orderVars
  <2> QED BY <2>1, <2>3, <2>4, <2>5, OrdersKept DEF CallerStep, Advance, RecInv, orderVars
<1>4. CASE CloseFails(c)
  <2>1. PICK missing \in BOOLEAN :
          call' = [call EXCEPT ![c].at = "recheck", ![c].missing = missing]
    <3>1. CASE call' = [call EXCEPT ![c].at = "recheck", ![c].missing = @ /\ trade[p] = "none"]
      BY <3>1
    <3>2. CASE call' = [call EXCEPT ![c].at = "recheck", ![c].missing = FALSE]
      BY <3>2
    <3> QED BY <1>4, <3>1, <3>2 DEF CloseFails
  <2> DEFINE k == [call[c] EXCEPT !.at = "recheck", !.missing = missing]
  <2>2. k \in Call /\ call' = [call EXCEPT ![c] = k]
    BY <1>2, <2>1 DEF Call, Places
  <2>3. k.pay = p /\ k.op = call[c].op /\ k.at = "recheck" /\ k.heard = call[c].heard
    BY <1>2 DEF Call
  <2>4. /\ trade' = trade \/ (trade[p] = "open" /\ trade' = [trade EXCEPT ![p] = "closed"])
        /\ Calm \/ Trouble
        /\ UNCHANGED <<orderVars, inbox, creditVars, notFoundKnown>>
    BY <1>4 DEF CloseFails
  <2>5. TradeHolds /\ WorldSound'
    BY <1>1, <2>4, TroublesKept DEF TradeHolds, RecInv, WorldSound, TradeStatus, orderVars
  <2>6. Goes(c, k, trade', inbox')
    BY <1>1, <1>2, <2>2, <2>3, <2>4, <2>5 DEF Goes, TradeHolds
  <2> QED BY <2>2, <2>4, <2>5, <2>6, OrdersKept DEF CallerStep, Advance, RecInv, orderVars
<1>5. CASE CloseMissing(c)
  <2>1. Advance(c)
    BY <1>5, DoneGoes DEF RecInv, CloseMissing
  <2>2. notFoundKnown
    BY <1>2, <1>5 DEF CloseMissing, Goes
  <2>3. OrdersMove
    BY <1>1, <1>5, <2>2
       DEF CloseMissing, MarkPaymentOrderClosed, OrdersMove, RecInv, RowsSound,
           PaymentStatus, Unresolved
  <2> QED BY <1>5, <2>1, <2>3, OnlyTheStatus DEF CloseMissing, RecInv, WorldSound
<1> QED BY <1>3, <1>4, <1>5

LEMMA RestoreStep ==
  ASSUME RecInv, NEW c \in Callers, RestoreClosingPaymentOrder(c)
  PROVE  CallerStep(c)
<1>1. call[c].pay \in Payments
  BY InHand DEF RecInv, RestoreClosingPaymentOrder
<1>2. Advance(c)
  BY DoneGoes DEF RecInv, RestoreClosingPaymentOrder
<1>3. OrdersMove
  BY <1>1, StatusMoves
     DEF RestoreClosingPaymentOrder, RecInv, RowsSound, OrdersMove, Unresolved
<1> QED BY <1>2, <1>3, OnlyTheStatus DEF RestoreClosingPaymentOrder, RecInv, WorldSound

\* Only the drain of the inbox writes attempts, and then it has none in hand.
LEMMA NoticeStep ==
  ASSUME RecInv, NEW c \in Callers,
         CompletePaymentNotification(c) \/ RetryPaymentNotification(c)
  PROVE  CallerStep(c)
<1> DEFINE p == call[c].pay
<1>1. p \in Payments
  BY InHand DEF RecInv, CompletePaymentNotification, RetryPaymentNotification
<1>2. call[c] \in Call /\ Goes(c, call[c], trade, inbox)
  BY DEF RecInv, CallsSound
<1>3. CASE CompletePaymentNotification(c) /\ UNCHANGED inbox
  <2>1. Advance(c)
    BY <1>1, <1>3, TradesUntouched, FailsGoes, DoneGoes DEF RecInv, CompletePaymentNotification
  <2> QED BY <1>3, <2>1, OnlyTheCall DEF CompletePaymentNotification
<1>4. CASE RetryPaymentNotification(c)
  <2>1. Advance(c)
    BY <1>4, DoneGoes DEF RecInv, RetryPaymentNotification
  <2>2. c = InboxLoop /\ inbox[p].attempts < MaxAttempts
    BY <1>2, <1>4 DEF RetryPaymentNotification, Goes
  <2>3. inbox[p] \in InboxRow /\ inbox[p].attempts + 1 \in 0..MaxAttempts
    BY <1>1, <2>2, PaymentConstants DEF RecInv, WorldSound, InboxRow
  <2>4. trade[p] = "paid"
    BY <1>2, <1>4 DEF RetryPaymentNotification, Goes
  <2>5. inbox' = [inbox EXCEPT ![p] = [status |-> "failed", attempts |-> inbox[p].attempts + 1]]
    BY <1>4 DEF RetryPaymentNotification
  <2>6. WorldSound'
    BY <1>1, <1>4, <2>3, <2>4, <2>5, TroublesKept
       DEF RetryPaymentNotification, RecInv, WorldSound, InboxRow, InboxStatus, orderVars
  <2> QED BY <1>4, <2>1, <2>2, <2>6, TradesUntouched, OrdersKept
          DEF RetryPaymentNotification, CallerStep, RecInv, orderVars
<1>5. CASE CompletePaymentNotification(c) /\ inbox' # inbox
  <2>1. /\ inbox' = [inbox EXCEPT ![p].status = "processed"] /\ Done(c) /\ Calm
        /\ UNCHANGED <<orderVars, trade, creditVars, notFoundKnown>>
    BY <1>5 DEF CompletePaymentNotification
  <2>2. Advance(c)
    BY <2>1, DoneGoes DEF RecInv
  <2>3. c = InboxLoop /\ trade[p] = "paid"
    BY <1>2, <1>5 DEF CompletePaymentNotification, Goes
  <2>4. WorldSound'
    BY <1>1, <2>1, <2>3, TroublesKept DEF RecInv, WorldSound, InboxRow, InboxStatus, orderVars
  <2> QED BY <2>1, <2>2, <2>3, <2>4, TradesUntouched, OrdersKept
          DEF CallerStep, RecInv, orderVars
<1> QED BY <1>3, <1>4, <1>5

LEMMA ContinueStep ==
  ASSUME RecInv, NEW c \in Callers, Continue(c)
  PROVE  CallerStep(c)
BY CheckoutStep, OfferStep, QueryStep, ApplyStep, AfterQueryStep, CloseStep, RestoreStep,
   NoticeStep DEF Continue

(***************************************************************************)
(* Every other step of orders, requests and provider.                      *)
(***************************************************************************)
Sound == CallsSound' /\ WorldSound' /\ TradeHolds /\ RowEffect

LEMMA CallerSound ==
  ASSUME RecInv, NEW c \in Callers, CallerStep(c)
  PROVE  Sound
BY CallersKept DEF Sound, CallerStep, RecInv

\* A call begins, or goes on to its next order, with nothing heard yet.
LEMMA BeginsSound ==
  ASSUME RecInv, NEW c \in Callers, NEW k \in Call, call' = [call EXCEPT ![c] = k],
         k.heard = "none", k.op # "notify", k.at \notin {"mark", "retry"},
         k.at \notin {"idle", "next"} => k.pay \in Payments,
         Calm \/ Trouble, UNCHANGED <<orderVars, trade, inbox, creditVars, notFoundKnown>>
  PROVE  Sound
<1>1. Goes(c, k, trade', inbox')
  BY DEF Goes
<1> QED BY <1>1, OnlyTheCall, CallerSound DEF Advance

LEMMA RequestSound ==
  ASSUME RecInv, NEW c \in Requests, NEW p \in Payments, Request(c, p)
  PROVE  Sound
<1>1. PICK op \in {"create", "refresh", "query", "close"}, place \in {"insert", "query"} :
        Begins(c, op, p, place)
  BY DEF Request, BeginCreate, BeginRefresh, BeginQuery, BeginClose
<1> DEFINE k == [Idle EXCEPT !.op = op, !.pay = p, !.at = place]
<1>2. /\ k \in Call /\ k.heard = "none" /\ k.op # "notify" /\ k.at \notin {"mark", "retry"}
      /\ k.pay = p
  BY DEF Idle, Call, Operations, Places, Answers, Batches
<1>3. call' = [call EXCEPT ![c] = k]
  BY <1>1 DEF Begins
<1>4. Calm /\ UNCHANGED <<orderVars, trade, inbox, creditVars, notFoundKnown>>
  BY <1>1 DEF Begins
<1> HIDE DEF k
<1> QED BY <1>2, <1>3, <1>4, BeginsSound DEF Callers

LEMMA CrashSound ==
  ASSUME RecInv, NEW c \in Callers, Crash(c)
  PROVE  Sound
<1>1. /\ call' = [call EXCEPT ![c] = Idle] /\ Trouble
      /\ UNCHANGED <<orderVars, trade, inbox, creditVars, notFoundKnown>>
  BY DEF Crash
<1>2. /\ Idle \in Call /\ Idle.heard = "none" /\ Idle.op # "notify" /\ Idle.at = "idle"
  BY IdleGoes DEF Idle
<1> QED BY <1>1, <1>2, BeginsSound

LEMMA LoopSound ==
  ASSUME RecInv, LoopStep
  PROVE  Sound
<1>1. OrderLoop \in Callers
  BY DEF Callers
<1>2. call[OrderLoop] \in Call /\ Goes(OrderLoop, call[OrderLoop], trade, inbox)
  BY <1>1 DEF RecInv, CallsSound
<1>3. CASE ClaimExpiredPaymentOrders
  <2> DEFINE k == [Idle EXCEPT !.op = "expire", !.at = "next", !.todo = Expired]
  <2>1. k \in Call /\ k.heard = "none" /\ k.op = "expire" /\ k.at = "next"
    BY DEF Idle, Call, Operations, Places, Answers, Batches, Expired
  <2>2. call' = [call EXCEPT ![OrderLoop] = k] /\ Calm
    BY <1>3 DEF ClaimExpiredPaymentOrders, Batch
  <2>3. Goes(OrderLoop, k, trade', inbox')
    BY <2>1 DEF Goes
  <2>4. OrdersMove
    BY <1>3 DEF ClaimExpiredPaymentOrders, OrdersMove, RecInv, RowsSound, PaymentStatus,
                Unresolved, Expired, Claimable
  <2>5. UNCHANGED <<expired, link, trade, inbox, notFoundKnown>>
    BY <1>3 DEF ClaimExpiredPaymentOrders
  <2>6. Advance(OrderLoop)
    BY <2>1, <2>2, <2>3 DEF Advance
  <2>7. link' \in SUBSET Payments
    BY <2>5 DEF RecInv, WorldSound
  <2> QED BY <1>1, <2>2, <2>4, <2>5, <2>6, <2>7, OnlyTheStatus, CallerSound
<1>4. CASE PaymentOrdersNeedingQuery
  <2> DEFINE k == [Idle EXCEPT !.op = "poll", !.at = "next", !.todo = Pending]
  <2>1. k \in Call /\ k.heard = "none" /\ k.op = "poll" /\ k.at = "next"
    BY DEF Idle, Call, Operations, Places, Answers, Batches, Pending
  <2>2. /\ call' = [call EXCEPT ![OrderLoop] = k] /\ Calm
        /\ UNCHANGED <<orderVars, trade, inbox, creditVars, notFoundKnown>>
    BY <1>4 DEF PaymentOrdersNeedingQuery, Batch
  <2> HIDE DEF k
  <2> QED BY <1>1, <2>1, <2>2, BeginsSound
<1>5. ASSUME NEW p \in Payments, NextInBatch(p)
      PROVE  Sound
  <2> DEFINE k == [call[OrderLoop] EXCEPT !.pay = p, !.at = "query", !.todo = @ \ {p}]
  <2>1. /\ call' = [call EXCEPT ![OrderLoop].pay = p, ![OrderLoop].at = "query",
                      ![OrderLoop].todo = @ \ {p}]
        /\ Calm /\ call[OrderLoop].at = "next"
        /\ UNCHANGED <<orderVars, trade, inbox, creditVars, notFoundKnown>>
    BY <1>5 DEF NextInBatch
  <2>2. k \in Call /\ call' = [call EXCEPT ![OrderLoop] = k]
    BY <1>2, <2>1 DEF Call, Places
  <2>3. /\ k.pay = p /\ k.at = "query" /\ k.op = call[OrderLoop].op
        /\ k.heard = call[OrderLoop].heard
    BY <1>2 DEF Call
  <2>4. k.heard = "none" /\ k.op # "notify"
    BY <1>2, <2>1, <2>3 DEF Goes
  <2> HIDE DEF k
  <2> QED BY <1>1, <2>1, <2>2, <2>3, <2>4, BeginsSound
<1>6. CASE EndBatch
  <2>1. /\ call' = [call EXCEPT ![OrderLoop] = Idle] /\ Calm
        /\ UNCHANGED <<orderVars, trade, inbox, creditVars, notFoundKnown>>
    BY <1>6 DEF EndBatch
  <2>2. /\ Idle \in Call /\ Idle.heard = "none" /\ Idle.op # "notify" /\ Idle.at = "idle"
    BY IdleGoes DEF Idle
  <2> QED BY <1>1, <2>1, <2>2, BeginsSound
<1> QED BY <1>3, <1>4, <1>5, <1>6 DEF LoopStep

LEMMA InboxSound ==
  ASSUME RecInv, NEW p \in Payments, ProcessPaymentNotification(p)
  PROVE  Sound
<1> DEFINE k == [Idle EXCEPT !.op = "notify", !.pay = p, !.at = "apply", !.heard = "paid"]
<1>1. /\ call' = [call EXCEPT ![InboxLoop] = k] /\ Calm
      /\ inbox[p].attempts < MaxAttempts /\ inbox[p].status # "none"
      /\ UNCHANGED <<orderVars, trade, inbox, creditVars, notFoundKnown>>
  BY DEF ProcessPaymentNotification
<1>2. k \in Call /\ k.op = "notify" /\ k.pay = p /\ k.at = "apply" /\ k.heard = "paid"
  BY DEF Idle, Call, Operations, Places, Answers, Batches
<1>3. trade[p] = "paid"
  BY <1>1 DEF RecInv, WorldSound
<1>4. Goes(InboxLoop, k, trade', inbox')
  BY <1>1, <1>2, <1>3 DEF Goes
<1> HIDE DEF k
<1> QED BY <1>1, <1>2, <1>4, OnlyTheCall, CallerSound DEF Advance, Callers

LEMMA WorldStepSound ==
  ASSUME RecInv, NEW p \in Payments, World(p)
  PROVE  Sound
<1>1. CASE SaveVerifiedPaymentNotification(p)
  <2>1. \A q \in Payments : inbox'[q].attempts = inbox[q].attempts
    BY <1>1 DEF SaveVerifiedPaymentNotification, RecInv, WorldSound, InboxRow
  <2>2. CallsSound'
    BY <1>1, <2>1, CallersUntouched, TradesUntouched
       DEF RecInv, SaveVerifiedPaymentNotification
  <2>3. WorldSound'
    BY <1>1, TroublesKept
       DEF SaveVerifiedPaymentNotification, RecInv, WorldSound, InboxRow, InboxStatus, orderVars
  <2> QED BY <1>1, <2>2, <2>3, OrdersKept, TradesUntouched
          DEF Sound, RecInv, SaveVerifiedPaymentNotification, orderVars
<1>2. CASE Expire(p)
  <2>1. CallsSound' /\ TradeHolds
    BY <1>2, CallersUntouched, TradesUntouched DEF RecInv, Expire
  <2>2. WorldSound'
    BY <1>2, TroublesKept DEF Expire, RecInv, WorldSound
  <2> QED BY <1>2, <2>1, <2>2, OrdersKept DEF Sound, RecInv, Expire
<1>3. ASSUME NEW from \in {"none", "open"}, NEW to \in TradeStatus, TradeMoves(p, from, to)
      PROVE  Sound
  <2>1. /\ trade[p] = from /\ trade' = [trade EXCEPT ![p] = to] /\ Calm
        /\ UNCHANGED <<orderVars, inbox, creditVars, call, notFoundKnown>>
    BY <1>3 DEF TradeMoves
  <2>2. TradeHolds /\ WorldSound'
    BY <2>1, TroublesKept DEF TradeHolds, RecInv, WorldSound, orderVars
  <2>3. CallsSound'
    BY <2>1, <2>2, CallersUntouched DEF RecInv
  <2> QED BY <2>1, <2>2, <2>3, OrdersKept DEF Sound, RecInv, orderVars
<1> QED BY <1>1, <1>2, <1>3 DEF World, FollowLink, Pay, Lapse, TradeStatus

LEMMA GiftSound ==
  ASSUME RecInv, NEW u \in Users, NEW g \in Gifts, GrantGift(u, g)
  PROVE  Sound
<1>1. CallsSound' /\ TradeHolds
  BY CallersUntouched, TradesUntouched DEF RecInv, GrantGift
<1>2. WorldSound'
  BY TroublesKept DEF GrantGift, RecInv, WorldSound, orderVars
<1>3. RowEffect
  BY DEF GrantGift, RowEffect, GiftGranted, orderVars
<1> QED BY <1>1, <1>2, <1>3 DEF Sound

LEMMA PaymentNextSound ==
  ASSUME RecInv, PaymentNext
  PROVE  Sound
<1>1. ASSUME NEW c \in Callers, Continue(c)
      PROVE  Sound
  BY <1>1, ContinueStep, CallerSound
<1> QED BY <1>1, RequestSound, CrashSound, LoopSound, WorldStepSound, InboxSound, GiftSound
        DEF PaymentNext

(***************************************************************************)
(* What an effect on the rows keeps.                                       *)
(***************************************************************************)
LEMMA CompleteKeeps ==
  ASSUME RowsSound, WorldSound, NEW p \in Payments, trade[p] = "paid",
         CompletePaymentOrder(p), TradeHolds
  PROVE  RowsSound'
<1>1. CASE UNCHANGED <<status, creditVars>>
  BY <1>1 DEF RowsSound, OrderMatchesTrade, TradeHolds, creditVars, WorldSound
<1>2. CASE /\ status[p] # "credited" /\ \A u \in Users : entry[u][p] = 0
           /\ status' = [status EXCEPT ![p] = "credited"]
           /\ entry' = [entry EXCEPT ![Owner[p]][p] = @ + 1]
           /\ available' = [available EXCEPT ![Owner[p]] = @ + Credits[p]]
  <2>1. Owner[p] \in Users /\ Credits[p] \in Nat /\ p \in Payments \cup Gifts
    BY PaymentConstants
  <2>2. entry[Owner[p]] \in [Payments \cup Gifts -> Nat]
    BY <2>1 DEF RowsSound
  <2>3. /\ status' \in [Payments -> PaymentStatus]
        /\ available' \in [Users -> Nat]
    BY <1>2, <2>1 DEF RowsSound, PaymentStatus
  <2>4. entry' \in [Users -> [Payments \cup Gifts -> Nat]]
    BY <1>2, <2>1, <2>2 DEF RowsSound
  <2>5. ASSUME NEW q \in Payments
        PROVE  /\ status'[q] = "credited" <=> entry'[Owner[q]][q] = 1
               /\ status'[q] = "credited" => trade'[q] = "paid"
               /\ status'[q] = "closed" /\ trade'[q] # "closed" => notFoundKnown'
    <3>0. Owner[q] \in Users /\ entry[Owner[q]] \in [Payments \cup Gifts -> Nat]
      BY PaymentConstants DEF RowsSound
    <3>1. CASE q = p
      <4>1. entry'[Owner[p]][p] = 1
        BY <1>2, <2>1, <2>2 DEF RowsSound
      <4> QED BY <1>2, <3>1, <4>1 DEF RowsSound, TradeHolds
    <3>2. CASE q # p
      <4>1. entry'[Owner[q]][q] = entry[Owner[q]][q]
        BY <1>2, <2>1, <2>2, <3>0, <3>2 DEF RowsSound
      <4>2. status'[q] = status[q]
        BY <1>2, <3>2 DEF RowsSound
      <4> QED BY <4>1, <4>2 DEF RowsSound, OrderMatchesTrade, TradeHolds
    <3> QED BY <3>1, <3>2
  <2> QED BY <2>3, <2>4, <2>5 DEF RowsSound, OrderMatchesTrade
<1> QED BY <1>1, <1>2 DEF CompletePaymentOrder

LEMMA GiftKeeps ==
  ASSUME RowsSound, WorldSound, GiftGranted, TradeHolds
  PROVE  RowsSound'
<1>1. PICK u \in Users, g \in Gifts :
        /\ entry' = [entry EXCEPT ![u][g] = @ + 1]
        /\ available' = [available EXCEPT ![u] = @ + Credits[g]]
  BY DEF GiftGranted
<1>2. Credits[g] \in Nat /\ g \in Payments \cup Gifts /\ g \notin Payments
  BY PaymentConstants
<1>3. entry[u] \in [Payments \cup Gifts -> Nat]
  BY DEF RowsSound
<1>4. available' \in [Users -> Nat] /\ entry' \in [Users -> [Payments \cup Gifts -> Nat]]
  BY <1>1, <1>2, <1>3 DEF RowsSound
<1>5. ASSUME NEW q \in Payments
      PROVE  entry'[Owner[q]][q] = entry[Owner[q]][q]
  <2>1. Owner[q] \in Users /\ entry[Owner[q]] \in [Payments \cup Gifts -> Nat]
    BY PaymentConstants DEF RowsSound
  <2> QED BY <1>1, <1>2, <1>3, <2>1 DEF RowsSound
<1> QED BY <1>4, <1>5 DEF RowsSound, OrderMatchesTrade, TradeHolds, GiftGranted

LEMMA RowsKept ==
  ASSUME RowsSound, WorldSound, RowEffect, TradeHolds
  PROVE  RowsSound'
<1>1. CASE OrdersMove
  BY <1>1 DEF OrdersMove, RowsSound, OrderMatchesTrade, TradeHolds, creditVars
<1>2. CASE PaymentCredited
  BY <1>2, CompleteKeeps DEF PaymentCredited
<1>3. CASE GiftGranted
  BY <1>3, GiftKeeps
<1> QED BY <1>1, <1>2, <1>3 DEF RowEffect

(***************************************************************************)
(* The reconciliation.                                                     *)
(***************************************************************************)
\* A step of the reconciliation: the orders' world stays, a row may be credited.
AuditOnly ==
  /\ UNCHANGED <<expired, link, trade, inbox, call, notFoundKnown>>
  /\ UNCHANGED <<status, creditVars>> \/ PaymentCredited
  /\ Calm \/ Trouble

LEMMA AuditOnlySound ==
  ASSUME RecInv, AuditOnly, AuditSound'
  PROVE  RecInv' /\ RowEffect
<1>1. TradeHolds /\ WorldSound'
  BY TroublesKept, TradesUntouched DEF AuditOnly, RecInv, WorldSound
<1>2. CallsSound'
  BY <1>1, CallersUntouched DEF AuditOnly, RecInv
<1>3. RowEffect
  BY OrdersKept DEF AuditOnly, RecInv, RowEffect
<1>4. RowsSound'
  BY <1>1, <1>3, RowsKept DEF RecInv
<1> QED BY <1>1, <1>2, <1>3, <1>4 DEF RecInv

LEMMA NoAuditIsAudit == NoAudit \in Audit /\ NoAudit.at = "idle"
BY DEF NoAudit, Audit, Answers

LEMMA BeginRunSound ==
  ASSUME RecInv, EndDay \/ DailyReconciliation \/ RunAgain
  PROVE  RecInv' /\ RowEffect
<1>1. AuditOnly
  BY DEF EndDay, DailyReconciliation, RunAgain, BeginRun, AuditOnly, payVars, orderVars, Calm
<1>2. AuditSound'
  <2>1. CASE EndDay
    BY <2>1 DEF EndDay, RecInv, AuditSound, payVars
  <2>2. CASE BeginRun
    <3>1. audit' \in Audit /\ audit'.at = "bill"
      BY <2>2 DEF BeginRun, NoAudit, Audit, Answers
    <3> QED BY <2>2, <3>1 DEF BeginRun, RecInv, AuditSound, RunStatus
  <2> QED BY <2>1, <2>2 DEF DailyReconciliation, RunAgain
<1> QED BY <1>1, <1>2, AuditOnlySound

LEMMA AuditStepSound ==
  ASSUME RecInv, AuditStep \/ AuditCrash
  PROVE  RecInv' /\ RowEffect
<1>0. /\ audit \in Audit /\ audit.bill \in SUBSET Payments /\ audit.failed \in SUBSET Payments
      /\ audit.pay \in Payments \cup {NoPayment} /\ run \in RunStatus /\ dayOver \in BOOLEAN
      /\ items \in SUBSET Payments
  BY DEF RecInv, AuditSound, Audit
<1>1. CASE DownloadTradeBill
  <2>1. AuditOnly
    BY <1>1 DEF DownloadTradeBill, AuditOnly, payVars, orderVars, Calm
  <2>2. audit' \in Audit /\ audit'.at = "records"
    BY <1>0, <1>1 DEF DownloadTradeBill, Audit, Paid, CreditedPaymentOrdersBetween
  <2>3. AuditSound'
    BY <1>0, <1>1, <2>2 DEF DownloadTradeBill, AuditSound
  <2> QED BY <2>1, <2>3, AuditOnlySound
<1>2. CASE FailPaymentReconciliation
  <2>1. AuditOnly
    BY <1>2 DEF FailPaymentReconciliation, AuditOnly, orderVars
  <2>2. AuditSound'
    BY <1>0, <1>2, NoAuditIsAudit DEF FailPaymentReconciliation, AuditSound, RunStatus
  <2> QED BY <2>1, <2>2, AuditOnlySound
<1>3. ASSUME NEW p \in Payments, CompareRow(p)
      PROVE  RecInv' /\ RowEffect
  <2>1. AuditOnly
    BY <1>3 DEF CompareRow, AuditOnly, payVars, orderVars, Calm
  <2>2. /\ audit' \in Audit
        /\ audit'.at \in {"records", "query"}
        /\ audit'.at = "query" => audit'.pay = p
    BY <1>0, <1>3 DEF CompareRow, Audit
  <2>3. AuditSound'
    BY <1>0, <1>3, <2>2 DEF CompareRow, AuditSound
  <2> QED BY <2>1, <2>3, AuditOnlySound
<1>4. CASE ConfirmRow
  <2>1. AuditOnly
    BY <1>4 DEF ConfirmRow, AuditOnly, orderVars
  <2>2. audit.pay \in Payments
    BY <1>4 DEF ConfirmRow, RecInv, AuditSound
  <2>3. PICK answer \in {Answer(audit.pay), "error"} :
          audit' = [audit EXCEPT !.heard = answer, !.at = "apply"]
    BY <1>4 DEF ConfirmRow
  <2>4. answer \in Answers /\ (answer = "paid" => trade[audit.pay] = "paid")
    BY <2>2 DEF Answer, NotFound, Answers, RecInv, WorldSound, TradeStatus
  <2>5. /\ audit' \in Audit /\ audit'.at = "apply" /\ audit'.heard = answer
        /\ audit'.pay = audit.pay
    BY <1>0, <2>3, <2>4 DEF Audit
  <2>6. UNCHANGED <<trade, dayOver, run, items>>
    BY <1>4 DEF ConfirmRow
  <2>7. AuditSound'
    BY <1>0, <2>2, <2>4, <2>5, <2>6 DEF AuditSound
  <2> QED BY <2>1, <2>7, AuditOnlySound
<1>5. /\ NextRow \in Audit /\ NextRow.at = "records"
      /\ [NextRow EXCEPT !.failed = @ \cup {audit.pay}].at = "records"
      /\ audit.pay \in Payments => [NextRow EXCEPT !.failed = @ \cup {audit.pay}] \in Audit
  BY <1>0 DEF NextRow, Audit, Answers
<1>6. CASE RecoverRow
  <2>1. audit.pay \in Payments /\ trade[audit.pay] = "paid"
    BY <1>6 DEF RecoverRow, RecInv, AuditSound
  <2>2. AuditOnly
    BY <1>6, <2>1 DEF RecoverRow, AuditOnly, PaymentCredited, Calm
  <2>3. AuditSound'
    BY <1>0, <1>5, <1>6 DEF RecoverRow, AuditSound
  <2> QED BY <2>2, <2>3, AuditOnlySound
<1>7. CASE RowFails
  <2>1. audit.pay \in Payments
    BY <1>7 DEF RowFails, RecInv, AuditSound
  <2>2. AuditOnly
    BY <1>7 DEF RowFails, AuditOnly, orderVars
  <2>3. AuditSound'
    BY <1>0, <1>5, <1>7, <2>1 DEF RowFails, AuditSound
  <2> QED BY <2>2, <2>3, AuditOnlySound
<1>8. CASE CompletePaymentReconciliation
  <2>1. AuditOnly
    BY <1>8 DEF CompletePaymentReconciliation, AuditOnly, payVars, orderVars, Calm
  <2>2. AuditSound'
    BY <1>0, <1>8, NoAuditIsAudit DEF CompletePaymentReconciliation, AuditSound, RunStatus
  <2> QED BY <2>1, <2>2, AuditOnlySound
<1>9. CASE AuditCrash
  <2>1. AuditOnly
    BY <1>9 DEF AuditCrash, AuditOnly, orderVars
  <2>2. AuditSound'
    BY <1>0, <1>9, NoAuditIsAudit DEF AuditCrash, AuditSound
  <2> QED BY <2>1, <2>2, AuditOnlySound
<1> QED BY <1>1, <1>2, <1>3, <1>4, <1>6, <1>7, <1>8, <1>9 DEF AuditStep

LEMMA RecNextSound ==
  ASSUME RecInv, RecNext
  PROVE  RecInv' /\ RowEffect
<1>1. CASE PaymentStep
  <2>1. Sound /\ UNCHANGED auditVars
    BY <1>1, PaymentNextSound DEF PaymentStep
  <2>2. AuditSound'
    BY <2>1 DEF RecInv, AuditSound, Sound, TradeHolds, auditVars
  <2> QED BY <2>1, <2>2, RowsKept DEF Sound, RecInv
<1> QED BY <1>1, BeginRunSound, AuditStepSound DEF RecNext

LEMMA RecStutter ==
  ASSUME RecInv, UNCHANGED recVars
  PROVE  RecInv'
<1>1. TradeHolds /\ CallsSound'
  BY CallersUntouched, TradesUntouched DEF RecInv, recVars, payVars
<1>2. WorldSound' /\ RowsSound' /\ AuditSound'
  BY DEF RecInv, WorldSound, RowsSound, OrderMatchesTrade, AuditSound, recVars, payVars,
         orderVars, creditVars, auditVars
<1> QED BY <1>1, <1>2 DEF RecInv

LEMMA RecInitSound ==
  ASSUME RecInit
  PROVE  RecInv
<1>1. CallsSound
  <2>1. call = [c \in Callers |-> Idle]
    BY DEF RecInit, PaymentInit
  <2> QED BY <2>1, IdleGoes DEF CallsSound
<1>2. WorldSound
  BY PaymentConstants
     DEF RecInit, PaymentInit, WorldSound, TradeStatus, InboxRow, InboxStatus
<1>3. RowsSound
  BY PaymentConstants
     DEF RecInit, PaymentInit, RowsSound, OrderMatchesTrade, PaymentStatus
<1>4. AuditSound
  BY NoAuditIsAudit DEF RecInit, AuditSound, RunStatus
<1> QED BY <1>1, <1>2, <1>3, <1>4 DEF RecInv

LEMMA RecInvHolds == RecSpec => []RecInv
<1>1. RecInit => RecInv
  BY RecInitSound
<1>2. RecInv /\ [RecNext]_recVars => RecInv'
  BY RecNextSound, RecStutter
<1> QED BY <1>1, <1>2, PTL DEF RecSpec

(***************************************************************************)
(* The theorems.                                                           *)
(***************************************************************************)
\* Every variable has its type: no goroutine works on an order that does not
\* exist, no notification is tried more often than allowed, no balance of
\* topups and gifts is negative.
THEOREM PaymentTypes == RecSpec => []RecTypeOK
<1>1. RecInv => RecTypeOK
  BY DEF RecInv, CallsSound, Goes, WorldSound, RowsSound, AuditSound, RecTypeOK,
         PaymentTypeOK, InboxRow
<1> QED BY <1>1, RecInvHolds, PTL

\* An order is credited exactly when its ledger entry exists and only for a
\* paid trade, and it is closed only when it cannot be paid any more or the
\* provider had not heard of it.
THEOREM OrdersMatchTrades == RecSpec => []OrderMatchesTrade
<1>1. RecInv => OrderMatchesTrade
  BY DEF RecInv, RowsSound
<1> QED BY <1>1, RecInvHolds, PTL

\* To the ledger a payment is granted at most once, whoever notices it and how
\* often: every step is a grant of a reference nobody was granted, or nothing.
THEOREM PaymentsGrantOnce == RecSpec => PaymentsAreGrants
<1>1. RecInit => Ledger!Init
  BY DEF RecInit, PaymentInit, Ledger!Init, Ledger!Sources, NoRows
<1>2. ASSUME RecInv, RecNext
      PROVE  [Ledger!Next]_(Ledger!vars)
  <2>1. CASE UNCHANGED creditVars
    BY <2>1 DEF Ledger!vars, Ledger!accountVars, Ledger!creditVars, Ledger!ledgerVars,
                creditVars, NoRows
  <2>2. ASSUME NEW u \in Users, NEW r \in Payments \cup Gifts,
               \A v \in Users : entry[v][r] = 0,
               entry' = [entry EXCEPT ![u][r] = @ + 1],
               available' = [available EXCEPT ![u] = @ + Credits[r]]
        PROVE  Ledger!Next
    BY <2>2 DEF Ledger!Next, Ledger!CreditStep, Ledger!GrantCreditsOnce, Ledger!CreditFrom,
                Ledger!ledgerVars, NoRows
  <2>3. CASE PaymentCredited
    BY <2>1, <2>2, <2>3, PaymentConstants DEF PaymentCredited, CompletePaymentOrder
  <2>4. CASE GiftGranted
    BY <2>2, <2>4 DEF GiftGranted
  <2> QED BY <1>2, <2>1, <2>3, <2>4, RecNextSound DEF RowEffect, OrdersMove
<1>3. ASSUME UNCHANGED recVars
      PROVE  UNCHANGED Ledger!vars
  BY <1>3 DEF recVars, payVars, creditVars, Ledger!vars, Ledger!accountVars,
              Ledger!creditVars, Ledger!ledgerVars, NoRows
<1> QED BY <1>1, <1>2, <1>3, RecInvHolds, PTL DEF RecSpec, PaymentsAreGrants, Ledger!Spec
=============================================================================
