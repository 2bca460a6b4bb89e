-------------------------- MODULE OrderAdminProofs --------------------------
(***************************************************************************)
(* Proofs about OrderAdmin for any orders, variants, zones and calls, any   *)
(* number of calls in flight and with or without failing statements.       *)
(*                                                                         *)
(* Nothing relates a row to the calls that read it earlier, so the         *)
(* invariants speak of the statements still to be executed: a statement    *)
(* already fixed in todo must be harmless whenever it runs.                *)
(***************************************************************************)
EXTENDS OrderAdmin, SequenceTheorems, SumProofs

-----------------------------------------------------------------------------
(* Statements that keep fee and total apart by what the items cost. *)

Consistent(o, fee, total) ==
  fee <= total /\ total - fee = Subtotal(orders[o].items)

Harmless ==
  {st \in Statement : st.op = "UpdateShippingDetails" =>
                        Consistent(st.order, st.fee, st.total)}

(* ... that also leave no history row of UpdateOrderStatus behind.          *)
Unrecorded ==
  {st \in Harmless : ~(st.op = "CreateHistory" /\ st.by = "status")}

RowsConsistent ==
  \A o \in Orders : Consistent(o, orders[o].fee, orders[o].total)

(* The inductive invariant behind TypeOK and SubtotalPreserved: the type of *)
(* total depends on the fee never exceeding it, and that depends on every  *)
(* pending shipping statement being consistent with items nobody changes.  *)
StoreInv ==
  /\ StoreTypeOK
  /\ RowsConsistent
  /\ todo \in [Calls -> Seq(Harmless)]

-----------------------------------------------------------------------------
(* Lemmas about the statements and the lists built from them *)

LEMMA StatementTypes ==
  ASSUME NEW o \in Orders
  PROVE  /\ \A i \in Nat, v \in Variants, d \in Int, r \in Reasons :
              UpdateStock(o, i, v, d, r) \in Unrecorded
         /\ \A i \in Nat, v \in Variants, d \in Int :
              UpdateStock(Manual, i, v, d, "manual") \in Unrecorded
         /\ \A s \in OrderStatuses : UpdateStatus(o, s) \in Unrecorded
         /\ \A p \in PaymentStatuses : UpdatePayment(o, p) \in Unrecorded
         /\ \A a \in Nat : UpdatePaidAmount(o, a) \in Unrecorded
         /\ \A a \in Nat \ {0} : /\ CreateRefund(o, a) \in Unrecorded
                                 /\ UpdateRefundedAmount(o, a) \in Unrecorded
         /\ \A f, t \in OrderStatuses, h \in Handlers \ {"status"} :
              CreateHistory(o, f, t, h) \in Unrecorded
         /\ \A f, t \in OrderStatuses :
              CreateHistory(o, f, t, "status") \in Harmless
         /\ \A z \in Zones, f, t \in Nat :
              Consistent(o, f, t) => UpdateShippingDetails(o, z, f, t) \in Unrecorded
<1>1. "manual" \in Reasons
  BY DEF Reasons
<1> QED
  BY <1>1 DEF Unrecorded, Harmless, Handlers, Statement, UpdateStock, UpdateStatus, UpdatePayment,
       UpdatePaidAmount, CreateRefund, UpdateRefundedAmount, CreateHistory,
       UpdateShippingDetails, Refs, Manual

(* One stock statement per item, in the items' order.                      *)
LEMMA StockStatementsType ==
  ASSUME NEW o \in Orders, NEW items \in Seq(Item), NEW sign \in {1, -1},
         NEW reason \in Reasons
  PROVE  /\ StockStatements(o, items, sign, reason) \in Seq(Unrecorded)
         /\ Len(StockStatements(o, items, sign, reason)) = Len(items)
         /\ \A i \in 1..Len(items) :
              StockStatements(o, items, sign, reason)[i]
                = UpdateStock(o, i, items[i].variant, sign * items[i].quantity, reason)
<1> DEFINE S == StockStatements(o, items, sign, reason)
<1>1. S \in [1..Len(items) -> Unrecorded]
  <2>1. ASSUME NEW i \in 1..Len(items)
        PROVE  UpdateStock(o, i, items[i].variant, sign * items[i].quantity, reason)
                 \in Unrecorded
    <3>1. items[i] \in Item
      BY ElementOfSeq
    <3>2. items[i].variant \in Variants /\ sign * items[i].quantity \in Int
      BY <3>1 DEF Item
    <3> QED  BY <3>2, StatementTypes
  <2> QED  BY <2>1, LenProperties DEF StockStatements
<1>2. S \in Seq(Unrecorded)
  BY <1>1, LenProperties, SeqDef
<1>3. Len(S) = Len(items)
  BY <1>1, <1>2, LenProperties
<1> QED  BY <1>1, <1>2, <1>3, LenProperties DEF StockStatements

(* restoreOrderStock and deductOrderStock *)
LEMMA OrderStockType ==
  ASSUME NEW o \in Orders, NEW row \in OrderRow, NEW reason \in Reasons
  PROVE  /\ restoreOrderStock(o, row, reason) \in Seq(Unrecorded)
         /\ deductOrderStock(o, row, reason) \in Seq(Unrecorded)
<1>1. row.items \in Seq(Item)
  BY DEF OrderRow
<1> QED
  BY <1>1, StockStatementsType DEF restoreOrderStock, deductOrderStock

LEMMA ReasonTypes ==
  /\ {"manual", "recovery_rededuct", "refund_restock"} \subseteq Reasons
  /\ \A s \in StockRestoring : RestoreReason[s] \in Reasons
BY DEF Reasons

LEMMA StatusTypes ==
  /\ StockRestoring \subseteq OrderStatuses
  /\ {"processing", "refunded"} \subseteq OrderStatuses
  /\ {"paid", "partial_paid", "partial_refund", "refunded"} \subseteq PaymentStatuses
  /\ \A s \in OrderStatuses : ValidTransitions[s] \subseteq OrderStatuses
BY DEF StockRestoring, OrderStatuses, PaymentStatuses, ValidTransitions

(* A change has one side effect at most, and only a change to a status that *)
(* gives stock back asks for a restore.                                    *)
LEMMA OneSideEffect ==
  ASSUME NEW from \in OrderStatuses, NEW to \in OrderStatuses
  PROVE  /\ GetSideEffects(from, to)
              \in {{}, {"restore_stock"}, {"deduct_stock"},
                   {"sync_payment_paid"}, {"sync_payment_refund"}}
         /\ "restore_stock" \in GetSideEffects(from, to) => to \in StockRestoring
<1>1. StatusSideEffects(to)
        \in {{}, {"restore_stock"}, {"deduct_stock"},
             {"sync_payment_paid"}, {"sync_payment_refund"}}
  BY DEF StatusSideEffects, StockRestoring
<1>2. "restore_stock" \in StatusSideEffects(to) => to \in StockRestoring
  BY DEF StatusSideEffects, StockRestoring
<1> QED
  BY <1>1, <1>2 DEF GetSideEffects

LEMMA SideEffectsType ==
  ASSUME NEW o \in Orders, NEW row \in OrderRow, NEW to \in OrderStatuses
  PROVE  handleOrderStateSideEffects(o, row, to) \in Seq(Unrecorded)
<1> DEFINE effects == GetSideEffects(row.status, to)
<1>0. row.status \in OrderStatuses /\ row.total \in Nat
  BY DEF OrderRow
<1>1. /\ effects \in {{}, {"restore_stock"}, {"deduct_stock"},
                      {"sync_payment_paid"}, {"sync_payment_refund"}}
      /\ "restore_stock" \in effects => to \in StockRestoring
  BY <1>0, OneSideEffect
<1>2. /\ UpdatePayment(o, "paid") \in Unrecorded
      /\ UpdatePayment(o, "refunded") \in Unrecorded
      /\ UpdatePaidAmount(o, row.total) \in Unrecorded
  BY <1>0, StatusTypes, StatementTypes
<1>3. CASE effects = {"restore_stock"}
  <2>1. restoreOrderStock(o, row, RestoreReason[to]) \in Seq(Unrecorded)
    BY <1>1, <1>3, ReasonTypes, OrderStockType
  <2> QED  BY <1>3, <2>1 DEF handleOrderStateSideEffects
<1>4. CASE effects = {"deduct_stock"}
  <2>1. deductOrderStock(o, row, "recovery_rededuct") \in Seq(Unrecorded)
    BY ReasonTypes, OrderStockType
  <2> QED  BY <1>4, <2>1 DEF handleOrderStateSideEffects
<1>5. CASE effects = {"sync_payment_paid"}
  <2>1. <<UpdatePayment(o, "paid"), UpdatePaidAmount(o, row.total)>> \in Seq(Unrecorded)
    BY <1>2
  <2> QED  BY <1>5, <2>1 DEF handleOrderStateSideEffects
<1>6. CASE effects = {"sync_payment_refund"}
  <2>1. <<UpdatePayment(o, "refunded")>> \in Seq(Unrecorded)
    BY <1>2
  <2> QED  BY <1>6, <2>1 DEF handleOrderStateSideEffects
<1>7. CASE effects = {}
  <2>1. << >> \in Seq(Unrecorded)
    OBVIOUS
  <2> QED  BY <1>7, <2>1 DEF handleOrderStateSideEffects
<1> QED  BY <1>1, <1>3, <1>4, <1>5, <1>6, <1>7

-----------------------------------------------------------------------------
(* A handler that reads a consistent store leaves harmless statements. *)

LEMMA UnrecordedHarmless ==
  /\ Unrecorded \subseteq Harmless
  /\ Seq(Unrecorded) \subseteq Seq(Harmless)
<1>1. Unrecorded \subseteq Harmless
  BY DEF Unrecorded
<1> QED  BY <1>1

(* What UpdateOrderStatus leaves to do: the stock effects or the payment    *)
(* synchronisation, then the status, then the history row.                 *)
StatusStatements(o, to) ==
  handleOrderStateSideEffects(o, orders[o], to)
    \o <<UpdateStatus(o, to), CreateHistory(o, orders[o].status, to, "status")>>

LEMMA StatusStatementsType ==
  ASSUME StoreTypeOK, NEW o \in Orders, NEW to \in OrderStatuses
  PROVE  LET effects == handleOrderStateSideEffects(o, orders[o], to)
             S       == StatusStatements(o, to)
         IN  /\ S \in Seq(Harmless)
             /\ effects \in Seq(Unrecorded)
             /\ Len(S) = Len(effects) + 2
             /\ \A k \in 1..Len(effects) : S[k] = effects[k]
             /\ \A k \in 1..(Len(effects) + 1) : S[k] \in Unrecorded
             /\ S[Len(effects) + 2] = CreateHistory(o, orders[o].status, to, "status")
<1> DEFINE effects == handleOrderStateSideEffects(o, orders[o], to)
           tail == <<UpdateStatus(o, to), CreateHistory(o, orders[o].status, to, "status")>>
<1>1. orders[o] \in OrderRow /\ orders[o].status \in OrderStatuses
  BY DEF StoreTypeOK, OrderRow
<1>2. effects \in Seq(Unrecorded)
  BY <1>1, SideEffectsType
<1>3. /\ UpdateStatus(o, to) \in Unrecorded
      /\ UpdateStatus(o, to) \in Harmless
      /\ CreateHistory(o, orders[o].status, to, "status") \in Harmless
  BY <1>1, StatementTypes, UnrecordedHarmless
<1>4. /\ tail \in Seq(Harmless) /\ Len(tail) = 2
      /\ tail[1] = UpdateStatus(o, to)
      /\ tail[2] = CreateHistory(o, orders[o].status, to, "status")
  BY <1>3
<1>5. effects \in Seq(Harmless)
  BY <1>2, UnrecordedHarmless
<1> HIDE DEF effects, tail
<1>6. /\ effects \o tail \in Seq(Harmless)
      /\ Len(effects \o tail) = Len(effects) + 2
      /\ \A k \in 1..(Len(effects) + 2) :
           (effects \o tail)[k] = IF k <= Len(effects) THEN effects[k]
                                  ELSE tail[k - Len(effects)]
  <2>1. /\ effects \o tail \in Seq(Harmless)
        /\ Len(effects \o tail) = Len(effects) + Len(tail)
    BY <1>4, <1>5, ConcatProperties
  <2>2. \A k \in 1..(Len(effects) + Len(tail)) :
          (effects \o tail)[k] = IF k <= Len(effects) THEN effects[k]
                                 ELSE tail[k - Len(effects)]
    BY <1>4, <1>5, ConcatProperties
  <2> QED  BY <1>4, <2>1, <2>2
<1>7. Len(effects) \in Nat /\ \A k \in 1..Len(effects) : effects[k] \in Unrecorded
  BY <1>2, LenProperties
<1>8. \A k \in 1..(Len(effects) + 1) : (effects \o tail)[k] \in Unrecorded
  BY <1>3, <1>4, <1>6, <1>7
<1>9. (effects \o tail)[Len(effects) + 2] = tail[2]
  BY <1>6, <1>7
<1>10. StatusStatements(o, to) = effects \o tail
  BY DEF StatusStatements, effects, tail
<1>11. \A k \in 1..Len(effects) : (effects \o tail)[k] = effects[k]
  BY <1>6, <1>7
<1>12. CreateHistory(o, orders[o].status, to, "status") = tail[2]
  BY <1>4
<1> QED  BY <1>2, <1>6, <1>8, <1>9, <1>10, <1>11, <1>12 DEF effects

LEMMA HandlersBegin ==
  ASSUME StoreInv, NEW c \in Calls, Handle(c)
  PROVE  \/ \E S \in Seq(Unrecorded) : Begin(c, S)
         \/ \E o \in Orders, to \in OrderStatuses : Begin(c, StatusStatements(o, to))
<1>0. placed \subseteq Orders /\ orders \in [Orders -> OrderRow]
  BY DEF StoreInv, StoreTypeOK
<1>1. ASSUME NEW o \in Orders, NEW to \in OrderStatuses, UpdateOrderStatus(c, o, to)
      PROVE  Begin(c, StatusStatements(o, to))
  BY <1>1 DEF UpdateOrderStatus, StatusStatements
<1>2. ASSUME NEW o \in Orders, VerifyOrderPayment(c, o)
      PROVE  \E S \in Seq(Unrecorded) : Begin(c, S)
  <2> DEFINE row == orders[o]
             payment == IF row.preorder THEN "partial_paid" ELSE "paid"
  <2>1. row.status \in OrderStatuses
    BY <1>0 DEF OrderRow
  <2>2. /\ UpdateStatus(o, "processing") \in Unrecorded
        /\ UpdatePayment(o, payment) \in Unrecorded
        /\ CreateHistory(o, row.status, "processing", "verify") \in Unrecorded
    BY <2>1, StatementTypes, StatusTypes DEF Handlers
  <2>3. <<UpdateStatus(o, "processing"), UpdatePayment(o, payment),
          CreateHistory(o, row.status, "processing", "verify")>> \in Seq(Unrecorded)
    BY <2>2
  <2> QED  BY <1>2, <2>3 DEF VerifyOrderPayment
<1>3. ASSUME NEW o \in Orders, NEW p \in PaymentStatuses, UpdatePaymentStatus(c, o, p)
      PROVE  \E S \in Seq(Unrecorded) : Begin(c, S)
  <2>1. orders[o].status \in OrderStatuses
    BY <1>0 DEF OrderRow
  <2>2. /\ UpdatePayment(o, p) \in Unrecorded
        /\ CreateHistory(o, orders[o].status, orders[o].status, "payment") \in Unrecorded
    BY <2>1, StatementTypes DEF Handlers
  <2>3. <<UpdatePayment(o, p),
          CreateHistory(o, orders[o].status, orders[o].status, "payment")>>
          \in Seq(Unrecorded)
    BY <2>2
  <2> QED  BY <1>3, <2>3 DEF UpdatePaymentStatus
<1>4. ASSUME NEW o \in Orders, NEW a \in Amounts, NEW restock \in BOOLEAN,
             ProcessRefund(c, o, a, restock)
      PROVE  \E S \in Seq(Unrecorded) : Begin(c, S)
  <2> DEFINE row == orders[o]
             isFull == restock /\ a >= row.paid - row.refunded
             money  == <<CreateRefund(o, a), UpdateRefundedAmount(o, a)>>
             goods  == IF restock THEN restoreOrderStock(o, row, "refund_restock")
                       ELSE << >>
             status == IF isFull THEN <<UpdateStatus(o, "refunded"),
                                        UpdatePayment(o, "refunded")>>
                       ELSE << >>
             entry  == <<CreateHistory(o, row.status,
                                       IF isFull THEN "refunded" ELSE row.status,
                                       "refund")>>
  <2>1. row \in OrderRow /\ row.status \in OrderStatuses
    BY <1>0 DEF OrderRow
  <2>2. a \in Nat \ {0}
    BY AmountsAssumption
  <2>3. /\ CreateRefund(o, a) \in Unrecorded
        /\ UpdateRefundedAmount(o, a) \in Unrecorded
        /\ UpdateStatus(o, "refunded") \in Unrecorded
        /\ UpdatePayment(o, "refunded") \in Unrecorded
    BY <2>2, StatementTypes, StatusTypes
  <2>4. CreateHistory(o, row.status, IF isFull THEN "refunded" ELSE row.status,
                      "refund") \in Unrecorded
    BY <2>1, StatementTypes, StatusTypes DEF Handlers
  <2>5. money \in Seq(Unrecorded)
    BY <2>3
  <2>6. goods \in Seq(Unrecorded)
    <3>1. restoreOrderStock(o, row, "refund_restock") \in Seq(Unrecorded)
      BY <2>1, OrderStockType, ReasonTypes
    <3> QED  BY <3>1
  <2>7. status \in Seq(Unrecorded)
    <3>1. <<UpdateStatus(o, "refunded"), UpdatePayment(o, "refunded")>> \in Seq(Unrecorded)
      BY <2>3
    <3> QED  BY <3>1
  <2>8. entry \in Seq(Unrecorded)
    BY <2>4
  <2> HIDE DEF money, goods, status, entry
  <2>9. money \o goods \in Seq(Unrecorded)
    BY <2>5, <2>6, ConcatProperties
  <2>10. (money \o goods) \o status \in Seq(Unrecorded)
    BY <2>7, <2>9, ConcatProperties
  <2>11. ((money \o goods) \o status) \o entry \in Seq(Unrecorded)
    BY <2>8, <2>10, ConcatProperties
  <2>12. Begin(c, ((money \o goods) \o status) \o entry)
    BY <1>4 DEF ProcessRefund, money, goods, status, entry
  <2> QED  BY <2>11, <2>12
<1>5. ASSUME NEW o \in Orders, NEW z \in Zones, UpdateShippingZone(c, o, z)
      PROVE  \E S \in Seq(Unrecorded) : Begin(c, S)
  <2> DEFINE row == orders[o]
             total == row.total + (ZoneCost[z] - row.fee)
  <2>1. row.status \in OrderStatuses /\ row.total \in Nat /\ row.fee \in Nat
    BY <1>0 DEF OrderRow
  <2>2. ZoneCost[z] \in Nat
    BY ZoneCostAssumption
  <2>3. Consistent(o, row.fee, row.total)
    BY DEF StoreInv, RowsConsistent
  <2>4. total \in Nat /\ ZoneCost[z] <= total /\ total - ZoneCost[z] = row.total - row.fee
    BY <2>1, <2>2, <2>3 DEF Consistent
  <2>5. Consistent(o, ZoneCost[z], total)
    BY <2>3, <2>4 DEF Consistent
  <2>6. /\ UpdateShippingDetails(o, z, ZoneCost[z], total) \in Unrecorded
        /\ CreateHistory(o, row.status, row.status, "zone") \in Unrecorded
    BY <2>1, <2>2, <2>4, <2>5, StatementTypes DEF Handlers
  <2>7. <<UpdateShippingDetails(o, z, ZoneCost[z], total),
          CreateHistory(o, row.status, row.status, "zone")>> \in Seq(Unrecorded)
    BY <2>6
  <2> QED  BY <1>5, <2>7 DEF UpdateShippingZone
<1>6. ASSUME NEW v \in Variants, NEW d \in Adjustments, AdjustStock(c, v, d)
      PROVE  \E S \in Seq(Unrecorded) : Begin(c, S)
  <2>1. UpdateStock(Manual, 0, v, d, "manual") \in Unrecorded
    BY AdjustmentsAssumption, ReasonTypes
       DEF Unrecorded, Harmless, Statement, UpdateStock, Refs
  <2>2. <<UpdateStock(Manual, 0, v, d, "manual")>> \in Seq(Unrecorded)
    BY <2>1
  <2> QED  BY <1>6, <2>2 DEF AdjustStock
<1> QED
  BY <1>0, <1>1, <1>2, <1>3, <1>4, <1>5, <1>6 DEF Handle

LEMMA HandlersBeginHarmless ==
  ASSUME StoreInv, NEW c \in Calls, Handle(c)
  PROVE  \E S \in Seq(Harmless) : Begin(c, S)
BY HandlersBegin, StatusStatementsType, UnrecordedHarmless DEF StoreInv

-----------------------------------------------------------------------------
(* The statements keep the invariant *)

(* Two rows that charge the same for the same items. *)
SameCharge(new, old) ==
  new.items = old.items /\ new.fee = old.fee /\ new.total = old.total

LEMMA RowUpdates ==
  ASSUME NEW row \in OrderRow
  PROVE  /\ \A s \in OrderStatuses : LET new == [row EXCEPT !.status = s]
                                    IN  new \in OrderRow /\ SameCharge(new, row)
         /\ \A p \in PaymentStatuses : LET new == [row EXCEPT !.payment = p]
                                      IN  new \in OrderRow /\ SameCharge(new, row)
         /\ \A a \in Nat : LET new == [row EXCEPT !.paid = a]
                          IN  new \in OrderRow /\ SameCharge(new, row)
         /\ \A a \in Nat : LET new == RefundTotals(row, a)
                          IN  new \in OrderRow /\ SameCharge(new, row)
<1>1. \A s \in OrderStatuses : LET new == [row EXCEPT !.status = s]
                              IN  new \in OrderRow /\ SameCharge(new, row)
  BY DEF OrderRow, SameCharge
<1>2. \A p \in PaymentStatuses : LET new == [row EXCEPT !.payment = p]
                                IN  new \in OrderRow /\ SameCharge(new, row)
  BY DEF OrderRow, SameCharge
<1>3. \A a \in Nat : LET new == [row EXCEPT !.paid = a]
                    IN  new \in OrderRow /\ SameCharge(new, row)
  BY DEF OrderRow, SameCharge
<1>4. \A a \in Nat : LET new == RefundTotals(row, a)
                    IN  new \in OrderRow /\ SameCharge(new, row)
  <2> SUFFICES ASSUME NEW a \in Nat
               PROVE  /\ RefundTotals(row, a) \in OrderRow
                      /\ SameCharge(RefundTotals(row, a), row)
    OBVIOUS
  <2>1. \A r \in Nat, p \in PaymentStatuses, s \in OrderStatuses :
          LET new == [row EXCEPT !.refunded = r, !.payment = p, !.status = s]
          IN  new \in OrderRow /\ SameCharge(new, row)
    BY DEF OrderRow, SameCharge
  <2>2. row.refunded + a \in Nat /\ row.status \in OrderStatuses
    BY DEF OrderRow
  <2> QED
    BY <2>1, <2>2, StatusTypes DEF RefundTotals
<1> QED  BY <1>1, <1>2, <1>3, <1>4

(* What an UPDATE of one order row does to all of them. *)
LEMMA RowUpdate ==
  ASSUME orders \in [Orders -> OrderRow], NEW o \in Orders, NEW new \in OrderRow,
         SameCharge(new, orders[o]), orders' = [orders EXCEPT ![o] = new]
  PROVE  /\ orders' \in [Orders -> OrderRow]
         /\ \A p \in Orders : SameCharge(orders'[p], orders[p])
BY DEF SameCharge

LEMMA OrderUpdates ==
  ASSUME orders \in [Orders -> OrderRow], NEW st \in Statement,
         ExecUpdateOrder(st) \/ ExecUpdateRefundedAmount(st)
  PROVE  /\ orders' \in [Orders -> OrderRow]
         /\ \A o \in Orders : SameCharge(orders'[o], orders[o])
<1> DEFINE row == orders[st.order]
<1>1. CASE ExecUpdateOrder(st) /\ st.op = "UpdateStatus"
  <2>1. st.order \in Orders /\ st.status \in OrderStatuses /\ row \in OrderRow
    BY <1>1 DEF Statement
  <2>2. orders' = [orders EXCEPT ![st.order] = [row EXCEPT !.status = st.status]]
    BY <1>1 DEF ExecUpdateOrder
  <2> QED  BY <2>1, <2>2, RowUpdates, RowUpdate
<1>2. CASE ExecUpdateOrder(st) /\ st.op = "UpdatePayment"
  <2>1. st.order \in Orders /\ st.payment \in PaymentStatuses /\ row \in OrderRow
    BY <1>2 DEF Statement
  <2>2. orders' = [orders EXCEPT ![st.order] = [row EXCEPT !.payment = st.payment]]
    BY <1>2 DEF ExecUpdateOrder
  <2> QED  BY <2>1, <2>2, RowUpdates, RowUpdate
<1>3. CASE ExecUpdateOrder(st) /\ st.op = "UpdatePaidAmount"
  <2>1. st.order \in Orders /\ st.amount \in Nat /\ row \in OrderRow
    BY <1>3 DEF Statement
  <2>2. orders' = [orders EXCEPT ![st.order] = [row EXCEPT !.paid = st.amount]]
    BY <1>3 DEF ExecUpdateOrder
  <2> QED  BY <2>1, <2>2, RowUpdates, RowUpdate
<1>4. CASE ExecUpdateRefundedAmount(st)
  <2>1. st.order \in Orders /\ st.amount \in Nat /\ row \in OrderRow
    BY <1>4 DEF ExecUpdateRefundedAmount, Statement
  <2>2. orders' = [orders EXCEPT ![st.order] = RefundTotals(row, st.amount)]
    BY <1>4 DEF ExecUpdateRefundedAmount
  <2> QED  BY <2>1, <2>2, RowUpdates, RowUpdate
<1> QED  BY <1>1, <1>2, <1>3, <1>4 DEF ExecUpdateOrder

(* No statement changes what an order is made of, so a statement that was   *)
(* harmless when its call began is harmless when it runs.                  *)
LEMMA ItemsNeverChange ==
  ASSUME StoreTypeOK, NEW c \in Calls, NEW st \in Statement, Exec(c, st)
  PROVE  \A o \in Orders : orders'[o].items = orders[o].items
<1>1. orders \in [Orders -> OrderRow]
  BY DEF StoreTypeOK
<1>2. \A o \in Orders : orders[o] \in OrderRow
  BY <1>1
<1>3. CASE ExecUpdateOrder(st) \/ ExecUpdateRefundedAmount(st)
  BY <1>1, <1>3, OrderUpdates DEF SameCharge
<1>4. CASE ExecUpdateShippingDetails(st)
  BY <1>1, <1>2, <1>4 DEF ExecUpdateShippingDetails, OrderRow
<1> QED
  BY <1>3, <1>4 DEF Exec, ExecUpdateStock, ExecCreateRefund, ExecCreateHistory

LEMMA HarmlessUnchanged ==
  ASSUME \A o \in Orders : orders'[o].items = orders[o].items
  PROVE  Harmless' = Harmless
<1>1. \A st \in Statement : st.op = "UpdateShippingDetails" => st.order \in Orders
  BY DEF Statement
<1> QED
  BY <1>1 DEF Harmless, Consistent

(* Each statement writes values of its columns' types.                     *)
LEMMA ExecTypes ==
  ASSUME StoreTypeOK, RowsConsistent, NEW c \in Calls, NEW st \in Harmless,
         Exec(c, st)
  PROVE  /\ placed' = placed
         /\ orders' \in [Orders -> OrderRow]
         /\ stock' \in [Variants -> Nat]
         /\ log' \subseteq LogRow
         /\ history' \subseteq HistoryRow
         /\ refunds' \subseteq RefundRow
         /\ RowsConsistent'
<1> USE DEF StoreTypeOK
<1>0. st \in Statement
  BY DEF Harmless
<1>1. \A o \in Orders : orders[o] \in OrderRow
  OBVIOUS
<1>2. \A o \in Orders : orders'[o].items = orders[o].items
  BY <1>0, ItemsNeverChange
<1>3. CASE ExecUpdateStock(c, st)
  <2>1. /\ st.op = "UpdateStock" /\ st.ref \in Refs /\ st.item \in Nat
        /\ st.variant \in Variants /\ st.change \in Int /\ st.reason \in Reasons
    BY <1>0, <1>3 DEF ExecUpdateStock, Statement
  <2>2. stock' \in [Variants -> Nat]
    BY <1>3, <2>1 DEF ExecUpdateStock
  <2>3. log' \subseteq LogRow
    BY <1>3, <2>1 DEF ExecUpdateStock, LogRow
  <2> QED
    BY <1>3, <2>2, <2>3 DEF ExecUpdateStock, RowsConsistent, Consistent
<1>4. CASE ExecUpdateOrder(st) \/ ExecUpdateRefundedAmount(st)
  <2>1. /\ orders' \in [Orders -> OrderRow]
        /\ \A o \in Orders : SameCharge(orders'[o], orders[o])
    BY <1>0, <1>4, OrderUpdates
  <2>2. RowsConsistent'
    BY <2>1 DEF SameCharge, RowsConsistent, Consistent
  <2> QED
    BY <1>4, <2>1, <2>2 DEF ExecUpdateOrder, ExecUpdateRefundedAmount
<1>5. CASE ExecUpdateShippingDetails(st)
  <2>1. /\ st.op = "UpdateShippingDetails" /\ st.order \in Orders
        /\ st.zone \in Zones /\ st.fee \in Nat /\ st.total \in Nat
    BY <1>0, <1>5 DEF ExecUpdateShippingDetails, Statement
  <2>2. Consistent(st.order, st.fee, st.total)
    BY <2>1 DEF Harmless
  <2>3. orders' \in [Orders -> OrderRow]
    BY <1>1, <1>5, <2>1 DEF ExecUpdateShippingDetails, OrderRow
  <2>4. /\ orders'[st.order].fee = st.fee /\ orders'[st.order].total = st.total
        /\ \A o \in Orders \ {st.order} : orders'[o] = orders[o]
    BY <1>1, <1>5, <2>1 DEF ExecUpdateShippingDetails, OrderRow
  <2>5. RowsConsistent'
    BY <1>2, <2>1, <2>2, <2>4 DEF RowsConsistent, Consistent
  <2> QED
    BY <1>5, <2>3, <2>5 DEF ExecUpdateShippingDetails
<1>6. CASE ExecCreateRefund(c, st)
  <2>1. st.order \in Orders /\ st.amount \in Nat \ {0}
    BY <1>0, <1>6 DEF ExecCreateRefund, Statement
  <2>2. refunds' \subseteq RefundRow
    BY <1>6, <2>1 DEF ExecCreateRefund, RefundRow
  <2> QED
    BY <1>6, <2>2 DEF ExecCreateRefund, RowsConsistent, Consistent
<1>7. CASE ExecCreateHistory(c, st)
  <2>1. /\ st.order \in Orders /\ st.from \in OrderStatuses
        /\ st.to \in OrderStatuses /\ st.by \in Handlers
    BY <1>0, <1>7 DEF ExecCreateHistory, Statement
  <2>2. history' \subseteq HistoryRow
    BY <1>7, <2>1 DEF ExecCreateHistory, HistoryRow
  <2> QED
    BY <1>7, <2>2 DEF ExecCreateHistory, RowsConsistent, Consistent
<1> QED
  BY <1>3, <1>4, <1>5, <1>6, <1>7 DEF Exec

-----------------------------------------------------------------------------
(* The invariant *)

LEMMA StoreInit == Init => StoreInv
<1> SUFFICES ASSUME Init PROVE StoreInv
  OBVIOUS
<1>1. \A o \in Orders : /\ orders[o] \in OrderRow
                        /\ orders[o].fee <= orders[o].total
                        /\ orders[o].total - orders[o].fee = Subtotal(orders[o].items)
  BY InitOrdersAssumption DEF Init
<1>2. orders \in [Orders -> OrderRow]
  BY <1>1 DEF Init
<1>3. RowsConsistent
  BY <1>1 DEF RowsConsistent, Consistent
<1>4. /\ todo \in [Calls -> Seq(Statement)]
      /\ todo \in [Calls -> Seq(Harmless)]
  <2>1. << >> \in Seq(Statement) /\ << >> \in Seq(Harmless)
    OBVIOUS
  <2> QED  BY <2>1 DEF Init
<1>5. StoreTypeOK
  BY <1>2, <1>4, InitStockAssumption DEF Init, StoreTypeOK
<1> QED  BY <1>3, <1>4, <1>5 DEF StoreInv

LEMMA HarmlessStatement ==
  /\ Harmless \subseteq Statement
  /\ Seq(Harmless) \subseteq Seq(Statement)
<1>1. Harmless \subseteq Statement
  BY DEF Harmless
<1> QED  BY <1>1

LEMMA StoreStep == StoreInv /\ [Next]_vars => StoreInv'
<1> SUFFICES ASSUME StoreInv, [Next]_vars PROVE StoreInv'
  OBVIOUS
<1>0. /\ StoreTypeOK /\ RowsConsistent
      /\ todo \in [Calls -> Seq(Harmless)]
  BY DEF StoreInv
<1>1. ASSUME NEW c \in Calls, Handle(c)
      PROVE  StoreInv'
  <2>1. PICK S \in Seq(Harmless) : Begin(c, S)
    BY <1>1, HandlersBeginHarmless
  <2>2. /\ UNCHANGED tables
        /\ begun' = begun \union {c}
        /\ todo' = [todo EXCEPT ![c] = S]
    BY <2>1 DEF Begin
  <2>3. Harmless' = Harmless
    BY <2>2, HarmlessUnchanged DEF tables
  <2>4. todo' \in [Calls -> Seq(Harmless)]
    BY <1>0, <2>2
  <2>5. todo' \in [Calls -> Seq(Statement)]
    BY <2>4, HarmlessStatement
  <2>6. StoreTypeOK'
    BY <1>0, <2>2, <2>5 DEF StoreTypeOK, tables
  <2>7. RowsConsistent'
    BY <1>0, <2>2 DEF RowsConsistent, Consistent, tables
  <2>8. todo' \in [Calls -> Seq(Harmless')]
    BY <2>3, <2>4
  <2> QED  BY <2>6, <2>7, <2>8 DEF StoreInv
<1>2. ASSUME NEW c \in Calls, Execute(c)
      PROVE  StoreInv'
  <2> DEFINE st == Head(todo[c])
  <2>1. /\ todo[c] \in Seq(Harmless) /\ todo[c] # << >>
        /\ Exec(c, st)
        /\ todo' = [todo EXCEPT ![c] = Tail(todo[c])]
        /\ begun' = begun
    BY <1>0, <1>2 DEF Execute
  <2>2. st \in Harmless /\ Tail(todo[c]) \in Seq(Harmless)
    BY <2>1, HeadTailProperties
  <2> HIDE DEF st
  <2>3. /\ placed' = placed
        /\ orders' \in [Orders -> OrderRow]
        /\ stock' \in [Variants -> Nat]
        /\ log' \subseteq LogRow
        /\ history' \subseteq HistoryRow
        /\ refunds' \subseteq RefundRow
        /\ RowsConsistent'
    BY <1>0, <2>1, <2>2, ExecTypes
  <2>4. Harmless' = Harmless
    BY <1>0, <2>1, <2>2, HarmlessStatement, ItemsNeverChange, HarmlessUnchanged
  <2>5. todo' \in [Calls -> Seq(Harmless)]
    BY <1>0, <2>1, <2>2
  <2>6. todo' \in [Calls -> Seq(Statement)]
    BY <2>5, HarmlessStatement
  <2>7. StoreTypeOK'
    BY <1>0, <2>1, <2>3, <2>6 DEF StoreTypeOK
  <2>8. todo' \in [Calls -> Seq(Harmless')]
    BY <2>4, <2>5
  <2> QED  BY <2>3, <2>7, <2>8 DEF StoreInv
<1>3. ASSUME NEW c \in Calls, Rollback(c)
      PROVE  StoreInv'
  <2>1. /\ UNCHANGED tables /\ begun' = begun
        /\ todo' = [todo EXCEPT ![c] = << >>]
    BY <1>3 DEF Rollback
  <2>2. Harmless' = Harmless
    BY <2>1, HarmlessUnchanged DEF tables
  <2>3. << >> \in Seq(Harmless)
    OBVIOUS
  <2>4. todo' \in [Calls -> Seq(Harmless)]
    BY <1>0, <2>1, <2>3
  <2>5. todo' \in [Calls -> Seq(Statement)]
    BY <2>4, HarmlessStatement
  <2>6. StoreTypeOK'
    BY <1>0, <2>1, <2>5 DEF StoreTypeOK, tables
  <2>7. RowsConsistent'
    BY <1>0, <2>1 DEF RowsConsistent, Consistent, tables
  <2>8. todo' \in [Calls -> Seq(Harmless')]
    BY <2>2, <2>4
  <2> QED  BY <2>6, <2>7, <2>8 DEF StoreInv
<1>4. CASE UNCHANGED vars
  <2>1. Harmless' = Harmless
    BY <1>4, HarmlessUnchanged DEF vars
  <2> QED
    BY <1>0, <1>4, <2>1 DEF StoreInv, StoreTypeOK, RowsConsistent, Consistent, vars
<1> QED  BY <1>1, <1>2, <1>3, <1>4 DEF Next

(* Whatever requests interleave, the tables keep their types, a row says    *)
(* what its statements made it say, and every list of statements still to   *)
(* run is of statements that keep both.                                    *)
THEOREM StoreInvariant == Spec => []StoreInv
<1> QED  BY StoreInit, StoreStep, PTL DEF Spec

(* Every column keeps its type and stock is never negative, for any number  *)
(* of concurrent administrators and any failing statement.                 *)
THEOREM TypeCorrect == Spec => []TypeOK
<1>1. StoreInv => TypeOK
  BY DEF StoreInv, TypeOK
<1> QED  BY <1>1, StoreInvariant, PTL

(* No interleaving of zone changes, refunds and status changes makes an     *)
(* order's total differ from its items plus its shipping fee.              *)
THEOREM SubtotalNeverDrifts == Spec => []SubtotalPreserved
<1>1. StoreInv => SubtotalPreserved
  BY DEF StoreInv, RowsConsistent, Consistent, SubtotalPreserved
<1> QED  BY <1>1, StoreInvariant, PTL

-----------------------------------------------------------------------------
(* Status changes are backed by their stock movements *)

MoveRow(c, o, i, sign, reason) ==
  [call |-> c, item |-> i, ref |-> o, variant |-> orders[o].items[i].variant,
   change |-> sign * orders[o].items[i].quantity, reason |-> reason]

MoveStatement(o, i, sign, reason) ==
  UpdateStock(o, i, orders[o].items[i].variant,
              sign * orders[o].items[i].quantity, reason)

(* Before its k-th statement, call c will have moved every item of o.      *)
Planned(c, k, o, sign, reason) ==
  \A i \in 1..Len(orders[o].items) :
    \/ MoveRow(c, o, i, sign, reason) \in log
    \/ \E j \in 1..(k - 1) : todo[c][j] = MoveStatement(o, i, sign, reason)

PlannedAt(c, k) ==
  LET st      == todo[c][k]
      effects == GetSideEffects(st.from, st.to)
  IN  st \notin Unrecorded /\ st.from # st.to =>
        /\ "restore_stock" \in effects
             => Planned(c, k, st.order, 1, RestoreReason[st.to])
        /\ "deduct_stock" \in effects
             => Planned(c, k, st.order, -1, "recovery_rededuct")

(* StatusChangesBacked alone is not inductive: a history row about to be    *)
(* written must have its movements in the log or ahead of it in its call.  *)
BackedInv ==
  /\ StatusChangesBacked
  /\ \A c \in Calls : \A k \in 1..Len(todo[c]) : PlannedAt(c, k)

(* The k-th statement of a status change is its stock movement of item k.  *)
LEMMA EffectsMove ==
  ASSUME StoreTypeOK, NEW o \in Orders, NEW to \in OrderStatuses
  PROVE  LET effects == GetSideEffects(orders[o].status, to)
             S       == StatusStatements(o, to)
         IN  \A i \in 1..Len(orders[o].items) :
               /\ "restore_stock" \in effects =>
                    /\ i \in 1..(Len(S) - 1)
                    /\ S[i] = MoveStatement(o, i, 1, RestoreReason[to])
               /\ "deduct_stock" \in effects =>
                    /\ i \in 1..(Len(S) - 1)
                    /\ S[i] = MoveStatement(o, i, -1, "recovery_rededuct")
<1> DEFINE row == orders[o]
           effects == GetSideEffects(row.status, to)
           S == StatusStatements(o, to)
           moves == handleOrderStateSideEffects(o, row, to)
<1>1. row.status \in OrderStatuses /\ row.items \in Seq(Item)
  BY DEF StoreTypeOK, OrderRow
<1>2. /\ Len(S) = Len(moves) + 2 /\ Len(moves) \in Nat
      /\ \A k \in 1..Len(moves) : S[k] = moves[k]
  BY StatusStatementsType, LenProperties
<1>3. /\ effects \in {{}, {"restore_stock"}, {"deduct_stock"},
                      {"sync_payment_paid"}, {"sync_payment_refund"}}
      /\ "restore_stock" \in effects => to \in StockRestoring
  BY <1>1, OneSideEffect
<1>4. CASE effects = {"restore_stock"}
  <2>1. moves = StockStatements(o, row.items, 1, RestoreReason[to])
    BY <1>4 DEF handleOrderStateSideEffects, restoreOrderStock
  <2>2. RestoreReason[to] \in Reasons
    BY <1>3, <1>4, ReasonTypes
  <2>3. /\ Len(moves) = Len(row.items)
        /\ \A i \in 1..Len(row.items) :
             moves[i] = MoveStatement(o, i, 1, RestoreReason[to])
    BY <1>1, <2>1, <2>2, StockStatementsType DEF MoveStatement
  <2> QED  BY <1>2, <1>4, <2>3
<1>5. CASE effects = {"deduct_stock"}
  <2>1. moves = StockStatements(o, row.items, -1, "recovery_rededuct")
    BY <1>5 DEF handleOrderStateSideEffects, deductOrderStock
  <2>2. "recovery_rededuct" \in Reasons
    BY ReasonTypes
  <2>3. /\ Len(moves) = Len(row.items)
        /\ \A i \in 1..Len(row.items) :
             moves[i] = MoveStatement(o, i, -1, "recovery_rededuct")
    BY <1>1, <2>1, <2>2, StockStatementsType DEF MoveStatement
  <2> QED  BY <1>2, <1>5, <2>3
<1> QED  BY <1>3, <1>4, <1>5

LEMMA UnrecordedUnchanged ==
  ASSUME \A o \in Orders : orders'[o].items = orders[o].items
  PROVE  Unrecorded' = Unrecorded
BY HarmlessUnchanged DEF Unrecorded

(* What Unrecorded leaves out names an order that exists. *)
LEMMA RecordedOrder ==
  ASSUME NEW st \in Harmless, st \notin Unrecorded
  PROVE  /\ st.op = "CreateHistory" /\ st.by = "status"
         /\ st.order \in Orders
BY DEF Unrecorded, Harmless, Statement

(* The log only grows and items never change: a plan stays one. *)
LEMMA PlanKept ==
  ASSUME NEW c \in Calls, NEW k \in 1..Len(todo[c]),
         todo[c][k] \in Harmless, PlannedAt(c, k),
         todo'[c] = todo[c], log \subseteq log',
         \A o \in Orders : orders'[o].items = orders[o].items
  PROVE  PlannedAt(c, k)'
<1>1. Unrecorded' = Unrecorded
  BY UnrecordedUnchanged
<1>2. ASSUME NEW o \in Orders, NEW sign, NEW reason, Planned(c, k, o, sign, reason)
      PROVE  Planned(c, k, o, sign, reason)'
  BY <1>2 DEF Planned, MoveRow, MoveStatement
<1> QED
  BY <1>1, <1>2, RecordedOrder DEF PlannedAt

(* Rows already in the history stay backed. *)
LEMMA BackingKept ==
  ASSUME StoreTypeOK, NEW h \in history, StockEffectsDone(h), log \subseteq log',
         \A o \in Orders : orders'[o].items = orders[o].items
  PROVE  StockEffectsDone(h)'
<1>1. h.order \in Orders
  BY DEF StoreTypeOK, HistoryRow
<1> QED
  BY <1>1 DEF StockEffectsDone, Moved

(* The plan of a call that executes its next statement moves up by one: a   *)
(* movement that was first in line is now in the log.                      *)
LEMMA PlanAdvances ==
  ASSUME StoreInv, NEW c \in Calls, Execute(c),
         NEW k \in 1..(Len(todo[c]) - 1), PlannedAt(c, k + 1)
  PROVE  PlannedAt(c, k)'
<1> DEFINE st == Head(todo[c])
<1>1. /\ todo[c] \in Seq(Harmless) /\ todo[c] # << >>
      /\ Exec(c, st) /\ todo'[c] = Tail(todo[c])
  BY DEF StoreInv, Execute
<1>2. /\ Len(todo[c]) \in Nat /\ st = todo[c][1] /\ st \in Harmless
      /\ \A j \in 1..(Len(todo[c]) - 1) : todo'[c][j] = todo[c][j + 1]
  BY <1>1, HeadTailProperties
<1>3. todo[c][k + 1] \in Harmless
  BY <1>1, <1>2, LenProperties
<1>4. \A o \in Orders : orders'[o].items = orders[o].items
  BY <1>1, <1>2, ItemsNeverChange, HarmlessStatement DEF StoreInv
<1>5. Unrecorded' = Unrecorded
  BY <1>4, UnrecordedUnchanged
<1>6. log \subseteq log'
  BY <1>1 DEF Exec, ExecUpdateStock, ExecUpdateOrder, ExecUpdateShippingDetails,
       ExecCreateRefund, ExecUpdateRefundedAmount, ExecCreateHistory
<1>7. ASSUME NEW o \in Orders, NEW sign, NEW reason, Planned(c, k + 1, o, sign, reason)
      PROVE  Planned(c, k, o, sign, reason)'
  <2> SUFFICES ASSUME NEW i \in 1..Len(orders[o].items)
               PROVE  \/ MoveRow(c, o, i, sign, reason)' \in log'
                      \/ \E j \in 1..(k - 1) :
                           todo'[c][j] = MoveStatement(o, i, sign, reason)'
    BY <1>4 DEF Planned
  <2>1. /\ MoveRow(c, o, i, sign, reason)' = MoveRow(c, o, i, sign, reason)
        /\ MoveStatement(o, i, sign, reason)' = MoveStatement(o, i, sign, reason)
    BY <1>4 DEF MoveRow, MoveStatement
  <2>2. CASE MoveRow(c, o, i, sign, reason) \in log
    BY <1>6, <2>1, <2>2
  <2>3. CASE st = MoveStatement(o, i, sign, reason)
    <3>0. st.op = "UpdateStock"
      BY <2>3 DEF MoveStatement, UpdateStock
    <3>1. ExecUpdateStock(c, st)
      BY <1>1, <3>0 DEF Exec, ExecUpdateOrder, ExecUpdateShippingDetails,
           ExecCreateRefund, ExecUpdateRefundedAmount, ExecCreateHistory
    <3>2. MoveRow(c, o, i, sign, reason) \in log'
      BY <2>3, <3>1 DEF MoveRow, MoveStatement, UpdateStock, ExecUpdateStock
    <3> QED  BY <2>1, <3>2
  <2>4. CASE \E j \in 2..k : todo[c][j] = MoveStatement(o, i, sign, reason)
    <3>1. PICK j \in 2..k : todo[c][j] = MoveStatement(o, i, sign, reason)
      BY <2>4
    <3>2. j - 1 \in 1..(k - 1) /\ todo'[c][j - 1] = todo[c][j]
      BY <1>2
    <3> QED  BY <2>1, <3>1, <3>2
  <2> QED  BY <1>2, <1>7, <2>2, <2>3, <2>4 DEF Planned
<1>8. todo'[c][k] = todo[c][k + 1]
  BY <1>2
<1> QED
  BY <1>3, <1>5, <1>7, <1>8, RecordedOrder DEF PlannedAt

(* A history row is written with nothing left ahead of it, so its movements *)
(* are in the log.                                                         *)
LEMMA WrittenBacked ==
  ASSUME StoreInv, NEW c \in Calls, Execute(c), PlannedAt(c, 1),
         \A h \in history : h.by = "status" => StockEffectsDone(h)
  PROVE  StatusChangesBacked'
<1> DEFINE st == Head(todo[c])
<1>1. /\ todo[c] \in Seq(Harmless) /\ todo[c] # << >> /\ Exec(c, st)
  BY DEF StoreInv, Execute
<1>2. st = todo[c][1] /\ st \in Harmless
  BY <1>1, HeadTailProperties
<1>3. \A o \in Orders : /\ orders'[o].items = orders[o].items
                        /\ orders[o].items \in Seq(Item)
  BY <1>1, <1>2, ItemsNeverChange, HarmlessStatement
     DEF StoreInv, StoreTypeOK, OrderRow
<1>4. log \subseteq log'
  BY <1>1 DEF Exec, ExecUpdateStock, ExecUpdateOrder, ExecUpdateShippingDetails,
       ExecCreateRefund, ExecUpdateRefundedAmount, ExecCreateHistory
<1> SUFFICES ASSUME NEW h \in history', h.by = "status"
             PROVE  StockEffectsDone(h)'
  BY DEF StatusChangesBacked
<1>5. CASE h \in history
  BY <1>3, <1>4, <1>5, BackingKept DEF StoreInv
<1>6. CASE h \notin history
  <2>1. ExecCreateHistory(c, st)
    BY <1>1, <1>6 DEF Exec, ExecUpdateStock, ExecUpdateOrder,
         ExecUpdateShippingDetails, ExecCreateRefund, ExecUpdateRefundedAmount
  <2>2. h = [call |-> c, order |-> st.order, from |-> st.from, to |-> st.to,
             by |-> st.by]
    BY <1>6, <2>1 DEF ExecCreateHistory
  <2>3. st \notin Unrecorded
    BY <2>1, <2>2 DEF ExecCreateHistory, Unrecorded
  <2>4. h.call = c /\ h.order = st.order /\ h.from = st.from /\ h.to = st.to
    BY <2>2
  <2>5. h.order \in Orders
    BY <1>2, <2>3, <2>4, RecordedOrder
  <2>6. ASSUME NEW sign, NEW reason, Planned(c, 1, h.order, sign, reason)
        PROVE  Moved(h, sign, reason)'
    <3>1. \A k \in 1..Len(orders[h.order].items) :
            MoveRow(c, h.order, k, sign, reason) \in log
      BY <2>6 DEF Planned
    <3>2. DOMAIN orders[h.order].items = 1..Len(orders[h.order].items)
      BY <1>3, <2>5, LenProperties
    <3> QED
      BY <1>3, <1>4, <2>4, <2>5, <3>1, <3>2 DEF Moved, MoveRow
  <2>7. h.from # h.to =>
          /\ "restore_stock" \in GetSideEffects(h.from, h.to)
               => Planned(c, 1, h.order, 1, RestoreReason[h.to])
          /\ "deduct_stock" \in GetSideEffects(h.from, h.to)
               => Planned(c, 1, h.order, -1, "recovery_rededuct")
    BY <1>2, <2>3, <2>4 DEF PlannedAt
  <2> QED  BY <2>6, <2>7 DEF StockEffectsDone
<1> QED  BY <1>5, <1>6

LEMMA BackedStep == StoreInv /\ BackedInv /\ [Next]_vars => BackedInv'
<1> SUFFICES ASSUME StoreInv, BackedInv, [Next]_vars PROVE BackedInv'
  OBVIOUS
<1>0. /\ StoreTypeOK
      /\ todo \in [Calls -> Seq(Harmless)]
      /\ StatusChangesBacked
      /\ \A c \in Calls : \A k \in 1..Len(todo[c]) : /\ PlannedAt(c, k)
                                                     /\ todo[c][k] \in Harmless
  BY LenProperties DEF StoreInv, BackedInv
<1>1. ASSUME UNCHANGED <<orders, log, history>>
      PROVE  StatusChangesBacked'
  BY <1>0, <1>1 DEF StatusChangesBacked, StockEffectsDone, Moved
<1>2. ASSUME UNCHANGED <<orders, log>>, NEW c \in Calls, todo'[c] = todo[c]
      PROVE  \A k \in 1..Len(todo'[c]) : PlannedAt(c, k)'
  BY <1>0, <1>2, PlanKept
<1>3. ASSUME NEW c \in Calls, Handle(c)
      PROVE  BackedInv'
  <2>1. \E S : Begin(c, S)
    BY <1>3, HandlersBegin
  <2>2. UNCHANGED <<orders, log, history>>
    BY <2>1 DEF Begin, tables
  <2>3. \A d \in Calls \ {c} : todo'[d] = todo[d]
    BY <1>0, <2>1 DEF Begin
  <2>4. Unrecorded' = Unrecorded
    BY <2>2, UnrecordedUnchanged
  <2>5. ASSUME NEW S \in Seq(Unrecorded), Begin(c, S), NEW k \in 1..Len(todo'[c])
        PROVE  PlannedAt(c, k)'
    <3>1. todo'[c] = S
      BY <1>0, <2>5 DEF Begin
    <3>2. todo'[c][k] \in Unrecorded
      BY <2>5, <3>1, LenProperties
    <3> QED  BY <2>4, <3>2 DEF PlannedAt
  <2>6. ASSUME NEW o \in Orders, NEW to \in OrderStatuses,
               Begin(c, StatusStatements(o, to)), NEW k \in 1..Len(todo'[c])
        PROVE  PlannedAt(c, k)'
    <3> DEFINE S == StatusStatements(o, to)
    <3>1. todo'[c] = S
      BY <1>0, <2>6 DEF Begin
    <3>2. /\ Len(S) \in Nat
          /\ \A j \in 1..(Len(S) - 1) : S[j] \in Unrecorded
          /\ S[Len(S)] = CreateHistory(o, orders[o].status, to, "status")
      BY <1>0, StatusStatementsType, LenProperties
    <3>3. \A i \in 1..Len(orders[o].items) :
            /\ "restore_stock" \in GetSideEffects(orders[o].status, to) =>
                 /\ i \in 1..(Len(S) - 1)
                 /\ S[i] = MoveStatement(o, i, 1, RestoreReason[to])
            /\ "deduct_stock" \in GetSideEffects(orders[o].status, to) =>
                 /\ i \in 1..(Len(S) - 1)
                 /\ S[i] = MoveStatement(o, i, -1, "recovery_rededuct")
      BY <1>0, EffectsMove
    <3> HIDE DEF S
    <3>4. CASE k \in 1..(Len(S) - 1)
      BY <2>4, <3>1, <3>2, <3>4 DEF PlannedAt
    <3>5. CASE k = Len(S)
      <4>1. /\ todo'[c][k].from = orders[o].status /\ todo'[c][k].to = to
            /\ todo'[c][k].order = o
        BY <3>1, <3>2, <3>5 DEF CreateHistory
      <4>2. /\ "restore_stock" \in GetSideEffects(orders[o].status, to) =>
                 Planned(c, k, o, 1, RestoreReason[to])'
            /\ "deduct_stock" \in GetSideEffects(orders[o].status, to) =>
                 Planned(c, k, o, -1, "recovery_rededuct")'
        BY <2>2, <3>1, <3>3, <3>5 DEF Planned, MoveStatement
      <4> QED  BY <4>1, <4>2 DEF PlannedAt
    <3> QED  BY <2>6, <3>1, <3>2, <3>4, <3>5
  <2>7. \A k \in 1..Len(todo'[c]) : PlannedAt(c, k)'
    BY <1>3, <2>5, <2>6, HandlersBegin
  <2>8. \A d \in Calls \ {c} : \A k \in 1..Len(todo'[d]) : PlannedAt(d, k)'
    BY <1>2, <2>2, <2>3
  <2> QED  BY <1>1, <2>2, <2>7, <2>8 DEF BackedInv
<1>4. ASSUME NEW c \in Calls, Execute(c)
      PROVE  BackedInv'
  <2>1. /\ todo[c] \in Seq(Harmless) /\ todo[c] # << >>
        /\ Exec(c, Head(todo[c])) /\ todo' = [todo EXCEPT ![c] = Tail(todo[c])]
    BY <1>0, <1>4 DEF Execute
  <2>2. /\ Head(todo[c]) \in Harmless
        /\ Len(todo[c]) \in Nat /\ Len(todo[c]) >= 1
        /\ Len(todo'[c]) = Len(todo[c]) - 1
    BY <1>0, <2>1, HeadTailProperties, LenProperties
  <2>3. \A o \in Orders : orders'[o].items = orders[o].items
    BY <1>0, <2>1, <2>2, ItemsNeverChange, HarmlessStatement
  <2>4. log \subseteq log'
    BY <2>1 DEF Exec, ExecUpdateStock, ExecUpdateOrder, ExecUpdateShippingDetails,
         ExecCreateRefund, ExecUpdateRefundedAmount, ExecCreateHistory
  <2>5. StatusChangesBacked'
    BY <1>0, <1>4, <2>2, WrittenBacked DEF StatusChangesBacked
  <2>6. \A k \in 1..Len(todo'[c]) : PlannedAt(c, k)'
    <3>1. \A k \in 1..(Len(todo[c]) - 1) : PlannedAt(c, k + 1)
      BY <1>0, <2>2
    <3> QED  BY <1>4, <2>2, <3>1, PlanAdvances
  <2>7. \A d \in Calls \ {c} : \A k \in 1..Len(todo'[d]) : PlannedAt(d, k)'
    BY <1>0, <2>1, <2>3, <2>4, PlanKept
  <2> QED  BY <2>5, <2>6, <2>7 DEF BackedInv
<1>5. ASSUME NEW c \in Calls, Rollback(c)
      PROVE  BackedInv'
  <2>1. UNCHANGED <<orders, log, history>> /\ todo' = [todo EXCEPT ![c] = << >>]
    BY <1>5 DEF Rollback, tables
  <2>2. Len(todo'[c]) = 0
    BY <1>0, <2>1
  <2>3. \A d \in Calls \ {c} : \A k \in 1..Len(todo'[d]) : PlannedAt(d, k)'
    BY <1>0, <1>2, <2>1
  <2> QED  BY <1>1, <2>1, <2>2, <2>3 DEF BackedInv
<1>6. CASE UNCHANGED vars
  <2>1. UNCHANGED <<orders, log, history, todo>>
    BY <1>6 DEF vars
  <2> QED  BY <1>1, <1>2, <2>1 DEF BackedInv
<1> QED  BY <1>3, <1>4, <1>5, <1>6 DEF Next

(* However many administrators race and wherever their requests fail, a     *)
(* status change UpdateOrderStatus recorded in the history moved the stock *)
(* of every item it had to: the side effects come before the record.       *)
THEOREM StatusChangesAlwaysBacked == Spec => []StatusChangesBacked
<1>1. Init => BackedInv
  <2>1. ASSUME Init PROVE \A c \in Calls : Len(todo[c]) = 0
    BY <2>1 DEF Init
  <2> QED  BY <2>1 DEF Init, BackedInv, StatusChangesBacked
<1>2. BackedInv => StatusChangesBacked
  BY DEF BackedInv
<1> QED
  BY <1>1, <1>2, StoreInvariant, BackedStep, PTL DEF Spec

-----------------------------------------------------------------------------
(* The lists the handlers leave: a refund's two statements, then one stock  *)
(* movement per item, then statements that touch neither stock nor refunds. *)

Plain ==
  {st \in Statement :
     st.op \notin {"UpdateStock", "CreateRefund", "UpdateRefundedAmount"}}

IsRefund(S) ==
  \E o, a : S[1] = CreateRefund(o, a) /\ S[2] = UpdateRefundedAmount(o, a)

(* S starts with m statements of a refund and g stock movements.           *)
Listed(S, m, g) ==
  /\ S \in Seq(Statement) /\ g \in Nat /\ m + g <= Len(S)
  /\ m = 0 \/ (m = 2 /\ IsRefund(S))
  /\ \A k \in 1..g : S[m + k].op = "UpdateStock" /\ S[m + k].item = k
  /\ \A k \in (m + g + 1)..Len(S) : S[k] \in Plain

(* No two stock movements of a call are of the same item.                   *)
OneMovePerItem(S) ==
  \A j, k \in 1..Len(S) :
    S[j].op = "UpdateStock" /\ S[k].op = "UpdateStock" /\ S[j].item = S[k].item => j = k

(* A refund is inserted first, and then added to its order's total.         *)
RefundFirst(S) ==
  \A k \in 1..Len(S) :
    /\ S[k].op = "CreateRefund" =>
         /\ k = 1 /\ Len(S) > 1
         /\ S[2] = UpdateRefundedAmount(S[1].order, S[1].amount)
    /\ S[k].op = "UpdateRefundedAmount" => k = 1 \/ (k = 2 /\ S[1].op = "CreateRefund")

(* What a list is when its call begins.                                    *)
Begun(S) ==
  /\ S \in Seq(Statement) /\ S # <<>>
  /\ OneMovePerItem(S) /\ RefundFirst(S)
  /\ S[1].op # "UpdateRefundedAmount"

LEMMA PlainStatements ==
  ASSUME NEW o \in Orders
  PROVE  /\ \A s \in OrderStatuses : UpdateStatus(o, s) \in Plain
         /\ \A p \in PaymentStatuses : UpdatePayment(o, p) \in Plain
         /\ \A a \in Nat : UpdatePaidAmount(o, a) \in Plain
         /\ \A f, t \in OrderStatuses, h \in Handlers : CreateHistory(o, f, t, h) \in Plain
         /\ \A z \in Zones, f, t \in Nat : UpdateShippingDetails(o, z, f, t) \in Plain
BY DEF Plain, Statement, UpdateStatus, UpdatePayment, UpdatePaidAmount, CreateHistory,
       UpdateShippingDetails

LEMMA ListedAppend ==
  ASSUME NEW S, NEW m \in Nat, NEW g, Listed(S, m, g), NEW t \in Seq(Plain)
  PROVE  Listed(S \o t, m, g)
<1>1. S \in Seq(Statement) /\ g \in Nat /\ m + g <= Len(S) /\ Len(S) \in Nat
  BY LenProperties DEF Listed
<1>2. Plain \subseteq Statement /\ t \in Seq(Statement)
  BY DEF Plain
<1>3. Len(t) \in Nat /\ \A k \in 1..Len(t) : t[k] \in Plain
  BY LenProperties, ElementOfSeq
<1>4. /\ S \o t \in Seq(Statement) /\ Len(S \o t) = Len(S) + Len(t)
      /\ \A k \in 1..(Len(S) + Len(t)) :
           (S \o t)[k] = IF k <= Len(S) THEN S[k] ELSE t[k - Len(S)]
  BY <1>1, <1>2, ConcatProperties
<1> DEFINE all == S \o t
           a == Len(S)
           b == Len(t)
<1>5. /\ all \in Seq(Statement) /\ Len(all) = a + b /\ a \in Nat /\ b \in Nat
      /\ \A k \in 1..(a + b) : all[k] = IF k <= a THEN S[k] ELSE t[k - a]
  BY <1>1, <1>3, <1>4
<1>6. /\ \A k \in 1..b : t[k] \in Plain
      /\ g \in Nat /\ m + g <= a
      /\ m = 0 \/ (m = 2 /\ IsRefund(S))
      /\ \A k \in 1..g : S[m + k].op = "UpdateStock" /\ S[m + k].item = k
      /\ \A k \in (m + g + 1)..a : S[k] \in Plain
  BY <1>3 DEF Listed
<1> HIDE DEF all, a, b
<1>7. /\ g \in Nat /\ m + g <= Len(all)
      /\ \A k \in 1..g : m + k \in 1..(a + b) /\ m + k <= a
      /\ \A k \in (m + g + 1)..Len(all) : k \in 1..(a + b) /\ (k > a => k - a \in 1..b)
      /\ m = 2 => 1 \in 1..(a + b) /\ 2 \in 1..(a + b) /\ 1 <= a /\ 2 <= a
  BY <1>5, <1>6
<1>8. \A k \in 1..g : all[m + k].op = "UpdateStock" /\ all[m + k].item = k
  BY <1>5, <1>6, <1>7
<1>9. \A k \in (m + g + 1)..Len(all) : all[k] \in Plain
  <2> SUFFICES ASSUME NEW k \in (m + g + 1)..Len(all) PROVE all[k] \in Plain
    OBVIOUS
  <2>1. CASE k <= a
    BY <1>5, <1>6, <1>7, <2>1
  <2>2. CASE k > a
    <3>1. k \in 1..(a + b) /\ k - a \in 1..b /\ ~(k <= a)
      BY <1>5, <1>7, <2>2
    <3>2. all[k] = t[k - a]
      BY <1>5, <3>1
    <3> QED  BY <1>6, <3>1, <3>2
  <2>3. k \in Int /\ a \in Int
    BY <1>5
  <2>4. k <= a \/ k > a
    BY <2>3
  <2> QED  BY <2>1, <2>2, <2>4
<1>10. m = 0 \/ (m = 2 /\ IsRefund(all))
  BY <1>5, <1>6, <1>7 DEF IsRefund
<1> QED  BY <1>5, <1>7, <1>8, <1>9, <1>10 DEF Listed, all

LEMMA ListedBegun ==
  ASSUME NEW S, NEW m, NEW g, Listed(S, m, g), S # <<>>
  PROVE  Begun(S)
<1> DEFINE n == Len(S)
<1>1. /\ S \in Seq(Statement) /\ n \in Nat \ {0} /\ g \in Nat /\ m + g <= n
      /\ m \in {0, 2}
      /\ \A k \in 1..g : S[m + k].op = "UpdateStock" /\ S[m + k].item = k
      /\ \A k \in (m + g + 1)..n : S[k] \in Plain
  <2>1. S \in Seq(Statement)
    BY DEF Listed
  <2>2. n \in Nat \ {0}
    BY <2>1, LenProperties, EmptySeq
  <2> QED  BY <2>1, <2>2 DEF Listed
<1>2. /\ m = 2 => /\ S[1].op = "CreateRefund" /\ S[2].op = "UpdateRefundedAmount"
                  /\ S[2] = UpdateRefundedAmount(S[1].order, S[1].amount)
  <2> SUFFICES ASSUME m = 2
               PROVE  /\ S[1].op = "CreateRefund" /\ S[2].op = "UpdateRefundedAmount"
                      /\ S[2] = UpdateRefundedAmount(S[1].order, S[1].amount)
    OBVIOUS
  <2>1. PICK o, a : S[1] = CreateRefund(o, a) /\ S[2] = UpdateRefundedAmount(o, a)
    BY DEF Listed, IsRefund
  <2> QED  BY <2>1 DEF CreateRefund, UpdateRefundedAmount
<1>3. \A st \in Plain : /\ st.op # "UpdateStock" /\ st.op # "CreateRefund"
                        /\ st.op # "UpdateRefundedAmount"
  BY DEF Plain
<1> HIDE DEF n
<1>4. \A k \in 1..n : \/ k <= m /\ m = 2 /\ k \in {1, 2}
                      \/ k - m \in 1..g /\ S[k].op = "UpdateStock" /\ S[k].item = k - m
                      \/ k \in (m + g + 1)..n /\ S[k] \in Plain
  <2> SUFFICES ASSUME NEW k \in 1..n
               PROVE  \/ k <= m /\ m = 2 /\ k \in {1, 2}
                      \/ k - m \in 1..g /\ S[k].op = "UpdateStock" /\ S[k].item = k - m
                      \/ k \in (m + g + 1)..n /\ S[k] \in Plain
    OBVIOUS
  <2>1. \/ k <= m /\ m = 2 /\ k \in {1, 2}
        \/ k - m \in 1..g /\ m + (k - m) = k
        \/ k \in (m + g + 1)..n
    BY <1>1
  <2> QED  BY <1>1, <2>1
<1>5. OneMovePerItem(S)
  <2>1. \A k \in 1..n : S[k].op = "UpdateStock" => k \in Int /\ S[k].item = k - m
    BY <1>2, <1>3, <1>4
  <2> QED  BY <1>1, <2>1 DEF OneMovePerItem, n
<1>6. RefundFirst(S)
  <2>1. \A k \in 1..n : S[k].op = "CreateRefund" => k = 1 /\ m = 2
    BY <1>2, <1>3, <1>4
  <2>2. \A k \in 1..n : S[k].op = "UpdateRefundedAmount" => k = 2 /\ m = 2
    BY <1>2, <1>3, <1>4
  <2>3. m = 2 => n > 1
    BY <1>1
  <2> QED  BY <1>2, <2>1, <2>2, <2>3 DEF RefundFirst, n
<1>7. S[1].op # "UpdateRefundedAmount"
  <2>1. 1 \in 1..n
    BY <1>1
  <2>2. m # 2 => S[1].op = "UpdateStock" \/ S[1] \in Plain
    BY <1>1, <1>4, <2>1
  <2> QED  BY <1>2, <1>3, <2>2
<1> QED  BY <1>1, <1>5, <1>6, <1>7 DEF Begun

LEMMA ListedMoney ==
  ASSUME NEW G, NEW g, Listed(G, 0, g), NEW o \in Orders, NEW a \in Nat \ {0}
  PROVE  Listed(<<CreateRefund(o, a), UpdateRefundedAmount(o, a)>> \o G, 2, g)
<1> DEFINE money == <<CreateRefund(o, a), UpdateRefundedAmount(o, a)>>
           all == money \o G
           b == Len(G)
<1>1. /\ G \in Seq(Statement) /\ g \in Nat /\ b \in Nat /\ g <= b
      /\ \A k \in 1..g : G[k].op = "UpdateStock" /\ G[k].item = k
      /\ \A k \in (g + 1)..b : G[k] \in Plain
  <2>1. G \in Seq(Statement)
    BY DEF Listed
  <2>2. b \in Nat
    BY <2>1, LenProperties
  <2>3. g \in Nat /\ 0 + g = g /\ \A k \in 1..g : 0 + k = k
    BY DEF Listed
  <2> QED  BY <2>1, <2>2, <2>3 DEF Listed
<1>2. /\ money \in Seq(Statement) /\ Len(money) = 2
      /\ money[1] = CreateRefund(o, a) /\ money[2] = UpdateRefundedAmount(o, a)
  <2>1. CreateRefund(o, a) \in Statement /\ UpdateRefundedAmount(o, a) \in Statement
    BY DEF CreateRefund, UpdateRefundedAmount, Statement
  <2> QED  BY <2>1
<1> HIDE DEF money
<1>3. /\ all \in Seq(Statement) /\ Len(all) = Len(money) + Len(G)
      /\ \A k \in 1..(Len(money) + Len(G)) :
           all[k] = IF k <= Len(money) THEN money[k] ELSE G[k - Len(money)]
  BY <1>1, <1>2, ConcatProperties
<1>4. /\ all \in Seq(Statement) /\ Len(all) = 2 + b
      /\ \A k \in 1..(2 + b) : all[k] = IF k <= 2 THEN money[k] ELSE G[k - 2]
  BY <1>2, <1>3
<1> HIDE DEF all, b
<1>5. 1 \in 1..(2 + b) /\ 2 \in 1..(2 + b) /\ 2 + g <= 2 + b
  BY <1>1
<1>6. IsRefund(all)
  <2>1. all[1] = money[1] /\ all[2] = money[2]
    BY <1>4, <1>5
  <2> QED  BY <1>2, <2>1 DEF IsRefund
<1>7. ASSUME NEW k \in 1..g PROVE all[2 + k].op = "UpdateStock" /\ all[2 + k].item = k
  <2>1. 2 + k \in 1..(2 + b) /\ ~(2 + k <= 2) /\ (2 + k) - 2 = k
    BY <1>1
  <2>2. all[2 + k] = G[k]
    BY <1>4, <2>1
  <2> QED  BY <1>1, <2>2
<1>8. ASSUME NEW k \in (2 + g + 1)..Len(all) PROVE all[k] \in Plain
  <2>1. k \in 1..(2 + b) /\ ~(k <= 2) /\ k - 2 \in (g + 1)..b
    BY <1>1, <1>4
  <2>2. all[k] = G[k - 2]
    BY <1>4, <2>1
  <2> QED  BY <1>1, <2>1, <2>2
<1> QED  BY <1>1, <1>4, <1>5, <1>6, <1>7, <1>8 DEF Listed, all, money

LEMMA ListedMoves ==
  ASSUME NEW o \in Orders, NEW items \in Seq(Item), NEW sign \in {1, -1},
         NEW reason \in Reasons
  PROVE  Listed(StockStatements(o, items, sign, reason), 0, Len(items))
<1> DEFINE S == StockStatements(o, items, sign, reason)
           n == Len(items)
<1>1. /\ S \in Seq(Statement) /\ Len(S) = n /\ n \in Nat
      /\ \A i \in 1..n : S[i] = UpdateStock(o, i, items[i].variant, sign * items[i].quantity, reason)
  <2>1. S \in Seq(Unrecorded)
    BY StockStatementsType
  <2>2. Unrecorded \subseteq Statement
    BY DEF Unrecorded, Harmless
  <2> QED  BY <2>1, <2>2, StockStatementsType, LenProperties
<1> HIDE DEF S, n
<1>2. \A i \in 1..n : 0 + i = i /\ S[i].op = "UpdateStock" /\ S[i].item = i
  BY <1>1 DEF UpdateStock
<1>3. 0 + n <= Len(S) /\ \A k \in (0 + n + 1)..Len(S) : FALSE
  BY <1>1
<1> QED  BY <1>1, <1>2, <1>3 DEF Listed, S, n

LEMMA ListedNothing == Listed(<<>>, 0, 0)
<1>1. <<>> \in Seq(Statement) /\ Len(<<>>) = 0
  BY EmptySeq
<1> QED  BY <1>1 DEF Listed

(* Every request leaves one of these lists.                                 *)
LEMMA HandlersListed ==
  ASSUME StoreInv, NEW c \in Calls, Handle(c)
  PROVE  \E S : Begin(c, S) /\ Begun(S)
<1>0. placed \subseteq Orders /\ orders \in [Orders -> OrderRow]
  BY DEF StoreInv, StoreTypeOK
<1>1. ASSUME NEW t \in Seq(Plain), t # <<>> PROVE Begun(t)
  <2>1. t \in Seq(Statement) /\ Len(t) \in Nat /\ \A k \in 1..Len(t) : t[k] \in Plain
    <3>1. Plain \subseteq Statement
      BY DEF Plain
    <3> QED  BY <1>1, <3>1, LenProperties, ElementOfSeq
  <2>2. Listed(t, 0, 0)
    BY <2>1 DEF Listed
  <2> QED  BY <1>1, <2>2, ListedBegun
<1>2. ASSUME NEW S, NEW m \in Nat, NEW g, Listed(S, m, g), NEW t \in Seq(Plain), t # <<>>
      PROVE  Begun(S \o t)
  <2>1. Listed(S \o t, m, g)
    BY <1>2, ListedAppend
  <2>2. S \o t # <<>>
    <3>1. Plain \subseteq Statement
      BY DEF Plain
    <3>2. S \in Seq(Statement) /\ t \in Seq(Statement)
      BY <1>2, <3>1 DEF Listed
    <3>3. Len(S \o t) = Len(S) + Len(t) /\ Len(S) \in Nat /\ Len(t) \in Nat /\ Len(t) # 0
      BY <1>2, <3>2, ConcatProperties, LenProperties, EmptySeq
    <3> QED  BY <3>3
  <2> QED  BY <2>1, <2>2, ListedBegun
<1>3. ASSUME NEW o \in Orders, NEW to \in OrderStatuses, UpdateOrderStatus(c, o, to)
      PROVE  \E S : Begin(c, S) /\ Begun(S)
  <2> DEFINE row == orders[o]
             effects == GetSideEffects(row.status, to)
             moves == handleOrderStateSideEffects(o, row, to)
             tail == <<UpdateStatus(o, to), CreateHistory(o, row.status, to, "status")>>
  <2>1. row.status \in OrderStatuses /\ row.total \in Nat /\ row.items \in Seq(Item)
    BY <1>0 DEF OrderRow
  <2>2. tail \in Seq(Plain) /\ tail # <<>>
    <3>1. "status" \in Handlers
      BY DEF Handlers
    <3>2. UpdateStatus(o, to) \in Plain /\ CreateHistory(o, row.status, to, "status") \in Plain
      BY <2>1, <3>1, PlainStatements
    <3> QED  BY <3>2
  <2>3. Begin(c, moves \o tail)
    BY <1>3 DEF UpdateOrderStatus
  <2>4. /\ effects \in {{}, {"restore_stock"}, {"deduct_stock"},
                        {"sync_payment_paid"}, {"sync_payment_refund"}}
        /\ "restore_stock" \in effects => to \in StockRestoring
    BY <2>1, OneSideEffect
  <2>5. CASE effects = {"restore_stock"}
    <3>1. moves = StockStatements(o, row.items, 1, RestoreReason[to])
      BY <2>5 DEF handleOrderStateSideEffects, restoreOrderStock
    <3>2. RestoreReason[to] \in Reasons
      BY <2>4, <2>5, ReasonTypes
    <3>3. Listed(moves, 0, Len(row.items))
      BY <2>1, <3>1, <3>2, ListedMoves
    <3> HIDE DEF moves, tail
    <3> QED  BY <1>2, <2>2, <2>3, <3>3
  <2>6. CASE effects = {"deduct_stock"}
    <3>1. moves = StockStatements(o, row.items, -1, "recovery_rededuct")
      BY <2>6 DEF handleOrderStateSideEffects, deductOrderStock
    <3>2. Listed(moves, 0, Len(row.items))
      BY <2>1, <3>1, ReasonTypes, ListedMoves
    <3> HIDE DEF moves, tail
    <3> QED  BY <1>2, <2>2, <2>3, <3>2
  <2>7. CASE effects \in {{}, {"sync_payment_paid"}, {"sync_payment_refund"}}
    <3>1. /\ UpdatePayment(o, "paid") \in Plain /\ UpdatePaidAmount(o, row.total) \in Plain
          /\ UpdatePayment(o, "refunded") \in Plain
      BY <2>1, PlainStatements, StatusTypes
    <3>2. /\ <<UpdatePayment(o, "paid"), UpdatePaidAmount(o, row.total)>> \in Seq(Plain)
          /\ <<UpdatePayment(o, "refunded")>> \in Seq(Plain) /\ <<>> \in Seq(Plain)
      BY <3>1
    <3>3. \/ moves = <<UpdatePayment(o, "paid"), UpdatePaidAmount(o, row.total)>>
          \/ moves = <<UpdatePayment(o, "refunded")>>
          \/ moves = <<>>
      BY <2>7 DEF handleOrderStateSideEffects
    <3>4. moves \in Seq(Plain)
      BY <3>2, <3>3
    <3> HIDE DEF moves, tail
    <3>5. Len(moves \o tail) = Len(moves) + Len(tail) /\ moves \o tail \in Seq(Plain)
      BY <2>2, <3>4, ConcatProperties
    <3>6. Len(moves) \in Nat /\ Len(tail) \in Nat /\ Len(tail) # 0
      BY <2>2, <3>4, LenProperties, EmptySeq
    <3>7. moves \o tail # <<>>
      BY <3>5, <3>6
    <3> QED  BY <1>1, <2>3, <3>5, <3>7
  <2> QED  BY <2>4, <2>5, <2>6, <2>7
<1>4. ASSUME NEW o \in Orders, VerifyOrderPayment(c, o)
      PROVE  \E S : Begin(c, S) /\ Begun(S)
  <2> DEFINE row == orders[o]
             payment == IF row.preorder THEN "partial_paid" ELSE "paid"
             S == <<UpdateStatus(o, "processing"), UpdatePayment(o, payment),
                    CreateHistory(o, row.status, "processing", "verify")>>
  <2>1. row.status \in OrderStatuses /\ "verify" \in Handlers
    BY <1>0 DEF OrderRow, Handlers
  <2>2. /\ UpdateStatus(o, "processing") \in Plain /\ UpdatePayment(o, payment) \in Plain
        /\ CreateHistory(o, row.status, "processing", "verify") \in Plain
    BY <2>1, PlainStatements, StatusTypes
  <2>3. S \in Seq(Plain) /\ S # <<>>
    BY <2>2
  <2> QED  BY <1>1, <1>4, <2>3 DEF VerifyOrderPayment
<1>5. ASSUME NEW o \in Orders, NEW p \in PaymentStatuses, UpdatePaymentStatus(c, o, p)
      PROVE  \E S : Begin(c, S) /\ Begun(S)
  <2> DEFINE status == orders[o].status
             S == <<UpdatePayment(o, p), CreateHistory(o, status, status, "payment")>>
  <2>1. status \in OrderStatuses /\ "payment" \in Handlers
    BY <1>0 DEF OrderRow, Handlers
  <2>2. UpdatePayment(o, p) \in Plain /\ CreateHistory(o, status, status, "payment") \in Plain
    BY <2>1, PlainStatements
  <2>3. S \in Seq(Plain) /\ S # <<>>
    BY <2>2
  <2> QED  BY <1>1, <1>5, <2>3 DEF UpdatePaymentStatus
<1>6. ASSUME NEW o \in Orders, NEW a \in Amounts, NEW restock \in BOOLEAN,
             ProcessRefund(c, o, a, restock)
      PROVE  \E S : Begin(c, S) /\ Begun(S)
  <2> DEFINE row == orders[o]
             isFull == restock /\ a >= row.paid - row.refunded
             money  == <<CreateRefund(o, a), UpdateRefundedAmount(o, a)>>
             goods  == IF restock THEN restoreOrderStock(o, row, "refund_restock")
                       ELSE <<>>
             status == IF isFull THEN <<UpdateStatus(o, "refunded"),
                                        UpdatePayment(o, "refunded")>>
                       ELSE <<>>
             entry  == <<CreateHistory(o, row.status,
                                       IF isFull THEN "refunded" ELSE row.status,
                                       "refund")>>
  <2>1. /\ row.status \in OrderStatuses /\ row.items \in Seq(Item) /\ "refund" \in Handlers
        /\ a \in Nat \ {0}
    BY <1>0, AmountsAssumption DEF OrderRow, Handlers
  <2>2. \E g : Listed(goods, 0, g)
    <3>1. restoreOrderStock(o, row, "refund_restock")
            = StockStatements(o, row.items, 1, "refund_restock")
      BY DEF restoreOrderStock
    <3>2. Listed(restoreOrderStock(o, row, "refund_restock"), 0, Len(row.items))
      BY <2>1, <3>1, ReasonTypes, ListedMoves
    <3> QED  BY <3>2, ListedNothing
  <2>3. PICK g : Listed(goods, 0, g)
    BY <2>2
  <2>4. status \in Seq(Plain)
    <3>1. UpdateStatus(o, "refunded") \in Plain /\ UpdatePayment(o, "refunded") \in Plain
      BY PlainStatements, StatusTypes
    <3>2. /\ <<UpdateStatus(o, "refunded"), UpdatePayment(o, "refunded")>> \in Seq(Plain)
          /\ <<>> \in Seq(Plain)
      BY <3>1
    <3> QED  BY <3>2
  <2>5. entry \in Seq(Plain) /\ entry # <<>>
    <3>1. CreateHistory(o, row.status, IF isFull THEN "refunded" ELSE row.status,
                        "refund") \in Plain
      BY <2>1, PlainStatements, StatusTypes
    <3> QED  BY <3>1
  <2>6. Begin(c, ((money \o goods) \o status) \o entry)
    BY <1>6 DEF ProcessRefund
  <2>7. Listed(money \o goods, 2, g)
    BY <2>1, <2>3, ListedMoney
  <2> HIDE DEF money, goods, status, entry
  <2>8. Listed((money \o goods) \o status, 2, g)
    BY <2>4, <2>7, ListedAppend
  <2> QED  BY <1>2, <2>5, <2>6, <2>8
<1>7. ASSUME NEW o \in Orders, NEW z \in Zones, UpdateShippingZone(c, o, z)
      PROVE  \E S : Begin(c, S) /\ Begun(S)
  <2> DEFINE row == orders[o]
             total == row.total + (ZoneCost[z] - row.fee)
             S == <<UpdateShippingDetails(o, z, ZoneCost[z], total),
                    CreateHistory(o, row.status, row.status, "zone")>>
  <2>1. /\ row.status \in OrderStatuses /\ row.total \in Nat /\ row.fee \in Nat
        /\ ZoneCost[z] \in Nat /\ "zone" \in Handlers
    BY <1>0, ZoneCostAssumption DEF OrderRow, Handlers
  <2>2. row.fee <= row.total
    BY DEF StoreInv, RowsConsistent, Consistent
  <2>3. total \in Nat
    BY <2>1, <2>2
  <2>4. /\ UpdateShippingDetails(o, z, ZoneCost[z], total) \in Plain
        /\ CreateHistory(o, row.status, row.status, "zone") \in Plain
    BY <2>1, <2>3, PlainStatements
  <2>5. S \in Seq(Plain) /\ S # <<>>
    BY <2>4
  <2> QED  BY <1>1, <1>7, <2>5 DEF UpdateShippingZone
<1>8. ASSUME NEW v \in Variants, NEW d \in Adjustments, AdjustStock(c, v, d)
      PROVE  \E S : Begin(c, S) /\ Begun(S)
  <2> DEFINE st == UpdateStock(Manual, 0, v, d, "manual")
             S == <<st>>
  <2>1. st \in Statement /\ st.op = "UpdateStock"
    BY AdjustmentsAssumption, ReasonTypes DEF Statement, UpdateStock, Refs
  <2> HIDE DEF st
  <2>2. S \in Seq(Statement) /\ S # <<>> /\ Len(S) = 1 /\ S[1] = st
    BY <2>1
  <2> HIDE DEF S
  <2>3. Begun(S)
    BY <2>1, <2>2 DEF Begun, OneMovePerItem, RefundFirst
  <2>4. Begin(c, S)
    BY <1>8 DEF AdjustStock, S, st
  <2> QED  BY <2>3, <2>4
<1> QED  BY <1>0, <1>3, <1>4, <1>5, <1>6, <1>7, <1>8 DEF Handle

-----------------------------------------------------------------------------
(* The calls in flight *)

CallsInv ==
  /\ IsFiniteSet(InFlight) /\ InFlight \subseteq begun
  /\ \A c \in Calls : OneMovePerItem(todo[c]) /\ RefundFirst(todo[c])

(* What is left of such a list when its first statement has been executed.  *)
LEMMA Advanced ==
  ASSUME NEW s \in Seq(Statement), s # <<>>, OneMovePerItem(s), RefundFirst(s)
  PROVE  LET t == Tail(s)
         IN  /\ Len(t) = Len(s) - 1 /\ \A k \in 1..Len(t) : t[k] = s[k + 1] /\ k + 1 \in 1..Len(s)
             /\ Head(s) = s[1] /\ 1 \in 1..Len(s)
             /\ OneMovePerItem(t) /\ RefundFirst(t)
             /\ t # <<>> => /\ Head(t) = s[2] /\ Head(t).op # "CreateRefund"
                            /\ Head(t).op = "UpdateRefundedAmount" => s[1].op = "CreateRefund"
             /\ s[1].op = "CreateRefund" =>
                  t # <<>> /\ Head(t) = UpdateRefundedAmount(s[1].order, s[1].amount)
<1> DEFINE t == Tail(s)
           n == Len(s)
           m == Len(t)
<1>1. /\ n \in Nat \ {0} /\ m = n - 1 /\ t \in Seq(Statement)
      /\ \A k \in 1..m : t[k] = s[k + 1]
      /\ Head(s) = s[1]
  <2>1. n \in Nat /\ n # 0
    BY LenProperties, EmptySeq
  <2> QED  BY <2>1, HeadTailProperties
<1>2. t # <<>> => Head(t) = t[1] /\ m \in Nat \ {0}
  <2>1. m \in Nat /\ (m = 0 => t = <<>>)
    BY <1>1, LenProperties, EmptySeq
  <2> QED  BY <1>1, <2>1, HeadTailProperties
<1>3. m = 0 => t = <<>>
  BY <1>1, EmptySeq
<1> HIDE DEF t, n, m
<1>4. \A k \in 1..m : k + 1 \in 1..n /\ k + 1 # 1 /\ (k + 1 = 2 => k = 1) /\ 1 \in 1..n
  BY <1>1
<1>5. OneMovePerItem(t)
  <2> SUFFICES ASSUME NEW j \in 1..m, NEW k \in 1..m, t[j].op = "UpdateStock",
                      t[k].op = "UpdateStock", t[j].item = t[k].item
               PROVE  j = k
    BY DEF OneMovePerItem, m
  <2>1. t[j] = s[j + 1] /\ t[k] = s[k + 1] /\ j + 1 \in 1..n /\ k + 1 \in 1..n
    BY <1>1, <1>4
  <2>2. j + 1 = k + 1
    BY <2>1 DEF OneMovePerItem, n
  <2> QED  BY <2>2
<1>6. \A k \in 1..m : /\ t[k].op # "CreateRefund"
                      /\ t[k].op = "UpdateRefundedAmount" => k = 1 /\ s[1].op = "CreateRefund"
  BY <1>1, <1>4 DEF RefundFirst, n
<1>7. RefundFirst(t)
  BY <1>6 DEF RefundFirst, m
<1>8. t # <<>> => /\ Head(t) = s[2] /\ Head(t).op # "CreateRefund"
                  /\ Head(t).op = "UpdateRefundedAmount" => s[1].op = "CreateRefund"
  <2> SUFFICES ASSUME t # <<>>
               PROVE  /\ Head(t) = s[2] /\ Head(t).op # "CreateRefund"
                      /\ Head(t).op = "UpdateRefundedAmount" => s[1].op = "CreateRefund"
    OBVIOUS
  <2>1. 1 \in 1..m /\ Head(t) = t[1] /\ t[1] = s[1 + 1]
    BY <1>1, <1>2
  <2> QED  BY <1>6, <2>1
<1>9. s[1].op = "CreateRefund" =>
        t # <<>> /\ Head(t) = UpdateRefundedAmount(s[1].order, s[1].amount)
  <2> SUFFICES ASSUME s[1].op = "CreateRefund"
               PROVE  t # <<>> /\ Head(t) = UpdateRefundedAmount(s[1].order, s[1].amount)
    OBVIOUS
  <2>1. 1 \in 1..n
    BY <1>1
  <2>2. n > 1 /\ s[2] = UpdateRefundedAmount(s[1].order, s[1].amount)
    BY <2>1 DEF RefundFirst, n
  <2>3. m # 0
    BY <1>1, <2>2
  <2>4. t # <<>>
    BY <2>3 DEF m
  <2> QED  BY <1>8, <2>2, <2>4
<1>10. /\ Len(t) = Len(s) - 1 /\ \A k \in 1..Len(t) : t[k] = s[k + 1] /\ k + 1 \in 1..Len(s)
       /\ Head(s) = s[1] /\ 1 \in 1..Len(s)
  <2>1. 1 \in 1..n
    BY <1>1
  <2> QED  BY <1>1, <1>4, <2>1 DEF n, m
<1> QED  BY <1>5, <1>7, <1>8, <1>9, <1>10 DEF t

(* What the three kinds of steps do to the calls.                           *)
LEMMA Advance ==
  ASSUME StoreInv, CallsInv, NEW c \in Calls, Execute(c)
  PROVE  /\ todo[c] \in Seq(Statement) /\ todo[c] # <<>> /\ c \in InFlight
         /\ Exec(c, todo[c][1]) /\ todo[c][1] \in Statement /\ Head(todo[c]) = todo[c][1]
         /\ todo'[c] = Tail(todo[c]) /\ begun' = begun
         /\ \A d \in Calls : d # c => todo'[d] = todo[d]
         /\ InFlight' \subseteq InFlight
<1>1. /\ todo \in [Calls -> Seq(Statement)] /\ todo[c] # <<>> /\ Exec(c, Head(todo[c]))
      /\ todo' = [todo EXCEPT ![c] = Tail(todo[c])] /\ begun' = begun
  BY DEF StoreInv, StoreTypeOK, Execute
<1>2. Head(todo[c]) = todo[c][1] /\ Head(todo[c]) \in Statement
  <2>1. todo[c] \in Seq(Statement)
    BY <1>1
  <2> QED  BY <1>1, <2>1, HeadTailProperties
<1>3. todo'[c] = Tail(todo[c]) /\ \A d \in Calls : d # c => todo'[d] = todo[d]
  BY <1>1
<1>4. c \in InFlight /\ InFlight' \subseteq InFlight
  BY <1>1, <1>3 DEF InFlight
<1> QED  BY <1>1, <1>2, <1>3, <1>4

LEMMA Starts ==
  ASSUME StoreInv, CallsInv, NEW c \in Calls, Handle(c)
  PROVE  /\ UNCHANGED <<placed, orders, stock, log, history, refunds>>
         /\ c \notin begun /\ begun' = begun \union {c} /\ Begun(todo'[c]) /\ c \notin InFlight
         /\ \A d \in Calls : d # c => todo'[d] = todo[d]
         /\ InFlight' \subseteq InFlight \union {c}
<1>1. PICK S : Begin(c, S) /\ Begun(S)
  BY HandlersListed
<1>2. /\ todo' = [todo EXCEPT ![c] = S] /\ c \notin begun /\ begun' = begun \union {c}
      /\ UNCHANGED tables
  BY <1>1 DEF Begin
<1>3. todo'[c] = S /\ \A d \in Calls : d # c => todo'[d] = todo[d]
  BY <1>2 DEF StoreInv, StoreTypeOK
<1>4. c \notin InFlight /\ InFlight' \subseteq InFlight \union {c}
  BY <1>2, <1>3 DEF CallsInv, InFlight
<1> QED  BY <1>1, <1>2, <1>3, <1>4 DEF tables

LEMMA Stops ==
  ASSUME StoreInv, NEW c \in Calls, Rollback(c)
  PROVE  /\ UNCHANGED <<placed, orders, stock, log, history, refunds, begun>>
         /\ todo'[c] = <<>> /\ c \in InFlight
         /\ Head(todo[c]).op = "UpdateStock" \/ Faults
         /\ \A d \in Calls : d # c => todo'[d] = todo[d]
         /\ InFlight' \subseteq InFlight
<1>1. /\ UNCHANGED tables /\ begun' = begun /\ todo' = [todo EXCEPT ![c] = <<>>]
      /\ todo[c] # <<>> /\ (Head(todo[c]).op = "UpdateStock" \/ Faults)
  BY DEF Rollback, InsufficientStock
<1>2. todo'[c] = <<>> /\ \A d \in Calls : d # c => todo'[d] = todo[d]
  BY <1>1 DEF StoreInv, StoreTypeOK
<1>3. c \in InFlight /\ InFlight' \subseteq InFlight
  BY <1>1, <1>2 DEF InFlight
<1> QED  BY <1>1, <1>2, <1>3 DEF tables

LEMMA CallsStep == StoreInv /\ CallsInv /\ [Next]_vars => CallsInv'
<1> SUFFICES ASSUME StoreInv, CallsInv, [Next]_vars PROVE CallsInv'
  OBVIOUS
<1>1. ASSUME NEW c \in Calls, Handle(c) PROVE CallsInv'
  <2>1. IsFiniteSet(InFlight') /\ InFlight' \subseteq begun'
    <3>1. IsFiniteSet(InFlight \union {c})
      BY FS_AddElement DEF CallsInv
    <3> QED  BY <1>1, <3>1, Starts, FS_Subset DEF CallsInv
  <2>2. \A d \in Calls : OneMovePerItem(todo'[d]) /\ RefundFirst(todo'[d])
    BY <1>1, Starts DEF CallsInv, Begun
  <2> QED  BY <2>1, <2>2 DEF CallsInv
<1>2. ASSUME NEW c \in Calls, Execute(c) PROVE CallsInv'
  <2>1. IsFiniteSet(InFlight') /\ InFlight' \subseteq begun'
    BY <1>2, Advance, FS_Subset DEF CallsInv
  <2>2. OneMovePerItem(todo'[c]) /\ RefundFirst(todo'[c])
    <3>1. todo[c] \in Seq(Statement) /\ todo[c] # <<>> /\ todo'[c] = Tail(todo[c])
      BY <1>2, Advance
    <3>2. OneMovePerItem(todo[c]) /\ RefundFirst(todo[c])
      BY DEF CallsInv
    <3> QED  BY <3>1, <3>2, Advanced
  <2>3. \A d \in Calls : OneMovePerItem(todo'[d]) /\ RefundFirst(todo'[d])
    BY <1>2, <2>2, Advance DEF CallsInv
  <2> QED  BY <2>1, <2>3 DEF CallsInv
<1>3. ASSUME NEW c \in Calls, Rollback(c) PROVE CallsInv'
  <2>1. IsFiniteSet(InFlight') /\ InFlight' \subseteq begun'
    BY <1>3, Stops, FS_Subset DEF CallsInv
  <2>2. OneMovePerItem(<<>>) /\ RefundFirst(<<>>)
    <3>1. 1..Len(<<>>) = {}
      OBVIOUS
    <3> QED  BY <3>1 DEF OneMovePerItem, RefundFirst
  <2>3. \A d \in Calls : OneMovePerItem(todo'[d]) /\ RefundFirst(todo'[d])
    BY <1>3, <2>2, Stops DEF CallsInv
  <2> QED  BY <2>1, <2>3 DEF CallsInv
<1>4. CASE UNCHANGED vars
  BY <1>4 DEF CallsInv, InFlight, vars
<1> QED  BY <1>1, <1>2, <1>3, <1>4 DEF Next

LEMMA CallsInit == Init => CallsInv
<1> SUFFICES ASSUME Init PROVE CallsInv
  OBVIOUS
<1>1. InFlight = {} /\ \A c \in Calls : todo[c] = <<>>
  BY DEF Init, InFlight
<1>2. OneMovePerItem(<<>>) /\ RefundFirst(<<>>)
  <2>1. 1..Len(<<>>) = {}
    OBVIOUS
  <2> QED  BY <2>1 DEF OneMovePerItem, RefundFirst
<1> QED  BY <1>1, <1>2, FS_EmptySet DEF CallsInv

-----------------------------------------------------------------------------
(* Stock and its log *)

LedgerInv ==
  /\ IsFiniteSet(log) /\ \A r \in log : r.call \in begun
  /\ \A c \in Calls : \A k \in 1..Len(todo[c]) :
       todo[c][k].op = "UpdateStock" =>
         \A r \in log : r.call = c => r.item # todo[c][k].item
  /\ StockLedger

Logged(v) == SumFunctionOnSet([r \in log |-> r.change], {r \in log : r.variant = v})

(* An UPDATE of the stock and the row that records it.                      *)
LEMMA LedgerMoves ==
  ASSUME StoreInv, IsFiniteSet(log), StockLedger, NEW c \in Calls, NEW st \in Statement,
         ExecUpdateStock(c, st),
         \A r \in log : r.call = c => r.item # st.item
  PROVE  StockLedger'
<1> DEFINE new == [call |-> c, item |-> st.item, ref |-> st.ref, variant |-> st.variant,
                   change |-> st.change, reason |-> st.reason]
<1>1. /\ st.op = "UpdateStock" /\ st.variant \in Variants /\ st.change \in Int
      /\ stock' = [stock EXCEPT ![st.variant] = @ + st.change] /\ log' = log \union {new}
  BY DEF ExecUpdateStock, Statement
<1>2. new.call = c /\ new.item = st.item /\ new.variant = st.variant /\ new.change = st.change
  OBVIOUS
<1>3. new \notin log
  BY <1>2
<1> HIDE DEF new
<1>4. \A r \in log : r.change \in Int
  BY DEF StoreInv, StoreTypeOK, LogRow
<1> SUFFICES ASSUME NEW v \in Variants
             PROVE  stock'[v] = InitStock[v] + Logged(v)'
  BY DEF StockLedger, Logged
<1> DEFINE f == [r \in log |-> r.change]
           g == [r \in log' |-> r.change]
           S == {r \in log : r.variant = v}
           T == {r \in log' : r.variant = v}
           before == Logged(v)
           after == Logged(v)'
<1>5. before = SumFunctionOnSet(f, S) /\ after = SumFunctionOnSet(g, T)
  BY DEF Logged
<1>6. IsFiniteSet(S)
  BY FS_Subset
<1>7. \A r \in S : f[r] \in Int /\ g[r] = f[r]
  BY <1>1, <1>4
<1>8. /\ stock[v] \in Int /\ InitStock[v] \in Int /\ stock \in [Variants -> Nat]
      /\ stock[v] = InitStock[v] + before
  BY InitStockAssumption DEF StockLedger, StoreInv, StoreTypeOK, Logged
<1>9. before \in Int
  <2> HIDE DEF f, S, before
  <2> QED  BY <1>5, <1>6, <1>7, SumInt
<1>10. CASE v = st.variant
  <2>1. T = S \union {new} /\ new \notin S /\ g[new] = st.change
    BY <1>1, <1>2, <1>3, <1>10
  <2>2. after = before + st.change
    <3> HIDE DEF f, g, S, T, before, after
    <3> QED  BY <1>1, <1>5, <1>6, <1>7, <2>1, SumGrows
  <2>3. stock'[v] = stock[v] + st.change
    BY <1>1, <1>8, <1>10
  <2> HIDE DEF before, after
  <2>4. stock'[v] = InitStock[v] + after
    BY <1>1, <1>8, <1>9, <2>2, <2>3
  <2> QED  BY <2>4 DEF after
<1>11. CASE v # st.variant
  <2>1. T = S
    BY <1>1, <1>2, <1>11
  <2>2. after = before
    <3> HIDE DEF f, g, S, T, before, after
    <3> QED  BY <1>5, <1>6, <1>7, <2>1, SumSame
  <2>3. stock'[v] = stock[v]
    BY <1>1, <1>8, <1>11
  <2> HIDE DEF before, after
  <2>4. stock'[v] = InitStock[v] + after
    BY <1>8, <2>2, <2>3
  <2> QED  BY <2>4 DEF after
<1> QED  BY <1>10, <1>11

LEMMA LedgerStep == StoreInv /\ CallsInv /\ LedgerInv /\ [Next]_vars => LedgerInv'
<1> SUFFICES ASSUME StoreInv, CallsInv, LedgerInv, [Next]_vars PROVE LedgerInv'
  OBVIOUS
<1> DEFINE Fresh(c) == \A k \in 1..Len(todo[c]) :
                         todo[c][k].op = "UpdateStock" =>
                           \A r \in log : r.call = c => r.item # todo[c][k].item
<1>0. /\ IsFiniteSet(log) /\ \A r \in log : r.call \in begun
      /\ \A c \in Calls : Fresh(c)
      /\ StockLedger
  BY DEF LedgerInv
<1>1. ASSUME stock' = stock, log' = log PROVE IsFiniteSet(log') /\ StockLedger'
  BY <1>0, <1>1 DEF StockLedger
<1>2. ASSUME NEW c \in Calls, todo'[c] = todo[c], log' = log PROVE Fresh(c)'
  BY <1>0, <1>2
<1>3. ASSUME NEW c \in Calls, Handle(c) PROVE LedgerInv'
  <2>1. /\ stock' = stock /\ log' = log /\ c \notin begun /\ begun' = begun \union {c}
        /\ \A d \in Calls : d # c => todo'[d] = todo[d]
    BY <1>3, Starts
  <2>2. Fresh(c)'
    BY <1>0, <2>1
  <2>3. \A d \in Calls : Fresh(d)'
    BY <1>2, <2>1, <2>2
  <2>4. \A r \in log' : r.call \in begun'
    BY <1>0, <2>1
  <2> QED  BY <1>1, <2>1, <2>3, <2>4 DEF LedgerInv
<1>4. ASSUME NEW c \in Calls, Execute(c) PROVE LedgerInv'
  <2> DEFINE st == todo[c][1]
             t == todo'[c]
  <2>1. /\ todo[c] \in Seq(Statement) /\ todo[c] # <<>> /\ c \in InFlight
        /\ Exec(c, st) /\ st \in Statement /\ t = Tail(todo[c]) /\ begun' = begun
        /\ \A d \in Calls : d # c => todo'[d] = todo[d]
    BY <1>4, Advance
  <2>2. /\ OneMovePerItem(todo[c]) /\ RefundFirst(todo[c])
        /\ c \in begun
    BY <2>1 DEF CallsInv
  <2>3. 1 \in 1..Len(todo[c])
        /\ \A k \in 1..Len(t) : t[k] = todo[c][k + 1] /\ k + 1 \in 1..Len(todo[c]) /\ k + 1 # 1
    BY <2>1, <2>2, Advanced
  <2>4. CASE ExecUpdateStock(c, st)
    <3> DEFINE new == [call |-> c, item |-> st.item, ref |-> st.ref, variant |-> st.variant,
                       change |-> st.change, reason |-> st.reason]
    <3>1. log' = log \union {new} /\ new.call = c /\ new.item = st.item /\ st.op = "UpdateStock"
      BY <2>4 DEF ExecUpdateStock
    <3> HIDE DEF new
    <3>2. \A r \in log : r.call = c => r.item # st.item
      BY <1>0, <2>3, <3>1
    <3>3. StockLedger'
      <4> HIDE DEF st
      <4> QED  BY <1>0, <2>1, <2>4, <3>2, LedgerMoves
    <3>4. IsFiniteSet(log')
      BY <1>0, <3>1, FS_AddElement
    <3>5. \A r \in log' : r.call \in begun'
      BY <1>0, <2>1, <2>2, <3>1
    <3>6. Fresh(c)'
      <4> SUFFICES ASSUME NEW k \in 1..Len(t), t[k].op = "UpdateStock",
                          NEW r \in log', r.call = c
                   PROVE  r.item # t[k].item
        OBVIOUS
      <4>1. t[k] = todo[c][k + 1] /\ k + 1 \in 1..Len(todo[c]) /\ k + 1 # 1
        BY <2>3
      <4>2. CASE r \in log
        BY <1>0, <4>1, <4>2
      <4>3. CASE r = new
        BY <2>2, <2>3, <3>1, <4>1, <4>3 DEF OneMovePerItem
      <4> QED  BY <3>1, <4>2, <4>3
    <3>7. ASSUME NEW d \in Calls, d # c PROVE Fresh(d)'
      <4>1. \A r \in log' : r.call = d => r \in log
        BY <3>1, <3>7
      <4>2. todo'[d] = todo[d]
        BY <2>1, <3>7
      <4> QED  BY <1>0, <4>1, <4>2
    <3> QED  BY <3>3, <3>4, <3>5, <3>6, <3>7 DEF LedgerInv
  <2>5. CASE ~ExecUpdateStock(c, st)
    <3>1. stock' = stock /\ log' = log
      BY <2>1, <2>5 DEF Exec, ExecUpdateOrder, ExecUpdateShippingDetails, ExecCreateRefund,
                        ExecUpdateRefundedAmount, ExecCreateHistory
    <3>2. Fresh(c)'
      BY <1>0, <2>3, <3>1
    <3>3. \A d \in Calls : Fresh(d)'
      BY <1>2, <2>1, <3>1, <3>2
    <3> QED  BY <1>0, <1>1, <2>1, <3>1, <3>3 DEF LedgerInv
  <2> QED  BY <2>4, <2>5
<1>5. ASSUME NEW c \in Calls, Rollback(c) PROVE LedgerInv'
  <2>1. /\ stock' = stock /\ log' = log /\ begun' = begun /\ todo'[c] = <<>>
        /\ \A d \in Calls : d # c => todo'[d] = todo[d]
    BY <1>5, Stops
  <2>2. Fresh(c)'
    <3>1. 1..Len(todo'[c]) = {}
      BY <2>1
    <3> QED  BY <3>1
  <2>3. \A d \in Calls : Fresh(d)'
    BY <1>2, <2>1, <2>2
  <2> QED  BY <1>0, <1>1, <2>1, <2>3 DEF LedgerInv
<1>6. CASE UNCHANGED vars
  <2>1. UNCHANGED <<stock, log, begun, todo>>
    BY <1>6 DEF vars
  <2> QED  BY <2>1 DEF LedgerInv, StockLedger
<1> QED  BY <1>3, <1>4, <1>5, <1>6 DEF Next

LEMMA LedgerInit == Init => LedgerInv
<1> SUFFICES ASSUME Init PROVE LedgerInv
  OBVIOUS
<1>1. log = {} /\ stock = InitStock /\ \A c \in Calls : todo[c] = <<>>
  BY DEF Init
<1>2. IsFiniteSet(log) /\ \A r \in log : r.call \in begun
  BY <1>1, FS_EmptySet
<1>3. \A c \in Calls : \A k \in 1..Len(todo[c]) : FALSE
  <2>1. 1..Len(<<>>) = {}
    OBVIOUS
  <2> QED  BY <1>1, <2>1
<1>4. StockLedger
  <2> SUFFICES ASSUME NEW v \in Variants PROVE stock[v] = InitStock[v] + Logged(v)
    BY DEF StockLedger, Logged
  <2>1. {r \in log : r.variant = v} = {}
    BY <1>1
  <2>2. Logged(v) = 0
    BY <2>1, SumEmpty DEF Logged
  <2>3. InitStock[v] \in Nat
    BY InitStockAssumption
  <2> QED  BY <1>1, <2>2, <2>3
<1> QED  BY <1>2, <1>3, <1>4 DEF LedgerInv

(* A variant's stock is what it was plus what its log says was moved,       *)
(* whatever calls interleave and wherever they fail: the UPDATE and its     *)
(* row are written together, and no call writes the same row twice, which  *)
(* in the set of rows would count once.                                    *)
THEOREM StockLedgerBalanced == Spec => []StockLedger
<1>1. LedgerInv => StockLedger
  BY DEF LedgerInv
<1> QED
  BY <1>1, StoreInvariant, CallsInit, CallsStep, LedgerInit, LedgerStep, PTL DEF Spec

-----------------------------------------------------------------------------
(* Refunded amounts and the rows of refunds *)

(* c has inserted a refund of o and has not yet added it to the order.      *)
IsAdding(c, o) ==
  /\ todo[c] # <<>>
  /\ Head(todo[c]).op = "UpdateRefundedAmount" /\ Head(todo[c]).order = o

Adding(o) == {c \in Calls : IsAdding(c, o)}

Pending(o) == SumFunctionOnSet([c \in Adding(o) |-> Head(todo[c]).amount], Adding(o))

Recorded(o) ==
  SumFunctionOnSet([r \in refunds |-> r.amount], {r \in refunds : r.order = o})

Backed(o) ==
  /\ orders[o].refunded + Pending(o) <= Recorded(o)
  /\ ~Faults => orders[o].refunded + Pending(o) = Recorded(o)

RefundInv ==
  /\ IsFiniteSet(refunds) /\ \A r \in refunds : r.call \in begun
  /\ \A c \in Calls :
       todo[c] # <<>> /\ Head(todo[c]).op = "CreateRefund" =>
         \A r \in refunds : r.call # c
  /\ \A o \in Orders : Backed(o)

LEMMA BackedMeansBacked == (\A o \in Orders : Backed(o)) => RefundsBacked
<1> SUFFICES ASSUME NEW o \in Orders, Backed(o)
             PROVE  LET adding  == {c \in InFlight : Head(todo[c]).op = "UpdateRefundedAmount"
                                                       /\ Head(todo[c]).order = o}
                        rows    == SumFunctionOnSet([r \in refunds |-> r.amount],
                                                    {r \in refunds : r.order = o})
                        pending == SumFunction([c \in adding |-> Head(todo[c]).amount])
                        total   == orders[o].refunded + pending
                    IN  total <= rows /\ (~Faults => total = rows)
  BY Zenon DEF RefundsBacked
<1>1. {c \in InFlight : Head(todo[c]).op = "UpdateRefundedAmount"
                          /\ Head(todo[c]).order = o} = Adding(o)
  BY DEF InFlight, Adding, IsAdding
<1>2. SumFunction([c \in Adding(o) |-> Head(todo[c]).amount]) = Pending(o)
  <2>1. DOMAIN [c \in Adding(o) |-> Head(todo[c]).amount] = Adding(o)
    OBVIOUS
  <2> QED  BY <2>1 DEF Pending, SumFunction
<1> QED  BY <1>1, <1>2 DEF Backed, Recorded

LEMMA AddingTypes ==
  ASSUME StoreInv, CallsInv, NEW o
  PROVE  /\ IsFiniteSet(Adding(o)) /\ Pending(o) \in Nat
         /\ \A c \in Adding(o) : Head(todo[c]).amount \in Nat \ {0}
<1>1. IsFiniteSet(Adding(o))
  <2>1. Adding(o) \subseteq InFlight
    BY DEF Adding, IsAdding, InFlight
  <2> QED  BY <2>1, FS_Subset DEF CallsInv
<1>2. ASSUME NEW c \in Adding(o) PROVE Head(todo[c]).amount \in Nat \ {0}
  <2>1. todo[c] \in Seq(Statement) /\ todo[c] # <<>>
    BY DEF StoreInv, StoreTypeOK, Adding, IsAdding
  <2>2. Head(todo[c]) \in Statement /\ Head(todo[c]).op = "UpdateRefundedAmount"
    BY <2>1, HeadTailProperties DEF Adding, IsAdding
  <2> QED  BY <2>2 DEF Statement
<1>3. Pending(o) \in Nat
  <2> DEFINE A == Adding(o)
             f == [c \in A |-> Head(todo[c]).amount]
  <2>1. \A c \in A : f[c] \in Nat
    BY <1>2
  <2>2. Pending(o) = SumFunctionOnSet(f, A) /\ IsFiniteSet(A)
    BY <1>1 DEF Pending
  <2> HIDE DEF A, f
  <2> QED  BY <2>1, <2>2, SumNat
<1> QED  BY <1>1, <1>2, <1>3

(* What c's own list does to the sum of what is being added.               *)
LEMMA PendingChange ==
  ASSUME StoreInv, CallsInv, NEW c \in Calls, NEW o,
         \A d \in Calls : d # c => todo'[d] = todo[d],
         IsAdding(c, o)' => Head(todo'[c]).amount \in Int
  PROVE  /\ ~IsAdding(c, o) /\ ~IsAdding(c, o)' => Pending(o)' = Pending(o)
         /\ ~IsAdding(c, o) /\ IsAdding(c, o)' =>
              Pending(o)' = Pending(o) + Head(todo'[c]).amount
         /\ IsAdding(c, o) /\ ~IsAdding(c, o)' =>
              /\ Pending(o) = Pending(o)' + Head(todo[c]).amount
              /\ Pending(o)' \in Int
<1> DEFINE A == Adding(o)
           B == Adding(o)'
           f == [d \in A |-> Head(todo[d]).amount]
           g == [d \in B |-> Head(todo'[d]).amount]
<1>1. /\ IsFiniteSet(A) /\ \A d \in A : f[d] \in Int
  BY AddingTypes
<1>2. Pending(o) = SumFunctionOnSet(f, A) /\ Pending(o)' = SumFunctionOnSet(g, B)
  BY DEF Pending
<1>3. \A d \in Calls : d # c => (d \in B <=> d \in A)
  BY DEF Adding, IsAdding
<1>4. \A d \in B : d # c => d \in A /\ g[d] = f[d] /\ g[d] \in Int
  <2> SUFFICES ASSUME NEW d \in B, d # c PROVE d \in A /\ g[d] = f[d] /\ g[d] \in Int
    OBVIOUS
  <2>1. d \in Calls
    BY DEF Adding
  <2> QED  BY <1>1, <1>3, <2>1
<1>5. /\ c \in A <=> IsAdding(c, o)
      /\ c \in B <=> IsAdding(c, o)'
      /\ A \subseteq Calls /\ B \subseteq Calls
  BY DEF Adding
<1>6. /\ IsAdding(c, o) => f[c] = Head(todo[c]).amount
      /\ IsAdding(c, o)' => g[c] = Head(todo'[c]).amount
  BY <1>5
<1> HIDE DEF A, B, f, g
<1>7. CASE ~IsAdding(c, o) /\ ~IsAdding(c, o)'
  <2>1. A = B
    BY <1>3, <1>5, <1>7
  <2>2. \A d \in A : g[d] = f[d]
    BY <1>4, <1>5, <1>7, <2>1
  <2> QED  BY <1>1, <1>2, <1>7, <2>1, <2>2, SumSame
<1>8. CASE ~IsAdding(c, o) /\ IsAdding(c, o)'
  <2>1. B = A \union {c} /\ c \notin A
    BY <1>3, <1>5, <1>8
  <2>2. \A d \in A : f[d] \in Int /\ g[d] = f[d]
    BY <1>1, <1>4, <1>5, <1>8, <2>1
  <2>3. g[c] \in Int
    BY <1>6, <1>8
  <2>4. SumFunctionOnSet(g, A \union {c}) = SumFunctionOnSet(f, A) + g[c]
    BY <1>1, <2>1, <2>2, <2>3, SumGrows
  <2> QED  BY <1>2, <1>6, <1>8, <2>1, <2>4
<1>9. CASE IsAdding(c, o) /\ ~IsAdding(c, o)'
  <2>1. A = B \union {c} /\ c \notin B
    BY <1>3, <1>5, <1>9
  <2>2. \A d \in B : g[d] \in Int /\ f[d] = g[d]
    BY <1>4, <2>1
  <2>3. IsFiniteSet(B)
    BY <1>1, <2>1, FS_Subset
  <2>4. f[c] \in Int
    BY <1>1, <2>1
  <2>5. SumFunctionOnSet(f, B \union {c}) = SumFunctionOnSet(g, B) + f[c]
    BY <2>1, <2>2, <2>3, <2>4, SumGrows
  <2>6. SumFunctionOnSet(g, B) \in Int
    BY <2>2, <2>3, SumInt
  <2> QED  BY <1>2, <1>6, <1>9, <2>1, <2>5, <2>6
<1> QED  BY <1>7, <1>8, <1>9

LEMMA RecordedTypes ==
  ASSUME StoreInv, IsFiniteSet(refunds), NEW o
  PROVE  Recorded(o) \in Nat
<1> DEFINE R == {r \in refunds : r.order = o}
           f == [r \in refunds |-> r.amount]
<1>1. IsFiniteSet(R)
  BY FS_Subset
<1>2. \A r \in R : f[r] \in Nat
  BY DEF StoreInv, StoreTypeOK, RefundRow
<1> HIDE DEF R, f
<1>3. SumFunctionOnSet(f, R) \in Nat
  BY <1>1, <1>2, SumNat
<1> QED  BY <1>3 DEF Recorded, R, f

(* A call's refund is one row more.                                        *)
LEMMA RecordedGrows ==
  ASSUME StoreInv, IsFiniteSet(refunds), NEW c \in Calls, NEW st \in Statement,
         ExecCreateRefund(c, st), \A r \in refunds : r.call # c, NEW o
  PROVE  Recorded(o)' = IF o = st.order THEN Recorded(o) + st.amount ELSE Recorded(o)
<1> DEFINE new == [call |-> c, order |-> st.order, amount |-> st.amount]
           f == [r \in refunds |-> r.amount]
           g == [r \in refunds' |-> r.amount]
           R == {r \in refunds : r.order = o}
           Q == {r \in refunds' : r.order = o}
<1>1. /\ st.amount \in Int /\ refunds' = refunds \union {new}
      /\ new.call = c /\ new.order = st.order /\ new.amount = st.amount
  BY DEF ExecCreateRefund, Statement
<1>2. new \notin refunds
  BY <1>1
<1>3. \A r \in refunds : r.amount \in Int
  BY DEF StoreInv, StoreTypeOK, RefundRow
<1> HIDE DEF new
<1>4. IsFiniteSet(R)
  BY FS_Subset
<1>5. \A r \in R : f[r] \in Int /\ g[r] = f[r]
  BY <1>1, <1>3
<1>6. Recorded(o) = SumFunctionOnSet(f, R) /\ Recorded(o)' = SumFunctionOnSet(g, Q)
  BY DEF Recorded
<1>7. CASE o = st.order
  <2>1. Q = R \union {new} /\ new \notin R /\ g[new] = st.amount
    BY <1>1, <1>2, <1>7
  <2> HIDE DEF f, g, R, Q
  <2>2. SumFunctionOnSet(g, R \union {new}) = SumFunctionOnSet(f, R) + g[new]
    BY <1>1, <1>4, <1>5, <2>1, SumGrows
  <2> QED  BY <1>6, <1>7, <2>1, <2>2
<1>8. CASE o # st.order
  <2>1. Q = R
    BY <1>1, <1>8
  <2> HIDE DEF f, g, R, Q
  <2>2. SumFunctionOnSet(g, R) = SumFunctionOnSet(f, R)
    BY <1>4, <1>5, SumSame
  <2> QED  BY <1>6, <1>8, <2>1, <2>2
<1> QED  BY <1>7, <1>8

(* What one statement does to the refunded amounts.                        *)
LEMMA RefundedChange ==
  ASSUME StoreInv, NEW c \in Calls, NEW st \in Statement, Exec(c, st), NEW o \in Orders
  PROVE  /\ orders[o].refunded \in Nat
         /\ st.op = "UpdateRefundedAmount" /\ st.order = o =>
              /\ orders'[o].refunded = orders[o].refunded + st.amount
              /\ st.amount \in Nat \ {0}
         /\ ~(st.op = "UpdateRefundedAmount" /\ st.order = o) =>
              orders'[o].refunded = orders[o].refunded
<1>1. orders \in [Orders -> OrderRow]
  BY DEF StoreInv, StoreTypeOK
<1>2. /\ orders[o].refunded \in Nat
      /\ st.op = "UpdateRefundedAmount" => st.amount \in Nat \ {0}
  BY <1>1 DEF OrderRow, Statement
<1>3. CASE ExecUpdateStock(c, st) \/ ExecCreateRefund(c, st) \/ ExecCreateHistory(c, st)
  BY <1>2, <1>3 DEF ExecUpdateStock, ExecCreateRefund, ExecCreateHistory
<1>4. CASE ExecUpdateOrder(st)
  BY <1>1, <1>2, <1>4 DEF ExecUpdateOrder, OrderRow
<1>5. CASE ExecUpdateShippingDetails(st)
  BY <1>1, <1>2, <1>5 DEF ExecUpdateShippingDetails, OrderRow
<1>6. CASE ExecUpdateRefundedAmount(st)
  <2>1. /\ st.op = "UpdateRefundedAmount"
        /\ orders' = [orders EXCEPT ![st.order] = RefundTotals(orders[st.order], st.amount)]
    BY <1>6 DEF ExecUpdateRefundedAmount
  <2>2. CASE st.order = o
    <3>1. orders'[o] = RefundTotals(orders[o], st.amount)
      BY <1>1, <2>1, <2>2
    <3>2. RefundTotals(orders[o], st.amount).refunded = orders[o].refunded + st.amount
      <4>1. orders[o] \in OrderRow
        BY <1>1
      <4> QED  BY <4>1 DEF RefundTotals, OrderRow
    <3> QED  BY <1>2, <2>1, <2>2, <3>1, <3>2
  <2>3. CASE st.order # o
    BY <1>1, <1>2, <2>1, <2>3
  <2> QED  BY <2>2, <2>3
<1> QED  BY <1>3, <1>4, <1>5, <1>6 DEF Exec

LEMMA BackedSame ==
  ASSUME NEW o \in Orders, Backed(o), orders'[o].refunded = orders[o].refunded,
         Pending(o)' = Pending(o), Recorded(o)' = Recorded(o)
  PROVE  Backed(o)'
BY DEF Backed

LEMMA BackedStep1 ==
  ASSUME StoreInv, CallsInv, RefundInv, NEW c \in Calls, Execute(c), NEW o \in Orders
  PROVE  Backed(o)'
<1> DEFINE st == todo[c][1]
           t == todo'[c]
<1>1. /\ todo[c] \in Seq(Statement) /\ todo[c] # <<>>
      /\ Exec(c, st) /\ st \in Statement /\ Head(todo[c]) = st /\ t = Tail(todo[c])
      /\ \A d \in Calls : d # c => todo'[d] = todo[d]
  BY Advance
<1>2. OneMovePerItem(todo[c]) /\ RefundFirst(todo[c])
  BY DEF CallsInv
<1>3. /\ t # <<>> /\ Head(t).op = "UpdateRefundedAmount" => st.op = "CreateRefund"
      /\ st.op = "CreateRefund" =>
           t # <<>> /\ Head(t) = UpdateRefundedAmount(st.order, st.amount)
  BY <1>1, <1>2, Advanced
<1>4. /\ IsAdding(c, o) <=> st.op = "UpdateRefundedAmount" /\ st.order = o
      /\ IsAdding(c, o)' <=> st.op = "CreateRefund" /\ st.order = o
      /\ IsAdding(c, o)' => Head(t).amount = st.amount
  <2>1. IsAdding(c, o) <=> st.op = "UpdateRefundedAmount" /\ st.order = o
    BY <1>1 DEF IsAdding
  <2>2. IsAdding(c, o)' <=> t # <<>> /\ Head(t).op = "UpdateRefundedAmount" /\ Head(t).order = o
    BY DEF IsAdding
  <2>3. LET u == UpdateRefundedAmount(st.order, st.amount)
        IN  u.op = "UpdateRefundedAmount" /\ u.order = st.order /\ u.amount = st.amount
    BY DEF UpdateRefundedAmount
  <2> HIDE DEF st, t
  <2> QED  BY <1>3, <2>1, <2>2, <2>3
<1>5. st.op = "CreateRefund" => st.amount \in Int
  BY <1>1 DEF Statement
<1>6. /\ ~IsAdding(c, o) /\ ~IsAdding(c, o)' => Pending(o)' = Pending(o)
      /\ ~IsAdding(c, o) /\ IsAdding(c, o)' => Pending(o)' = Pending(o) + Head(t).amount
      /\ IsAdding(c, o) /\ ~IsAdding(c, o)' =>
           Pending(o) = Pending(o)' + Head(todo[c]).amount /\ Pending(o)' \in Int
  <2>1. IsAdding(c, o)' => Head(t).amount \in Int
    BY <1>4, <1>5
  <2> QED  BY <1>1, <2>1, PendingChange
<1>7. Pending(o) \in Nat /\ Recorded(o) \in Nat /\ Backed(o) /\ IsFiniteSet(refunds)
  BY AddingTypes, RecordedTypes DEF RefundInv
<1>8. /\ orders[o].refunded \in Nat
      /\ st.op = "UpdateRefundedAmount" /\ st.order = o =>
           /\ orders'[o].refunded = orders[o].refunded + st.amount
           /\ st.amount \in Nat \ {0}
      /\ ~(st.op = "UpdateRefundedAmount" /\ st.order = o) =>
           orders'[o].refunded = orders[o].refunded
  BY <1>1, RefundedChange
<1> HIDE DEF st, t
<1>9. CASE st.op = "CreateRefund"
  <2>1. ExecCreateRefund(c, st)
    BY <1>1, <1>9 DEF Exec, ExecUpdateStock, ExecUpdateOrder, ExecUpdateShippingDetails,
                      ExecUpdateRefundedAmount, ExecCreateHistory
  <2>2. \A r \in refunds : r.call # c
    BY <1>1, <1>9 DEF RefundInv
  <2>3. Recorded(o)' = IF o = st.order THEN Recorded(o) + st.amount ELSE Recorded(o)
    BY <1>1, <1>7, <2>1, <2>2, RecordedGrows
  <2>4. CASE o = st.order
    BY <1>4, <1>5, <1>6, <1>7, <1>8, <1>9, <2>3, <2>4 DEF Backed
  <2>5. CASE o # st.order
    BY <1>4, <1>6, <1>7, <1>8, <1>9, <2>3, <2>5 DEF Backed
  <2> QED  BY <2>4, <2>5
<1>10. CASE st.op # "CreateRefund"
  <2>1. refunds' = refunds
    BY <1>1, <1>10 DEF Exec, ExecUpdateStock, ExecUpdateOrder, ExecUpdateShippingDetails,
                       ExecCreateRefund, ExecUpdateRefundedAmount, ExecCreateHistory
  <2>2. Recorded(o)' = Recorded(o)
    BY <2>1 DEF Recorded
  <2>3. CASE st.op = "UpdateRefundedAmount" /\ st.order = o
    <3>1. Pending(o) = Pending(o)' + st.amount /\ Pending(o)' \in Int
      BY <1>1, <1>4, <1>6, <2>3
    <3> QED  BY <1>7, <1>8, <2>2, <2>3, <3>1 DEF Backed
  <2>4. CASE ~(st.op = "UpdateRefundedAmount" /\ st.order = o)
    BY <1>4, <1>6, <1>7, <1>8, <1>10, <2>2, <2>4 DEF Backed
  <2> QED  BY <2>3, <2>4
<1> QED  BY <1>9, <1>10

LEMMA RefundStep == StoreInv /\ CallsInv /\ RefundInv /\ [Next]_vars => RefundInv'
<1> SUFFICES ASSUME StoreInv, CallsInv, RefundInv, [Next]_vars PROVE RefundInv'
  OBVIOUS
<1> DEFINE Unused(c) == todo[c] # <<>> /\ Head(todo[c]).op = "CreateRefund" =>
                          \A r \in refunds : r.call # c
<1>0. /\ IsFiniteSet(refunds) /\ \A r \in refunds : r.call \in begun
      /\ \A c \in Calls : Unused(c)
      /\ \A o \in Orders : Backed(o)
  BY DEF RefundInv
<1>1. ASSUME NEW c \in Calls, Handle(c) PROVE RefundInv'
  <2>1. /\ orders' = orders /\ refunds' = refunds /\ c \notin begun
        /\ begun' = begun \union {c} /\ Begun(todo'[c]) /\ c \notin InFlight
        /\ \A d \in Calls : d # c => todo'[d] = todo[d]
    BY <1>1, Starts
  <2>2. Unused(c)'
    BY <1>0, <2>1
  <2>3. \A d \in Calls : Unused(d)'
    BY <1>0, <2>1, <2>2
  <2>4. ASSUME NEW o \in Orders PROVE Backed(o)'
    <3>1. ~IsAdding(c, o)
      BY <2>1 DEF IsAdding, InFlight
    <3>2. ~IsAdding(c, o)'
      <4>1. /\ todo'[c] \in Seq(Statement) /\ todo'[c] # <<>>
            /\ todo'[c][1].op # "UpdateRefundedAmount"
        BY <2>1 DEF Begun
      <4>2. Head(todo'[c]) = todo'[c][1]
        BY <4>1, HeadTailProperties
      <4> QED  BY <4>1, <4>2 DEF IsAdding
    <3>3. Pending(o)' = Pending(o)
      BY <2>1, <3>1, <3>2, PendingChange
    <3>4. Recorded(o)' = Recorded(o)
      BY <2>1 DEF Recorded
    <3> QED  BY <1>0, <2>1, <3>3, <3>4, BackedSame
  <2>5. IsFiniteSet(refunds') /\ \A r \in refunds' : r.call \in begun'
    BY <1>0, <2>1
  <2> QED  BY <2>3, <2>4, <2>5 DEF RefundInv
<1>2. ASSUME NEW c \in Calls, Execute(c) PROVE RefundInv'
  <2> DEFINE st == todo[c][1]
             new == [call |-> c, order |-> st.order, amount |-> st.amount]
  <2>1. /\ todo[c] \in Seq(Statement) /\ todo[c] # <<>> /\ c \in InFlight
        /\ Exec(c, st) /\ todo'[c] = Tail(todo[c]) /\ begun' = begun
        /\ \A d \in Calls : d # c => todo'[d] = todo[d]
    BY <1>2, Advance
  <2>2. OneMovePerItem(todo[c]) /\ RefundFirst(todo[c]) /\ c \in begun
    BY <2>1 DEF CallsInv
  <2>3. todo'[c] # <<>> => Head(todo'[c]).op # "CreateRefund"
    BY <2>1, <2>2, Advanced
  <2>4. refunds' = refunds \/ refunds' = refunds \union {new}
    BY <2>1 DEF Exec, ExecUpdateStock, ExecUpdateOrder, ExecUpdateShippingDetails,
                ExecCreateRefund, ExecUpdateRefundedAmount, ExecCreateHistory
  <2>5. new.call = c
    OBVIOUS
  <2> HIDE DEF new, st
  <2>6. IsFiniteSet(refunds') /\ \A r \in refunds' : r.call \in begun'
    BY <1>0, <2>1, <2>2, <2>4, <2>5, FS_AddElement
  <2>7. \A d \in Calls : Unused(d)'
    BY <1>0, <2>1, <2>3, <2>4, <2>5
  <2>8. \A o \in Orders : Backed(o)'
    BY <1>2, BackedStep1
  <2> QED  BY <2>6, <2>7, <2>8 DEF RefundInv
<1>3. ASSUME NEW c \in Calls, Rollback(c) PROVE RefundInv'
  <2>1. /\ orders' = orders /\ refunds' = refunds /\ begun' = begun /\ todo'[c] = <<>>
        /\ Head(todo[c]).op = "UpdateStock" \/ Faults
        /\ \A d \in Calls : d # c => todo'[d] = todo[d]
    BY <1>3, Stops
  <2>2. \A d \in Calls : Unused(d)'
    BY <1>0, <2>1
  <2>3. ASSUME NEW o \in Orders PROVE Backed(o)'
    <3>1. ~IsAdding(c, o)'
      BY <2>1 DEF IsAdding
    <3>2. /\ ~IsAdding(c, o) => Pending(o)' = Pending(o)
          /\ IsAdding(c, o) => /\ Pending(o) = Pending(o)' + Head(todo[c]).amount
                               /\ Pending(o)' \in Int
      BY <2>1, <3>1, PendingChange
    <3>3. Recorded(o)' = Recorded(o)
      BY <2>1 DEF Recorded
    <3>4. CASE ~IsAdding(c, o)
      BY <1>0, <2>1, <3>2, <3>3, <3>4, BackedSame
    <3>5. CASE IsAdding(c, o)
      <4>1. c \in Adding(o) /\ Faults
        BY <2>1, <3>5 DEF Adding, IsAdding
      <4>2. Head(todo[c]).amount \in Nat /\ Pending(o) \in Nat /\ Recorded(o) \in Nat
        BY <1>0, <4>1, AddingTypes, RecordedTypes
      <4>3. orders[o].refunded \in Nat
        BY DEF StoreInv, StoreTypeOK, OrderRow
      <4> QED  BY <1>0, <2>1, <3>2, <3>3, <3>5, <4>1, <4>2, <4>3 DEF Backed
    <3> QED  BY <3>4, <3>5
  <2> QED  BY <1>0, <2>1, <2>2, <2>3 DEF RefundInv
<1>4. CASE UNCHANGED vars
  <2>1. UNCHANGED <<orders, refunds, begun, todo>>
    BY <1>4 DEF vars
  <2>2. \A o \in Orders : Pending(o)' = Pending(o) /\ Recorded(o)' = Recorded(o)
    BY <2>1 DEF Pending, Adding, IsAdding, Recorded
  <2>3. \A o \in Orders : Backed(o)'
    BY <1>0, <2>1, <2>2, BackedSame
  <2> QED  BY <2>1, <2>3 DEF RefundInv
<1> QED  BY <1>1, <1>2, <1>3, <1>4 DEF Next

LEMMA RefundInit == Init => RefundInv
<1> SUFFICES ASSUME Init PROVE RefundInv
  OBVIOUS
<1>1. refunds = {} /\ \A c \in Calls : todo[c] = <<>>
  BY DEF Init
<1>2. ASSUME NEW o \in Orders PROVE Backed(o)
  <2>1. Adding(o) = {} /\ {r \in refunds : r.order = o} = {}
    BY <1>1 DEF Adding, IsAdding
  <2>2. Pending(o) = 0 /\ Recorded(o) = 0
    BY <2>1, SumEmpty DEF Pending, Recorded
  <2>3. orders[o].refunded = 0
    BY InitOrdersAssumption DEF Init
  <2> QED  BY <2>2, <2>3 DEF Backed
<1> QED  BY <1>1, <1>2, FS_EmptySet DEF RefundInv

(* An order's refunded amount is never more than the rows of refunds say:   *)
(* what a call has inserted and not yet added is the whole difference, and  *)
(* only a call that fails between its two statements makes it permanent.    *)
THEOREM RefundsAlwaysBacked == Spec => []RefundsBacked
<1>1. RefundInv => RefundsBacked
  BY BackedMeansBacked DEF RefundInv
<1> QED
  BY <1>1, StoreInvariant, CallsInit, CallsStep, RefundInit, RefundStep, PTL DEF Spec

-----------------------------------------------------------------------------
(* The maps of constants.go *)

(* The lifecycle's own tables are those of constants.go.                   *)
LEMMA SameMachine ==
  ASSUME NEW o, NEW i
  PROVE  /\ Lifecycle(o, i)!OrderStatuses = OrderStatuses
         /\ Lifecycle(o, i)!StockRestoring = StockRestoring
         /\ \A from, to : Lifecycle(o, i)!IsValidTransition(from, to) <=> IsValidTransition(from, to)
         /\ \A from, to : Lifecycle(o, i)!GetSideEffects(from, to) = GetSideEffects(from, to)
<1>1. Lifecycle(o, i)!OrderStatuses = OrderStatuses
  BY DEF Lifecycle!OrderStatuses, OrderStatuses
<1>2. Lifecycle(o, i)!StockRestoring = StockRestoring
  BY DEF Lifecycle!StockRestoring, StockRestoring
<1>3. Lifecycle(o, i)!ValidTransitions = ValidTransitions
  BY <1>1 DEF Lifecycle!ValidTransitions, ValidTransitions
<1>4. \A from, to : Lifecycle(o, i)!IsValidTransition(from, to) <=> IsValidTransition(from, to)
  BY <1>1, <1>3 DEF Lifecycle!IsValidTransition, IsValidTransition
<1>5. \A from, to : Lifecycle(o, i)!IsRecoveryTransition(from, to) <=> IsRecoveryTransition(from, to)
  BY <1>2 DEF Lifecycle!IsRecoveryTransition, IsRecoveryTransition
<1>6. \A to : Lifecycle(o, i)!StatusSideEffects(to) = StatusSideEffects(to)
  BY <1>2 DEF Lifecycle!StatusSideEffects, StatusSideEffects
<1>7. \A from, to : Lifecycle(o, i)!GetSideEffects(from, to) = GetSideEffects(from, to)
  BY <1>5, <1>6 DEF Lifecycle!GetSideEffects, GetSideEffects
<1> QED  BY <1>1, <1>2, <1>4, <1>7

(* A status that gave the stock back is left only through a recovery, and a *)
(* recovery always takes the stock again.                                  *)
LEMMA LeavingARestoringStatus ==
  ASSUME NEW from \in StockRestoring, NEW to \in OrderStatuses,
         IsValidTransition(from, to)
  PROVE  to \notin StockRestoring /\ GetSideEffects(from, to) = {"deduct_stock"}
<1>1. from \in {"cancelled", "fake"} /\ to = "processing"
  BY DEF StockRestoring, IsValidTransition, ValidTransitions, OrderStatuses
<1> QED
  BY <1>1 DEF StockRestoring, GetSideEffects, IsRecoveryTransition

(* Any other status is left without a deduction, and with a restore exactly *)
(* when the next one gives the stock back.                                 *)
LEMMA LeavingAHoldingStatus ==
  ASSUME NEW from \in OrderStatuses \ StockRestoring, NEW to \in OrderStatuses
  PROVE  /\ "deduct_stock" \notin GetSideEffects(from, to)
         /\ "restore_stock" \in GetSideEffects(from, to) <=> to \in StockRestoring
BY DEF StockRestoring, OrderStatuses, GetSideEffects, StatusSideEffects,
       IsRecoveryTransition

(* Along every path of the transition map an item is held exactly while    *)
(* its order is not cancelled, fake or returned: OrderLifecycle keeps the   *)
(* units and the status together, for whatever plays its variables.        *)
THEOREM HeldExactlyWhileActive ==
  ASSUME NEW o, NEW i
  PROVE  Lifecycle(o, i)!Spec => []Lifecycle(o, i)!HeldUnlessReturned
<1> DEFINE status == orders[o].status
           quantity == orders[o].items[i].quantity
           held == Held(o, i)
           Inv == /\ status \in OrderStatuses
                  /\ held = IF status \in StockRestoring THEN 0 ELSE quantity
<1>1. Lifecycle(o, i)!Init => Inv
  BY SameMachine DEF Lifecycle!Init
<1>2. Inv /\ [Lifecycle(o, i)!Next]_<<status, quantity, held>> => Inv'
  <2> SUFFICES ASSUME Inv, [Lifecycle(o, i)!Next]_<<status, quantity, held>> PROVE Inv'
    OBVIOUS
  <2>1. ASSUME NEW to \in OrderStatuses, Lifecycle(o, i)!Move(to)
        PROVE  Inv'
    <3> DEFINE effects == GetSideEffects(status, to)
    <3>1. /\ status' = to /\ quantity' = quantity
          /\ IsValidTransition(status, to)
          /\ held' = CASE "restore_stock" \in effects -> 0
                       [] "deduct_stock" \in effects -> quantity
                       [] OTHER -> held
      <4> HIDE DEF Held
      <4>1. /\ Lifecycle(o, i)!GetSideEffects(status, to) = effects
            /\ Lifecycle(o, i)!IsValidTransition(status, to) <=> IsValidTransition(status, to)
        BY SameMachine
      <4>2. /\ status' = to /\ quantity' = quantity
            /\ Lifecycle(o, i)!IsValidTransition(status, to)
            /\ held' = CASE "restore_stock" \in Lifecycle(o, i)!GetSideEffects(status, to) -> 0
                         [] "deduct_stock" \in Lifecycle(o, i)!GetSideEffects(status, to)
                              -> quantity
                         [] OTHER -> held
        BY Zenon, <2>1 DEF Lifecycle!Move
      <4> HIDE DEF effects, status, quantity, held
      <4> QED  BY Zenon, <4>1, <4>2
    <3> HIDE DEF status, quantity, held, effects
    <3>2. CASE status \in StockRestoring
      <4>1. to \notin StockRestoring /\ effects = {"deduct_stock"}
        BY <3>1, <3>2, LeavingARestoringStatus DEF effects
      <4>2. "deduct_stock" \in effects /\ "restore_stock" \notin effects
        BY <4>1
      <4>3. held' = quantity
        BY <3>1, <4>2
      <4> QED  BY <3>1, <4>1, <4>3
    <3>3. CASE status \notin StockRestoring
      <4>1. /\ "deduct_stock" \notin effects
            /\ "restore_stock" \in effects <=> to \in StockRestoring
        BY <3>3, LeavingAHoldingStatus DEF effects
      <4>2. held' = IF to \in StockRestoring THEN 0 ELSE held
        BY <3>1, <4>1
      <4> QED  BY <3>1, <3>3, <4>2
    <3> QED  BY <3>2, <3>3
  <2>2. CASE UNCHANGED <<status, quantity, held>>
    <3> HIDE DEF status, quantity, held
    <3> QED  BY <2>2
  <2>3. Lifecycle(o, i)!OrderStatuses = OrderStatuses
    BY SameMachine
  <2> QED  BY <2>1, <2>2, <2>3 DEF Lifecycle!Next
<1>3. Inv => Lifecycle(o, i)!HeldUnlessReturned
  BY SameMachine DEF Lifecycle!HeldUnlessReturned
<1> QED  BY <1>1, <1>2, <1>3, PTL DEF Lifecycle!Spec

(* Every expected path of OrderTypeFlows is allowed by ValidTransitions, step *)
(* by step, and needs no stock movement on the way.                        *)
THEOREM FlowsAreAllowed ==
  \A type \in {"cod", "mobile_banking", "preorder", "preorder_nd"} :
    \A k \in 1..(Len(OrderTypeFlow(type)) - 1) :
      LET from == OrderTypeFlow(type)[k]
          to   == OrderTypeFlow(type)[k + 1]
      IN  /\ IsValidTransition(from, to)
          /\ GetSideEffects(from, to) \cap {"restore_stock", "deduct_stock"} = {}
<1> DEFINE verified == <<"pending_verification", "processing", "shipped",
                         "delivered", "paid">>
           full == <<"pending", "pending_verification", "processing", "shipped",
                     "delivered", "paid">>
           Steps == {<<"pending", "pending_verification">>,
                     <<"pending_verification", "processing">>,
                     <<"processing", "shipped">>, <<"shipped", "delivered">>,
                     <<"delivered", "paid">>}
<1>1. \A k \in 1..(Len(verified) - 1) : <<verified[k], verified[k + 1]>> \in Steps
  <2>1. Len(verified) - 1 = 4 /\ \A k \in 1..4 : k \in {1, 2, 3, 4}
    OBVIOUS
  <2>2. /\ <<verified[1], verified[1 + 1]>> \in Steps
        /\ <<verified[2], verified[2 + 1]>> \in Steps
        /\ <<verified[3], verified[3 + 1]>> \in Steps
        /\ <<verified[4], verified[4 + 1]>> \in Steps
    OBVIOUS
  <2> HIDE DEF Steps, verified
  <2> QED  BY <2>1, <2>2
<1>2. \A k \in 1..(Len(full) - 1) : <<full[k], full[k + 1]>> \in Steps
  <2>1. Len(full) - 1 = 5 /\ \A k \in 1..5 : k \in {1, 2, 3, 4, 5}
    OBVIOUS
  <2>2. /\ <<full[1], full[1 + 1]>> \in Steps
        /\ <<full[2], full[2 + 1]>> \in Steps
        /\ <<full[3], full[3 + 1]>> \in Steps
        /\ <<full[4], full[4 + 1]>> \in Steps
        /\ <<full[5], full[5 + 1]>> \in Steps
    OBVIOUS
  <2> HIDE DEF Steps, full
  <2> QED  BY <2>1, <2>2
<1>3. \A type \in {"cod", "mobile_banking", "preorder", "preorder_nd"} :
        OrderTypeFlow(type) = verified \/ OrderTypeFlow(type) = full
  BY DEF OrderTypeFlow
<1>4. ASSUME NEW from, NEW to, <<from, to>> \in Steps
      PROVE  /\ IsValidTransition(from, to)
             /\ GetSideEffects(from, to) \cap {"restore_stock", "deduct_stock"} = {}
  BY <1>4 DEF IsValidTransition, ValidTransitions, OrderStatuses, GetSideEffects,
       IsRecoveryTransition, StatusSideEffects, StockRestoring
<1> HIDE DEF verified, full, Steps
<1> QED  BY <1>1, <1>2, <1>3, <1>4
=============================================================================
