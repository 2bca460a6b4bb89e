----------------------------- MODULE OrderAdmin -----------------------------
(***************************************************************************)
(* What administrators do to placed orders: status changes with their side *)
(* effects, payment verification, manual payment status, refunds, a new    *)
(* shipping zone and manual stock corrections.  Each handler is one action *)
(* that reads, validates and leaves its statements in todo; OrderStore     *)
(* executes them, interleaved with those of the other calls.               *)
(***************************************************************************)
EXTENDS OrderStore

CONSTANTS
  Ops,          \* the handlers this instance exposes
  InitOrders,   \* the rows checkout may have left, for each order
  InitStock,    \* what is left in stock after those checkouts
  Amounts,      \* refund amounts an administrator asks for
  Adjustments   \* manual stock changes

AdminOps == {"status", "verify", "payment", "refund", "zone", "adjust"}

ASSUME OpsAssumption == Ops \subseteq AdminOps
ASSUME InitOrdersAssumption ==
  /\ DOMAIN InitOrders = Orders
  /\ \A o \in Orders : \A row \in InitOrders[o] :
       /\ row \in OrderRow
       /\ row.fee <= row.total
       /\ row.total - row.fee = Subtotal(row.items)
       /\ row.refunded = 0
ASSUME InitStockAssumption == InitStock \in [Variants -> Nat]
ASSUME AmountsAssumption == Amounts \subseteq Nat \ {0}
ASSUME AdjustmentsAssumption == Adjustments \subseteq Int

-----------------------------------------------------------------------------
(* Statement lists shared by the handlers *)

StockStatements(o, items, sign, reason) ==
  [i \in DOMAIN items |->
     UpdateStock(o, i, items[i].variant, sign * items[i].quantity, reason)]

restoreOrderStock(o, row, reason) == StockStatements(o, row.items, 1, reason)

deductOrderStock(o, row, reason) == StockStatements(o, row.items, -1, reason)

(* Mutant: recovery forgets to take the stock again.                       *)
SideEffectsWithoutDeduction(o, row, to) ==
  LET effects == GetSideEffects(row.status, to)
  IN  CASE "restore_stock" \in effects ->
             restoreOrderStock(o, row, RestoreReason[to])
        [] "sync_payment_paid" \in effects ->
             <<UpdatePayment(o, "paid"), UpdatePaidAmount(o, row.total)>>
        [] "sync_payment_refund" \in effects ->
             <<UpdatePayment(o, "refunded")>>
        [] OTHER -> <<>>

(* The side effects of moving the order as read (row) to status "to".       *)
handleOrderStateSideEffects(o, row, to) ==
  LET effects == GetSideEffects(row.status, to)
  IN  CASE "restore_stock" \in effects ->
             restoreOrderStock(o, row, RestoreReason[to])
        [] "deduct_stock" \in effects ->
             deductOrderStock(o, row, "recovery_rededuct")
        [] "sync_payment_paid" \in effects ->
             <<UpdatePayment(o, "paid"), UpdatePaidAmount(o, row.total)>>
        [] "sync_payment_refund" \in effects ->
             <<UpdatePayment(o, "refunded")>>
        [] OTHER -> <<>>

-----------------------------------------------------------------------------
(* Handlers.  A call that fails its validation writes nothing and is not    *)
(* a step.                                                                 *)

(* Mutant: status and history first, the side effects last.                *)
UpdateOrderStatusFirst(c, o, to) ==
  LET row == orders[o]
  IN  /\ IsValidTransition(row.status, to)
      /\ Begin(c, <<UpdateStatus(o, to),
                    CreateHistory(o, row.status, to, "status")>>
                    \o handleOrderStateSideEffects(o, row, to))

UpdateOrderStatus(c, o, to) ==
  LET row == orders[o]
  IN  /\ IsValidTransition(row.status, to)
      /\ Begin(c, handleOrderStateSideEffects(o, row, to)
                    \o <<UpdateStatus(o, to),
                         CreateHistory(o, row.status, to, "status")>>)

(* Verification moves the order to processing without the side effects.    *)
VerifyOrderPayment(c, o) ==
  LET row     == orders[o]
      payment == IF row.preorder THEN "partial_paid" ELSE "paid"
  IN  /\ row.method # "cod"
      /\ IsValidTransition(row.status, "processing")
      /\ IsValidPaymentTransition(row.payment, payment)
      /\ Begin(c, <<UpdateStatus(o, "processing"),
                    UpdatePayment(o, payment),
                    CreateHistory(o, row.status, "processing", "verify")>>)

UpdatePaymentStatus(c, o, payment) ==
  LET row == orders[o]
  IN  /\ row.payment # payment
      /\ IsValidPaymentTransition(row.payment, payment)
      /\ Begin(c, <<UpdatePayment(o, payment),
                    CreateHistory(o, row.status, row.status, "payment")>>)

(* Mutant: refunds up to what was paid, forgetting earlier refunds.        *)
ProcessRefundUpToPaid(c, o, amount, restock) ==
  LET row == orders[o]
  IN  /\ amount <= row.paid
      /\ Begin(c, <<CreateRefund(o, amount), UpdateRefundedAmount(o, amount)>>
                    \o (IF restock THEN restoreOrderStock(o, row, "refund_restock")
                        ELSE <<>>)
                    \o <<CreateHistory(o, row.status, row.status, "refund")>>)

(* Mutant: the order's total is raised before the refund is recorded.      *)
ProcessRefundTotalFirst(c, o, amount, restock) ==
  LET row == orders[o]
  IN  /\ amount <= row.paid - row.refunded
      /\ Begin(c, <<UpdateRefundedAmount(o, amount), CreateRefund(o, amount)>>
                    \o (IF restock THEN restoreOrderStock(o, row, "refund_restock")
                        ELSE <<>>)
                    \o <<CreateHistory(o, row.status, row.status, "refund")>>)

ProcessRefund(c, o, amount, restock) ==
  LET row       == orders[o]
      remaining == row.paid - row.refunded
      isFull    == restock /\ amount >= remaining
  IN  /\ amount <= remaining
      /\ isFull => IsValidTransition(row.status, "refunded")
      /\ Begin(c,
           <<CreateRefund(o, amount), UpdateRefundedAmount(o, amount)>>
             \o (IF restock THEN restoreOrderStock(o, row, "refund_restock")
                 ELSE <<>>)
             \o (IF isFull THEN <<UpdateStatus(o, "refunded"),
                                  UpdatePayment(o, "refunded")>>
                 ELSE <<>>)
             \o <<CreateHistory(o, row.status,
                                IF isFull THEN "refunded" ELSE row.status,
                                "refund")>>)

(* Mutant: the fee is updated and the total is not.                        *)
UpdateShippingFeeOnly(c, o, zone) ==
  /\ orders[o].zone # zone
  /\ Begin(c, <<UpdateShippingDetails(o, zone, ZoneCost[zone], orders[o].total),
                CreateHistory(o, orders[o].status, orders[o].status, "zone")>>)

(* The new total is the total as read plus the difference of the fees.     *)
UpdateShippingZone(c, o, zone) ==
  LET row  == orders[o]
      diff == ZoneCost[zone] - row.fee
  IN  /\ row.zone # zone
      /\ Begin(c, <<UpdateShippingDetails(o, zone, ZoneCost[zone],
                                          row.total + diff),
                    CreateHistory(o, row.status, row.status, "zone")>>)

(* Refuses what would leave less than nothing by the stock it read; the    *)
(* statement checks again.                                                 *)
AdjustStock(c, v, change) ==
  /\ stock[v] + change >= 0
  /\ Begin(c, <<UpdateStock(Manual, 0, v, change, "manual")>>)

-----------------------------------------------------------------------------
Init ==
  /\ placed = Orders
  /\ orders \in {f \in [Orders -> UNION {InitOrders[o] : o \in Orders}] :
                  \A o \in Orders : f[o] \in InitOrders[o]}
  /\ stock = InitStock
  /\ log = {} /\ history = {} /\ refunds = {}
  /\ begun = {}
  /\ todo = [c \in Calls |-> <<>>]

Handle(c) ==
  \/ \E o \in placed :
       \/ "status" \in Ops /\ \E to \in OrderStatuses : UpdateOrderStatus(c, o, to)
       \/ "verify" \in Ops /\ VerifyOrderPayment(c, o)
       \/ "payment" \in Ops
            /\ \E p \in PaymentStatuses : UpdatePaymentStatus(c, o, p)
       \/ "refund" \in Ops
            /\ \E a \in Amounts, restock \in BOOLEAN : ProcessRefund(c, o, a, restock)
       \/ "zone" \in Ops /\ \E z \in Zones : UpdateShippingZone(c, o, z)
  \/ "adjust" \in Ops /\ \E v \in Variants, d \in Adjustments : AdjustStock(c, v, d)

Next == \E c \in Calls : Handle(c) \/ Execute(c) \/ Rollback(c)

Spec == Init /\ [][Next]_vars

-----------------------------------------------------------------------------
(* Properties *)

(* Every table keeps its columns' types; in particular stock never goes     *)
(* negative, whatever restores, deductions and corrections interleave.     *)
TypeOK == StoreTypeOK

(* Two administrators may change the zone from the same stale read, yet an  *)
(* order's total is always its items plus the fee the row shows: the total *)
(* is computed from a stale read but fee and total are written together    *)
(* (UpdateShippingZone, UpdateOrderShippingDetails).                       *)
SubtotalPreserved ==
  \A o \in Orders : orders[o].total - orders[o].fee = Subtotal(orders[o].items)

(* Stock moves only with its log row: a variant's stock is what it was      *)
(* initially plus every logged change (UpdateStock's own transaction).     *)
StockLedger ==
  \A v \in Variants :
    stock[v] = InitStock[v]
                 + SumFunctionOnSet([r \in log |-> r.change],
                                    {r \in log : r.variant = v})

(* orders.refunded_amount against the refunds table: what a call inserted   *)
(* and has not yet added is the only difference, and a call that fails in   *)
(* between can only leave the total short (CreateRefund's two statements). *)
RefundsBacked ==
  \A o \in Orders :
    LET adding  == {c \in InFlight : Head(todo[c]).op = "UpdateRefundedAmount"
                                       /\ Head(todo[c]).order = o}
        rows    == SumFunctionOnSet([r \in refunds |-> r.amount],
                                    {r \in refunds : r.order = o})
        pending == SumFunction([c \in adding |-> Head(todo[c]).amount])
        total   == orders[o].refunded + pending
    IN  total <= rows /\ (~Faults => total = rows)

(* The stock movements a history row claims, all made by the same call.    *)
Moved(h, sign, reason) ==
  LET items == orders[h.order].items
  IN  \A i \in DOMAIN items :
        [call |-> h.call, item |-> i, ref |-> h.order,
         variant |-> items[i].variant, change |-> sign * items[i].quantity,
         reason |-> reason] \in log

StockEffectsDone(h) ==
  LET effects == GetSideEffects(h.from, h.to)
  IN  h.from # h.to =>
        /\ "restore_stock" \in effects => Moved(h, 1, RestoreReason[h.to])
        /\ "deduct_stock" \in effects => Moved(h, -1, "recovery_rededuct")

(* However calls interleave and wherever they fail, a status change that    *)
(* UpdateOrderStatus recorded in the history has had the stock effects of   *)
(* StatusSideEffects, for every item of the order.                         *)
StatusChangesBacked ==
  \A h \in history : h.by = "status" => StockEffectsDone(h)

(* StatusSideEffects as constants.go states it ("automated actions that     *)
(* MUST be triggered when an order transitions TO that status"): for every *)
(* recorded change, whichever handler made it.                             *)
SideEffectsTriggered == \A h \in history : StockEffectsDone(h)

(* The customer never gets back more than was paid ("max refundable" in     *)
(* ProcessRefund).                                                         *)
RefundedWithinPaid == \A o \in Orders : orders[o].refunded <= orders[o].paid

(* Restores minus deductions of an order's i-th item since it was placed.  *)
Returned(o, i, rows) ==
  SumFunctionOnSet([r \in rows |-> r.change],
                   {r \in rows : r.ref = o /\ r.item = i})

(* "STOCK IS AUTO-RESTORED" on cancellation: with no call in flight, a      *)
(* cancelled order holds nothing and has given back nothing twice.         *)
CancelledIsRestocked ==
  InFlight = {} =>
    \A o \in Orders : orders[o].status = "cancelled" =>
      \A i \in DOMAIN orders[o].items :
        Returned(o, i, log) = orders[o].items[i].quantity

(* "If a transition is NOT in this map, it is FORBIDDEN": every change of   *)
(* orders.status, by whatever statement, is in ValidTransitions.           *)
StatusFollowsFSM ==
  [][\A o \in Orders : orders'[o].status # orders[o].status =>
       IsValidTransition(orders[o].status, orders'[o].status)]_orders

(* The same for orders.payment_status and ValidPaymentTransitions.         *)
PaymentFollowsFSM ==
  [][\A o \in Orders : orders'[o].payment # orders[o].payment =>
       IsValidPaymentTransition(orders[o].payment, orders'[o].payment)]_orders

-----------------------------------------------------------------------------
(* Refinement.  Each item of an order goes through the life OrderLifecycle  *)
(* promises: its status is the row's, and it is held unless the log says   *)
(* it was given back.  Movements of a call count from the moment the call   *)
(* writes the status they belong to.                                       *)
Unsettled(r) ==
  \E k \in DOMAIN todo[r.call] : todo[r.call][k].op = "UpdateStatus"

Held(o, i) ==
  orders[o].items[i].quantity - Returned(o, i, {r \in log : ~Unsettled(r)})

Lifecycle(o, i) ==
  INSTANCE OrderLifecycle WITH
    status <- orders[o].status,
    quantity <- orders[o].items[i].quantity,
    held <- Held(o, i)

(* Served one at a time, status changes of a single-item order implement    *)
(* the lifecycle: no forbidden change, and stock moved once per change     *)
(* although the movement and the status are written apart.                 *)
ImplementsLifecycle ==
  /\ \A o \in Orders : Lifecycle(o, 1)!Init
  /\ [][\A o \in Orders : Lifecycle(o, 1)!Next
                             \/ UNCHANGED <<orders[o].status, Held(o, 1)>>]_vars
=============================================================================
