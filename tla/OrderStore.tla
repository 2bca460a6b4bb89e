----------------------------- MODULE OrderStore -----------------------------
(***************************************************************************)
(* The order tables and the SQL statements that change them, as the        *)
(* request handlers really execute them.                                   *)
(*                                                                         *)
(* A handler reads an order, validates, and then runs a straight line of   *)
(* statements whose arguments were all fixed by that read.  The line is    *)
(* wrapped in TransactionManager.Do, but Do only puts its transaction in   *)
(* the context: no repository looks for it there, so every statement takes *)
(* a connection of its own and commits by itself.  A call in flight is     *)
(* therefore a sequence of pending statements; each runs atomically, calls *)
(* interleave between them, and an error keeps what was already written.   *)
(***************************************************************************)
EXTENDS OrderStatus, Integers, Sequences, FiniteSetsExt

CONSTANTS
  Orders,       \* order ids
  Variants,     \* variant ids
  Zones,        \* active shipping zones
  ZoneCost,     \* what each zone charges
  Calls,        \* ids of the HTTP requests that change an order
  MaxInFlight,  \* bound: requests being served at the same time
  Faults        \* may a statement fail (disconnect, timeout, crash)?

ASSUME ZoneCostAssumption == ZoneCost \in [Zones -> Nat]
ASSUME BoundsAssumption == MaxInFlight \in Nat \ {0} /\ Faults \in BOOLEAN

VARIABLES
  placed,     \* the order ids that have a row
  orders,     \* order id -> row of "orders" with its order_items
  stock,      \* variant id -> variants.stock
  log,        \* rows of inventory_logs
  history,    \* rows of order_history
  refunds,    \* rows of refunds
  begun,      \* the calls that passed validation so far
  todo        \* call -> the statements it has still to execute

tables == <<placed, orders, stock, log, history, refunds>>
vars == <<placed, orders, stock, log, history, refunds, begun, todo>>

-----------------------------------------------------------------------------
(* Rows.  orders is total: the row of an id that is not placed means nothing. *)

Item == [variant : Variants, quantity : Nat \ {0}, price : Nat \ {0}]

OrderRow ==
  [status : OrderStatuses, payment : PaymentStatuses, method : PaymentMethods,
   preorder : BOOLEAN, paid : Nat, refunded : Nat, zone : Zones, fee : Nat,
   total : Nat, items : Seq(Item)]

(* The reference_id of a stock movement: an order, or an admin's own note.  *)
Manual == "manual"
Refs == Orders \union {Manual}

RestoreReason == [s \in StockRestoring |->
                    CASE s = "cancelled" -> "auto_restore_cancelled"
                      [] s = "fake"      -> "auto_restore_fake"
                      [] s = "returned"  -> "auto_restore_returned"]

Reasons == {RestoreReason[s] : s \in StockRestoring}
             \union {"order_placed", "recovery_rededuct", "refund_restock",
                     "manual"}

LogRow == [call : Calls, item : Nat, ref : Refs, variant : Variants,
           change : Int, reason : Reasons]

(* "by" is the handler that wrote the row, which its reason text tells.     *)
Handlers == {"status", "verify", "payment", "refund", "zone"}

HistoryRow == [call : Calls, order : Orders, from : OrderStatuses,
               to : OrderStatuses, by : Handlers]

RefundRow == [call : Calls, order : Orders, amount : Nat \ {0}]

(* What checkout charges for the items, and the row it inserts: the whole   *)
(* total counts as paid for an advance payment, the deposit for a preorder. *)
Subtotal(items) ==
  SumFunction([i \in DOMAIN items |-> items[i].price * items[i].quantity])

NewOrder(items, zone, method, preorder, deposit, hasTrxID) ==
  LET fee    == ZoneCost[zone]
      total  == Subtotal(items) + fee
      status == DetermineInitialStatus(method, preorder, deposit, hasTrxID)
  IN  [status |-> status, payment |-> status, method |-> method,
       preorder |-> preorder,
       paid |-> IF preorder THEN deposit
                ELSE IF method = "mobile_banking" THEN total ELSE 0,
       refunded |-> 0, zone |-> zone, fee |-> fee, total |-> total,
       items |-> items]

-----------------------------------------------------------------------------
(* Statements, one constructor per repository method *)

UpdateStock(ref, i, v, change, reason) ==
  [op |-> "UpdateStock", ref |-> ref, item |-> i, variant |-> v,
   change |-> change, reason |-> reason]

UpdateStatus(o, s) == [op |-> "UpdateStatus", order |-> o, status |-> s]

UpdatePayment(o, p) == [op |-> "UpdatePayment", order |-> o, payment |-> p]

UpdatePaidAmount(o, a) ==
  [op |-> "UpdatePaidAmount", order |-> o, amount |-> a]

CreateRefund(o, a) == [op |-> "CreateRefund", order |-> o, amount |-> a]

UpdateRefundedAmount(o, a) ==
  [op |-> "UpdateRefundedAmount", order |-> o, amount |-> a]

UpdateShippingDetails(o, z, f, t) ==
  [op |-> "UpdateShippingDetails", order |-> o, zone |-> z, fee |-> f,
   total |-> t]

CreateHistory(o, from, to, by) ==
  [op |-> "CreateHistory", order |-> o, from |-> from, to |-> to, by |-> by]

Statement ==
  [op : {"UpdateStock"}, ref : Refs, item : Nat, variant : Variants,
   change : Int, reason : Reasons]
    \union [op : {"UpdateStatus"}, order : Orders, status : OrderStatuses]
    \union [op : {"UpdatePayment"}, order : Orders, payment : PaymentStatuses]
    \union [op : {"UpdatePaidAmount"}, order : Orders, amount : Nat]
    \union [op : {"CreateRefund", "UpdateRefundedAmount"}, order : Orders,
            amount : Nat \ {0}]
    \union [op : {"UpdateShippingDetails"}, order : Orders, zone : Zones,
            fee : Nat, total : Nat]
    \union [op : {"CreateHistory"}, order : Orders, from : OrderStatuses,
            to : OrderStatuses, by : Handlers]

-----------------------------------------------------------------------------
(* What each statement does.  c is the call that executes st.              *)

(* Mutant: the UPDATE without "AND stock + change >= 0".                   *)
ExecUpdateStockUnguarded(c, st) ==
  /\ st.op = "UpdateStock"
  /\ stock' = [stock EXCEPT ![st.variant] = @ + st.change]
  /\ log' = log \union {[call |-> c, item |-> st.item, ref |-> st.ref,
                         variant |-> st.variant, change |-> st.change,
                         reason |-> st.reason]}
  /\ UNCHANGED <<placed, orders, history, refunds>>

(* Mutant: GREATEST(stock + change, 0) instead of the guard, so the log     *)
(* claims more than was taken.                                             *)
ExecUpdateStockClamped(c, st) ==
  LET left == stock[st.variant] + st.change
  IN  /\ st.op = "UpdateStock"
      /\ stock' = [stock EXCEPT ![st.variant] = IF left < 0 THEN 0 ELSE left]
      /\ log' = log \union {[call |-> c, item |-> st.item, ref |-> st.ref,
                             variant |-> st.variant, change |-> st.change,
                             reason |-> st.reason]}
      /\ UNCHANGED <<placed, orders, history, refunds>>

(* UPDATE variants ... WHERE stock + change >= 0 and its log row, in one    *)
(* transaction of the product repository.                                  *)
ExecUpdateStock(c, st) ==
  /\ st.op = "UpdateStock"
  /\ stock[st.variant] + st.change >= 0
  /\ stock' = [stock EXCEPT ![st.variant] = @ + st.change]
  /\ log' = log \union {[call |-> c, item |-> st.item, ref |-> st.ref,
                         variant |-> st.variant, change |-> st.change,
                         reason |-> st.reason]}
  /\ UNCHANGED <<placed, orders, history, refunds>>

(* An UPDATE of columns of one order row, whatever the row holds by now.    *)
ExecUpdateOrder(st) ==
  /\ \/ /\ st.op = "UpdateStatus"
        /\ orders' = [orders EXCEPT ![st.order].status = st.status]
     \/ /\ st.op = "UpdatePayment"
        /\ orders' = [orders EXCEPT ![st.order].payment = st.payment]
     \/ /\ st.op = "UpdatePaidAmount"
        /\ orders' = [orders EXCEPT ![st.order].paid = st.amount]
  /\ UNCHANGED <<placed, stock, log, history, refunds>>

ExecUpdateShippingDetails(st) ==
  /\ st.op = "UpdateShippingDetails"
  /\ orders' = [orders EXCEPT ![st.order] =
                  [@ EXCEPT !.zone = st.zone, !.fee = st.fee,
                            !.total = st.total]]
  /\ UNCHANGED <<placed, stock, log, history, refunds>>

ExecCreateRefund(c, st) ==
  /\ st.op = "CreateRefund"
  /\ refunds' = refunds \union {[call |-> c, order |-> st.order,
                                 amount |-> st.amount]}
  /\ UNCHANGED <<placed, orders, stock, log, history>>

(* The CASE expressions of UpdateOrderRefundedAmount: once the refunds      *)
(* cover what was paid, order and payment both become "refunded".          *)
RefundTotals(row, amount) ==
  LET refunded == row.refunded + amount
      full     == refunded >= row.paid
  IN  [row EXCEPT !.refunded = refunded,
                  !.payment = IF full THEN "refunded" ELSE "partial_refund",
                  !.status = IF full THEN "refunded" ELSE @]

ExecUpdateRefundedAmount(st) ==
  /\ st.op = "UpdateRefundedAmount"
  /\ orders' = [orders EXCEPT ![st.order] = RefundTotals(@, st.amount)]
  /\ UNCHANGED <<placed, stock, log, history, refunds>>

ExecCreateHistory(c, st) ==
  /\ st.op = "CreateHistory"
  /\ history' = history \union {[call |-> c, order |-> st.order,
                                 from |-> st.from, to |-> st.to, by |-> st.by]}
  /\ UNCHANGED <<placed, orders, stock, log, refunds>>

Exec(c, st) ==
  \/ ExecUpdateStock(c, st)
  \/ ExecUpdateOrder(st)
  \/ ExecUpdateShippingDetails(st)
  \/ ExecCreateRefund(c, st)
  \/ ExecUpdateRefundedAmount(st)
  \/ ExecCreateHistory(c, st)

(* The one error the statements themselves can raise.                      *)
InsufficientStock(st) ==
  st.op = "UpdateStock" /\ stock[st.variant] + st.change < 0

-----------------------------------------------------------------------------
(* A call's life: begin, execute statement by statement, or give up.        *)

InFlight == {c \in Calls : todo[c] # <<>>}

(* A request that passed its validation, with the statements it will run.  *)
Begin(c, statements) ==
  /\ c \notin begun
  /\ Cardinality(InFlight) < MaxInFlight
  /\ begun' = begun \union {c}
  /\ todo' = [todo EXCEPT ![c] = statements]
  /\ UNCHANGED tables

Execute(c) ==
  /\ todo[c] # <<>>
  /\ Exec(c, Head(todo[c]))
  /\ todo' = [todo EXCEPT ![c] = Tail(@)]
  /\ UNCHANGED begun

(* Do rolls its own empty transaction back and returns the error.          *)
Rollback(c) ==
  /\ todo[c] # <<>>
  /\ InsufficientStock(Head(todo[c])) \/ Faults
  /\ todo' = [todo EXCEPT ![c] = <<>>]
  /\ UNCHANGED <<tables, begun>>

StoreTypeOK ==
  /\ placed \subseteq Orders
  /\ orders \in [Orders -> OrderRow]
  /\ stock \in [Variants -> Nat]
  /\ log \subseteq LogRow
  /\ history \subseteq HistoryRow
  /\ refunds \subseteq RefundRow
  /\ begun \subseteq Calls
  /\ todo \in [Calls -> Seq(Statement)]
=============================================================================
