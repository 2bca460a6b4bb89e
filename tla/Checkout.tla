------------------------------ MODULE Checkout ------------------------------
(***************************************************************************)
(* Customers' carts and checkout.  A checkout reads the cart, prices it,   *)
(* and runs its statements inside TransactionManager.Do, with the same     *)
(* consequence as in OrderStore: each commits by itself, the row lock of   *)
(* GetVariantByIDForUpdate is gone as soon as the SELECT returns, and an    *)
(* error keeps the order, the items and the stock already written.  The    *)
(* other cart requests are one statement each.                             *)
(***************************************************************************)
EXTENDS OrderStore

CONSTANTS
  Users,
  Price,          \* variant -> the price checkout resolves for it
  Deposit,        \* preorder variant -> deposit per unit; others are absent
  MaxQuantity,    \* bound: units of a variant asked for in a cart
  Payments,       \* the payment methods asked for, with or without trx info
  InitCarts,      \* carts the customers start with
  InitStock

ASSUME PriceAssumption == Price \in [Variants -> Nat \ {0}]
ASSUME DepositAssumption ==
  DOMAIN Deposit \subseteq Variants /\ \A v \in DOMAIN Deposit : Deposit[v] \in Nat
ASSUME PaymentsAssumption == Payments \subseteq PaymentMethods \X BOOLEAN
ASSUME InitStockAssumption == InitStock \in [Variants -> Nat]
ASSUME MaxQuantityAssumption == MaxQuantity \in Nat
ASSUME ZonesAssumption == Zones # {}    \* the columns of an id not placed yet

VARIABLES
  carts,          \* user -> the rows of cart_items, in order
  confirmed       \* orders whose checkout answered with success

cvars == <<vars, carts, confirmed>>

CartLine == [variant : Variants, quantity : Nat \ {0}]

ASSUME InitCartsAssumption == InitCarts \subseteq [Users -> Seq(CartLine)]

-----------------------------------------------------------------------------
(* Cart requests *)

LineOf(u, v) == {k \in DOMAIN carts[u] : carts[u][k].variant = v}

(* UpsertCartItemAtomic: set the line's quantity or insert it, if the stock *)
(* of this moment covers it; otherwise nothing and an error.               *)
UpdateCartItemQuantity(u, v, quantity) ==
  /\ stock[v] >= quantity
  /\ carts' = [carts EXCEPT ![u] =
                 IF LineOf(u, v) = {}
                 THEN Append(@, [variant |-> v, quantity |-> quantity])
                 ELSE [k \in DOMAIN @ |->
                         IF k \in LineOf(u, v)
                         THEN [@[k] EXCEPT !.quantity = quantity] ELSE @[k]]]
  /\ UNCHANGED <<vars, confirmed>>

(* The variant's rows are deleted; the others stay, in their order.         *)
RemoveFromCart(u, v) ==
  LET kept == DOMAIN carts[u] \ LineOf(u, v)
  IN  /\ \E k \in [1..Cardinality(kept) -> kept] :
           /\ \A i, j \in DOMAIN k : i < j => k[i] < k[j]
           /\ carts' = [carts EXCEPT ![u] = [j \in DOMAIN k |-> @[k[j]]]]
      /\ UNCHANGED <<vars, confirmed>>

-----------------------------------------------------------------------------
(* Statements of checkout *)

InsertOrder(o, row) == [op |-> "InsertOrder", order |-> o, row |-> row]
InsertItem(o, item) == [op |-> "InsertItem", order |-> o, item |-> item]
LockVariant(v, quantity) ==
  [op |-> "LockVariant", variant |-> v, quantity |-> quantity]
ClearCart(u) == [op |-> "ClearCart", user |-> u]
Commit(o) == [op |-> "Commit", order |-> o]

ExecInsertOrder(st) ==
  /\ st.op = "InsertOrder"
  /\ placed' = placed \union {st.order}
  /\ orders' = [orders EXCEPT ![st.order] = st.row]
  /\ UNCHANGED <<stock, log, history, refunds, carts, confirmed>>

ExecInsertItem(st) ==
  /\ st.op = "InsertItem"
  /\ orders' = [orders EXCEPT ![st.order].items = Append(@, st.item)]
  /\ UNCHANGED <<placed, stock, log, history, refunds, carts, confirmed>>

(* SELECT ... FOR UPDATE on its own connection: only the comparison lasts.  *)
ExecLockVariant(st) ==
  /\ st.op = "LockVariant"
  /\ stock[st.variant] >= st.quantity
  /\ UNCHANGED <<tables, carts, confirmed>>

ExecClearCart(st) ==
  /\ st.op = "ClearCart"
  /\ carts' = [carts EXCEPT ![st.user] = <<>>]
  /\ UNCHANGED <<tables, confirmed>>

ExecCommit(st) ==
  /\ st.op = "Commit"
  /\ confirmed' = confirmed \union {st.order}
  /\ UNCHANGED <<tables, carts>>

(* One line of the cart as an order item, priced as checkout prices it.     *)
OrderItem(line) ==
  [variant |-> line.variant, quantity |-> line.quantity,
   price |-> Price[line.variant]]

(* Mutant: the loop stops one item early.                                  *)
ReserveAllButLast(o, items) ==
  [k \in 1..(2 * Len(items) - 2) |->
     LET i    == (k + 1) \div 2
         item == items[i]
     IN  IF k % 2 = 1 THEN LockVariant(item.variant, item.quantity)
         ELSE UpdateStock(o, i, item.variant, -item.quantity, "order_placed")]

(* 6a of Checkout: for every item, lock and compare, then deduct.          *)
ReserveStatements(o, items) ==
  [k \in 1..(2 * Len(items)) |->
     LET i    == (k + 1) \div 2
         item == items[i]
     IN  IF k % 2 = 1 THEN LockVariant(item.variant, item.quantity)
         ELSE UpdateStock(o, i, item.variant, -item.quantity, "order_placed")]

(* Mutant: the cart is cleared as soon as the order exists.                *)
CheckoutClearsFirst(o, u, row) ==
  <<InsertOrder(o, [row EXCEPT !.items = <<>>])>>
    \o [i \in DOMAIN row.items |-> InsertItem(o, row.items[i])]
    \o <<ClearCart(u)>>
    \o ReserveStatements(o, row.items)
    \o <<Commit(o)>>

CheckoutStatements(o, u, row) ==
  <<InsertOrder(o, [row EXCEPT !.items = <<>>])>>
    \o [i \in DOMAIN row.items |-> InsertItem(o, row.items[i])]
    \o ReserveStatements(o, row.items)
    \o <<ClearCart(u), Commit(o)>>

-----------------------------------------------------------------------------
(* An id no row has and no other checkout is about to insert.              *)
Fresh(o) ==
  /\ o \notin placed
  /\ \A c \in InFlight : Head(todo[c]).op = "InsertOrder" => Head(todo[c]).order # o

DepositRequired(items) ==
  LET preordered == {i \in DOMAIN items : items[i].variant \in DOMAIN Deposit}
  IN  SumFunction([i \in preordered |->
                     Deposit[items[i].variant] * items[i].quantity])

(* The checkout request of user u: an empty cart and a deposit without      *)
(* payment information are refused.                                        *)
Submit(c, u, zone, method, hasTrxID) ==
  LET items    == [k \in DOMAIN carts[u] |-> OrderItem(carts[u][k])]
      preorder == \E k \in DOMAIN items : items[k].variant \in DOMAIN Deposit
      deposit  == DepositRequired(items)
  IN  /\ items # <<>>
      /\ preorder /\ deposit > 0 => hasTrxID
      /\ \E o \in Orders :
           /\ Fresh(o)
           /\ Begin(c, CheckoutStatements(o, u,
                         NewOrder(items, zone, method, preorder, deposit, hasTrxID)))
      /\ UNCHANGED <<carts, confirmed>>

ExecuteCheckout(c) ==
  /\ todo[c] # <<>>
  /\ LET st == Head(todo[c])
     IN  \/ ExecInsertOrder(st)
         \/ ExecInsertItem(st)
         \/ ExecLockVariant(st)
         \/ ExecUpdateStock(c, st) /\ UNCHANGED <<carts, confirmed>>
         \/ ExecClearCart(st)
         \/ ExecCommit(st)
  /\ todo' = [todo EXCEPT ![c] = Tail(@)]
  /\ UNCHANGED begun

(* The comparison under the lock fails, or the statement does.             *)
FailCheckout(c) ==
  /\ todo[c] # <<>>
  /\ LET st == Head(todo[c])
     IN  \/ st.op = "LockVariant" /\ stock[st.variant] < st.quantity
         \/ InsufficientStock(st)
         \/ Faults
  /\ todo' = [todo EXCEPT ![c] = <<>>]
  /\ UNCHANGED <<tables, begun, carts, confirmed>>

-----------------------------------------------------------------------------
NoRow == NewOrder(<<>>, CHOOSE z \in Zones : TRUE, "cod", FALSE, 0, FALSE)

Init ==
  /\ placed = {}
  /\ orders = [o \in Orders |-> NoRow]
  /\ stock = InitStock
  /\ log = {} /\ history = {} /\ refunds = {}
  /\ begun = {}
  /\ todo = [c \in Calls |-> <<>>]
  /\ carts \in InitCarts
  /\ confirmed = {}

Next ==
  \/ \E u \in Users, v \in Variants :
       \/ \E q \in 1..MaxQuantity : UpdateCartItemQuantity(u, v, q)
       \/ RemoveFromCart(u, v)
  \/ \E c \in Calls :
       \/ \E u \in Users, z \in Zones, p \in Payments : Submit(c, u, z, p[1], p[2])
       \/ ExecuteCheckout(c)
       \/ FailCheckout(c)

Spec == Init /\ [][Next]_cvars

-----------------------------------------------------------------------------
(* Properties *)

CheckoutStatement ==
  [op : {"InsertOrder"}, order : Orders, row : OrderRow]
    \union [op : {"InsertItem"}, order : Orders, item : Item]
    \union [op : {"LockVariant"}, variant : Variants, quantity : Nat \ {0}]
    \union [op : {"ClearCart"}, user : Users]
    \union [op : {"Commit"}, order : Orders]

TypeOK ==
  /\ placed \subseteq Orders
  /\ orders \in [Orders -> OrderRow]
  /\ stock \in [Variants -> Nat]
  /\ log \subseteq LogRow
  /\ history = {} /\ refunds = {}
  /\ begun \subseteq Calls
  /\ todo \in [Calls -> Seq(Statement \union CheckoutStatement)]
  /\ carts \in [Users -> Seq(CartLine)]
  /\ confirmed \subseteq placed

(* Units of v in the items, and those the customers with a confirmed order  *)
(* are promised.                                                           *)
Units(items, v) ==
  SumFunctionOnSet([i \in DOMAIN items |-> items[i].quantity],
                   {i \in DOMAIN items : items[i].variant = v})

Promised(v) == SumFunction([o \in confirmed |-> Units(orders[o].items, v)])

(* Checkouts racing for the last units never promise more than there was,   *)
(* although the row lock protects nothing: the guard of UpdateVariantStock  *)
(* does.                                                                   *)
NoOversell == \A v \in Variants : Promised(v) <= InitStock[v]

(* A checkout that answered with success left a whole order: items that add *)
(* up to its total, each taken from stock once.                            *)
ConfirmedWhole ==
  \A o \in confirmed :
    LET row == orders[o]
    IN  /\ row.total = Subtotal(row.items) + row.fee
        /\ \A i \in DOMAIN row.items :
             Cardinality({r \in log : /\ r.ref = o /\ r.item = i
                                      /\ r.variant = row.items[i].variant
                                      /\ r.change = -row.items[i].quantity}) = 1

(* A checkout clears the cart only after every item is taken from stock, so *)
(* a refused checkout never costs the customer the cart.                   *)
ClearedAfterReserving ==
  [][\A u \in Users :
       carts[u] # <<>> /\ carts'[u] = <<>> /\ todo' # todo =>
         \E c \in Calls, o \in placed :
           /\ todo'[c] = <<Commit(o)>>
           /\ \A i \in DOMAIN orders[o].items :
                \E r \in log : r.call = c /\ r.ref = o /\ r.item = i]_cvars

(* "Advance payment - require trx info": an order that counts money as paid  *)
(* names the transaction an administrator can verify.                      *)
AdvanceIsVerifiable ==
  \A o \in placed : orders[o].paid > 0 =>
                       orders[o].payment = "pending_verification"

(* "Lock row for update to prevent race conditions": from the comparison to *)
(* the deduction nobody else changes the stock of the variant.             *)
LockProtects ==
  [][\A c \in InFlight :
       LET st == Head(todo[c])
       IN  st.op = "UpdateStock" /\ todo'[c] = todo[c] =>
             stock'[st.variant] = stock[st.variant]]_cvars

(* "Transaction: Create Order, Update Stock, ..., Clear Cart": an order     *)
(* exists only if its checkout succeeded or is still running.              *)
CheckoutIsAtomic ==
  InFlight = {} => placed = confirmed
=============================================================================
