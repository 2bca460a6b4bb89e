--------------------------- MODULE CheckoutProofs ---------------------------
(***************************************************************************)
(* Proofs about Checkout and PurchaseEvents for any users, variants, carts, *)
(* orders and calls, any number of checkouts in flight, with or without    *)
(* failing statements, and processes that stop.                            *)
(*                                                                         *)
(* The inductive invariant ties every call in flight to the order, the row  *)
(* and the position it has reached in its list of statements: what the     *)
(* tables hold of the order is exactly what the executed part wrote.       *)
(***************************************************************************)
EXTENDS PurchaseEvents, SequenceTheorems, SumProofs

AnyStatement == Statement \union CheckoutStatement

(* A row as checkout prices it.                                            *)
Priced(row) ==
  /\ row \in OrderRow
  /\ row.items # <<>>
  /\ row.total = Subtotal(row.items) + row.fee

(* What is left of a checkout after its first k statements.                *)
Remaining(o, u, row, k) ==
  SubSeq(CheckoutStatements(o, u, row), k + 1, 3 * Len(row.items) + 3)

(* The rows of the log that name the order, and those that k statements of  *)
(* call c have written.                                                    *)
LoggedFor(o) == {r \in log : r.ref = o}

Deduction(c, o, items, i) ==
  [call |-> c, item |-> i, ref |-> o, variant |-> items[i].variant,
   change |-> -items[i].quantity, reason |-> "order_placed"]

Deductions(c, o, items, k) ==
  {Deduction(c, o, items, i) : i \in {i \in 1..Len(items) : Len(items) + 2 * i < k}}

ItemsInserted(row, k) ==
  SubSeq(row.items, 1, IF k - 1 < Len(row.items) THEN k - 1 ELSE Len(row.items))

(* Call c runs the checkout of o and has executed k statements.            *)
Runs(c, o, u, row, k) ==
  /\ o \in Orders /\ u \in Users /\ Priced(row)
  /\ k \in 0..(3 * Len(row.items) + 2)
  /\ todo[c] = Remaining(o, u, row, k)
  /\ o \notin confirmed
  /\ o \in placed <=> k > 0
  /\ k > 0 => orders[o] = [row EXCEPT !.items = ItemsInserted(row, k)]
  /\ LoggedFor(o) = Deductions(c, o, row.items, k)

(* The order of the last statement, Commit.                                *)
OrderOf(c) == todo[c][Len(todo[c])].order

(* Call c confirmed o and left it whole.                                   *)
Settled(c, o) ==
  /\ Priced(orders[o])
  /\ LoggedFor(o) = {Deduction(c, o, orders[o].items, i) : i \in 1..Len(orders[o].items)}

UnitsTaken(v) ==
  SumFunctionOnSet([r \in log |-> -r.change], {r \in log : r.variant = v})

RunsInv ==
  /\ \A c \in InFlight : c \in begun /\ \E o, u, row, k : Runs(c, o, u, row, k)
  /\ \A c, d \in InFlight : OrderOf(c) = OrderOf(d) => c = d

LogInv ==
  /\ IsFiniteSet(log)
  /\ \A r \in log : r.ref \in placed /\ r.change < 0
  /\ \A v \in Variants : stock[v] + UnitsTaken(v) = InitStock[v]

ConfirmedInv ==
  /\ IsFiniteSet(confirmed)
  /\ \A o \in confirmed : \E c \in Calls : Settled(c, o)

CheckoutInv == TypeOK /\ RunsInv /\ LogInv /\ ConfirmedInv

-----------------------------------------------------------------------------
(* The list of statements *)

LEMMA PricedRow ==
  ASSUME NEW row, Priced(row)
  PROVE  /\ row.items \in Seq(Item) /\ Len(row.items) \in Nat \ {0}
         /\ \A i \in 1..Len(row.items) :
              /\ row.items[i] \in Item
              /\ row.items[i].variant \in Variants
              /\ row.items[i].quantity \in Nat \ {0}
              /\ -row.items[i].quantity \in Int
<1>1. row.items \in Seq(Item)
  BY DEF Priced, OrderRow
<1>2. \A i \in 1..Len(row.items) : row.items[i] \in Item
  BY <1>1, ElementOfSeq
<1>3. Len(row.items) \in Nat \ {0}
  BY <1>1, EmptySeq DEF Priced
<1> QED  BY <1>1, <1>2, <1>3 DEF Item

LEMMA RowWithItems ==
  ASSUME NEW row \in OrderRow, NEW items \in Seq(Item)
  PROVE  /\ [row EXCEPT !.items = items] \in OrderRow
         /\ [row EXCEPT !.items = items].items = items
         /\ \A more : [[row EXCEPT !.items = items] EXCEPT !.items = more]
                        = [row EXCEPT !.items = more]
         /\ [row EXCEPT !.items = row.items] = row
BY DEF OrderRow

LEMMA Joined ==
  ASSUME NEW S, NEW s \in Seq(S), NEW t \in Seq(S)
  PROVE  /\ s \o t \in Seq(S) /\ Len(s \o t) = Len(s) + Len(t)
         /\ \A i \in 1..Len(s) : (s \o t)[i] = s[i]
         /\ \A i \in 1..Len(t) : (s \o t)[Len(s) + i] = t[i]
<1>1. Len(s) \in Nat /\ Len(t) \in Nat
  BY LenProperties
<1>2. s \o t \in Seq(S) /\ Len(s \o t) = Len(s) + Len(t)
      /\ \A i \in 1..(Len(s) + Len(t)) :
           (s \o t)[i] = IF i <= Len(s) THEN s[i] ELSE t[i - Len(s)]
  BY ConcatProperties
<1>3. \A i \in 1..Len(s) : i \in 1..(Len(s) + Len(t)) /\ i <= Len(s)
  BY <1>1
<1>4. \A i \in 1..Len(t) : /\ Len(s) + i \in 1..(Len(s) + Len(t))
                           /\ ~(Len(s) + i <= Len(s)) /\ (Len(s) + i) - Len(s) = i
  BY <1>1
<1> QED  BY <1>2, <1>3, <1>4

(* The statement at each position, by the loop of Checkout that adds it.    *)
IsPlan(plan, o, u, row, n) ==
  /\ plan \in Seq(AnyStatement) /\ Len(plan) = 3 * n + 3
  /\ plan[1] = InsertOrder(o, [row EXCEPT !.items = <<>>])
  /\ \A i \in 1..n :
       /\ plan[i + 1] = InsertItem(o, row.items[i])
       /\ plan[n + 2 * i] = LockVariant(row.items[i].variant, row.items[i].quantity)
       /\ plan[n + 2 * i + 1]
            = UpdateStock(o, i, row.items[i].variant,
                          -row.items[i].quantity, "order_placed")
  /\ plan[3 * n + 2] = ClearCart(u)
  /\ plan[3 * n + 3] = Commit(o)

LEMMA Plan ==
  ASSUME NEW o \in Orders, NEW u \in Users, NEW row, Priced(row)
  PROVE  IsPlan(CheckoutStatements(o, u, row), o, u, row, Len(row.items))
<1> DEFINE n == Len(row.items)
           first == <<InsertOrder(o, [row EXCEPT !.items = <<>>])>>
           items == [i \in DOMAIN row.items |-> InsertItem(o, row.items[i])]
           reserve == ReserveStatements(o, row.items)
           last == <<ClearCart(u), Commit(o)>>
<1>1. /\ n \in Nat \ {0}
      /\ row.items \in Seq(Item)
      /\ \A i \in 1..n : /\ row.items[i] \in Item
                         /\ row.items[i].variant \in Variants
                         /\ row.items[i].quantity \in Nat \ {0}
                         /\ -row.items[i].quantity \in Int
  BY PricedRow
<1>2. first \in Seq(AnyStatement) /\ Len(first) = 1
  <2>1. [row EXCEPT !.items = <<>>] \in OrderRow
    BY RowWithItems, EmptySeq DEF Priced
  <2>2. InsertOrder(o, [row EXCEPT !.items = <<>>]) \in AnyStatement
    BY <2>1 DEF AnyStatement, CheckoutStatement, InsertOrder
  <2> HIDE DEF first
  <2> QED  BY <2>2 DEF first
<1>3. items \in Seq(AnyStatement) /\ Len(items) = n
  <2>1. \A i \in 1..n : InsertItem(o, row.items[i]) \in AnyStatement
    BY <1>1 DEF AnyStatement, CheckoutStatement, InsertItem
  <2>2. DOMAIN row.items = 1..n
    BY <1>1, LenProperties
  <2>3. items \in [1..n -> AnyStatement]
    BY <2>1, <2>2
  <2> HIDE DEF items
  <2> QED  BY <1>1, <2>3, SeqDef
<1>4. /\ reserve \in Seq(AnyStatement) /\ Len(reserve) = 2 * n
      /\ \A i \in 1..n :
           /\ reserve[2 * i - 1]
                = LockVariant(row.items[i].variant, row.items[i].quantity)
           /\ reserve[2 * i] = UpdateStock(o, i, row.items[i].variant,
                                           -row.items[i].quantity, "order_placed")
  <2>1. ASSUME NEW k \in 1..(2 * n)
        PROVE  (k + 1) \div 2 \in 1..n
    BY <1>1
  <2>2. ASSUME NEW k \in 1..(2 * n), NEW i \in 1..n
        PROVE  /\ LockVariant(row.items[i].variant, row.items[i].quantity) \in AnyStatement
               /\ UpdateStock(o, i, row.items[i].variant, -row.items[i].quantity,
                              "order_placed") \in AnyStatement
    <3>1. "order_placed" \in Reasons
      BY DEF Reasons
    <3>2. row.items[i].variant \in Variants /\ row.items[i].quantity \in Nat \ {0}
      BY <1>1
    <3>3. LockVariant(row.items[i].variant, row.items[i].quantity) \in AnyStatement
      BY <3>2 DEF AnyStatement, CheckoutStatement, LockVariant
    <3>4. o \in Refs /\ i \in Nat
      BY DEF Refs
    <3>5. -row.items[i].quantity \in Int
      BY <3>2
    <3>6. UpdateStock(o, i, row.items[i].variant, -row.items[i].quantity,
                      "order_placed") \in AnyStatement
      BY <3>1, <3>2, <3>4, <3>5 DEF AnyStatement, Statement, UpdateStock
    <3> QED  BY <3>3, <3>6
  <2>3. reserve \in [1..(2 * n) -> AnyStatement]
    BY <2>1, <2>2 DEF ReserveStatements
  <2>4. ASSUME NEW i \in 1..n
        PROVE  /\ 2 * i - 1 \in 1..(2 * n) /\ 2 * i \in 1..(2 * n)
               /\ ((2 * i - 1) + 1) \div 2 = i /\ (2 * i - 1) % 2 = 1
               /\ (2 * i + 1) \div 2 = i /\ (2 * i) % 2 # 1
    BY <1>1
  <2>5. ASSUME NEW i \in 1..n
        PROVE  /\ reserve[2 * i - 1]
                    = LockVariant(row.items[i].variant, row.items[i].quantity)
               /\ reserve[2 * i] = UpdateStock(o, i, row.items[i].variant,
                                               -row.items[i].quantity, "order_placed")
    BY <2>4 DEF ReserveStatements
  <2>6. 2 * n \in Nat
    BY <1>1
  <2> HIDE DEF reserve
  <2>7. reserve \in Seq(AnyStatement) /\ Len(reserve) = 2 * n
    <3> DEFINE m == 2 * n
    <3>1. m \in Nat /\ reserve \in [1..m -> AnyStatement]
      BY <2>3, <2>6
    <3> HIDE DEF m, n
    <3>2. reserve \in Seq(AnyStatement) /\ Len(reserve) = m
      BY <3>1, SeqDef
    <3> QED  BY <3>2 DEF m
  <2> HIDE DEF n
  <2> QED  BY <2>5, <2>7
<1>5. last \in Seq(AnyStatement) /\ Len(last) = 2 /\ last[1] = ClearCart(u)
      /\ last[2] = Commit(o)
  <2>1. ClearCart(u) \in AnyStatement /\ Commit(o) \in AnyStatement
    BY DEF AnyStatement, CheckoutStatement, ClearCart, Commit
  <2> QED  BY <2>1
<1>6. CheckoutStatements(o, u, row) = ((first \o items) \o reserve) \o last
  BY DEF CheckoutStatements
<1>7. first[1] = InsertOrder(o, [row EXCEPT !.items = <<>>])
      /\ \A i \in 1..n : items[i] = InsertItem(o, row.items[i])
  BY <1>1, LenProperties
<1> HIDE DEF first, items, reserve, last, n
<1> DEFINE a == first \o items
           b == a \o reserve
           plan == b \o last
<1>8. a \in Seq(AnyStatement) /\ Len(a) = 1 + n
      /\ (\A i \in 1..1 : a[i] = first[i])
      /\ \A i \in 1..n : a[1 + i] = items[i]
  <2>1. first \in Seq(AnyStatement) /\ items \in Seq(AnyStatement)
    BY <1>2, <1>3
  <2>2. /\ first \o items \in Seq(AnyStatement) /\ Len(first \o items) = Len(first) + Len(items)
        /\ \A i \in 1..Len(first) : (first \o items)[i] = first[i]
        /\ \A i \in 1..Len(items) : (first \o items)[Len(first) + i] = items[i]
    BY <2>1, Joined
  <2> QED  BY <1>1, <1>2, <1>3, <2>2
<1> HIDE DEF a
<1>9. b \in Seq(AnyStatement) /\ Len(b) = (1 + n) + 2 * n
      /\ (\A i \in 1..(1 + n) : b[i] = a[i])
      /\ \A i \in 1..(2 * n) : b[(1 + n) + i] = reserve[i]
  <2>1. a \in Seq(AnyStatement) /\ reserve \in Seq(AnyStatement)
    BY <1>4, <1>8
  <2>2. /\ a \o reserve \in Seq(AnyStatement) /\ Len(a \o reserve) = Len(a) + Len(reserve)
        /\ \A i \in 1..Len(a) : (a \o reserve)[i] = a[i]
        /\ \A i \in 1..Len(reserve) : (a \o reserve)[Len(a) + i] = reserve[i]
    BY <2>1, Joined
  <2> QED  BY <1>1, <1>4, <1>8, <2>2
<1> HIDE DEF b
<1>10. plan \in Seq(AnyStatement) /\ Len(plan) = ((1 + n) + 2 * n) + 2
       /\ (\A i \in 1..((1 + n) + 2 * n) : plan[i] = b[i])
       /\ \A i \in 1..2 : plan[((1 + n) + 2 * n) + i] = last[i]
  <2>1. b \in Seq(AnyStatement) /\ last \in Seq(AnyStatement)
    BY <1>5, <1>9
  <2>2. /\ b \o last \in Seq(AnyStatement) /\ Len(b \o last) = Len(b) + Len(last)
        /\ \A i \in 1..Len(b) : (b \o last)[i] = b[i]
        /\ \A i \in 1..Len(last) : (b \o last)[Len(b) + i] = last[i]
    BY <2>1, Joined
  <2> QED  BY <1>1, <1>5, <1>9, <2>2
<1>11. CheckoutStatements(o, u, row) = plan
  BY <1>6 DEF a, b
<1> HIDE DEF plan
<1>12. plan[1] = InsertOrder(o, [row EXCEPT !.items = <<>>])
  <2>1. 1 \in 1..((1 + n) + 2 * n) /\ 1 \in 1..(1 + n) /\ 1 \in 1..1
    BY <1>1
  <2> QED  BY <1>7, <1>8, <1>9, <1>10, <2>1
<1>13. ASSUME NEW i \in 1..n
       PROVE  /\ plan[i + 1] = InsertItem(o, row.items[i])
              /\ plan[n + 2 * i]
                   = LockVariant(row.items[i].variant, row.items[i].quantity)
              /\ plan[n + 2 * i + 1]
                   = UpdateStock(o, i, row.items[i].variant,
                                 -row.items[i].quantity, "order_placed")
  <2>1. /\ 1 + i = i + 1 /\ 1 + i \in 1..((1 + n) + 2 * n) /\ 1 + i \in 1..(1 + n)
        /\ n + 2 * i = (1 + n) + (2 * i - 1) /\ 2 * i - 1 \in 1..(2 * n)
        /\ (1 + n) + (2 * i - 1) \in 1..((1 + n) + 2 * n)
        /\ n + 2 * i + 1 = (1 + n) + 2 * i /\ 2 * i \in 1..(2 * n)
        /\ (1 + n) + 2 * i \in 1..((1 + n) + 2 * n)
    BY <1>1
  <2>2. plan[i + 1] = items[i]
    BY <1>8, <1>9, <1>10, <2>1
  <2>3. plan[n + 2 * i] = reserve[2 * i - 1]
    BY <1>9, <1>10, <2>1
  <2>4. plan[n + 2 * i + 1] = reserve[2 * i]
    BY <1>9, <1>10, <2>1
  <2> QED  BY <1>4, <1>7, <2>2, <2>3, <2>4
<1>14. plan[3 * n + 2] = ClearCart(u) /\ plan[3 * n + 3] = Commit(o)
       /\ Len(plan) = 3 * n + 3
  <2>1. 3 * n + 2 = ((1 + n) + 2 * n) + 1 /\ 3 * n + 3 = ((1 + n) + 2 * n) + 2
    BY <1>1
  <2> QED  BY <1>5, <1>10, <2>1
<1>15. IsPlan(plan, o, u, row, n)
  BY <1>10, <1>12, <1>13, <1>14 DEF IsPlan
<1> QED  BY <1>11, <1>15 DEF n

(* Where a checkout that has executed k statements stands.                  *)
LEMMA Positions ==
  ASSUME NEW n \in Nat, NEW k \in 0..(3 * n + 2)
  PROVE  \/ k = 0
         \/ \E i \in 1..n : k = i \/ k = n + 2 * i - 1 \/ k = n + 2 * i
         \/ k = 3 * n + 1
         \/ k = 3 * n + 2
<1>1. CASE k \in 1..n
  BY <1>1
<1>2. CASE k \in (n + 1)..(3 * n)
  <2>1. ((k - n) + 1) \div 2 \in 1..n
    BY <1>2
  <2>2. \/ k = n + 2 * (((k - n) + 1) \div 2) - 1
        \/ k = n + 2 * (((k - n) + 1) \div 2)
    BY <1>2
  <2> QED  BY <2>1, <2>2
<1> QED  BY <1>1, <1>2

LEMMA RemainingList ==
  ASSUME NEW o \in Orders, NEW u \in Users, NEW row, Priced(row),
         NEW k \in 0..(3 * Len(row.items) + 2)
  PROVE  LET n    == Len(row.items)
             plan == CheckoutStatements(o, u, row)
             rest == Remaining(o, u, row, k)
         IN  /\ rest \in Seq(AnyStatement) /\ rest # <<>>
             /\ Head(rest) = plan[k + 1]
             /\ rest[Len(rest)] = Commit(o)
             /\ Tail(rest) = IF k = 3 * n + 2 THEN <<>> ELSE Remaining(o, u, row, k + 1)
<1> DEFINE n == Len(row.items)
           plan == CheckoutStatements(o, u, row)
           rest == Remaining(o, u, row, k)
           m == 3 * n + 3
<1>1. n \in Nat \ {0}
  BY PricedRow
<1>2. plan \in Seq(AnyStatement) /\ Len(plan) = m /\ plan[m] = Commit(o)
  BY Plan DEF IsPlan
<1> HIDE DEF plan, n
<1>3. k + 1 \in 1..m /\ m \in Nat
  BY <1>1 DEF n
<1>4. \A i \in (k + 1)..m : plan[i] \in AnyStatement
  <2>1. \A i \in (k + 1)..m : i \in 1..m
    BY <1>3
  <2> QED  BY <1>2, <2>1, ElementOfSeq
<1>5. /\ rest \in Seq(AnyStatement) /\ Len(rest) = m - (k + 1) + 1
      /\ \A i \in 1..(m - (k + 1) + 1) : rest[i] = plan[(k + 1) + i - 1]
  <2>1. rest = SubSeq(plan, k + 1, m)
    BY DEF Remaining, plan, n
  <2> HIDE DEF rest, m
  <2>2. /\ SubSeq(plan, k + 1, m) \in Seq(AnyStatement)
        /\ Len(SubSeq(plan, k + 1, m)) = IF k + 1 <= m THEN m - (k + 1) + 1 ELSE 0
        /\ \A i \in 1..(m - (k + 1) + 1) : SubSeq(plan, k + 1, m)[i] = plan[(k + 1) + i - 1]
    BY <1>3, <1>4, SubSeqProperties
  <2> QED  BY <1>3, <2>1, <2>2
<1> HIDE DEF rest
<1>6. rest # <<>> /\ Head(rest) = plan[k + 1]
  <2>1. Len(rest) \in Nat \ {0} /\ 1 \in 1..(m - (k + 1) + 1) /\ (k + 1) + 1 - 1 = k + 1
    BY <1>3, <1>5
  <2>2. rest # <<>>
    BY <2>1, EmptySeq
  <2>3. Head(rest) = rest[1]
    BY <1>5, <2>2
  <2> QED  BY <1>5, <2>1, <2>2, <2>3
<1>7. rest[Len(rest)] = Commit(o)
  <2>1. /\ Len(rest) \in 1..(m - (k + 1) + 1)
        /\ (k + 1) + Len(rest) - 1 = m
    BY <1>3, <1>5
  <2> QED  BY <1>2, <1>5, <2>1
<1>8. Tail(rest) = SubSeq(plan, (k + 1) + 1, m)
  <2>1. \A i \in ((k + 1) + 1)..m : plan[i] \in AnyStatement
    BY <1>3, <1>4
  <2>2. /\ SubSeq(plan, (k + 1) + 1, m) \in Seq(AnyStatement)
        /\ Len(SubSeq(plan, (k + 1) + 1, m))
             = IF (k + 1) + 1 <= m THEN m - ((k + 1) + 1) + 1 ELSE 0
        /\ \A i \in 1..(m - ((k + 1) + 1) + 1) :
             SubSeq(plan, (k + 1) + 1, m)[i] = plan[((k + 1) + 1) + i - 1]
    <3>1. (k + 1) + 1 \in Int /\ m \in Int
      BY <1>3
    <3> HIDE DEF m
    <3> QED  BY <2>1, <3>1, SubSeqProperties
  <2>3. /\ Tail(rest) \in Seq(AnyStatement) /\ Len(Tail(rest)) = Len(rest) - 1
        /\ \A i \in 1..Len(Tail(rest)) : Tail(rest)[i] = rest[i + 1]
    BY <1>5, <1>6, HeadTailProperties
  <2>4. Len(Tail(rest)) = Len(SubSeq(plan, (k + 1) + 1, m))
    BY <1>3, <1>5, <2>2, <2>3
  <2>5. ASSUME NEW i \in 1..Len(Tail(rest))
        PROVE  Tail(rest)[i] = SubSeq(plan, (k + 1) + 1, m)[i]
    <3>1. /\ i + 1 \in 1..(m - (k + 1) + 1) /\ i \in 1..(m - ((k + 1) + 1) + 1)
          /\ (k + 1) + (i + 1) - 1 = ((k + 1) + 1) + i - 1
      BY <1>3, <1>5, <2>3
    <3> QED  BY <1>5, <2>2, <2>3, <3>1
  <2> QED  BY <2>2, <2>3, <2>4, <2>5, SeqEqual
<1>9. k = 3 * n + 2 => SubSeq(plan, (k + 1) + 1, m) = <<>>
  <2>1. k = 3 * n + 2 => m < (k + 1) + 1
    BY <1>1
  <2>2. (k + 1) + 1 \in Int /\ m \in Int
    BY <1>3
  <2> HIDE DEF m
  <2> QED  BY <2>1, <2>2, SubSeqEmpty
<1>10. SubSeq(plan, (k + 1) + 1, m) = Remaining(o, u, row, k + 1)
  BY DEF Remaining, plan, n
<1> QED  BY <1>5, <1>6, <1>7, <1>8, <1>9, <1>10 DEF rest, plan, n

(* At the start the whole list remains.                                    *)
LEMMA RemainingAll ==
  ASSUME NEW o \in Orders, NEW u \in Users, NEW row, Priced(row)
  PROVE  CheckoutStatements(o, u, row) = Remaining(o, u, row, 0)
<1>1. /\ CheckoutStatements(o, u, row) \in Seq(AnyStatement)
      /\ Len(CheckoutStatements(o, u, row)) = 3 * Len(row.items) + 3
  BY Plan DEF IsPlan
<1>2. SubSeq(CheckoutStatements(o, u, row), 1, Len(CheckoutStatements(o, u, row)))
        = CheckoutStatements(o, u, row)
  BY <1>1, SubSeqFull
<1> QED  BY <1>1, <1>2 DEF Remaining

-----------------------------------------------------------------------------
(* What Submit prices *)

LEMMA SubtotalNat ==
  ASSUME NEW items \in Seq(Item)
  PROVE  Subtotal(items) \in Nat
<1> DEFINE f == [i \in DOMAIN items |-> items[i].price * items[i].quantity]
<1>1. IsFiniteSet(DOMAIN items)
  BY LenProperties, FS_Interval
<1>2. ASSUME NEW i \in DOMAIN items PROVE f[i] \in Nat
  <2>1. items[i] \in Item
    BY LenProperties, ElementOfSeq
  <2>2. items[i].price \in Nat /\ items[i].quantity \in Nat
    BY <2>1 DEF Item
  <2>3. \A a, b \in Nat : a * b \in Nat
    OBVIOUS
  <2> QED  BY <2>2, <2>3
<1>3. Subtotal(items) = SumFunctionOnSet(f, DOMAIN items)
  BY DEF Subtotal, SumFunction
<1> HIDE DEF f
<1> QED  BY <1>1, <1>2, <1>3, SumNat

LEMMA DepositNat ==
  ASSUME NEW items \in Seq(Item)
  PROVE  DepositRequired(items) \in Nat
<1> DEFINE S == {i \in DOMAIN items : items[i].variant \in DOMAIN Deposit}
           f == [i \in S |-> Deposit[items[i].variant] * items[i].quantity]
<1>1. IsFiniteSet(S)
  BY LenProperties, FS_Interval, FS_Subset
<1>2. ASSUME NEW i \in S PROVE f[i] \in Nat
  <2>1. items[i] \in Item
    BY LenProperties, ElementOfSeq
  <2>2. Deposit[items[i].variant] \in Nat /\ items[i].quantity \in Nat
    BY <2>1, DepositAssumption DEF Item
  <2>3. \A a, b \in Nat : a * b \in Nat
    OBVIOUS
  <2> QED  BY <2>2, <2>3
<1>3. DepositRequired(items) = SumFunctionOnSet(f, S)
  BY DEF DepositRequired, SumFunction
<1> HIDE DEF f, S
<1> QED  BY <1>1, <1>2, <1>3, SumNat

LEMMA NewOrderType ==
  ASSUME NEW items \in Seq(Item), NEW zone \in Zones, NEW method \in PaymentMethods,
         NEW preorder \in BOOLEAN, NEW deposit \in Nat, NEW hasTrxID \in BOOLEAN
  PROVE  LET row == NewOrder(items, zone, method, preorder, deposit, hasTrxID)
         IN  /\ row \in OrderRow /\ row.items = items
             /\ row.total = Subtotal(row.items) + row.fee
<1>1. Subtotal(items) \in Nat /\ ZoneCost[zone] \in Nat
      /\ Subtotal(items) + ZoneCost[zone] \in Nat
  BY SubtotalNat, ZoneCostAssumption
<1>2. /\ DetermineInitialStatus(method, preorder, deposit, hasTrxID) \in OrderStatuses
      /\ DetermineInitialStatus(method, preorder, deposit, hasTrxID) \in PaymentStatuses
  BY DEF DetermineInitialStatus, OrderStatuses, PaymentStatuses
<1>3. (IF preorder THEN deposit
       ELSE IF method = "mobile_banking" THEN Subtotal(items) + ZoneCost[zone] ELSE 0) \in Nat
  BY <1>1
<1> QED  BY <1>1, <1>2, <1>3 DEF NewOrder, OrderRow

LEMMA CartItems ==
  ASSUME NEW cart \in Seq(CartLine)
  PROVE  LET items == [k \in DOMAIN cart |-> OrderItem(cart[k])]
         IN  items \in Seq(Item) /\ DOMAIN items = DOMAIN cart
<1>1. Len(cart) \in Nat /\ DOMAIN cart = 1..Len(cart)
  BY LenProperties
<1>2. ASSUME NEW k \in 1..Len(cart) PROVE OrderItem(cart[k]) \in Item
  <2>1. cart[k] \in CartLine
    BY ElementOfSeq
  <2> QED  BY <2>1, PriceAssumption DEF OrderItem, Item, CartLine
<1>3. [k \in DOMAIN cart |-> OrderItem(cart[k])] \in [1..Len(cart) -> Item]
  BY <1>1, <1>2
<1> QED  BY <1>1, <1>3, SeqDef

-----------------------------------------------------------------------------
(* The invariant, part by part *)

LEMMA InitInv == Init => CheckoutInv
<1> SUFFICES ASSUME Init PROVE CheckoutInv
  OBVIOUS
<1>1. TypeOK
  <2>1. NoRow \in OrderRow
    <3>1. (CHOOSE z \in Zones : TRUE) \in Zones
      BY ZonesAssumption
    <3>2. <<>> \in Seq(Item) /\ "cod" \in PaymentMethods /\ 0 \in Nat
      BY EmptySeq DEF PaymentMethods
    <3> QED  BY <3>1, <3>2, NewOrderType DEF NoRow
  <2>2. carts \in [Users -> Seq(CartLine)]
    BY InitCartsAssumption DEF Init
  <2>3. todo \in [Calls -> Seq(Statement \union CheckoutStatement)]
    BY EmptySeq DEF Init
  <2> QED  BY <2>1, <2>2, <2>3, InitStockAssumption DEF TypeOK, Init
<1>2. InFlight = {}
  BY DEF Init, InFlight
<1>3. LogInv
  <2>1. log = {}
    BY DEF Init
  <2>2. \A v \in Variants : {r \in log : r.variant = v} = {}
    BY <2>1
  <2>3. \A v \in Variants : UnitsTaken(v) = 0
    BY <2>2, SumEmpty DEF UnitsTaken
  <2>4. \A v \in Variants : stock[v] \in Nat /\ stock[v] = InitStock[v]
    BY <1>1 DEF TypeOK, Init
  <2> QED  BY <2>1, <2>3, <2>4, FS_EmptySet DEF LogInv
<1>4. ConfirmedInv
  BY FS_EmptySet DEF ConfirmedInv, Init
<1> QED  BY <1>1, <1>2, <1>3, <1>4 DEF CheckoutInv, RunsInv

(* A call goes on as it was if nobody touches its order.                    *)
LEMMA RunsKept ==
  ASSUME NEW c, NEW o, NEW u, NEW row, NEW k, Runs(c, o, u, row, k),
         todo'[c] = todo[c],
         o \in placed' <=> o \in placed,
         o \notin confirmed',
         orders'[o] = orders[o],
         LoggedFor(o)' = LoggedFor(o)
  PROVE  Runs(c, o, u, row, k)'
BY DEF Runs

LEMMA RunsOrder ==
  ASSUME NEW c, NEW o, NEW u, NEW row, NEW k, Runs(c, o, u, row, k)
  PROVE  OrderOf(c) = o /\ todo[c] # <<>>
<1>1. todo[c] = Remaining(o, u, row, k) /\ o \in Orders /\ u \in Users /\ Priced(row)
      /\ k \in 0..(3 * Len(row.items) + 2)
  BY DEF Runs
<1>2. todo[c] # <<>> /\ todo[c][Len(todo[c])] = Commit(o)
  BY <1>1, RemainingList
<1> QED  BY <1>2 DEF OrderOf, Commit

(* Calls may be dropped, and whatever is not in the tables may change.      *)
LEMMA Untouched ==
  ASSUME CheckoutInv,
         UNCHANGED <<tables, begun, confirmed>>,
         \A c \in Calls : todo'[c] = todo[c] \/ todo'[c] = <<>>
  PROVE  RunsInv' /\ LogInv' /\ ConfirmedInv'
<1>1. UNCHANGED <<placed, orders, stock, log, begun, confirmed>>
  BY DEF tables
<1>2. \A o : LoggedFor(o)' = LoggedFor(o)
  BY <1>1 DEF LoggedFor
<1>3. \A c \in InFlight' : c \in InFlight /\ todo'[c] = todo[c]
  BY DEF InFlight
<1>4. RunsInv'
  <2>1. ASSUME NEW c \in InFlight' PROVE c \in begun' /\ \E o, u, row, k : Runs(c, o, u, row, k)'
    <3>1. c \in begun /\ todo'[c] = todo[c] /\ \E o, u, row, k : Runs(c, o, u, row, k)
      BY <1>3, <2>1 DEF CheckoutInv, RunsInv
    <3>2. PICK o, u, row, k : Runs(c, o, u, row, k)
      BY <3>1
    <3>3. o \notin confirmed'
      BY <1>1, <3>2 DEF Runs
    <3>4. Runs(c, o, u, row, k)'
      BY <1>1, <1>2, <3>1, <3>2, <3>3, RunsKept
    <3> QED  BY <1>1, <3>1, <3>4
  <2>2. ASSUME NEW c \in InFlight', NEW d \in InFlight', OrderOf(c)' = OrderOf(d)'
        PROVE  c = d
    BY <1>3, <2>2 DEF OrderOf, CheckoutInv, RunsInv
  <2> QED  BY <2>1, <2>2 DEF RunsInv
<1>5. LogInv'
  BY <1>1 DEF CheckoutInv, LogInv, UnitsTaken
<1>6. ConfirmedInv'
  BY <1>1, <1>2 DEF CheckoutInv, ConfirmedInv, Settled
<1> QED  BY <1>4, <1>5, <1>6

LEMMA SubmitInv ==
  ASSUME CheckoutInv, NEW c \in Calls, NEW u \in Users, NEW zone \in Zones,
         NEW method \in PaymentMethods, NEW hasTrxID \in BOOLEAN,
         Submit(c, u, zone, method, hasTrxID)
  PROVE  CheckoutInv'
<1> DEFINE items == [k \in DOMAIN carts[u] |-> OrderItem(carts[u][k])]
           preorder == \E k \in DOMAIN items : items[k].variant \in DOMAIN Deposit
           deposit == DepositRequired(items)
<1>0. PICK row : row = NewOrder(items, zone, method, preorder, deposit, hasTrxID)
  OBVIOUS
<1>1. PICK o \in Orders : Fresh(o) /\ Begin(c, CheckoutStatements(o, u, row))
  BY <1>0 DEF Submit
<1>2. items \in Seq(Item) /\ items # <<>>
  <2>1. carts[u] \in Seq(CartLine)
    BY DEF CheckoutInv, TypeOK
  <2> QED  BY <2>1, CartItems DEF Submit
<1>3. Priced(row)
  <2>1. preorder \in BOOLEAN
    OBVIOUS
  <2>2. deposit \in Nat
    BY <1>2, DepositNat
  <2> HIDE DEF items, preorder, deposit
  <2> QED  BY <1>0, <1>2, <2>1, <2>2, NewOrderType DEF Priced
<1>4. /\ UNCHANGED <<placed, orders, stock, log, history, refunds, carts, confirmed>>
      /\ begun' = begun \union {c} /\ c \notin begun
      /\ todo' = [todo EXCEPT ![c] = CheckoutStatements(o, u, row)]
  BY <1>1 DEF Submit, Begin, tables
<1>5. c \notin InFlight
  BY <1>4 DEF CheckoutInv, RunsInv
<1>6. /\ CheckoutStatements(o, u, row) = Remaining(o, u, row, 0)
      /\ CheckoutStatements(o, u, row) \in Seq(Statement \union CheckoutStatement)
  BY <1>3, Plan, RemainingAll DEF AnyStatement, IsPlan
<1>7. TypeOK'
  <2>1. todo' \in [Calls -> Seq(Statement \union CheckoutStatement)]
    BY <1>4, <1>6 DEF CheckoutInv, TypeOK
  <2> QED  BY <1>4, <2>1 DEF CheckoutInv, TypeOK
<1>8. \A p : LoggedFor(p)' = LoggedFor(p)
  BY <1>4 DEF LoggedFor
<1>9. Runs(c, o, u, row, 0)'
  <2>1. o \notin placed /\ o \notin confirmed
    BY <1>1 DEF Fresh, CheckoutInv, TypeOK
  <2>2. LoggedFor(o) = {}
    BY <2>1 DEF LoggedFor, CheckoutInv, LogInv
  <2>3. Len(row.items) \in Nat
    BY <1>3, PricedRow
  <2>4. Deductions(c, o, row.items, 0) = {}
    <3>1. \A n \in Nat : \A i \in 1..n : ~(n + 2 * i < 0)
      OBVIOUS
    <3>2. {i \in 1..Len(row.items) : Len(row.items) + 2 * i < 0} = {}
      BY <2>3, <3>1
    <3> QED  BY <3>2 DEF Deductions
  <2>5. todo'[c] = Remaining(o, u, row, 0)
    BY <1>4, <1>6 DEF CheckoutInv, TypeOK
  <2>6. 0 \in 0..(3 * Len(row.items) + 2)
    BY <2>3
  <2>7. /\ o \notin placed' /\ o \notin confirmed' /\ LoggedFor(o)' = {}
        /\ ~(0 > 0)
    BY <1>4, <1>8, <2>1, <2>2
  <2> QED  BY <1>3, <2>4, <2>5, <2>6, <2>7 DEF Runs
<1>10. ASSUME NEW d \in InFlight
       PROVE  /\ todo'[d] = todo[d] /\ d \in begun
              /\ \E p, v, r, k : Runs(d, p, v, r, k) /\ Runs(d, p, v, r, k)' /\ p # o
  <2>1. d \in begun /\ \E p, v, r, k : Runs(d, p, v, r, k)
    BY DEF CheckoutInv, RunsInv
  <2>2. PICK p, v, r, k : Runs(d, p, v, r, k)
    BY <2>1
  <2>3. todo'[d] = todo[d]
    BY <1>4, <1>5 DEF InFlight, CheckoutInv, TypeOK
  <2>4. p # o
    <3>1. CASE k > 0
      BY <1>1, <2>2, <3>1 DEF Runs, Fresh
    <3>2. CASE k = 0
      <4>1. /\ p \in Orders /\ v \in Users /\ Priced(r)
            /\ k \in 0..(3 * Len(r.items) + 2) /\ todo[d] = Remaining(p, v, r, k)
        BY <2>2 DEF Runs
      <4>2. Head(todo[d]) = CheckoutStatements(p, v, r)[1]
        BY <3>2, <4>1, RemainingList
      <4>3. Head(todo[d]) = InsertOrder(p, [r EXCEPT !.items = <<>>])
        BY <4>1, <4>2, Plan DEF IsPlan
      <4> QED  BY <1>1, <4>3 DEF Fresh, InsertOrder
    <3>3. k \in Nat
      <4>1. Len(r.items) \in Nat /\ k \in 0..(3 * Len(r.items) + 2)
        BY <2>2, PricedRow DEF Runs
      <4> QED  BY <4>1
    <3> QED  BY <3>1, <3>2, <3>3
  <2>5. p \notin confirmed
    BY <2>2 DEF Runs
  <2>6. Runs(d, p, v, r, k)'
    BY <1>4, <1>8, <2>2, <2>3, <2>5, RunsKept
  <2> QED  BY <2>1, <2>2, <2>3, <2>4, <2>6
<1>11. todo'[c] # <<>> /\ OrderOf(c)' = o
  <2>1. /\ todo'[c] = Remaining(o, u, row, 0)
        /\ 0 \in 0..(3 * Len(row.items) + 2)
    BY <1>9, Zenon DEF Runs
  <2>2. todo'[c] # <<>> /\ todo'[c][Len(todo'[c])] = Commit(o)
    BY <1>3, <2>1, RemainingList
  <2> QED  BY <2>2 DEF OrderOf, Commit
<1>12. InFlight' = InFlight \union {c}
  BY <1>4, <1>5, <1>11 DEF InFlight, CheckoutInv, TypeOK
<1>13. RunsInv'
  <2>1. ASSUME NEW d \in InFlight' PROVE d \in begun' /\ \E p, v, r, k : Runs(d, p, v, r, k)'
    BY <1>4, <1>9, <1>10, <1>12
  <2>2. ASSUME NEW d \in InFlight PROVE OrderOf(d)' # o
    <3>1. OrderOf(d)' = OrderOf(d)
      BY <1>10 DEF OrderOf
    <3>2. PICK p, v, r, k : Runs(d, p, v, r, k) /\ p # o
      BY <1>10
    <3>3. OrderOf(d) = p
      BY <3>2, RunsOrder
    <3> QED  BY <3>1, <3>2, <3>3
  <2>3. ASSUME NEW d \in InFlight, NEW e \in InFlight, OrderOf(d)' = OrderOf(e)'
        PROVE  d = e
    <3>1. OrderOf(d)' = OrderOf(d) /\ OrderOf(e)' = OrderOf(e)
      BY <1>10 DEF OrderOf
    <3> QED  BY <2>3, <3>1 DEF CheckoutInv, RunsInv
  <2>4. \A d, e \in InFlight' : OrderOf(d)' = OrderOf(e)' => d = e
    BY <1>11, <1>12, <2>2, <2>3
  <2> QED  BY <2>1, <2>4 DEF RunsInv
<1>14. LogInv'
  BY <1>4 DEF CheckoutInv, LogInv, UnitsTaken
<1>15. ConfirmedInv'
  BY <1>4, <1>8 DEF CheckoutInv, ConfirmedInv, Settled
<1> QED  BY <1>7, <1>13, <1>14, <1>15 DEF CheckoutInv

-----------------------------------------------------------------------------
(* What one statement adds to the written part *)

(* The positions of the comparison and of the deduction of the i-th item.   *)
LockAt(n, i) == n + 2 * i - 1
DeductAt(n, i) == n + 2 * i

Deducted(n, k) == {i \in 1..n : n + 2 * i < k}

LEMMA DeductionsOf ==
  ASSUME NEW c, NEW o, NEW items, NEW k
  PROVE  Deductions(c, o, items, k)
           = {Deduction(c, o, items, i) : i \in Deducted(Len(items), k)}
BY DEF Deductions, Deducted

LEMMA DeductionsGrow ==
  ASSUME NEW c, NEW o, NEW items, NEW n \in Nat, Len(items) = n,
         NEW k \in 0..(3 * n + 2)
  PROVE  /\ k <= n + 1 => Deductions(c, o, items, k) = {}
         /\ k >= 3 * n + 1 =>
              Deductions(c, o, items, k) = {Deduction(c, o, items, i) : i \in 1..n}
<1>1. k <= n + 1 => Deducted(n, k) = {}
  BY DEF Deducted
<1>2. k >= 3 * n + 1 => Deducted(n, k) = 1..n
  BY DEF Deducted
<1> QED  BY <1>1, <1>2, DeductionsOf

LEMMA NoDeduction ==
  ASSUME NEW c, NEW o, NEW items, NEW n \in Nat, Len(items) = n, NEW i \in 1..n,
         NEW k, k = LockAt(n, i)
  PROVE  Deductions(c, o, items, k + 1) = Deductions(c, o, items, k)
<1>1. \A j \in 1..n : n + 2 * j < LockAt(n, i) + 1 <=> n + 2 * j < LockAt(n, i)
  BY DEF LockAt
<1>2. Deducted(n, k + 1) = Deducted(n, k)
  BY <1>1 DEF Deducted
<1> QED  BY <1>2, DeductionsOf

LEMMA OneDeduction ==
  ASSUME NEW c, NEW o, NEW items, NEW n \in Nat, Len(items) = n, NEW i \in 1..n,
         NEW k, k = DeductAt(n, i)
  PROVE  /\ Deductions(c, o, items, k + 1)
              = Deductions(c, o, items, k) \union {Deduction(c, o, items, i)}
         /\ \A r \in Deductions(c, o, items, k) : r.item # i
<1>1. \A j \in 1..n : /\ n + 2 * j < DeductAt(n, i) + 1 <=> n + 2 * j < DeductAt(n, i) \/ j = i
                      /\ n + 2 * j < DeductAt(n, i) => j # i
  BY DEF DeductAt
<1>2. Deducted(n, k + 1) = Deducted(n, k) \union {i} /\ i \notin Deducted(n, k)
  BY <1>1 DEF Deducted
<1>3. \A j : Deduction(c, o, items, j).item = j
  BY DEF Deduction
<1>4. /\ Deductions(c, o, items, k)
           = {Deduction(c, o, items, j) : j \in Deducted(n, k)}
      /\ Deductions(c, o, items, k + 1)
           = {Deduction(c, o, items, j) : j \in Deducted(n, k + 1)}
  BY DeductionsOf
<1> HIDE DEF Deducted
<1> QED  BY <1>2, <1>3, <1>4

LEMMA ItemsGrow ==
  ASSUME NEW row, Priced(row), NEW k \in 0..(3 * Len(row.items) + 2)
  PROVE  /\ ItemsInserted(row, 1) = <<>>
         /\ k \in 1..Len(row.items) =>
              ItemsInserted(row, k + 1) = Append(ItemsInserted(row, k), row.items[k])
         /\ k > Len(row.items) => ItemsInserted(row, k) = row.items
         /\ k > 0 => ItemsInserted(row, k) \in Seq(Item)
<1> DEFINE n == Len(row.items)
<1>1. n \in Nat \ {0} /\ row.items \in Seq(Item)
  BY PricedRow
<1> HIDE DEF n
<1>2. ItemsInserted(row, 1) = <<>>
  <2>1. SubSeq(row.items, 1, 0) = <<>>
    BY SubSeqEmpty
  <2>2. 1 - 1 < n /\ 1 - 1 = 0
    BY <1>1
  <2> QED  BY <2>1, <2>2 DEF ItemsInserted, n
<1>3. ASSUME k \in 1..n
      PROVE  ItemsInserted(row, k + 1) = Append(ItemsInserted(row, k), row.items[k])
  <2>1. ItemsInserted(row, k + 1) = SubSeq(row.items, 1, k)
    <3>1. (IF (k + 1) - 1 < n THEN (k + 1) - 1 ELSE n) = k
      BY <1>1, <1>3
    <3> QED  BY <3>1 DEF ItemsInserted, n
  <2>2. ItemsInserted(row, k) = SubSeq(row.items, 1, k - 1)
    <3>1. (IF k - 1 < n THEN k - 1 ELSE n) = k - 1
      BY <1>1, <1>3
    <3> QED  BY <3>1 DEF ItemsInserted, n
  <2>3. SubSeq(row.items, 1, k) = Append(SubSeq(row.items, 1, k - 1), row.items[k])
    <3>1. /\ 1 \in Int /\ k \in Int /\ 1 <= k
          /\ \A i \in 1..k : row.items[i] \in Item
      BY <1>1, <1>3, ElementOfSeq DEF n
    <3> QED  BY <3>1, SubSeqRecursiveSecond
  <2> QED  BY <2>1, <2>2, <2>3
<1>4. ASSUME k > n
      PROVE  ItemsInserted(row, k) = row.items
  <2>1. (IF k - 1 < n THEN k - 1 ELSE n) = n
    BY <1>1, <1>4 DEF n
  <2>2. SubSeq(row.items, 1, Len(row.items)) = row.items
    BY <1>1, SubSeqFull
  <2> QED  BY <2>1, <2>2 DEF ItemsInserted, n
<1>5. ASSUME k > 0
      PROVE  ItemsInserted(row, k) \in Seq(Item)
  <2> DEFINE m == IF k - 1 < n THEN k - 1 ELSE n
  <2>1. m \in 0..n
    BY <1>1, <1>5 DEF n
  <2>2. \A i \in 1..m : row.items[i] \in Item
    <3>1. \A i \in 1..m : i \in 1..n
      BY <1>1, <2>1
    <3> QED  BY <1>1, <3>1, ElementOfSeq DEF n
  <2>3. SubSeq(row.items, 1, m) \in Seq(Item)
    <3>1. 1 \in Int /\ m \in Int
      BY <2>1
    <3> HIDE DEF m
    <3> QED  BY <2>2, <3>1, SubSeqProperties
  <2> QED  BY <2>3 DEF ItemsInserted, m, n
<1> QED  BY <1>2, <1>3, <1>4, <1>5 DEF n

-----------------------------------------------------------------------------
(* A step of a call in flight *)

(* What every statement has in common: it is the one at its position, and   *)
(* the call goes on with the next.                                         *)
LEMMA StepOf ==
  ASSUME CheckoutInv, NEW c \in Calls, NEW o, NEW u, NEW row, NEW k,
         Runs(c, o, u, row, k), ExecuteCheckout(c)
  PROVE  LET n  == Len(row.items)
             st == CheckoutStatements(o, u, row)[k + 1]
         IN  /\ n \in Nat \ {0} /\ k \in 0..(3 * n + 2) /\ Head(todo[c]) = st
             /\ begun' = begun /\ todo' \in [Calls -> Seq(AnyStatement)]
             /\ todo'[c] = IF k = 3 * n + 2 THEN <<>> ELSE Remaining(o, u, row, k + 1)
             /\ \A d \in Calls : d # c => todo'[d] = todo[d]
             /\ \/ ExecInsertOrder(st)
                \/ ExecInsertItem(st)
                \/ ExecLockVariant(st)
                \/ ExecUpdateStock(c, st) /\ UNCHANGED <<carts, confirmed>>
                \/ ExecClearCart(st)
                \/ ExecCommit(st)
<1> DEFINE n == Len(row.items)
           st == CheckoutStatements(o, u, row)[k + 1]
<1>1. /\ o \in Orders /\ u \in Users /\ Priced(row) /\ k \in 0..(3 * n + 2)
      /\ todo[c] = Remaining(o, u, row, k)
  BY DEF Runs
<1>2. n \in Nat \ {0}
  BY <1>1, PricedRow
<1>3. /\ Head(todo[c]) = st /\ todo[c] # <<>> /\ todo[c] \in Seq(AnyStatement)
      /\ Tail(todo[c]) = IF k = 3 * n + 2 THEN <<>> ELSE Remaining(o, u, row, k + 1)
  BY <1>1, RemainingList
<1>4. Tail(todo[c]) \in Seq(AnyStatement)
  BY <1>3, HeadTailProperties
<1>5. /\ todo \in [Calls -> Seq(AnyStatement)]
      /\ todo' = [todo EXCEPT ![c] = Tail(@)] /\ begun' = begun
  BY DEF CheckoutInv, TypeOK, AnyStatement, ExecuteCheckout
<1>6. /\ todo' \in [Calls -> Seq(AnyStatement)] /\ todo'[c] = Tail(todo[c])
      /\ \A d \in Calls : d # c => todo'[d] = todo[d]
  BY <1>4, <1>5
<1>7. \/ ExecInsertOrder(Head(todo[c]))
      \/ ExecInsertItem(Head(todo[c]))
      \/ ExecLockVariant(Head(todo[c]))
      \/ ExecUpdateStock(c, Head(todo[c])) /\ UNCHANGED <<carts, confirmed>>
      \/ ExecClearCart(Head(todo[c]))
      \/ ExecCommit(Head(todo[c]))
  BY DEF ExecuteCheckout
<1> HIDE DEF st
<1>8. \/ ExecInsertOrder(st)
      \/ ExecInsertItem(st)
      \/ ExecLockVariant(st)
      \/ ExecUpdateStock(c, st) /\ UNCHANGED <<carts, confirmed>>
      \/ ExecClearCart(st)
      \/ ExecCommit(st)
  BY <1>3, <1>7
<1> QED  BY <1>1, <1>2, <1>3, <1>5, <1>6, <1>8 DEF st

(* Nobody but c runs the order of c.                                       *)
LEMMA OthersRun ==
  ASSUME CheckoutInv, NEW c \in Calls, NEW o, NEW u, NEW row, NEW k,
         Runs(c, o, u, row, k), NEW d \in InFlight, d # c
  PROVE  \E p, v, r, j : Runs(d, p, v, r, j) /\ p # o
<1>1. c \in InFlight /\ OrderOf(c) = o
  BY RunsOrder DEF InFlight
<1>2. PICK p, v, r, j : Runs(d, p, v, r, j)
  BY DEF CheckoutInv, RunsInv
<1>3. OrderOf(d) = p
  BY <1>2, RunsOrder
<1>4. p # o
  BY <1>1, <1>3 DEF CheckoutInv, RunsInv
<1> QED  BY <1>2, <1>4

(* Every other order, and every other call, stays as it was.               *)
Elsewhere(o) ==
  \A p \in Orders : p # o =>
    /\ p \in placed' <=> p \in placed
    /\ p \in confirmed' <=> p \in confirmed
    /\ orders'[p] = orders[p]
    /\ LoggedFor(p)' = LoggedFor(p)

LEMMA RunsAdvance ==
  ASSUME CheckoutInv, NEW c \in Calls, NEW o, NEW u, NEW row, NEW k,
         Runs(c, o, u, row, k), ExecuteCheckout(c), Elsewhere(o),
         k = 3 * Len(row.items) + 2 \/ Runs(c, o, u, row, k + 1)'
  PROVE  RunsInv'
<1>1. /\ begun' = begun
      /\ k = 3 * Len(row.items) + 2 => todo'[c] = <<>>
      /\ todo'[c] # <<>> => todo'[c] = Remaining(o, u, row, k + 1)
      /\ \A d \in Calls : d # c => todo'[d] = todo[d]
  BY StepOf
<1>2. c \in InFlight
  BY RunsOrder DEF InFlight
<1>3. \A d \in InFlight' : d \in InFlight /\ d \in Calls
  BY <1>1, <1>2 DEF InFlight
<1>4. ASSUME NEW d \in InFlight', d # c
      PROVE  \E p, v, r, j : /\ Runs(d, p, v, r, j) /\ Runs(d, p, v, r, j)'
                             /\ p # o /\ OrderOf(d)' = p
  <2>1. PICK p, v, r, j : Runs(d, p, v, r, j) /\ p # o
    BY <1>3, <1>4, OthersRun
  <2>2. p \in Orders /\ p \notin confirmed
    BY <2>1 DEF Runs
  <2>3. todo'[d] = todo[d] /\ OrderOf(d) = p
    BY <1>1, <1>3, <1>4, <2>1, RunsOrder
  <2>4. Runs(d, p, v, r, j)'
    BY <2>1, <2>2, <2>3, RunsKept DEF Elsewhere
  <2>5. OrderOf(d)' = p
    BY <2>3 DEF OrderOf
  <2> QED  BY <2>1, <2>4, <2>5
<1>5. ASSUME c \in InFlight'
      PROVE  Runs(c, o, u, row, k + 1)' /\ OrderOf(c)' = o
  <2>1. todo'[c] # <<>>
    BY <1>5 DEF InFlight
  <2>2. Runs(c, o, u, row, k + 1)'
    BY <1>1, <2>1
  <2>3. /\ o \in Orders /\ u \in Users /\ Priced(row)
        /\ k + 1 \in 0..(3 * Len(row.items) + 2)
        /\ todo'[c] = Remaining(o, u, row, k + 1)
    BY <2>2 DEF Runs
  <2>4. todo'[c][Len(todo'[c])] = Commit(o)
    BY <2>3, RemainingList
  <2> QED  BY <2>2, <2>4 DEF OrderOf, Commit
<1>6. ASSUME NEW d \in InFlight'
      PROVE  d \in begun' /\ \E p, v, r, j : Runs(d, p, v, r, j)'
  <2>1. d \in begun'
    BY <1>1, <1>3 DEF CheckoutInv, RunsInv
  <2> QED  BY <1>4, <1>5, <2>1
<1>7. ASSUME NEW d \in InFlight', NEW e \in InFlight', OrderOf(d)' = OrderOf(e)'
      PROVE  d = e
  <2>1. CASE d = c \/ e = c
    BY <1>4, <1>5, <1>7, <2>1
  <2>2. CASE d # c /\ e # c
    <3>1. todo'[d] = todo[d] /\ todo'[e] = todo[e]
      BY <1>1, <1>3, <2>2
    <3>2. OrderOf(d) = OrderOf(e)
      BY <1>7, <3>1 DEF OrderOf
    <3> QED  BY <1>3, <3>2 DEF CheckoutInv, RunsInv
  <2> QED  BY <2>1, <2>2
<1> QED  BY <1>6, <1>7 DEF RunsInv

LEMMA ConfirmedKept ==
  ASSUME CheckoutInv, NEW o, o \notin confirmed, Elsewhere(o), confirmed' = confirmed
  PROVE  ConfirmedInv'
<1>1. ASSUME NEW p \in confirmed PROVE \E c \in Calls : Settled(c, p)'
  <2>1. p \in Orders /\ p # o
    BY DEF CheckoutInv, TypeOK
  <2>2. orders'[p] = orders[p] /\ LoggedFor(p)' = LoggedFor(p)
    BY <2>1 DEF Elsewhere
  <2>3. PICK c \in Calls : Settled(c, p)
    BY DEF CheckoutInv, ConfirmedInv
  <2>4. Settled(c, p)'
    BY <2>2, <2>3 DEF Settled
  <2> QED  BY <2>4
<1> QED  BY <1>1 DEF CheckoutInv, ConfirmedInv

(* Where k statements of the plan leave off.                               *)
At(o, u, row, k) ==
  LET n  == Len(row.items)
      st == CheckoutStatements(o, u, row)[k + 1]
  IN  \/ k = 0 /\ st = InsertOrder(o, [row EXCEPT !.items = <<>>])
      \/ k \in 1..n /\ st = InsertItem(o, row.items[k])
      \/ \E i \in 1..n :
           /\ k = n + 2 * i - 1
           /\ st = LockVariant(row.items[i].variant, row.items[i].quantity)
      \/ \E i \in 1..n :
           /\ k = n + 2 * i
           /\ st = UpdateStock(o, i, row.items[i].variant,
                               -row.items[i].quantity, "order_placed")
      \/ k = 3 * n + 1 /\ st = ClearCart(u)
      \/ k = 3 * n + 2 /\ st = Commit(o)

LEMMA Located ==
  ASSUME NEW o \in Orders, NEW u \in Users, NEW row, Priced(row),
         NEW k \in 0..(3 * Len(row.items) + 2)
  PROVE  At(o, u, row, k)
<1> SUFFICES
      LET n  == Len(row.items)
          st == CheckoutStatements(o, u, row)[k + 1]
      IN  \/ k = 0 /\ st = InsertOrder(o, [row EXCEPT !.items = <<>>])
          \/ k \in 1..n /\ st = InsertItem(o, row.items[k])
          \/ \E i \in 1..n :
               /\ k = n + 2 * i - 1
               /\ st = LockVariant(row.items[i].variant, row.items[i].quantity)
          \/ \E i \in 1..n :
               /\ k = n + 2 * i
               /\ st = UpdateStock(o, i, row.items[i].variant,
                                   -row.items[i].quantity, "order_placed")
          \/ k = 3 * n + 1 /\ st = ClearCart(u)
          \/ k = 3 * n + 2 /\ st = Commit(o)
  BY Zenon DEF At
<1> DEFINE n == Len(row.items)
           plan == CheckoutStatements(o, u, row)
<1>1. n \in Nat \ {0}
  BY PricedRow
<1>2. IsPlan(plan, o, u, row, n)
  BY Plan
<1> HIDE DEF plan
<1>3. k \in 0..(3 * n + 2)
  OBVIOUS
<1> HIDE DEF n
<1>4. \/ k = 0
      \/ \E i \in 1..n : k = i \/ k = n + 2 * i - 1 \/ k = n + 2 * i
      \/ k = 3 * n + 1
      \/ k = 3 * n + 2
  BY <1>1, <1>3, Positions
<1> DEFINE st == plan[k + 1]
<1>5. CASE k = 0
  <2>1. k + 1 = 1
    BY <1>5
  <2>2. st = InsertOrder(o, [row EXCEPT !.items = <<>>])
    BY <1>2, <2>1 DEF IsPlan
  <2> QED  BY <1>5, <2>2 DEF plan
<1>6. CASE k = 3 * n + 1
  <2>1. k + 1 = 3 * n + 2
    BY <1>1, <1>6
  <2>2. st = ClearCart(u)
    BY <1>2, <2>1 DEF IsPlan
  <2> QED  BY <1>6, <2>2 DEF plan, n
<1>7. CASE k = 3 * n + 2
  <2>1. k + 1 = 3 * n + 3
    BY <1>1, <1>7
  <2>2. st = Commit(o)
    BY <1>2, <2>1 DEF IsPlan
  <2> QED  BY <1>7, <2>2 DEF plan, n
<1>8. CASE k \in 1..n
  <2>1. st = InsertItem(o, row.items[k])
    BY <1>2, <1>8 DEF IsPlan
  <2> QED  BY <1>8, <2>1 DEF plan, n
<1>9. CASE \E i \in 1..n : k = n + 2 * i - 1
  <2>1. PICK i \in 1..n : k = n + 2 * i - 1
    BY <1>9
  <2>2. k + 1 = n + 2 * i
    BY <1>1, <2>1
  <2>3. st = LockVariant(row.items[i].variant, row.items[i].quantity)
    BY <1>2, <2>2 DEF IsPlan
  <2> QED  BY <2>1, <2>3 DEF plan, n
<1>10. CASE \E i \in 1..n : k = n + 2 * i
  <2>1. PICK i \in 1..n : k = n + 2 * i
    BY <1>10
  <2>2. k + 1 = n + 2 * i + 1
    BY <1>1, <2>1
  <2>3. st = UpdateStock(o, i, row.items[i].variant, -row.items[i].quantity,
                         "order_placed")
    BY <1>2, <2>2 DEF IsPlan
  <2> QED  BY <2>1, <2>3 DEF plan, n
<1> QED  BY <1>4, <1>5, <1>6, <1>7, <1>8, <1>9, <1>10

LEMMA InsertOrderInv ==
  ASSUME CheckoutInv, NEW c \in Calls, NEW o, NEW u, NEW row, Runs(c, o, u, row, 0),
         ExecuteCheckout(c), ExecInsertOrder(InsertOrder(o, [row EXCEPT !.items = <<>>]))
  PROVE  CheckoutInv'
<1> DEFINE n == Len(row.items)
           empty == [row EXCEPT !.items = <<>>]
<1>1. /\ o \in Orders /\ u \in Users /\ Priced(row) /\ o \notin confirmed
      /\ LoggedFor(o) = Deductions(c, o, row.items, 0)
  BY DEF Runs
<1>2. /\ n \in Nat \ {0} /\ begun' = begun /\ todo' \in [Calls -> Seq(AnyStatement)]
      /\ todo'[c] = IF 0 = 3 * n + 2 THEN <<>> ELSE Remaining(o, u, row, 0 + 1)
  BY StepOf
<1>3. empty \in OrderRow
  BY <1>1, RowWithItems, EmptySeq DEF Priced
<1>4. /\ placed' = placed \union {o} /\ orders' = [orders EXCEPT ![o] = empty]
      /\ UNCHANGED <<stock, log, history, refunds, carts, confirmed>>
  BY DEF ExecInsertOrder, InsertOrder
<1> HIDE DEF empty
<1>5. TypeOK'
  BY <1>1, <1>2, <1>3, <1>4 DEF CheckoutInv, TypeOK, AnyStatement
<1>6. \A p : LoggedFor(p)' = LoggedFor(p)
  BY <1>4 DEF LoggedFor
<1>7. Elsewhere(o)
  BY <1>4, <1>6 DEF Elsewhere, CheckoutInv, TypeOK
<1>8. Runs(c, o, u, row, 0 + 1)'
  <2>1. orders'[o] = [row EXCEPT !.items = ItemsInserted(row, 0 + 1)]
    <3>1. ItemsInserted(row, 1) = <<>>
      <4>1. 0 \in 0..(3 * Len(row.items) + 2)
        BY <1>2
      <4> QED  BY <1>1, <4>1, ItemsGrow
    <3>2. orders'[o] = empty
      BY <1>1, <1>4 DEF CheckoutInv, TypeOK
    <3> QED  BY <3>1, <3>2 DEF empty
  <2>2. LoggedFor(o)' = Deductions(c, o, row.items, 0 + 1)
    <3>1. /\ 0 \in 0..(3 * n + 2) /\ 0 + 1 \in 0..(3 * n + 2)
          /\ 0 <= n + 1 /\ 0 + 1 <= n + 1
      BY <1>2
    <3>2. Deductions(c, o, row.items, 0) = {} /\ Deductions(c, o, row.items, 0 + 1) = {}
      BY <1>2, <3>1, DeductionsGrow
    <3> QED  BY <1>1, <1>6, <3>2
  <2>3. todo'[c] = Remaining(o, u, row, 0 + 1) /\ 0 + 1 \in 0..(3 * n + 2)
    BY <1>2
  <2>4. o \notin confirmed' /\ o \in placed' /\ 0 + 1 > 0
    BY <1>1, <1>4
  <2> QED  BY <1>1, <2>1, <2>2, <2>3, <2>4 DEF Runs
<1>9. RunsInv'
  BY <1>7, <1>8, RunsAdvance
<1>10. ConfirmedInv'
  BY <1>1, <1>4, <1>7, ConfirmedKept
<1>11. LogInv'
  BY <1>4 DEF CheckoutInv, LogInv, UnitsTaken
<1> QED  BY <1>5, <1>9, <1>10, <1>11 DEF CheckoutInv

LEMMA InsertItemInv ==
  ASSUME CheckoutInv, NEW c \in Calls, NEW o, NEW u, NEW row, NEW k,
         Runs(c, o, u, row, k), ExecuteCheckout(c),
         k \in 1..Len(row.items), ExecInsertItem(InsertItem(o, row.items[k]))
  PROVE  CheckoutInv'
<1> DEFINE n == Len(row.items)
           items == ItemsInserted(row, k)
           more == ItemsInserted(row, k + 1)
<1>1. /\ o \in Orders /\ u \in Users /\ Priced(row) /\ o \notin confirmed
      /\ k \in 0..(3 * Len(row.items) + 2)
      /\ LoggedFor(o) = Deductions(c, o, row.items, k)
      /\ o \in placed <=> k > 0
      /\ k > 0 => orders[o] = [row EXCEPT !.items = items]
  BY DEF Runs
<1>2. /\ n \in Nat \ {0} /\ begun' = begun /\ todo' \in [Calls -> Seq(AnyStatement)]
      /\ todo'[c] = IF k = 3 * n + 2 THEN <<>> ELSE Remaining(o, u, row, k + 1)
  BY StepOf
<1>3. k > 0 /\ k + 1 > 0 /\ k # 3 * n + 2 /\ k + 1 \in 0..(3 * n + 2)
      /\ k <= n + 1 /\ k + 1 <= n + 1
  BY <1>2
<1>4. more = Append(items, row.items[k]) /\ items \in Seq(Item) /\ more \in Seq(Item)
  BY <1>1, <1>3, ItemsGrow
<1>5. /\ orders' = [orders EXCEPT ![o].items = Append(@, row.items[k])]
      /\ UNCHANGED <<placed, stock, log, history, refunds, carts, confirmed>>
  BY DEF ExecInsertItem, InsertItem
<1>6. row \in OrderRow
  BY <1>1 DEF Priced
<1> HIDE DEF items, more
<1>7. orders'[o] = [row EXCEPT !.items = more]
  <2>1. orders'[o] = [orders[o] EXCEPT !.items = Append(orders[o].items, row.items[k])]
    BY <1>1, <1>5 DEF CheckoutInv, TypeOK
  <2>2. orders[o] = [row EXCEPT !.items = items] /\ orders[o].items = items
    <3>1. orders[o] = [row EXCEPT !.items = items]
      BY <1>1, <1>3
    <3>2. [row EXCEPT !.items = items].items = items
      BY <1>4, <1>6, RowWithItems
    <3> QED  BY <3>1, <3>2
  <2>3. [[row EXCEPT !.items = items] EXCEPT !.items = more] = [row EXCEPT !.items = more]
    BY <1>4, <1>6, RowWithItems
  <2> QED  BY <1>4, <2>1, <2>2, <2>3
<1>8. [row EXCEPT !.items = more] \in OrderRow
  BY <1>4, <1>6, RowWithItems
<1>9. \A p \in Orders : p # o => orders'[p] = orders[p]
  BY <1>5 DEF CheckoutInv, TypeOK
<1>10. TypeOK'
  <2>1. orders' \in [Orders -> OrderRow]
    <3>1. DOMAIN orders' = Orders /\ orders' = [p \in Orders |-> orders'[p]]
      BY <1>5 DEF CheckoutInv, TypeOK
    <3>2. \A p \in Orders : orders'[p] \in OrderRow
      BY <1>7, <1>8, <1>9 DEF CheckoutInv, TypeOK
    <3> QED  BY <3>1, <3>2
  <2> QED  BY <1>2, <1>5, <2>1 DEF CheckoutInv, TypeOK, AnyStatement
<1>11. \A p : LoggedFor(p)' = LoggedFor(p)
  BY <1>5 DEF LoggedFor
<1>12. Elsewhere(o)
  BY <1>5, <1>9, <1>11 DEF Elsewhere
<1>13. Runs(c, o, u, row, k + 1)'
  <2>1. LoggedFor(o)' = Deductions(c, o, row.items, k + 1)
    <3>1. Deductions(c, o, row.items, k) = {} /\ Deductions(c, o, row.items, k + 1) = {}
      BY <1>1, <1>2, <1>3, DeductionsGrow
    <3> QED  BY <1>1, <1>11, <3>1
  <2>2. todo'[c] = Remaining(o, u, row, k + 1)
    BY <1>2, <1>3
  <2>3. o \notin confirmed' /\ o \in placed'
    BY <1>1, <1>3, <1>5
  <2> QED  BY <1>1, <1>3, <1>7, <2>1, <2>2, <2>3 DEF Runs, more
<1>14. RunsInv'
  BY <1>12, <1>13, RunsAdvance
<1>15. ConfirmedInv'
  BY <1>1, <1>5, <1>12, ConfirmedKept
<1>16. LogInv'
  BY <1>5 DEF CheckoutInv, LogInv, UnitsTaken
<1> QED  BY <1>10, <1>14, <1>15, <1>16 DEF CheckoutInv

LEMMA LockVariantInv ==
  ASSUME CheckoutInv, NEW c \in Calls, NEW o, NEW u, NEW row, NEW k,
         Runs(c, o, u, row, k), ExecuteCheckout(c),
         NEW i \in 1..Len(row.items), k = LockAt(Len(row.items), i),
         NEW st, ExecLockVariant(st)
  PROVE  CheckoutInv'
<1> DEFINE n == Len(row.items)
<1>1. /\ o \in Orders /\ u \in Users /\ Priced(row) /\ o \notin confirmed
      /\ k \in 0..(3 * n + 2)
      /\ LoggedFor(o) = Deductions(c, o, row.items, k)
      /\ o \in placed <=> k > 0
      /\ k > 0 => orders[o] = [row EXCEPT !.items = ItemsInserted(row, k)]
  BY DEF Runs
<1>0. n \in Nat \ {0} /\ i \in 1..n /\ k = n + 2 * i - 1
  BY <1>1, PricedRow DEF LockAt
<1>2. /\ begun' = begun /\ todo' \in [Calls -> Seq(AnyStatement)]
      /\ todo'[c] = IF k = 3 * n + 2 THEN <<>> ELSE Remaining(o, u, row, k + 1)
  BY StepOf
<1>3. UNCHANGED <<placed, orders, stock, log, history, refunds, carts, confirmed>>
  BY DEF ExecLockVariant, tables
<1>4. k > 0 /\ k + 1 > 0 /\ k # 3 * n + 2 /\ k + 1 \in 0..(3 * n + 2) /\ k > n /\ k + 1 > n
  <2> HIDE DEF n
  <2> QED  BY <1>0
<1>5. TypeOK'
  BY <1>2, <1>3 DEF CheckoutInv, TypeOK, AnyStatement
<1>6. \A p : LoggedFor(p)' = LoggedFor(p)
  BY <1>3 DEF LoggedFor
<1>7. Elsewhere(o)
  BY <1>3, <1>6 DEF Elsewhere
<1>8. Runs(c, o, u, row, k + 1)'
  <2>1. Deductions(c, o, row.items, k + 1) = Deductions(c, o, row.items, k)
    <3>1. n \in Nat /\ Len(row.items) = n /\ k = LockAt(n, i)
      BY <1>0
    <3> HIDE DEF n
    <3> QED  BY <1>0, <3>1, NoDeduction
  <2>2. ItemsInserted(row, k) = row.items /\ ItemsInserted(row, k + 1) = row.items
    BY <1>1, <1>4, ItemsGrow
  <2>3. orders'[o] = [row EXCEPT !.items = ItemsInserted(row, k + 1)]
    BY <1>1, <1>3, <1>4, <2>2
  <2>4. todo'[c] = Remaining(o, u, row, k + 1)
    BY <1>2, <1>4
  <2>5. o \notin confirmed' /\ o \in placed'
    BY <1>1, <1>3, <1>4
  <2>6. LoggedFor(o)' = Deductions(c, o, row.items, k + 1)
    BY <1>1, <1>6, <2>1
  <2> QED  BY <1>1, <1>4, <2>3, <2>4, <2>5, <2>6 DEF Runs
<1>9. RunsInv'
  BY <1>7, <1>8, RunsAdvance
<1>10. ConfirmedInv'
  BY <1>1, <1>3, <1>7, ConfirmedKept
<1>11. LogInv'
  BY <1>3 DEF CheckoutInv, LogInv, UnitsTaken
<1> QED  BY <1>5, <1>9, <1>10, <1>11 DEF CheckoutInv

LEMMA ClearCartInv ==
  ASSUME CheckoutInv, NEW c \in Calls, NEW o, NEW u, NEW row, NEW k,
         Runs(c, o, u, row, k), ExecuteCheckout(c),
         k = 3 * Len(row.items) + 1, ExecClearCart(ClearCart(u))
  PROVE  CheckoutInv'
<1> DEFINE n == Len(row.items)
<1>1. /\ o \in Orders /\ u \in Users /\ Priced(row) /\ o \notin confirmed
      /\ k \in 0..(3 * n + 2)
      /\ LoggedFor(o) = Deductions(c, o, row.items, k)
      /\ o \in placed <=> k > 0
      /\ k > 0 => orders[o] = [row EXCEPT !.items = ItemsInserted(row, k)]
  BY DEF Runs
<1>2. /\ n \in Nat \ {0} /\ begun' = begun /\ todo' \in [Calls -> Seq(AnyStatement)]
      /\ todo'[c] = IF k = 3 * n + 2 THEN <<>> ELSE Remaining(o, u, row, k + 1)
  BY StepOf
<1>3. /\ carts' = [carts EXCEPT ![u] = <<>>]
      /\ UNCHANGED <<placed, orders, stock, log, history, refunds, confirmed>>
  BY DEF ExecClearCart, ClearCart, tables
<1>4. k > 0 /\ k + 1 > 0 /\ k # 3 * n + 2 /\ k + 1 \in 0..(3 * n + 2) /\ k > n /\ k + 1 > n
      /\ k >= 3 * n + 1 /\ k + 1 >= 3 * n + 1
  BY <1>2
<1>5. TypeOK'
  <2>1. carts' \in [Users -> Seq(CartLine)]
    <3>1. <<>> \in Seq(CartLine)
      BY EmptySeq
    <3> QED  BY <1>3, <3>1 DEF CheckoutInv, TypeOK
  <2> QED  BY <1>2, <1>3, <2>1 DEF CheckoutInv, TypeOK, AnyStatement
<1>6. \A p : LoggedFor(p)' = LoggedFor(p)
  BY <1>3 DEF LoggedFor
<1>7. Elsewhere(o)
  BY <1>3, <1>6 DEF Elsewhere
<1>8. Runs(c, o, u, row, k + 1)'
  <2>1. Deductions(c, o, row.items, k + 1) = Deductions(c, o, row.items, k)
    <3>1. /\ Deductions(c, o, row.items, k)
               = {Deduction(c, o, row.items, i) : i \in 1..n}
          /\ Deductions(c, o, row.items, k + 1)
               = {Deduction(c, o, row.items, i) : i \in 1..n}
      BY <1>1, <1>2, <1>4, DeductionsGrow
    <3> QED  BY <3>1
  <2>2. ItemsInserted(row, k) = row.items /\ ItemsInserted(row, k + 1) = row.items
    BY <1>1, <1>4, ItemsGrow
  <2>3. orders'[o] = [row EXCEPT !.items = ItemsInserted(row, k + 1)]
    BY <1>1, <1>3, <1>4, <2>2
  <2>4. todo'[c] = Remaining(o, u, row, k + 1)
    BY <1>2, <1>4
  <2>5. o \notin confirmed' /\ o \in placed'
    BY <1>1, <1>3, <1>4
  <2>6. LoggedFor(o)' = Deductions(c, o, row.items, k + 1)
    BY <1>1, <1>6, <2>1
  <2> QED  BY <1>1, <1>4, <2>3, <2>4, <2>5, <2>6 DEF Runs
<1>9. RunsInv'
  BY <1>7, <1>8, RunsAdvance
<1>10. ConfirmedInv'
  BY <1>1, <1>3, <1>7, ConfirmedKept
<1>11. LogInv'
  BY <1>3 DEF CheckoutInv, LogInv, UnitsTaken
<1> QED  BY <1>5, <1>9, <1>10, <1>11 DEF CheckoutInv

(* The last statements find the order whole.                                *)
LEMMA WholeAtTheEnd ==
  ASSUME NEW c, NEW o, NEW u, NEW row, NEW k, Runs(c, o, u, row, k),
         k >= 3 * Len(row.items) + 1
  PROVE  o \in placed /\ orders[o] = row /\ Settled(c, o)
<1> DEFINE n == Len(row.items)
<1>1. /\ o \in Orders /\ u \in Users /\ Priced(row)
      /\ k \in 0..(3 * n + 2)
      /\ LoggedFor(o) = Deductions(c, o, row.items, k)
      /\ o \in placed <=> k > 0
      /\ k > 0 => orders[o] = [row EXCEPT !.items = ItemsInserted(row, k)]
  BY DEF Runs
<1>2. n \in Nat \ {0} /\ row.items \in Seq(Item) /\ row \in OrderRow
  BY <1>1, PricedRow DEF Priced
<1>3. k > 0 /\ k > n
  BY <1>1, <1>2
<1>4. ItemsInserted(row, k) = row.items
  BY <1>1, <1>3, ItemsGrow
<1>5. o \in placed /\ orders[o] = row
  BY <1>1, <1>2, <1>3, <1>4, RowWithItems
<1>6. Deductions(c, o, row.items, k) = {Deduction(c, o, row.items, i) : i \in 1..n}
  BY <1>1, <1>2, DeductionsGrow
<1> QED  BY <1>1, <1>5, <1>6 DEF Settled

LEMMA CommitInv ==
  ASSUME CheckoutInv, NEW c \in Calls, NEW o, NEW u, NEW row, NEW k,
         Runs(c, o, u, row, k), ExecuteCheckout(c),
         k = 3 * Len(row.items) + 2, ExecCommit(Commit(o))
  PROVE  CheckoutInv'
<1>1. o \in Orders /\ o \notin confirmed /\ Len(row.items) \in Nat
  BY PricedRow DEF Runs
<1>2. k >= 3 * Len(row.items) + 1
  BY <1>1
<1>3. o \in placed /\ Settled(c, o)
  BY <1>2, WholeAtTheEnd
<1>4. /\ confirmed' = confirmed \union {o}
      /\ UNCHANGED <<placed, orders, stock, log, history, refunds, carts>>
  BY DEF ExecCommit, Commit, tables
<1>5. begun' = begun /\ todo' \in [Calls -> Seq(AnyStatement)]
  BY StepOf
<1>6. TypeOK'
  BY <1>3, <1>4, <1>5 DEF CheckoutInv, TypeOK, AnyStatement
<1>7. \A p : LoggedFor(p)' = LoggedFor(p)
  BY <1>4 DEF LoggedFor
<1>8. Elsewhere(o)
  BY <1>4, <1>7 DEF Elsewhere
<1>9. RunsInv'
  BY <1>8, RunsAdvance
<1>10. ConfirmedInv'
  <2>1. IsFiniteSet(confirmed')
    BY <1>4, FS_AddElement DEF CheckoutInv, ConfirmedInv
  <2>2. ASSUME NEW p \in confirmed' PROVE \E d \in Calls : Settled(d, p)'
    <3>1. \E d \in Calls : Settled(d, p)
      BY <1>3, <1>4 DEF CheckoutInv, ConfirmedInv
    <3>2. PICK d \in Calls : Settled(d, p)
      BY <3>1
    <3>3. Settled(d, p)'
      BY <1>4, <1>7, <3>2 DEF Settled
    <3> QED  BY <3>3
  <2> QED  BY <2>1, <2>2 DEF ConfirmedInv
<1>11. LogInv'
  BY <1>4 DEF CheckoutInv, LogInv, UnitsTaken
<1> QED  BY <1>6, <1>9, <1>10, <1>11 DEF CheckoutInv

LEMMA UpdateStockInv ==
  ASSUME CheckoutInv, NEW c \in Calls, NEW o, NEW u, NEW row, NEW k,
         Runs(c, o, u, row, k), ExecuteCheckout(c),
         NEW i \in 1..Len(row.items), k = DeductAt(Len(row.items), i),
         ExecUpdateStock(c, UpdateStock(o, i, row.items[i].variant,
                                        -row.items[i].quantity, "order_placed")),
         UNCHANGED <<carts, confirmed>>
  PROVE  CheckoutInv'
<1> DEFINE n == Len(row.items)
           w == row.items[i].variant
           q == row.items[i].quantity
           new == Deduction(c, o, row.items, i)
<1>1. /\ o \in Orders /\ u \in Users /\ Priced(row) /\ o \notin confirmed
      /\ k \in 0..(3 * n + 2)
      /\ LoggedFor(o) = Deductions(c, o, row.items, k)
      /\ o \in placed <=> k > 0
      /\ k > 0 => orders[o] = [row EXCEPT !.items = ItemsInserted(row, k)]
  BY DEF Runs
<1>0. n \in Nat \ {0} /\ i \in 1..n /\ k = n + 2 * i
  BY <1>1, PricedRow DEF DeductAt
<1>2. /\ begun' = begun /\ todo' \in [Calls -> Seq(AnyStatement)]
      /\ todo'[c] = IF k = 3 * n + 2 THEN <<>> ELSE Remaining(o, u, row, k + 1)
  BY StepOf
<1>3. w \in Variants /\ q \in Nat \ {0} /\ -q \in Int
  BY <1>1, PricedRow
<1>4. k > 0 /\ k + 1 > 0 /\ k # 3 * n + 2 /\ k + 1 \in 0..(3 * n + 2) /\ k > n /\ k + 1 > n
  <2> HIDE DEF n
  <2> QED  BY <1>0
<1>5. new = [call |-> c, item |-> i, ref |-> o, variant |-> w, change |-> -q,
             reason |-> "order_placed"]
  BY DEF Deduction
<1>6. /\ stock[w] + (-q) >= 0 /\ stock' = [stock EXCEPT ![w] = @ + (-q)]
      /\ log' = log \union {new}
      /\ UNCHANGED <<placed, orders, history, refunds, carts, confirmed>>
  BY <1>5 DEF ExecUpdateStock, UpdateStock
<1> HIDE DEF new
<1>7. /\ Deductions(c, o, row.items, k + 1)
           = Deductions(c, o, row.items, k) \union {new}
      /\ \A r \in Deductions(c, o, row.items, k) : r.item # i
  <2>1. n \in Nat /\ Len(row.items) = n /\ k = DeductAt(n, i)
    BY <1>0
  <2> HIDE DEF n
  <2>2. /\ Deductions(c, o, row.items, k + 1)
             = Deductions(c, o, row.items, k) \union {Deduction(c, o, row.items, i)}
        /\ \A r \in Deductions(c, o, row.items, k) : r.item # i
    BY <1>0, <2>1, OneDeduction
  <2> QED  BY <2>2 DEF new
<1>8. new \notin log /\ new.ref = o /\ new.item = i /\ new.variant = w /\ new.change = -q
  <2>1. new.ref = o /\ new.item = i /\ new.variant = w /\ new.change = -q
    BY <1>5
  <2>2. new \in log => new \in LoggedFor(o)
    BY <2>1 DEF LoggedFor
  <2> QED  BY <1>1, <1>7, <2>1, <2>2
<1>9. TypeOK'
  <2>1. new \in LogRow
    <3>1. o \in Refs /\ i \in Nat /\ "order_placed" \in Reasons
      BY <1>1 DEF Refs, Reasons
    <3> QED  BY <1>3, <1>5, <3>1 DEF LogRow
  <2>2. stock' \in [Variants -> Nat]
    <3>1. stock[w] + (-q) \in Nat
      BY <1>3, <1>6 DEF CheckoutInv, TypeOK
    <3> QED  BY <1>6, <3>1 DEF CheckoutInv, TypeOK
  <2> QED  BY <1>2, <1>6, <2>1, <2>2 DEF CheckoutInv, TypeOK, AnyStatement
<1>10. /\ LoggedFor(o)' = LoggedFor(o) \union {new}
       /\ \A p : p # o => LoggedFor(p)' = LoggedFor(p)
  BY <1>6, <1>8 DEF LoggedFor
<1>11. Elsewhere(o)
  BY <1>6, <1>10 DEF Elsewhere
<1>12. Runs(c, o, u, row, k + 1)'
  <2>1. ItemsInserted(row, k) = row.items /\ ItemsInserted(row, k + 1) = row.items
    BY <1>1, <1>4, ItemsGrow
  <2>2. orders'[o] = [row EXCEPT !.items = ItemsInserted(row, k + 1)]
    BY <1>1, <1>4, <1>6, <2>1
  <2>3. todo'[c] = Remaining(o, u, row, k + 1)
    BY <1>2, <1>4
  <2>4. o \notin confirmed' /\ o \in placed'
    BY <1>1, <1>4, <1>6
  <2>5. LoggedFor(o)' = Deductions(c, o, row.items, k + 1)
    BY <1>1, <1>7, <1>10
  <2> QED  BY <1>1, <1>4, <2>2, <2>3, <2>4, <2>5 DEF Runs
<1>13. RunsInv'
  BY <1>11, <1>12, RunsAdvance
<1>14. ConfirmedInv'
  BY <1>1, <1>6, <1>11, ConfirmedKept
<1>15. LogInv'
  <2>1. IsFiniteSet(log')
    BY <1>6, FS_AddElement DEF CheckoutInv, LogInv
  <2>2. \A r \in log' : r.ref \in placed' /\ r.change < 0
    <3>1. o \in placed' /\ -q < 0
      BY <1>1, <1>3, <1>4, <1>6
    <3> QED  BY <1>6, <1>8, <3>1 DEF CheckoutInv, LogInv
  <2>3. ASSUME NEW v \in Variants
        PROVE  stock'[v] + UnitsTaken(v)' = InitStock[v]
    <3> DEFINE f == [r \in log |-> -r.change]
               g == [r \in log' |-> -r.change]
               S == {r \in log : r.variant = v}
               T == {r \in log' : r.variant = v}
               before == UnitsTaken(v)
               after == UnitsTaken(v)'
    <3>1. before = SumFunctionOnSet(f, S) /\ after = SumFunctionOnSet(g, T)
      BY DEF UnitsTaken
    <3>2. IsFiniteSet(S)
      BY FS_Subset DEF CheckoutInv, LogInv
    <3>3. \A r \in S : f[r] \in Int /\ g[r] = f[r]
      BY <1>6 DEF CheckoutInv, TypeOK, LogRow
    <3>4. before \in Int /\ stock[v] \in Int /\ stock[v] + before = InitStock[v]
      <4>1. before \in Int
        <5> HIDE DEF f, S, before
        <5> QED  BY <3>1, <3>2, <3>3, SumInt
      <4> QED  BY <4>1 DEF CheckoutInv, LogInv, TypeOK
    <3>5. CASE v = w
      <4>1. T = S \union {new} /\ new \notin S /\ g[new] = q
        BY <1>3, <1>6, <1>8, <3>5
      <4>2. after = before + q
        <5> HIDE DEF f, g, S, T, before, after
        <5> QED  BY <1>3, <3>1, <3>2, <3>3, <4>1, SumGrows
      <4>3. stock'[v] = stock[v] + (-q)
        BY <1>3, <1>6, <3>5 DEF CheckoutInv, TypeOK
      <4> HIDE DEF before, after, q
      <4>4. stock'[v] + after = InitStock[v]
        BY <1>3, <3>4, <4>2, <4>3
      <4> QED  BY <4>4 DEF after
    <3>6. CASE v # w
      <4>1. T = S
        BY <1>6, <1>8, <3>6
      <4>2. after = before
        <5> HIDE DEF f, g, S, T, before, after
        <5> QED  BY <3>1, <3>2, <3>3, <4>1, SumSame
      <4>3. stock'[v] = stock[v]
        BY <1>3, <1>6, <3>6 DEF CheckoutInv, TypeOK
      <4> HIDE DEF before, after
      <4>4. stock'[v] + after = InitStock[v]
        BY <3>4, <4>2, <4>3
      <4> QED  BY <4>4 DEF after
    <3> QED  BY <3>5, <3>6
  <2> QED  BY <2>1, <2>2, <2>3 DEF LogInv
<1> QED  BY <1>9, <1>13, <1>14, <1>15 DEF CheckoutInv

-----------------------------------------------------------------------------
(* Every step *)

(* The statement at the position of the call is the one that is executed.   *)
LEMMA ExecuteCheckoutInv ==
  ASSUME CheckoutInv, NEW c \in Calls, ExecuteCheckout(c)
  PROVE  CheckoutInv'
<1>1. c \in InFlight
  BY DEF ExecuteCheckout, InFlight
<1>2. PICK o, u, row, k : Runs(c, o, u, row, k)
  BY <1>1 DEF CheckoutInv, RunsInv
<1> DEFINE n == Len(row.items)
           st == CheckoutStatements(o, u, row)[k + 1]
<1>3. o \in Orders /\ u \in Users /\ Priced(row) /\ k \in 0..(3 * n + 2)
  BY <1>2 DEF Runs
<1>4. \/ ExecInsertOrder(st)
      \/ ExecInsertItem(st)
      \/ ExecLockVariant(st)
      \/ ExecUpdateStock(c, st) /\ UNCHANGED <<carts, confirmed>>
      \/ ExecClearCart(st)
      \/ ExecCommit(st)
  BY <1>2, StepOf
<1>5. \/ k = 0 /\ st = InsertOrder(o, [row EXCEPT !.items = <<>>])
      \/ k \in 1..n /\ st = InsertItem(o, row.items[k])
      \/ \E i \in 1..n :
           /\ k = n + 2 * i - 1
           /\ st = LockVariant(row.items[i].variant, row.items[i].quantity)
      \/ \E i \in 1..n :
           /\ k = n + 2 * i
           /\ st = UpdateStock(o, i, row.items[i].variant,
                               -row.items[i].quantity, "order_placed")
      \/ k = 3 * n + 1 /\ st = ClearCart(u)
      \/ k = 3 * n + 2 /\ st = Commit(o)
  <2>1. At(o, u, row, k)
    BY <1>3, Located
  <2> QED  BY <2>1, Zenon DEF At
<1> HIDE DEF st
<1>6. CASE k = 0 /\ st = InsertOrder(o, [row EXCEPT !.items = <<>>])
  <2>1. st.op = "InsertOrder"
    BY <1>6 DEF InsertOrder
  <2>2. ExecInsertOrder(InsertOrder(o, [row EXCEPT !.items = <<>>]))
    BY <1>4, <1>6, <2>1 DEF ExecInsertItem, ExecLockVariant, ExecUpdateStock,
                            ExecClearCart, ExecCommit
  <2>3. Runs(c, o, u, row, 0)
    BY <1>2, <1>6
  <2> QED  BY <2>2, <2>3, InsertOrderInv
<1>7. CASE k \in 1..n /\ st = InsertItem(o, row.items[k])
  <2>1. st.op = "InsertItem"
    BY <1>7 DEF InsertItem
  <2>2. ExecInsertItem(InsertItem(o, row.items[k]))
    BY <1>4, <1>7, <2>1 DEF ExecInsertOrder, ExecLockVariant, ExecUpdateStock,
                            ExecClearCart, ExecCommit
  <2> QED  BY <1>2, <1>7, <2>2, InsertItemInv
<1>8. CASE \E i \in 1..n :
             /\ k = n + 2 * i - 1
             /\ st = LockVariant(row.items[i].variant, row.items[i].quantity)
  <2>1. PICK i \in 1..n :
             /\ k = n + 2 * i - 1
             /\ st = LockVariant(row.items[i].variant, row.items[i].quantity)
    BY <1>8
  <2>2. st.op = "LockVariant"
    BY <2>1 DEF LockVariant
  <2>3. ExecLockVariant(st)
    BY <1>4, <2>2 DEF ExecInsertOrder, ExecInsertItem, ExecUpdateStock,
                      ExecClearCart, ExecCommit
  <2>4. k = LockAt(Len(row.items), i)
    BY <2>1 DEF LockAt
  <2> QED  BY <1>2, <2>3, <2>4, LockVariantInv
<1>9. CASE \E i \in 1..n :
             /\ k = n + 2 * i
             /\ st = UpdateStock(o, i, row.items[i].variant,
                                 -row.items[i].quantity, "order_placed")
  <2>1. PICK i \in 1..n :
             /\ k = n + 2 * i
             /\ st = UpdateStock(o, i, row.items[i].variant,
                                 -row.items[i].quantity, "order_placed")
    BY <1>9
  <2>2. st.op = "UpdateStock"
    BY <2>1 DEF UpdateStock
  <2>3. ExecUpdateStock(c, st) /\ UNCHANGED <<carts, confirmed>>
    BY <1>4, <2>2 DEF ExecInsertOrder, ExecInsertItem, ExecLockVariant,
                      ExecClearCart, ExecCommit
  <2>4. k = DeductAt(Len(row.items), i)
    BY <2>1 DEF DeductAt
  <2> QED  BY <1>2, <2>1, <2>3, <2>4, UpdateStockInv
<1>10. CASE k = 3 * n + 1 /\ st = ClearCart(u)
  <2>1. st.op = "ClearCart"
    BY <1>10 DEF ClearCart
  <2>2. ExecClearCart(ClearCart(u))
    BY <1>4, <1>10, <2>1 DEF ExecInsertOrder, ExecInsertItem, ExecLockVariant,
                             ExecUpdateStock, ExecCommit
  <2> QED  BY <1>2, <1>10, <2>2, ClearCartInv
<1>11. CASE k = 3 * n + 2 /\ st = Commit(o)
  <2>1. st.op = "Commit"
    BY <1>11 DEF Commit
  <2>2. ExecCommit(Commit(o))
    BY <1>4, <1>11, <2>1 DEF ExecInsertOrder, ExecInsertItem, ExecLockVariant,
                             ExecUpdateStock, ExecClearCart
  <2> QED  BY <1>2, <1>11, <2>2, CommitInv
<1> QED  BY <1>5, <1>6, <1>7, <1>8, <1>9, <1>10, <1>11

LEMMA UpdateCartInv ==
  ASSUME CheckoutInv, NEW u \in Users, NEW v \in Variants, NEW q \in 1..MaxQuantity,
         UpdateCartItemQuantity(u, v, q)
  PROVE  CheckoutInv'
<1> DEFINE cart == carts[u]
           new == [variant |-> v, quantity |-> q]
           same == LineOf(u, v)
           set == [k \in DOMAIN cart |->
                     IF k \in same THEN [cart[k] EXCEPT !.quantity = q] ELSE cart[k]]
<1>1. /\ UNCHANGED <<tables, begun, todo, confirmed>>
      /\ UNCHANGED <<placed, orders, stock, log, history, refunds>>
  BY DEF UpdateCartItemQuantity, vars, tables
<1>2. RunsInv' /\ LogInv' /\ ConfirmedInv'
  BY <1>1, Untouched
<1>3. cart \in Seq(CartLine) /\ new \in CartLine /\ q \in Nat \ {0}
  <2>1. q \in Nat \ {0}
    BY MaxQuantityAssumption
  <2>2. cart \in Seq(CartLine)
    BY DEF CheckoutInv, TypeOK
  <2> QED  BY <2>1, <2>2 DEF CartLine
<1>4. Append(cart, new) \in Seq(CartLine)
  BY <1>3, AppendProperties
<1>5. set \in Seq(CartLine)
  <2>1. DOMAIN cart = 1..Len(cart) /\ Len(cart) \in Nat
    BY <1>3, LenProperties
  <2>2. \A k \in DOMAIN cart : cart[k] \in CartLine
    BY <1>3, <2>1, ElementOfSeq
  <2>3. \A k \in DOMAIN cart : set[k] \in CartLine
    BY <1>3, <2>2 DEF CartLine
  <2>4. set \in [1..Len(cart) -> CartLine]
    BY <2>1, <2>3
  <2> HIDE DEF set, cart
  <2> QED  BY <2>1, <2>4, SeqDef
<1>6. carts' = [carts EXCEPT ![u] = IF same = {} THEN Append(cart, new) ELSE set]
  BY DEF UpdateCartItemQuantity, CheckoutInv, TypeOK
<1>7. carts' \in [Users -> Seq(CartLine)]
  <2> HIDE DEF set, new, same, cart
  <2> QED  BY <1>4, <1>5, <1>6 DEF CheckoutInv, TypeOK
<1>8. TypeOK'
  BY <1>1, <1>7 DEF CheckoutInv, TypeOK
<1> QED  BY <1>2, <1>8 DEF CheckoutInv

LEMMA RemoveFromCartInv ==
  ASSUME CheckoutInv, NEW u \in Users, NEW v \in Variants, RemoveFromCart(u, v)
  PROVE  CheckoutInv'
<1> DEFINE cart == carts[u]
           kept == DOMAIN cart \ LineOf(u, v)
<1>1. /\ UNCHANGED <<tables, begun, todo, confirmed>>
      /\ UNCHANGED <<placed, orders, stock, log, history, refunds>>
  BY DEF RemoveFromCart, vars, tables
<1>2. RunsInv' /\ LogInv' /\ ConfirmedInv'
  BY <1>1, Untouched
<1>3. cart \in Seq(CartLine)
  BY DEF CheckoutInv, TypeOK
<1>4. PICK k \in [1..Cardinality(kept) -> kept] :
           carts' = [carts EXCEPT ![u] = [j \in DOMAIN k |-> cart[k[j]]]]
  BY DEF RemoveFromCart, CheckoutInv, TypeOK
<1>5. [j \in DOMAIN k |-> cart[k[j]]] \in Seq(CartLine)
  <2>1. DOMAIN cart = 1..Len(cart) /\ Len(cart) \in Nat
    BY <1>3, LenProperties
  <2>2. \A j \in DOMAIN cart : cart[j] \in CartLine
    BY <1>3, <2>1, ElementOfSeq
  <2>3. Cardinality(kept) \in Nat
    <3>1. IsFiniteSet(1..Len(cart))
      BY <2>1, FS_Interval
    <3>2. IsFiniteSet(kept)
      BY <2>1, <3>1, FS_Subset
    <3> QED  BY <3>2, FS_CardinalityType
  <2>4. DOMAIN k = 1..Cardinality(kept)
    OBVIOUS
  <2>5. \A j \in DOMAIN k : cart[k[j]] \in CartLine
    BY <2>2
  <2> HIDE DEF kept
  <2> QED  BY <2>3, <2>4, <2>5, IsASeq
<1>6. carts' \in [Users -> Seq(CartLine)]
  <2> HIDE DEF cart, kept
  <2> QED  BY <1>4, <1>5 DEF CheckoutInv, TypeOK
<1>7. TypeOK'
  BY <1>1, <1>6 DEF CheckoutInv, TypeOK
<1> QED  BY <1>2, <1>7 DEF CheckoutInv

(* Calls that end early, and steps that leave Checkout's state alone.       *)
LEMMA DroppedInv ==
  ASSUME CheckoutInv, UNCHANGED <<tables, begun, carts, confirmed>>,
         todo' \in [Calls -> Seq(AnyStatement)],
         \A c \in Calls : todo'[c] = todo[c] \/ todo'[c] = <<>>
  PROVE  CheckoutInv'
<1>1. RunsInv' /\ LogInv' /\ ConfirmedInv'
  BY Untouched
<1>2. TypeOK'
  BY DEF CheckoutInv, TypeOK, tables, AnyStatement
<1> QED  BY <1>1, <1>2 DEF CheckoutInv

LEMMA CheckoutStep ==
  ASSUME CheckoutInv, [Next]_cvars
  PROVE  CheckoutInv'
<1>1. ASSUME NEW u \in Users, NEW v \in Variants, NEW q \in 1..MaxQuantity,
             UpdateCartItemQuantity(u, v, q)
      PROVE  CheckoutInv'
  BY <1>1, UpdateCartInv
<1>2. ASSUME NEW u \in Users, NEW v \in Variants, RemoveFromCart(u, v)
      PROVE  CheckoutInv'
  BY <1>2, RemoveFromCartInv
<1>3. ASSUME NEW c \in Calls, NEW u \in Users, NEW z \in Zones, NEW p \in Payments,
             Submit(c, u, z, p[1], p[2])
      PROVE  CheckoutInv'
  <2>1. p[1] \in PaymentMethods /\ p[2] \in BOOLEAN
    BY PaymentsAssumption
  <2> QED  BY <1>3, <2>1, SubmitInv
<1>4. ASSUME NEW c \in Calls, ExecuteCheckout(c)
      PROVE  CheckoutInv'
  BY <1>4, ExecuteCheckoutInv
<1>5. ASSUME NEW c \in Calls, FailCheckout(c)
      PROVE  CheckoutInv'
  <2>1. /\ todo' = [todo EXCEPT ![c] = <<>>]
        /\ UNCHANGED <<tables, begun, carts, confirmed>>
    BY <1>5 DEF FailCheckout
  <2>2. todo \in [Calls -> Seq(AnyStatement)] /\ <<>> \in Seq(AnyStatement)
    BY EmptySeq DEF CheckoutInv, TypeOK, AnyStatement
  <2>3. todo' \in [Calls -> Seq(AnyStatement)]
    BY <2>1, <2>2
  <2>4. \A d \in Calls : todo'[d] = todo[d] \/ todo'[d] = <<>>
    BY <2>1, <2>2
  <2> QED  BY <2>1, <2>3, <2>4, DroppedInv
<1>6. CASE UNCHANGED cvars
  <2>1. todo \in [Calls -> Seq(AnyStatement)]
    BY DEF CheckoutInv, TypeOK, AnyStatement
  <2>2. UNCHANGED <<tables, begun, carts, confirmed, todo>>
    BY <1>6 DEF cvars, vars, tables
  <2> QED  BY <2>1, <2>2, DroppedInv
<1> QED  BY <1>1, <1>2, <1>3, <1>4, <1>5, <1>6 DEF Next

(* A stopped process drops its calls; the rest of PurchaseEvents leaves the  *)
(* state of Checkout alone.                                                *)
LEMMA EventStep ==
  ASSUME CheckoutInv, [EventNext]_evars
  PROVE  CheckoutInv'
<1>1. CASE Stop
  <2>1. /\ todo' = [c \in Calls |-> <<>>] /\ UNCHANGED <<tables, begun, carts, confirmed>>
    BY <1>1 DEF Stop
  <2>2. todo' \in [Calls -> Seq(AnyStatement)]
    BY <2>1, EmptySeq
  <2> QED  BY <2>1, <2>2, DroppedInv
<1>2. CASE UNCHANGED cvars
  BY <1>2, CheckoutStep
<1>3. CASE Next
  BY <1>3, CheckoutStep
<1>4. Stop \/ UNCHANGED cvars \/ Next
  BY DEF EventNext, evars, SendPurchaseEvent, Accepted, Refused, Retried
<1> QED  BY <1>1, <1>2, <1>3, <1>4

(* The inductive invariant of Checkout, also where processes stop.          *)
THEOREM CheckoutCorrect == EventSpec => []CheckoutInv
<1>1. EventInit => CheckoutInv
  BY InitInv DEF EventInit
<1>2. CheckoutInv /\ [EventNext]_evars => CheckoutInv'
  BY EventStep
<1> QED  BY <1>1, <1>2, PTL DEF EventSpec

-----------------------------------------------------------------------------
(* What the invariant means to customers *)

LEMMA UnitsWithin ==
  ASSUME CheckoutInv, NEW o \in confirmed, NEW v \in Variants
  PROVE  /\ Units(orders[o].items, v) \in Nat
         /\ Units(orders[o].items, v)
              <= SumFunctionOnSet([r \in log |-> -r.change],
                                  {r \in log : r.ref = o /\ r.variant = v})
<1> DEFINE items == orders[o].items
           q == [i \in DOMAIN items |-> items[i].quantity]
           S == {i \in DOMAIN items : items[i].variant = v}
           g == [r \in log |-> -r.change]
           T == {r \in log : r.ref = o /\ r.variant = v}
<1>1. PICK c \in Calls : Settled(c, o)
  BY DEF CheckoutInv, ConfirmedInv
<1> DEFINE h == [i \in S |-> Deduction(c, o, items, i)]
<1>2. /\ items \in Seq(Item) /\ Len(items) \in Nat /\ DOMAIN items = 1..Len(items)
      /\ \A i \in 1..Len(items) :
           /\ items[i].variant \in Variants
           /\ items[i].quantity \in Nat \ {0}
  <2>1. Priced(orders[o])
    BY <1>1 DEF Settled
  <2>2. items \in Seq(Item)
    BY <2>1, PricedRow
  <2> QED  BY <2>1, <2>2, PricedRow, LenProperties
<1>3. \A i \in S : i \in 1..Len(items) /\ q[i] \in Nat
  BY <1>2
<1>4. IsFiniteSet(S)
  <2>1. IsFiniteSet(1..Len(items))
    BY <1>2, FS_Interval
  <2> QED  BY <1>2, <2>1, FS_Subset
<1>5. IsFiniteSet(T)
  BY FS_Subset DEF CheckoutInv, LogInv
<1>6. \A r \in T : g[r] \in Nat
  <2>1. \A r \in log : r.change \in Int /\ r.change < 0
    BY DEF CheckoutInv, LogInv, TypeOK, LogRow
  <2> QED  BY <2>1
<1>7. \A i \in 1..Len(items) : Deduction(c, o, items, i) \in log
  BY <1>1 DEF Settled, LoggedFor
<1>8. \A i \in S : /\ h[i] \in T /\ h[i].item = i
                   /\ q[i] <= g[h[i]]
  <2> SUFFICES ASSUME NEW i \in S PROVE h[i] \in T /\ h[i].item = i /\ q[i] <= g[h[i]]
    OBVIOUS
  <2>1. h[i] = Deduction(c, o, items, i) /\ h[i] \in log
    BY <1>3, <1>7
  <2>2. h[i].ref = o /\ h[i].item = i /\ h[i].variant = v /\ h[i].change = -q[i]
    BY <1>2, <2>1 DEF Deduction
  <2>3. g[h[i]] = -(-q[i])
    BY <2>1, <2>2
  <2>4. \A a \in Nat : a <= -(-a)
    OBVIOUS
  <2>5. q[i] <= g[h[i]]
    BY <1>3, <2>3, <2>4, Zenon
  <2> QED  BY <2>1, <2>2, <2>5
<1>9. Units(items, v) = SumFunctionOnSet(q, S)
  BY DEF Units
<1> HIDE DEF q, S, g, T
<1>10. h \in [S -> T] /\ \A i, j \in S : h[i] = h[j] => i = j
  BY <1>8
<1>11. \A i \in S : q[i] \in Int /\ q[i] \in Nat
  BY <1>3
<1> HIDE DEF h
<1>12. SumFunctionOnSet(q, S) <= SumFunctionOnSet(g, T)
  BY <1>4, <1>5, <1>6, <1>8, <1>10, <1>11, SumInto
<1>13. SumFunctionOnSet(q, S) \in Nat
  BY <1>4, <1>11, SumNat
<1> QED  BY <1>9, <1>12, <1>13 DEF g, T

(* The promises of different orders rest on different rows of the log.      *)
LEMMA NotOversold == CheckoutInv => NoOversell
<1> SUFFICES ASSUME CheckoutInv, NEW v \in Variants
             PROVE  Promised(v) <= InitStock[v]
  BY DEF NoOversell
<1> DEFINE f == [o \in confirmed |-> Units(orders[o].items, v)]
           g == [r \in log |-> -r.change]
           T == {r \in log : r.variant = v}
           part == [o \in confirmed |-> {r \in log : r.ref = o /\ r.variant = v}]
<1>1. IsFiniteSet(confirmed)
  BY DEF CheckoutInv, ConfirmedInv
<1>2. IsFiniteSet(T)
  BY FS_Subset DEF CheckoutInv, LogInv
<1>3. \A r \in T : g[r] \in Nat
  <2>1. \A r \in log : r.change \in Int /\ r.change < 0
    BY DEF CheckoutInv, LogInv, TypeOK, LogRow
  <2> QED  BY <2>1
<1>4. \A o \in confirmed : f[o] \in Int /\ f[o] <= SumFunctionOnSet(g, part[o])
  BY UnitsWithin
<1>5. /\ part \in [confirmed -> SUBSET T]
      /\ \A o, p \in confirmed : o # p => part[o] \intersect part[p] = {}
  OBVIOUS
<1>6. Promised(v) = SumFunctionOnSet(f, confirmed)
  BY DEF Promised, SumFunction
<1>7. UnitsTaken(v) = SumFunctionOnSet(g, T)
  BY DEF UnitsTaken
<1>8. stock[v] \in Nat /\ stock[v] + UnitsTaken(v) = InitStock[v]
  BY DEF CheckoutInv, LogInv, TypeOK
<1> HIDE DEF f, g, T, part
<1>9. SumFunctionOnSet(f, confirmed) <= SumFunctionOnSet(g, T)
  BY <1>1, <1>2, <1>3, <1>4, <1>5, SumOfParts
<1>10. SumFunctionOnSet(f, confirmed) \in Int /\ SumFunctionOnSet(g, T) \in Nat
  BY <1>1, <1>2, <1>3, <1>4, SumInt, SumNat
<1> QED  BY <1>6, <1>7, <1>8, <1>9, <1>10

LEMMA WholeOrders == CheckoutInv => ConfirmedWhole
<1> SUFFICES ASSUME CheckoutInv, NEW o \in confirmed
             PROVE  /\ orders[o].total = Subtotal(orders[o].items) + orders[o].fee
                    /\ \A i \in DOMAIN orders[o].items :
                         Cardinality({r \in log :
                           /\ r.ref = o /\ r.item = i
                           /\ r.variant = orders[o].items[i].variant
                           /\ r.change = -orders[o].items[i].quantity}) = 1
  BY DEF ConfirmedWhole
<1> DEFINE items == orders[o].items
<1>1. PICK c \in Calls : Settled(c, o)
  BY DEF CheckoutInv, ConfirmedInv
<1>2. Priced(orders[o]) /\ LoggedFor(o) = {Deduction(c, o, items, i) : i \in 1..Len(items)}
  BY <1>1 DEF Settled
<1>3. DOMAIN items = 1..Len(items)
  BY <1>2, PricedRow, LenProperties
<1>4. ASSUME NEW i \in 1..Len(items)
      PROVE  Cardinality({r \in log : /\ r.ref = o /\ r.item = i
                                      /\ r.variant = items[i].variant
                                      /\ r.change = -items[i].quantity}) = 1
  <2> DEFINE rows == {r \in log : /\ r.ref = o /\ r.item = i
                                  /\ r.variant = items[i].variant
                                  /\ r.change = -items[i].quantity}
             d == Deduction(c, o, items, i)
  <2>1. d \in rows
    BY <1>2 DEF Deduction, LoggedFor
  <2>2. \A r \in rows : r = d
    <3>1. \A j \in 1..Len(items) : Deduction(c, o, items, j).item = j
      BY DEF Deduction
    <3>2. \A r \in rows : r \in LoggedFor(o) /\ r.item = i
      BY DEF LoggedFor
    <3> QED  BY <1>2, <3>1, <3>2
  <2>3. rows = {d}
    BY <2>1, <2>2
  <2> QED  BY <2>3, FS_Singleton
<1> QED  BY <1>2, <1>3, <1>4 DEF Priced

(* A cart that becomes empty while a call moves on.                         *)
CartCleared ==
  \A u \in Users :
    carts[u] # <<>> /\ carts'[u] = <<>> /\ todo' # todo =>
      \E c \in Calls, o \in placed :
        /\ todo'[c] = <<Commit(o)>>
        /\ \A i \in DOMAIN orders[o].items :
             \E r \in log : r.call = c /\ r.ref = o /\ r.item = i

LEMMA ClearedByCheckout ==
  ASSUME CheckoutInv, NEW c \in Calls, ExecuteCheckout(c), carts' # carts
  PROVE  \E o \in placed :
           /\ todo'[c] = <<Commit(o)>>
           /\ \A i \in DOMAIN orders[o].items :
                \E r \in log : r.call = c /\ r.ref = o /\ r.item = i
<1>1. c \in InFlight
  BY DEF ExecuteCheckout, InFlight
<1>2. PICK o, u, row, k : Runs(c, o, u, row, k)
  BY <1>1 DEF CheckoutInv, RunsInv
<1> DEFINE n == Len(row.items)
           st == CheckoutStatements(o, u, row)[k + 1]
<1>3. o \in Orders /\ u \in Users /\ Priced(row) /\ k \in 0..(3 * n + 2)
  BY <1>2 DEF Runs
<1>4. ExecClearCart(st)
  BY <1>2, StepOf DEF ExecInsertOrder, ExecInsertItem, ExecLockVariant, ExecCommit
<1>5. st.op = "ClearCart"
  BY <1>4 DEF ExecClearCart
<1>6. k = 3 * n + 1
  <2>1. At(o, u, row, k)
    BY <1>3, Located
  <2>2. \/ st = InsertOrder(o, [row EXCEPT !.items = <<>>])
        \/ st = InsertItem(o, row.items[k])
        \/ \E i \in 1..n : st = LockVariant(row.items[i].variant, row.items[i].quantity)
        \/ \E i \in 1..n : st = UpdateStock(o, i, row.items[i].variant,
                                             -row.items[i].quantity, "order_placed")
        \/ k = 3 * n + 1
        \/ st = Commit(o)
    BY <2>1, Zenon DEF At
  <2> HIDE DEF st, n
  <2> QED  BY <1>5, <2>2 DEF InsertOrder, InsertItem, LockVariant, UpdateStock, Commit
<1>7. n \in Nat \ {0}
  BY <1>3, PricedRow
<1>8. k # 3 * n + 2 /\ k + 1 = 3 * n + 2 /\ k + 1 \in 0..(3 * n + 2) /\ k >= 3 * n + 1
  <2> HIDE DEF n
  <2> QED  BY <1>6, <1>7
<1> DEFINE rest == Remaining(o, u, row, k + 1)
<1>9. todo'[c] = rest
  BY <1>2, <1>8, StepOf
<1>10. rest \in Seq(AnyStatement) /\ rest # <<>> /\ Tail(rest) = <<>>
       /\ rest[Len(rest)] = Commit(o)
  BY <1>3, <1>8, RemainingList
<1>11. rest = <<Commit(o)>>
  <2> HIDE DEF rest
  <2>1. Len(rest) = 1
    <3>1. Len(Tail(rest)) = Len(rest) - 1 /\ Len(rest) \in Nat
      BY <1>10, HeadTailProperties, LenProperties
    <3>2. Len(<<>>) = 0
      OBVIOUS
    <3>3. Len(Tail(rest)) = 0
      BY <1>10, <3>2, Zenon
    <3> QED  BY <3>1, <3>3
  <2>2. rest[1] = Commit(o) /\ rest[1] \in AnyStatement
    BY <1>10, <2>1, ElementOfSeq
  <2>3. <<Commit(o)>> \in Seq(AnyStatement) /\ Len(<<Commit(o)>>) = 1
        /\ <<Commit(o)>>[1] = Commit(o)
    BY <2>2
  <2> QED  BY <1>10, <2>1, <2>2, <2>3, SeqEqual
<1>12. o \in placed /\ Settled(c, o)
  BY <1>2, <1>8, WholeAtTheEnd
<1>13. ASSUME NEW i \in DOMAIN orders[o].items
       PROVE  \E r \in log : r.call = c /\ r.ref = o /\ r.item = i
  <2>1. i \in 1..Len(orders[o].items)
    BY <1>12, PricedRow, LenProperties DEF Settled
  <2>2. Deduction(c, o, orders[o].items, i) \in log
    BY <1>12, <2>1 DEF Settled, LoggedFor
  <2> QED  BY <2>2 DEF Deduction
<1> QED  BY <1>9, <1>11, <1>12, <1>13

LEMMA ClearedLast ==
  ASSUME CheckoutInv, [Next]_cvars
  PROVE  CartCleared
<1> SUFFICES ASSUME NEW w \in Users, carts[w] # <<>>, carts'[w] = <<>>, todo' # todo
             PROVE  \E c \in Calls, o \in placed :
                      /\ todo'[c] = <<Commit(o)>>
                      /\ \A i \in DOMAIN orders[o].items :
                           \E r \in log : r.call = c /\ r.ref = o /\ r.item = i
  BY DEF CartCleared
<1>1. carts' # carts
  OBVIOUS
<1>2. ASSUME NEW u \in Users, NEW v \in Variants, NEW q, UpdateCartItemQuantity(u, v, q)
      PROVE  FALSE
  BY <1>2 DEF UpdateCartItemQuantity, vars
<1>3. ASSUME NEW u \in Users, NEW v \in Variants, RemoveFromCart(u, v)
      PROVE  FALSE
  BY <1>3 DEF RemoveFromCart, vars
<1>4. ASSUME NEW c, NEW u, NEW z, NEW m, NEW t, Submit(c, u, z, m, t)
      PROVE  FALSE
  BY <1>1, <1>4 DEF Submit
<1>5. ASSUME NEW c \in Calls, FailCheckout(c)
      PROVE  FALSE
  BY <1>1, <1>5 DEF FailCheckout
<1>6. ~UNCHANGED cvars
  BY <1>1 DEF cvars
<1>7. PICK c \in Calls : ExecuteCheckout(c)
  BY <1>2, <1>3, <1>4, <1>5, <1>6 DEF Next
<1> QED  BY <1>1, <1>7, ClearedByCheckout

-----------------------------------------------------------------------------
(* The same inductive invariant for Checkout on its own.                    *)
THEOREM CheckoutInvariant == Spec => []CheckoutInv
<1>1. CheckoutInv /\ [Next]_cvars => CheckoutInv'
  BY CheckoutStep
<1> QED  BY <1>1, InitInv, PTL DEF Spec

(* Tables, carts and pending statements keep their types, and only orders   *)
(* with a row are answered with success.                                   *)
THEOREM CheckoutTyped == (Spec => []TypeOK) /\ (EventSpec => []TypeOK)
<1>1. CheckoutInv => TypeOK
  BY DEF CheckoutInv
<1> QED  BY <1>1, CheckoutInvariant, CheckoutCorrect, PTL

(* However many checkouts compete, for whatever carts and stock, and        *)
(* although the row lock protects nothing: the confirmed orders never       *)
(* promise more units of a variant than there were.                        *)
THEOREM NeverOversold == (Spec => []NoOversell) /\ (EventSpec => []NoOversell)
BY NotOversold, CheckoutInvariant, CheckoutCorrect, PTL

(* A checkout that answered with success left all its items and took each    *)
(* from stock exactly once.                                                *)
THEOREM ConfirmedAreWhole == (Spec => []ConfirmedWhole) /\ (EventSpec => []ConfirmedWhole)
BY WholeOrders, CheckoutInvariant, CheckoutCorrect, PTL

(* A call empties the customer's cart only when every item of its order has  *)
(* been taken from stock and nothing is left that could fail but the commit. *)
THEOREM CartOutlivesRefusal == Spec => ClearedAfterReserving
<1>1. CheckoutInv /\ [Next]_cvars => [CartCleared]_cvars
  BY ClearedLast
<1>2. [][CartCleared]_cvars => ClearedAfterReserving
  <2>1. CartCleared <=>
        \A u \in Users :
          carts[u] # <<>> /\ carts'[u] = <<>> /\ todo' # todo =>
            \E c \in Calls, o \in placed :
              /\ todo'[c] = <<Commit(o)>>
              /\ \A i \in DOMAIN orders[o].items :
                   \E r \in log : r.call = c /\ r.ref = o /\ r.item = i
    BY DEF CartCleared
  <2> QED  BY <2>1, PTL DEF ClearedAfterReserving
<1> QED  BY <1>1, <1>2, CheckoutInvariant, PTL DEF Spec

-----------------------------------------------------------------------------
(* The purchase events *)

ReportInv(o) ==
  /\ reports[o].state # "none" => o \in confirmed
  /\ reports[o].state \in {"none", "sending"} => reports[o].tries < Attempts
  /\ reports[o].state = "failed" => reports[o].tries = Attempts
  /\ reports[o].state = "sent" => o \in received

EventInv ==
  /\ reports \in [Orders -> Report]
  /\ \A o \in Orders : ReportInv(o)
  /\ received \subseteq confirmed

LEMMA ConfirmedGrows ==
  ASSUME Next \/ UNCHANGED cvars
  PROVE  confirmed \subseteq confirmed'
<1>1. ASSUME NEW c, ExecuteCheckout(c)
      PROVE  confirmed \subseteq confirmed'
  BY <1>1 DEF ExecuteCheckout, ExecInsertOrder, ExecInsertItem, ExecLockVariant,
              ExecClearCart, ExecCommit
<1>2. ASSUME NEW c, FailCheckout(c) PROVE confirmed' = confirmed
  BY <1>2 DEF FailCheckout
<1>3. ASSUME NEW c, NEW u, NEW z, NEW m, NEW t, Submit(c, u, z, m, t)
      PROVE  confirmed' = confirmed
  BY <1>3 DEF Submit
<1>4. ASSUME NEW u, NEW v, NEW q, UpdateCartItemQuantity(u, v, q)
      PROVE  confirmed' = confirmed
  BY <1>4 DEF UpdateCartItemQuantity
<1>5. ASSUME NEW u, NEW v, RemoveFromCart(u, v) PROVE confirmed' = confirmed
  BY <1>5 DEF RemoveFromCart
<1> QED  BY <1>1, <1>2, <1>3, <1>4, <1>5 DEF Next, cvars

(* A report changes for one order, and what arrived is its event.            *)
LEMMA ReportStep ==
  ASSUME EventInv, NEW o \in Orders, o \in confirmed, NEW r \in Report,
         reports' = [reports EXCEPT ![o] = r], confirmed' = confirmed,
         received' = received \/ Arrives(o),
         r.state # "none",
         r.state = "sending" => r.tries < Attempts,
         r.state = "failed" => r.tries = Attempts,
         r.state = "sent" => Arrives(o)
  PROVE  EventInv'
<1>2. /\ received \subseteq received' /\ received' \subseteq received \union {o}
      /\ Arrives(o) => o \in received'
  BY DEF Arrives
<1>3. reports' \in [Orders -> Report] /\ reports'[o] = r
  BY DEF EventInv
<1>4. \A p \in Orders : p # o => reports'[p] = reports[p]
  BY DEF EventInv
<1>5. ASSUME NEW p \in Orders PROVE ReportInv(p)'
  <2>1. CASE p = o
    BY <1>2, <1>3, <2>1 DEF ReportInv
  <2>2. CASE p # o
    BY <1>2, <1>4, <2>2 DEF ReportInv, EventInv
  <2> QED  BY <2>1, <2>2
<1>6. received' \subseteq confirmed'
  BY <1>2 DEF EventInv
<1> QED  BY <1>3, <1>5, <1>6 DEF EventInv

LEMMA EventsInit == EventInit => EventInv
<1> SUFFICES ASSUME EventInit PROVE EventInv
  OBVIOUS
<1>1. 0 \in 0..Attempts /\ 0 < Attempts
  BY AttemptsAssumption
<1>2. reports \in [Orders -> Report]
  BY <1>1 DEF EventInit, Report, ReportStates
<1>3. \A o \in Orders : ReportInv(o)
  BY <1>1 DEF EventInit, ReportInv
<1> QED  BY <1>2, <1>3 DEF EventInit, EventInv

LEMMA EventsStep ==
  ASSUME CheckoutInv, EventInv, [EventNext]_evars
  PROVE  EventInv'
<1>1. \A o \in Orders : reports[o] \in Report
  BY DEF EventInv
<1>2. \A r \in Report : /\ r.state \in ReportStates /\ r.tries \in 0..Attempts
                        /\ \A s \in ReportStates : [r EXCEPT !.state = s] \in Report
  BY DEF Report
<1>3. CASE (Next \/ UNCHANGED cvars) /\ UNCHANGED <<reports, received>>
  <2>1. confirmed \subseteq confirmed'
    BY <1>3, ConfirmedGrows
  <2> QED  BY <1>3, <2>1 DEF EventInv, ReportInv
<1>4. ASSUME NEW o \in Orders, SendPurchaseEvent(o) PROVE EventInv'
  <2> DEFINE r == [reports[o] EXCEPT !.state = "sending"]
  <2>1. /\ o \in confirmed /\ reports[o].state = "none" /\ reports' = [reports EXCEPT ![o] = r]
        /\ confirmed' = confirmed /\ received' = received
    BY <1>4 DEF SendPurchaseEvent, cvars
  <2>2. r \in Report
    BY <1>1, <1>2 DEF ReportStates
  <2>3. r.state = "sending" /\ r.tries = reports[o].tries
    BY <1>1 DEF Report
  <2>4. r.tries < Attempts
    BY <2>1, <2>3 DEF EventInv, ReportInv
  <2> HIDE DEF r
  <2> QED  BY <2>1, <2>2, <2>3, <2>4, ReportStep
<1>5. ASSUME NEW o \in Orders, Accepted(o) PROVE EventInv'
  <2> DEFINE r == [reports[o] EXCEPT !.state = "sent"]
  <2>1. /\ reports[o].state = "sending" /\ reports' = [reports EXCEPT ![o] = r]
        /\ confirmed' = confirmed /\ Arrives(o)
    BY <1>5 DEF Accepted, cvars
  <2>2. r \in Report
    BY <1>1, <1>2 DEF ReportStates
  <2>3. r.state = "sent"
    BY <1>1 DEF Report
  <2>4. o \in confirmed
    BY <2>1 DEF EventInv, ReportInv
  <2> HIDE DEF r
  <2> QED  BY <2>1, <2>2, <2>3, <2>4, ReportStep
<1>6. ASSUME NEW o \in Orders, Refused(o) PROVE EventInv'
  <2> DEFINE r == [reports[o] EXCEPT !.state = "refused"]
  <2>1. /\ reports[o].state = "sending" /\ reports' = [reports EXCEPT ![o] = r]
        /\ confirmed' = confirmed /\ received' = received
    BY <1>6 DEF Refused, cvars
  <2>2. r \in Report
    BY <1>1, <1>2 DEF ReportStates
  <2>3. r.state = "refused"
    BY <1>1 DEF Report
  <2>4. o \in confirmed
    BY <2>1 DEF EventInv, ReportInv
  <2> HIDE DEF r
  <2> QED  BY <2>1, <2>2, <2>3, <2>4, ReportStep
<1>7. ASSUME NEW o \in Orders, Retried(o) PROVE EventInv'
  <2> DEFINE t == reports[o].tries + 1
             r == [state |-> IF t = Attempts THEN "failed" ELSE "sending", tries |-> t]
  <2>1. /\ reports[o].state = "sending" /\ reports' = [reports EXCEPT ![o] = r]
        /\ confirmed' = confirmed /\ (received' = received \/ Arrives(o))
    BY <1>1, <1>7 DEF Retried, cvars, EventInv
  <2>2. o \in confirmed /\ reports[o].tries < Attempts
    BY <2>1 DEF EventInv, ReportInv
  <2>3. t \in 0..Attempts /\ (t # Attempts => t < Attempts)
    BY <1>1, <1>2, <2>2, AttemptsAssumption
  <2>4. r \in Report
    BY <2>3 DEF Report, ReportStates
  <2>5. /\ r.tries = t
        /\ r.state = IF t = Attempts THEN "failed" ELSE "sending"
    OBVIOUS
  <2> HIDE DEF r, t
  <2> QED  BY <2>1, <2>2, <2>3, <2>4, <2>5, ReportStep
<1>8. CASE Stop
  <2>1. /\ confirmed' = confirmed /\ received' = received
        /\ reports' = [o \in Orders |->
             IF reports[o].state = "sending" \/ (o \in confirmed /\ reports[o].state = "none")
             THEN [reports[o] EXCEPT !.state = "lost"] ELSE reports[o]]
    BY <1>8 DEF Stop
  <2>2. ASSUME NEW o \in Orders
        PROVE  reports'[o] \in Report /\ ReportInv(o)'
    <3>1. reports'[o] \in Report
      BY <1>1, <1>2, <2>1 DEF ReportStates
    <3>2. \/ reports'[o] = reports[o]
          \/ reports'[o].state = "lost" /\ reports[o].state = "sending"
          \/ reports'[o].state = "lost" /\ o \in confirmed
      BY <1>1, <2>1 DEF Report
    <3>3. ReportInv(o)
      BY DEF EventInv
    <3> QED  BY <2>1, <3>1, <3>2, <3>3 DEF ReportInv
  <2>3. reports' \in [Orders -> Report]
    <3>1. reports' = [o \in Orders |-> reports'[o]]
      BY <2>1
    <3> QED  BY <2>2, <3>1
  <2> QED  BY <2>1, <2>2, <2>3 DEF EventInv
<1>9. \/ (Next \/ UNCHANGED cvars) /\ UNCHANGED <<reports, received>>
      \/ \E o \in Orders :
           SendPurchaseEvent(o) \/ Accepted(o) \/ Refused(o) \/ Retried(o)
      \/ Stop
  BY DEF EventNext, evars
<1> QED  BY <1>3, <1>4, <1>5, <1>6, <1>7, <1>8, <1>9

(* Every report is of a confirmed order; one that is                         *)
(* still to be sent has attempts left, one given up has none, and one        *)
(* answered has been received.                                             *)
THEOREM EventsInvariant == EventSpec => [](CheckoutInv /\ EventInv)
<1>1. EventInit => CheckoutInv /\ EventInv
  BY InitInv, EventsInit DEF EventInit
<1>2. CheckoutInv /\ EventInv /\ [EventNext]_evars => (CheckoutInv /\ EventInv)'
  BY EventStep, EventsStep
<1> QED  BY <1>1, <1>2, PTL DEF EventSpec

(* No goroutine makes more attempts than SendEvent allows.                   *)
THEOREM EventsTyped == EventSpec => []EventsTypeOK
<1>1. CheckoutInv /\ EventInv => EventsTypeOK
  BY DEF CheckoutInv, TypeOK, EventInv, EventsTypeOK
<1> QED  BY <1>1, EventsInvariant, PTL

(* Whatever arrives, lost answers and stopped processes included, is of an   *)
(* order whose checkout succeeded.                                         *)
THEOREM ReportedWereConfirmed == EventSpec => []OnlyConfirmedReported
<1>1. CheckoutInv /\ EventInv => OnlyConfirmedReported
  BY DEF EventInv, OnlyConfirmedReported
<1> QED  BY <1>1, EventsInvariant, PTL

(* A purchase the receiver never hears of is accounted for.                 *)
THEOREM LossesExplained == EventSpec => []LossExplained
<1>1. ASSUME CheckoutInv, EventInv PROVE LossExplained
  <2> SUFFICES ASSUME NEW o \in confirmed \ received
               PROVE  \/ reports[o].state \in {"none", "sending", "refused", "lost"}
                      \/ reports[o].state = "failed" /\ reports[o].tries = Attempts
    BY DEF LossExplained
  <2>1. o \in Orders
    BY <1>1 DEF CheckoutInv, TypeOK
  <2>2. reports[o].state \in ReportStates /\ ReportInv(o)
    BY <1>1, <2>1 DEF EventInv, Report
  <2> QED  BY <2>2 DEF ReportInv, ReportStates
<1> QED  BY <1>1, EventsInvariant, PTL
=============================================================================
