---------------------------- MODULE MCOrderAdmin ----------------------------
(* Instances of OrderAdmin: one order, small amounts, every kind of order   *)
(* checkout creates at every point of its expected path.                   *)
EXTENDS OrderAdmin, TLC

CONSTANTS o1, v1, v2, c1, c2, c3, c4

MCOrders == {o1}
MCVariants == {v1, v2}
MCZones == {"inside_dhaka", "outside_dhaka"}
MCZoneCost == [z \in MCZones |-> IF z = "inside_dhaka" THEN 1 ELSE 2]

MCCalls2 == {c1, c2}
MCCalls3 == {c1, c2, c3}
MCCalls4 == {c1, c2, c3, c4}
Symmetry3 == Permutations(MCCalls3)
Symmetry4 == Permutations(MCCalls4)

OneItem == <<[variant |-> v1, quantity |-> 1, price |-> 2]>>
TwoItems == <<[variant |-> v1, quantity |-> 1, price |-> 1],
              [variant |-> v2, quantity |-> 1, price |-> 1]>>

(* The ways to pay that an administrator's request tells apart: nothing     *)
(* paid, all paid and to be verified, a deposit paid and to be verified.   *)
Kinds ==
  {[method |-> "cod", preorder |-> FALSE, deposit |-> 0, trx |-> FALSE],
   [method |-> "mobile_banking", preorder |-> FALSE, deposit |-> 0, trx |-> TRUE],
   [method |-> "mobile_banking", preorder |-> TRUE, deposit |-> 1, trx |-> TRUE]}

Fresh(items, k) ==
  NewOrder(items, "inside_dhaka", k.method, k.preorder, k.deposit, k.trx)

(* A fresh order moved along its path by status changes without a side      *)
(* effect, and one whose payment was verified on the way.                  *)
Aged(row) ==
  {[row EXCEPT !.status = s] :
     s \in {"pending_verification", "processing", "shipped", "delivered"}}

Verified(row) ==
  {[row EXCEPT !.status = s,
               !.payment = IF row.preorder THEN "partial_paid" ELSE "paid"] :
     s \in {"processing", "shipped", "delivered"}}

PlacedRows(items) ==
  UNION {LET row == Fresh(items, k)
         IN  {row} \union Aged(row)
               \union (IF k.method = "cod" THEN {} ELSE Verified(row)) : k \in Kinds}

MCInitOrders1 == [o \in MCOrders |-> PlacedRows(OneItem)]
MCInitOrders2 == [o \in MCOrders |-> PlacedRows(TwoItems)]
MCInitStock == [v \in MCVariants |-> IF v = v1 THEN 1 ELSE 0]
MCAmounts == 1..3
MCAdjustments == {-1, 1}

=============================================================================
