----------------------------- MODULE MCCheckout -----------------------------
(* Two customers, two variants with one or two units left.                 *)
EXTENDS Checkout, TLC

CONSTANTS u1, u2, v1, v2, c1, c2, c3, o1, o2, o3

MCUsers == {u1, u2}
MCVariants == {v1, v2}
MCZones == {"inside_dhaka"}
MCZoneCost == [z \in MCZones |-> 1]
MCCalls2 == {c1, c2}
MCOrders2 == {o1, o2}
MCPrice == [v \in MCVariants |-> 1]
NoDeposit == [v \in {} |-> 0]
V2Deposit == [v \in {v2} |-> 1]
MCInitStock == [v \in MCVariants |-> IF v = v1 THEN 2 ELSE 1]

Line(v, q) == [variant |-> v, quantity |-> q]
MCInitCarts ==
  {[u \in MCUsers |-> IF u = u1 THEN <<Line(v1, 1), Line(v2, 1)>> ELSE <<Line(v1, 2)>>]}
AllPayments == PaymentMethods \X BOOLEAN
AdvancePayment == {<<"mobile_banking", TRUE>>}
SymmetryCheckout == Permutations(MCCalls2) \union Permutations(MCOrders2)
=============================================================================
