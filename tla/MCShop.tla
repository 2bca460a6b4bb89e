------------------------------- MODULE MCShop -------------------------------
(* Two forms or other requests, two orders and one cached copy.             *)
EXTENDS Shop, TLC

CONSTANTS p1, p2, v1, v2, i1, i2, g1, o1, o2, c1, c2, k1

MCProducts == {p1, p2}
MCVariants == {v1, v2}
MCImages == {i1, i2}
MCGroups == {g1}
MCOrders == {o1, o2}
MCCalls == {c1, c2}
MCCopies == {k1}
MCInitProducts ==
  {p1 :> [active |-> TRUE, images |-> {i1}, groups |-> MCGroups]}
(* The variant has the gallery's image and one of its own.                  *)
MCInitVariants ==
  {v1 :> [product |-> p1, stock |-> 1, images |-> MCImages]}
Symmetry == Permutations(MCCalls) \union Permutations(MCOrders)
=============================================================================
