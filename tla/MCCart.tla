------------------------------- MODULE MCCart -------------------------------
(* Two or three requests for one customer's cart, for a variant under its   *)
(* own product and under another one.                                      *)
EXTENDS Cart, TLC

CONSTANTS p1, p2, v1, v2, c1, c2, c3

MCProducts2 == {p1, p2}
MCVariants1 == {v1}
MCVariants2 == {v1, v2}
MCCalls2 == {c1, c2}
MCCalls3 == {c1, c2, c3}
SymmetryCalls3 == Permutations(MCCalls3)
=============================================================================
