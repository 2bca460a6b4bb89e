--------------------------- MODULE MCCategoryTree ---------------------------
(* Every arrangement of the first rows, circles included.                   *)
EXTENDS CategoryTree, TLC

CONSTANTS k1, k2, k3, k4, r1, r2

MCCategories == {k1, k2, k3, k4}
MCRequests == {r1, r2}
MCInitCategories ==
  [{k1, k2, k3} -> [parent : {k1, k2, k3, None}, visible : {TRUE}]]
Symmetry == Permutations({k1, k2, k3}) \union Permutations(MCRequests)
=============================================================================
