--------------------------- MODULE MCCatalogCache ---------------------------
(* Every kind of write against the views that tell them apart.             *)
EXTENDS CatalogCache, TLC

CONSTANTS c1, c2

MCCalls == {c1, c2}
Symmetry == Permutations(MCCalls)

MCTTL == [k \in Keys |-> 1]

RaceOps == {"tree", "product", "enums", "saveCategory", "reorder",
            "updateProduct", "changeProduct", "changeStock", "changeCollection",
            "saveZone"}
CategoryOps == {"tree", "nav", "saveCategory"}
=============================================================================
