--------------------------- MODULE OrderLifecycle ---------------------------
(***************************************************************************)
(* What the status machine of constants.go promises about one item of one  *)
(* order: the status follows ValidTransitions, and the item's units are    *)
(* held by the order or back in stock, moved exactly once by each change   *)
(* whose side effect is to restore or to deduct.                           *)
(***************************************************************************)
EXTENDS OrderStatus

VARIABLES
  status,       \* the order's status
  quantity,     \* units of the item the order was placed for
  held          \* units taken out of stock for it

(* A placed order in any status it reaches without a stock side effect.    *)
Init ==
  /\ status \in OrderStatuses \ StockRestoring
  /\ held = quantity

Move(to) ==
  LET effects == GetSideEffects(status, to)
  IN  /\ IsValidTransition(status, to)
      /\ status' = to
      /\ held' = CASE "restore_stock" \in effects -> 0
                   [] "deduct_stock" \in effects -> quantity
                   [] OTHER -> held
      /\ UNCHANGED quantity

Next == \E to \in OrderStatuses : Move(to)

Spec == Init /\ [][Next]_<<status, quantity, held>>

(* Held exactly while the status is not one that returned it.              *)
HeldUnlessReturned == held = IF status \in StockRestoring THEN 0 ELSE quantity
=============================================================================
