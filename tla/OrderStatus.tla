----------------------------- MODULE OrderStatus -----------------------------
EXTENDS Naturals, Sequences

(***************************************************************************)
(* The order and payment state machines of internal/domain/constants.go:   *)
(* the two transition maps, the side effects a status change triggers and  *)
(* the status an order starts in.  Constant-level: every other module of   *)
(* the order subsystem reads its rules from here, as the usecase layer     *)
(* reads them from the Go file.                                            *)
(***************************************************************************)

OrderStatuses ==
  {"pending", "pending_verification", "processing", "shipped", "delivered",
   "paid", "cancelled", "refunded", "returned", "fake"}

PaymentStatuses ==
  {"pending", "pending_verification", "paid", "failed", "partial_paid",
   "partial_refund", "refunded"}

(* The five methods behave as three: cash on delivery, the advance payment *)
(* whose whole amount counts as paid, and any other gateway.               *)
PaymentMethods == {"cod", "mobile_banking", "gateway"}

(* ValidTransitions: a status with no entry in the Go map has no successor. *)
ValidTransitions ==
  [s \in OrderStatuses |->
     CASE s = "pending" ->
            {"pending_verification", "processing", "cancelled", "fake"}
       [] s = "pending_verification" ->
            {"processing", "shipped", "cancelled", "fake"}
       [] s = "processing" -> {"shipped", "cancelled", "fake"}
       [] s = "shipped"    -> {"delivered", "returned", "cancelled", "fake"}
       [] s = "delivered"  -> {"paid", "returned", "refunded", "fake"}
       [] s = "paid"       -> {"refunded", "returned", "fake"}
       [] s \in {"cancelled", "fake"} -> {"processing"}
       [] OTHER -> {}]

ValidPaymentTransitions ==
  [p \in PaymentStatuses |->
     CASE p = "pending" -> {"pending_verification", "paid", "failed"}
       [] p = "pending_verification" -> {"paid", "partial_paid", "failed"}
       [] p = "failed"       -> {"pending_verification", "pending"}
       [] p = "paid"         -> {"partial_refund", "refunded"}
       [] p = "partial_paid" -> {"paid", "partial_refund", "refunded"}
       [] p = "partial_refund" -> {"refunded"}
       [] OTHER -> {}]

IsValidTransition(current, next) == next \in ValidTransitions[current]

IsValidPaymentTransition(current, next) ==
  next \in ValidPaymentTransitions[current]

StockRestoring == {"cancelled", "fake", "returned"}

IsRecoveryTransition(from, to) ==
  from \in {"cancelled", "fake"} /\ to = "processing"

(* Every status has at most one side effect, so the Go slice is a set here. *)
StatusSideEffects(to) ==
  CASE to \in StockRestoring -> {"restore_stock"}
    [] to = "refunded"       -> {"sync_payment_refund"}
    [] to = "paid"           -> {"sync_payment_paid"}
    [] to = "processing"     -> {"deduct_stock"}
    [] OTHER                 -> {}

GetSideEffects(from, to) ==
  IF IsRecoveryTransition(from, to) THEN {"deduct_stock"}
  ELSE IF to = "processing" THEN {}
  ELSE StatusSideEffects(to)

(* The order and payment status DetermineInitialStatus gives a new order:   *)
(* "awaiting verification" for a deposit or a transaction id, else pending. *)
DetermineInitialStatus(method, isPreorder, deposit, hasTrxID) ==
  IF (isPreorder /\ deposit > 0) \/ (~isPreorder /\ method # "cod" /\ hasTrxID)
  THEN "pending_verification"
  ELSE "pending"

(* The expected path of each order type, "cod" and "preorder_nd" from the   *)
(* first status, "mobile_banking" and "preorder" from the second.          *)
OrderTypeFlow(orderType) ==
  IF orderType \in {"cod", "preorder_nd"}
  THEN <<"pending", "pending_verification", "processing", "shipped",
         "delivered", "paid">>
  ELSE <<"pending_verification", "processing", "shipped", "delivered", "paid">>
=============================================================================
