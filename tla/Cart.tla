-------------------------------- MODULE Cart --------------------------------
(***************************************************************************)
(* The cart of one customer, whose browser tabs and retries send requests  *)
(* at the same time.  Each request is a handful of statements, each a      *)
(* transaction of its own under READ COMMITTED; nothing makes the product  *)
(* and variant of a cart row unique.  The upsert is one statement, but it  *)
(* looks at its snapshot first and writes later, so it is two steps here.  *)
(*                                                                         *)
(* A request names a product and a variant, and nothing checks that they   *)
(* belong together: the same variant under two products is two lines.      *)
(***************************************************************************)
EXTENDS Integers, FiniteSets

CONSTANTS
  Products,
  Variants,
  Calls,             \* ids of the requests
  MaxInFlight,       \* bound: requests being served at the same time
  MaxCartQuantity,   \* what the handler accepts in one add
  MaxAsked,          \* bound: what an update asks for (it has no maximum)
  MaxStock           \* bound: units of a variant there ever are

ASSUME CartAssumption ==
  /\ Products # {} /\ Variants # {} /\ IsFiniteSet(Calls) /\ MaxInFlight \in Nat \ {0}
  /\ MaxCartQuantity \in Nat /\ MaxAsked \in Nat /\ MaxStock \in Nat

VARIABLES
  created,   \* has the customer a row in carts?
  lines,     \* the rows of cart_items; "id" is the request that inserted it
  stock,     \* variant -> units an active product has, 0 if it is inactive
  req        \* request -> where it is and what it has read so far

vars == <<created, lines, stock, req>>

Line == [id : Calls, product : Products, variant : Variants,
         quantity : Nat \ {0}]

Ops == {"get", "add", "update", "remove", "checkout"}
Waiting == {"read", "find", "create", "upsert", "write", "delete", "clear"}
Answers == {"ok", "error", "insufficient", "panic"}

(* quantity: what was asked; total: what the upsert is to set; seen: the   *)
(* lines GetCartWithItems returned; found: the ids in the upsert's         *)
(* snapshot; reply: the lines sent back.                                   *)
Request ==
  [pc : {"none"} \union Waiting \union Answers, op : Ops,
   product : Products, variant : Variants, quantity : Nat, total : Nat,
   seen : SUBSET Line,
   found : SUBSET Calls, reply : SUBSET Line]

(* What existing_item and the DELETE look for: the product and the variant. *)
LinesOf(p, v) == {l \in lines : l.product = p /\ l.variant = v}
InFlight == {c \in Calls : req[c].pc \in Waiting}

At(c, pc) == req[c].pc = pc
Goto(c, pc) == req' = [req EXCEPT ![c].pc = pc]
(* An answered request keeps its answer and forgets what it had read.       *)
Answer(c, pc, reply) ==
  req' = [req EXCEPT ![c] = [@ EXCEPT !.pc = pc, !.quantity = 0, !.total = 0,
                                      !.seen = {}, !.found = {}, !.reply = reply]]

-----------------------------------------------------------------------------
(* Mutant: an add of nothing is let through.                               *)
ReceiveZero(c, op, p, v, q) ==
  /\ At(c, "none")
  /\ Cardinality(InFlight) < MaxInFlight
  /\ op = "add" => q \in 0..MaxCartQuantity
  /\ LET does == IF op = "update" /\ q = 0 THEN "remove" ELSE op
     IN  req' = [req EXCEPT ![c] =
                   [@ EXCEPT !.pc = IF does = "remove" THEN "delete" ELSE "read",
                             !.op = does, !.product = p, !.variant = v,
                             !.quantity = q, !.total = q]]
  /\ UNCHANGED <<created, lines, stock>>

(* The handlers' own checks.  An update to zero is a removal.              *)
Receive(c, op, p, v, q) ==
  /\ At(c, "none")
  /\ Cardinality(InFlight) < MaxInFlight
  /\ op = "add" => q \in 1..MaxCartQuantity
  /\ LET does == IF op = "update" /\ q = 0 THEN "remove" ELSE op
     IN  req' = [req EXCEPT ![c] =
                   [@ EXCEPT !.pc = IF does = "remove" THEN "delete" ELSE "read",
                             !.op = does, !.product = p, !.variant = v,
                             !.quantity = q, !.total = q]]
  /\ UNCHANGED <<created, lines, stock>>

(* GetMyCart: the items, then the cart, which is created if missing.       *)
ReadItems(c) ==
  /\ At(c, "read")
  /\ req' = [req EXCEPT ![c].pc = "find", ![c].seen = lines]
  /\ UNCHANGED <<created, lines, stock>>

(* What follows GetMyCart.  An add asks for the quantity it has seen in the *)
(* first line of its product and variant and the quantity to add.          *)
WithCart(c) ==
  LET r    == req[c]
      held == {l \in r.seen : l.product = r.product /\ l.variant = r.variant}
  IN  CASE r.op \in {"get", "remove"} -> Answer(c, "ok", r.seen)
        [] r.op = "checkout" ->
             IF r.seen = {} THEN Answer(c, "error", {}) ELSE Goto(c, "clear")
        [] r.op = "add" /\ held # {} ->
             \E l \in held :
               req' = [req EXCEPT ![c].pc = "upsert",
                                  ![c].total = @ + l.quantity]
        [] OTHER -> Goto(c, "upsert")

FindCart(c) ==
  /\ At(c, "find")
  /\ IF created THEN WithCart(c) ELSE Goto(c, "create")
  /\ UNCHANGED <<created, lines, stock>>

(* carts.user_id is unique: of two that create it, the second fails.       *)
CreateCart(c) ==
  /\ At(c, "create")
  /\ IF created THEN Answer(c, "error", {}) ELSE WithCart(c)
  /\ created' = TRUE
  /\ UNCHANGED <<lines, stock>>

(* No row updated or inserted: AddToCart indexes the empty result.         *)
NoRows(c) ==
  Answer(c, IF req[c].op = "add" THEN "panic" ELSE "insufficient", {})

(* Mutant: stock_valid only asks for some stock.                           *)
SnapshotUncovered(c) ==
  /\ At(c, "upsert")
  /\ IF stock[req[c].variant] > 0
     THEN req' = [req EXCEPT ![c].pc = "write",
                             ![c].found = {l.id : l \in LinesOf(req[c].product,
                                                                req[c].variant)}]
     ELSE NoRows(c)
  /\ UNCHANGED <<created, lines, stock>>

(* Mutant: existing_item compares with "=" a variant that is NULL.         *)
SnapshotFindsNothing(c) ==
  /\ At(c, "upsert")
  /\ IF stock[req[c].variant] >= req[c].total
     THEN req' = [req EXCEPT ![c].pc = "write", ![c].found = {}]
     ELSE NoRows(c)
  /\ UNCHANGED <<created, lines, stock>>

(* UpsertCartItemAtomic takes its snapshot: stock_valid and existing_item. *)
Snapshot(c) ==
  /\ At(c, "upsert")
  /\ LET r == req[c]
     IN  IF stock[r.variant] >= r.total
         THEN req' = [req EXCEPT ![c].pc = "write",
                                 ![c].found = {l.id : l \in LinesOf(r.product, r.variant)}]
         ELSE NoRows(c)
  /\ UNCHANGED <<created, lines, stock>>

(* ... and writes: the scalar subquery fails on two existing items; the one *)
(* it found may be gone by now; if it found none, it inserts.  Only the row *)
(* written is returned, and sent back.                                     *)
Write(c) ==
  /\ At(c, "write")
  /\ LET r    == req[c]
         mine == [id |-> c, product |-> r.product, variant |-> r.variant,
                  quantity |-> r.total]
         old  == {l \in lines : l.id \in r.found}
         new  == {[l EXCEPT !.quantity = r.total] : l \in old}
     IN  \/ /\ Cardinality(r.found) > 1
            /\ Answer(c, "error", {})
            /\ UNCHANGED lines
         \/ /\ Cardinality(r.found) = 1
            /\ IF old = {} THEN NoRows(c) ELSE Answer(c, "ok", new)
            /\ lines' = (lines \ old) \union new
         \/ /\ r.found = {}
            /\ Answer(c, "ok", {mine})
            /\ lines' = lines \union {mine}
  /\ UNCHANGED <<created, stock>>

(* AtomicRemoveCartItem, then GetMyCart for the answer.                    *)
Delete(c) ==
  /\ At(c, "delete")
  /\ lines' = lines \ LinesOf(req[c].product, req[c].variant)
  /\ Goto(c, "read")
  /\ UNCHANGED <<created, stock>>

(* The last statement of a checkout, which ordered what it had seen.       *)
ClearCart(c) ==
  /\ At(c, "clear")
  /\ lines' = {}
  /\ Answer(c, "ok", {})
  /\ UNCHANGED <<created, stock>>

(* A statement fails, or the checkout is refused before it clears.         *)
Fail(c) ==
  /\ c \in InFlight
  /\ Answer(c, "error", {})
  /\ UNCHANGED <<created, lines, stock>>

(* Orders and administrators change the stock and the product meanwhile.   *)
StockChanges(v, n) ==
  /\ stock' = [stock EXCEPT ![v] = n]
  /\ UNCHANGED <<created, lines, req>>

-----------------------------------------------------------------------------
Idle ==
  [pc |-> "none", op |-> "get", product |-> CHOOSE p \in Products : TRUE,
   variant |-> CHOOSE v \in Variants : TRUE, quantity |-> 0, total |-> 0, seen |-> {}, found |-> {}, reply |-> {}]

Init ==
  /\ created = FALSE
  /\ lines = {}
  /\ stock \in [Variants -> 0..MaxStock]
  /\ req = [c \in Calls |-> Idle]

Step(c) ==
  \/ ReadItems(c) \/ FindCart(c) \/ CreateCart(c) \/ Snapshot(c) \/ Write(c)
  \/ Delete(c) \/ ClearCart(c) \/ Fail(c)

Next ==
  \/ \E c \in Calls :
       \/ \E op \in Ops, p \in Products, v \in Variants, q \in 0..MaxAsked :
            Receive(c, op, p, v, q)
       \/ Step(c)
  \/ \E v \in Variants, n \in 0..MaxStock : StockChanges(v, n)

Spec == Init /\ [][Next]_vars

-----------------------------------------------------------------------------
(* Properties *)

TypeOK ==
  /\ created \in BOOLEAN
  /\ lines \subseteq Line
  /\ stock \in [Variants -> 0..MaxStock]
  /\ req \in [Calls -> Request]

(* Adds accumulate without a limit of their own, from quantities that may   *)
(* be stale; still no line ever asks for more units than there ever were.  *)
QuantityCovered == \A l \in lines : l.quantity <= MaxStock

(* Requests past the snapshot of the upsert, about to insert a line.       *)
Inserting(p, v) ==
  {c \in Calls : /\ At(c, "write") /\ req[c].found = {}
                 /\ req[c].product = p /\ req[c].variant = v}

(* However many requests follow, a product's variant never has more lines   *)
(* than there were requests at the same time; one at a time, it has one    *)
(* (existing_item and the INSERT of UpsertCartItemAtomic).                 *)
DuplicatesBounded ==
  \A p \in Products, v \in Variants :
    Cardinality(LinesOf(p, v)) + Cardinality(Inserting(p, v)) <= MaxInFlight

(* "Simplified atomic upsert": one line per product and variant, whoever    *)
(* races.                                                                  *)
OneLinePerVariant ==
  \A p \in Products, v \in Variants : Cardinality(LinesOf(p, v)) <= 1

(* "Return cart with all items".                                           *)
ReplyIsWholeCart ==
  [][\A c \in Calls :
       At(c, "write") /\ req'[c].pc = "ok" => req'[c].reply = lines']_vars

(* A want of stock is answered as such, never by a crash of the handler.   *)
NeverPanics == \A c \in Calls : ~At(c, "panic")
=============================================================================
