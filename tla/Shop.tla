-------------------------------- MODULE Shop --------------------------------
(***************************************************************************)
(* Products and their variants as administrators edit, delete and correct  *)
(* them while customers order.  Saving a product is one transaction, but    *)
(* what it writes was on a form loaded earlier, by id from the rows or by   *)
(* slug from the product cache: the stock of every variant with the rest.   *)
(* Images live in an object store no transaction reaches, and are deleted   *)
(* there before the row is written.  An order is reduced to one unit of one *)
(* variant; what its requests write besides is in OrderStore and Checkout.  *)
(* The queries of one read (row, variants, links) are taken at one moment.  *)
(***************************************************************************)
EXTENDS Integers, FiniteSets, Functions

CONSTANTS
  Products, Variants,   \* ids; those not yet issued are what inserts may get
  Images, Groups,       \* image files; categories and collections
  Orders,               \* ids of the orders customers may place
  Calls,                \* ids of the administrators' requests
  Copies,               \* ids of copies of a product held beside its rows
  InitProducts,         \* the rows there are at first
  InitVariants,
  MaxInFlight,          \* bound: administrators' requests at the same time
  MaxStock              \* bound: the stock an administrator writes or adds

ASSUME BoundsAssumption == MaxInFlight \in Nat \ {0} /\ MaxStock \in Nat \ {0}

VARIABLES
  products,   \* product id -> its row, for those that have one
  variants,   \* variant id -> its row, for those that have one
  issued,     \* ids ever given to a row: a deleted one never comes back
  groups,     \* the categories and collections there are
  lines,      \* the rows of cart_items, each a product and a variant
  items,      \* order id -> its item, for those placed
  files,      \* the images in the object store
  cached,     \* copy -> a product as a reader of its page found it
  call,       \* request -> where it is
  allowed,    \* variant -> units there may be (see NoOversellButForms)
  excused     \* images lost for a known reason (see MissingExplained)

tables == <<products, variants, issued, groups, lines, items, files, cached>>
vars == <<tables, call, allowed, excused>>

New == "new"     \* the id of a variant the form adds
Lost == "lost"   \* order_items.variant_id after ON DELETE SET NULL

ProductRow == [active : BOOLEAN, images : SUBSET Images, groups : SUBSET Groups]
VariantRow == [product : Products, stock : Nat, images : SUBSET Images]

(* inserted: checkout has not deducted yet; unbacked: it gave up before it  *)
(* did, and the order stays; held; released: cancelled and given back;      *)
(* early: cancelled and given back while checkout has yet to deduct.        *)
CartLine == [product : Products, variant : Variants]
OrderItem == [product : Products, variant : Variants \union {Lost},
              phase : {"inserted", "unbacked", "held", "released", "early"}]
Pending == {"inserted", "early"}

Open == {"form", "images"}

(* The rows a form, and a form's line, are written as; those of an insert.  *)
ProductOf(form) == [active |-> form.active, images |-> form.images, groups |-> form.groups]
VariantOf(p, line) == [product |-> p, stock |-> line.stock, images |-> line.images]
NewProduct(gs) == [active |-> TRUE, images |-> {}, groups |-> gs]
NewVariant(p, n) == [product |-> p, stock |-> n, images |-> {}]

(* The rows of a table with one more.                                      *)
Insert(rows, id, row) ==
  [r \in DOMAIN rows \union {id} |-> IF r = id THEN row ELSE rows[r]]

ASSUME IdsAssumption ==
  Products # {} /\ IsFiniteSet(Orders) /\ New \notin Variants /\ Lost \notin Variants

(* The rows there are at first have their types, and a variant its product; *)
(* every uploaded image has a name of its own and belongs to one product.   *)
ASSUME InitRowsAssumption ==
  \A ps \in InitProducts, vs \in InitVariants :
    /\ DOMAIN ps \subseteq Products /\ \A p \in DOMAIN ps : ps[p] \in ProductRow
    /\ DOMAIN vs \subseteq Variants /\ \A v \in DOMAIN vs : vs[v] \in VariantRow
    /\ \A v \in DOMAIN vs : vs[v].product \in DOMAIN ps

ASSUME InitImagesAssumption ==
  \E owner \in [Images -> Products] :
    \A ps \in InitProducts, vs \in InitVariants :
      /\ \A p \in DOMAIN ps : \A i \in ps[p].images : owner[i] = p
      /\ \A v \in DOMAIN vs : \A i \in vs[v].images : owner[i] = vs[v].product

-----------------------------------------------------------------------------
VariantsOf(p) == {v \in DOMAIN variants : variants[v].product = p}
ImagesOf(p) == products[p].images \union UNION {variants[v].images : v \in VariantsOf(p)}
FormImages(form) ==
  form.images \union UNION {form.rows[v].images : v \in DOMAIN form.rows}

At(c, pc) == call[c].pc = pc
Goto(c, pc) == call' = [call EXCEPT ![c].pc = pc]
InFlight == {c \in Calls : call[c].pc \in Open}

NoForm == [active |-> TRUE, images |-> {}, groups |-> {}, rows |-> <<>>]
Idle == [pc |-> "none", product |-> CHOOSE p \in Products : TRUE, deletes |-> FALSE,
         form |-> NoForm, seen |-> <<>>, doomed |-> {}, removed |-> {}, overlap |-> {}]
Done(c) == call' = [call EXCEPT ![c] = [Idle EXCEPT !.pc = "done"]]

Begin(c) == At(c, "none") /\ Cardinality(InFlight) < MaxInFlight

(* The forms open on v, and the copies one may be filled from: whatever     *)
(* moves v meanwhile, saving the form undoes.                              *)
Exposed(v) ==
  \/ \E c \in InFlight : v \in DOMAIN call[c].seen
  \/ \E k \in DOMAIN cached : v \in DOMAIN cached[k].form.rows
Allow(v, n) == allowed' = [allowed EXCEPT ![v] = @ + n]

-----------------------------------------------------------------------------
(* Customers *)

(* The upsert of Cart: the variant is in stock and its product active; that *)
(* it is the product the customer names is not asked, only that this exists.*)
AddToCart(p, v) ==
  /\ p \in DOMAIN products /\ v \in DOMAIN variants
  /\ products[variants[v].product].active /\ variants[v].stock > 0
  /\ lines' = lines \union {[product |-> p, variant |-> v]}
  /\ UNCHANGED <<products, variants, issued, groups, items, files, cached, call, allowed, excused>>

RemoveFromCart(line) ==
  /\ lines' = lines \ {line}
  /\ UNCHANGED <<products, variants, issued, groups, items, files, cached, call, allowed, excused>>

(* Checkout inserts the order and its item; is_active is not asked again.   *)
PlaceOrder(o, line) ==
  /\ o \notin DOMAIN items /\ line \in lines
  /\ items' = Insert(items, o, [product |-> line.product, variant |-> line.variant,
                                phase |-> "inserted"])
  /\ UNCHANGED <<products, variants, issued, groups, lines, files, cached, call, allowed, excused>>

(* Mutant: stock is not compared.                                          *)
TakeUnguarded(o, phase) ==
  LET v == items[o].variant
  IN  /\ v \in DOMAIN variants
      /\ variants' = [variants EXCEPT ![v].stock = @ - 1]
      /\ items' = [items EXCEPT ![o].phase = phase]
      /\ Allow(v, IF Exposed(v) THEN 1 ELSE 0)
      /\ UNCHANGED <<products, issued, groups, files, cached, excused>>

(* UpdateStock by -1: the variant is there and has a unit.                  *)
Take(o, phase) ==
  LET v == items[o].variant
  IN  /\ v \in DOMAIN variants /\ variants[v].stock >= 1
      /\ variants' = [variants EXCEPT ![v].stock = @ - 1]
      /\ items' = [items EXCEPT ![o].phase = phase]
      /\ Allow(v, IF Exposed(v) THEN 1 ELSE 0)
      /\ UNCHANGED <<products, issued, groups, files, cached, excused>>

(* UpdateStock, then ClearCart, which may fail.  What was given back early  *)
(* is taken all the same, and no request gives it back again.               *)
Deduct(o) ==
  /\ o \in DOMAIN items /\ items[o].phase \in Pending
  /\ Take(o, IF items[o].phase = "early" THEN "released" ELSE "held")
  /\ lines' \in {{}, lines}
  /\ UNCHANGED call

(* "variant not found", "insufficient stock" or a fault: the item stays.    *)
RefuseCheckout(o) ==
  /\ o \in DOMAIN items /\ items[o].phase \in Pending
  /\ items' = [items EXCEPT ![o].phase = IF @ = "early" THEN "released" ELSE "unbacked"]
  /\ UNCHANGED <<products, variants, issued, groups, lines, files, cached, call, allowed, excused>>

-----------------------------------------------------------------------------
(* The administrators' product form *)

(* What a read of the product returns, the images deleted by requests yet   *)
(* to write, and the stocks a form shows.                                  *)
FormOf(p) ==
  [active |-> products[p].active, images |-> products[p].images, groups |-> products[p].groups,
   rows |-> [v \in VariantsOf(p) |->
               [stock |-> variants[v].stock, images |-> variants[v].images]]]
Going == UNION {call[d].removed : d \in InFlight}
Shown(form) == [v \in DOMAIN form.rows |-> form.rows[v].stock]

Fill(c, p, form, overlap) ==
  /\ Begin(c)
  /\ call' = [call EXCEPT ![c] = [Idle EXCEPT !.pc = "form", !.product = p, !.form = form,
                                             !.seen = Shown(form), !.overlap = overlap]]
  /\ UNCHANGED <<tables, allowed, excused>>

(* GetProduct by id reads the rows ...                                     *)
LoadForm(c, p) == p \in DOMAIN products /\ Fill(c, p, FormOf(p), Going)

(* ... and by slug GetProductDetails, which returns the copy there is: the  *)
(* product may have changed since, or be gone.  A miss is a ReadProduct     *)
(* before.                                                                 *)
LoadBySlug(c, k) ==
  /\ k \in DOMAIN cached
  /\ Fill(c, cached[k].product, cached[k].form, cached[k].overlap)

(* A visitor's or an administrator's miss reads the rows and stores the copy*)
(* then or later; others may be cached under a former slug.                 *)
ReadProduct(k, p) ==
  /\ k \in Copies \ DOMAIN cached /\ p \in DOMAIN products
  /\ cached' = Insert(cached, k, [product |-> p, form |-> FormOf(p), overlap |-> Going])
  /\ UNCHANGED <<products, variants, issued, groups, lines, items, files, call, allowed, excused>>

(* Its time runs out, another copy replaces it, or the process restarts.    *)
Expire(k) ==
  /\ k \in DOMAIN cached
  /\ cached' = Restrict(cached, DOMAIN cached \ {k})
  /\ UNCHANGED <<products, variants, issued, groups, lines, items, files, call, allowed, excused>>

(* What an administrator may change before saving; one change a save.       *)
EditedRows(rows) ==
  {[rows EXCEPT ![v].stock = n] : v \in DOMAIN rows, n \in 0..MaxStock}
    \union {[rows EXCEPT ![v].images = {}] : v \in DOMAIN rows}
    \union {Restrict(rows, DOMAIN rows \ {v}) : v \in DOMAIN rows}
    \union {Insert(rows, New, [stock |-> n, images |-> {}]) : n \in 1..MaxStock}

Edits(form) ==
  {form, [form EXCEPT !.images = {}], [form EXCEPT !.groups = {}]}
    \union {[form EXCEPT !.rows = rows] : rows \in EditedRows(form.rows)}

(* Mutant: only the other variants keep an image of a dropped variant.      *)
RemovedImagesOfVariants(p, form) ==
  (products[p].images \ form.images)
    \union ((UNION {variants[v].images : v \in VariantsOf(p)})
              \ (UNION {form.rows[v].images : v \in DOMAIN form.rows}))

(* The images UpdateProduct takes to be unused: of the gallery, what the    *)
(* form's gallery lacks; of the variants, what the whole form lacks.        *)
RemovedImages(p, form) ==
  (products[p].images \ form.images)
    \union ((UNION {variants[v].images : v \in VariantsOf(p)}) \ FormImages(form))

(* UpdateProduct reads the product as it is now to find removed images.     *)
UpdateProduct(c) ==
  /\ At(c, "form")
  /\ \E form \in Edits(call[c].form) :
       LET p == call[c].product
       IN  call' = [call EXCEPT ![c].pc = "images", ![c].form = form,
                      ![c].doomed = IF p \in DOMAIN products
                                    THEN RemovedImages(p, form) ELSE {}]
  /\ UNCHANGED <<tables, allowed, excused>>

(* DeleteProduct reads the product for all its images.                     *)
DeleteProduct(c, p) ==
  /\ Begin(c) /\ p \in DOMAIN products
  /\ call' = [call EXCEPT ![c] =
                [Idle EXCEPT !.pc = "images", !.product = p, !.deletes = TRUE,
                             !.doomed = ImagesOf(p)]]
  /\ UNCHANGED <<tables, allowed, excused>>

(* One image after the other; an error is ignored, as is one of the read    *)
(* before, which is as if every deletion failed.  Whoever has a form or a   *)
(* copy with the image does not know it is gone.                           *)
DeleteFile(c, i) ==
  /\ At(c, "images") /\ i \in call[c].doomed
  /\ \E deleted \in BOOLEAN :
       /\ files' = IF deleted THEN files \ {i} ELSE files
       /\ call' = [d \in Calls |->
            IF d = c THEN [call[c] EXCEPT !.doomed = @ \ {i},
                                          !.removed = IF deleted THEN @ \union {i} ELSE @]
            ELSE IF deleted /\ d \in InFlight
                 THEN [call[d] EXCEPT !.overlap = @ \union {i}] ELSE call[d]]
       /\ cached' = [k \in DOMAIN cached |->
            IF deleted THEN [cached[k] EXCEPT !.overlap = @ \union {i}] ELSE cached[k]]
  /\ UNCHANGED <<products, variants, issued, groups, lines, items, allowed, excused>>

(* Mutant: the form's stock is added to the row's.                          *)
SavedVariantsAdding(p, rows, id) ==
  [v \in (DOMAIN variants \ VariantsOf(p)) \union (VariantsOf(p) \cap DOMAIN rows)
           \union Range(id) |->
     IF v \in Range(id)
     THEN VariantOf(p, rows[CHOOSE w \in DOMAIN id : id[w] = v])
     ELSE IF v \in VariantsOf(p) THEN [variants[v] EXCEPT !.stock = @ + rows[v].stock]
     ELSE variants[v]]

(* The rows the transaction leaves: existing variants overwritten, those    *)
(* the form has but the table lacks inserted under new ids, the others of   *)
(* the product deleted.                                                    *)
SavedVariants(p, rows, id) ==
  LET inserted == Range(id)
      kept     == (DOMAIN variants \ VariantsOf(p)) \union (VariantsOf(p) \cap DOMAIN rows)
  IN  [v \in kept \union inserted |->
         IF v \in inserted THEN VariantOf(p, rows[CHOOSE w \in DOMAIN id : id[w] = v])
         ELSE IF v \in VariantsOf(p) THEN VariantOf(p, rows[v]) ELSE variants[v]]

InCarts(rows) == {line.variant : line \in rows}

(* What aborts the transaction: the product is gone; a link names a group   *)
(* that is gone (its error is ignored, but nothing after it can commit); a  *)
(* variant to delete is in a cart, whose column SET NULL cannot clear.      *)
CanSave(p, form) ==
  /\ p \in DOMAIN products
  /\ form.groups \subseteq groups
  /\ (VariantsOf(p) \ DOMAIN form.rows) \cap InCarts(lines) = {}

(* Mutant: order_items keeps the id of a variant that is gone.             *)
LoseNothing(dropped) == items' = items

(* ON DELETE SET NULL of order_items.variant_id.                           *)
LoseItems(dropped) ==
  items' = [o \in DOMAIN items |->
              IF items[o].variant \in dropped THEN [items[o] EXCEPT !.variant = Lost]
              ELSE items[o]]

Gain(form, seen, v) ==
  IF v \in DOMAIN seen /\ form.rows[v].stock <= seen[v] THEN 0
  ELSE form.rows[v].stock - IF v \in DOMAIN seen THEN seen[v] ELSE 0

(* UpdateProduct's transaction.  The copy under the form's slug was deleted *)
(* just before; those under a former slug, or stored since, remain.         *)
Save(c) ==
  LET p    == call[c].product
      form == call[c].form
      old  == VariantsOf(p)
      kept == old \cap DOMAIN form.rows
      kin  == UNION {form.rows[v].images : v \in DOMAIN form.rows}
  IN  /\ At(c, "images") /\ ~call[c].deletes /\ call[c].doomed = {}
      /\ CanSave(p, form)
      /\ \E id \in Injection(DOMAIN form.rows \ old, Variants \ issued) :
           /\ products' = [products EXCEPT ![p] = ProductOf(form)]
           /\ variants' = SavedVariants(p, form.rows, id)
           /\ issued' = issued \union Range(id)
           /\ allowed' = [v \in Variants |->
                IF v \in kept THEN allowed[v] + Gain(form, call[c].seen, v)
                ELSE IF v \in Range(id) THEN variants'[v].stock ELSE allowed[v]]
      /\ LoseItems(old \ kept)
      /\ excused' = excused \union (call[c].overlap \cap FormImages(form))
                            \union (call[c].removed \cap (kin \ form.images))
      /\ \E forgotten \in SUBSET {k \in DOMAIN cached : cached[k].product = p} :
           cached' = Restrict(cached, DOMAIN cached \ forgotten)
      /\ Done(c)
      /\ UNCHANGED <<groups, lines, files>>

(* DELETE FROM products: an order's item restricts it, the rest cascades.   *)
(* Lines of another product on its variants stay, and abort it as in Save;  *)
(* items of another product lose the variant.                               *)
DeleteRow(c) ==
  LET p    == call[c].product
      mine == {line \in lines : line.product = p}
  IN  /\ At(c, "images") /\ call[c].deletes /\ call[c].doomed = {}
      /\ \A o \in DOMAIN items : items[o].product # p
      /\ VariantsOf(p) \cap InCarts(lines \ mine) = {}
      /\ lines' = lines \ mine
      /\ LoseItems(VariantsOf(p))
      /\ variants' = Restrict(variants, DOMAIN variants \ VariantsOf(p))
      /\ products' = Restrict(products, DOMAIN products \ {p})
      /\ Done(c)
      /\ UNCHANGED <<issued, groups, files, cached, allowed, excused>>

(* The request is abandoned, a statement fails, or what it would do is not  *)
(* possible: the files it deleted stay deleted.                            *)
Fail(c) ==
  /\ c \in InFlight
  /\ excused' = excused \union call[c].removed
  /\ Done(c)
  /\ UNCHANGED <<tables, allowed>>

-----------------------------------------------------------------------------
(* The administrators' other requests, one transaction or statement each    *)

CreateProduct(c, p, n) ==
  /\ Begin(c) /\ p \notin issued
  /\ \E v \in Variants \ issued, gs \in {{}, groups} :
       /\ products' = Insert(products, p, NewProduct(gs))
       /\ variants' = Insert(variants, v, NewVariant(p, n))
       /\ issued' = issued \union {p, v}
       /\ Allow(v, n)
  /\ Done(c)
  /\ UNCHANGED <<groups, lines, items, files, cached, excused>>

AdjustStock(c, v, n) ==
  /\ Begin(c) /\ v \in DOMAIN variants /\ variants[v].stock + n >= 0
  /\ variants' = [variants EXCEPT ![v].stock = @ + n]
  /\ Allow(v, IF n >= 0 THEN n ELSE IF Exposed(v) THEN -n ELSE 0)
  /\ Done(c)
  /\ UNCHANGED <<products, issued, groups, lines, items, files, cached, excused>>

UpdateProductStatus(c, p, active) ==
  /\ Begin(c) /\ p \in DOMAIN products
  /\ products' = [products EXCEPT ![p].active = active]
  /\ Done(c)
  /\ UNCHANGED <<variants, issued, groups, lines, items, files, cached, allowed, excused>>

ManageCollectionProduct(c, p, g) ==
  /\ Begin(c) /\ p \in DOMAIN products /\ g \in groups
  /\ \E linked \in {products[p].groups \union {g}, products[p].groups \ {g}} :
       products' = [products EXCEPT ![p].groups = linked]
  /\ Done(c)
  /\ UNCHANGED <<variants, issued, groups, lines, items, files, cached, allowed, excused>>

DeleteGroup(c, g) ==
  /\ Begin(c)
  /\ groups' = groups \ {g}
  /\ products' = [p \in DOMAIN products |-> [products[p] EXCEPT !.groups = @ \ {g}]]
  /\ Done(c)
  /\ UNCHANGED <<variants, issued, lines, items, files, cached, allowed, excused>>

(* Mutant: an item without a variant is skipped instead of an error.        *)
RestoreSkippingLost(c, o) ==
  LET v == items[o].variant
  IN  /\ Begin(c) /\ o \in DOMAIN items /\ items[o].phase \in {"inserted", "held", "unbacked"}
      /\ variants' = [w \in DOMAIN variants |->
                        IF w = v THEN [variants[w] EXCEPT !.stock = @ + 1] ELSE variants[w]]
      /\ allowed' = [w \in Variants |->
           allowed[w] + IF w = v /\ items[o].phase # "held" THEN 1 ELSE 0]
      /\ items' = [items EXCEPT ![o].phase = IF @ = "inserted" THEN "early" ELSE "released"]
      /\ Done(c)
      /\ UNCHANGED <<products, issued, groups, lines, files, cached, excused>>

(* A status change that restores stock.  Without a variant the product's id *)
(* is tried, which is no variant's: the request fails.  An order that never *)
(* got its unit, or has yet to get it, gives one back all the same.         *)
RestoreOrderStock(c, o) ==
  LET v == items[o].variant
  IN  /\ Begin(c) /\ o \in DOMAIN items /\ items[o].phase \in {"inserted", "held", "unbacked"}
      /\ v \in DOMAIN variants
      /\ variants' = [variants EXCEPT ![v].stock = @ + 1]
      /\ Allow(v, IF items[o].phase = "held" THEN 0 ELSE 1)
      /\ items' = [items EXCEPT ![o].phase = IF @ = "inserted" THEN "early" ELSE "released"]
      /\ Done(c)
      /\ UNCHANGED <<products, issued, groups, lines, files, cached, excused>>

(* Recovery takes the unit again; checkout may still have to.              *)
DeductOrderStock(c, o) ==
  /\ Begin(c) /\ o \in DOMAIN items /\ items[o].phase \in {"released", "early"}
  /\ Take(o, IF items[o].phase = "early" THEN "inserted" ELSE "held")
  /\ Done(c)
  /\ UNCHANGED lines

-----------------------------------------------------------------------------
Init ==
  /\ products \in InitProducts /\ variants \in InitVariants
  /\ issued = DOMAIN products \union DOMAIN variants
  /\ groups = Groups /\ lines = {} /\ items = <<>> /\ files = Images
  /\ cached = <<>> /\ call = [c \in Calls |-> Idle]
  /\ allowed = [v \in Variants |-> IF v \in DOMAIN variants THEN variants[v].stock ELSE 0]
  /\ excused = {}

Customer ==
  \/ \E p \in Products, v \in Variants : AddToCart(p, v)
  \/ \E line \in lines : RemoveFromCart(line)
  \/ \E o \in Orders :
       \/ \E line \in lines : PlaceOrder(o, line)
       \/ Deduct(o) \/ RefuseCheckout(o)

ProductForm(c) ==
  \/ \E p \in Products : LoadForm(c, p) \/ DeleteProduct(c, p)
  \/ \E k \in Copies : LoadBySlug(c, k)
  \/ UpdateProduct(c)
  \/ \E i \in Images : DeleteFile(c, i)
  \/ Save(c) \/ DeleteRow(c) \/ Fail(c)

Request(c) ==
  \/ \E p \in Products :
       \/ \E n \in 0..MaxStock : CreateProduct(c, p, n)
       \/ \E active \in BOOLEAN : UpdateProductStatus(c, p, active)
       \/ \E g \in Groups : ManageCollectionProduct(c, p, g)
  \/ \E v \in Variants, n \in {-1, MaxStock} : AdjustStock(c, v, n)
  \/ \E g \in Groups : DeleteGroup(c, g)
  \/ \E o \in Orders : RestoreOrderStock(c, o) \/ DeductOrderStock(c, o)

ProductCache ==
  \E k \in Copies : Expire(k) \/ \E p \in Products : ReadProduct(k, p)

Next == Customer \/ ProductCache \/ \E c \in Calls : ProductForm(c) \/ Request(c)

Spec == Init /\ [][Next]_vars

-----------------------------------------------------------------------------
(* Properties *)

TypeOK ==
  /\ DOMAIN products \subseteq Products
  /\ \A p \in DOMAIN products : products[p] \in ProductRow
  /\ DOMAIN variants \subseteq Variants
  /\ \A v \in DOMAIN variants : variants[v] \in VariantRow
  /\ issued \subseteq Products \union Variants
  /\ groups \subseteq Groups /\ lines \subseteq CartLine
  /\ DOMAIN items \subseteq Orders
  /\ \A o \in DOMAIN items : items[o] \in OrderItem
  /\ files \subseteq Images /\ excused \subseteq Images
  /\ allowed \in [Variants -> Nat]

(* Whatever edits, deletions, orders and carts interleave, every row names  *)
(* rows that exist: an edit that would take a variant out of a cart, or a   *)
(* deletion that would take a product out of an order, happens not at all.  *)
ReferencesResolve ==
  /\ \A line \in lines :
       line.product \in DOMAIN products /\ line.variant \in DOMAIN variants
  /\ \A v \in DOMAIN variants : variants[v].product \in DOMAIN products
  /\ \A p \in DOMAIN products : products[p].groups \subseteq groups
  /\ \A o \in DOMAIN items :
       /\ items[o].product \in DOMAIN products
       /\ items[o].variant \in DOMAIN variants \union {Lost}

Held(v) == {o \in DOMAIN items : items[o].variant = v /\ items[o].phase = "held"}

(* Saving a form writes stock as it was when the form, or the copy it was   *)
(* filled from, was read, and units ordered since are for sale again.  No   *)
(* more than those: what orders hold and what is left stay within what      *)
(* administrators provided, what moved while a form was open on it or a     *)
(* copy held it, and what was given back without having been taken.         *)
NoOversellButForms ==
  \A v \in DOMAIN variants :
    Cardinality(Held(v)) + variants[v].stock <= allowed[v]

Named == UNION ({products[p].images : p \in DOMAIN products}
                  \union {variants[v].images : v \in DOMAIN variants})

(* A row names an image that is gone only if the request that deleted it is *)
(* not done or failed, another request had deleted it and not written yet   *)
(* when the rows on a saved form were read (for the form or for the copy it *)
(* was filled from) or deleted it later, or a form dropped it from the      *)
(* gallery and kept it for a variant.                                      *)
MissingExplained ==
  \A i \in Named \ files :
    i \in excused \/ \E c \in InFlight : i \in call[c].removed

(* An order whose variant an edit deleted is never given back: every request*)
(* that would restore its stock fails, so it cannot be cancelled or         *)
(* returned any more.                                                      *)
LostIsStuck ==
  [][\A o \in DOMAIN items :
       items[o].variant = Lost /\ items[o].phase \notin Pending =>
         items'[o] = items[o]]_vars

(* "This ensures Phase 6 SSOT is maintained": no product without a variant. *)
EveryProductHasVariant == \A p \in DOMAIN products : VariantsOf(p) # {}
=============================================================================
