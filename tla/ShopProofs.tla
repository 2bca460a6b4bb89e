----------------------------- MODULE ShopProofs -----------------------------
(***************************************************************************)
(* Proofs about Shop, for any products, variants, images, orders, requests  *)
(* and cached copies.  None of the properties is inductive alone: saving a  *)
(* form writes what was read long before, so each invariant says of every   *)
(* open form, and of every copy one may be filled from, what it would make  *)
(* of the tables.  ShopInv, near the end, puts the layers together.        *)
(***************************************************************************)
EXTENDS Shop, FiniteSetTheorems, TLAPS

FormLine == [stock : Nat, images : SUBSET Images]
FormRows == UNION {[S -> FormLine] : S \in SUBSET (Variants \union {New})}
Form == [active : BOOLEAN, images : SUBSET Images, groups : SUBSET Groups, rows : FormRows]

CallRow ==
  [pc : {"none", "done"} \union Open, product : Products, deletes : BOOLEAN, form : Form,
   seen : UNION {[S -> Nat] : S \in SUBSET Variants},
   doomed : SUBSET Images, removed : SUBSET Images, overlap : SUBSET Images]

(* A variant on a form was on it when it was loaded, or is New.             *)
RowsSeen(r) == DOMAIN r.form.rows \subseteq DOMAIN r.seen \union {New}

TablesTyped == TypeOK /\ DOMAIN products \union DOMAIN variants \subseteq issued

CallsTyped ==
  /\ call \in [Calls -> CallRow]
  /\ \A c \in InFlight : RowsSeen(call[c]) /\ DOMAIN call[c].seen \subseteq issued

ShopTyped == TablesTyped /\ CallsTyped

(* A copy is a form of variants that had a row.                             *)
CopyRow == [product : Products, form : Form, overlap : SUBSET Images]
CopyTyped(r) == r \in CopyRow /\ DOMAIN r.form.rows \subseteq Variants \intersect issued
CopiesTyped == \A k \in DOMAIN cached : CopyTyped(cached[k])

Phase == {"inserted", "unbacked", "held", "released", "early"}

Backed(v, n) == Cardinality(Held(v)) + n <= allowed[v]

FormsBacked ==
  \A c \in InFlight : \A v \in DOMAIN call[c].seen \intersect DOMAIN variants :
    Backed(v, call[c].seen[v])

CopiesBacked ==
  \A k \in DOMAIN cached : \A v \in DOMAIN cached[k].form.rows \intersect DOMAIN variants :
    Backed(v, cached[k].form.rows[v].stock)

StockInv == NoOversellButForms /\ FormsBacked /\ CopiesBacked

Owner ==
  CHOOSE owner \in [Images -> Products] :
    \A ps \in InitProducts, vs \in InitVariants :
      /\ \A p \in DOMAIN ps : \A i \in ps[p].images : owner[i] = p
      /\ \A v \in DOMAIN vs : \A i \in vs[v].images : owner[i] = vs[v].product

RowsOwned ==
  /\ \A p \in DOMAIN products : \A i \in products[p].images : Owner[i] = p
  /\ \A v \in DOMAIN variants : \A i \in variants[v].images : Owner[i] = variants[v].product

CallOwned(r) ==
  \A i \in FormImages(r.form) \union r.doomed \union r.removed : Owner[i] = r.product

FormExplained(r) ==
  \A i \in FormImages(r.form) \ files : i \in excused \union r.overlap \union r.removed

GalleryKept(r) ==
  /\ r.pc = "form" => r.doomed = {} /\ r.removed = {}
  /\ ~r.deletes => (r.doomed \union r.removed) \intersect r.form.images = {}

ImagesInv ==
  /\ RowsOwned
  /\ \A c \in InFlight :
       CallOwned(call[c]) /\ FormExplained(call[c]) /\ GalleryKept(call[c])
  /\ MissingExplained

CopyExplained(r) ==
  /\ \A i \in FormImages(r.form) : Owner[i] = r.product
  /\ \A i \in FormImages(r.form) \ files : i \in excused \union r.overlap
CopiesExplained == \A k \in DOMAIN cached : CopyExplained(cached[k])

-----------------------------------------------------------------------------
(* Calls *)

LEMMA Empty == ASSUME NEW S PROVE <<>> \in [{} -> S]
OBVIOUS

LEMMA NoFormTyped == NoForm \in Form /\ FormImages(NoForm) = {} /\ DOMAIN NoForm.rows = {}
<1>1. <<>> \in FormRows
  BY Empty DEF FormRows
<1> QED
  BY <1>1 DEF NoForm, Form, FormImages

LEMMA IdleTyped ==
  /\ Idle \in CallRow
  /\ Idle.pc = "none" /\ Idle.form = NoForm /\ DOMAIN Idle.seen = {} /\ Idle.deletes = FALSE
  /\ Idle.doomed = {} /\ Idle.removed = {} /\ Idle.overlap = {}
<1>1. (CHOOSE p \in Products : TRUE) \in Products
  BY IdsAssumption
<1>2. <<>> \in UNION {[S -> Nat] : S \in SUBSET Variants}
  BY Empty
<1> QED
  BY <1>1, <1>2, NoFormTyped DEF Idle, CallRow, Open

(* A call that is done is out of flight and nobody else moves.              *)
LEMMA DoneEffect ==
  ASSUME call \in [Calls -> CallRow], NEW c \in Calls, Done(c)
  PROVE  /\ call' \in [Calls -> CallRow]
         /\ InFlight' = InFlight \ {c}
         /\ \A d \in InFlight' : call'[d] = call[d]
<1>1. [Idle EXCEPT !.pc = "done"] \in CallRow
  BY IdleTyped DEF CallRow
<1>2. [Idle EXCEPT !.pc = "done"].pc = "done"
  BY IdleTyped DEF CallRow
<1>3. call' = [call EXCEPT ![c] = [Idle EXCEPT !.pc = "done"]]
  BY DEF Done
<1>4. call' \in [Calls -> CallRow]
  BY <1>1, <1>3
<1>5. call'[c].pc = "done" /\ \A d \in Calls \ {c} : call'[d] = call[d]
  BY <1>2, <1>3
<1> QED
  BY <1>4, <1>5 DEF InFlight, Open

-----------------------------------------------------------------------------
(* Types *)

LEMMA CallsKept ==
  ASSUME CallsTyped, issued \subseteq issued', UNCHANGED call \/ \E c \in Calls : Done(c)
  PROVE  CallsTyped'
<1>1. CASE UNCHANGED call
  BY <1>1 DEF CallsTyped, InFlight, RowsSeen
<1>2. ASSUME NEW c \in Calls, Done(c) PROVE CallsTyped'
  <2>1. /\ call' \in [Calls -> CallRow]
        /\ InFlight' = InFlight \ {c}
        /\ \A d \in InFlight' : call'[d] = call[d]
    BY <1>2, DoneEffect DEF CallsTyped
  <2> QED  BY <2>1 DEF CallsTyped, RowsSeen
<1> QED  BY <1>1, <1>2

(* A unit more or less leaves a stock that is a number.                     *)
LEMMA StockMoves ==
  ASSUME TablesTyped, NEW v \in DOMAIN variants, NEW n \in Int, variants[v].stock + n >= 0,
         variants' = [variants EXCEPT ![v].stock = @ + n]
  PROVE  /\ DOMAIN variants' = DOMAIN variants
         /\ \A w \in DOMAIN variants : variants'[w] \in VariantRow
         /\ \A w \in DOMAIN variants : variants'[w].product = variants[w].product
         /\ \A w \in DOMAIN variants : variants'[w].images = variants[w].images
         /\ \A w \in DOMAIN variants :
              variants'[w].stock = IF w = v THEN variants[v].stock + n ELSE variants[w].stock
BY DEF TablesTyped, TypeOK, VariantRow

LEMMA PhaseMoves ==
  ASSUME TablesTyped, NEW o \in DOMAIN items,
         NEW phase \in Phase,
         items' = [items EXCEPT ![o].phase = phase]
  PROVE  /\ DOMAIN items' = DOMAIN items
         /\ \A p \in DOMAIN items : items'[p] \in OrderItem
         /\ \A p \in DOMAIN items : items'[p].product = items[p].product
         /\ \A p \in DOMAIN items : items'[p].variant = items[p].variant
         /\ \A p \in DOMAIN items :
              items'[p].phase = IF p = o THEN phase ELSE items[p].phase
         /\ \A p \in DOMAIN items \ {o} : items'[p] = items[p]
BY DEF TablesTyped, TypeOK, OrderItem, Phase

LEMMA AllowTyped ==
  ASSUME TablesTyped, NEW v \in Variants, NEW n \in Nat, Allow(v, n)
  PROVE  /\ allowed' \in [Variants -> Nat]
         /\ allowed'[v] = allowed[v] + n
         /\ \A w \in Variants \ {v} : allowed'[w] = allowed[w]
BY DEF TablesTyped, TypeOK, Allow

LEMMA TakeEffect ==
  ASSUME TablesTyped, NEW o \in DOMAIN items, NEW phase \in Phase, Take(o, phase)
  PROVE  LET v == items[o].variant
         IN  /\ v \in DOMAIN variants /\ v \in Variants /\ variants[v].stock \in Nat \ {0}
             /\ DOMAIN variants' = DOMAIN variants
             /\ \A w \in DOMAIN variants :
                  /\ variants'[w] \in VariantRow
                  /\ variants'[w].product = variants[w].product
                  /\ variants'[w].images = variants[w].images
                  /\ variants'[w].stock = IF w = v THEN variants[v].stock - 1 ELSE variants[w].stock
             /\ DOMAIN items' = DOMAIN items
             /\ \A x \in DOMAIN items :
                  /\ items'[x] \in OrderItem
                  /\ items'[x].product = items[x].product
                  /\ items'[x].variant = items[x].variant
                  /\ items'[x].phase = IF x = o THEN phase ELSE items[x].phase
             /\ allowed' \in [Variants -> Nat]
             /\ allowed'[v] = allowed[v] + IF Exposed(v) THEN 1 ELSE 0
             /\ \A w \in Variants \ {v} : allowed'[w] = allowed[w]
<1> DEFINE v == items[o].variant
<1>1. v \in DOMAIN variants /\ variants[v].stock >= 1 /\ v \in Variants
  BY DEF Take, TablesTyped, TypeOK
<1>2. variants' = [variants EXCEPT ![v].stock = @ + (-1)]
  BY <1>1 DEF Take, TablesTyped, TypeOK, VariantRow
<1>3. variants[v].stock \in Nat \ {0}
  BY <1>1 DEF TablesTyped, TypeOK, VariantRow
<1>4. /\ DOMAIN variants' = DOMAIN variants
      /\ \A w \in DOMAIN variants :
           /\ variants'[w] \in VariantRow
           /\ variants'[w].product = variants[w].product
           /\ variants'[w].images = variants[w].images
           /\ variants'[w].stock = IF w = v THEN variants[v].stock - 1 ELSE variants[w].stock
  <2>1. -1 \in Int /\ variants[v].stock + (-1) >= 0
    BY <1>1, <1>3
  <2>2. /\ DOMAIN variants' = DOMAIN variants
        /\ \A w \in DOMAIN variants :
             /\ variants'[w] \in VariantRow
             /\ variants'[w].product = variants[w].product
             /\ variants'[w].images = variants[w].images
             /\ variants'[w].stock = IF w = v THEN variants[v].stock + (-1) ELSE variants[w].stock
    BY <1>1, <1>2, <2>1, StockMoves
  <2> QED  BY <1>3, <2>2
<1>5. /\ DOMAIN items' = DOMAIN items
      /\ \A x \in DOMAIN items :
           /\ items'[x] \in OrderItem
           /\ items'[x].product = items[x].product
           /\ items'[x].variant = items[x].variant
           /\ items'[x].phase = IF x = o THEN phase ELSE items[x].phase
  BY PhaseMoves DEF Take
<1>6. /\ allowed' \in [Variants -> Nat]
      /\ allowed'[v] = allowed[v] + IF Exposed(v) THEN 1 ELSE 0
      /\ \A w \in Variants \ {v} : allowed'[w] = allowed[w]
  <2>1. (IF Exposed(v) THEN 1 ELSE 0) \in Nat
    OBVIOUS
  <2>2. Allow(v, IF Exposed(v) THEN 1 ELSE 0)
    BY DEF Take
  <2> QED  BY <1>1, <2>1, <2>2, AllowTyped
<1> QED
  BY <1>1, <1>3, <1>4, <1>5, <1>6

LEMMA DeductTakes ==
  ASSUME NEW o \in Orders, Deduct(o) \/ \E c \in Calls : DeductOrderStock(c, o)
  PROVE  /\ o \in DOMAIN items /\ items[o].phase # "held" /\ lines' \subseteq lines
         /\ \E phase \in Phase : Take(o, phase)
         /\ Deduct(o) => items[o].phase \in Pending /\ UNCHANGED call
BY DEF Deduct, DeductOrderStock, Phase, Pending

(* What becomes of an order that is cancelled.                             *)
Returned(o) == IF items[o].phase = "inserted" THEN "early" ELSE "released"

LEMMA RestoreEffect ==
  ASSUME TablesTyped, NEW c \in Calls, NEW o \in Orders, RestoreOrderStock(c, o)
  PROVE  LET v == items[o].variant
         IN  /\ o \in DOMAIN items /\ v \in DOMAIN variants /\ v \in Variants
             /\ variants[v].stock \in Nat
             /\ items[o].phase \in {"inserted", "held", "unbacked"}
             /\ DOMAIN variants' = DOMAIN variants
             /\ \A w \in DOMAIN variants :
                  /\ variants'[w] \in VariantRow
                  /\ variants'[w].product = variants[w].product
                  /\ variants'[w].images = variants[w].images
                  /\ variants'[w].stock = IF w = v THEN variants[v].stock + 1 ELSE variants[w].stock
             /\ DOMAIN items' = DOMAIN items
             /\ \A x \in DOMAIN items :
                  /\ items'[x] \in OrderItem
                  /\ items'[x].product = items[x].product
                  /\ items'[x].variant = items[x].variant
                  /\ items'[x].phase = IF x = o THEN Returned(o) ELSE items[x].phase
             /\ \A x \in DOMAIN items \ {o} : items'[x] = items[x]
             /\ allowed' \in [Variants -> Nat]
             /\ allowed'[v] = allowed[v] + IF items[o].phase = "held" THEN 0 ELSE 1
             /\ \A w \in Variants \ {v} : allowed'[w] = allowed[w]
<1> DEFINE v == items[o].variant
<1>1. /\ o \in DOMAIN items /\ v \in DOMAIN variants /\ v \in Variants
      /\ items[o].phase \in {"inserted", "held", "unbacked"}
      /\ variants' = [variants EXCEPT ![v].stock = @ + 1]
      /\ items' = [items EXCEPT ![o].phase = Returned(o)]
      /\ Allow(v, IF items[o].phase = "held" THEN 0 ELSE 1)
  BY DEF RestoreOrderStock, TablesTyped, TypeOK, Returned
<1>2. variants[v].stock \in Nat
  BY <1>1 DEF TablesTyped, TypeOK, VariantRow
<1>3. 1 \in Int /\ variants[v].stock + 1 >= 0
  BY <1>2
<1>4. /\ DOMAIN variants' = DOMAIN variants
      /\ \A w \in DOMAIN variants :
           /\ variants'[w] \in VariantRow
           /\ variants'[w].product = variants[w].product
           /\ variants'[w].images = variants[w].images
           /\ variants'[w].stock = IF w = v THEN variants[v].stock + 1 ELSE variants[w].stock
  BY <1>1, <1>3, StockMoves
<1>5. /\ DOMAIN items' = DOMAIN items
      /\ \A x \in DOMAIN items :
           /\ items'[x] \in OrderItem
           /\ items'[x].product = items[x].product
           /\ items'[x].variant = items[x].variant
           /\ items'[x].phase = IF x = o THEN Returned(o) ELSE items[x].phase
      /\ \A x \in DOMAIN items \ {o} : items'[x] = items[x]
  <2>1. Returned(o) \in Phase
    BY DEF Returned, Phase
  <2> QED  BY <1>1, <2>1, PhaseMoves
<1>6. (IF items[o].phase = "held" THEN 0 ELSE 1) \in Nat
  OBVIOUS
<1>7. /\ allowed' \in [Variants -> Nat]
      /\ allowed'[v] = allowed[v] + IF items[o].phase = "held" THEN 0 ELSE 1
      /\ \A w \in Variants \ {v} : allowed'[w] = allowed[w]
  BY <1>1, <1>6, AllowTyped
<1> QED  BY <1>1, <1>2, <1>4, <1>5, <1>7

LEMMA TakeTyped ==
  ASSUME TablesTyped, NEW o \in DOMAIN items, NEW phase \in Phase, Take(o, phase),
         lines' \subseteq lines
  PROVE  TablesTyped' /\ UNCHANGED issued
BY TakeEffect DEF Take, TablesTyped, TypeOK

LEMMA CustomerTyped ==
  ASSUME TablesTyped, ReferencesResolve, Customer
  PROVE  TablesTyped' /\ UNCHANGED <<call, issued, cached>>
<1>1. ASSUME NEW p \in Products, NEW v \in Variants, AddToCart(p, v)
      PROVE  TablesTyped' /\ UNCHANGED <<call, issued, cached>>
  BY <1>1 DEF AddToCart, CartLine, TablesTyped, TypeOK
<1>2. ASSUME NEW line \in lines, RemoveFromCart(line)
      PROVE  TablesTyped' /\ UNCHANGED <<call, issued, cached>>
  BY <1>2 DEF RemoveFromCart, TablesTyped, TypeOK
<1>3. ASSUME NEW o \in Orders, NEW line \in lines, PlaceOrder(o, line)
      PROVE  TablesTyped' /\ UNCHANGED <<call, issued, cached>>
  <2> DEFINE item == [product |-> line.product, variant |-> line.variant, phase |-> "inserted"]
  <2>0. item \in OrderItem
    BY DEF OrderItem, CartLine, TablesTyped, TypeOK
  <2>1. items' = Insert(items, o, item) /\ o \notin DOMAIN items
    BY <1>3 DEF PlaceOrder
  <2>2. /\ DOMAIN items' = DOMAIN items \union {o} /\ items'[o] = item
        /\ \A x \in DOMAIN items : items'[x] = items[x]
    BY <2>1 DEF Insert
  <2> QED  BY <1>3, <2>0, <2>2 DEF PlaceOrder, TablesTyped, TypeOK
<1>4. ASSUME NEW o \in Orders, Deduct(o)
      PROVE  TablesTyped' /\ UNCHANGED <<call, issued, cached>>
  <2>1. /\ o \in DOMAIN items /\ lines' \subseteq lines /\ UNCHANGED <<call, cached>>
        /\ \E phase \in Phase : Take(o, phase)
    BY <1>4, DeductTakes DEF Take
  <2> QED  BY <2>1, TakeTyped
<1>5. ASSUME NEW o \in Orders, RefuseCheckout(o)
      PROVE  TablesTyped' /\ UNCHANGED <<call, issued, cached>>
  <2>1. \E phase \in Phase : items' = [items EXCEPT ![o].phase = phase]
    BY <1>5 DEF RefuseCheckout, Phase
  <2> QED  BY <1>5, <2>1, PhaseMoves DEF RefuseCheckout, TablesTyped, TypeOK
<1> QED  BY <1>1, <1>2, <1>3, <1>4, <1>5 DEF Customer

LEMMA SavedVariantsRows ==
  ASSUME TablesTyped, NEW p \in Products, NEW rows \in FormRows,
         NEW id \in Injection(DOMAIN rows \ VariantsOf(p), Variants \ issued)
  PROVE  /\ DOMAIN SavedVariants(p, rows, id) =
               (DOMAIN variants \ VariantsOf(p)) \union (VariantsOf(p) \intersect DOMAIN rows)
                 \union Range(id)
         /\ Range(id) \subseteq Variants \ issued
         /\ \A v \in Range(id) :
              \E w \in DOMAIN rows : SavedVariants(p, rows, id)[v] = VariantOf(p, rows[w])
         /\ \A v \in VariantsOf(p) \intersect DOMAIN rows :
              SavedVariants(p, rows, id)[v] = VariantOf(p, rows[v])
         /\ \A v \in DOMAIN variants \ VariantsOf(p) :
              SavedVariants(p, rows, id)[v] = variants[v]
         /\ \A v \in DOMAIN SavedVariants(p, rows, id) : SavedVariants(p, rows, id)[v] \in VariantRow
<1> DEFINE saved == SavedVariants(p, rows, id)
           kept == (DOMAIN variants \ VariantsOf(p)) \union (VariantsOf(p) \intersect DOMAIN rows)
<1>1. /\ DOMAIN id = DOMAIN rows \ VariantsOf(p)
      /\ Range(id) \subseteq Variants \ issued
  BY DEF Injection, Range
<1>2. DOMAIN saved = kept \union Range(id)
  BY DEF SavedVariants
<1>3. kept \intersect Range(id) = {}
  BY <1>1 DEF TablesTyped, VariantsOf
<1>4. \A w \in DOMAIN rows : rows[w] \in FormLine
  BY DEF FormRows
<1>5. ASSUME NEW v \in Range(id)
      PROVE  \E w \in DOMAIN rows : saved[v] = VariantOf(p, rows[w])
  <2>1. \E w \in DOMAIN id : id[w] = v
    BY DEF Range
  <2>2. (CHOOSE w \in DOMAIN id : id[w] = v) \in DOMAIN rows
    BY <1>1, <2>1
  <2> QED  BY <2>2 DEF SavedVariants
<1>6. \A v \in VariantsOf(p) \intersect DOMAIN rows : saved[v] = VariantOf(p, rows[v])
  BY <1>3 DEF SavedVariants
<1>7. \A v \in DOMAIN variants \ VariantsOf(p) : saved[v] = variants[v]
  BY <1>3 DEF SavedVariants
<1>8. \A w \in DOMAIN rows : VariantOf(p, rows[w]) \in VariantRow
  BY <1>4 DEF FormLine, VariantOf, VariantRow
<1>9. \A v \in DOMAIN saved : saved[v] \in VariantRow
  BY <1>2, <1>5, <1>6, <1>7, <1>8 DEF TablesTyped, TypeOK
<1> QED  BY <1>1, <1>2, <1>5, <1>6, <1>7, <1>9

LEMMA RowsTyped ==
  ASSUME NEW rows \in FormRows
  PROVE  /\ DOMAIN rows \subseteq Variants \union {New}
         /\ \A v \in DOMAIN rows : rows[v] \in FormLine
         /\ \A S \in SUBSET (Variants \union {New}) : [S -> FormLine] \subseteq FormRows
BY DEF FormRows

(* An edit brings no variant but New, and no image.                        *)
LEMMA EditedRowsTyped ==
  ASSUME NEW rows \in FormRows, NEW edited \in EditedRows(rows)
  PROVE  /\ edited \in FormRows
         /\ DOMAIN edited \subseteq DOMAIN rows \union {New}
         /\ \A v \in DOMAIN edited :
              edited[v].images \subseteq IF v \in DOMAIN rows THEN rows[v].images ELSE {}
<1>1. CASE \E v \in DOMAIN rows, n \in 0..MaxStock : edited = [rows EXCEPT ![v].stock = n]
  <2>1. PICK v \in DOMAIN rows, n \in 0..MaxStock : edited = [rows EXCEPT ![v].stock = n]
    BY <1>1
  <2>2. n \in Nat
    BY BoundsAssumption
  <2>3. edited \in [DOMAIN rows -> FormLine]
    BY <2>1, <2>2, RowsTyped DEF FormRows, FormLine
  <2>4. \A w \in DOMAIN rows : edited[w].images = rows[w].images
    BY <2>1, RowsTyped DEF FormRows, FormLine
  <2> QED  BY <2>3, <2>4, RowsTyped
<1>2. CASE \E v \in DOMAIN rows : edited = [rows EXCEPT ![v].images = {}]
  <2>1. PICK v \in DOMAIN rows : edited = [rows EXCEPT ![v].images = {}]
    BY <1>2
  <2>2. edited \in [DOMAIN rows -> FormLine]
    BY <2>1, RowsTyped DEF FormRows, FormLine
  <2>3. \A w \in DOMAIN rows : edited[w].images \subseteq rows[w].images
    BY <2>1, RowsTyped DEF FormRows, FormLine
  <2> QED  BY <2>2, <2>3, RowsTyped
<1>3. CASE \E v \in DOMAIN rows : edited = Restrict(rows, DOMAIN rows \ {v})
  <2>1. PICK v \in DOMAIN rows : edited = Restrict(rows, DOMAIN rows \ {v})
    BY <1>3
  <2>2. edited \in [DOMAIN rows \ {v} -> FormLine]
    BY <2>1, RowsTyped DEF Restrict
  <2>3. \A w \in DOMAIN edited : w \in DOMAIN rows /\ edited[w] = rows[w]
    BY <2>1 DEF Restrict
  <2> QED  BY <2>2, <2>3, RowsTyped
<1>4. CASE \E n \in 1..MaxStock : edited = Insert(rows, New, [stock |-> n, images |-> {}])
  <2>1. PICK n \in 1..MaxStock : edited = Insert(rows, New, [stock |-> n, images |-> {}])
    BY <1>4
  <2>2. [stock |-> n, images |-> {}] \in FormLine
    BY BoundsAssumption DEF FormLine
  <2>3. edited \in [DOMAIN rows \union {New} -> FormLine]
    BY <2>1, <2>2, RowsTyped DEF Insert
  <2>4. \A w \in DOMAIN edited : edited[w].images \subseteq
           IF w \in DOMAIN rows THEN rows[w].images ELSE {}
    BY <2>1 DEF Insert
  <2> QED  BY <2>3, <2>4, RowsTyped
<1> DEFINE Stocks == {[rows EXCEPT ![v].stock = n] : v \in DOMAIN rows, n \in 0..MaxStock}
           Bare == {[rows EXCEPT ![v].images = {}] : v \in DOMAIN rows}
           Fewer == {Restrict(rows, DOMAIN rows \ {v}) : v \in DOMAIN rows}
           More == {Insert(rows, New, [stock |-> n, images |-> {}]) : n \in 1..MaxStock}
<1>5. EditedRows(rows) = Stocks \union Bare \union Fewer \union More
  BY DEF EditedRows
<1>6. CASE edited \in Stocks
  BY <1>1, <1>6
<1>7. CASE edited \in Bare
  BY <1>2, <1>7
<1>8. CASE edited \in Fewer
  BY <1>3, <1>8
<1>9. CASE edited \in More
  BY <1>4, <1>9
<1> HIDE DEF Stocks, Bare, Fewer, More
<1> QED  BY <1>5, <1>6, <1>7, <1>8, <1>9

LEMMA EditsTyped ==
  ASSUME NEW form \in Form, NEW edited \in Edits(form)
  PROVE  /\ edited \in Form
         /\ DOMAIN edited.rows \subseteq DOMAIN form.rows \union {New}
         /\ FormImages(edited) \subseteq FormImages(form)
<1>1. CASE edited \in {form, [form EXCEPT !.images = {}], [form EXCEPT !.groups = {}]}
  BY <1>1 DEF Form, FormImages
<1>2. CASE \E rows \in EditedRows(form.rows) : edited = [form EXCEPT !.rows = rows]
  <2>1. PICK rows \in EditedRows(form.rows) : edited = [form EXCEPT !.rows = rows]
    BY <1>2
  <2>2. form.rows \in FormRows
    BY DEF Form
  <2>3. /\ rows \in FormRows
        /\ DOMAIN rows \subseteq DOMAIN form.rows \union {New}
        /\ \A v \in DOMAIN rows :
             rows[v].images \subseteq IF v \in DOMAIN form.rows THEN form.rows[v].images ELSE {}
    BY <2>2, EditedRowsTyped
  <2>4. edited \in Form /\ edited.rows = rows /\ edited.images = form.images
    BY <2>1, <2>3 DEF Form
  <2>5. FormImages(edited) \subseteq FormImages(form)
    BY <2>3, <2>4 DEF FormImages
  <2> QED  BY <2>3, <2>4, <2>5
<1> QED  BY <1>1, <1>2 DEF Edits

LEMMA FormTyped ==
  ASSUME TablesTyped, NEW p \in DOMAIN products
  PROVE  /\ FormOf(p) \in Form
         /\ DOMAIN FormOf(p).rows = VariantsOf(p)
         /\ VariantsOf(p) \subseteq issued /\ VariantsOf(p) \subseteq Variants
         /\ FormImages(FormOf(p)) = ImagesOf(p)
         /\ \A v \in VariantsOf(p) : FormOf(p).rows[v].stock = variants[v].stock
<1>1. VariantsOf(p) \subseteq DOMAIN variants /\ VariantsOf(p) \subseteq Variants
      /\ VariantsOf(p) \subseteq issued
  BY DEF VariantsOf, TablesTyped, TypeOK
<1> DEFINE rows == [v \in VariantsOf(p) |->
               [stock |-> variants[v].stock, images |-> variants[v].images]]
<1>2. rows \in [VariantsOf(p) -> FormLine]
  BY <1>1 DEF TablesTyped, TypeOK, VariantRow, FormLine
<1>3. VariantsOf(p) \in SUBSET (Variants \union {New})
  BY <1>1
<1>4. rows \in FormRows
  BY <1>2, <1>3 DEF FormRows
<1>5. FormOf(p) \in Form /\ FormOf(p).rows = rows /\ FormOf(p).images = products[p].images
  BY <1>4 DEF FormOf, TablesTyped, TypeOK, ProductRow, Form
<1>6. \A v \in VariantsOf(p) : rows[v].images = variants[v].images
  OBVIOUS
<1>7. {FormOf(p).rows[v].images : v \in DOMAIN FormOf(p).rows} = {variants[v].images : v \in VariantsOf(p)}
  BY <1>5, <1>6
<1>8. \A v \in VariantsOf(p) : FormOf(p).rows[v].stock = variants[v].stock
  BY <1>5
<1> QED
  BY <1>1, <1>5, <1>7, <1>8 DEF FormImages, ImagesOf

LEMMA CallTyped ==
  ASSUME CallsTyped, NEW c \in Calls
  PROVE  /\ call[c] \in CallRow /\ call[c].form \in Form /\ call[c].product \in Products
         /\ call[c].form.rows \in FormRows
         /\ DOMAIN call[c].seen \subseteq Variants
         /\ \A v \in DOMAIN call[c].seen : call[c].seen[v] \in Nat
         /\ call[c].doomed \subseteq Images /\ call[c].removed \subseteq Images
         /\ call[c].overlap \subseteq Images
<1>1. call[c] \in CallRow
  BY DEF CallsTyped
<1>2. call[c].seen \in UNION {[S -> Nat] : S \in SUBSET Variants}
  BY <1>1 DEF CallRow
<1>3. PICK S \in SUBSET Variants : call[c].seen \in [S -> Nat]
  BY <1>2
<1> QED  BY <1>1, <1>3 DEF CallRow, Form

(* The units an administrator adds are a number.                            *)
LEMMA GainTyped ==
  ASSUME CallsTyped, NEW c \in Calls, NEW v \in DOMAIN call[c].form.rows
  PROVE  /\ Gain(call[c].form, call[c].seen, v) \in Nat
         /\ call[c].form.rows[v].stock \in Nat /\ call[c].form.rows[v].images \subseteq Images
         /\ v \in DOMAIN call[c].seen =>
              call[c].seen[v] + Gain(call[c].form, call[c].seen, v) >= call[c].form.rows[v].stock
<1>1. call[c].form.rows[v] \in FormLine
  BY CallTyped, RowsTyped
<1> QED
  BY <1>1, CallTyped DEF Gain, FormLine

LEMMA SaveEffect ==
  ASSUME TablesTyped, CallsTyped, NEW c \in Calls, Save(c)
  PROVE  LET p    == call[c].product
             form == call[c].form
             old  == VariantsOf(p)
             kept == old \intersect DOMAIN form.rows
         IN  /\ p \in DOMAIN products /\ DOMAIN products' = DOMAIN products
             /\ products'[p] = ProductOf(form) /\ ProductOf(form) \in ProductRow
             /\ \A q \in DOMAIN products \ {p} : products'[q] = products[q]
             /\ \E new \in SUBSET (Variants \ issued) :
                  /\ issued' = issued \union new
                  /\ DOMAIN variants' = (DOMAIN variants \ old) \union kept \union new
                  /\ \A v \in DOMAIN variants' : variants'[v] \in VariantRow
                  /\ \A v \in new : \E w \in DOMAIN form.rows :
                       variants'[v] = VariantOf(p, form.rows[w])
                  /\ \A v \in kept : variants'[v] = VariantOf(p, form.rows[v])
                  /\ \A v \in DOMAIN variants \ old : variants'[v] = variants[v]
                  /\ \A v \in kept : allowed'[v] = allowed[v] + Gain(form, call[c].seen, v)
                  /\ \A v \in new : allowed'[v] = variants'[v].stock
                  /\ \A v \in Variants \ (kept \union new) : allowed'[v] = allowed[v]
                  /\ allowed' \in [Variants -> Nat]
             /\ DOMAIN items' = DOMAIN items
             /\ \A o \in DOMAIN items :
                  /\ items'[o] \in OrderItem
                  /\ items'[o].product = items[o].product /\ items'[o].phase = items[o].phase
                  /\ items[o].variant \in old \ kept => items'[o].variant = Lost
                  /\ items[o].variant \notin old \ kept => items'[o] = items[o]
<1> DEFINE p == call[c].product
           form == call[c].form
           rows == form.rows
           old == VariantsOf(p)
           kept == old \intersect DOMAIN rows
<1>1. /\ p \in Products /\ form \in Form /\ rows \in FormRows /\ p \in DOMAIN products
  BY CallTyped DEF Save, CanSave
<1>2. PICK id \in Injection(DOMAIN rows \ old, Variants \ issued) :
        /\ products' = [products EXCEPT ![p] = ProductOf(form)]
        /\ variants' = SavedVariants(p, rows, id)
        /\ issued' = issued \union Range(id)
        /\ allowed' = [v \in Variants |->
             IF v \in kept THEN allowed[v] + Gain(form, call[c].seen, v)
             ELSE IF v \in Range(id) THEN variants'[v].stock ELSE allowed[v]]
  BY DEF Save
<1>3. ProductOf(form) \in ProductRow
  BY <1>1 DEF ProductOf, ProductRow, Form
<1>4. /\ DOMAIN products' = DOMAIN products /\ products'[p] = ProductOf(form)
      /\ \A q \in DOMAIN products \ {p} : products'[q] = products[q]
  BY <1>1, <1>2
<1>5. /\ DOMAIN variants' = (DOMAIN variants \ old) \union kept \union Range(id)
      /\ Range(id) \subseteq Variants \ issued
      /\ \A v \in DOMAIN variants' : variants'[v] \in VariantRow
      /\ \A v \in Range(id) : \E w \in DOMAIN rows : variants'[v] = VariantOf(p, rows[w])
      /\ \A v \in kept : variants'[v] = VariantOf(p, rows[v])
      /\ \A v \in DOMAIN variants \ old : variants'[v] = variants[v]
  <2> DEFINE saved == SavedVariants(p, rows, id)
  <2>1. p \in Products /\ rows \in FormRows
        /\ id \in Injection(DOMAIN rows \ VariantsOf(p), Variants \ issued)
    BY <1>1, <1>2
  <2> HIDE DEF p, form, rows, old, kept
  <2>2. /\ DOMAIN saved =
               (DOMAIN variants \ VariantsOf(p)) \union (VariantsOf(p) \intersect DOMAIN rows)
                 \union Range(id)
        /\ Range(id) \subseteq Variants \ issued
        /\ \A v \in Range(id) : \E w \in DOMAIN rows : saved[v] = VariantOf(p, rows[w])
        /\ \A v \in VariantsOf(p) \intersect DOMAIN rows : saved[v] = VariantOf(p, rows[v])
        /\ \A v \in DOMAIN variants \ VariantsOf(p) : saved[v] = variants[v]
        /\ \A v \in DOMAIN saved : saved[v] \in VariantRow
    BY <2>1, SavedVariantsRows
  <2>3. variants' = saved
    BY <1>2
  <2> HIDE DEF saved
  <2> QED  BY <2>2, <2>3 DEF rows, old, kept
<1>6. /\ DOMAIN items' = DOMAIN items
      /\ \A o \in DOMAIN items :
           /\ items'[o] \in OrderItem
           /\ items'[o].product = items[o].product /\ items'[o].phase = items[o].phase
           /\ items[o].variant \in old \ kept => items'[o].variant = Lost
           /\ items[o].variant \notin old \ kept => items'[o] = items[o]
  BY DEF Save, LoseItems, TablesTyped, TypeOK, OrderItem
<1>7. kept \intersect Range(id) = {} /\ kept \subseteq Variants
  BY <1>5 DEF VariantsOf, TablesTyped, TypeOK
<1>8. \A v \in Range(id) : variants'[v].stock \in Nat
  BY <1>5 DEF VariantRow
<1>9. \A v \in kept : Gain(form, call[c].seen, v) \in Nat
  BY GainTyped
<1>10. \A v \in Variants : allowed[v] \in Nat
  BY DEF TablesTyped, TypeOK
<1>11. /\ \A v \in kept : allowed'[v] = allowed[v] + Gain(form, call[c].seen, v)
       /\ \A v \in Range(id) : allowed'[v] = variants'[v].stock
       /\ \A v \in Variants \ (kept \union Range(id)) : allowed'[v] = allowed[v]
       /\ allowed' \in [Variants -> Nat]
  <2> HIDE DEF p, form, rows, old, kept
  <2> QED  BY <1>2, <1>5, <1>7, <1>8, <1>9, <1>10
<1>12. /\ Range(id) \in SUBSET (Variants \ issued) /\ issued' = issued \union Range(id)
  BY <1>2, <1>5
<1> HIDE DEF p, form, rows, old, kept
<1>13. \E new \in SUBSET (Variants \ issued) :
                  /\ issued' = issued \union new
                  /\ DOMAIN variants' = (DOMAIN variants \ old) \union kept \union new
                  /\ \A v \in DOMAIN variants' : variants'[v] \in VariantRow
                  /\ \A v \in new : \E w \in DOMAIN rows : variants'[v] = VariantOf(p, rows[w])
                  /\ \A v \in kept : variants'[v] = VariantOf(p, rows[v])
                  /\ \A v \in DOMAIN variants \ old : variants'[v] = variants[v]
                  /\ \A v \in kept : allowed'[v] = allowed[v] + Gain(form, call[c].seen, v)
                  /\ \A v \in new : allowed'[v] = variants'[v].stock
                  /\ \A v \in Variants \ (kept \union new) : allowed'[v] = allowed[v]
                  /\ allowed' \in [Variants -> Nat]
  BY <1>5, <1>11, <1>12
<1> QED
  BY <1>1, <1>3, <1>4, <1>6, <1>13 DEF p, form, rows, old, kept

LEMMA SaveTyped ==
  ASSUME TablesTyped, CallsTyped, NEW c \in Calls, Save(c)
  PROVE  TablesTyped' /\ issued \subseteq issued'
<1> DEFINE p == call[c].product
<1>1. PICK new \in SUBSET (Variants \ issued) :
        /\ issued' = issued \union new
        /\ DOMAIN variants' \subseteq DOMAIN variants \union new
        /\ \A v \in DOMAIN variants' : variants'[v] \in VariantRow
        /\ allowed' \in [Variants -> Nat]
  BY SaveEffect DEF VariantsOf
<1>2. /\ DOMAIN products' = DOMAIN products
      /\ \A q \in DOMAIN products : products'[q] \in ProductRow
  BY SaveEffect DEF TablesTyped, TypeOK
<1>3. /\ DOMAIN items' = DOMAIN items
      /\ \A o \in DOMAIN items : items'[o] \in OrderItem
  BY SaveEffect
<1>4. excused' \subseteq Images
  BY CallTyped DEF Save, TablesTyped, TypeOK
<1> QED
  BY <1>1, <1>2, <1>3, <1>4 DEF Save, TablesTyped, TypeOK

(* The rows that go with a product, and the items that lose their variant.  *)
LEMMA DeleteRowEffect ==
  ASSUME TablesTyped, NEW c \in Calls, DeleteRow(c)
  PROVE  LET p == call[c].product
         IN  /\ DOMAIN products' = DOMAIN products \ {p}
             /\ \A q \in DOMAIN products' : products'[q] = products[q]
             /\ DOMAIN variants' = DOMAIN variants \ VariantsOf(p)
             /\ \A v \in DOMAIN variants' : variants'[v] = variants[v] /\ variants[v].product # p
             /\ lines' \subseteq lines
             /\ \A line \in lines' : line.product # p /\ line.variant \notin VariantsOf(p)
             /\ DOMAIN items' = DOMAIN items
             /\ \A o \in DOMAIN items :
                  /\ items'[o] \in OrderItem
                  /\ items'[o].product = items[o].product /\ items[o].product # p
                  /\ items'[o].phase = items[o].phase
                  /\ items[o].variant \in VariantsOf(p) => items'[o].variant = Lost
                  /\ items[o].variant \notin VariantsOf(p) => items'[o] = items[o]
<1> DEFINE p == call[c].product
<1>1. /\ \A o \in DOMAIN items : items[o].product # p
      /\ VariantsOf(p) \intersect InCarts(lines \ {line \in lines : line.product = p}) = {}
      /\ lines' = lines \ {line \in lines : line.product = p}
      /\ variants' = Restrict(variants, DOMAIN variants \ VariantsOf(p))
      /\ products' = Restrict(products, DOMAIN products \ {p})
      /\ LoseItems(VariantsOf(p))
  BY DEF DeleteRow
<1>2. /\ DOMAIN variants' = DOMAIN variants \ VariantsOf(p)
      /\ \A v \in DOMAIN variants' : variants'[v] = variants[v] /\ variants[v].product # p
      /\ DOMAIN products' = DOMAIN products \ {p}
      /\ \A q \in DOMAIN products' : products'[q] = products[q]
  BY <1>1 DEF Restrict, VariantsOf
<1>3. \A line \in lines' : line.product # p /\ line.variant \notin VariantsOf(p)
  BY <1>1 DEF InCarts
<1>4. /\ DOMAIN items' = DOMAIN items
      /\ \A o \in DOMAIN items :
           /\ items'[o] \in OrderItem
           /\ items'[o].product = items[o].product
           /\ items'[o].phase = items[o].phase
           /\ items[o].variant \in VariantsOf(p) => items'[o].variant = Lost
           /\ items[o].variant \notin VariantsOf(p) => items'[o] = items[o]
  BY <1>1 DEF LoseItems, TablesTyped, TypeOK, OrderItem
<1> HIDE DEF p
<1> QED  BY <1>1, <1>2, <1>3, <1>4 DEF p

LEMMA RemovalTyped ==
  ASSUME TablesTyped, CallsTyped, NEW c \in Calls, DeleteRow(c) \/ Fail(c)
  PROVE  TablesTyped' /\ UNCHANGED issued
<1>1. CASE DeleteRow(c)
  <2>1. UNCHANGED <<issued, groups, files, allowed, excused>>
    BY <1>1 DEF DeleteRow
  <2> QED  BY <1>1, <2>1, DeleteRowEffect DEF TablesTyped, TypeOK
<1>2. CASE Fail(c)
  BY <1>2, CallTyped DEF Fail, tables, TablesTyped, TypeOK
<1> QED  BY <1>1, <1>2

LEMMA RequestTyped ==
  ASSUME TablesTyped, NEW c \in Calls, Request(c)
  PROVE  TablesTyped' /\ issued \subseteq issued' /\ Done(c)
<1> DEFINE Goal == TablesTyped' /\ issued \subseteq issued' /\ Done(c)
<1>1. ASSUME NEW p \in Products, NEW n \in 0..MaxStock, CreateProduct(c, p, n) PROVE Goal
  <2>1. PICK v \in Variants \ issued, gs \in {{}, groups} :
          /\ products' = Insert(products, p, NewProduct(gs))
          /\ variants' = Insert(variants, v, NewVariant(p, n))
          /\ issued' = issued \union {p, v}
          /\ Allow(v, n)
    BY <1>1 DEF CreateProduct
  <2>2. n \in Nat
    BY BoundsAssumption
  <2>3. NewProduct(gs) \in ProductRow /\ NewVariant(p, n) \in VariantRow
    BY <2>2 DEF NewProduct, NewVariant, ProductRow, VariantRow, TablesTyped, TypeOK
  <2>4. DOMAIN products' = DOMAIN products \union {p} /\ \A q \in DOMAIN products' : products'[q] \in ProductRow
    BY <2>1, <2>3 DEF Insert, TablesTyped, TypeOK
  <2>5. DOMAIN variants' = DOMAIN variants \union {v} /\ \A w \in DOMAIN variants' : variants'[w] \in VariantRow
    BY <2>1, <2>3 DEF Insert, TablesTyped, TypeOK
  <2>6. allowed' \in [Variants -> Nat]
    BY <2>1, <2>2, AllowTyped
  <2> QED  BY <1>1, <2>1, <2>4, <2>5, <2>6 DEF CreateProduct, TablesTyped, TypeOK
<1>2. ASSUME NEW p \in Products, NEW active \in BOOLEAN, UpdateProductStatus(c, p, active) PROVE Goal
  BY <1>2 DEF UpdateProductStatus, TablesTyped, TypeOK, ProductRow
<1>3. ASSUME NEW p \in Products, NEW g \in Groups, ManageCollectionProduct(c, p, g) PROVE Goal
  BY <1>3 DEF ManageCollectionProduct, TablesTyped, TypeOK, ProductRow
<1>4. ASSUME NEW v \in Variants, NEW n \in {-1, MaxStock}, AdjustStock(c, v, n) PROVE Goal
  <2>1. n \in Int /\ v \in DOMAIN variants /\ variants[v].stock + n >= 0
        /\ variants' = [variants EXCEPT ![v].stock = @ + n]
    BY <1>4, BoundsAssumption DEF AdjustStock
  <2>2. /\ DOMAIN variants' = DOMAIN variants
        /\ \A w \in DOMAIN variants : variants'[w] \in VariantRow
    BY <2>1, StockMoves
  <2>3. (IF n >= 0 THEN n ELSE IF Exposed(v) THEN -n ELSE 0) \in Nat
    BY <2>1
  <2>4. allowed' \in [Variants -> Nat]
    BY <1>4, <2>3, AllowTyped DEF AdjustStock
  <2> QED  BY <1>4, <2>2, <2>4 DEF AdjustStock, TablesTyped, TypeOK
<1>5. ASSUME NEW g \in Groups, DeleteGroup(c, g) PROVE Goal
  BY <1>5 DEF DeleteGroup, TablesTyped, TypeOK, ProductRow
<1>6. ASSUME NEW o \in Orders, RestoreOrderStock(c, o) PROVE Goal
  BY <1>6, RestoreEffect DEF RestoreOrderStock, TablesTyped, TypeOK
<1>7. ASSUME NEW o \in Orders, DeductOrderStock(c, o) PROVE Goal
  <2>1. o \in DOMAIN items /\ lines' \subseteq lines /\ \E phase \in Phase : Take(o, phase)
    BY <1>7, DeductTakes
  <2>2. Done(c)
    BY <1>7 DEF DeductOrderStock
  <2> QED  BY <2>1, <2>2, TakeTyped
<1> HIDE DEF Goal
<1>8. Goal
  BY <1>1, <1>2, <1>3, <1>4, <1>5, <1>6, <1>7 DEF Request
<1> QED  BY <1>8 DEF Goal

(* A form that is filled, from rows or from a copy.                         *)
LEMMA FillEffect ==
  ASSUME TablesTyped, CallsTyped, NEW c \in Calls, NEW p \in Products, NEW form \in Form,
         DOMAIN form.rows \subseteq Variants \intersect issued, NEW overlap \in SUBSET Images,
         Fill(c, p, form, overlap)
  PROVE  /\ c \notin InFlight /\ UNCHANGED <<tables, allowed, excused>>
         /\ call' \in [Calls -> CallRow] /\ \A d \in Calls \ {c} : call'[d] = call[d]
         /\ call'[c].pc = "form" /\ call'[c].product = p /\ call'[c].form = form
         /\ DOMAIN call'[c].seen = DOMAIN form.rows
         /\ \A v \in DOMAIN form.rows : call'[c].seen[v] = form.rows[v].stock
         /\ call'[c].overlap = overlap /\ call'[c].doomed = {} /\ call'[c].removed = {}
<1> DEFINE r == [Idle EXCEPT !.pc = "form", !.product = p, !.form = form,
                             !.seen = Shown(form), !.overlap = overlap]
<1>1. call' = [call EXCEPT ![c] = r] /\ UNCHANGED <<tables, allowed, excused>> /\ c \notin InFlight
  BY DEF Fill, Begin, At, InFlight, Open
<1>2. /\ DOMAIN Shown(form) = DOMAIN form.rows
      /\ \A v \in DOMAIN form.rows : Shown(form)[v] = form.rows[v].stock
  BY DEF Shown
<1>3. Shown(form) \in UNION {[S -> Nat] : S \in SUBSET Variants}
  <2>1. \A v \in DOMAIN form.rows : form.rows[v].stock \in Nat
    BY RowsTyped DEF Form, FormLine
  <2>2. Shown(form) \in [DOMAIN form.rows -> Nat]
    BY <2>1 DEF Shown
  <2> QED  BY <2>2
<1> HIDE DEF Shown
<1>4. /\ r \in CallRow /\ r.pc = "form" /\ r.product = p /\ r.form = form /\ r.seen = Shown(form)
      /\ r.overlap = overlap /\ r.doomed = {} /\ r.removed = {}
  BY <1>3, IdleTyped DEF CallRow, Open
<1> HIDE DEF r
<1>5. call' \in [Calls -> CallRow] /\ \A d \in Calls : call'[d] = IF d = c THEN r ELSE call[d]
  BY <1>1, <1>4 DEF CallsTyped
<1> QED  BY <1>1, <1>2, <1>4, <1>5

LEMMA FillTyped ==
  ASSUME TablesTyped, CallsTyped, NEW c \in Calls, NEW p \in Products, NEW form \in Form,
         DOMAIN form.rows \subseteq Variants \intersect issued, NEW overlap \in SUBSET Images,
         Fill(c, p, form, overlap)
  PROVE  ShopTyped'
<1>1. /\ UNCHANGED <<tables, allowed, excused>> /\ call' \in [Calls -> CallRow]
      /\ \A d \in Calls \ {c} : call'[d] = call[d]
      /\ call'[c].form = form /\ DOMAIN call'[c].seen = DOMAIN form.rows
  BY FillEffect
<1>2. \A d \in InFlight' : RowsSeen(call'[d]) /\ DOMAIN call'[d].seen \subseteq issued
  BY <1>1 DEF CallsTyped, InFlight, RowsSeen
<1> QED  BY <1>1, <1>2 DEF ShopTyped, TablesTyped, CallsTyped, TypeOK, tables

(* What each way of filling a form fills it from.                           *)
LEMMA GoingTyped ==
  ASSUME CallsTyped
  PROVE  Going \in SUBSET Images
BY CallTyped DEF Going, InFlight

LEMMA LoadFills ==
  ASSUME TablesTyped, CallsTyped, NEW c \in Calls, NEW p \in Products, LoadForm(c, p)
  PROVE  /\ p \in DOMAIN products /\ Fill(c, p, FormOf(p), Going) /\ Going \in SUBSET Images
         /\ FormOf(p) \in Form /\ DOMAIN FormOf(p).rows \subseteq Variants \intersect issued
BY FormTyped, GoingTyped DEF LoadForm

LEMMA SlugFills ==
  ASSUME CopiesTyped, NEW c \in Calls, NEW k \in Copies, LoadBySlug(c, k)
  PROVE  /\ k \in DOMAIN cached
         /\ Fill(c, cached[k].product, cached[k].form, cached[k].overlap)
         /\ cached[k].product \in Products /\ cached[k].overlap \in SUBSET Images
         /\ cached[k].form \in Form
         /\ DOMAIN cached[k].form.rows \subseteq Variants \intersect issued
BY DEF LoadBySlug, CopiesTyped, CopyTyped, CopyRow

(* The requests that load, save or delete a product, and their files.      *)
LEMMA FormCallsTyped ==
  ASSUME TablesTyped, CallsTyped, CopiesTyped, NEW c \in Calls,
         \/ \E p \in Products : LoadForm(c, p) \/ DeleteProduct(c, p)
         \/ \E k \in Copies : LoadBySlug(c, k)
         \/ UpdateProduct(c)
         \/ \E i \in Images : DeleteFile(c, i)
  PROVE  ShopTyped'
<1>1. ASSUME NEW p \in Products, LoadForm(c, p) PROVE ShopTyped'
  BY <1>1, LoadFills, FillTyped
<1>5. ASSUME NEW k \in Copies, LoadBySlug(c, k) PROVE ShopTyped'
  BY <1>5, SlugFills, FillTyped
<1>2. ASSUME NEW p \in Products, DeleteProduct(c, p) PROVE ShopTyped'
  <2> DEFINE r == [Idle EXCEPT !.pc = "images", !.product = p, !.deletes = TRUE,
                               !.doomed = ImagesOf(p)]
  <2>1. p \in DOMAIN products /\ call' = [call EXCEPT ![c] = r] /\ UNCHANGED <<tables, allowed, excused>>
    BY <1>2 DEF DeleteProduct
  <2>2. ImagesOf(p) \in SUBSET Images
    BY <2>1 DEF ImagesOf, VariantsOf, TablesTyped, TypeOK, ProductRow, VariantRow
  <2>3. r \in CallRow /\ r.form = NoForm /\ DOMAIN r.seen = {}
    BY <2>2, IdleTyped DEF CallRow, Open
  <2> HIDE DEF r
  <2>4. call' \in [Calls -> CallRow] /\ \A d \in Calls : call'[d] = IF d = c THEN r ELSE call[d]
    BY <2>1, <2>3 DEF CallsTyped
  <2>5. \A d \in InFlight' : RowsSeen(call'[d]) /\ DOMAIN call'[d].seen \subseteq issued
    BY <2>3, <2>4, NoFormTyped DEF CallsTyped, InFlight, RowsSeen
  <2> QED  BY <2>1, <2>4, <2>5 DEF ShopTyped, TablesTyped, CallsTyped, TypeOK, tables
<1>3. CASE UpdateProduct(c)
  <2>1. PICK form \in Edits(call[c].form) :
          call' = [call EXCEPT ![c].pc = "images", ![c].form = form,
                      ![c].doomed = IF call[c].product \in DOMAIN products
                                    THEN RemovedImages(call[c].product, form) ELSE {}]
    BY <1>3 DEF UpdateProduct
  <2> DEFINE doomed == IF call[c].product \in DOMAIN products
                       THEN RemovedImages(call[c].product, form) ELSE {}
  <2>2. UNCHANGED <<tables, allowed, excused>> /\ c \in InFlight
    BY <1>3 DEF UpdateProduct, InFlight, At, Open
  <2>3. form \in Form /\ DOMAIN form.rows \subseteq DOMAIN call[c].form.rows \union {New}
    BY <2>1, CallTyped, EditsTyped
  <2>4. doomed \in SUBSET Images
    BY DEF RemovedImages, VariantsOf, TablesTyped, TypeOK, ProductRow, VariantRow
  <2> HIDE DEF doomed
  <2>5. call' = [call EXCEPT ![c] = [@ EXCEPT !.pc = "images", !.form = form, !.doomed = doomed]]
    BY <2>1, CallTyped DEF doomed, CallsTyped, CallRow
  <2> DEFINE r == [call[c] EXCEPT !.pc = "images", !.form = form, !.doomed = doomed]
  <2>6. r \in CallRow /\ r.form = form /\ r.seen = call[c].seen
    BY <2>3, <2>4, CallTyped DEF CallRow, Open
  <2>7. call' = [call EXCEPT ![c] = r]
    BY <2>5
  <2> HIDE DEF r
  <2>8. call' \in [Calls -> CallRow] /\ \A d \in Calls : call'[d] = IF d = c THEN r ELSE call[d]
    BY <2>6, <2>7 DEF CallsTyped
  <2>9. \A d \in InFlight' : RowsSeen(call'[d]) /\ DOMAIN call'[d].seen \subseteq issued
    BY <2>2, <2>3, <2>6, <2>8 DEF CallsTyped, InFlight, RowsSeen
  <2> QED  BY <2>2, <2>8, <2>9 DEF ShopTyped, TablesTyped, CallsTyped, TypeOK, tables
<1>4. ASSUME NEW i \in Images, DeleteFile(c, i) PROVE ShopTyped'
  <2>1. PICK deleted \in BOOLEAN :
          /\ files' = IF deleted THEN files \ {i} ELSE files
          /\ call' = [d \in Calls |->
               IF d = c THEN [call[c] EXCEPT !.doomed = @ \ {i},
                                             !.removed = IF deleted THEN @ \union {i} ELSE @]
               ELSE IF deleted /\ d \in InFlight
                    THEN [call[d] EXCEPT !.overlap = @ \union {i}] ELSE call[d]]
    BY <1>4 DEF DeleteFile
  <2>2. \A d \in Calls : /\ call'[d] \in CallRow
                         /\ call'[d].pc = call[d].pc /\ call'[d].form = call[d].form
                         /\ call'[d].seen = call[d].seen
    BY <2>1, CallTyped DEF CallRow
  <2>3. call' \in [Calls -> CallRow]
    BY <2>1, <2>2
  <2>4. \A d \in InFlight' : RowsSeen(call'[d]) /\ DOMAIN call'[d].seen \subseteq issued
    BY <2>2 DEF CallsTyped, InFlight, RowsSeen
  <2>5. UNCHANGED <<products, variants, issued, groups, lines, items, allowed, excused>>
    BY <1>4 DEF DeleteFile
  <2> QED  BY <2>1, <2>3, <2>4, <2>5 DEF ShopTyped, TablesTyped, CallsTyped, TypeOK
<1> QED  BY <1>1, <1>2, <1>3, <1>4, <1>5

LEMMA TypedStep ==
  ASSUME ShopTyped, CopiesTyped, ReferencesResolve, [Next]_vars
  PROVE  ShopTyped'
<1>0. TablesTyped /\ CallsTyped
  BY DEF ShopTyped
<1>1. CASE Customer
  <2>1. TablesTyped' /\ UNCHANGED <<call, issued>>
    BY <1>0, <1>1, CustomerTyped
  <2> QED  BY <1>0, <2>1, CallsKept DEF ShopTyped
<1>2. ASSUME NEW c \in Calls, ProductForm(c) PROVE ShopTyped'
  <2>1. CASE Save(c)
    <3>1. TablesTyped' /\ issued \subseteq issued'
      BY <1>0, <2>1, SaveTyped
    <3>2. Done(c)
      BY <2>1 DEF Save
    <3> QED  BY <1>0, <3>1, <3>2, CallsKept DEF ShopTyped
  <2>2. CASE DeleteRow(c) \/ Fail(c)
    <3>1. TablesTyped' /\ issued \subseteq issued'
      BY <1>0, <2>2, RemovalTyped
    <3>2. Done(c)
      BY <2>2 DEF DeleteRow, Fail
    <3> QED  BY <1>0, <3>1, <3>2, CallsKept DEF ShopTyped
  <2> QED  BY <1>0, <1>2, <2>1, <2>2, FormCallsTyped DEF ProductForm
<1>3. ASSUME NEW c \in Calls, Request(c) PROVE ShopTyped'
  <2>1. TablesTyped' /\ issued \subseteq issued' /\ Done(c)
    BY <1>0, <1>3, RequestTyped
  <2> QED  BY <1>0, <2>1, CallsKept DEF ShopTyped
<1>4. CASE UNCHANGED vars
  BY <1>4 DEF vars, tables, ShopTyped, TablesTyped, CallsTyped, TypeOK, InFlight, RowsSeen
<1>5. CASE ProductCache
  <2>1. UNCHANGED <<products, variants, issued, groups, lines, items, files, call, allowed, excused>>
    BY <1>5 DEF ProductCache, ReadProduct, Expire
  <2> QED  BY <2>1 DEF ShopTyped, TablesTyped, CallsTyped, TypeOK, InFlight, RowsSeen
<1> QED  BY <1>1, <1>2, <1>3, <1>4, <1>5 DEF Next

(* Only a read makes a copy; of those there are, a deletion marks an image. *)
NoNewCopy ==
  \A k \in DOMAIN cached' : /\ k \in DOMAIN cached
                            /\ cached'[k].product = cached[k].product
                            /\ cached'[k].form = cached[k].form

LEMMA CopiesStay ==
  ASSUME CopiesTyped, [Next]_vars
  PROVE  \/ \A k \in DOMAIN cached' : k \in DOMAIN cached /\ cached'[k] = cached[k]
         \/ \E c \in Calls, i \in Images : DeleteFile(c, i)
         \/ \E k \in Copies, p \in Products : ReadProduct(k, p)
<1> DEFINE Fewer == \A k \in DOMAIN cached' : k \in DOMAIN cached /\ cached'[k] = cached[k]
<1>1. ASSUME UNCHANGED cached PROVE Fewer
  BY <1>1
<1>2. ASSUME NEW ks, cached' = Restrict(cached, DOMAIN cached \ ks) PROVE Fewer
  BY <1>2 DEF Restrict
<1> HIDE DEF Fewer
<1>3. CASE Customer \/ UNCHANGED vars
  BY <1>1, <1>3 DEF Customer, AddToCart, RemoveFromCart, PlaceOrder, Deduct, Take, RefuseCheckout,
                    vars, tables
<1>4. CASE ProductCache
  <2>1. ASSUME NEW k \in Copies, Expire(k) PROVE Fewer
    BY <1>2, <2>1 DEF Expire
  <2> QED  BY <1>4, <2>1 DEF ProductCache, Fewer
<1>5. ASSUME NEW c \in Calls, ProductForm(c) PROVE Fewer \/ \E i \in Images : DeleteFile(c, i)
  <2>1. CASE Save(c)
    BY <1>2, <2>1 DEF Save
  <2> QED  BY <1>1, <1>5, <2>1 DEF ProductForm, LoadForm, LoadBySlug, Fill, DeleteProduct,
                                    UpdateProduct, DeleteRow, Fail, tables
<1>6. ASSUME NEW c \in Calls, Request(c) PROVE Fewer
  BY <1>1, <1>6 DEF Request, CreateProduct, UpdateProductStatus, ManageCollectionProduct,
     AdjustStock, DeleteGroup, RestoreOrderStock, DeductOrderStock, Take
<1> QED  BY <1>3, <1>4, <1>5, <1>6 DEF Next, Fewer

(* What a copy of the rows is.                                              *)
LEMMA ReadEffect ==
  ASSUME TablesTyped, CallsTyped, NEW k \in Copies, NEW p \in Products, ReadProduct(k, p)
  PROVE  /\ p \in DOMAIN products /\ k \notin DOMAIN cached
         /\ DOMAIN cached' = DOMAIN cached \union {k}
         /\ \A j \in DOMAIN cached : cached'[j] = cached[j]
         /\ cached'[k] \in CopyRow /\ cached'[k].product = p /\ cached'[k].form = FormOf(p)
         /\ cached'[k].overlap = Going
<1> DEFINE r == [product |-> p, form |-> FormOf(p), overlap |-> Going]
<1>1. r \in CopyRow /\ r.product = p /\ r.form = FormOf(p) /\ r.overlap = Going
  BY FormTyped, GoingTyped DEF CopyRow, ReadProduct
<1>2. cached' = Insert(cached, k, r) /\ k \notin DOMAIN cached /\ p \in DOMAIN products
  BY DEF ReadProduct
<1> HIDE DEF r
<1> QED  BY <1>1, <1>2 DEF Insert

LEMMA FileMarks ==
  ASSUME CopiesTyped, NEW c \in Calls, NEW i \in Images, DeleteFile(c, i)
  PROVE  /\ DOMAIN cached' = DOMAIN cached
         /\ \A k \in DOMAIN cached :
              /\ cached'[k] \in CopyRow /\ cached'[k].product = cached[k].product
              /\ cached'[k].form = cached[k].form
              /\ cached[k].overlap \union (files \ files') \subseteq cached'[k].overlap
BY DEF DeleteFile, CopiesTyped, CopyTyped, CopyRow

LEMMA IssuedStays ==
  ASSUME ShopTyped, ReferencesResolve, [Next]_vars
  PROVE  issued \subseteq issued'
<1>0. TablesTyped /\ CallsTyped
  BY DEF ShopTyped
<1>1. CASE Customer
  BY <1>0, <1>1, CustomerTyped
<1>2. ASSUME NEW c \in Calls, ProductForm(c) PROVE issued \subseteq issued'
  BY <1>2 DEF ProductForm, LoadForm, LoadBySlug, Fill, DeleteProduct, UpdateProduct, DeleteFile,
              Save, DeleteRow, Fail, tables
<1>3. ASSUME NEW c \in Calls, Request(c) PROVE issued \subseteq issued'
  BY <1>0, <1>3, RequestTyped
<1>4. CASE ProductCache \/ UNCHANGED vars
  BY <1>4 DEF ProductCache, ReadProduct, Expire, vars, tables
<1> QED  BY <1>1, <1>2, <1>3, <1>4 DEF Next

LEMMA CopiesTypedStep ==
  ASSUME ShopTyped, CopiesTyped, [Next]_vars, issued \subseteq issued'
  PROVE  CopiesTyped'
<1>0. TablesTyped /\ CallsTyped
  BY DEF ShopTyped
<1>1. CASE \A k \in DOMAIN cached' : k \in DOMAIN cached /\ cached'[k] = cached[k]
  BY <1>1 DEF CopiesTyped, CopyTyped
<1>2. ASSUME NEW c \in Calls, NEW i \in Images, DeleteFile(c, i) PROVE CopiesTyped'
  BY <1>2, FileMarks DEF CopiesTyped, CopyTyped
<1>3. ASSUME NEW k \in Copies, NEW p \in Products, ReadProduct(k, p) PROVE CopiesTyped'
  <2>1. DOMAIN FormOf(p).rows \subseteq Variants \intersect issued
    BY <1>0, <1>3, ReadEffect, FormTyped
  <2> QED  BY <1>0, <1>3, <2>1, ReadEffect DEF CopiesTyped, CopyTyped
<1> QED  BY <1>1, <1>2, <1>3, CopiesStay

LEMMA NoNewCopyBut ==
  ASSUME CopiesTyped, [Next]_vars
  PROVE  NoNewCopy \/ \E k \in Copies, p \in Products : ReadProduct(k, p)
<1>1. ASSUME NEW c \in Calls, NEW i \in Images, DeleteFile(c, i) PROVE NoNewCopy
  BY <1>1, FileMarks DEF NoNewCopy
<1> QED  BY <1>1, CopiesStay DEF NoNewCopy

-----------------------------------------------------------------------------
(* Rows that name rows *)

(* What leaves every reference as it is.                                   *)
LEMMA SameReferences ==
  ASSUME ReferencesResolve, lines' \subseteq lines, DOMAIN variants' = DOMAIN variants,
         \A v \in DOMAIN variants : variants'[v].product = variants[v].product,
         DOMAIN products' = DOMAIN products,
         \A p \in DOMAIN products : products'[p].groups \subseteq groups',
         DOMAIN items' = DOMAIN items,
         \A o \in DOMAIN items : /\ items'[o].product = items[o].product
                                 /\ items'[o].variant = items[o].variant
  PROVE  ReferencesResolve'
BY DEF ReferencesResolve

LEMMA CustomerLinked ==
  ASSUME TablesTyped, ReferencesResolve, Customer
  PROVE  ReferencesResolve'
<1>1. ASSUME NEW p \in Products, NEW v \in Variants, AddToCart(p, v) PROVE ReferencesResolve'
  BY <1>1 DEF AddToCart, ReferencesResolve
<1>2. ASSUME NEW line \in lines, RemoveFromCart(line) PROVE ReferencesResolve'
  BY <1>2 DEF RemoveFromCart, ReferencesResolve
<1>3. ASSUME NEW o \in Orders, NEW line \in lines, PlaceOrder(o, line) PROVE ReferencesResolve'
  <2> DEFINE item == [product |-> line.product, variant |-> line.variant, phase |-> "inserted"]
  <2>1. /\ items' = Insert(items, o, item) /\ o \notin DOMAIN items
        /\ line.product \in DOMAIN products /\ line.variant \in DOMAIN variants
        /\ UNCHANGED <<products, variants, groups, lines>>
    BY <1>3 DEF PlaceOrder, ReferencesResolve
  <2>2. /\ DOMAIN items' = DOMAIN items \union {o} /\ items'[o] = item
        /\ \A x \in DOMAIN items : items'[x] = items[x]
    BY <2>1 DEF Insert
  <2>3. item.product = line.product /\ item.variant = line.variant
    OBVIOUS
  <2> HIDE DEF item
  <2> QED  BY <2>1, <2>2, <2>3 DEF ReferencesResolve
<1>4. ASSUME NEW o \in Orders, Deduct(o) PROVE ReferencesResolve'
  <2>1. /\ o \in DOMAIN items /\ lines' \subseteq lines /\ UNCHANGED <<products, groups>>
        /\ \E phase \in Phase : Take(o, phase)
    BY <1>4, DeductTakes DEF Take
  <2>2. \A p \in DOMAIN products : products'[p].groups \subseteq groups'
    BY <2>1 DEF ReferencesResolve
  <2> QED  BY <2>1, <2>2, TakeEffect, SameReferences
<1>5. ASSUME NEW o \in Orders, RefuseCheckout(o) PROVE ReferencesResolve'
  <2>1. \E phase \in Phase : items' = [items EXCEPT ![o].phase = phase]
    BY <1>5 DEF RefuseCheckout, Phase
  <2> QED  BY <1>5, <2>1, PhaseMoves DEF RefuseCheckout, ReferencesResolve
<1> QED  BY <1>1, <1>2, <1>3, <1>4, <1>5 DEF Customer

LEMMA SaveLinked ==
  ASSUME TablesTyped, CallsTyped, ReferencesResolve, NEW c \in Calls, Save(c)
  PROVE  ReferencesResolve'
<1> DEFINE p == call[c].product
           form == call[c].form
           old == VariantsOf(p)
           kept == old \intersect DOMAIN form.rows
<1>1. PICK new \in SUBSET (Variants \ issued) :
        /\ DOMAIN variants' = (DOMAIN variants \ old) \union kept \union new
        /\ \A v \in new : \E w \in DOMAIN form.rows : variants'[v] = VariantOf(p, form.rows[w])
        /\ \A v \in kept : variants'[v] = VariantOf(p, form.rows[v])
        /\ \A v \in DOMAIN variants \ old : variants'[v] = variants[v]
  BY SaveEffect
<1>2. /\ p \in DOMAIN products /\ DOMAIN products' = DOMAIN products
      /\ products'[p] = ProductOf(form)
      /\ \A q \in DOMAIN products \ {p} : products'[q] = products[q]
  BY SaveEffect
<1>3. /\ DOMAIN items' = DOMAIN items
      /\ \A o \in DOMAIN items :
           /\ items'[o].product = items[o].product
           /\ items[o].variant \in old \ kept => items'[o].variant = Lost
           /\ items[o].variant \notin old \ kept => items'[o] = items[o]
  BY SaveEffect
<1>4. /\ form.groups \subseteq groups /\ (old \ DOMAIN form.rows) \intersect InCarts(lines) = {}
      /\ UNCHANGED <<groups, lines>>
  BY DEF Save, CanSave
<1>5. \A v \in DOMAIN variants' \ new : variants'[v].product = variants[v].product
  <2>1. \A v \in kept : variants'[v].product = p /\ variants[v].product = p
    <3>1. \A v \in old : variants[v].product = p
      BY DEF VariantsOf
    <3>2. \A v \in kept : VariantOf(p, form.rows[v]).product = p
      BY DEF VariantOf
    <3> HIDE DEF p, form, old
    <3> QED  BY <1>1, <3>1, <3>2
  <2> HIDE DEF p, form, old
  <2> QED  BY <1>1, <2>1
<1>6. \A v \in new : variants'[v].product = p
  BY <1>1 DEF VariantOf
<1>7. ProductOf(form).groups = form.groups
  BY DEF ProductOf
<1>8. old \subseteq DOMAIN variants /\ new \intersect DOMAIN variants = {}
  BY DEF VariantsOf, TablesTyped
<1> HIDE DEF p, form, old
<1>9. \A line \in lines' : line.product \in DOMAIN products' /\ line.variant \in DOMAIN variants'
  BY <1>1, <1>2, <1>4 DEF ReferencesResolve, InCarts
<1>10. \A v \in DOMAIN variants' : variants'[v].product \in DOMAIN products'
  BY <1>1, <1>2, <1>5, <1>6, <1>8 DEF ReferencesResolve
<1>11. \A q \in DOMAIN products' : products'[q].groups \subseteq groups'
  BY <1>2, <1>4, <1>7 DEF ReferencesResolve
<1>12. ASSUME NEW o \in DOMAIN items'
       PROVE  /\ items'[o].product \in DOMAIN products'
              /\ items'[o].variant \in DOMAIN variants' \union {Lost}
  <2>1. items[o].product \in DOMAIN products /\ items[o].variant \in DOMAIN variants \union {Lost}
    BY <1>3 DEF ReferencesResolve
  <2>2. CASE items[o].variant \in old \ kept
    BY <1>2, <1>3, <2>1, <2>2
  <2>3. CASE items[o].variant \notin old \ kept
    BY <1>1, <1>2, <1>3, <1>8, <2>1, <2>3
  <2> QED  BY <2>2, <2>3
<1> QED
  BY <1>9, <1>10, <1>11, <1>12 DEF ReferencesResolve

LEMMA DeleteRowLinked ==
  ASSUME TablesTyped, ReferencesResolve, NEW c \in Calls, DeleteRow(c)
  PROVE  ReferencesResolve'
<1> DEFINE p == call[c].product
<1>1. UNCHANGED groups
  BY DEF DeleteRow
<1>2. /\ DOMAIN products' = DOMAIN products \ {p}
      /\ \A q \in DOMAIN products' : products'[q] = products[q]
      /\ DOMAIN variants' = DOMAIN variants \ VariantsOf(p)
      /\ \A v \in DOMAIN variants' : variants'[v] = variants[v] /\ variants[v].product # p
      /\ lines' \subseteq lines
      /\ \A line \in lines' : line.product # p /\ line.variant \notin VariantsOf(p)
      /\ DOMAIN items' = DOMAIN items
      /\ \A o \in DOMAIN items :
           /\ items'[o].product = items[o].product /\ items[o].product # p
           /\ items[o].variant \in VariantsOf(p) => items'[o].variant = Lost
           /\ items[o].variant \notin VariantsOf(p) => items'[o] = items[o]
  BY DeleteRowEffect
<1> HIDE DEF p
<1> QED  BY <1>1, <1>2 DEF ReferencesResolve

LEMMA RequestLinked ==
  ASSUME TablesTyped, ReferencesResolve, NEW c \in Calls, Request(c)
  PROVE  ReferencesResolve'
<1>1. ASSUME NEW p \in Products, NEW n \in 0..MaxStock, CreateProduct(c, p, n) PROVE ReferencesResolve'
  <2>1. PICK v \in Variants \ issued, gs \in {{}, groups} :
          /\ products' = Insert(products, p, NewProduct(gs))
          /\ variants' = Insert(variants, v, NewVariant(p, n))
    BY <1>1 DEF CreateProduct
  <2>2. p \notin DOMAIN products /\ v \notin DOMAIN variants /\ UNCHANGED <<groups, lines, items>>
    BY <1>1 DEF CreateProduct, TablesTyped
  <2>3. /\ DOMAIN products' = DOMAIN products \union {p} /\ products'[p] = NewProduct(gs)
        /\ \A q \in DOMAIN products : products'[q] = products[q]
    BY <2>1, <2>2 DEF Insert
  <2>4. /\ DOMAIN variants' = DOMAIN variants \union {v} /\ variants'[v] = NewVariant(p, n)
        /\ \A w \in DOMAIN variants : variants'[w] = variants[w]
    BY <2>1, <2>2 DEF Insert
  <2>5. NewProduct(gs).groups \subseteq groups /\ NewVariant(p, n).product = p
    BY DEF NewProduct, NewVariant
  <2> QED  BY <2>2, <2>3, <2>4, <2>5 DEF ReferencesResolve
<1>2. ASSUME NEW p \in Products, NEW active \in BOOLEAN, UpdateProductStatus(c, p, active) PROVE ReferencesResolve'
  BY <1>2 DEF UpdateProductStatus, TablesTyped, TypeOK, ProductRow, ReferencesResolve
<1>3. ASSUME NEW p \in Products, NEW g \in Groups, ManageCollectionProduct(c, p, g) PROVE ReferencesResolve'
  BY <1>3 DEF ManageCollectionProduct, TablesTyped, TypeOK, ProductRow, ReferencesResolve
<1>4. ASSUME NEW v \in Variants, NEW n \in {-1, MaxStock}, AdjustStock(c, v, n) PROVE ReferencesResolve'
  <2>1. n \in Int /\ v \in DOMAIN variants /\ variants[v].stock + n >= 0
        /\ variants' = [variants EXCEPT ![v].stock = @ + n]
        /\ UNCHANGED <<products, groups, lines, items>>
    BY <1>4, BoundsAssumption DEF AdjustStock
  <2>2. /\ DOMAIN variants' = DOMAIN variants
        /\ \A w \in DOMAIN variants : variants'[w].product = variants[w].product
    BY <2>1, StockMoves
  <2> QED  BY <2>1, <2>2 DEF ReferencesResolve
<1>5. ASSUME NEW g \in Groups, DeleteGroup(c, g) PROVE ReferencesResolve'
  BY <1>5 DEF DeleteGroup, TablesTyped, TypeOK, ProductRow, ReferencesResolve
<1>6. ASSUME NEW o \in Orders, RestoreOrderStock(c, o) PROVE ReferencesResolve'
  <2>1. UNCHANGED <<products, groups, lines>>
    BY <1>6 DEF RestoreOrderStock
  <2>2. \A p \in DOMAIN products : products'[p].groups \subseteq groups'
    BY <2>1 DEF ReferencesResolve
  <2> QED  BY <1>6, <2>1, <2>2, RestoreEffect, SameReferences
<1>7. ASSUME NEW o \in Orders, DeductOrderStock(c, o) PROVE ReferencesResolve'
  <2>1. /\ o \in DOMAIN items /\ lines' \subseteq lines /\ UNCHANGED <<products, groups>>
        /\ \E phase \in Phase : Take(o, phase)
    BY <1>7, DeductTakes DEF Take
  <2>2. \A p \in DOMAIN products : products'[p].groups \subseteq groups'
    BY <2>1 DEF ReferencesResolve
  <2> QED  BY <2>1, <2>2, TakeEffect, SameReferences
<1> QED  BY <1>1, <1>2, <1>3, <1>4, <1>5, <1>6, <1>7 DEF Request

LEMMA LinkedStep ==
  ASSUME ShopTyped, ReferencesResolve, [Next]_vars
  PROVE  ReferencesResolve'
<1>0. TablesTyped /\ CallsTyped
  BY DEF ShopTyped
<1>1. CASE Customer
  BY <1>0, <1>1, CustomerLinked
<1>2. ASSUME NEW c \in Calls, ProductForm(c) PROVE ReferencesResolve'
  <2>1. CASE Save(c)
    BY <1>0, <2>1, SaveLinked
  <2>2. CASE DeleteRow(c)
    BY <1>0, <2>2, DeleteRowLinked
  <2>3. CASE ~Save(c) /\ ~DeleteRow(c)
    <3>1. UNCHANGED <<products, variants, groups, lines, items>>
      BY <1>2, <2>3 DEF ProductForm, LoadForm, LoadBySlug, Fill, DeleteProduct, UpdateProduct,
         DeleteFile, Fail, tables
    <3> QED  BY <3>1 DEF ReferencesResolve
  <2> QED  BY <2>1, <2>2, <2>3
<1>3. ASSUME NEW c \in Calls, Request(c) PROVE ReferencesResolve'
  BY <1>0, <1>3, RequestLinked
<1>4. CASE ProductCache \/ UNCHANGED vars
  BY <1>4 DEF ProductCache, ReadProduct, Expire, vars, tables, ReferencesResolve
<1> QED  BY <1>1, <1>2, <1>3, <1>4 DEF Next

-----------------------------------------------------------------------------
(* Units *)

LEMMA HeldCounts ==
  ASSUME TypeOK, NEW v
  PROVE  IsFiniteSet(Held(v)) /\ Cardinality(Held(v)) \in Nat
<1>1. Held(v) \subseteq Orders
  BY DEF Held, TypeOK
<1> QED
  BY <1>1, IdsAssumption, FS_Subset, FS_CardinalityType

LEMMA HeldCountsNext ==
  ASSUME TypeOK', NEW v
  PROVE  IsFiniteSet(Held(v)') /\ Cardinality(Held(v)') \in Nat
<1>1. Held(v)' \subseteq Orders
  BY DEF Held, TypeOK
<1> QED
  BY <1>1, IdsAssumption, FS_Subset, FS_CardinalityType

(* Nothing is held of a variant that has no row.                           *)
LEMMA NoneHeld ==
  ASSUME ReferencesResolve, NEW v \in Variants, v \notin DOMAIN variants
  PROVE  Held(v) = {} /\ Cardinality(Held(v)) = 0
<1>1. Held(v) = {}
  BY IdsAssumption DEF ReferencesResolve, Held
<1> QED  BY <1>1, FS_EmptySet

LEMMA SameHeld ==
  ASSUME NEW v, DOMAIN items' = DOMAIN items,
         \A o \in DOMAIN items :
           (items'[o].variant = v /\ items'[o].phase = "held") <=>
           (items[o].variant = v /\ items[o].phase = "held")
  PROVE  Held(v)' = Held(v)
BY DEF Held

(* What a step has to show of each variant: what is promised stays within   *)
(* what is allowed, and if a form is open on it, nothing but what a         *)
(* cancellation gives back comes free.                                     *)
Covered(v) ==
  /\ Cardinality(Held(v)') + variants'[v].stock <= allowed'[v]
  /\ v \notin issued \/
       (v \in DOMAIN variants
          /\ (Exposed(v) => Cardinality(Held(v)') - allowed'[v]
                               <= Cardinality(Held(v)) - allowed[v]))

LEMMA BackedStays ==
  ASSUME ShopTyped, ShopTyped', NEW v \in DOMAIN variants', v \in issued, Exposed(v),
         Covered(v), NEW n \in Nat, v \in DOMAIN variants => Backed(v, n)
  PROVE  Backed(v, n)'
<1>1. v \in DOMAIN variants /\ v \in Variants /\ Cardinality(Held(v)) + n <= allowed[v]
  BY DEF Covered, Backed, ShopTyped, TablesTyped, TypeOK
<1>2. Cardinality(Held(v)') - allowed'[v] <= Cardinality(Held(v)) - allowed[v]
  BY DEF Covered
<1>3. allowed[v] \in Nat /\ allowed'[v] \in Nat
  BY <1>1 DEF ShopTyped, TablesTyped, TypeOK
<1>4. Cardinality(Held(v)) \in Nat /\ Cardinality(Held(v)') \in Nat
  BY HeldCounts, HeldCountsNext DEF ShopTyped, TablesTyped
<1>5. Cardinality(Held(v)') + n <= allowed'[v]
  BY <1>1, <1>2, <1>3, <1>4
<1> QED  BY <1>5 DEF Backed

LEMMA CopyStocks ==
  ASSUME CopiesTyped, NEW k \in DOMAIN cached, NEW v \in DOMAIN cached[k].form.rows
  PROVE  v \in issued /\ cached[k].form.rows[v].stock \in Nat
<1>1. cached[k].form.rows \in FormRows /\ v \in issued
  BY DEF CopiesTyped, CopyTyped, CopyRow, Form
<1> QED  BY <1>1, RowsTyped DEF FormLine

LEMMA StockKept ==
  ASSUME ShopTyped, ShopTyped', CopiesTyped, StockInv, NoNewCopy,
         \A c \in InFlight' : c \in InFlight /\ call'[c].seen = call[c].seen,
         \A v \in DOMAIN variants' : Covered(v)
  PROVE  StockInv'
<1>1. NoOversellButForms'
  BY DEF NoOversellButForms, Covered
<1>2. ASSUME NEW c \in InFlight', NEW v \in DOMAIN call'[c].seen \intersect DOMAIN variants'
      PROVE  Backed(v, call[c].seen[v])'
  <2>1. c \in InFlight /\ call'[c].seen = call[c].seen /\ v \in issued /\ Exposed(v)
    BY <1>2 DEF ShopTyped, CallsTyped, Exposed
  <2>2. v \in DOMAIN variants => Backed(v, call[c].seen[v])
    BY <1>2, <2>1 DEF StockInv, FormsBacked
  <2>3. call[c].seen[v] \in Nat
    BY <1>2, <2>1, CallTyped DEF ShopTyped, InFlight
  <2>4. Backed(v, call[c].seen[v])' <=> Cardinality(Held(v)') + call[c].seen[v] <= allowed'[v]
    BY <2>1 DEF Backed
  <2> DEFINE n == call[c].seen[v]
  <2>5. n \in Nat /\ (v \in DOMAIN variants => Backed(v, n))
    BY <2>2, <2>3
  <2> HIDE DEF n
  <2>6. Cardinality(Held(v)') + n <= allowed'[v]
    BY <1>2, <2>1, <2>5, BackedStays DEF Backed
  <2> QED  BY <2>4, <2>6 DEF n
<1>3. ASSUME NEW k \in DOMAIN cached', NEW v \in DOMAIN cached'[k].form.rows \intersect DOMAIN variants'
      PROVE  Backed(v, cached[k].form.rows[v].stock)'
  <2>1. k \in DOMAIN cached /\ cached'[k].form = cached[k].form /\ v \in DOMAIN cached[k].form.rows
    BY <1>3 DEF NoNewCopy
  <2>2. v \in issued /\ cached[k].form.rows[v].stock \in Nat /\ Exposed(v)
    BY <2>1, CopyStocks DEF Exposed
  <2> DEFINE n == cached[k].form.rows[v].stock
  <2>3. n \in Nat /\ (v \in DOMAIN variants => Backed(v, n))
    BY <2>1, <2>2 DEF StockInv, CopiesBacked
  <2>4. Backed(v, cached[k].form.rows[v].stock)' <=> Cardinality(Held(v)') + n <= allowed'[v]
    BY <2>1 DEF Backed
  <2> HIDE DEF n
  <2>5. Cardinality(Held(v)') + n <= allowed'[v]
    BY <1>3, <2>2, <2>3, BackedStays DEF Backed
  <2> QED  BY <2>4, <2>5
<1> QED  BY <1>1, <1>2, <1>3 DEF StockInv, FormsBacked, CopiesBacked

(* A variant whose numbers stay, or whose stock only goes down.             *)
LEMMA CoveredSame ==
  ASSUME ShopTyped, ShopTyped', StockInv, NEW v \in DOMAIN variants, v \in DOMAIN variants',
         Held(v)' = Held(v), allowed'[v] - variants'[v].stock >= allowed[v] - variants[v].stock,
         allowed'[v] >= allowed[v]
  PROVE  Covered(v)
<1>1. v \in Variants /\ variants[v].stock \in Nat /\ allowed[v] \in Nat
  BY DEF ShopTyped, TablesTyped, TypeOK, VariantRow
<1>2. variants'[v].stock \in Nat /\ allowed'[v] \in Nat
  BY <1>1 DEF ShopTyped, TablesTyped, TypeOK, VariantRow
<1>3. Cardinality(Held(v)) \in Nat
  BY HeldCounts DEF ShopTyped, TablesTyped
<1>4. Cardinality(Held(v)) + variants[v].stock <= allowed[v]
  BY DEF StockInv, NoOversellButForms
<1> QED  BY <1>1, <1>2, <1>3, <1>4 DEF Covered

(* A deduction holds a unit more of a stock that is one lower, or none more.*)
LEMMA TakeCovered ==
  ASSUME ShopTyped, ShopTyped', StockInv, NEW o \in DOMAIN items, items[o].phase # "held",
         NEW phase \in Phase, Take(o, phase), NEW v \in DOMAIN variants'
  PROVE  Covered(v)
<1> DEFINE u == items[o].variant
<1>0. TablesTyped
  BY DEF ShopTyped
<1>1. /\ u \in DOMAIN variants /\ u \in Variants /\ variants[u].stock \in Nat \ {0}
      /\ DOMAIN variants' = DOMAIN variants
      /\ \A w \in DOMAIN variants :
           variants'[w].stock = IF w = u THEN variants[u].stock - 1 ELSE variants[w].stock
      /\ DOMAIN items' = DOMAIN items
      /\ \A x \in DOMAIN items :
           /\ items'[x].variant = items[x].variant
           /\ items'[x].phase = IF x = o THEN phase ELSE items[x].phase
      /\ allowed' \in [Variants -> Nat]
      /\ allowed'[u] = allowed[u] + IF Exposed(u) THEN 1 ELSE 0
      /\ \A w \in Variants \ {u} : allowed'[w] = allowed[w]
  BY <1>0, TakeEffect
<1>2. v \in Variants /\ v \in DOMAIN variants /\ variants[v].stock \in Nat /\ allowed[v] \in Nat
  BY <1>0, <1>1 DEF TablesTyped, TypeOK, VariantRow
<1> HIDE DEF u
<1>3. CASE v # u
  <2>1. Held(v)' = Held(v)
    BY <1>1, <1>3, SameHeld DEF u
  <2>2. allowed'[v] = allowed[v] /\ variants'[v].stock = variants[v].stock
    BY <1>1, <1>2, <1>3
  <2> QED  BY <1>2, <2>1, <2>2, CoveredSame
<1>4. CASE v = u /\ phase = "held"
  <2>1. Held(v)' = Held(v) \union {o} /\ o \notin Held(v)
    BY <1>1, <1>4 DEF Held, u
  <2>2. IsFiniteSet(Held(v)) /\ Cardinality(Held(v)) \in Nat
    BY <1>0, HeldCounts DEF TablesTyped
  <2>3. Cardinality(Held(v)') = Cardinality(Held(v)) + 1
    BY <2>1, <2>2, FS_AddElement
  <2>4. Cardinality(Held(v)) + variants[v].stock <= allowed[v]
    BY <1>2 DEF StockInv, NoOversellButForms
  <2> QED  BY <1>1, <1>2, <1>4, <2>2, <2>3, <2>4 DEF Covered
<1>5. CASE v = u /\ phase # "held"
  <2>1. Held(v)' = Held(v)
    BY <1>1, <1>5 DEF Held, u
  <2>2. /\ allowed'[v] - variants'[v].stock >= allowed[v] - variants[v].stock
        /\ allowed'[v] >= allowed[v]
    BY <1>1, <1>2, <1>5
  <2> QED  BY <1>2, <2>1, <2>2, CoveredSame
<1> QED  BY <1>3, <1>4, <1>5

(* A cancellation gives back what was held, or is allowed a unit.           *)
LEMMA RestoreCovered ==
  ASSUME ShopTyped, ShopTyped', StockInv, NEW c \in Calls, NEW o \in Orders,
         RestoreOrderStock(c, o), NEW v \in DOMAIN variants'
  PROVE  Covered(v)
<1> DEFINE u == items[o].variant
<1>0. TablesTyped
  BY DEF ShopTyped
<1>1. /\ o \in DOMAIN items /\ u \in DOMAIN variants /\ u \in Variants
      /\ items[o].phase \in {"inserted", "held", "unbacked"}
      /\ DOMAIN variants' = DOMAIN variants
      /\ \A w \in DOMAIN variants :
           variants'[w].stock = IF w = u THEN variants[u].stock + 1 ELSE variants[w].stock
      /\ DOMAIN items' = DOMAIN items
      /\ \A x \in DOMAIN items :
           /\ items'[x].variant = items[x].variant
           /\ items'[x].phase = IF x = o THEN Returned(o) ELSE items[x].phase
      /\ allowed'[u] = allowed[u] + IF items[o].phase = "held" THEN 0 ELSE 1
      /\ \A w \in Variants \ {u} : allowed'[w] = allowed[w]
  BY <1>0, RestoreEffect
<1>2. v \in Variants /\ v \in DOMAIN variants /\ variants[v].stock \in Nat /\ allowed[v] \in Nat
  BY <1>0, <1>1 DEF TablesTyped, TypeOK, VariantRow
<1> HIDE DEF u
<1>3. CASE v # u
  <2>1. Held(v)' = Held(v)
    BY <1>1, <1>3, SameHeld DEF u
  <2>2. allowed'[v] = allowed[v] /\ variants'[v].stock = variants[v].stock
    BY <1>1, <1>2, <1>3
  <2> QED  BY <1>2, <2>1, <2>2, CoveredSame
<1>4. CASE v = u /\ items[o].phase # "held"
  <2>1. Held(v)' = Held(v)
    BY <1>1, <1>4 DEF Held, Returned, u
  <2>2. allowed'[v] = allowed[v] + 1 /\ variants'[v].stock = variants[v].stock + 1
    BY <1>1, <1>2, <1>4
  <2> QED  BY <1>2, <2>1, <2>2, CoveredSame
<1>5. CASE v = u /\ items[o].phase = "held"
  <2>1. Held(v)' = Held(v) \ {o} /\ o \in Held(v)
    BY <1>1, <1>5 DEF Held, Returned, u
  <2>2. IsFiniteSet(Held(v)) /\ Cardinality(Held(v)) \in Nat
    BY <1>0, HeldCounts DEF TablesTyped
  <2>3. Cardinality(Held(v)') = Cardinality(Held(v)) - 1
    BY <2>1, <2>2, FS_RemoveElement
  <2>4. Cardinality(Held(v)) + variants[v].stock <= allowed[v]
    BY <1>2 DEF StockInv, NoOversellButForms
  <2> QED  BY <1>1, <1>2, <1>5, <2>2, <2>3, <2>4 DEF Covered
<1> QED  BY <1>1, <1>3, <1>4, <1>5

(* Where no row of a variant and nothing an order holds changes.            *)
LEMMA AllCoveredSame ==
  ASSUME ShopTyped, ShopTyped', StockInv, DOMAIN variants' \subseteq DOMAIN variants,
         \A v \in DOMAIN variants' : variants'[v] = variants[v],
         \A v \in Variants : v \in DOMAIN variants' => Held(v)' = Held(v), allowed' = allowed
  PROVE  \A v \in DOMAIN variants' : Covered(v)
<1>1. ASSUME NEW v \in DOMAIN variants' PROVE Covered(v)
  <2>1. v \in DOMAIN variants /\ v \in Variants /\ variants[v].stock \in Nat /\ allowed[v] \in Nat
    BY <1>1 DEF ShopTyped, TablesTyped, TypeOK, VariantRow
  <2>2. /\ Held(v)' = Held(v)
        /\ allowed'[v] - variants'[v].stock >= allowed[v] - variants[v].stock
        /\ allowed'[v] >= allowed[v]
    BY <1>1, <2>1
  <2> QED  BY <1>1, <2>1, <2>2, CoveredSame
<1> QED  BY <1>1

LEMMA CustomerStock ==
  ASSUME ShopTyped, ShopTyped', CopiesTyped, ReferencesResolve, StockInv, Customer
  PROVE  StockInv'
<1>0. NoNewCopy /\ \A c \in InFlight' : c \in InFlight /\ call'[c].seen = call[c].seen
  BY CustomerTyped DEF ShopTyped, InFlight, NoNewCopy
<1>1. ASSUME UNCHANGED <<variants, items, allowed>> PROVE StockInv'
  <2>1. \A w \in Variants : Held(w)' = Held(w)
    BY <1>1 DEF Held
  <2> QED  BY <1>0, <1>1, <2>1, AllCoveredSame, StockKept
<1>2. ASSUME NEW o \in Orders, NEW line \in lines, PlaceOrder(o, line) PROVE StockInv'
  <2> DEFINE item == [product |-> line.product, variant |-> line.variant, phase |-> "inserted"]
  <2>1. items' = Insert(items, o, item) /\ o \notin DOMAIN items /\ UNCHANGED <<variants, allowed>>
    BY <1>2 DEF PlaceOrder
  <2>2. /\ DOMAIN items' = DOMAIN items \union {o} /\ items'[o].phase = "inserted"
        /\ \A x \in DOMAIN items : items'[x] = items[x]
    BY <2>1 DEF Insert
  <2>3. \A w \in Variants : Held(w)' = Held(w)
    BY <2>1, <2>2 DEF Held
  <2> QED  BY <1>0, <2>1, <2>3, AllCoveredSame, StockKept
<1>3. ASSUME NEW o \in Orders, Deduct(o) PROVE StockInv'
  <2>1. o \in DOMAIN items /\ items[o].phase # "held" /\ \E phase \in Phase : Take(o, phase)
    BY <1>3, DeductTakes
  <2> QED  BY <1>0, <2>1, TakeCovered, StockKept
<1>4. ASSUME NEW o \in Orders, RefuseCheckout(o) PROVE StockInv'
  <2>1. PICK phase \in {"released", "unbacked"} : items' = [items EXCEPT ![o].phase = phase]
    BY <1>4 DEF RefuseCheckout
  <2>2. o \in DOMAIN items /\ items[o].phase # "held" /\ phase \in Phase
        /\ UNCHANGED <<variants, allowed>>
    BY <1>4 DEF RefuseCheckout, Pending, Phase
  <2>3. \A w \in Variants : Held(w)' = Held(w)
    BY <2>1, <2>2, PhaseMoves DEF Held, ShopTyped
  <2> QED  BY <1>0, <2>2, <2>3, AllCoveredSame, StockKept
<1> QED  BY <1>1, <1>2, <1>3, <1>4 DEF Customer, AddToCart, RemoveFromCart

LEMMA DoneQuiet ==
  ASSUME ShopTyped, NEW c \in Calls, Done(c)
  PROVE  \A d \in InFlight' : d \in InFlight /\ call'[d] = call[d]
BY DoneEffect DEF ShopTyped, CallsTyped

(* Saving undoes what moved under the form: that much had been allowed.     *)
LEMMA SaveStock ==
  ASSUME ShopTyped, ShopTyped', CopiesTyped, ReferencesResolve, StockInv, NEW c \in Calls, Save(c)
  PROVE  StockInv'
<1> DEFINE p == call[c].product
           form == call[c].form
           old == VariantsOf(p)
           kept == old \intersect DOMAIN form.rows
<1>0. TablesTyped /\ CallsTyped /\ c \in InFlight /\ Done(c)
  BY DEF ShopTyped, Save, InFlight, At, Open
<1>1. PICK new \in SUBSET (Variants \ issued) :
        /\ DOMAIN variants' = (DOMAIN variants \ old) \union kept \union new
        /\ \A v \in kept : variants'[v] = VariantOf(p, form.rows[v])
        /\ \A v \in DOMAIN variants \ old : variants'[v] = variants[v]
        /\ \A v \in kept : allowed'[v] = allowed[v] + Gain(form, call[c].seen, v)
        /\ \A v \in new : allowed'[v] = variants'[v].stock
        /\ \A v \in Variants \ (kept \union new) : allowed'[v] = allowed[v]
  BY <1>0, SaveEffect
<1>2. /\ DOMAIN items' = DOMAIN items
      /\ \A o \in DOMAIN items :
           /\ items'[o].phase = items[o].phase
           /\ items[o].variant \in old \ kept => items'[o].variant = Lost
           /\ items[o].variant \notin old \ kept => items'[o] = items[o]
  BY <1>0, SaveEffect
<1>3. NoNewCopy /\ \A d \in InFlight' : d \in InFlight /\ call'[d].seen = call[d].seen
  <2>1. NoNewCopy
    BY DEF Save, Restrict, NoNewCopy
  <2> QED  BY <1>0, <2>1, DoneQuiet
<1>4. /\ old \subseteq DOMAIN variants /\ DOMAIN variants \subseteq Variants
      /\ DOMAIN variants \subseteq issued
  BY <1>0 DEF VariantsOf, TablesTyped, TypeOK
<1>5. \A v \in kept : /\ v \in DOMAIN form.rows /\ v \in DOMAIN call[c].seen
                     /\ VariantOf(p, form.rows[v]).stock = form.rows[v].stock
  BY <1>0, <1>4, IdsAssumption DEF CallsTyped, RowsSeen, VariantOf
<1>6. \A v \in kept : /\ Gain(form, call[c].seen, v) \in Nat
                     /\ call[c].seen[v] + Gain(form, call[c].seen, v) >= form.rows[v].stock
                     /\ form.rows[v].stock \in Nat /\ call[c].seen[v] \in Nat
  BY <1>0, <1>5, GainTyped, CallTyped
<1>7. \A v \in Variants : v \notin old \ kept => Held(v)' = Held(v)
  <2>1. ASSUME NEW v \in Variants, v \notin old \ kept PROVE Held(v)' = Held(v)
    <3>1. v # Lost
      BY IdsAssumption
    <3> HIDE DEF old, kept
    <3>2. \A o \in DOMAIN items : (items'[o].variant = v /\ items'[o].phase = "held") <=>
                                 (items[o].variant = v /\ items[o].phase = "held")
      BY <1>2, <2>1, <3>1
    <3> QED  BY <1>2, <3>2, SameHeld
  <2> QED  BY <2>1
<1>8. ASSUME NEW v \in DOMAIN variants' PROVE Covered(v)
  <2>1. v \in Variants /\ variants'[v].stock \in Nat /\ allowed'[v] \in Nat
    BY DEF ShopTyped, TablesTyped, TypeOK, VariantRow
  <2>2. CASE v \in new
    <3>1. v \notin issued /\ v \notin DOMAIN variants /\ v \notin old
      BY <1>4, <2>2
    <3>2. Cardinality(Held(v)') = 0
      BY <1>7, <2>1, <3>1, NoneHeld
    <3> QED  BY <1>1, <2>1, <2>2, <3>1, <3>2 DEF Covered
  <2>3. CASE v \in kept
    <3>1. Held(v)' = Held(v) /\ v \in DOMAIN variants
      BY <1>4, <1>7, <2>1, <2>3
    <3>2. Cardinality(Held(v)) + call[c].seen[v] <= allowed[v]
      BY <1>0, <1>5, <2>3, <3>1 DEF StockInv, FormsBacked, Backed
    <3>3. Cardinality(Held(v)) \in Nat /\ allowed[v] \in Nat
      BY <1>0, <2>1, HeldCounts DEF TablesTyped, TypeOK
    <3>4. allowed'[v] = allowed[v] + Gain(form, call[c].seen, v)
          /\ variants'[v].stock = form.rows[v].stock
      BY <1>1, <1>5, <2>3
    <3> HIDE DEF p, form, old, kept
    <3> QED  BY <1>6, <2>3, <3>1, <3>2, <3>3, <3>4 DEF Covered
  <2>4. CASE v \notin new /\ v \notin kept
    <3>1. v \in DOMAIN variants /\ v \notin old /\ variants'[v] = variants[v]
          /\ allowed'[v] = allowed[v]
      BY <1>1, <2>1, <2>4
    <3>2. Held(v)' = Held(v)
      BY <1>7, <2>1, <3>1
    <3>3. variants[v].stock \in Nat /\ allowed[v] \in Nat
      BY <1>0, <2>1, <3>1 DEF TablesTyped, TypeOK, VariantRow
    <3>4. /\ allowed'[v] - variants'[v].stock >= allowed[v] - variants[v].stock
          /\ allowed'[v] >= allowed[v]
      BY <3>1, <3>3
    <3> QED  BY <3>1, <3>2, <3>4, CoveredSame
  <2> QED  BY <2>2, <2>3, <2>4
<1> QED  BY <1>3, <1>8, StockKept

LEMMA RequestStock ==
  ASSUME ShopTyped, ShopTyped', CopiesTyped, ReferencesResolve, StockInv, NEW c \in Calls, Request(c)
  PROVE  StockInv'
<1>0. /\ TablesTyped /\ NoNewCopy
      /\ \A d \in InFlight' : d \in InFlight /\ call'[d].seen = call[d].seen
  <2>1. UNCHANGED cached
    BY DEF Request, CreateProduct, UpdateProductStatus, ManageCollectionProduct, AdjustStock,
           DeleteGroup, RestoreOrderStock, DeductOrderStock, Take
  <2> QED  BY <2>1, RequestTyped, DoneQuiet DEF ShopTyped, NoNewCopy
<1>1. ASSUME NEW p \in Products, NEW n \in 0..MaxStock, CreateProduct(c, p, n) PROVE StockInv'
  <2>1. PICK v \in Variants \ issued : variants' = Insert(variants, v, NewVariant(p, n)) /\ Allow(v, n)
    BY <1>1 DEF CreateProduct
  <2>2. UNCHANGED items /\ n \in Nat /\ v \notin DOMAIN variants
    BY <1>0, <1>1, BoundsAssumption DEF CreateProduct, TablesTyped
  <2>3. \A w \in Variants : Held(w)' = Held(w)
    BY <2>2 DEF Held
  <2>4. allowed'[v] = allowed[v] + n /\ \A w \in Variants \ {v} : allowed'[w] = allowed[w]
    BY <1>0, <2>1, <2>2, AllowTyped
  <2>5. /\ DOMAIN variants' = DOMAIN variants \union {v} /\ variants'[v].stock = n
        /\ \A w \in DOMAIN variants : variants'[w] = variants[w]
    BY <2>1, <2>2 DEF Insert, NewVariant
  <2>6. ASSUME NEW w \in DOMAIN variants' PROVE Covered(w)
    <3>1. CASE w = v
      <4>1. Cardinality(Held(w)') = 0
        BY <2>2, <2>3, <3>1, NoneHeld
      <4>2. allowed[w] \in Nat
        BY <1>0, <3>1 DEF TablesTyped, TypeOK
      <4> QED  BY <2>2, <2>4, <2>5, <3>1, <4>1, <4>2 DEF Covered
    <3>2. CASE w # v
      <4>1. w \in DOMAIN variants /\ w \in Variants
        BY <1>0, <2>5, <2>6, <3>2 DEF TablesTyped, TypeOK
      <4>2. variants[w].stock \in Nat /\ allowed[w] \in Nat
        BY <1>0, <4>1 DEF TablesTyped, TypeOK, VariantRow
      <4>3. /\ allowed'[w] - variants'[w].stock >= allowed[w] - variants[w].stock
            /\ allowed'[w] >= allowed[w]
        BY <2>4, <2>5, <3>2, <4>1, <4>2
      <4> QED  BY <2>3, <4>1, <4>3, CoveredSame
    <3> QED  BY <3>1, <3>2
  <2> QED  BY <1>0, <2>6, StockKept
<1>2. ASSUME UNCHANGED <<variants, items, allowed>> PROVE StockInv'
  <2>1. \A w \in Variants : Held(w)' = Held(w)
    BY <1>2 DEF Held
  <2> QED  BY <1>0, <1>2, <2>1, AllCoveredSame, StockKept
<1>3. ASSUME NEW v \in Variants, NEW n \in {-1, MaxStock}, AdjustStock(c, v, n) PROVE StockInv'
  <2>1. /\ n \in Int /\ v \in DOMAIN variants /\ variants[v].stock + n >= 0
        /\ variants' = [variants EXCEPT ![v].stock = @ + n] /\ UNCHANGED items
        /\ Allow(v, IF n >= 0 THEN n ELSE IF Exposed(v) THEN -n ELSE 0)
    BY <1>3, BoundsAssumption DEF AdjustStock
  <2>2. \A w \in Variants : Held(w)' = Held(w)
    BY <2>1 DEF Held
  <2>3. /\ DOMAIN variants' = DOMAIN variants
        /\ \A w \in DOMAIN variants :
             variants'[w].stock = IF w = v THEN variants[v].stock + n ELSE variants[w].stock
    BY <1>0, <2>1, StockMoves
  <2>4. (IF n >= 0 THEN n ELSE IF Exposed(v) THEN -n ELSE 0) \in Nat
    BY <2>1
  <2>5. /\ allowed'[v] = allowed[v] + IF n >= 0 THEN n ELSE IF Exposed(v) THEN -n ELSE 0
        /\ \A w \in Variants \ {v} : allowed'[w] = allowed[w]
    BY <1>0, <2>1, <2>4, AllowTyped
  <2>6. ASSUME NEW w \in DOMAIN variants' PROVE Covered(w)
    <3>1. w \in DOMAIN variants /\ w \in Variants /\ variants[w].stock \in Nat /\ allowed[w] \in Nat
      BY <1>0, <2>3 DEF TablesTyped, TypeOK, VariantRow
    <3>2. /\ allowed'[w] - variants'[w].stock >= allowed[w] - variants[w].stock
          /\ allowed'[w] >= allowed[w]
      BY <2>1, <2>3, <2>4, <2>5, <3>1
    <3> QED  BY <2>2, <3>1, <3>2, CoveredSame
  <2> QED  BY <1>0, <2>6, StockKept
<1>4. ASSUME NEW o \in Orders, RestoreOrderStock(c, o) PROVE StockInv'
  BY <1>0, <1>4, RestoreCovered, StockKept
<1>5. ASSUME NEW o \in Orders, DeductOrderStock(c, o) PROVE StockInv'
  <2>1. o \in DOMAIN items /\ items[o].phase # "held" /\ \E phase \in Phase : Take(o, phase)
    BY <1>5, DeductTakes
  <2> QED  BY <1>0, <2>1, TakeCovered, StockKept
<1> QED
  BY <1>1, <1>2, <1>3, <1>4, <1>5
     DEF Request, UpdateProductStatus, ManageCollectionProduct, DeleteGroup

(* A request that begins, backed as what it is filled from.                 *)
LEMMA BeginStock ==
  ASSUME ShopTyped, ShopTyped', StockInv, NEW c \in Calls,
         UNCHANGED <<variants, items, allowed, cached>>,
         \A d \in Calls \ {c} : call'[d] = call[d],
         \A v \in DOMAIN call'[c].seen \intersect DOMAIN variants : Backed(v, call'[c].seen[v])
  PROVE  StockInv'
<1>1. \A v : Held(v)' = Held(v)
  BY DEF Held
<1>2. \A v, n : Cardinality(Held(v)) + n <= allowed[v] <=> Cardinality(Held(v)') + n <= allowed'[v]
  BY <1>1
<1>3. NoOversellButForms'
  BY <1>1 DEF StockInv, NoOversellButForms
<1>4. ASSUME NEW d \in InFlight', NEW v \in DOMAIN call'[d].seen \intersect DOMAIN variants'
      PROVE  Backed(v, call[d].seen[v])'
  <2>1. CASE d = c
    BY <1>2, <1>4, <2>1 DEF Backed
  <2>2. CASE d # c
    <3>1. d \in InFlight /\ call'[d] = call[d]
      BY <1>4, <2>2 DEF InFlight
    <3> QED  BY <1>2, <1>4, <3>1 DEF StockInv, FormsBacked, Backed
  <2> QED  BY <2>1, <2>2
<1>5. CopiesBacked'
  BY <1>1 DEF StockInv, CopiesBacked, Backed
<1> QED  BY <1>3, <1>4, <1>5 DEF StockInv, FormsBacked

LEMMA FormStock ==
  ASSUME ShopTyped, ShopTyped', CopiesTyped, ReferencesResolve, StockInv, NEW c \in Calls,
         ProductForm(c)
  PROVE  StockInv'
<1>0. TablesTyped /\ CallsTyped
  BY DEF ShopTyped
<1>1. ASSUME NEW p \in Products, LoadForm(c, p) PROVE StockInv'
  <2>1. /\ UNCHANGED <<tables, allowed, excused>> /\ \A d \in Calls \ {c} : call'[d] = call[d]
        /\ DOMAIN call'[c].seen = DOMAIN FormOf(p).rows
        /\ \A v \in DOMAIN FormOf(p).rows : call'[c].seen[v] = FormOf(p).rows[v].stock
    BY <1>0, <1>1, LoadFills, FillEffect
  <2>2. /\ DOMAIN FormOf(p).rows \subseteq DOMAIN variants
        /\ \A v \in DOMAIN FormOf(p).rows : FormOf(p).rows[v].stock = variants[v].stock
    BY <1>0, <1>1, LoadFills, FormTyped DEF VariantsOf
  <2>3. \A v \in DOMAIN call'[c].seen : Backed(v, call'[c].seen[v])
    BY <2>1, <2>2 DEF StockInv, NoOversellButForms, Backed
  <2> QED  BY <2>1, <2>3, BeginStock DEF tables
<1>9. ASSUME NEW k \in Copies, LoadBySlug(c, k) PROVE StockInv'
  <2>1. /\ UNCHANGED <<tables, allowed, excused>> /\ \A d \in Calls \ {c} : call'[d] = call[d]
        /\ DOMAIN call'[c].seen = DOMAIN cached[k].form.rows
        /\ \A v \in DOMAIN cached[k].form.rows : call'[c].seen[v] = cached[k].form.rows[v].stock
    BY <1>0, <1>9, SlugFills, FillEffect
  <2>2. k \in DOMAIN cached
    BY <1>9, SlugFills
  <2>3. \A v \in DOMAIN call'[c].seen \intersect DOMAIN variants : Backed(v, call'[c].seen[v])
    BY <2>1, <2>2 DEF StockInv, CopiesBacked
  <2> QED  BY <2>1, <2>3, BeginStock DEF tables
<1>2. ASSUME NEW p \in Products, DeleteProduct(c, p) PROVE StockInv'
  <2> DEFINE r == [Idle EXCEPT !.pc = "images", !.product = p, !.deletes = TRUE,
                               !.doomed = ImagesOf(p)]
  <2>1. call' = [call EXCEPT ![c] = r] /\ UNCHANGED <<variants, items, allowed, cached>>
    BY <1>2 DEF DeleteProduct, tables
  <2>2. DOMAIN r.seen = {}
    BY IdleTyped DEF CallRow
  <2> HIDE DEF r
  <2>3. \A d \in Calls : call'[d] = IF d = c THEN r ELSE call[d]
    BY <1>0, <2>1 DEF CallsTyped
  <2> QED  BY <2>1, <2>2, <2>3, BeginStock
<1>3. ASSUME UNCHANGED <<variants, items, allowed>>, NoNewCopy,
             \A d \in InFlight' : d \in InFlight /\ call'[d].seen = call[d].seen
      PROVE  StockInv'
  <2>1. \A w \in Variants : Held(w)' = Held(w)
    BY <1>3 DEF Held
  <2> QED  BY <1>3, <2>1, AllCoveredSame, StockKept
<1>4. CASE UpdateProduct(c)
  <2>1. \A d \in InFlight' : d \in InFlight /\ call'[d].seen = call[d].seen
    BY <1>0, <1>4, CallTyped DEF UpdateProduct, InFlight, At, Open, CallsTyped, CallRow
  <2> QED  BY <1>3, <1>4, <2>1 DEF UpdateProduct, tables, NoNewCopy
<1>5. ASSUME NEW i \in Images, DeleteFile(c, i) PROVE StockInv'
  <2>1. \A d \in InFlight' : d \in InFlight /\ call'[d].seen = call[d].seen
    BY <1>0, <1>5, CallTyped DEF DeleteFile, InFlight, CallRow
  <2>2. NoNewCopy
    BY <1>5, FileMarks DEF NoNewCopy
  <2> QED  BY <1>3, <1>5, <2>1, <2>2 DEF DeleteFile
<1>6. CASE Save(c)
  BY <1>6, SaveStock
<1>7. CASE DeleteRow(c)
  <2> DEFINE p == call[c].product
  <2>1. Done(c) /\ UNCHANGED allowed /\ NoNewCopy
    BY <1>7 DEF DeleteRow, NoNewCopy
  <2>2. /\ DOMAIN variants' = DOMAIN variants \ VariantsOf(p)
        /\ \A v \in DOMAIN variants' : variants'[v] = variants[v]
        /\ DOMAIN items' = DOMAIN items
        /\ \A o \in DOMAIN items :
             /\ items[o].variant \in VariantsOf(p) => items'[o].variant = Lost
             /\ items[o].variant \notin VariantsOf(p) => items'[o] = items[o]
    BY <1>0, <1>7, DeleteRowEffect
  <2> HIDE DEF p
  <2>3. ASSUME NEW w \in Variants, w \in DOMAIN variants' PROVE Held(w)' = Held(w)
    <3>1. w # Lost /\ w \notin VariantsOf(p)
      BY <2>2, <2>3, IdsAssumption
    <3>2. \A o \in DOMAIN items : (items'[o].variant = w /\ items'[o].phase = "held") <=>
                                 (items[o].variant = w /\ items[o].phase = "held")
      BY <2>2, <3>1
    <3> QED  BY <2>2, <3>2, SameHeld
  <2>4. \A v \in DOMAIN variants' : Covered(v)
    BY <2>1, <2>2, <2>3, AllCoveredSame
  <2>5. \A d \in InFlight' : d \in InFlight /\ call'[d].seen = call[d].seen
    BY <2>1, DoneQuiet
  <2> QED  BY <2>1, <2>4, <2>5, StockKept
<1>8. CASE Fail(c)
  <2>1. \A d \in InFlight' : d \in InFlight /\ call'[d].seen = call[d].seen
    BY <1>8, DoneQuiet DEF Fail
  <2> QED  BY <1>3, <1>8, <2>1 DEF Fail, tables, NoNewCopy
<1> QED  BY <1>1, <1>2, <1>4, <1>5, <1>6, <1>7, <1>8, <1>9 DEF ProductForm

(* A copy shows the stock there is.                                         *)
LEMMA CacheStock ==
  ASSUME ShopTyped, ShopTyped', CopiesTyped, StockInv, ProductCache
  PROVE  StockInv'
<1>0. TablesTyped /\ CallsTyped /\ UNCHANGED <<variants, items, allowed, call>>
  BY DEF ShopTyped, ProductCache, ReadProduct, Expire
<1>1. /\ \A v : Held(v)' = Held(v)
      /\ InFlight' = InFlight
  BY <1>0 DEF Held, InFlight
<1>2. NoOversellButForms' /\ FormsBacked'
  BY <1>0, <1>1 DEF StockInv, NoOversellButForms, FormsBacked, Backed
<1>3. ASSUME NEW k \in Copies, Expire(k) PROVE CopiesBacked'
  BY <1>0, <1>1, <1>3 DEF Expire, Restrict, StockInv, CopiesBacked, Backed
<1>4. ASSUME NEW k \in Copies, NEW p \in Products, ReadProduct(k, p) PROVE CopiesBacked'
  <2>1. /\ DOMAIN cached' = DOMAIN cached \union {k} /\ cached'[k].form = FormOf(p)
        /\ \A j \in DOMAIN cached : cached'[j] = cached[j]
        /\ p \in DOMAIN products
    BY <1>0, <1>4, ReadEffect
  <2>2. /\ DOMAIN FormOf(p).rows \subseteq DOMAIN variants
        /\ \A v \in DOMAIN FormOf(p).rows : FormOf(p).rows[v].stock = variants[v].stock
    BY <1>0, <2>1, FormTyped DEF VariantsOf
  <2>3. \A v \in DOMAIN FormOf(p).rows : Backed(v, FormOf(p).rows[v].stock)
    BY <2>2 DEF StockInv, NoOversellButForms, Backed
  <2>4. \A j \in DOMAIN cached' : \A v \in DOMAIN cached'[j].form.rows \intersect DOMAIN variants :
          Backed(v, cached'[j].form.rows[v].stock)
    BY <2>1, <2>3 DEF StockInv, CopiesBacked
  <2> QED  BY <1>0, <1>1, <2>4 DEF CopiesBacked, Backed
<1> QED  BY <1>2, <1>3, <1>4 DEF ProductCache, StockInv

LEMMA StockStep ==
  ASSUME ShopTyped, ShopTyped', CopiesTyped, ReferencesResolve, StockInv, [Next]_vars
  PROVE  StockInv'
<1>1. CASE UNCHANGED vars
  BY <1>1 DEF vars, tables, StockInv, NoOversellButForms, FormsBacked, CopiesBacked, Backed, Held,
              InFlight
<1> QED  BY <1>1, CustomerStock, CacheStock, FormStock, RequestStock DEF Next
-----------------------------------------------------------------------------
(* Images *)

LEMMA NamedRows ==
  ASSUME NEW i
  PROVE  i \in Named <=> \/ \E p \in DOMAIN products : i \in products[p].images
                         \/ \E v \in DOMAIN variants : i \in variants[v].images
BY DEF Named

(* Rows that lose images, and calls that end and lost none a row names.     *)
LEMMA ImagesShrink ==
  ASSUME ImagesInv, UNCHANGED files, excused \subseteq excused',
         \A p \in DOMAIN products' : \A i \in products'[p].images :
           p \in DOMAIN products /\ i \in products[p].images,
         \A v \in DOMAIN variants' : \A i \in variants'[v].images :
           /\ v \in DOMAIN variants /\ i \in variants[v].images
           /\ variants'[v].product = variants[v].product,
         \A d \in InFlight' : d \in InFlight /\ call'[d] = call[d],
         \A d \in InFlight \ InFlight' : \A i \in call[d].removed \intersect Named' : i \in excused'
  PROVE  ImagesInv'
<1>1. RowsOwned'
  BY DEF ImagesInv, RowsOwned
<1>2. \A d \in InFlight' : (CallOwned(call[d]) /\ FormExplained(call[d]) /\ GalleryKept(call[d]))'
  BY DEF ImagesInv, CallOwned, FormExplained, GalleryKept, FormImages
<1>3. ASSUME NEW i \in Named' \ files'
      PROVE  i \in excused' \/ \E d \in InFlight' : i \in call'[d].removed
  <2>1. \/ \E p \in DOMAIN products' : i \in products'[p].images
        \/ \E v \in DOMAIN variants' : i \in variants'[v].images
    BY <1>3 DEF Named
  <2>2. i \in Named \ files
    BY <1>3, <2>1, NamedRows
  <2>3. i \in excused \/ \E d \in InFlight : i \in call[d].removed
    BY <2>2 DEF ImagesInv, MissingExplained
  <2>4. ASSUME NEW d \in InFlight, i \in call[d].removed
        PROVE  i \in excused' \/ \E e \in InFlight' : i \in call'[e].removed
    <3>1. CASE d \in InFlight'
      <4>1. i \in call'[d].removed
        BY <2>4, <3>1
      <4> QED  BY <3>1, <4>1
    <3>2. CASE d \notin InFlight'
      BY <1>3, <2>4, <3>2
    <3> QED  BY <3>1, <3>2
  <2> QED  BY <2>3, <2>4
<1> QED  BY <1>1, <1>2, <1>3 DEF ImagesInv, MissingExplained

(* Nobody's form, and no row, changes hands: one call moves, and owns,      *)
(* explains and keeps what it must.                                        *)
LEMMA OneCallMoves ==
  ASSUME ImagesInv, NEW c \in Calls, UNCHANGED <<products, variants, files, excused>>,
         \A d \in InFlight' : d # c => d \in InFlight /\ call'[d] = call[d],
         (CallOwned(call[c]) /\ FormExplained(call[c]) /\ GalleryKept(call[c]))',
         \A d \in InFlight : d \in InFlight' /\ call[d].removed \subseteq call'[d].removed
  PROVE  ImagesInv'
<1>1. RowsOwned'
  BY DEF ImagesInv, RowsOwned
<1>2. \A d \in InFlight' : (CallOwned(call[d]) /\ FormExplained(call[d]) /\ GalleryKept(call[d]))'
  <2>1. ASSUME NEW d \in InFlight', d # c
        PROVE  (CallOwned(call[d]) /\ FormExplained(call[d]) /\ GalleryKept(call[d]))'
    BY <2>1 DEF ImagesInv, CallOwned, FormExplained, GalleryKept, FormImages
  <2> QED  BY <2>1
<1>3. MissingExplained'
  <2>1. Named' = Named
    BY DEF Named
  <2> QED  BY <2>1 DEF ImagesInv, MissingExplained
<1> QED  BY <1>1, <1>2, <1>3 DEF ImagesInv

(* The images of a product are its own.                                    *)
LEMMA ImagesOwned ==
  ASSUME RowsOwned, NEW p \in DOMAIN products
  PROVE  (\A i \in ImagesOf(p) : Owner[i] = p) /\ ImagesOf(p) \subseteq Named
<1>1. \A v \in VariantsOf(p) : v \in DOMAIN variants /\ variants[v].product = p
  BY DEF VariantsOf
<1> QED  BY <1>1 DEF ImagesOf, RowsOwned, Named

LEMMA FillImages ==
  ASSUME ShopTyped, ImagesInv, NEW c \in Calls, NEW p \in Products, NEW form \in Form,
         DOMAIN form.rows \subseteq Variants \intersect issued, NEW overlap \in SUBSET Images,
         Fill(c, p, form, overlap),
         \A i \in FormImages(form) : Owner[i] = p,
         \A i \in FormImages(form) \ files : i \in excused \union overlap
  PROVE  ImagesInv'
<1>1. /\ c \notin InFlight /\ UNCHANGED <<tables, allowed, excused>>
      /\ \A d \in Calls \ {c} : call'[d] = call[d]
      /\ call'[c].pc = "form" /\ call'[c].product = p /\ call'[c].form = form
      /\ call'[c].overlap = overlap /\ call'[c].doomed = {} /\ call'[c].removed = {}
  BY FillEffect DEF ShopTyped
<1>2. UNCHANGED <<products, variants, files, excused>>
  BY <1>1 DEF tables
<1>3. (CallOwned(call[c]) /\ FormExplained(call[c]) /\ GalleryKept(call[c]))'
  BY <1>1, <1>2 DEF CallOwned, GalleryKept, FormExplained, FormImages
<1>4. /\ \A d \in InFlight' : d # c => d \in InFlight /\ call'[d] = call[d]
      /\ \A d \in InFlight : d \in InFlight' /\ call[d].removed \subseteq call'[d].removed
  BY <1>1 DEF InFlight
<1> QED  BY <1>2, <1>3, <1>4, OneCallMoves

(* The images of the rows are the product's own, and explained.             *)
LEMMA RowImages ==
  ASSUME ShopTyped, ImagesInv, NEW p \in DOMAIN products
  PROVE  /\ \A i \in FormImages(FormOf(p)) : Owner[i] = p
         /\ \A i \in FormImages(FormOf(p)) \ files : i \in excused \union Going
<1>1. FormImages(FormOf(p)) = ImagesOf(p) /\ ImagesOf(p) \subseteq Named
      /\ \A i \in ImagesOf(p) : Owner[i] = p
  BY FormTyped, ImagesOwned DEF ShopTyped, ImagesInv
<1> QED  BY <1>1 DEF ImagesInv, MissingExplained, Going

LEMMA LoadImages ==
  ASSUME ShopTyped, ImagesInv, NEW c \in Calls, NEW p \in Products, LoadForm(c, p)
  PROVE  ImagesInv'
<1>1. /\ p \in DOMAIN products /\ Fill(c, p, FormOf(p), Going) /\ Going \in SUBSET Images
      /\ FormOf(p) \in Form /\ DOMAIN FormOf(p).rows \subseteq Variants \intersect issued
  BY LoadFills DEF ShopTyped
<1> QED  BY <1>1, RowImages, FillImages

LEMMA SlugImages ==
  ASSUME ShopTyped, CopiesTyped, ImagesInv, CopiesExplained, NEW c \in Calls, NEW k \in Copies,
         LoadBySlug(c, k)
  PROVE  ImagesInv'
<1>1. /\ k \in DOMAIN cached
      /\ Fill(c, cached[k].product, cached[k].form, cached[k].overlap)
      /\ cached[k].product \in Products /\ cached[k].overlap \in SUBSET Images
      /\ cached[k].form \in Form
      /\ DOMAIN cached[k].form.rows \subseteq Variants \intersect issued
  BY SlugFills
<1>2. /\ \A i \in FormImages(cached[k].form) : Owner[i] = cached[k].product
      /\ \A i \in FormImages(cached[k].form) \ files : i \in excused \union cached[k].overlap
  BY <1>1 DEF CopiesExplained, CopyExplained
<1> QED  BY <1>1, <1>2, FillImages

LEMMA DeleteImages ==
  ASSUME ShopTyped, ImagesInv, NEW c \in Calls, NEW p \in Products, DeleteProduct(c, p)
  PROVE  ImagesInv'
<1>0. TablesTyped /\ CallsTyped /\ RowsOwned
  BY DEF ShopTyped, ImagesInv
<1> DEFINE r == [Idle EXCEPT !.pc = "images", !.product = p, !.deletes = TRUE,
                             !.doomed = ImagesOf(p)]
<1>1. /\ call' = [call EXCEPT ![c] = r] /\ p \in DOMAIN products /\ c \notin InFlight
      /\ UNCHANGED <<products, variants, files, excused>>
  BY DEF DeleteProduct, tables, Begin, At, InFlight, Open
<1>2. /\ r.pc = "images" /\ r.product = p /\ r.deletes /\ r.form = NoForm
      /\ r.doomed = ImagesOf(p) /\ r.removed = {}
  BY IdleTyped DEF CallRow
<1> HIDE DEF r
<1>3. \A d \in Calls : call'[d] = IF d = c THEN r ELSE call[d]
  BY <1>0, <1>1 DEF CallsTyped
<1>4. \A i \in ImagesOf(p) : Owner[i] = p
  BY <1>0, <1>1, ImagesOwned
<1>5. CallOwned(r) /\ GalleryKept(r) /\ FormExplained(r)
  BY <1>2, <1>4, NoFormTyped DEF CallOwned, GalleryKept, FormExplained
<1>6. (CallOwned(call[c]) /\ FormExplained(call[c]) /\ GalleryKept(call[c]))'
  BY <1>1, <1>3, <1>5 DEF CallOwned, GalleryKept, FormExplained, FormImages
<1>7. /\ \A d \in InFlight' : d # c => d \in InFlight /\ call'[d] = call[d]
      /\ \A d \in InFlight : d \in InFlight' /\ call[d].removed \subseteq call'[d].removed
  BY <1>1, <1>3 DEF InFlight
<1> QED  BY <1>1, <1>6, <1>7, OneCallMoves

(* What UpdateProduct takes for unused is the product's own, and not of the *)
(* gallery the form leaves.                                                *)
LEMMA UpdateImages ==
  ASSUME ShopTyped, ImagesInv, NEW c \in Calls, UpdateProduct(c)
  PROVE  ImagesInv'
<1>0. TablesTyped /\ CallsTyped /\ RowsOwned /\ call[c] \in CallRow
  BY CallTyped DEF ShopTyped, ImagesInv
<1>1. PICK form \in Edits(call[c].form) :
        call' = [call EXCEPT ![c].pc = "images", ![c].form = form,
                    ![c].doomed = IF call[c].product \in DOMAIN products
                                  THEN RemovedImages(call[c].product, form) ELSE {}]
  BY DEF UpdateProduct
<1> DEFINE p == call[c].product
           doomed == IF p \in DOMAIN products THEN RemovedImages(p, form) ELSE {}
           r == [call[c] EXCEPT !.pc = "images", !.form = form, !.doomed = doomed]
<1>2. /\ UNCHANGED <<products, variants, files, excused>> /\ c \in InFlight
      /\ call[c].pc = "form"
  BY DEF UpdateProduct, tables, InFlight, At, Open
<1>3. FormImages(form) \subseteq FormImages(call[c].form)
  BY <1>0, <1>1, CallTyped, EditsTyped
<1>4. (\A i \in doomed : Owner[i] = p) /\ doomed \intersect form.images = {}
  <2>1. RemovedImages(p, form) \subseteq ImagesOf(p)
        /\ RemovedImages(p, form) \intersect form.images = {}
    BY DEF RemovedImages, ImagesOf, FormImages
  <2> QED  BY <1>0, <2>1, ImagesOwned
<1>5. CallOwned(call[c]) /\ FormExplained(call[c]) /\ call[c].removed = {}
  BY <1>2 DEF ImagesInv, GalleryKept
<1> HIDE DEF doomed
<1>6. /\ r.pc = "images" /\ r.product = p /\ r.form = form /\ r.doomed = doomed
      /\ r.removed = {} /\ r.overlap = call[c].overlap
  BY <1>0, <1>5 DEF CallRow
<1>7. call' = [call EXCEPT ![c] = r]
  BY <1>0, <1>1 DEF doomed, CallRow, CallsTyped
<1> HIDE DEF r
<1>8. \A d \in Calls : call'[d] = IF d = c THEN r ELSE call[d]
  BY <1>0, <1>7 DEF CallsTyped
<1>9. CallOwned(r) /\ FormExplained(r) /\ GalleryKept(r)
  BY <1>3, <1>4, <1>5, <1>6 DEF CallOwned, FormExplained, GalleryKept
<1>10. (CallOwned(call[c]) /\ FormExplained(call[c]) /\ GalleryKept(call[c]))'
  BY <1>2, <1>8, <1>9 DEF CallOwned, GalleryKept, FormExplained, FormImages
<1>11. /\ \A d \in InFlight' : d # c => d \in InFlight /\ call'[d] = call[d]
       /\ \A d \in InFlight : d \in InFlight' /\ call[d].removed \subseteq call'[d].removed
  BY <1>2, <1>5, <1>6, <1>8 DEF InFlight, Open
<1> QED  BY <1>2, <1>10, <1>11, OneCallMoves

(* A file that goes is explained to every form open on it, and to the call   *)
(* that deleted it.                                                        *)
LEMMA FileImages ==
  ASSUME ShopTyped, ImagesInv, NEW c \in Calls, NEW i \in Images, DeleteFile(c, i)
  PROVE  ImagesInv'
<1>0. /\ CallsTyped /\ RowsOwned /\ c \in InFlight /\ i \in call[c].doomed
      /\ call[c].pc = "images" /\ UNCHANGED <<products, variants, excused>>
  BY DEF ShopTyped, ImagesInv, DeleteFile, At, InFlight, Open
<1>1. PICK deleted \in BOOLEAN :
        /\ files' = IF deleted THEN files \ {i} ELSE files
        /\ call' = [d \in Calls |->
             IF d = c THEN [call[c] EXCEPT !.doomed = @ \ {i},
                                           !.removed = IF deleted THEN @ \union {i} ELSE @]
             ELSE IF deleted /\ d \in InFlight
                  THEN [call[d] EXCEPT !.overlap = @ \union {i}] ELSE call[d]]
  BY DEF DeleteFile
<1> DEFINE gone == IF deleted THEN {i} ELSE {}
<1>2. files' = files \ gone /\ gone \subseteq {i}
  BY <1>1
<1>3. \A d \in Calls :
        /\ call'[d].pc = call[d].pc /\ call'[d].form = call[d].form
        /\ call'[d].product = call[d].product /\ call'[d].deletes = call[d].deletes
  BY <1>0, <1>1, CallTyped DEF CallRow
<1>4. /\ call'[c].doomed = call[c].doomed \ {i} /\ call'[c].removed = call[c].removed \union gone
      /\ call'[c].overlap = call[c].overlap
  BY <1>0, <1>1, CallTyped DEF CallRow
<1>5. \A d \in InFlight \ {c} :
        /\ call'[d].doomed = call[d].doomed /\ call'[d].removed = call[d].removed
        /\ call'[d].overlap = call[d].overlap \union gone
  BY <1>0, <1>1, CallTyped DEF CallRow, InFlight
<1> HIDE DEF gone
<1>6. InFlight' = InFlight
  BY <1>3 DEF InFlight
<1>7. RowsOwned'
  BY <1>0 DEF RowsOwned
<1>8. \A d \in InFlight : d \in Calls /\ CallOwned(call[d]) /\ FormExplained(call[d])
                         /\ GalleryKept(call[d])
  BY DEF ImagesInv, InFlight
<1>9. \A d \in InFlight : CallOwned(call'[d]) /\ GalleryKept(call'[d])
  <2>1. CallOwned(call'[c]) /\ GalleryKept(call'[c])
    BY <1>0, <1>2, <1>3, <1>4, <1>8 DEF CallOwned, GalleryKept
  <2>2. \A d \in InFlight \ {c} : CallOwned(call'[d]) /\ GalleryKept(call'[d])
    BY <1>3, <1>5, <1>8 DEF CallOwned, GalleryKept
  <2> QED  BY <2>1, <2>2
<1>10. ASSUME NEW d \in InFlight, NEW j \in FormImages(call[d].form), j \notin files'
       PROVE  j \in excused' \union call'[d].overlap \union call'[d].removed
  <2>1. j \in gone \/ j \in excused \union call[d].overlap \union call[d].removed
    BY <1>2, <1>8, <1>10 DEF FormExplained
  <2> QED  BY <1>0, <1>4, <1>5, <2>1
<1>11. \A d \in InFlight' : (CallOwned(call[d]) /\ FormExplained(call[d]) /\ GalleryKept(call[d]))'
  BY <1>3, <1>6, <1>8, <1>9, <1>10 DEF CallOwned, FormExplained, GalleryKept, FormImages
<1>12. ASSUME NEW j \in Named, j \notin files'
       PROVE  j \in excused' \/ \E d \in InFlight : j \in call'[d].removed
  <2>1. \A d \in InFlight : call[d].removed \subseteq call'[d].removed
    BY <1>4, <1>5
  <2>2. j \in gone \/ j \in excused \/ \E d \in InFlight : j \in call[d].removed
    BY <1>2, <1>12 DEF ImagesInv, MissingExplained
  <2> QED  BY <1>0, <1>4, <2>1, <2>2
<1>13. MissingExplained'
  <2>1. Named' = Named
    BY <1>0 DEF Named
  <2> QED  BY <1>6, <1>12, <2>1 DEF MissingExplained
<1> QED  BY <1>7, <1>11, <1>13 DEF ImagesInv

(* What a form writes back is its product's; of that, what is missing is    *)
(* explained, and what the call itself deleted is not in the gallery.       *)
LEMMA SaveImages ==
  ASSUME ShopTyped, ImagesInv, NEW c \in Calls, Save(c)
  PROVE  ImagesInv'
<1> DEFINE p == call[c].product
           form == call[c].form
           kin == UNION {form.rows[v].images : v \in DOMAIN form.rows}
<1>0. /\ TablesTyped /\ CallsTyped /\ c \in InFlight /\ Done(c) /\ ~call[c].deletes
      /\ UNCHANGED files /\ RowsOwned
  BY DEF ShopTyped, Save, InFlight, At, Open, ImagesInv
<1>1. \A d \in InFlight' : d \in InFlight /\ d # c /\ call'[d] = call[d]
  BY <1>0, DoneEffect DEF CallsTyped
<1>2. InFlight' = InFlight \ {c}
  BY <1>0, DoneEffect DEF CallsTyped
<1>3. excused' = excused \union (call[c].overlap \intersect FormImages(form))
                         \union (call[c].removed \intersect (kin \ form.images))
  BY DEF Save
<1>4. CallOwned(call[c]) /\ FormExplained(call[c]) /\ GalleryKept(call[c])
  BY <1>0 DEF ImagesInv
<1>5. /\ DOMAIN products' = DOMAIN products
      /\ products'[p] = ProductOf(form)
      /\ \A q \in DOMAIN products \ {p} : products'[q] = products[q]
  BY <1>0, SaveEffect
<1>6. \A v \in DOMAIN variants' :
        \/ \E w \in DOMAIN form.rows : variants'[v] = VariantOf(p, form.rows[w])
        \/ v \in DOMAIN variants /\ variants[v].product # p /\ variants'[v] = variants[v]
  <2>1. PICK new \in SUBSET (Variants \ issued) :
          /\ DOMAIN variants' = (DOMAIN variants \ VariantsOf(p))
                                  \union (VariantsOf(p) \intersect DOMAIN form.rows) \union new
          /\ \A v \in new : \E w \in DOMAIN form.rows : variants'[v] = VariantOf(p, form.rows[w])
          /\ \A v \in VariantsOf(p) \intersect DOMAIN form.rows : variants'[v] = VariantOf(p, form.rows[v])
          /\ \A v \in DOMAIN variants \ VariantsOf(p) : variants'[v] = variants[v]
    BY <1>0, SaveEffect
  <2>2. \A v \in DOMAIN variants \ VariantsOf(p) : variants[v].product # p
    BY DEF VariantsOf
  <2> HIDE DEF p, form
  <2> QED  BY <2>1, <2>2
<1>7. ProductOf(form).images = form.images
      /\ \A w \in DOMAIN form.rows : /\ VariantOf(p, form.rows[w]).product = p
                                     /\ VariantOf(p, form.rows[w]).images = form.rows[w].images
  BY DEF ProductOf, VariantOf
<1>8. form.images \union kin = FormImages(form)
      /\ \A w \in DOMAIN form.rows : form.rows[w].images \subseteq kin
  BY DEF FormImages
<1>9. \A i \in FormImages(form) : Owner[i] = p
  BY <1>4 DEF CallOwned
<1>10. \A i \in FormImages(form) \ files : i \in excused'
  <2>1. ASSUME NEW i \in FormImages(form) \ files PROVE i \in excused'
    <3>1. i \in excused \/ i \in call[c].overlap \/ i \in call[c].removed
      BY <1>4 DEF FormExplained
    <3>2. call[c].removed \intersect form.images = {}
      BY <1>0, <1>4 DEF GalleryKept
    <3> HIDE DEF kin
    <3> QED  BY <1>3, <1>8, <3>1, <3>2
  <2> QED  BY <2>1
<1> HIDE DEF p, form, kin
<1>11. \A q \in DOMAIN products' : \A i \in products'[q].images :
         \/ q = p /\ i \in FormImages(form)
         \/ q # p /\ q \in DOMAIN products /\ i \in products[q].images
  BY <1>5, <1>7, <1>8
<1>12. \A v \in DOMAIN variants' : \A i \in variants'[v].images :
         \/ variants'[v].product = p /\ i \in FormImages(form)
         \/ /\ v \in DOMAIN variants /\ variants[v].product # p /\ variants'[v] = variants[v]
            /\ i \in variants[v].images
  <2> SUFFICES ASSUME NEW v \in DOMAIN variants', NEW i \in variants'[v].images
               PROVE  \/ variants'[v].product = p /\ i \in FormImages(form)
                      \/ /\ v \in DOMAIN variants /\ variants[v].product # p
                         /\ variants'[v] = variants[v] /\ i \in variants[v].images
    OBVIOUS
  <2>1. CASE \E w \in DOMAIN form.rows : variants'[v] = VariantOf(p, form.rows[w])
    BY <1>7, <1>8, <2>1
  <2> QED  BY <1>6, <2>1
<1>13. RowsOwned'
  BY <1>0, <1>9, <1>11, <1>12 DEF RowsOwned
<1>14. \A d \in InFlight' : (CallOwned(call[d]) /\ FormExplained(call[d]) /\ GalleryKept(call[d]))'
  <2>1. excused \subseteq excused'
    BY <1>3
  <2> QED  BY <1>0, <1>1, <2>1 DEF ImagesInv, CallOwned, FormExplained, GalleryKept, FormImages
<1>15. ASSUME NEW i \in Named' \ files'
       PROVE  i \in excused' \/ \E d \in InFlight' : i \in call'[d].removed
  <2>1. CASE i \in FormImages(form)
    BY <1>0, <1>10, <1>15, <2>1
  <2>2. CASE i \notin FormImages(form)
    <3>1. i \in Named /\ Owner[i] # p
      <4>1. \/ \E q \in DOMAIN products' : i \in products'[q].images
            \/ \E v \in DOMAIN variants' : i \in variants'[v].images
        BY <1>15 DEF Named
      <4>2. \/ \E q \in DOMAIN products : q # p /\ i \in products[q].images
            \/ \E v \in DOMAIN variants : variants[v].product # p /\ i \in variants[v].images
        BY <1>11, <1>12, <2>2, <4>1
      <4> QED  BY <1>0, <4>2, NamedRows DEF RowsOwned
    <3>2. i \in excused \/ \E d \in InFlight : i \in call[d].removed
      BY <1>0, <1>15, <3>1 DEF ImagesInv, MissingExplained
    <3>3. ASSUME NEW d \in InFlight, i \in call[d].removed
          PROVE  \E e \in InFlight' : i \in call'[e].removed
      <4>1. d # c
        BY <1>4, <3>1, <3>3 DEF CallOwned, p
      <4>2. d \in InFlight' /\ call'[d] = call[d]
        BY <1>1, <1>2, <4>1
      <4>3. i \in call'[d].removed
        BY <3>3, <4>2
      <4> QED  BY <4>2, <4>3
    <3> QED  BY <1>3, <3>2, <3>3
  <2> QED  BY <2>1, <2>2
<1> QED  BY <1>13, <1>14, <1>15 DEF ImagesInv, MissingExplained

(* Rows that name the images they named, whoever else moves.                *)
LEMMA RowsKeepImages ==
  ASSUME ImagesInv, UNCHANGED <<files, excused>>,
         \A p \in DOMAIN products' : \A i \in products'[p].images :
           p \in DOMAIN products /\ i \in products[p].images,
         \A v \in DOMAIN variants' : \A i \in variants'[v].images :
           /\ v \in DOMAIN variants /\ i \in variants[v].images
           /\ variants'[v].product = variants[v].product,
         InFlight' = InFlight, \A d \in InFlight : call'[d] = call[d]
  PROVE  ImagesInv'
BY ImagesShrink

LEMMA CustomerImages ==
  ASSUME ShopTyped, ReferencesResolve, ImagesInv, Customer
  PROVE  ImagesInv'
<1>0. TablesTyped /\ CallsTyped
  BY DEF ShopTyped
<1>1. UNCHANGED <<products, files, excused>> /\ UNCHANGED call
  <2>1. UNCHANGED call
    BY <1>0, CustomerTyped
  <2> QED
    BY <2>1 DEF Customer, AddToCart, RemoveFromCart, PlaceOrder, Deduct, Take, RefuseCheckout
<1>2. InFlight' = InFlight /\ \A d \in InFlight : call'[d] = call[d]
  BY <1>1 DEF InFlight
<1>3. /\ DOMAIN variants' = DOMAIN variants
      /\ \A v \in DOMAIN variants : /\ variants'[v].product = variants[v].product
                                    /\ variants'[v].images = variants[v].images
  <2>1. ASSUME NEW o \in Orders, Deduct(o)
        PROVE  /\ DOMAIN variants' = DOMAIN variants
               /\ \A v \in DOMAIN variants : /\ variants'[v].product = variants[v].product
                                             /\ variants'[v].images = variants[v].images
    <3>1. o \in DOMAIN items /\ \E phase \in Phase : Take(o, phase)
      BY <2>1, DeductTakes
    <3> QED  BY <1>0, <3>1, TakeEffect
  <2>2. CASE UNCHANGED variants
    BY <2>2
  <2> QED
    BY <2>1, <2>2 DEF Customer, AddToCart, RemoveFromCart, PlaceOrder, RefuseCheckout
<1> QED  BY <1>1, <1>2, <1>3, RowsKeepImages

LEMMA RequestImages ==
  ASSUME ShopTyped, ImagesInv, NEW c \in Calls, Request(c)
  PROVE  ImagesInv'
<1>0. TablesTyped /\ CallsTyped /\ Done(c)
  BY RequestTyped DEF ShopTyped
<1>1. c \notin InFlight /\ UNCHANGED <<files, excused>>
  BY DEF Request, CreateProduct, UpdateProductStatus, ManageCollectionProduct, AdjustStock,
         DeleteGroup, RestoreOrderStock, DeductOrderStock, Take, Begin, At, InFlight, Open
<1>2. InFlight' = InFlight /\ \A d \in InFlight : call'[d] = call[d]
  BY <1>0, <1>1, DoneEffect DEF CallsTyped
<1> DEFINE ProductsKeep == \A p \in DOMAIN products' : \A i \in products'[p].images :
                             p \in DOMAIN products /\ i \in products[p].images
           VariantsKeep == \A v \in DOMAIN variants' : \A i \in variants'[v].images :
                             /\ v \in DOMAIN variants /\ i \in variants[v].images
                             /\ variants'[v].product = variants[v].product
<1>3. ASSUME NEW p \in Products, NEW n \in 0..MaxStock, CreateProduct(c, p, n)
      PROVE  ProductsKeep /\ VariantsKeep
  <2>1. PICK v \in Variants \ issued, gs \in {{}, groups} :
          /\ products' = Insert(products, p, NewProduct(gs))
          /\ variants' = Insert(variants, v, NewVariant(p, n))
    BY <1>3 DEF CreateProduct
  <2>2. NewProduct(gs).images = {} /\ NewVariant(p, n).images = {}
    BY DEF NewProduct, NewVariant
  <2>3. ProductsKeep
    BY <2>1, <2>2 DEF Insert
  <2>4. VariantsKeep
    BY <2>1, <2>2 DEF Insert
  <2> QED  BY <2>3, <2>4
<1>4. ASSUME NEW p \in Products, NEW active \in BOOLEAN, UpdateProductStatus(c, p, active)
      PROVE  ProductsKeep /\ VariantsKeep
  BY <1>0, <1>4 DEF UpdateProductStatus, TablesTyped, TypeOK, ProductRow
<1>5. ASSUME NEW p \in Products, NEW g \in Groups, ManageCollectionProduct(c, p, g)
      PROVE  ProductsKeep /\ VariantsKeep
  BY <1>0, <1>5 DEF ManageCollectionProduct, TablesTyped, TypeOK, ProductRow
<1>6. ASSUME NEW v \in Variants, NEW n \in {-1, MaxStock}, AdjustStock(c, v, n)
      PROVE  ProductsKeep /\ VariantsKeep
  <2>1. n \in Int /\ v \in DOMAIN variants /\ variants[v].stock + n >= 0
        /\ variants' = [variants EXCEPT ![v].stock = @ + n] /\ products' = products
    BY <1>6, BoundsAssumption DEF AdjustStock
  <2> QED  BY <1>0, <2>1, StockMoves
<1>7. ASSUME NEW g \in Groups, DeleteGroup(c, g) PROVE ProductsKeep /\ VariantsKeep
  BY <1>0, <1>7 DEF DeleteGroup, TablesTyped, TypeOK, ProductRow
<1>8. ASSUME NEW o \in Orders, RestoreOrderStock(c, o) PROVE ProductsKeep /\ VariantsKeep
  <2>1. products' = products
    BY <1>8 DEF RestoreOrderStock
  <2> QED  BY <1>0, <1>8, <2>1, RestoreEffect
<1>9. ASSUME NEW o \in Orders, DeductOrderStock(c, o) PROVE ProductsKeep /\ VariantsKeep
  <2>1. /\ o \in DOMAIN items /\ products' = products
        /\ \E phase \in Phase : Take(o, phase)
    BY <1>9, DeductTakes DEF Take
  <2> QED  BY <1>0, <2>1, TakeEffect
<1> HIDE DEF ProductsKeep, VariantsKeep
<1>10. ProductsKeep /\ VariantsKeep
  BY <1>3, <1>4, <1>5, <1>6, <1>7, <1>8, <1>9 DEF Request
<1> QED  BY <1>1, <1>2, <1>10, RowsKeepImages DEF ProductsKeep, VariantsKeep

(* The files a deletion removed were the product's, whose rows go with it.  *)
LEMMA DeleteRowImages ==
  ASSUME ShopTyped, ImagesInv, NEW c \in Calls, DeleteRow(c)
  PROVE  ImagesInv'
<1> DEFINE p == call[c].product
<1>0. CallsTyped /\ Done(c) /\ UNCHANGED <<files, excused>> /\ c \in InFlight /\ RowsOwned
  BY DEF ShopTyped, DeleteRow, InFlight, At, Open, ImagesInv
<1>1. InFlight' = InFlight \ {c} /\ \A d \in InFlight' : call'[d] = call[d]
  BY <1>0, DoneEffect DEF CallsTyped
<1>2. /\ DOMAIN variants' = DOMAIN variants \ VariantsOf(p)
      /\ \A v \in DOMAIN variants' : variants'[v] = variants[v] /\ variants[v].product # p
      /\ DOMAIN products' = DOMAIN products \ {p}
      /\ \A q \in DOMAIN products' : products'[q] = products[q]
  BY DeleteRowEffect DEF ShopTyped
<1>3. \A i \in call[c].removed : Owner[i] = p
  BY <1>0 DEF ImagesInv, CallOwned
<1> HIDE DEF p
<1>4. \A i \in Named' : Owner[i] # p
  <2>1. ASSUME NEW q \in DOMAIN products', NEW i \in products'[q].images PROVE Owner[i] # p
    BY <1>0, <1>2, <2>1 DEF RowsOwned
  <2>2. ASSUME NEW v \in DOMAIN variants', NEW i \in variants'[v].images PROVE Owner[i] # p
    BY <1>0, <1>2, <2>2 DEF RowsOwned
  <2> QED  BY <2>1, <2>2 DEF Named
<1> QED  BY <1>0, <1>1, <1>2, <1>3, <1>4, ImagesShrink

LEMMA FailImages ==
  ASSUME ShopTyped, ImagesInv, NEW c \in Calls, Fail(c)
  PROVE  ImagesInv'
<1>0. CallsTyped /\ Done(c) /\ UNCHANGED <<products, variants, files>>
      /\ excused' = excused \union call[c].removed
  BY DEF ShopTyped, Fail, tables
<1>1. InFlight' = InFlight \ {c} /\ \A d \in InFlight' : call'[d] = call[d]
  BY <1>0, DoneEffect DEF CallsTyped
<1> QED  BY <1>0, <1>1, ImagesShrink

LEMMA ImagesStep ==
  ASSUME ShopTyped, CopiesTyped, ReferencesResolve, ImagesInv, CopiesExplained, [Next]_vars
  PROVE  ImagesInv'
<1>1. CASE Customer
  BY <1>1, CustomerImages
<1>2. ASSUME NEW c \in Calls, ProductForm(c) PROVE ImagesInv'
  BY <1>2, LoadImages, SlugImages, DeleteImages, UpdateImages, FileImages, SaveImages,
     DeleteRowImages, FailImages DEF ProductForm
<1>3. ASSUME NEW c \in Calls, Request(c) PROVE ImagesInv'
  BY <1>3, RequestImages
<1>4. CASE ProductCache \/ UNCHANGED vars
  <2>1. UNCHANGED <<products, variants, files, excused, call>>
    BY <1>4 DEF ProductCache, ReadProduct, Expire, vars, tables
  <2>2. InFlight' = InFlight
    BY <2>1 DEF InFlight
  <2> QED  BY <2>1, <2>2, RowsKeepImages
<1> QED  BY <1>1, <1>2, <1>3, <1>4 DEF Next

(* Excuses stay, and no file comes back.                                   *)
LEMMA ExcusesStay ==
  ASSUME ShopTyped, [Next]_vars
  PROVE  /\ excused \subseteq excused'
         /\ files' # files => \E c \in Calls, i \in Images : DeleteFile(c, i)
<1>1. CASE Customer \/ ProductCache \/ UNCHANGED vars
  BY <1>1 DEF Customer, AddToCart, RemoveFromCart, PlaceOrder, Deduct, Take, RefuseCheckout,
              ProductCache, ReadProduct, Expire, vars, tables
<1>2. ASSUME NEW c \in Calls, ProductForm(c)
      PROVE  excused \subseteq excused' /\ (files' # files => \E i \in Images : DeleteFile(c, i))
  BY <1>2 DEF ProductForm, LoadForm, LoadBySlug, Fill, DeleteProduct, UpdateProduct, DeleteFile,
              Save, DeleteRow, Fail, tables
<1>3. ASSUME NEW c \in Calls, Request(c) PROVE UNCHANGED <<excused, files>>
  BY <1>3 DEF Request, CreateProduct, UpdateProductStatus, ManageCollectionProduct,
     AdjustStock, DeleteGroup, RestoreOrderStock, DeductOrderStock, Take
<1> QED  BY <1>1, <1>2, <1>3 DEF Next

LEMMA CopiesExplainedStep ==
  ASSUME ShopTyped, CopiesTyped, ImagesInv, CopiesExplained, [Next]_vars
  PROVE  CopiesExplained'
<1>0. TablesTyped /\ CallsTyped /\ excused \subseteq excused'
  BY ExcusesStay DEF ShopTyped
<1>1. ASSUME NEW c \in Calls, NEW i \in Images, DeleteFile(c, i) PROVE CopiesExplained'
  <2>1. /\ DOMAIN cached' = DOMAIN cached
        /\ \A k \in DOMAIN cached :
             /\ cached'[k].product = cached[k].product /\ cached'[k].form = cached[k].form
             /\ cached[k].overlap \union (files \ files') \subseteq cached'[k].overlap
    BY <1>1, FileMarks
  <2>2. ASSUME NEW k \in DOMAIN cached PROVE CopyExplained(cached[k])'
    <3>1. CopyExplained(cached[k])
      BY <2>2 DEF CopiesExplained
    <3> QED  BY <1>0, <2>1, <3>1 DEF CopyExplained, FormImages
  <2> QED  BY <2>1, <2>2 DEF CopiesExplained
<1>2. ASSUME NEW k \in Copies, NEW p \in Products, ReadProduct(k, p) PROVE CopiesExplained'
  <2>1. /\ DOMAIN cached' = DOMAIN cached \union {k} /\ p \in DOMAIN products
        /\ cached'[k].product = p /\ cached'[k].form = FormOf(p) /\ cached'[k].overlap = Going
        /\ \A j \in DOMAIN cached : cached'[j] = cached[j]
    BY <1>0, <1>2, ReadEffect
  <2>2. UNCHANGED <<files, excused>>
    BY <1>2 DEF ReadProduct
  <2>3. CopyExplained(cached'[k])
    BY <2>1, RowImages DEF CopyExplained
  <2>4. \A j \in DOMAIN cached' : CopyExplained(cached'[j])
    BY <2>1, <2>3 DEF CopiesExplained
  <2> QED  BY <2>2, <2>4 DEF CopiesExplained, CopyExplained
<1>3. ASSUME files' = files, \A k \in DOMAIN cached' : k \in DOMAIN cached /\ cached'[k] = cached[k]
      PROVE  CopiesExplained'
  BY <1>0, <1>3 DEF CopiesExplained, CopyExplained, FormImages
<1> QED  BY <1>1, <1>2, <1>3, CopiesStay, ExcusesStay

-----------------------------------------------------------------------------
(* What holds at first *)

LEMMA OwnerFact ==
  /\ Owner \in [Images -> Products]
  /\ \A ps \in InitProducts, vs \in InitVariants :
       /\ \A p \in DOMAIN ps : \A i \in ps[p].images : Owner[i] = p
       /\ \A v \in DOMAIN vs : \A i \in vs[v].images : Owner[i] = vs[v].product
BY InitImagesAssumption DEF Owner

LEMMA NobodyAtFirst ==
  ASSUME Init
  PROVE  InFlight = {} /\ call \in [Calls -> CallRow]
BY IdleTyped DEF Init, InFlight, Open

LEMMA TypedAtFirst ==
  ASSUME Init
  PROVE  ShopTyped
<1>1. \A v \in Variants : (IF v \in DOMAIN variants THEN variants[v].stock ELSE 0) \in Nat
  BY InitRowsAssumption DEF Init, VariantRow
<1>2. allowed \in [Variants -> Nat]
  BY <1>1 DEF Init
<1>3. TablesTyped
  BY <1>2, InitRowsAssumption DEF Init, TablesTyped, TypeOK
<1> QED  BY <1>3, NobodyAtFirst DEF ShopTyped, CallsTyped

LEMMA LinkedAtFirst ==
  ASSUME Init
  PROVE  ReferencesResolve
<1>1. /\ \A v \in DOMAIN variants : variants[v].product \in DOMAIN products
      /\ \A p \in DOMAIN products : products[p].groups \subseteq groups
  BY InitRowsAssumption DEF Init, ProductRow
<1>2. lines = {} /\ DOMAIN items = {}
  BY DEF Init
<1> QED  BY <1>1, <1>2 DEF ReferencesResolve

LEMMA NoCopiesAtFirst ==
  ASSUME Init
  PROVE  DOMAIN cached = {} /\ CopiesTyped /\ CopiesExplained
<1>1. DOMAIN cached = {}
  BY DEF Init
<1> QED  BY <1>1 DEF CopiesTyped, CopiesExplained

LEMMA StockAtFirst ==
  ASSUME Init
  PROVE  StockInv
<1>1. \A v : Held(v) = {}
  BY DEF Init, Held
<1>2. \A v \in DOMAIN variants : v \in Variants /\ variants[v].stock \in Nat /\ allowed[v] = variants[v].stock
  BY InitRowsAssumption DEF Init, VariantRow
<1>3. \A v : Cardinality(Held(v)) = 0
  BY <1>1, FS_EmptySet
<1> QED
  BY <1>2, <1>3, NobodyAtFirst, NoCopiesAtFirst
     DEF StockInv, NoOversellButForms, FormsBacked, CopiesBacked

LEMMA ImagesAtFirst ==
  ASSUME Init
  PROVE  ImagesInv
<1>1. RowsOwned
  BY OwnerFact DEF Init, RowsOwned
<1>2. Named \subseteq files
  <2>1. /\ \A p \in DOMAIN products : products[p].images \subseteq Images
        /\ \A v \in DOMAIN variants : variants[v].images \subseteq Images
        /\ files = Images
    BY InitRowsAssumption DEF Init, ProductRow, VariantRow
  <2> QED  BY <2>1 DEF Named
<1> QED  BY <1>1, <1>2, NobodyAtFirst DEF ImagesInv, MissingExplained

-----------------------------------------------------------------------------
(* What holds of every run *)

(* The layers: tables, requests and copies have their types and a request   *)
(* saw every variant its form has; every row names rows; of each variant as *)
(* many units are held and left as may be, and would be if any open form,   *)
(* or one filled from any copy, were saved as it is; every image is one     *)
(* product's, and one missing from a row, a form or a copy is explained.    *)
ShopInv ==
  ShopTyped /\ CopiesTyped /\ ReferencesResolve /\ StockInv /\ ImagesInv /\ CopiesExplained

(* Whatever administrators and customers do, in any order: the invariant    *)
(* the theorems below follow from.                                         *)
THEOREM ShopInvariant == Spec => []ShopInv
<1>1. Init => ShopInv
  BY TypedAtFirst, LinkedAtFirst, StockAtFirst, ImagesAtFirst, NoCopiesAtFirst DEF ShopInv
<1>2. ShopInv /\ [Next]_vars => ShopInv'
  <2> SUFFICES ASSUME ShopInv, [Next]_vars PROVE ShopInv'
    OBVIOUS
  <2>1. ShopTyped /\ CopiesTyped /\ ReferencesResolve /\ StockInv /\ ImagesInv /\ CopiesExplained
    BY DEF ShopInv
  <2>2. ShopTyped'
    BY <2>1, TypedStep
  <2>3. CopiesTyped'
    BY <2>1, CopiesTypedStep, IssuedStays
  <2>4. ReferencesResolve'
    BY <2>1, LinkedStep
  <2>5. StockInv'
    BY <2>1, <2>2, StockStep
  <2>6. ImagesInv' /\ CopiesExplained'
    BY <2>1, ImagesStep, CopiesExplainedStep
  <2> QED  BY <2>2, <2>3, <2>4, <2>5, <2>6 DEF ShopInv
<1> QED  BY <1>1, <1>2, PTL DEF Spec

(* The tables and what is kept beside them have their types.                *)
THEOREM ShopHasTypes == Spec => []TypeOK
<1>1. ShopInv => TypeOK
  BY DEF ShopInv, ShopTyped, TablesTyped
<1> QED  BY <1>1, ShopInvariant, PTL

(* Every row names rows that exist: a cart a variant, a variant its         *)
(* product, a product its groups, an order what it ordered or nothing.      *)
THEOREM ReferencesAlwaysResolve == Spec => []ReferencesResolve
<1>1. ShopInv => ReferencesResolve
  BY DEF ShopInv
<1> QED  BY <1>1, ShopInvariant, PTL

(* However many forms are open and whatever they write back, the units      *)
(* held and left are no more than were provided, moved under an open form   *)
(* or a copy, or were given back without having been taken.                 *)
THEOREM OnlyFormsOversell == Spec => []NoOversellButForms
<1>1. ShopInv => NoOversellButForms
  BY DEF ShopInv, StockInv
<1> QED  BY <1>1, ShopInvariant, PTL

(* An image a row names and the store lacks was lost for one of the reasons *)
(* MissingExplained gives.                                                 *)
THEOREM MissingAlwaysExplained == Spec => []MissingExplained
<1>1. ShopInv => MissingExplained
  BY DEF ShopInv, ImagesInv
<1> QED  BY <1>1, ShopInvariant, PTL

(* No step ever moves an order whose variant is gone.                       *)
THEOREM LostStaysStuck == Spec => LostIsStuck
<1> DEFINE Stuck == \A o \in DOMAIN items :
                      items[o].variant = Lost /\ items[o].phase \notin Pending => items'[o] = items[o]
<1>1. ShopInv /\ [Next]_vars => [Stuck]_vars
  <2> SUFFICES ASSUME ShopInv, [Next]_vars, NEW o \in DOMAIN items,
                      items[o].variant = Lost, items[o].phase \notin Pending
               PROVE  items'[o] = items[o]
    OBVIOUS
  <2>0. TablesTyped /\ CallsTyped /\ Lost \notin DOMAIN variants
    BY IdsAssumption DEF ShopInv, ShopTyped, TablesTyped, TypeOK
  <2>1. ASSUME NEW x \in DOMAIN items, NEW phase \in Phase, Take(x, phase)
        PROVE  items'[o] = items[o]
    <3>1. x # o /\ items' = [items EXCEPT ![x].phase = phase]
      BY <2>0, <2>1 DEF Take
    <3> QED  BY <2>0, <3>1, PhaseMoves
  <2>2. CASE Customer
    <3>1. ASSUME NEW x \in Orders, NEW line \in lines, PlaceOrder(x, line) PROVE items'[o] = items[o]
      BY <3>1 DEF PlaceOrder, Insert
    <3>2. ASSUME NEW x \in Orders, Deduct(x) PROVE items'[o] = items[o]
      BY <2>1, <3>2, DeductTakes
    <3>3. ASSUME NEW x \in Orders, RefuseCheckout(x) PROVE items'[o] = items[o]
      <4>1. /\ x \in DOMAIN items /\ x # o
            /\ \E phase \in Phase : items' = [items EXCEPT ![x].phase = phase]
        BY <3>3 DEF RefuseCheckout, Phase
      <4> QED  BY <2>0, <4>1, PhaseMoves
    <3>4. CASE UNCHANGED items
      BY <3>4
    <3> QED  BY <2>2, <3>1, <3>2, <3>3, <3>4 DEF Customer, AddToCart, RemoveFromCart
  <2>3. ASSUME NEW c \in Calls, ProductForm(c) PROVE items'[o] = items[o]
    <3>1. CASE Save(c)
      <4>1. items[o].variant \notin VariantsOf(call[c].product)
        BY <2>0 DEF VariantsOf
      <4> QED  BY <2>0, <3>1, <4>1, SaveEffect
    <3>2. CASE DeleteRow(c)
      <4>1. items[o].variant \notin VariantsOf(call[c].product)
        BY <2>0 DEF VariantsOf
      <4> QED  BY <2>0, <3>2, <4>1, DeleteRowEffect
    <3>3. CASE UNCHANGED items
      BY <3>3
    <3> QED  BY <2>3, <3>1, <3>2, <3>3 DEF ProductForm, LoadForm, LoadBySlug, Fill, DeleteProduct,
                UpdateProduct, DeleteFile, Fail, tables
  <2>4. ASSUME NEW c \in Calls, Request(c) PROVE items'[o] = items[o]
    <3>1. ASSUME NEW x \in Orders, RestoreOrderStock(c, x) PROVE items'[o] = items[o]
      <4>1. x # o
        BY <2>0, <3>1 DEF RestoreOrderStock
      <4> QED  BY <2>0, <3>1, <4>1, RestoreEffect
    <3>2. ASSUME NEW x \in Orders, DeductOrderStock(c, x) PROVE items'[o] = items[o]
      BY <2>1, <3>2, DeductTakes
    <3>3. CASE UNCHANGED items
      BY <3>3
    <3> QED  BY <2>4, <3>1, <3>2, <3>3 DEF Request, CreateProduct, UpdateProductStatus,
                ManageCollectionProduct, AdjustStock, DeleteGroup
  <2>5. CASE ProductCache \/ UNCHANGED vars
    BY <2>5 DEF ProductCache, ReadProduct, Expire, vars, tables
  <2> QED  BY <2>2, <2>3, <2>4, <2>5 DEF Next
<1> QED  BY <1>1, ShopInvariant, PTL DEF Spec, LostIsStuck
=============================================================================
