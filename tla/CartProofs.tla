----------------------------- MODULE CartProofs -----------------------------
(***************************************************************************)
(* Proofs about Cart for any products and variants, any finite set of      *)
(* requests and any number of them in flight.                              *)
(*                                                                         *)
(* The bound on duplicates counts request ids: the requests whose line of a *)
(* product and variant is in the cart and those about to insert one.  A     *)
(* step only takes ids out of that set, or finds the cart without such a    *)
(* line, so that the set is made of requests in flight.                    *)
(***************************************************************************)
EXTENDS Cart, FiniteSetTheorems, TLAPS

Ids(p, v) == {l.id : l \in LinesOf(p, v)}
Claims(p, v) == Ids(p, v) \union Inserting(p, v)

(* A line comes from a request that was answered, and from one only.       *)
LinesAnswered ==
  /\ \A l \in lines : req[l.id].pc \in Answers
  /\ \A l, m \in lines : l.id = m.id => l = m

(* What a request will write is positive and was covered when it looked.   *)
Sound(c) ==
  LET r == req[c]
  IN  /\ r.pc \in {"read", "find", "create"} /\ r.op \in {"add", "update"} =>
           r.total > 0
      /\ r.pc \in {"upsert", "write"} => r.total > 0
      /\ r.pc = "write" => r.total <= MaxStock
      /\ r.pc = "delete" => r.op = "remove"

CartInv ==
  /\ TypeOK
  /\ LinesAnswered
  /\ \A c \in Calls : Sound(c)
  /\ QuantityCovered
  /\ Cardinality(InFlight) <= MaxInFlight
  /\ \A p \in Products, v \in Variants : Cardinality(Claims(p, v)) <= MaxInFlight

-----------------------------------------------------------------------------
(* Lemmas about the requests *)

LEMMA Distinct ==
  /\ Waiting \intersect Answers = {}
  /\ "none" \notin Waiting \union Answers
BY DEF Waiting, Answers

(* Sets of requests are finite.                                            *)
LEMMA FiniteCalls ==
  ASSUME NEW S \in SUBSET Calls
  PROVE  IsFiniteSet(S) /\ Cardinality(S) \in Nat
BY CartAssumption, FS_Subset, FS_CardinalityType

(* A step that rewrites the record of one request leaves the others alone.  *)
Rewrites(c, r) ==
  /\ req' \in [Calls -> Request]
  /\ req'[c] = r
  /\ \A d \in Calls \ {c} : req'[d] = req[d]

LEMMA RewriteRecord ==
  ASSUME TypeOK, NEW c \in Calls, NEW r \in Request, req' = [req EXCEPT ![c] = r]
  PROVE  Rewrites(c, r)
BY DEF TypeOK, Rewrites

LEMMA AnswerRewrites ==
  ASSUME TypeOK, NEW c \in Calls, NEW pc \in Answers, NEW reply \in SUBSET Line,
         Answer(c, pc, reply)
  PROVE  \E r \in Request : Rewrites(c, r) /\ r.pc = pc
<1> DEFINE r == [req[c] EXCEPT !.pc = pc, !.quantity = 0, !.total = 0,
                               !.seen = {}, !.found = {}, !.reply = reply]
<1>1. req[c] \in Request
  BY DEF TypeOK
<1>2. r \in Request /\ r.pc = pc
  BY <1>1 DEF Request
<1>3. req' = [req EXCEPT ![c] = r]
  BY DEF Answer
<1> HIDE DEF r
<1> QED
  BY <1>2, <1>3, RewriteRecord

LEMMA GotoRewrites ==
  ASSUME TypeOK, NEW c \in Calls, NEW pc \in Waiting, Goto(c, pc)
  PROVE  \E r \in Request : Rewrites(c, r) /\ r = [req[c] EXCEPT !.pc = pc]
<1> DEFINE r == [req[c] EXCEPT !.pc = pc]
<1>1. req[c] \in Request
  BY DEF TypeOK
<1>2. r \in Request
  BY <1>1 DEF Request
<1>3. req' = [req EXCEPT ![c] = r]
  BY DEF Goto, TypeOK
<1> HIDE DEF r
<1>4. Rewrites(c, r)
  BY <1>2, <1>3, RewriteRecord
<1> QED
  BY <1>2, <1>4 DEF r

(* A request in flight has no line in the cart.                            *)
LEMMA WaitingHasNoLine ==
  ASSUME CartInv, NEW c \in InFlight, NEW l \in lines
  PROVE  l.id # c
BY Distinct DEF CartInv, LinesAnswered, InFlight

(* What it takes for a step of a request in flight to keep the invariant:   *)
(* it writes sound lines, under ids the cart already has or its own if it   *)
(* was about to insert, and it may prepare an insert only when there is no  *)
(* line of the variant.                                                    *)
LEMMA StepKeepsInv ==
  ASSUME CartInv, NEW c \in InFlight, NEW r \in Request, Rewrites(c, r),
         r.pc \in Waiting \union Answers,
         created' \in BOOLEAN, stock' \in [Variants -> 0..MaxStock],
         Sound(c)', lines' \subseteq Line,
         \A l \in lines' : l.id # c =>
            \E m \in lines : /\ m.id = l.id /\ m.product = l.product
                             /\ m.variant = l.variant,
         \A l \in lines' : l.id = c =>
            r.pc \in Answers /\ c \in Inserting(l.product, l.variant),
         \A l, m \in lines' : l.id = m.id => l = m,
         \A l \in lines' : l.quantity <= MaxStock,
         r.pc = "write" /\ r.found = {} =>
            LinesOf(r.product, r.variant) = {} /\ lines' = lines
  PROVE  CartInv'
<1>0. c \in Calls /\ TypeOK
  BY DEF InFlight, CartInv
<1>1. TypeOK'
  BY <1>0 DEF TypeOK, Rewrites
<1>2. LinesAnswered'
  <2>1. ASSUME NEW l \in lines' PROVE req'[l.id].pc \in Answers
    <3>1. CASE l.id = c
      BY <3>1 DEF Rewrites
    <3>2. CASE l.id # c
      <4>1. PICK m \in lines : m.id = l.id
        BY <3>2
      <4>2. req[l.id].pc \in Answers /\ l.id \in Calls
        BY <4>1 DEF CartInv, LinesAnswered, Line
      <4> QED
        BY <3>2, <4>2 DEF Rewrites
    <3> QED
      BY <3>1, <3>2
  <2> QED
    BY <2>1 DEF LinesAnswered
<1>3. ASSUME NEW d \in Calls PROVE Sound(d)'
  <2>1. CASE d = c
    BY <2>1
  <2>2. CASE d # c
    <3>1. req'[d] = req[d]
      BY <2>2 DEF Rewrites
    <3> QED
      BY <3>1 DEF Sound, CartInv
  <2> QED
    BY <2>1, <2>2
<1>4. QuantityCovered'
  BY DEF QuantityCovered
<1>5. Cardinality(InFlight') <= MaxInFlight
  <2>1. InFlight' \subseteq InFlight /\ InFlight \subseteq Calls
    BY DEF InFlight, Rewrites
  <2>2. IsFiniteSet(InFlight) /\ Cardinality(InFlight) \in Nat
    BY <2>1, FiniteCalls
  <2>3. Cardinality(InFlight') <= Cardinality(InFlight) /\ Cardinality(InFlight') \in Nat
    BY <2>1, <2>2, FS_Subset, FS_CardinalityType
  <2> QED
    BY <2>2, <2>3, CartAssumption DEF CartInv
<1>6. ASSUME NEW p \in Products, NEW v \in Variants
      PROVE  Cardinality(Claims(p, v)') <= MaxInFlight
  <2>1. CASE r.pc = "write" /\ r.found = {} /\ r.product = p /\ r.variant = v
    <3>1. Ids(p, v)' = {}
      BY <2>1 DEF Ids, LinesOf
    <3>2. Claims(p, v)' \subseteq InFlight'
      BY <3>1 DEF Claims, Inserting, InFlight, At, Waiting
    <3>3. InFlight' \subseteq Calls
      BY DEF InFlight
    <3>4. IsFiniteSet(InFlight') /\ Cardinality(InFlight') \in Nat
      BY <3>3, FiniteCalls
    <3>5. Cardinality(Claims(p, v)') <= Cardinality(InFlight') /\ Cardinality(Claims(p, v)') \in Nat
      BY <3>2, <3>4, FS_Subset, FS_CardinalityType
    <3> QED
      BY <1>5, <3>4, <3>5, CartAssumption
  <2>2. CASE ~(r.pc = "write" /\ r.found = {} /\ r.product = p /\ r.variant = v)
    <3>1. Inserting(p, v)' \subseteq Inserting(p, v)
      BY <2>2 DEF Inserting, At, Rewrites
    <3>2. Ids(p, v)' \subseteq Ids(p, v) \union Inserting(p, v)
      BY DEF Ids, LinesOf
    <3>3. Claims(p, v)' \subseteq Claims(p, v)
      BY <3>1, <3>2 DEF Claims
    <3>4. Claims(p, v) \subseteq Calls
      BY <1>0 DEF Claims, Ids, LinesOf, Inserting, TypeOK, Line
    <3>5. IsFiniteSet(Claims(p, v)) /\ Cardinality(Claims(p, v)) \in Nat
      BY <3>4, FiniteCalls
    <3>6. Cardinality(Claims(p, v)') <= Cardinality(Claims(p, v)) /\ Cardinality(Claims(p, v)') \in Nat
      BY <3>3, <3>5, FS_Subset, FS_CardinalityType
    <3> QED
      BY <3>5, <3>6, CartAssumption DEF CartInv
  <2> QED
    BY <2>1, <2>2
<1> QED
  BY <1>1, <1>2, <1>3, <1>4, <1>5, <1>6 DEF CartInv

(* ... in particular for a step that leaves the lines alone.               *)
LEMMA ReadKeepsInv ==
  ASSUME CartInv, NEW c \in InFlight, NEW r \in Request, Rewrites(c, r),
         r.pc \in Waiting \union Answers, created' \in BOOLEAN,
         UNCHANGED <<lines, stock>>, Sound(c)',
         r.pc = "write" /\ r.found = {} => LinesOf(r.product, r.variant) = {}
  PROVE  CartInv'
<1>1. \A l \in lines : l.id # c
  BY WaitingHasNoLine
<1>2. /\ stock' \in [Variants -> 0..MaxStock] /\ lines' \subseteq Line
      /\ \A l, m \in lines' : l.id = m.id => l = m
      /\ \A l \in lines' : l.quantity <= MaxStock
  BY DEF CartInv, TypeOK, LinesAnswered, QuantityCovered
<1> QED
  BY <1>1, <1>2, StepKeepsInv

LEMMA AnswerKeepsInv ==
  ASSUME CartInv, NEW c \in InFlight, NEW pc \in Answers, NEW reply \in SUBSET Line,
         Answer(c, pc, reply), created' \in BOOLEAN, UNCHANGED <<lines, stock>>
  PROVE  CartInv'
<1>1. c \in Calls /\ TypeOK
  BY DEF InFlight, CartInv
<1>2. PICK r \in Request : Rewrites(c, r) /\ r.pc = pc
  BY <1>1, AnswerRewrites
<1>3. Sound(c)'
  BY <1>2 DEF Sound, Rewrites, Answers
<1>4. r.pc # "write"
  BY <1>2 DEF Answers
<1> QED
  BY <1>2, <1>3, <1>4, ReadKeepsInv

LEMMA NoRowsKeepsInv ==
  ASSUME CartInv, NEW c \in InFlight, NoRows(c), created' \in BOOLEAN,
         UNCHANGED <<lines, stock>>
  PROVE  CartInv'
<1>1. \E pc \in Answers : Answer(c, pc, {})
  BY DEF NoRows, Answers
<1> QED
  BY <1>1, AnswerKeepsInv

(* Waiting for the next statement, unless that writes to the cart.         *)
LEMMA GotoKeepsInv ==
  ASSUME CartInv, NEW c \in InFlight, NEW pc \in Waiting \ {"write", "delete"}, Goto(c, pc),
         created' \in BOOLEAN, UNCHANGED <<lines, stock>>,
         pc \in {"read", "find", "create"} /\ req[c].op \in {"add", "update"} =>
           req[c].total > 0,
         pc = "upsert" => req[c].total > 0
  PROVE  CartInv'
<1>1. c \in Calls /\ TypeOK /\ req[c] \in Request
  BY DEF InFlight, CartInv, TypeOK
<1>2. PICK r \in Request : Rewrites(c, r) /\ r = [req[c] EXCEPT !.pc = pc]
  BY <1>1, GotoRewrites
<1>3. r.pc = pc /\ r.op = req[c].op /\ r.total = req[c].total
  BY <1>1, <1>2 DEF Request
<1>4. Sound(c)'
  BY <1>2, <1>3 DEF Sound, Rewrites
<1> QED
  BY <1>2, <1>3, <1>4, ReadKeepsInv

LEMMA WithCartKeepsInv ==
  ASSUME CartInv, NEW c \in Calls, At(c, "find") \/ At(c, "create"), WithCart(c),
         created' \in BOOLEAN, UNCHANGED <<lines, stock>>
  PROVE  CartInv'
<1> DEFINE held == {l \in req[c].seen : l.product = req[c].product /\ l.variant = req[c].variant}
<1>0. /\ c \in InFlight /\ TypeOK /\ req[c] \in Request /\ req[c].seen \subseteq Line
      /\ req[c].op \in {"add", "update"} => req[c].total > 0
  BY DEF InFlight, At, Waiting, CartInv, TypeOK, Sound, Request
<1>1. CASE req[c].op \in {"get", "remove"}
  <2>1. Answer(c, "ok", req[c].seen)
    BY <1>1 DEF WithCart
  <2> QED
    BY <1>0, <2>1, AnswerKeepsInv DEF Answers
<1>2. CASE req[c].op = "checkout" /\ req[c].seen = {}
  <2>1. Answer(c, "error", {})
    BY <1>2 DEF WithCart
  <2> QED
    BY <1>0, <2>1, AnswerKeepsInv DEF Answers
<1>3. CASE req[c].op = "checkout" /\ req[c].seen # {}
  <2>1. Goto(c, "clear")
    BY <1>3 DEF WithCart
  <2> QED
    BY <1>0, <2>1, GotoKeepsInv DEF Waiting
<1>4. CASE req[c].op = "add" /\ held # {}
  <2>1. PICK l \in held : req' = [req EXCEPT ![c].pc = "upsert", ![c].total = @ + l.quantity]
    BY <1>4 DEF WithCart
  <2> DEFINE r == [req[c] EXCEPT !.pc = "upsert", !.total = @ + l.quantity]
  <2>2. l.quantity \in Nat \ {0} /\ req[c].total \in Nat /\ req[c].total > 0
    BY <1>0, <1>4 DEF Line, Request
  <2> DEFINE total == req[c].total + l.quantity
  <2>3. r \in Request /\ r.pc = "upsert" /\ r.total > 0
    <3>1. total \in Nat /\ total > 0
      BY <2>2
    <3> HIDE DEF total
    <3>2. [req[c] EXCEPT !.pc = "upsert", !.total = total] \in Request
      BY <1>0, <3>1 DEF Request, Waiting
    <3> QED
      BY <1>0, <3>1, <3>2 DEF total, Request
  <2>4. req' = [req EXCEPT ![c] = r]
    BY <1>0, <2>1 DEF TypeOK, Request
  <2> HIDE DEF r
  <2>5. Rewrites(c, r)
    BY <1>0, <2>3, <2>4, RewriteRecord
  <2>6. Sound(c)'
    BY <2>3, <2>5 DEF Sound, Rewrites
  <2> QED
    BY <1>0, <2>3, <2>5, <2>6, ReadKeepsInv DEF Waiting
<1>5. CASE req[c].op = "update" \/ (req[c].op = "add" /\ held = {})
  <2>1. Goto(c, "upsert")
    BY <1>5 DEF WithCart
  <2>2. req[c].total > 0
    BY <1>0, <1>5
  <2> QED
    BY <1>0, <2>1, <2>2, GotoKeepsInv DEF Waiting
<1>6. req[c].op \in Ops
  BY <1>0 DEF Request
<1> QED
  BY <1>1, <1>2, <1>3, <1>4, <1>5, <1>6 DEF Ops

LEMMA ReceiveKeepsInv ==
  ASSUME CartInv, NEW c \in Calls, NEW op \in Ops, NEW p \in Products,
         NEW v \in Variants, NEW q \in 0..MaxAsked, Receive(c, op, p, v, q)
  PROVE  CartInv'
<1> DEFINE does == IF op = "update" /\ q = 0 THEN "remove" ELSE op
           pc == IF does = "remove" THEN "delete" ELSE "read"
           r == [req[c] EXCEPT !.pc = pc, !.op = does, !.product = p, !.variant = v,
                               !.quantity = q, !.total = q]
<1>0. /\ TypeOK /\ req[c] \in Request /\ q \in Nat /\ MaxInFlight \in Nat
      /\ req[c].pc = "none"
  BY CartAssumption DEF CartInv, TypeOK, Receive, At
<1>1. does \in Ops /\ pc \in {"delete", "read"} /\ (pc = "delete" => does = "remove")
  BY DEF Ops
<1>2. does \in {"add", "update"} => q > 0
  BY <1>0, CartAssumption DEF Receive
<1>3. req' = [req EXCEPT ![c] = r] /\ UNCHANGED <<created, lines, stock>>
  BY <1>0 DEF Receive, TypeOK, Request
<1>4. /\ r \in Request
      /\ r.pc \in {"delete", "read"} /\ r.op = does /\ r.total = q
      /\ r.pc = "delete" => r.op = "remove"
  BY <1>0, <1>1 DEF Request, Waiting
<1> HIDE DEF r, does, pc
<1>5. Rewrites(c, r)
  BY <1>0, <1>3, <1>4, RewriteRecord
<1>6. TypeOK'
  BY <1>3, <1>5 DEF TypeOK, Rewrites, CartInv
<1>7. LinesAnswered'
  <2>1. \A l \in lines : l.id \in Calls /\ l.id # c
    BY <1>0, Distinct DEF CartInv, LinesAnswered, TypeOK, Line
  <2> QED
    BY <1>3, <1>5, <2>1 DEF LinesAnswered, Rewrites, CartInv
<1>8. ASSUME NEW d \in Calls PROVE Sound(d)'
  <2>1. CASE d = c
    BY <1>2, <1>4, <1>5, <2>1 DEF Sound, Rewrites
  <2>2. CASE d # c
    <3>1. req'[d] = req[d]
      BY <1>5, <2>2 DEF Rewrites
    <3> QED
      BY <3>1 DEF Sound, CartInv
  <2> QED
    BY <2>1, <2>2
<1>9. QuantityCovered'
  BY <1>3 DEF QuantityCovered, CartInv
<1>10. Cardinality(InFlight') <= MaxInFlight
  <2>1. InFlight \subseteq Calls /\ InFlight' \subseteq InFlight \union {c}
    BY <1>5 DEF InFlight, Rewrites
  <2>2. IsFiniteSet(InFlight) /\ Cardinality(InFlight) \in Nat
    BY <2>1, FiniteCalls
  <2>3. Cardinality(InFlight) < MaxInFlight
    BY DEF Receive
  <2>4. /\ IsFiniteSet(InFlight \union {c})
        /\ Cardinality(InFlight \union {c}) <= Cardinality(InFlight) + 1
        /\ Cardinality(InFlight \union {c}) \in Nat
    <3>1. /\ IsFiniteSet(InFlight \union {c})
          /\ \/ Cardinality(InFlight \union {c}) = Cardinality(InFlight)
             \/ Cardinality(InFlight \union {c}) = Cardinality(InFlight) + 1
      BY <2>2, FS_AddElement, Zenon
    <3> QED
      BY <2>2, <3>1
  <2>5. Cardinality(InFlight') <= Cardinality(InFlight \union {c}) /\ Cardinality(InFlight') \in Nat
    BY <2>1, <2>4, FS_Subset, FS_CardinalityType
  <2> QED
    BY <1>0, <2>2, <2>3, <2>4, <2>5
<1>11. ASSUME NEW z \in Products, NEW w \in Variants
       PROVE  Cardinality(Claims(z, w)') <= MaxInFlight
  <2>1. Inserting(z, w)' = Inserting(z, w)
    BY <1>0, <1>4, <1>5 DEF Inserting, At, Rewrites
  <2>2. Ids(z, w)' = Ids(z, w)
    BY <1>3 DEF Ids, LinesOf
  <2> QED
    BY <2>1, <2>2 DEF Claims, CartInv
<1> QED
  BY <1>6, <1>7, <1>8, <1>9, <1>10, <1>11 DEF CartInv

LEMMA SnapshotKeepsInv ==
  ASSUME CartInv, NEW c \in Calls, Snapshot(c)
  PROVE  CartInv'
<1> DEFINE ids == {l.id : l \in LinesOf(req[c].product, req[c].variant)}
<1>0. /\ c \in InFlight /\ TypeOK /\ req[c] \in Request /\ req[c].pc = "upsert"
      /\ req[c].product \in Products /\ req[c].variant \in Variants
      /\ req[c].total > 0 /\ req[c].total \in Nat
      /\ created' \in BOOLEAN /\ UNCHANGED <<lines, stock>>
  BY DEF InFlight, At, Waiting, CartInv, TypeOK, Sound, Request, Snapshot
<1>1. CASE stock[req[c].variant] >= req[c].total
  <2> DEFINE r == [req[c] EXCEPT !.pc = "write", !.found = ids]
  <2>1. ids \subseteq Calls
    BY <1>0 DEF LinesOf, TypeOK, Line
  <2>2. req' = [req EXCEPT ![c] = r]
    BY <1>0, <1>1 DEF Snapshot, TypeOK
  <2>3. /\ r \in Request /\ r.pc = "write" /\ r.found = ids
        /\ r.product = req[c].product /\ r.variant = req[c].variant
        /\ r.total = req[c].total
    <3> HIDE DEF ids
    <3> QED
      BY <1>0, <2>1 DEF Request, Waiting
  <2>4. ids = {} => LinesOf(r.product, r.variant) = {}
    BY <2>3
  <2> HIDE DEF r, ids
  <2>5. Rewrites(c, r)
    BY <1>0, <2>2, <2>3, RewriteRecord
  <2>6. stock[req[c].variant] \in 0..MaxStock
    BY <1>0 DEF TypeOK
  <2>7. Sound(c)'
    BY <1>0, <1>1, <2>3, <2>5, <2>6, CartAssumption DEF Sound, Rewrites
  <2> QED
    BY <1>0, <2>3, <2>4, <2>5, <2>7, ReadKeepsInv DEF Waiting
<1>2. CASE ~(stock[req[c].variant] >= req[c].total)
  <2>1. NoRows(c)
    BY <1>2 DEF Snapshot
  <2> QED
    BY <1>0, <2>1, NoRowsKeepsInv
<1> QED
  BY <1>1, <1>2

LEMMA WriteKeepsInv ==
  ASSUME CartInv, NEW c \in Calls, Write(c)
  PROVE  CartInv'
<1> DEFINE total == req[c].total
           mine == [id |-> c, product |-> req[c].product,
                    variant |-> req[c].variant, quantity |-> total]
           old  == {l \in lines : l.id \in req[c].found}
           new  == {[l EXCEPT !.quantity = total] : l \in old}
<1>0. /\ c \in InFlight /\ TypeOK /\ req[c] \in Request /\ req[c].pc = "write"
      /\ total \in Nat \ {0} /\ total <= MaxStock
      /\ req[c].product \in Products /\ req[c].variant \in Variants /\ lines \subseteq Line
      /\ created' \in BOOLEAN /\ UNCHANGED stock
      /\ stock' \in [Variants -> 0..MaxStock]
  BY DEF InFlight, At, Waiting, CartInv, TypeOK, Sound, Request, Write
<1>1. CASE Cardinality(req[c].found) > 1 /\ Answer(c, "error", {}) /\ UNCHANGED lines
  BY <1>0, <1>1, AnswerKeepsInv DEF Answers
<1>2. CASE /\ Cardinality(req[c].found) = 1 /\ lines' = (lines \ old) \union new
           /\ IF old = {} THEN NoRows(c) ELSE Answer(c, "ok", new)
  <2>1. ASSUME NEW l \in old
        PROVE  LET n == [l EXCEPT !.quantity = total]
               IN  n \in Line /\ n.id = l.id /\ n.product = l.product
                 /\ n.variant = l.variant /\ n.quantity = total
    <3>1. l \in Line
      BY <1>0
    <3> HIDE DEF total
    <3> QED
      BY <1>0, <3>1 DEF Line
  <2>2. CASE old = {}
    <3>1. UNCHANGED lines /\ NoRows(c)
      BY <1>2, <2>2
    <3> QED
      BY <1>0, <3>1, NoRowsKeepsInv
  <2>3. CASE old # {}
    <3>1. new \subseteq Line
      BY <2>1
    <3>2. Answer(c, "ok", new)
      BY <1>2, <2>3
    <3>3. PICK r \in Request : Rewrites(c, r) /\ r.pc = "ok"
      BY <1>0, <3>1, <3>2, AnswerRewrites DEF Answers
    <3>4. \A l \in lines' : /\ l \in Line
                            /\ \E m \in lines : /\ m.id = l.id /\ m.product = l.product
                                                /\ m.variant = l.variant
                                                /\ l = IF m \in old
                                                       THEN [m EXCEPT !.quantity = total]
                                                       ELSE m
      BY <1>0, <1>2, <2>1
    <3>5. \A l \in lines' : l.id # c
      BY <1>0, <3>4, WaitingHasNoLine
    <3>6. \A l, m \in lines' : l.id = m.id => l = m
      BY <3>4 DEF CartInv, LinesAnswered
    <3>7. \A l \in lines' : l.quantity <= MaxStock
      <4>1. \A m \in lines : m.quantity <= MaxStock
        BY DEF CartInv, QuantityCovered
      <4>2. \A m \in old : [m EXCEPT !.quantity = total].quantity = total
        BY <2>1
      <4> QED
        BY <1>0, <3>4, <4>1, <4>2
    <3>8. Sound(c)'
      BY <3>3 DEF Sound, Rewrites
    <3> QED
      BY <1>0, <3>3, <3>4, <3>5, <3>6, <3>7, <3>8, StepKeepsInv DEF Answers
  <2> QED
    BY <2>2, <2>3
<1>3. CASE req[c].found = {} /\ Answer(c, "ok", {mine}) /\ lines' = lines \union {mine}
  <2>1. /\ mine \in Line /\ mine.id = c /\ mine.product = req[c].product
        /\ mine.variant = req[c].variant /\ mine.quantity = total
    BY <1>0 DEF Line
  <2> HIDE DEF mine
  <2>2. PICK r \in Request : Rewrites(c, r) /\ r.pc = "ok"
    BY <1>0, <1>3, <2>1, AnswerRewrites DEF Answers
  <2>3. \A l \in lines : l.id # c
    BY <1>0, WaitingHasNoLine
  <2>4. c \in Inserting(mine.product, mine.variant)
    BY <1>0, <1>3, <2>1 DEF Inserting, At
  <2>5. \A l, m \in lines' : l.id = m.id => l = m
    BY <1>3, <2>1, <2>3 DEF CartInv, LinesAnswered
  <2>6. \A l \in lines' : l.quantity <= MaxStock
    BY <1>0, <1>3, <2>1 DEF CartInv, QuantityCovered
  <2>7. Sound(c)'
    BY <2>2 DEF Sound, Rewrites
  <2> QED
    BY <1>0, <1>3, <2>1, <2>2, <2>3, <2>4, <2>5, <2>6, <2>7, StepKeepsInv DEF Answers
<1> QED
  BY <1>1, <1>2, <1>3 DEF Write

(* A removal and the clearing of the cart only take lines away.            *)
LEMMA RemoveKeepsInv ==
  ASSUME CartInv, NEW c \in Calls, Delete(c) \/ ClearCart(c)
  PROVE  CartInv'
<1>0. /\ c \in InFlight /\ TypeOK /\ req[c] \in Request /\ lines \subseteq Line
      /\ lines' \subseteq lines /\ created' \in BOOLEAN /\ stock' = stock
      /\ stock' \in [Variants -> 0..MaxStock]
  BY DEF InFlight, At, Waiting, CartInv, TypeOK, Delete, ClearCart
<1>1. /\ \A l \in lines : l.id # c
      /\ \A l, m \in lines' : l.id = m.id => l = m
      /\ \A l \in lines' : l.quantity <= MaxStock
  BY <1>0, WaitingHasNoLine DEF CartInv, LinesAnswered, QuantityCovered
<1>2. CASE ClearCart(c)
  <2>1. PICK r \in Request : Rewrites(c, r) /\ r.pc = "ok"
    BY <1>0, <1>2, AnswerRewrites DEF ClearCart, Answers
  <2>2. Sound(c)'
    BY <2>1 DEF Sound, Rewrites
  <2> QED
    BY <1>0, <1>1, <2>1, <2>2, StepKeepsInv DEF Answers
<1>3. CASE Delete(c)
  <2>1. PICK r \in Request : Rewrites(c, r) /\ r = [req[c] EXCEPT !.pc = "read"]
    BY <1>0, <1>3, GotoRewrites DEF Delete, Waiting
  <2>2. r.pc = "read" /\ r.op = req[c].op /\ r.total = req[c].total
    BY <1>0, <2>1 DEF Request
  <2>3. req[c].op = "remove"
    BY <1>0, <1>3 DEF Delete, At, CartInv, Sound
  <2>4. Sound(c)'
    BY <2>1, <2>2, <2>3 DEF Sound, Rewrites
  <2> QED
    BY <1>0, <1>1, <2>1, <2>2, <2>4, StepKeepsInv DEF Waiting
<1> QED
  BY <1>2, <1>3

LEMMA CartInvInit == Init => CartInv
<1> SUFFICES ASSUME Init PROVE CartInv
  OBVIOUS
<1> USE DEF Init
<1>1. Idle \in Request /\ Idle.pc = "none"
  BY CartAssumption DEF Idle, Request, Ops
<1>2. \A c \in Calls : req[c] \in Request /\ req[c].pc = "none"
  BY <1>1
<1>3. TypeOK
  BY <1>1 DEF TypeOK
<1>4. InFlight = {} /\ \A p \in Products, v \in Variants : Claims(p, v) = {}
  BY <1>2, Distinct DEF InFlight, Claims, Ids, LinesOf, Inserting, At
<1>5. Cardinality({}) <= MaxInFlight
  BY FS_EmptySet, CartAssumption
<1> QED
  BY <1>2, <1>3, <1>4, <1>5 DEF CartInv, LinesAnswered, Sound, QuantityCovered

LEMMA CartInvNext == CartInv /\ [Next]_vars => CartInv'
<1> SUFFICES ASSUME CartInv, [Next]_vars PROVE CartInv'
  OBVIOUS
<1>1. ASSUME NEW c \in Calls, ReadItems(c) PROVE CartInv'
  <2> DEFINE r == [req[c] EXCEPT !.pc = "find", !.seen = lines]
  <2>0. /\ c \in InFlight /\ TypeOK /\ req[c] \in Request /\ lines \subseteq Line
        /\ created' \in BOOLEAN /\ UNCHANGED <<lines, stock>> /\ req[c].pc = "read"
    BY <1>1 DEF InFlight, At, Waiting, CartInv, TypeOK, ReadItems
  <2>1. /\ r \in Request /\ r.pc = "find"
        /\ r.op = req[c].op /\ r.total = req[c].total
    BY <2>0 DEF Request, Waiting
  <2>2. req' = [req EXCEPT ![c] = r]
    BY <1>1, <2>0 DEF ReadItems, TypeOK
  <2> HIDE DEF r
  <2>3. Rewrites(c, r)
    BY <2>0, <2>1, <2>2, RewriteRecord
  <2>4. Sound(c)'
    BY <2>0, <2>1, <2>3 DEF Sound, Rewrites, CartInv
  <2> QED
    BY <2>0, <2>1, <2>3, <2>4, ReadKeepsInv DEF Waiting
<1>2. ASSUME NEW c \in Calls, FindCart(c) PROVE CartInv'
  <2>0. /\ c \in InFlight /\ created' \in BOOLEAN /\ UNCHANGED <<lines, stock>>
        /\ At(c, "find")
        /\ req[c].op \in {"add", "update"} => req[c].total > 0
    BY <1>2 DEF InFlight, At, Waiting, CartInv, TypeOK, FindCart, Sound
  <2>1. CASE created
    BY <1>2, <2>0, <2>1, WithCartKeepsInv DEF FindCart
  <2>2. CASE ~created
    BY <1>2, <2>0, <2>2, GotoKeepsInv DEF FindCart, Waiting
  <2> QED
    BY <2>1, <2>2
<1>3. ASSUME NEW c \in Calls, CreateCart(c) PROVE CartInv'
  <2>0. c \in InFlight /\ created' \in BOOLEAN /\ UNCHANGED <<lines, stock>> /\ At(c, "create")
    BY <1>3 DEF InFlight, At, Waiting, CreateCart
  <2>1. CASE created
    BY <1>3, <2>0, <2>1, AnswerKeepsInv DEF CreateCart, Answers
  <2>2. CASE ~created
    BY <1>3, <2>0, <2>2, WithCartKeepsInv DEF CreateCart
  <2> QED
    BY <2>1, <2>2
<1>4. ASSUME NEW c \in Calls, Fail(c) PROVE CartInv'
  BY <1>4, AnswerKeepsInv DEF Fail, Answers, CartInv, TypeOK
<1>5. ASSUME NEW v \in Variants, NEW n \in 0..MaxStock, StockChanges(v, n)
      PROVE  CartInv'
  <2>1. TypeOK'
    BY <1>5 DEF StockChanges, CartInv, TypeOK
  <2> QED
    BY <1>5, <2>1 DEF StockChanges, CartInv, LinesAnswered, Sound, QuantityCovered,
                      InFlight, Claims, Ids, LinesOf, Inserting, At
<1>6. CASE UNCHANGED vars
  <2>1. \A p \in Products, v \in Variants : Claims(p, v)' = Claims(p, v)
    BY <1>6 DEF vars, Claims, Ids, LinesOf, Inserting, At
  <2>2. TypeOK' /\ LinesAnswered' /\ QuantityCovered' /\ InFlight' = InFlight
    BY <1>6 DEF vars, CartInv, TypeOK, LinesAnswered, QuantityCovered, InFlight
  <2>3. \A c \in Calls : Sound(c)'
    BY <1>6 DEF vars, CartInv, Sound
  <2> QED
    BY <2>1, <2>2, <2>3 DEF CartInv
<1>7. ASSUME NEW c \in Calls, NEW op \in Ops, NEW p \in Products, NEW v \in Variants,
             NEW q \in 0..MaxAsked, Receive(c, op, p, v, q)
      PROVE  CartInv'
  BY <1>7, ReceiveKeepsInv
<1>8. ASSUME NEW c \in Calls, Step(c) PROVE CartInv'
  BY <1>1, <1>2, <1>3, <1>4, <1>8, SnapshotKeepsInv, WriteKeepsInv, RemoveKeepsInv
     DEF Step
<1> QED
  BY <1>5, <1>6, <1>7, <1>8 DEF Next

LEMMA LinesCounted ==
  ASSUME CartInv, NEW p \in Products, NEW v \in Variants
  PROVE  Cardinality(LinesOf(p, v)) + Cardinality(Inserting(p, v)) = Cardinality(Claims(p, v))
<1>1. Ids(p, v) \subseteq Calls /\ Inserting(p, v) \subseteq Calls
  BY DEF Ids, LinesOf, Inserting, CartInv, TypeOK, Line
<1>2. /\ IsFiniteSet(Ids(p, v)) /\ IsFiniteSet(Inserting(p, v))
      /\ Cardinality(Ids(p, v)) \in Nat /\ Cardinality(Inserting(p, v)) \in Nat
  BY <1>1, FiniteCalls
<1>3. Cardinality(LinesOf(p, v)) = Cardinality(Ids(p, v))
  <2> DEFINE f == [l \in LinesOf(p, v) |-> l.id]
  <2>1. f \in Bijection(LinesOf(p, v), Ids(p, v))
    BY DEF Ids, LinesOf, CartInv, LinesAnswered, Bijection, Injection,
           Surjection, IsInjective
  <2> QED
    BY <1>2, <2>1, FS_Injection, FS_Surjection DEF Bijection
<1>4. Ids(p, v) \intersect Inserting(p, v) = {}
  BY Distinct DEF Ids, LinesOf, Inserting, At, CartInv, LinesAnswered, Answers
<1>5. Cardinality(Ids(p, v) \intersect Inserting(p, v)) = 0
  BY <1>4, FS_EmptySet
<1>6. Cardinality(Claims(p, v)) = Cardinality(Ids(p, v)) + Cardinality(Inserting(p, v)) - 0
  BY <1>2, <1>5, FS_Union DEF Claims
<1> QED
  BY <1>2, <1>3, <1>6

(* What the theorems below rest on: every line of the cart comes from one   *)
(* answered request, what an upsert will write is positive and was covered  *)
(* when it looked, and the requests that own or will insert a line of one   *)
(* product and variant never outnumber those in flight at once.            *)
THEOREM CartInvariant == Spec => []CartInv
<1> QED
  BY CartInvInit, CartInvNext, PTL DEF Spec

(* Every column and request keeps its type: no sequence of adds, updates    *)
(* and removals stores a line of no units.                                 *)
THEOREM CartTyped == Spec => []TypeOK
<1>1. CartInv => TypeOK
  BY DEF CartInv
<1> QED
  BY <1>1, CartInvariant, PTL

(* No line of the cart ever asks for more than there ever was.             *)
THEOREM LinesAreCovered == Spec => []QuantityCovered
<1>1. CartInv => QuantityCovered
  BY DEF CartInv
<1> QED
  BY <1>1, CartInvariant, PTL

(* With n requests at a time a product's variant has at most n lines; in    *)
(* particular it has one if the customer's requests come one after another. *)
THEOREM DuplicatesAreBounded == Spec => []DuplicatesBounded
<1>1. CartInv => DuplicatesBounded
  BY LinesCounted DEF DuplicatesBounded, CartInv
<1> QED
  BY <1>1, CartInvariant, PTL
=============================================================================
