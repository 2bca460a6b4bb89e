----------------------------- MODULE CategoryTree -----------------------------
(***************************************************************************)
(* The category tree, read one query per category while administrators     *)
(* move, hide, create and delete categories and reorder them row by row.    *)
(* No statement checks that a parent is not below its own child.  What is   *)
(* read is cached for half an hour (CatalogCache), torn or not.  Positions  *)
(* among siblings (order_index) are any order.                             *)
(***************************************************************************)
EXTENDS Integers, FiniteSets, Functions, SequencesExt

CONSTANTS
  Categories,      \* ids
  Requests,        \* ids of the requests that read the tree
  Depth,           \* levels below the roots (3 in buildCategoryTree)
  InitCategories,  \* the rows there may be at first
  MaxItems,        \* bound: items of a reorder
  MaxWalks,        \* bound: walks at the same time, which do not meet
  MaxWrites        \* bound: statements that change a row

VARIABLES
  categories,  \* id -> its row, for those that have one
  issued,      \* ids ever given to a row
  request,     \* request -> where it is
  writes       \* statements so far

treeVars == <<categories, issued, request, writes>>

None == "none"
CategoryRow == [parent : Categories \union {None}, visible : BOOLEAN]

(* Rows whose parents are rows.                                             *)
Linked(rows) ==
  /\ DOMAIN rows \subseteq Categories /\ rows \in [DOMAIN rows -> CategoryRow]
  /\ \A c \in DOMAIN rows : rows[c].parent \in DOMAIN rows \union {None}

ASSUME DepthAssumption ==
  /\ Depth \in Nat \ {0} /\ MaxItems \in Nat /\ MaxWrites \in Nat

ASSUME CategoriesAssumption == IsFiniteSet(Categories) /\ None \notin Categories

ASSUME InitAssumption == \A rows \in InitCategories : Linked(rows)

(* A request: how many items a reorder has left to write; of the walk,      *)
(* whether it is for the navigation, the categories whose children it has   *)
(* yet to ask for and how often it has shown each.  The last four note what *)
(* happened meanwhile, for the properties.                                 *)
Idle == [pc |-> "idle", items |-> 0, nav |-> FALSE, todo |-> <<>>,
         shown |-> [c \in Categories |-> 0],
         changed |-> {}, failed |-> {}, placed |-> 0, circled |-> FALSE]

Reading(r) == request[r].pc = "walk"
CanWalk == Cardinality({r \in Requests : Reading(r)}) < MaxWalks

(* c and what is above it in rows, nearest first, over n categories.        *)
Above(rows, c) ==
  LET up[n \in 0..Cardinality(Categories)] ==
        IF n = 0 THEN c
        ELSE IF up[n - 1] = None THEN None ELSE rows[up[n - 1]].parent
  IN  up

InCircle(rows, c) == \E n \in DOMAIN Above(rows, c) \ {0} : Above(rows, c)[n] = c

(* What a statement made of the rows, as every walk under way is judged by. *)
Noticed(rows, changed) ==
  LET placed == {c \in changed : c \in DOMAIN rows \intersect DOMAIN categories
                                   /\ rows[c].parent \notin {None, categories[c].parent}}
      circle == \E c \in placed : InCircle(rows, c)
  IN  [r \in Requests |->
         IF Reading(r)
         THEN [request[r] EXCEPT !.changed = @ \union changed,
                                 !.placed = @ + Cardinality(placed),
                                 !.circled = @ \/ circle]
         ELSE request[r]]

-----------------------------------------------------------------------------
(* Statements *)

(* Mutant: parent_id IS NULL is missing.                                   *)
RootsAnywhere(nav) == {c \in DOMAIN categories : nav => categories[c].visible}

(* parent_id IS NULL, for the navigation is_active and show_in_nav.         *)
Roots(nav) ==
  {c \in DOMAIN categories : categories[c].parent = None /\ (nav => categories[c].visible)}

Children(p, nav) ==
  {c \in DOMAIN categories : categories[c].parent = p /\ (nav => categories[c].visible)}

Exists(p) == p \in DOMAIN categories \union {None}

CreateCategory(c, p, visible) ==
  /\ c \notin issued /\ Exists(p)
  /\ categories' = [d \in DOMAIN categories \union {c} |->
        IF d = c THEN [parent |-> p, visible |-> visible] ELSE categories[d]]
  /\ issued' = issued \union {c}
  /\ request' = Noticed(categories', {c})

(* The form writes every column; a parent that is not there is refused.     *)
UpdateCategory(c, p, visible) ==
  /\ c \in DOMAIN categories /\ Exists(p)
  /\ categories' = [categories EXCEPT ![c] = [parent |-> p, visible |-> visible]]
  /\ request' = Noticed(categories', IF categories' = categories THEN {} ELSE {c})
  /\ UNCHANGED issued

(* Mutant: the children keep the parent that is gone.                      *)
DeleteCategoryOnly(c) ==
  /\ c \in DOMAIN categories
  /\ categories' = Restrict(categories, DOMAIN categories \ {c})
  /\ request' = Noticed(categories', {c})
  /\ UNCHANGED issued

(* ON DELETE SET NULL: the children become roots.                          *)
DeleteCategory(c) ==
  LET children == Children(c, FALSE)
  IN  /\ c \in DOMAIN categories
      /\ categories' = [d \in DOMAIN categories \ {c} |->
            IF d \in children THEN [categories[d] EXCEPT !.parent = None] ELSE categories[d]]
      /\ request' = Noticed(categories', children \union {c})
      /\ UNCHANGED issued

-----------------------------------------------------------------------------
(* Requests that read the tree *)

(* The roots query starts the walk; what is noted starts with it.           *)
Walk(nav) ==
  {[Idle EXCEPT !.pc = "walk", !.nav = nav,
     !.todo = [i \in DOMAIN s |-> [id |-> s[i], depth |-> Depth]],
     !.shown = [c \in Categories |-> IF c \in Roots(nav) THEN 1 ELSE 0]] :
   s \in SetToSeqs(Roots(nav))}

GetCategoryTree(r, nav) ==
  /\ request[r].pc = "idle" /\ CanWalk
  /\ request' \in {[request EXCEPT ![r] = w] : w \in Walk(nav)}
  /\ UNCHANGED <<categories, issued>>

(* Mutant: depth 0 asks for children as well.                              *)
ReadChildrenDeeper(r) ==
  LET head == Head(request[r].todo)
      found == Children(head.id, request[r].nav)
  IN  /\ Reading(r) /\ request[r].todo # <<>>
      /\ \E s \in SetToSeqs(found) :
           request' = [request EXCEPT
             ![r].shown = [c \in Categories |-> @[c] + IF c \in found THEN 1 ELSE 0],
             ![r].todo = (IF head.depth >= 1
                          THEN [i \in DOMAIN s |-> [id |-> s[i], depth |-> head.depth - 1]]
                          ELSE <<>>) \o Tail(@)]
      /\ UNCHANGED <<categories, issued>>

(* getChildrenRecursive: one query, then the children before the siblings;  *)
(* nothing is asked at depth 0.                                            *)
ReadChildren(r) ==
  LET head == Head(request[r].todo)
      found == Children(head.id, request[r].nav)
  IN  /\ Reading(r) /\ request[r].todo # <<>>
      /\ \E s \in SetToSeqs(found) :
           request' = [request EXCEPT
             ![r].shown = [c \in Categories |-> @[c] + IF c \in found THEN 1 ELSE 0],
             ![r].todo = (IF head.depth > 1
                          THEN [i \in DOMAIN s |-> [id |-> s[i], depth |-> head.depth - 1]]
                          ELSE <<>>) \o Tail(@)]
      /\ UNCHANGED <<categories, issued>>

(* The error of the query is dropped: the category has no children.         *)
FailChildren(r) ==
  /\ Reading(r) /\ request[r].todo # <<>>
  /\ request' = [request EXCEPT ![r].failed = @ \union {Head(request[r].todo).id},
                          ![r].todo = Tail(@)]
  /\ UNCHANGED <<categories, issued>>

(* The tree goes to the cache and the client.                              *)
FinishWalk(r) ==
  /\ Reading(r) /\ request[r].todo = <<>>
  /\ request' = [request EXCEPT ![r] = Idle]
  /\ UNCHANGED <<categories, issued>>

Reorder(r, n) ==
  /\ request[r].pc = "idle"
  /\ request' = [request EXCEPT ![r] = [Idle EXCEPT !.pc = "reorder", !.items = n]]
  /\ UNCHANGED <<categories, issued>>

(* One UPDATE per item; an id that is not there changes no row.             *)
ReorderItem(r, c, p) ==
  LET moves == c \in DOMAIN categories /\ categories[c].parent # p
  IN  /\ request[r].pc = "reorder" /\ request[r].items > 0
      /\ c \in DOMAIN categories => Exists(p)
      /\ categories' = IF moves THEN [categories EXCEPT ![c].parent = p] ELSE categories
      /\ request' = [Noticed(categories', IF moves THEN {c} ELSE {}) EXCEPT ![r].items = @ - 1]
      /\ UNCHANGED issued

(* An item fails, or its parent is gone: those before it stay written.      *)
FailReorder(r) ==
  /\ request[r].pc = "reorder" /\ request[r].items > 0
  /\ request' = [request EXCEPT ![r] = Idle]
  /\ UNCHANGED <<categories, issued>>

(* "Warm the cache immediately with fresh data."                           *)
WarmCache(r) ==
  /\ request[r].pc = "reorder" /\ request[r].items = 0 /\ CanWalk
  /\ request' \in {[request EXCEPT ![r] = w] : w \in Walk(FALSE)}
  /\ UNCHANGED <<categories, issued>>

-----------------------------------------------------------------------------
TreeInit ==
  /\ categories \in InitCategories
  /\ issued = DOMAIN categories
  /\ request = [r \in Requests |-> Idle]
  /\ writes = 0

ChangeRows ==
  /\ writes < MaxWrites /\ writes' = writes + 1
  /\ \/ \E c \in Categories :
          \/ \E p \in Categories \union {None} :
               \/ \E visible \in BOOLEAN :
                    CreateCategory(c, p, visible) \/ UpdateCategory(c, p, visible)
               \/ \E r \in Requests : ReorderItem(r, c, p)
          \/ DeleteCategory(c)

Proceed ==
  /\ UNCHANGED writes
  /\ \E r \in Requests :
       \/ \E nav \in BOOLEAN : GetCategoryTree(r, nav)
       \/ ReadChildren(r) \/ FailChildren(r) \/ FinishWalk(r)
       \/ \E n \in 1..MaxItems : Reorder(r, n)
       \/ FailReorder(r) \/ WarmCache(r)

TreeNext == ChangeRows \/ Proceed

TreeSpec == TreeInit /\ [][TreeNext]_treeVars

-----------------------------------------------------------------------------
(* Properties *)

(* The rows and requests have their types: a parent is always there.        *)
TreeTypeOK ==
  /\ DOMAIN categories \subseteq issued /\ issued \subseteq Categories
  /\ Linked(categories)
  /\ \A r \in Requests :
       /\ request[r].pc \in {"idle", "reorder", "walk"}
       /\ \A i \in DOMAIN request[r].todo :
            request[r].todo[i] \in [id : Categories, depth : 1..Depth]
       /\ request[r].shown \in [Categories -> Nat]
  /\ writes \in 0..MaxWrites

(* c with all above it.                                                    *)
Chain(c) == Range(Above(categories, c)) \ {None}

(* A root within reach of the walk; one in a circle is in nobody's.         *)
InReach(c) ==
  \E n \in (1..Depth + 1) \intersect (0..Cardinality(Categories)) : Above(categories, c)[n] = None

(* What was left alone while a tree was read is in it exactly once if it is *)
(* within reach, and for the navigation visible with all above it, and not  *)
(* at all otherwise: one in a circle, or too deep, has silently vanished.   *)
TreeExact ==
  \A r \in Requests, c \in DOMAIN categories :
    Reading(r) /\ request[r].todo = <<>>
      /\ Chain(c) \intersect (request[r].changed \union request[r].failed) = {} =>
        request[r].shown[c] =
          IF InReach(c) /\ (request[r].nav => \A d \in Chain(c) : categories[d].visible)
          THEN 1 ELSE 0

PowerOfTwo[n \in Nat] == IF n = 0 THEN 1 ELSE 2 * PowerOfTwo[n - 1]

(* What is moved while a tree is read may be in it again: each placement    *)
(* below another category at most doubles how often, unless it closes a     *)
(* circle, which only the depth ends.                                      *)
CopiesBounded ==
  \A r \in Requests, c \in Categories :
    ~request[r].circled => request[r].shown[c] <= PowerOfTwo[request[r].placed]
=============================================================================
