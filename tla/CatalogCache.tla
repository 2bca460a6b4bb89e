---------------------------- MODULE CatalogCache ----------------------------
(***************************************************************************)
(* The in-memory cache of one server process and the requests that fill    *)
(* and invalidate it.  A request is a script of steps (a cache call or a   *)
(* database call each); requests interleave between steps.  Of the data    *)
(* only this matters: is what was read still what the database holds, and  *)
(* if not, for how long.                                                   *)
(***************************************************************************)
EXTENDS Naturals, Sequences, FiniteSets

CONSTANTS
  Calls,     \* ids of requests being served; an id is used again
  Ops,       \* bound: the kinds of request that arrive
  TTL,       \* cache key -> how many ticks an entry is served
  MaxRead,   \* bound: ticks between a read's start and the Set of its result
  Faults     \* do database calls fail, and does the process restart?

(* nav stands for the navigation tree and the three flat lists, which are  *)
(* filled and deleted alike; product for the entry of one slug; report for *)
(* the dashboard statistics.                                               *)
Keys == {"tree", "nav", "product", "stats", "sitemap", "report", "enums"}

(* A product is stored with its categories and collections; the sitemap     *)
(* lists all three.                                                        *)
Affected == [category   |-> {"tree", "nav", "product", "sitemap"},
             collection |-> {"product", "sitemap"},
             product    |-> {"product", "stats", "sitemap", "report"},
             zone       |-> {"enums"}]

(* Reads that answer without the part whose query failed.                  *)
Tolerant == {"tree", "nav", "product", "sitemap", "enums"}

-----------------------------------------------------------------------------
View(k) == << <<"get", k>>, <<"read", k>>, <<"set", k>> >>

(* Create, update and delete invalidate first.                             *)
SaveCategory ==
  << <<"delete", "tree">>, <<"delete", "nav">>, <<"write", "category">> >>

(* Each row is a statement of its own; then the tree is read and stored.   *)
ReorderCategories == << <<"write", "category">>, <<"write", "category">>,
                        <<"read", "tree">>, <<"set", "tree">> >>

UpdateProduct ==
  << <<"delete", "product">>, <<"delete", "stats">>, <<"write", "product">> >>

(* Create, delete, status, stock adjustment, and an update that renames    *)
(* the slug: the entry of the (old) slug stays.                            *)
ChangeProduct == << <<"delete", "stats">>, <<"write", "product">> >>

(* Create, update, delete, and a product's link to one: none invalidates.   *)
ChangeCollection == << <<"write", "collection">> >>

(* Checkout, cancellation, return: orders move stock behind the catalog.   *)
ChangeStock == << <<"write", "product">> >>

(* Mutant: invalidate first, as the catalog does.                          *)
SaveZoneEarly == << <<"delete", "enums">>, <<"write", "zone">> >>

SaveZone == << <<"write", "zone">>, <<"delete", "enums">> >>

Writers == {"saveCategory", "reorder", "updateProduct", "changeProduct",
            "changeStock", "changeCollection", "saveZone"}

(* The entries each kind of request means to invalidate.                   *)
Promised(op) ==
  CASE op = "saveCategory"  -> {"tree", "nav"}
    [] op = "updateProduct" -> {"product", "stats"}
    [] op = "changeProduct" -> {"stats"}
    [] op = "saveZone"      -> {"enums"}
    [] OTHER                -> {}

Script == [op \in Keys \union Writers |->
  CASE op \in Keys            -> View(op)
    [] op = "saveCategory"    -> SaveCategory
    [] op = "reorder"         -> ReorderCategories
    [] op = "updateProduct"   -> UpdateProduct
    [] op = "changeProduct"   -> ChangeProduct
    [] op = "changeStock"     -> ChangeStock
    [] op = "changeCollection" -> ChangeCollection
    [] op = "saveZone"        -> SaveZone]

ASSUME CatalogCacheAssumption ==
  /\ Ops \subseteq Keys \union Writers
  /\ TTL \in [Keys -> Nat] /\ MaxRead \in Nat /\ Faults \in BOOLEAN

VARIABLES
  cache,    \* cache key -> entry, for the keys that have one
  call,     \* request -> its kind and the step it is at
  copy      \* request -> what it has read, between its read and its Set

vars == <<cache, call, copy>>

(* current: the database still holds this; behind: ticks since it does     *)
(* not; age: ticks since it was read, in a copy, or stored, in an entry;   *)
(* missed: why no request may be about to invalidate it.  "overlap": it    *)
(* was stored while a change to it was under way; "late": it was out of    *)
(* date or incomplete when it was stored, or what changed it since failed  *)
(* or does not invalidate it.                                              *)
Data == [current : BOOLEAN, behind : Nat, age : Nat, missed : {"no", "overlap", "late"}]
Fresh == [current |-> TRUE, behind |-> 0, age |-> 0, missed |-> "no"]
Lacking == [Fresh EXCEPT !.current = FALSE]

Empty == [x \in {} |-> Fresh]
With(f, x, y) == [z \in DOMAIN f \union {x} |-> IF z = x THEN y ELSE f[z]]
Without(f, x) == [z \in DOMAIN f \ {x} |-> f[z]]

Outdate(d) == [d EXCEPT !.current = FALSE]
Abandon(d) == [d EXCEPT !.current = FALSE, !.missed = "late"]
Older(d) ==
  [d EXCEPT !.age = d.age + 1, !.behind = IF d.current THEN 0 ELSE d.behind + 1]

Steps(c) == Script[call[c].op]
Does(c, verb, of) ==
  c \in DOMAIN call /\ Steps(c)[call[c].step] = <<verb, of>>
(* The step is this one or one of those that follow.                       *)
Ahead(c, verb, of) ==
  c \in DOMAIN call /\ \E i \in DOMAIN Steps(c) :
                         i >= call[c].step /\ Steps(c)[i] = <<verb, of>>
Changing(k) ==
  \E c \in DOMAIN call, r \in DOMAIN Affected :
    k \in Affected[r] /\ Ahead(c, "write", r)

Finish(c) == call' = Without(call, c)
Continue(c) ==
  IF call[c].step = Len(Steps(c)) THEN Finish(c)
  ELSE call' = [call EXCEPT ![c].step = @ + 1]

-----------------------------------------------------------------------------
Begin(c, op) ==
  /\ c \notin DOMAIN call
  /\ call' = With(call, c, [op |-> op, step |-> 1])
  /\ UNCHANGED <<cache, copy>>

(* Mutant: a hit starts the entry's time to live anew.                     *)
GetSliding(c, k) ==
  /\ Does(c, "get", k)
  /\ IF k \in DOMAIN cache
     THEN Finish(c) /\ cache' = [cache EXCEPT ![k].age = 0]
     ELSE Continue(c) /\ UNCHANGED cache
  /\ UNCHANGED copy

Get(c, k) ==
  /\ Does(c, "get", k)
  /\ IF k \in DOMAIN cache THEN Finish(c) ELSE Continue(c)
  /\ UNCHANGED <<cache, copy>>

(* The copy is taken when the read starts: what changes while its queries  *)
(* run may be missing from it.                                             *)
Read(c, k) ==
  /\ Does(c, "read", k)
  /\ Continue(c)
  /\ \/ copy' = With(copy, c, Fresh)
     \/ Faults /\ k \in Tolerant /\ copy' = With(copy, c, Lacking)
  /\ UNCHANGED cache

FailRead(c, k) ==
  /\ Faults
  /\ Does(c, "read", k)
  /\ k # "enums"    \* GetEnums ignores the error
  /\ Finish(c)
  /\ UNCHANGED <<cache, copy>>

Missed(d, k) ==
  IF ~d.current THEN "late" ELSE IF Changing(k) THEN "overlap" ELSE "no"

Set(c, k) ==
  /\ Does(c, "set", k)
  /\ cache' = With(cache, k, [copy[c] EXCEPT !.age = 0, !.missed = Missed(copy[c], k)])
  /\ copy' = Without(copy, c)
  /\ Continue(c)

Delete(c, k) ==
  /\ Does(c, "delete", k)
  /\ cache' = Without(cache, k)
  /\ Continue(c)
  /\ UNCHANGED copy

(* What showed the rows of r is out of date; of the entries, those of kept  *)
(* are left to the request that made the change.                           *)
Change(r, kept) ==
  /\ cache' = [k \in DOMAIN cache |->
                 IF k \notin Affected[r] THEN cache[k]
                 ELSE IF k \in kept THEN Outdate(cache[k]) ELSE Abandon(cache[k])]
  /\ copy' = [c \in DOMAIN copy |->
                 IF \E k \in Affected[r] : Does(c, "set", k)
                 THEN Outdate(copy[c]) ELSE copy[c]]

Write(c, r) ==
  /\ Does(c, "write", r)
  /\ Change(r, Promised(call[c].op))
  /\ Continue(c)

(* The error may hide that the statement took effect.                      *)
FailWrite(c, r) ==
  /\ Faults
  /\ Does(c, "write", r)
  /\ Change(r, {}) \/ UNCHANGED <<cache, copy>>
  /\ Finish(c)

(* Time passes; an entry past its time to live is no longer found.         *)
Tick ==
  /\ \A c \in DOMAIN copy : copy[c].age < MaxRead
  /\ cache' = [k \in {x \in DOMAIN cache : cache[x].age < TTL[x]} |->
                 Older(cache[k])]
  /\ copy' = [c \in DOMAIN copy |-> Older(copy[c])]
  /\ UNCHANGED call

Restart ==
  /\ Faults
  /\ cache' = Empty
  /\ copy' = Empty
  /\ call' = Empty

Init == cache = Empty /\ copy = Empty /\ call = Empty

CacheStep(c) == \E k \in Keys : Get(c, k) \/ Set(c, k) \/ Delete(c, k)
DatabaseStep(c) ==
  \/ \E k \in Keys : Read(c, k) \/ FailRead(c, k)
  \/ \E r \in DOMAIN Affected : Write(c, r) \/ FailWrite(c, r)

Next ==
  \/ \E c \in Calls : (\E op \in Ops : Begin(c, op)) \/ CacheStep(c) \/ DatabaseStep(c)
  \/ Tick
  \/ Restart

Spec == Init /\ [][Next]_vars

-----------------------------------------------------------------------------
(* Entries are within their time to live, copies are as young as assumed,  *)
(* a request holds a copy exactly when it is about to store one, and what  *)
(* is current is not behind.                                               *)
TypeOK ==
  /\ DOMAIN cache \subseteq Keys /\ cache \in [DOMAIN cache -> Data]
  /\ DOMAIN call \subseteq Calls /\ call \in [DOMAIN call -> [op : Ops, step : Nat]]
  /\ \A c \in DOMAIN call : call[c].step \in DOMAIN Steps(c)
  /\ DOMAIN copy = {c \in Calls : \E k \in Keys : Does(c, "set", k)}
  /\ copy \in [DOMAIN copy -> Data]
  /\ \A k \in DOMAIN cache : cache[k].age <= TTL[k]
  /\ \A c \in DOMAIN copy : copy[c].age <= MaxRead

(* However requests, failures and restarts interleave, nobody is served    *)
(* what the database has not held (or what a failed query left out) for    *)
(* longer than the entry's time to live and one read.                      *)
StalenessBounded ==
  \A k \in DOMAIN cache : cache[k].behind <= TTL[k] + MaxRead

(* An entry is out of date only while the Delete of the request that        *)
(* changed the rows is to come, unless that request failed or never        *)
(* deletes it, or a reader stored what had changed since it read, or       *)
(* stored it while the change was under way.  The last may happen because  *)
(* the catalog invalidates before it writes; it never happens to the enums, *)
(* whose handlers invalidate after they write.                             *)
Invalidated ==
  \A k \in DOMAIN cache :
    ~cache[k].current =>
      \/ cache[k].missed = "late"
      \/ cache[k].missed = "overlap" /\ k # "enums"
      \/ \E c \in Calls : Does(c, "delete", k)

(* "Invalidate cache" in UpdateCategory: an entry is out of date only for   *)
(* as long as its Delete is to come, or because of a read begun earlier.   *)
CategoriesInvalidated ==
  \A k \in DOMAIN cache \intersect {"tree", "nav"} :
    ~cache[k].current =>
      cache[k].missed = "late" \/ \E c \in Calls : Does(c, "delete", k)
=============================================================================
