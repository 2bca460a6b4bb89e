---------------------------- MODULE CatalogProofs ----------------------------
(***************************************************************************)
(* What the catalog may serve: how stale the cache can be, for any         *)
(* requests, times to live and reads, and what a tree of categories shows   *)
(* that is read while the rows change, for any categories, requests and    *)
(* depth.                                                                  *)
(***************************************************************************)
EXTENDS CatalogCache, CategoryTree, SumProofs, NaturalsInduction, SequenceTheorems, TLAPS

-----------------------------------------------------------------------------
(* The cache *)

(* Of the scripts: a read is followed by the Set of its key, and a Set is  *)
(* preceded by its read.                                                   *)
LEMMA ScriptShape ==
  ASSUME NEW op \in Keys \union Writers
  PROVE  /\ Len(Script[op]) \in Nat \ {0}
         /\ DOMAIN Script[op] = 1..Len(Script[op])
         /\ \A k \in Keys : Script[op][1] # <<"set", k>>
         /\ \A i \in DOMAIN Script[op], k \in Keys :
              Script[op][i] = <<"read", k>> =>
                i + 1 \in DOMAIN Script[op] /\ Script[op][i + 1] = <<"set", k>>
         /\ \A i \in DOMAIN Script[op], k \in Keys :
              i + 1 \in DOMAIN Script[op] /\ Script[op][i + 1] = <<"set", k>> =>
                Script[op][i] = <<"read", k>>
<1>1. CASE op \in Keys
  <2>1. Script[op] = << <<"get", op>>, <<"read", op>>, <<"set", op>> >>
    BY <1>1 DEF Script, View, Keys, Writers
  <2>3. Len(Script[op]) = 3 /\ DOMAIN Script[op] = 1..3
    BY <2>1
  <2> QED
    BY <2>1, <2>3
<1>2. CASE op = "saveCategory"
  <2>1. Script[op] = << <<"delete", "tree">>, <<"delete", "nav">>, <<"write", "category">> >>
    BY <1>2 DEF Script, SaveCategory, Keys, Writers
  <2>3. Len(Script[op]) = 3 /\ DOMAIN Script[op] = 1..3
    BY <2>1
  <2> QED
    BY <2>1, <2>3
<1>3. CASE op = "reorder"
  <2>1. Script[op] = << <<"write", "category">>, <<"write", "category">>,
                        <<"read", "tree">>, <<"set", "tree">> >>
    BY <1>3 DEF Script, ReorderCategories, Keys, Writers
  <2>3. Len(Script[op]) = 4 /\ DOMAIN Script[op] = 1..4
    BY <2>1
  <2> QED
    BY <2>1, <2>3
<1>4. CASE op = "updateProduct"
  <2>1. Script[op] = << <<"delete", "product">>, <<"delete", "stats">>, <<"write", "product">> >>
    BY <1>4 DEF Script, UpdateProduct, Keys, Writers
  <2>3. Len(Script[op]) = 3 /\ DOMAIN Script[op] = 1..3
    BY <2>1
  <2> QED
    BY <2>1, <2>3
<1>5. CASE op = "changeProduct"
  <2>1. Script[op] = << <<"delete", "stats">>, <<"write", "product">> >>
    BY <1>5 DEF Script, ChangeProduct, Keys, Writers
  <2>3. Len(Script[op]) = 2 /\ DOMAIN Script[op] = 1..2
    BY <2>1
  <2> QED
    BY <2>1, <2>3
<1>6. CASE op = "changeStock"
  <2>1. Script[op] = << <<"write", "product">> >>
    BY <1>6 DEF Script, ChangeStock, Keys, Writers
  <2>3. Len(Script[op]) = 1 /\ DOMAIN Script[op] = 1..1
    BY <2>1
  <2> QED
    BY <2>1, <2>3
<1>7. CASE op = "saveZone"
  <2>1. Script[op] = << <<"write", "zone">>, <<"delete", "enums">> >>
    BY <1>7 DEF Script, SaveZone, Keys, Writers
  <2>3. Len(Script[op]) = 2 /\ DOMAIN Script[op] = 1..2
    BY <2>1
  <2> QED
    BY <2>1, <2>3
<1>8. CASE op = "changeCollection"
  <2>1. Script[op] = << <<"write", "collection">> >>
    BY <1>8 DEF Script, ChangeCollection, Keys, Writers
  <2>3. Len(Script[op]) = 1 /\ DOMAIN Script[op] = 1..1
    BY <2>1
  <2> QED
    BY <2>1, <2>3
<1> QED
  BY <1>1, <1>2, <1>3, <1>4, <1>5, <1>6, <1>7, <1>8 DEF Writers

-----------------------------------------------------------------------------
(* The requests that are about to store what they have read.               *)
Storing == {c \in Calls : \E k \in Keys : Does(c, "set", k)}

(* Nothing is behind for longer than it has been read: a copy since its    *)
(* read began, an entry since it was stored, after a read of at most       *)
(* MaxRead.                                                                *)
Behind ==
  /\ \A c \in DOMAIN copy : copy[c].behind <= copy[c].age
  /\ \A k \in DOMAIN cache : cache[k].behind <= cache[k].age + MaxRead

IInv == TypeOK /\ Behind

(* What the parts of TypeOK say of the requests and of the data.           *)
CallOK ==
  /\ DOMAIN call \subseteq Calls /\ call \in [DOMAIN call -> [op : Ops, step : Nat]]
  /\ \A c \in DOMAIN call : call[c].step \in DOMAIN Steps(c)
EntriesOK ==
  /\ DOMAIN cache \subseteq Keys /\ cache \in [DOMAIN cache -> Data]
  /\ \A k \in DOMAIN cache :
       cache[k].age <= TTL[k] /\ cache[k].behind <= cache[k].age + MaxRead
CopiesOK ==
  /\ copy \in [DOMAIN copy -> Data]
  /\ \A c \in DOMAIN copy :
       copy[c].age <= MaxRead /\ copy[c].behind <= copy[c].age

LEMMA IInvParts ==
  IInv <=> CallOK /\ EntriesOK /\ CopiesOK /\ DOMAIN copy = Storing
BY DEF IInv, TypeOK, Behind, CallOK, EntriesOK, CopiesOK, Storing

-----------------------------------------------------------------------------
(* How a request's own step changes which requests are about to store.     *)
LEMMA Begins ==
  ASSUME CallOK, CatalogCacheAssumption, NEW c \in Calls, NEW op \in Ops, Begin(c, op)
  PROVE  CallOK' /\ Storing' = Storing
         /\ \A d \in Calls \ {c} : \A v, k : Does(d, v, k)' <=> Does(d, v, k)
<1>1. op \in Keys \union Writers
  BY DEF CatalogCacheAssumption
<1>2. /\ c \notin DOMAIN call
      /\ DOMAIN call' = DOMAIN call \union {c}
      /\ call'[c] = [op |-> op, step |-> 1]
      /\ \A d \in DOMAIN call : call'[d] = call[d]
      /\ call' = [d \in DOMAIN call' |-> call'[d]]
  BY DEF Begin, With
<1>3. 1 \in DOMAIN Script[op] /\ \A k \in Keys : Script[op][1] # <<"set", k>>
  BY <1>1, ScriptShape
<1>4. \A d \in DOMAIN call' :
        call'[d] \in [op : Ops, step : Nat] /\ call'[d].step \in DOMAIN Script[call'[d].op]
  BY <1>2, <1>3 DEF CallOK, Steps
<1>5. CallOK'
  BY <1>2, <1>4 DEF CallOK, Steps
<1>6. \A d \in Calls \ {c} : \A v, k : Does(d, v, k)' <=> Does(d, v, k)
  BY <1>2 DEF Does, Steps
<1>7. \A k \in Keys : ~Does(c, "set", k) /\ ~Does(c, "set", k)'
  BY <1>2, <1>3 DEF Does, Steps
<1> QED
  BY <1>5, <1>6, <1>7 DEF Storing

LEMMA Finishes ==
  ASSUME CallOK, NEW c \in Calls, Finish(c)
  PROVE  CallOK' /\ Storing' = Storing \ {c}
         /\ \A d \in Calls \ {c} : \A v, k : Does(d, v, k)' <=> Does(d, v, k)
<1>1. /\ DOMAIN call' = DOMAIN call \ {c}
      /\ \A d \in DOMAIN call' : call'[d] = call[d]
      /\ call' = [d \in DOMAIN call' |-> call'[d]]
  BY DEF Finish, Without
<1>2. CallOK'
  BY <1>1 DEF CallOK, Steps
<1>3. \A d \in Calls \ {c} : \A v, k : Does(d, v, k)' <=> Does(d, v, k)
  BY <1>1 DEF Does, Steps
<1>4. \A k \in Keys : ~Does(c, "set", k)'
  BY <1>1 DEF Does
<1> QED
  BY <1>2, <1>3, <1>4 DEF Storing

(* After its read a request is about to store, after any other step not.   *)
LEMMA Continues ==
  ASSUME CallOK, CatalogCacheAssumption, NEW c \in DOMAIN call, Continue(c)
  PROVE  /\ CallOK'
         /\ \A d \in Calls \ {c} : \A v, k : Does(d, v, k)' <=> Does(d, v, k)
         /\ \A k \in Keys : Does(c, "read", k) => Does(c, "set", k)'
         /\ (\A k \in Keys : ~Does(c, "read", k)) => Storing' = Storing \ {c}
<1> DEFINE op == call[c].op
           i == call[c].step
<1>1. op \in Keys \union Writers /\ i \in DOMAIN Script[op] /\ c \in Calls
      /\ call[c] \in [op : Ops, step : Nat]
  BY DEF CallOK, CatalogCacheAssumption, Steps
<1>2. /\ Len(Script[op]) \in Nat \ {0} /\ DOMAIN Script[op] = 1..Len(Script[op])
      /\ \A k \in Keys : Script[op][i] = <<"read", k>> =>
           i + 1 \in DOMAIN Script[op] /\ Script[op][i + 1] = <<"set", k>>
      /\ \A k \in Keys :
           i + 1 \in DOMAIN Script[op] /\ Script[op][i + 1] = <<"set", k>> =>
             Script[op][i] = <<"read", k>>
  BY <1>1, ScriptShape
<1>3. \A v, k : Does(c, v, k) <=> Script[op][i] = <<v, k>>
  BY DEF Does, Steps
<1>4. CASE i = Len(Script[op])
  <2>1. Finish(c)
    BY <1>4 DEF Continue, Steps
  <2>2. i + 1 \notin DOMAIN Script[op]
    BY <1>1, <1>2, <1>4
  <2> HIDE DEF op, i
  <2> QED
    BY <2>1, <2>2, <1>1, <1>2, <1>3, Finishes
<1>5. CASE i # Len(Script[op])
  <2>1. call' = [call EXCEPT ![c].step = i + 1]
    BY <1>5 DEF Continue, Steps
  <2>2. /\ DOMAIN call' = DOMAIN call
        /\ call'[c] = [op |-> op, step |-> i + 1]
        /\ \A d \in DOMAIN call \ {c} : call'[d] = call[d]
    BY <2>1, <1>1 DEF CallOK
  <2>3. i + 1 \in DOMAIN Script[op] /\ i + 1 \in Nat
    BY <1>1, <1>2, <1>5
  <2>4. CallOK'
    <3>1. call' \in [DOMAIN call -> [op : Ops, step : Nat]]
      BY <2>1, <1>1, <2>3 DEF CallOK
    <3>2. \A d \in DOMAIN call' : call'[d].step \in DOMAIN Script[call'[d].op]
      BY <2>2, <2>3 DEF CallOK, Steps
    <3> QED
      BY <3>1, <3>2, <2>2 DEF CallOK, Steps
  <2>5. \A d \in Calls \ {c} : \A v, k : Does(d, v, k)' <=> Does(d, v, k)
    BY <2>2 DEF Does, Steps
  <2>6. \A v, k : Does(c, v, k)' <=> Script[op][i + 1] = <<v, k>>
    BY <2>2 DEF Does, Steps
  <2> HIDE DEF op, i
  <2>7. (\A k \in Keys : ~Does(c, "read", k)) => \A k \in Keys : ~Does(c, "set", k)'
    BY <2>3, <2>6, <1>2, <1>3
  <2>8. (\A k \in Keys : ~Does(c, "read", k)) => Storing' = Storing \ {c}
    BY <2>5, <2>7 DEF Storing
  <2> QED
    BY <2>4, <2>5, <2>6, <2>8, <1>2, <1>3
<1> QED
  BY <1>4, <1>5

-----------------------------------------------------------------------------
(* What is put into the cache or into a copy, or taken out, is in order.   *)
LEMMA DataOK ==
  /\ Fresh \in Data /\ Lacking \in Data
  /\ Fresh.age = 0 /\ Fresh.behind = 0 /\ Lacking.age = 0 /\ Lacking.behind = 0
  /\ \A d \in Data : \A e : e = Outdate(d) \/ e = Abandon(d) =>
       e \in Data /\ e.age = d.age /\ e.behind = d.behind
  /\ \A d \in Data : /\ Older(d) \in Data /\ Older(d).age = d.age + 1
                     /\ Older(d).behind = 0 \/ Older(d).behind = d.behind + 1
<1>1. Fresh \in Data /\ Lacking \in Data
      /\ Fresh.age = 0 /\ Fresh.behind = 0 /\ Lacking.age = 0 /\ Lacking.behind = 0
  BY DEF Fresh, Lacking, Data
<1>2. \A d \in Data : \A e : e = Outdate(d) \/ e = Abandon(d) =>
        e \in Data /\ e.age = d.age /\ e.behind = d.behind
  BY DEF Outdate, Abandon, Data
<1>3. ASSUME NEW d \in Data
      PROVE  /\ Older(d) \in Data /\ Older(d).age = d.age + 1
             /\ Older(d).behind = 0 \/ Older(d).behind = d.behind + 1
  <2> DEFINE b == IF d.current THEN 0 ELSE d.behind + 1
  <2>1. Older(d) = [d EXCEPT !.age = d.age + 1, !.behind = b]
    BY DEF Older, Data
  <2>2. b \in Nat /\ (b = 0 \/ b = d.behind + 1)
    BY DEF Data
  <2> HIDE DEF b
  <2>3. Older(d) = [current |-> d.current, behind |-> b, age |-> d.age + 1,
                    missed |-> d.missed]
    BY <2>1 DEF Data
  <2>4. Older(d).behind = b /\ Older(d).age = d.age + 1
    BY <2>3
  <2>5. Older(d) \in Data
    BY <2>2, <2>3 DEF Data
  <2> QED
    BY <2>2, <2>4, <2>5
<1> QED
  BY <1>1, <1>2, <1>3

LEMMA EntriesGone ==
  ASSUME EntriesOK, NEW k, cache' = Without(cache, k)
  PROVE  EntriesOK'
BY DEF EntriesOK, Without

LEMMA CopiesGone ==
  ASSUME CopiesOK, NEW c, copy' = Without(copy, c)
  PROVE  CopiesOK' /\ DOMAIN copy' = DOMAIN copy \ {c}
BY DEF CopiesOK, Without

LEMMA CopyTaken ==
  ASSUME CopiesOK, CatalogCacheAssumption, NEW c,
         copy' = With(copy, c, Fresh) \/ copy' = With(copy, c, Lacking)
  PROVE  CopiesOK' /\ DOMAIN copy' = DOMAIN copy \union {c}
<1>1. /\ DOMAIN copy' = DOMAIN copy \union {c}
      /\ copy' = [d \in DOMAIN copy' |-> copy'[d]]
      /\ copy'[c] = Fresh \/ copy'[c] = Lacking
      /\ \A d \in DOMAIN copy \ {c} : copy'[d] = copy[d]
  BY DEF With
<1>2. copy'[c] \in Data /\ copy'[c].age = 0 /\ copy'[c].behind = 0
  BY <1>1, DataOK
<1>3. \A d \in DOMAIN copy' : copy'[d] \in Data /\ copy'[d].age <= MaxRead
                              /\ copy'[d].behind <= copy'[d].age
  BY <1>1, <1>2 DEF CopiesOK, CatalogCacheAssumption
<1> QED
  BY <1>1, <1>3 DEF CopiesOK

LEMMA EntryStored ==
  ASSUME EntriesOK, CopiesOK, CatalogCacheAssumption, NEW k \in Keys,
         NEW c \in DOMAIN copy,
         cache' = With(cache, k, [copy[c] EXCEPT !.age = 0, !.missed = Missed(copy[c], k)])
  PROVE  EntriesOK'
<1> DEFINE e == [copy[c] EXCEPT !.age = 0, !.missed = Missed(copy[c], k)]
<1>1. copy[c] \in Data /\ copy[c].behind <= copy[c].age /\ copy[c].age <= MaxRead
  BY DEF CopiesOK
<1>2. e \in Data /\ e.age = 0 /\ e.behind = copy[c].behind
  <2>1. Missed(copy[c], k) \in {"no", "overlap", "late"}
    BY DEF Missed
  <2> QED
    BY <1>1, <2>1 DEF Data
<1>3. /\ DOMAIN cache' = DOMAIN cache \union {k}
      /\ cache' = [x \in DOMAIN cache' |-> cache'[x]]
      /\ cache'[k] = e
      /\ \A x \in DOMAIN cache \ {k} : cache'[x] = cache[x]
  BY DEF With
<1>4. copy[c].behind \in Nat /\ copy[c].age \in Nat /\ MaxRead \in Nat /\ TTL[k] \in Nat
  BY <1>1 DEF Data, CatalogCacheAssumption
<1> HIDE DEF e
<1>5. e.age <= TTL[k] /\ e.behind <= e.age + MaxRead
  BY <1>1, <1>2, <1>4
<1>6. \A x \in DOMAIN cache' : cache'[x] \in Data /\ cache'[x].age <= TTL[x]
                               /\ cache'[x].behind <= cache'[x].age + MaxRead
  BY <1>2, <1>3, <1>5 DEF EntriesOK
<1> QED
  BY <1>3, <1>6 DEF EntriesOK

LEMMA DataChanged ==
  ASSUME EntriesOK, CopiesOK, NEW r, NEW kept, Change(r, kept)
  PROVE  EntriesOK' /\ CopiesOK' /\ DOMAIN copy' = DOMAIN copy
<1>1. /\ DOMAIN cache' = DOMAIN cache
      /\ cache' = [x \in DOMAIN cache' |-> cache'[x]]
      /\ \A k \in DOMAIN cache : \/ cache'[k] = Outdate(cache[k])
                                 \/ cache'[k] = Abandon(cache[k])
                                 \/ cache'[k] = cache[k]
  BY DEF Change
<1>2. /\ DOMAIN copy' = DOMAIN copy
      /\ copy' = [x \in DOMAIN copy' |-> copy'[x]]
      /\ \A c \in DOMAIN copy : copy'[c] = Outdate(copy[c]) \/ copy'[c] = copy[c]
  BY DEF Change
<1>3. \A k \in DOMAIN cache : cache'[k] \in Data /\ cache'[k].age = cache[k].age
                              /\ cache'[k].behind = cache[k].behind
  BY <1>1, DataOK DEF EntriesOK
<1>4. \A c \in DOMAIN copy : copy'[c] \in Data /\ copy'[c].age = copy[c].age
                             /\ copy'[c].behind = copy[c].behind
  BY <1>2, DataOK DEF CopiesOK
<1>5. EntriesOK'
  BY <1>1, <1>3 DEF EntriesOK
<1>6. CopiesOK'
  BY <1>2, <1>4 DEF CopiesOK
<1> QED
  BY <1>2, <1>5, <1>6

LEMMA TimePasses ==
  ASSUME EntriesOK, CopiesOK, CatalogCacheAssumption, Tick
  PROVE  EntriesOK' /\ CopiesOK' /\ DOMAIN copy' = DOMAIN copy
<1>1. /\ DOMAIN cache' \subseteq DOMAIN cache
      /\ cache' = [x \in DOMAIN cache' |-> cache'[x]]
      /\ \A k \in DOMAIN cache' : cache'[k] = Older(cache[k]) /\ cache[k].age < TTL[k]
  BY DEF Tick
<1>2. /\ DOMAIN copy' = DOMAIN copy
      /\ copy' = [x \in DOMAIN copy' |-> copy'[x]]
      /\ \A c \in DOMAIN copy' : copy'[c] = Older(copy[c]) /\ copy[c].age < MaxRead
  BY DEF Tick
<1>3. ASSUME NEW k \in DOMAIN cache'
      PROVE  cache'[k] \in Data /\ cache'[k].age <= TTL[k]
             /\ cache'[k].behind <= cache'[k].age + MaxRead
  <2>1. cache[k] \in Data /\ cache[k].behind <= cache[k].age + MaxRead /\ k \in Keys
    BY <1>1 DEF EntriesOK
  <2>2. cache[k].behind \in Nat /\ cache[k].age \in Nat /\ MaxRead \in Nat /\ TTL[k] \in Nat
    BY <2>1 DEF Data, CatalogCacheAssumption
  <2>3. cache'[k] \in Data /\ cache'[k].age = cache[k].age + 1
        /\ (cache'[k].behind = 0 \/ cache'[k].behind = cache[k].behind + 1)
    BY <1>1, <2>1, DataOK
  <2> QED
    BY <1>1, <2>1, <2>2, <2>3
<1>4. ASSUME NEW c \in DOMAIN copy'
      PROVE  copy'[c] \in Data /\ copy'[c].age <= MaxRead
             /\ copy'[c].behind <= copy'[c].age
  <2>1. copy[c] \in Data /\ copy[c].behind <= copy[c].age
    BY <1>2 DEF CopiesOK
  <2>2. copy[c].behind \in Nat /\ copy[c].age \in Nat /\ MaxRead \in Nat
    BY <2>1 DEF Data, CatalogCacheAssumption
  <2>3. copy'[c] \in Data /\ copy'[c].age = copy[c].age + 1
        /\ (copy'[c].behind = 0 \/ copy'[c].behind = copy[c].behind + 1)
    BY <1>2, <2>1, DataOK
  <2> QED
    BY <1>2, <2>1, <2>2, <2>3
<1>5. EntriesOK'
  BY <1>1, <1>3 DEF EntriesOK
<1>6. CopiesOK'
  BY <1>2, <1>4 DEF CopiesOK
<1> QED
  BY <1>2, <1>5, <1>6

-----------------------------------------------------------------------------
LEMMA OneStep ==
  ASSUME NEW c \in DOMAIN call, CallOK, NEW v, NEW k, Does(c, v, k)
  PROVE  \A w, l : Does(c, w, l) => w = v /\ l = k
BY DEF Does

LEMMA InvStep == CatalogCacheAssumption /\ IInv /\ [Next]_vars => IInv'
<1> SUFFICES ASSUME CatalogCacheAssumption, CallOK, EntriesOK, CopiesOK,
                    DOMAIN copy = Storing, [Next]_vars
             PROVE  CallOK' /\ EntriesOK' /\ CopiesOK' /\ DOMAIN copy' = Storing'
  BY IInvParts DEF IInv, TypeOK, Behind, CallOK, EntriesOK, CopiesOK, Storing
<1>1. ASSUME NEW c \in Calls, NEW op \in Ops, Begin(c, op)
      PROVE  CallOK' /\ EntriesOK' /\ CopiesOK' /\ DOMAIN copy' = Storing'
  <2>1. UNCHANGED <<cache, copy>>
    BY <1>1 DEF Begin
  <2> QED
    BY <1>1, <2>1, Begins DEF EntriesOK, CopiesOK
<1>2. ASSUME NEW c \in Calls, NEW k \in Keys, Get(c, k)
      PROVE  CallOK' /\ EntriesOK' /\ CopiesOK' /\ DOMAIN copy' = Storing'
  <2>1. UNCHANGED <<cache, copy>> /\ Does(c, "get", k) /\ c \in DOMAIN call
        /\ (Finish(c) \/ Continue(c))
    BY <1>2 DEF Get, Does
  <2>2. CallOK' /\ Storing' = Storing \ {c}
    BY <2>1, Finishes, Continues, OneStep
  <2>3. c \notin Storing
    BY <2>1, OneStep DEF Storing
  <2> QED
    BY <2>1, <2>2, <2>3 DEF EntriesOK, CopiesOK
<1>3. ASSUME NEW c \in Calls, NEW k \in Keys, Set(c, k)
      PROVE  CallOK' /\ EntriesOK' /\ CopiesOK' /\ DOMAIN copy' = Storing'
  <2>1. Does(c, "set", k) /\ Continue(c) /\ copy' = Without(copy, c) /\ c \in DOMAIN call
        /\ cache' = With(cache, k, [copy[c] EXCEPT !.age = 0, !.missed = Missed(copy[c], k)])
    BY <1>3 DEF Set, Does
  <2>2. CallOK' /\ Storing' = Storing \ {c}
    BY <2>1, Continues, OneStep
  <2>3. c \in DOMAIN copy
    BY <2>1 DEF Storing
  <2>4. EntriesOK'
    BY <2>1, <2>3, EntryStored
  <2>5. CopiesOK' /\ DOMAIN copy' = DOMAIN copy \ {c}
    BY <2>1, CopiesGone
  <2> QED
    BY <2>2, <2>4, <2>5
<1>4. ASSUME NEW c \in Calls, NEW k \in Keys, Delete(c, k)
      PROVE  CallOK' /\ EntriesOK' /\ CopiesOK' /\ DOMAIN copy' = Storing'
  <2>1. Does(c, "delete", k) /\ Continue(c) /\ UNCHANGED copy /\ c \in DOMAIN call
        /\ cache' = Without(cache, k)
    BY <1>4 DEF Delete, Does
  <2>2. CallOK' /\ Storing' = Storing \ {c}
    BY <2>1, Continues, OneStep
  <2>3. c \notin Storing
    BY <2>1, OneStep DEF Storing
  <2> QED
    BY <2>1, <2>2, <2>3, EntriesGone DEF CopiesOK
<1>5. ASSUME NEW c \in Calls, NEW k \in Keys, Read(c, k)
      PROVE  CallOK' /\ EntriesOK' /\ CopiesOK' /\ DOMAIN copy' = Storing'
  <2>1. Does(c, "read", k) /\ Continue(c) /\ UNCHANGED cache /\ c \in DOMAIN call
        /\ (copy' = With(copy, c, Fresh) \/ copy' = With(copy, c, Lacking))
    BY <1>5 DEF Read, Does
  <2>2. /\ CallOK' /\ Does(c, "set", k)'
        /\ \A d \in Calls \ {c} : \A v, l : Does(d, v, l)' <=> Does(d, v, l)
    BY <2>1, Continues
  <2>3. Storing' = Storing \union {c}
    BY <2>2 DEF Storing
  <2>4. CopiesOK' /\ DOMAIN copy' = DOMAIN copy \union {c}
    BY <2>1, CopyTaken
  <2> QED
    BY <2>1, <2>2, <2>3, <2>4 DEF EntriesOK
<1>6. ASSUME NEW c \in Calls, NEW k \in Keys, FailRead(c, k)
      PROVE  CallOK' /\ EntriesOK' /\ CopiesOK' /\ DOMAIN copy' = Storing'
  <2>1. UNCHANGED <<cache, copy>> /\ Does(c, "read", k) /\ c \in DOMAIN call /\ Finish(c)
    BY <1>6 DEF FailRead, Does
  <2>2. CallOK' /\ Storing' = Storing \ {c}
    BY <2>1, Finishes
  <2>3. c \notin Storing
    BY <2>1, OneStep DEF Storing
  <2> QED
    BY <2>1, <2>2, <2>3 DEF EntriesOK, CopiesOK
<1>7. ASSUME NEW c \in Calls, NEW r \in DOMAIN Affected, Write(c, r) \/ FailWrite(c, r)
      PROVE  CallOK' /\ EntriesOK' /\ CopiesOK' /\ DOMAIN copy' = Storing'
  <2>1. Does(c, "write", r) /\ c \in DOMAIN call /\ (Continue(c) \/ Finish(c))
        /\ ((\E kept : Change(r, kept)) \/ UNCHANGED <<cache, copy>>)
    BY <1>7 DEF Write, FailWrite, Does
  <2>2. CallOK' /\ Storing' = Storing \ {c}
    BY <2>1, Finishes, Continues, OneStep
  <2>3. c \notin Storing
    BY <2>1, OneStep DEF Storing
  <2>4. EntriesOK' /\ CopiesOK' /\ DOMAIN copy' = DOMAIN copy
    <3>1. CASE \E kept : Change(r, kept)
      BY <3>1, DataChanged
    <3>2. CASE UNCHANGED <<cache, copy>>
      BY <3>2 DEF EntriesOK, CopiesOK
    <3> QED
      BY <2>1, <3>1, <3>2
  <2> QED
    BY <2>2, <2>3, <2>4
<1>8. CASE Tick
  <2>1. EntriesOK' /\ CopiesOK' /\ DOMAIN copy' = DOMAIN copy
    BY <1>8, TimePasses
  <2>2. UNCHANGED call
    BY <1>8 DEF Tick
  <2>3. CallOK' /\ Storing' = Storing
    BY <2>2 DEF CallOK, Storing, Does, Steps
  <2> QED
    BY <2>1, <2>3
<1>9. CASE Restart
  <2>1. cache' = Empty /\ copy' = Empty /\ call' = Empty
    BY <1>9 DEF Restart
  <2>2. Storing' = {}
    BY <2>1 DEF Storing, Does, Empty
  <2> QED
    BY <2>1, <2>2 DEF CallOK, EntriesOK, CopiesOK, Empty
<1>10. CASE UNCHANGED vars
  BY <1>10 DEF vars, CallOK, EntriesOK, CopiesOK, Storing, Does, Steps
<1> QED
  BY <1>1, <1>2, <1>3, <1>4, <1>5, <1>6, <1>7, <1>8, <1>9, <1>10
     DEF Next, CacheStep, DatabaseStep

(* Type correctness of the cache, its requests and what they have read.    *)
THEOREM CacheInvariant == Spec => []IInv
<1>1. Init => IInv
  <2> SUFFICES ASSUME Init PROVE CallOK /\ EntriesOK /\ CopiesOK /\ DOMAIN copy = Storing
    BY IInvParts
  <2>1. cache = Empty /\ copy = Empty /\ call = Empty
    BY DEF Init
  <2>2. Storing = {}
    BY <2>1 DEF Storing, Does, Empty
  <2> QED
    BY <2>1, <2>2 DEF CallOK, EntriesOK, CopiesOK, Empty
<1> QED
  BY <1>1, InvStep, CatalogCacheAssumption, PTL DEF Spec

(* Nothing the cache serves has been out of date for longer than its time  *)
(* to live and one read, whatever invalidation came too early.             *)
THEOREM CacheStalenessBounded == Spec => []StalenessBounded
<1>1. IInv => StalenessBounded
  <2> SUFFICES ASSUME IInv, NEW k \in DOMAIN cache
               PROVE  cache[k].behind <= TTL[k] + MaxRead
    BY DEF StalenessBounded
  <2>1. cache[k] \in Data /\ k \in Keys /\ cache[k].age <= TTL[k]
        /\ cache[k].behind <= cache[k].age + MaxRead
    BY DEF IInv, TypeOK, Behind
  <2>2. cache[k].behind \in Nat /\ cache[k].age \in Nat /\ MaxRead \in Nat /\ TTL[k] \in Nat
    BY <2>1, CatalogCacheAssumption DEF Data, CatalogCacheAssumption
  <2> QED
    BY <2>1, <2>2
<1> QED
  BY <1>1, CacheInvariant, PTL


-----------------------------------------------------------------------------
(* Entries that no request has stored or left out of date for good.        *)
Covered(k) ==
  \/ cache[k].missed = "no"
  \/ cache[k].missed = "overlap" /\ k = "enums"

(* A request about to change what such an entry shows, and to invalidate   *)
(* it, has not done so yet: had it, the entry would have been stored since. *)
StillToDelete ==
  \A k \in DOMAIN cache, c \in DOMAIN call, r \in DOMAIN Affected :
    Covered(k) /\ k \in Affected[r] /\ k \in Promised(call[c].op)
      /\ Ahead(c, "write", r) => Ahead(c, "delete", k)

(* A script that promises to invalidate an entry deletes it, at once if it  *)
(* writes first; a saved zone is such.                                     *)
LEMMA PromisesKept ==
  ASSUME NEW op \in Keys \union Writers
  PROVE  /\ \A k \in Promised(op) : \E i \in DOMAIN Script[op] : Script[op][i] = <<"delete", k>>
         /\ \A i, j \in DOMAIN Script[op] : \A r, k :
              i <= j /\ Script[op][i] = <<"write", r>> /\ Script[op][j] = <<"delete", k>>
                => j = i + 1
         /\ \A i \in DOMAIN Script[op] :
              Script[op][i] = <<"write", "zone">> =>
                /\ i + 1 \in DOMAIN Script[op]
                /\ Script[op][i + 1] = <<"delete", "enums">>
<1>1. CASE op \in Keys
  <2>1. Script[op] = << <<"get", op>>, <<"read", op>>, <<"set", op>> >>
    BY <1>1 DEF Script, View, Keys, Writers
  <2>2. Len(Script[op]) = 3 /\ DOMAIN Script[op] = 1..3
    BY <2>1
  <2>3. Promised(op) = {}
    BY <1>1 DEF Promised, Keys
  <2> QED
    BY <2>1, <2>2, <2>3
<1>2. CASE op = "saveCategory"
  <2>1. Script[op] = << <<"delete", "tree">>, <<"delete", "nav">>, <<"write", "category">> >>
    BY <1>2 DEF Script, SaveCategory, Keys, Writers
  <2>2. Len(Script[op]) = 3 /\ DOMAIN Script[op] = 1..3
    BY <2>1
  <2>3. Promised(op) = {"tree", "nav"}
    BY <1>2 DEF Promised
  <2> QED
    BY <2>1, <2>2, <2>3
<1>3. CASE op = "reorder"
  <2>1. Script[op] = << <<"write", "category">>, <<"write", "category">>,
                        <<"read", "tree">>, <<"set", "tree">> >>
    BY <1>3 DEF Script, ReorderCategories, Keys, Writers
  <2>2. Len(Script[op]) = 4 /\ DOMAIN Script[op] = 1..4
    BY <2>1
  <2>3. Promised(op) = {}
    BY <1>3 DEF Promised
  <2> QED
    BY <2>1, <2>2, <2>3
<1>4. CASE op = "updateProduct"
  <2>1. Script[op] = << <<"delete", "product">>, <<"delete", "stats">>, <<"write", "product">> >>
    BY <1>4 DEF Script, UpdateProduct, Keys, Writers
  <2>2. Len(Script[op]) = 3 /\ DOMAIN Script[op] = 1..3
    BY <2>1
  <2>3. Promised(op) = {"product", "stats"}
    BY <1>4 DEF Promised
  <2> QED
    BY <2>1, <2>2, <2>3
<1>5. CASE op = "changeProduct"
  <2>1. Script[op] = << <<"delete", "stats">>, <<"write", "product">> >>
    BY <1>5 DEF Script, ChangeProduct, Keys, Writers
  <2>2. Len(Script[op]) = 2 /\ DOMAIN Script[op] = 1..2
    BY <2>1
  <2>3. Promised(op) = {"stats"}
    BY <1>5 DEF Promised
  <2> QED
    BY <2>1, <2>2, <2>3
<1>6. CASE op = "changeStock"
  <2>1. Script[op] = << <<"write", "product">> >>
    BY <1>6 DEF Script, ChangeStock, Keys, Writers
  <2>2. Len(Script[op]) = 1 /\ DOMAIN Script[op] = 1..1
    BY <2>1
  <2>3. Promised(op) = {}
    BY <1>6 DEF Promised
  <2> QED
    BY <2>1, <2>2, <2>3
<1>7. CASE op = "saveZone"
  <2>1. Script[op] = << <<"write", "zone">>, <<"delete", "enums">> >>
    BY <1>7 DEF Script, SaveZone, Keys, Writers
  <2>2. Len(Script[op]) = 2 /\ DOMAIN Script[op] = 1..2
    BY <2>1
  <2>3. Promised(op) = {"enums"}
    BY <1>7 DEF Promised
  <2> QED
    BY <2>1, <2>2, <2>3
<1>8. CASE op = "changeCollection"
  <2>1. Script[op] = << <<"write", "collection">> >>
    BY <1>8 DEF Script, ChangeCollection, Keys, Writers
  <2>2. Len(Script[op]) = 1 /\ DOMAIN Script[op] = 1..1
    BY <2>1
  <2>3. Promised(op) = {}
    BY <1>8 DEF Promised
  <2> QED
    BY <2>1, <2>2, <2>3
<1> QED
  BY <1>1, <1>2, <1>3, <1>4, <1>5, <1>6, <1>7, <1>8 DEF Writers

(* What lies ahead of a request only shrinks, by the step it does.         *)
LEMMA AheadShrinks ==
  ASSUME CallOK, CatalogCacheAssumption, NEW c \in DOMAIN call,
         Finish(c) \/ Continue(c)
  PROVE  /\ DOMAIN call' \subseteq DOMAIN call
         /\ \A d \in DOMAIN call' : call'[d].op = call[d].op
         /\ \A d, v, k : Ahead(d, v, k)' => Ahead(d, v, k)
         /\ \A d \in DOMAIN call' : \A v, k :
              Ahead(d, v, k) /\ ~(d = c /\ Does(c, v, k)) => Ahead(d, v, k)'
<1>1. CASE Finish(c)
  BY <1>1 DEF Finish, Without, Ahead, Steps
<1>2. CASE Continue(c) /\ call[c].step # Len(Steps(c))
  <2> DEFINE i == call[c].step
  <2>1. call[c].op \in Keys \union Writers /\ i \in DOMAIN Steps(c) /\ i \in Nat
        /\ DOMAIN Steps(c) = 1..Len(Steps(c)) /\ Len(Steps(c)) \in Nat
    BY ScriptShape DEF CallOK, CatalogCacheAssumption, Steps
  <2>2. /\ DOMAIN call' = DOMAIN call
        /\ call'[c] = [op |-> call[c].op, step |-> i + 1]
        /\ \A d \in DOMAIN call \ {c} : call'[d] = call[d]
    BY <1>2 DEF Continue, CallOK
  <2>3. \A d \in DOMAIN call : Steps(d)' = Steps(d)
    BY <2>2 DEF Steps
  <2>4. \A d \in DOMAIN call \ {c} : \A v, k : Ahead(d, v, k)' <=> Ahead(d, v, k)
    BY <2>2, <2>3 DEF Ahead
  <2>5. \A v, k : Ahead(c, v, k)' <=>
          \E j \in DOMAIN Steps(c) : j >= i + 1 /\ Steps(c)[j] = <<v, k>>
    BY <2>2, <2>3 DEF Ahead
  <2>6. \A v, k : Ahead(c, v, k) <=>
          \E j \in DOMAIN Steps(c) : j >= i /\ Steps(c)[j] = <<v, k>>
    BY DEF Ahead
  <2>7. \A v, k : Does(c, v, k) <=> Steps(c)[i] = <<v, k>>
    BY DEF Does
  <2> HIDE DEF i
  <2>8. \A v, k : Ahead(c, v, k)' => Ahead(c, v, k)
    <3>1. \A j \in DOMAIN Steps(c) : j >= i + 1 => j >= i
      BY <2>1
    <3> QED
      BY <2>5, <2>6, <3>1
  <2>9. \A v, k : Ahead(c, v, k) /\ ~Does(c, v, k) => Ahead(c, v, k)'
    <3> SUFFICES ASSUME NEW v, NEW k, Ahead(c, v, k), ~Does(c, v, k)
                 PROVE  Ahead(c, v, k)'
      OBVIOUS
    <3>1. PICK j \in DOMAIN Steps(c) : j >= i /\ Steps(c)[j] = <<v, k>>
      BY <2>6
    <3>2. j # i
      BY <2>7, <3>1
    <3>3. j >= i + 1
      BY <2>1, <3>1, <3>2
    <3> QED
      BY <2>5, <3>1, <3>3
  <2>10. \A d, v, k : d \notin DOMAIN call => ~Ahead(d, v, k)'
    BY <2>2 DEF Ahead
  <2> QED
    BY <2>2, <2>4, <2>8, <2>9, <2>10
<1> QED
  BY <1>1, <1>2 DEF Continue

(* An entry is out of date only while its Delete is the next step of the   *)
(* request that changed it, or for the reasons Invalidated names; for the  *)
(* enums only because a read was too slow or a write failed.               *)
THEOREM CacheInvalidated == Spec => []Invalidated
<1> DEFINE Pending(k) == \E d \in Calls : Does(d, "delete", k)
           J == StillToDelete
           K == Invalidated
<1>1. Init => J /\ K
  BY DEF Init, Empty, StillToDelete, Invalidated
<1>2. IInv /\ J /\ K /\ [Next]_vars => J' /\ K'
  <2> SUFFICES ASSUME CatalogCacheAssumption, CallOK, CallOK', EntriesOK, EntriesOK',
                      CopiesOK, DOMAIN copy = Storing, J, K, [Next]_vars
               PROVE  J' /\ K'
    BY InvStep, IInvParts, CatalogCacheAssumption
       DEF IInv, TypeOK, Behind, CallOK, EntriesOK
  <2>0. \A k \in DOMAIN cache : ~cache[k].current /\ Covered(k) => Pending(k)
    BY DEF Invalidated, Covered
  (* It is enough to look at entries that stay covered and out of date.    *)
  <2>K. ASSUME \A k \in DOMAIN cache' : ~cache'[k].current /\ Covered(k)' =>
                 \E d \in Calls : Does(d, "delete", k)'
        PROVE  K'
    <3>1. \A k \in DOMAIN cache' : cache'[k].missed \in {"no", "overlap", "late"}
      BY DEF EntriesOK, Data
    <3> SUFFICES ASSUME NEW k \in DOMAIN cache', ~cache'[k].current,
                        cache'[k].missed # "late",
                        ~(cache'[k].missed = "overlap" /\ k # "enums")
                 PROVE  \E d \in Calls : Does(d, "delete", k)'
      BY DEF Invalidated
    <3>2. Covered(k)'
      BY <3>1 DEF Covered
    <3> QED
      BY <2>K, <3>2
  <2>a. ASSUME NEW c \in DOMAIN call, NEW v, NEW l, Does(c, v, l), v # "delete",
               Finish(c) \/ Continue(c)
        PROVE  \A k : Pending(k) => \E d \in Calls : Does(d, "delete", k)'
    <3>1. \A k : ~Does(c, "delete", k)
      BY <2>a, OneStep
    <3>2. c \in Calls
      BY DEF CallOK
    <3> QED
      BY <2>a, <3>1, <3>2, Finishes, Continues
  (* A step of a request that neither deletes nor writes, and leaves the   *)
  (* cache or takes entries out of it.                                     *)
  <2>b. ASSUME NEW c \in DOMAIN call, NEW v, NEW l, Does(c, v, l), v # "delete",
               Finish(c) \/ Continue(c), UNCHANGED cache
        PROVE  J' /\ K'
    <3>1. \A d \in DOMAIN call' : \A k : Ahead(d, "delete", k) => Ahead(d, "delete", k)'
      <4>1. \A k : ~Does(c, "delete", k)
        BY <2>b, OneStep
      <4> QED
        BY <2>b, <4>1, AheadShrinks
    <3>2. J'
      BY <2>b, <3>1, AheadShrinks DEF StillToDelete, Covered
    <3>3. K'
      BY <2>b, <2>a, <2>0, <2>K DEF Covered
    <3> QED
      BY <3>2, <3>3
  <2>1. ASSUME NEW c \in Calls, NEW op \in Ops, Begin(c, op)
        PROVE  J' /\ K'
    <3>1. /\ UNCHANGED cache /\ c \notin DOMAIN call
          /\ DOMAIN call' = DOMAIN call \union {c}
          /\ call'[c] = [op |-> op, step |-> 1]
          /\ \A d \in DOMAIN call : call'[d] = call[d]
      BY <2>1 DEF Begin, With
    <3>2. \A d \in DOMAIN call : \A v, k : Ahead(d, v, k)' <=> Ahead(d, v, k)
      BY <3>1 DEF Ahead, Steps
    <3>3. ASSUME NEW k \in Promised(op)
          PROVE  Ahead(c, "delete", k)'
      <4>1. op \in Keys \union Writers
        BY DEF CatalogCacheAssumption
      <4>2. PICK i \in DOMAIN Script[op] : Script[op][i] = <<"delete", k>>
        BY <4>1, PromisesKept
      <4>3. i >= 1
        BY <4>1, <4>2, ScriptShape
      <4> QED
        BY <3>1, <4>2, <4>3 DEF Ahead, Steps
    <3>4. J'
      BY <3>1, <3>2, <3>3 DEF StillToDelete, Covered
    <3>5. \A k : Pending(k) => \E d \in Calls : Does(d, "delete", k)'
      <4>1. \A v, k : ~Does(c, v, k)
        BY <3>1 DEF Does
      <4> QED
        BY <2>1, <4>1, Begins
    <3>6. K'
      BY <3>1, <3>5, <2>0, <2>K DEF Covered
    <3> QED
      BY <3>4, <3>6
  <2>2. ASSUME NEW c \in Calls, NEW k \in Keys, Get(c, k) \/ Read(c, k) \/ FailRead(c, k)
        PROVE  J' /\ K'
    <3>1. \E v : Does(c, v, k) /\ v # "delete"
      BY <2>2 DEF Get, Read, FailRead
    <3>2. UNCHANGED cache /\ c \in DOMAIN call /\ (Finish(c) \/ Continue(c))
      BY <2>2 DEF Get, Read, FailRead, Does
    <3> QED
      BY <3>1, <3>2, <2>b
  <2>3. ASSUME NEW c \in Calls, NEW k \in Keys, Set(c, k)
        PROVE  J' /\ K'
    <3> DEFINE e == [copy[c] EXCEPT !.age = 0, !.missed = Missed(copy[c], k)]
    <3>1. Does(c, "set", k) /\ Continue(c) /\ c \in DOMAIN copy /\ c \in DOMAIN call
          /\ cache' = With(cache, k, e)
      BY <2>3 DEF Set, Storing, Does
    <3>2. /\ DOMAIN cache' = DOMAIN cache \union {k}
          /\ cache'[k] = e
          /\ \A x \in DOMAIN cache \ {k} : cache'[x] = cache[x]
      BY <3>1 DEF With
    <3>3. e.current = copy[c].current /\ e.missed = Missed(copy[c], k)
      BY <3>1 DEF CopiesOK, Data
    <3> HIDE DEF e
    <3>4. Covered(k)' => cache'[k].current
      BY <3>2, <3>3 DEF Covered, Missed
    <3>5. \A d \in DOMAIN call' : \A l : Ahead(d, "delete", l) => Ahead(d, "delete", l)'
      <4>1. \A l : ~Does(c, "delete", l)
        BY <3>1, OneStep
      <4> QED
        BY <3>1, <4>1, AheadShrinks
    <3>6. ASSUME NEW d \in DOMAIN call', NEW r \in DOMAIN Affected,
                 k \in Affected[r], Ahead(d, "write", r)', Covered(k)'
          PROVE  Ahead(d, "delete", k)'
      <4>1. Ahead(d, "write", r) /\ d \in DOMAIN call
        BY <3>1, <3>6, AheadShrinks
      <4>2. Changing(k)
        BY <3>6, <4>1 DEF Changing
      <4>3. k = "enums" /\ r = "zone"
        BY <3>2, <3>3, <3>6, <4>2 DEF Covered, Missed, Affected
      <4>4. call[d].op \in Keys \union Writers
        BY <4>1 DEF CallOK, CatalogCacheAssumption
      <4>5. PICK i \in DOMAIN Steps(d) : i >= call[d].step /\ Steps(d)[i] = <<"write", "zone">>
        BY <4>1, <4>3 DEF Ahead
      <4>6. i + 1 \in DOMAIN Steps(d) /\ Steps(d)[i + 1] = <<"delete", "enums">>
        BY <4>4, <4>5, PromisesKept DEF Steps
      <4>7. i + 1 >= call[d].step
        BY <4>1, <4>4, <4>5, ScriptShape DEF CallOK, Steps
      <4>8. Ahead(d, "delete", "enums")
        BY <4>1, <4>6, <4>7 DEF Ahead
      <4> QED
        BY <3>5, <4>3, <4>8
    <3>7. J'
      <4> SUFFICES ASSUME NEW x \in DOMAIN cache', NEW d \in DOMAIN call',
                          NEW r \in DOMAIN Affected, Covered(x)', x \in Affected[r],
                          x \in Promised(call'[d].op), Ahead(d, "write", r)'
                   PROVE  Ahead(d, "delete", x)'
        BY DEF StillToDelete
      <4>1. CASE x = k
        BY <4>1, <3>6
      <4>2. CASE x # k
        <5>1. x \in DOMAIN cache /\ Covered(x)
          BY <3>2, <4>2 DEF Covered
        <5>2. d \in DOMAIN call /\ call'[d].op = call[d].op /\ Ahead(d, "write", r)
          BY <3>1, AheadShrinks
        <5> QED
          BY <5>1, <5>2, <3>5 DEF StillToDelete
      <4> QED
        BY <4>1, <4>2
    <3>8. K'
      <4> SUFFICES ASSUME NEW x \in DOMAIN cache', ~cache'[x].current, Covered(x)'
                   PROVE  \E d \in Calls : Does(d, "delete", x)'
        BY <2>K
      <4>1. x # k /\ x \in DOMAIN cache /\ ~cache[x].current /\ Covered(x)
        BY <3>2, <3>4 DEF Covered
      <4> QED
        BY <4>1, <3>1, <2>0, <2>a
    <3> QED
      BY <3>7, <3>8
  <2>4. ASSUME NEW c \in Calls, NEW k \in Keys, Delete(c, k)
        PROVE  J' /\ K'
    <3>1. Does(c, "delete", k) /\ Continue(c) /\ c \in DOMAIN call
          /\ DOMAIN cache' = DOMAIN cache \ {k}
          /\ \A x \in DOMAIN cache' : cache'[x] = cache[x]
      BY <2>4 DEF Delete, Does, Without
    <3>2. \A x : x # k => ~Does(c, "delete", x)
      BY <3>1, OneStep
    <3>3. \A d \in DOMAIN call' : \A x : x # k /\ Ahead(d, "delete", x) => Ahead(d, "delete", x)'
      BY <3>1, <3>2, AheadShrinks
    <3>4. J'
      BY <3>1, <3>3, AheadShrinks DEF StillToDelete, Covered
    <3>5. \A x : x # k /\ Pending(x) => \E d \in Calls : Does(d, "delete", x)'
      BY <3>1, <3>2, Continues
    <3>6. K'
      BY <3>1, <3>5, <2>0, <2>K DEF Covered
    <3> QED
      BY <3>4, <3>6
  <2>5. ASSUME NEW c \in Calls, NEW r \in DOMAIN Affected, Write(c, r)
        PROVE  J' /\ K'
    <3> DEFINE kept == Promised(call[c].op)
    <3>1. Does(c, "write", r) /\ Continue(c) /\ c \in DOMAIN call /\ Change(r, kept)
      BY <2>5 DEF Write, Does
    <3>2. /\ DOMAIN cache' = DOMAIN cache
          /\ \A x \in DOMAIN cache :
               \/ x \notin Affected[r] /\ cache'[x] = cache[x]
               \/ x \in Affected[r] /\ x \in kept /\ cache'[x] = Outdate(cache[x])
               \/ x \in Affected[r] /\ cache'[x] = Abandon(cache[x])
      BY <3>1 DEF Change
    <3>3. \A x \in DOMAIN cache : Outdate(cache[x]).missed = cache[x].missed
                                  /\ Abandon(cache[x]).missed = "late"
      BY DEF EntriesOK, Data, Outdate, Abandon
    <3>4. ASSUME NEW x \in DOMAIN cache, Covered(x)'
          PROVE  Covered(x) /\ (cache'[x] = cache[x] \/ (x \in Affected[r] /\ x \in kept))
      <4>1. cache'[x].missed # "late"
        BY <3>4 DEF Covered
      <4>2. cache'[x].missed = cache[x].missed
            /\ (cache'[x] = cache[x] \/ (x \in Affected[r] /\ x \in kept))
        BY <3>2, <3>3, <4>1
      <4> QED
        BY <3>4, <4>2 DEF Covered
    <3>5. \A d \in DOMAIN call' : \A x : Ahead(d, "delete", x) => Ahead(d, "delete", x)'
      <4>1. \A x : ~Does(c, "delete", x)
        BY <3>1, OneStep
      <4> QED
        BY <3>1, <4>1, AheadShrinks
    <3>6. J'
      BY <3>1, <3>2, <3>4, <3>5, AheadShrinks DEF StillToDelete
    <3>7. K'
      <4> SUFFICES ASSUME NEW x \in DOMAIN cache', ~cache'[x].current, Covered(x)'
                   PROVE  \E d \in Calls : Does(d, "delete", x)'
        BY <2>K
      <4>1. CASE cache'[x] = cache[x]
        BY <4>1, <3>1, <3>2, <3>4, <2>0, <2>a
      <4>2. CASE x \in Affected[r] /\ x \in kept
        <5>1. call[c].op \in Keys \union Writers /\ call[c].step \in DOMAIN Steps(c)
          BY <3>1 DEF CallOK, CatalogCacheAssumption
        <5>2. Steps(c)[call[c].step] = <<"write", r>>
          BY <3>1 DEF Does
        <5>3. Ahead(c, "write", r)
          <6>1. call[c].step >= call[c].step
            BY <5>1, ScriptShape DEF Steps
          <6> QED
            BY <3>1, <5>1, <5>2, <6>1 DEF Ahead
        <5>4. Ahead(c, "delete", x)
          BY <3>1, <3>2, <3>4, <4>2, <5>3 DEF StillToDelete
        <5>5. PICK j \in DOMAIN Steps(c) : j >= call[c].step /\ Steps(c)[j] = <<"delete", x>>
          BY <5>4 DEF Ahead
        <5>6. j = call[c].step + 1 /\ call[c].step # Len(Steps(c))
          <6>1. j \in 1..Len(Steps(c)) /\ call[c].step \in 1..Len(Steps(c))
                /\ Len(Steps(c)) \in Nat
            BY <5>1, <5>5, ScriptShape DEF Steps
          <6>2. call[c].step <= j
            BY <5>5, <6>1
          <6>3. j = call[c].step + 1
            BY <5>1, <5>2, <5>5, <6>2, PromisesKept DEF Steps
          <6> QED
            BY <6>1, <6>3
        <5>7. call' = [call EXCEPT ![c].step = j]
          BY <3>1, <5>6 DEF Continue
        <5>8. c \in DOMAIN call' /\ call'[c].op = call[c].op /\ call'[c].step = j
          BY <3>1, <5>7 DEF CallOK
        <5>9. Does(c, "delete", x)'
          BY <5>5, <5>8 DEF Does, Steps
        <5> QED
          BY <3>1, <5>9 DEF CallOK
      <4> QED
        BY <4>1, <4>2, <3>2, <3>4
    <3> QED
      BY <3>6, <3>7
  <2>6. ASSUME NEW c \in Calls, NEW r \in DOMAIN Affected, FailWrite(c, r)
        PROVE  J' /\ K'
    <3>1. Does(c, "write", r) /\ Finish(c) /\ c \in DOMAIN call
          /\ (Change(r, {}) \/ UNCHANGED cache)
      BY <2>6 DEF FailWrite, Does
    <3>2. CASE UNCHANGED cache
      BY <3>1, <3>2, <2>b
    <3>3. CASE Change(r, {})
      <4>1. DOMAIN cache' = DOMAIN cache
            /\ \A x \in DOMAIN cache : cache'[x] = cache[x] \/ cache'[x] = Abandon(cache[x])
        BY <3>3 DEF Change
      <4>2. \A x \in DOMAIN cache : Abandon(cache[x]).missed = "late"
        BY DEF EntriesOK, Data, Abandon
      <4>3. \A x \in DOMAIN cache : Covered(x)' => Covered(x) /\ cache'[x] = cache[x]
        BY <4>1, <4>2 DEF Covered
      <4>4. \A d \in DOMAIN call' : \A x : Ahead(d, "delete", x) => Ahead(d, "delete", x)'
        <5>1. \A x : ~Does(c, "delete", x)
          BY <3>1, OneStep
        <5> QED
          BY <3>1, <5>1, AheadShrinks
      <4>5. J'
        BY <3>1, <4>1, <4>3, <4>4, AheadShrinks DEF StillToDelete
      <4>6. K'
        BY <3>1, <4>1, <4>3, <2>0, <2>a, <2>K
      <4> QED
        BY <4>5, <4>6
    <3> QED
      BY <3>1, <3>2, <3>3
  <2>7. CASE Tick
    <3>1. DOMAIN cache' \subseteq DOMAIN cache /\ UNCHANGED call
          /\ \A x \in DOMAIN cache' : cache'[x] = Older(cache[x])
      BY <2>7 DEF Tick
    <3>2. \A x \in DOMAIN cache' : cache'[x].current = cache[x].current
                                   /\ cache'[x].missed = cache[x].missed
      BY <3>1 DEF Older, EntriesOK, Data
    <3>3. \A x \in DOMAIN cache' : Covered(x)' <=> Covered(x)
      BY <3>2 DEF Covered
    <3>4. \A d, v, k : (Ahead(d, v, k)' <=> Ahead(d, v, k)) /\ (Does(d, v, k)' <=> Does(d, v, k))
      BY <3>1 DEF Ahead, Does, Steps
    <3>5. J'
      BY <3>1, <3>3, <3>4 DEF StillToDelete
    <3>6. K'
      BY <3>1, <3>2, <3>3, <3>4, <2>0, <2>K
    <3> QED
      BY <3>5, <3>6
  <2>8. CASE Restart
    BY <2>8 DEF Restart, Empty, StillToDelete, Invalidated
  <2>9. CASE UNCHANGED vars
    <3>1. UNCHANGED <<cache, call>>
      BY <2>9 DEF vars
    <3>2. \A d, v, k : (Ahead(d, v, k)' <=> Ahead(d, v, k)) /\ (Does(d, v, k)' <=> Does(d, v, k))
      BY <3>1 DEF Ahead, Does, Steps
    <3>3. J'
      BY <3>1, <3>2 DEF StillToDelete, Covered
    <3>4. K'
      BY <3>1, <3>2, <2>0, <2>K DEF Covered
    <3> QED
      BY <3>3, <3>4
  <2> QED
    BY <2>1, <2>2, <2>3, <2>4, <2>5, <2>6, <2>7, <2>8, <2>9
       DEF Next, CacheStep, DatabaseStep
<1> QED
  BY <1>1, <1>2, CacheInvariant, PTL DEF Spec

-----------------------------------------------------------------------------
(* The tree: numbers *)

(* Numbers: a set with 0 and with each its successor has them all.         *)
LEMMA NaturalInduction ==
  ASSUME NEW G, 0 \in G, \A n \in Nat : n \in G => n + 1 \in G
  PROVE  Nat \subseteq G
<1> SUFFICES ASSUME NEW n \in Nat PROVE n \in G
  OBVIOUS
<1> DEFINE Low == 1..n
           Good == {T \in SUBSET Low : Cardinality(T) \in G}
<1>1. IsFiniteSet(Low) /\ Cardinality(Low) = n
  BY FS_Interval
<1> HIDE DEF Low
<1>2. ASSUME NEW T \in SUBSET Low, \A U \in SUBSET T : U # T => U \in Good
      PROVE  T \in Good
  <2>1. CASE T = {}
    BY <2>1, FS_EmptySet
  <2>2. CASE T # {}
    <3>1. PICK x \in T : TRUE
      BY <2>2
    <3>2. T \ {x} \in Good
      BY <1>2, <3>1
    <3>3. IsFiniteSet(T) /\ Cardinality(T) \in Nat
      BY <1>1, FS_Subset, FS_CardinalityType
    <3>4. Cardinality(T \ {x}) = Cardinality(T) - 1 /\ IsFiniteSet(T \ {x})
      BY <3>1, <3>3, FS_RemoveElement
    <3>5. Cardinality(T \ {x}) \in Nat
      BY <3>4, FS_CardinalityType
    <3>6. (Cardinality(T) - 1) + 1 \in G
      BY <3>2, <3>4, <3>5
    <3>7. Cardinality(T) \in G
      BY <3>3, <3>6
    <3> QED  BY <3>7
  <2> QED  BY <2>1, <2>2
<1> HIDE DEF Good
<1>3. \A T \in SUBSET Low : (\A U \in SUBSET T : U # T => U \in Good) => T \in Good
  BY <1>2
<1>4. Low \in Good
  BY <1>1, <1>3, FiniteSetInduction
<1> QED  BY <1>1, <1>4 DEF Good

(* A set of numbers that is not empty has a least.                         *)
LEMMA LeastNatural ==
  ASSUME NEW S \in SUBSET Nat, S # {}
  PROVE  \E n \in S : \A m \in S : n <= m
<1> DEFINE G == {n \in Nat : \A m \in S : n <= m}
<1>1. SUFFICES ASSUME \A n \in S : \E m \in S : ~(n <= m) PROVE FALSE
  OBVIOUS
<1>2. 0 \in G
  OBVIOUS
<1>3. \A n \in Nat : n \in G => n + 1 \in G
  <2>1. SUFFICES ASSUME NEW n \in Nat, n \in G, NEW m \in S PROVE n + 1 <= m
    OBVIOUS
  <2>2. n \notin S
    BY <1>1, <2>1
  <2> QED  BY <2>1, <2>2
<1>4. Nat \subseteq G
  <2> HIDE DEF G
  <2> QED  BY <1>2, <1>3, NaturalInduction
<1>5. PICK m \in S : TRUE
  OBVIOUS
<1>6. m + 1 \in G
  BY <1>4
<1> QED  BY <1>5, <1>6

(* A step taken again and again.                                           *)
Runs(S, a, step, n) ==
  {g \in [0..n -> S] : g[0] = a /\ \A k \in 0..(n - 1) : g[k + 1] = step[g[k]]}

(* The runs of a step from a, over all numbers.                            *)
Iterations(S, a, step) ==
  {f \in [Nat -> S] : f[0] = a /\ \A n \in Nat : f[n + 1] = step[f[n]]}

(* A step can be taken any number of times.                                *)
LEMMA Iterate ==
  ASSUME NEW S, NEW a \in S, NEW step \in [S -> S]
  PROVE  Iterations(S, a, step) # {}
<1> DEFINE G == {n \in Nat : \E g \in Runs(S, a, step, n) : TRUE}
           H == {n \in Nat : \A m \in Nat : n <= m =>
                   \A g \in Runs(S, a, step, n), h \in Runs(S, a, step, m) : g[n] = h[n]}
<1>1. Nat \subseteq G
  <2>1. 0 \in G
    <3>1. [k \in 0..0 |-> a] \in Runs(S, a, step, 0)
      BY DEF Runs
    <3> QED  BY <3>1
  <2>2. ASSUME NEW n \in Nat, n \in G PROVE n + 1 \in G
    <3>1. PICK g \in Runs(S, a, step, n) : TRUE
      BY <2>2
    <3> DEFINE h == [k \in 0..(n + 1) |-> IF k <= n THEN g[k] ELSE step[g[n]]]
    <3>2. h \in Runs(S, a, step, n + 1)
      <4>1. h \in [0..(n + 1) -> S]
        BY <3>1 DEF Runs
      <4>2. h[0] = a
        BY <3>1 DEF Runs
      <4>3. ASSUME NEW k \in 0..((n + 1) - 1) PROVE h[k + 1] = step[h[k]]
        <5>1. CASE k = n
          <6>1. n \in 0..(n + 1) /\ n + 1 \in 0..(n + 1) /\ ~(n + 1 <= n)
            OBVIOUS
          <6> QED  BY <5>1, <6>1
        <5>2. CASE k # n
          <6>1. k \in 0..(n - 1) /\ k \in 0..(n + 1) /\ k + 1 \in 0..(n + 1)
                /\ k <= n /\ k + 1 <= n
            BY <5>2
          <6> QED  BY <3>1, <6>1 DEF Runs
        <5> QED  BY <5>1, <5>2
      <4> HIDE DEF h
      <4> QED  BY <4>1, <4>2, <4>3 DEF Runs
    <3> QED  BY <3>2
  <2> HIDE DEF G
  <2> QED  BY <2>1, <2>2, NaturalInduction
<1>2. Nat \subseteq H
  <2>1. 0 \in H
    BY DEF Runs
  <2>2. ASSUME NEW n \in Nat, n \in H PROVE n + 1 \in H
    <3> SUFFICES ASSUME NEW m \in Nat, n + 1 <= m,
                        NEW g \in Runs(S, a, step, n + 1), NEW h \in Runs(S, a, step, m)
                 PROVE  g[n + 1] = h[n + 1]
      OBVIOUS
    <3> DEFINE g0 == [k \in 0..n |-> g[k]]
    <3>1. g0 \in Runs(S, a, step, n)
      BY DEF Runs
    <3>2. g0[n] = h[n]
      <4> HIDE DEF g0
      <4> QED  BY <2>2, <3>1
    <3>3. g[n + 1] = step[g[n]] /\ h[n + 1] = step[h[n]]
      BY DEF Runs
    <3> QED  BY <3>2, <3>3
  <2> HIDE DEF H
  <2> QED  BY <2>1, <2>2, NaturalInduction
<1> DEFINE run(n) == CHOOSE g \in Runs(S, a, step, n) : TRUE
           f == [n \in Nat |-> run(n)[n]]
<1>3. \A n \in Nat : run(n) \in Runs(S, a, step, n)
  BY <1>1
<1> HIDE DEF run
<1>4. f \in [Nat -> S]
  BY <1>3 DEF Runs
<1>5. f[0] = a
  BY <1>3 DEF Runs
<1>6. ASSUME NEW n \in Nat PROVE f[n + 1] = step[f[n]]
  <2>1. n + 1 \in Nat /\ n \in 0..((n + 1) - 1) /\ n <= n + 1
    OBVIOUS
  <2>2. run(n + 1)[n + 1] = step[run(n + 1)[n]]
    BY <1>3, <2>1 DEF Runs
  <2>3. run(n)[n] = run(n + 1)[n]
    BY <1>2, <1>3, <2>1
  <2> QED  BY <2>1, <2>2, <2>3
<1> HIDE DEF f
<1> QED  BY <1>4, <1>5, <1>6 DEF Iterations

(* The recursive definition of the powers of two says what it should.      *)
LEMMA PowerOfTwoIs ==
  /\ PowerOfTwo[0] = 1
  /\ \A n \in Nat : PowerOfTwo[n] \in Nat \ {0} /\ PowerOfTwo[n + 1] = 2 * PowerOfTwo[n]
<1> DEFINE Pos == Nat \ {0}
           step == [x \in Pos |-> 2 * x]
           Eq(f) == f = [n \in Nat |-> IF n = 0 THEN 1 ELSE 2 * f[n - 1]]
<1>1. step \in [Pos -> Pos]
  OBVIOUS
<1> DEFINE one == 1
<1>0. one \in Pos
  OBVIOUS
<1> HIDE DEF step, Pos, one
<1>2. PICK f \in [Nat -> Pos] : f[0] = one /\ \A n \in Nat : f[n + 1] = step[f[n]]
  BY <1>0, <1>1, Iterate DEF Iterations
<1> USE DEF step, Pos, one
<1>3. Eq(f)
  <2>1. ASSUME NEW n \in Nat PROVE f[n] = IF n = 0 THEN 1 ELSE 2 * f[n - 1]
    <3>1. CASE n = 0
      BY <1>2, <3>1
    <3>2. CASE n # 0
      <4>1. n - 1 \in Nat /\ (n - 1) + 1 = n
        BY <3>2
      <4>2. f[(n - 1) + 1] = step[f[n - 1]]
        BY <1>2, <4>1
      <4> QED  BY <1>2, <3>2, <4>1, <4>2
    <3> QED  BY <3>1, <3>2
  <2> QED  BY <2>1
<1>4. PowerOfTwo = CHOOSE g : Eq(g)
  BY DEF PowerOfTwo
<1>5. Eq(PowerOfTwo)
  <2> HIDE DEF Eq
  <2> QED  BY <1>3, <1>4
<1>6. PowerOfTwo[0] = 1
  BY <1>5
<1>7. \A n \in Nat : PowerOfTwo[n + 1] = 2 * PowerOfTwo[n]
  <2> TAKE n \in Nat
  <2>1. n + 1 \in Nat /\ n + 1 # 0 /\ (n + 1) - 1 = n
    OBVIOUS
  <2> QED  BY <1>5, <2>1
<1> DEFINE G == {n \in Nat : PowerOfTwo[n] \in Nat \ {0}}
<1>8. Nat \subseteq G
  <2>1. 0 \in G
    BY <1>6
  <2>2. \A n \in Nat : n \in G => n + 1 \in G
    BY <1>7
  <2> HIDE DEF G
  <2> QED  BY <2>1, <2>2, NaturalInduction
<1> QED  BY <1>6, <1>7, <1>8

(* Categories there can be.                                                *)
N == Cardinality(Categories)

(* Above a root, and above nothing, is nothing.                            *)
Parent(rows, v) == IF v = None THEN None ELSE rows[v].parent

(* Where there is a row, there can be one.                                 *)
LEMMA SizeIs ==
  /\ N \in Nat
  /\ \A rows : Linked(rows) => \A c \in DOMAIN rows : N >= 1
<1>1. N \in Nat
  BY CategoriesAssumption, FS_CardinalityType DEF N
<1>2. ASSUME NEW rows, Linked(rows), NEW c \in DOMAIN rows PROVE N >= 1
  <2>1. Categories # {}
    BY <1>2 DEF Linked
  <2>2. N # 0
    BY <2>1, CategoriesAssumption, FS_EmptySet DEF N
  <2> QED  BY <1>1, <2>2
<1> QED  BY <1>1, <1>2

(* Every parent is a row.                                                  *)
LEMMA LinkedParent ==
  ASSUME NEW rows, Linked(rows)
  PROVE  /\ DOMAIN rows \subseteq Categories /\ None \notin DOMAIN rows
         /\ Parent(rows, None) = None
         /\ \A v \in DOMAIN rows : v # None /\ Parent(rows, v) = rows[v].parent
         /\ \A v \in DOMAIN rows \union {None} : Parent(rows, v) \in DOMAIN rows \union {None}
BY CategoriesAssumption DEF Linked, Parent

(* Above follows the parents, one at a time.                               *)
LEMMA AboveIs ==
  ASSUME NEW rows, Linked(rows), NEW c \in DOMAIN rows
  PROVE  /\ Above(rows, c) \in [0..N -> DOMAIN rows \union {None}]
         /\ Above(rows, c)[0] = c
         /\ \A n \in 0..(N - 1) : Above(rows, c)[n + 1] = Parent(rows, Above(rows, c)[n])
<1> DEFINE S == DOMAIN rows \union {None}
           step == [v \in S |-> Parent(rows, v)]
           Eq(g) == g = [n \in 0..N |->
                           IF n = 0 THEN c
                           ELSE IF g[n - 1] = None THEN None ELSE rows[g[n - 1]].parent]
<1>1. c \in S /\ step \in [S -> S]
  BY LinkedParent
<1> HIDE DEF S, step
<1>2. PICK f \in [Nat -> S] : f[0] = c /\ \A n \in Nat : f[n + 1] = step[f[n]]
  <2>1. Iterations(S, c, step) # {}
    BY <1>1, Iterate
  <2> QED  BY <2>1 DEF Iterations
<1> USE DEF S, step
<1> DEFINE g == [n \in 0..N |-> f[n]]
<1>3. N \in Nat
  BY SizeIs
<1>4. Eq(g)
  <2>1. ASSUME NEW n \in 0..N
        PROVE  g[n] = IF n = 0 THEN c
                      ELSE IF g[n - 1] = None THEN None ELSE rows[g[n - 1]].parent
    <3>1. CASE n = 0
      BY <1>2, <3>1
    <3>2. CASE n # 0
      <4>1. n - 1 \in 0..N /\ n - 1 \in Nat /\ (n - 1) + 1 = n
        BY <1>3, <3>2
      <4>2. f[n] = step[f[n - 1]] /\ f[n - 1] \in S
        BY <1>2, <4>1
      <4>3. g[n] = Parent(rows, g[n - 1])
        BY <4>1, <4>2
      <4> QED  BY <3>2, <4>3 DEF Parent
    <3> QED  BY <3>1, <3>2
  <2> HIDE DEF g
  <2>2. g = [n \in 0..N |-> g[n]]
    BY DEF g
  <2> QED  BY <2>1, <2>2
<1>5. Above(rows, c) = CHOOSE h : Eq(h)
  BY DEF Above, N
<1>6. Eq(Above(rows, c))
  <2> HIDE DEF Eq
  <2> QED  BY <1>4, <1>5
<1> DEFINE A == Above(rows, c)
<1> HIDE DEF A
<1>7. DOMAIN A = 0..N
  BY <1>6 DEF A
<1>8. A = [n \in 0..N |-> IF n = 0 THEN c
                          ELSE IF A[n - 1] = None THEN None ELSE rows[A[n - 1]].parent]
  BY <1>6 DEF A
<1>9. A[0] = c
  BY <1>3, <1>8
<1>10. \A n \in 0..(N - 1) : A[n + 1] = Parent(rows, A[n])
  <2> TAKE n \in 0..(N - 1)
  <2>1. n + 1 \in 0..N /\ n + 1 # 0 /\ (n + 1) - 1 = n
    BY <1>3
  <2> QED  BY <1>8, <2>1 DEF Parent
<1> DEFINE G == {n \in Nat : n <= N => A[n] \in S}
<1>11. Nat \subseteq G
  <2>1. 0 \in G
    BY <1>1, <1>9
  <2>2. ASSUME NEW n \in Nat, n \in G PROVE n + 1 \in G
    <3> SUFFICES ASSUME n + 1 <= N PROVE A[n + 1] \in S
      OBVIOUS
    <3>1. n \in 0..(N - 1) /\ n <= N
      BY <1>3
    <3>2. A[n] \in S
      BY <2>2, <3>1
    <3> QED  BY <1>10, <3>1, <3>2, LinkedParent
  <2> HIDE DEF G
  <2> QED  BY <2>1, <2>2, NaturalInduction
<1>12. A \in [0..N -> S]
  <2>1. \A n \in 0..N : A[n] \in S
    BY <1>3, <1>11
  <2>2. A = [n \in 0..N |-> A[n]]
    BY <1>7, <1>8
  <2> HIDE DEF S
  <2> QED  BY <2>1, <2>2
<1> QED  BY <1>9, <1>10, <1>12 DEF A

(* Chains that meet go on together.                                        *)
LEMMA Meets ==
  ASSUME NEW rows, Linked(rows), NEW c \in DOMAIN rows, NEW d \in DOMAIN rows,
         NEW i \in 0..N, NEW j \in 0..N, Above(rows, c)[i] = Above(rows, d)[j],
         NEW k \in Nat, i + k <= N, j + k <= N
  PROVE  Above(rows, c)[i + k] = Above(rows, d)[j + k]
<1> DEFINE A == Above(rows, c)
           B == Above(rows, d)
           G == {n \in Nat : i + n <= N /\ j + n <= N => A[i + n] = B[j + n]}
<1>0. N \in Nat
  BY SizeIs
<1>1. /\ \A n \in 0..(N - 1) : A[n + 1] = Parent(rows, A[n])
      /\ \A n \in 0..(N - 1) : B[n + 1] = Parent(rows, B[n])
      /\ A[i] = B[j]
  BY AboveIs
<1> HIDE DEF A, B
<1>2. 0 \in G
  BY <1>1
<1>3. ASSUME NEW n \in Nat, n \in G PROVE n + 1 \in G
  <2> SUFFICES ASSUME i + (n + 1) <= N, j + (n + 1) <= N
               PROVE  A[i + (n + 1)] = B[j + (n + 1)]
    OBVIOUS
  <2>1. /\ i + n \in 0..(N - 1) /\ j + n \in 0..(N - 1) /\ i + n <= N /\ j + n <= N
        /\ i + (n + 1) = (i + n) + 1 /\ j + (n + 1) = (j + n) + 1
    BY <1>0
  <2>2. A[i + n] = B[j + n]
    BY <1>3, <2>1
  <2> QED  BY <1>1, <2>1, <2>2
<1>4. Nat \subseteq G
  <2> HIDE DEF G
  <2> QED  BY <1>2, <1>3, NaturalInduction
<1> QED  BY <1>4 DEF A, B

(* Above a root there is nothing any more.                                 *)
LEMMA NoneStays ==
  ASSUME NEW rows, Linked(rows), NEW c \in DOMAIN rows,
         NEW i \in 0..N, NEW j \in i..N, Above(rows, c)[i] = None
  PROVE  Above(rows, c)[j] = None
<1> DEFINE A == Above(rows, c)
           G == {n \in Nat : i + n <= N => A[i + n] = None}
<1>0. N \in Nat
  BY SizeIs
<1>1. /\ \A n \in 0..(N - 1) : A[n + 1] = Parent(rows, A[n])
      /\ A[i] = None
  BY AboveIs
<1> HIDE DEF A
<1>2. 0 \in G
  BY <1>1
<1>3. ASSUME NEW n \in Nat, n \in G PROVE n + 1 \in G
  <2> SUFFICES ASSUME i + (n + 1) <= N PROVE  A[i + (n + 1)] = None
    OBVIOUS
  <2>1. i + n \in 0..(N - 1) /\ i + n <= N /\ i + (n + 1) = (i + n) + 1
    BY <1>0
  <2>2. A[i + n] = None
    BY <1>3, <2>1
  <2> QED  BY <1>1, <2>1, <2>2 DEF Parent
<1>4. Nat \subseteq G
  <2> HIDE DEF G
  <2> QED  BY <1>2, <1>3, NaturalInduction
<1>5. j - i \in Nat /\ i + (j - i) = j /\ j <= N
  BY <1>0
<1> QED  BY <1>4, <1>5 DEF A

(* A chain that ends passes nothing twice.                                 *)
LEMMA OnceEach ==
  ASSUME NEW rows, Linked(rows), NEW c \in DOMAIN rows,
         NEW e \in 0..N, Above(rows, c)[e] = None,
         NEW i \in 0..N, NEW j \in 0..N, Above(rows, c)[i] = Above(rows, c)[j],
         Above(rows, c)[i] # None
  PROVE  i = j
<1> DEFINE A == Above(rows, c)
           Gone == {n \in 0..N : A[n] = None}
<1>0. N \in Nat
  BY SizeIs
<1>1. ASSUME NEW a \in 0..N, NEW b \in 0..N, A[a] = A[b], A[a] # None, a < b PROVE FALSE
  <2>1. PICK m \in Gone : \A n \in Gone : m <= n
    <3>1. Gone \in SUBSET Nat /\ Gone # {}
      OBVIOUS
    <3> HIDE DEF Gone
    <3> QED  BY <3>1, LeastNatural
  <2>2. b < m
    <3>1. ASSUME m <= b PROVE FALSE
      <4>1. b \in m..N
        BY <3>1
      <4> QED  BY <1>1, <2>1, <4>1, NoneStays
    <3> QED  BY <3>1
  <2>3. m - b \in Nat /\ a + (m - b) <= N /\ b + (m - b) <= N /\ b + (m - b) = m
        /\ a + (m - b) < m /\ a + (m - b) \in 0..N
    BY <1>0, <1>1, <2>2
  <2>4. A[a + (m - b)] = A[b + (m - b)]
    BY <1>1, <2>3, Meets
  <2> QED  BY <2>1, <2>3, <2>4
<1>2. i < j \/ j < i \/ i = j
  OBVIOUS
<1> QED  BY <1>1, <1>2

(* N steps are enough to see all of a chain.                               *)
LEMMA Closes ==
  ASSUME NEW rows, Linked(rows), NEW c \in DOMAIN rows
  PROVE  \E k \in 1..N : Above(rows, c)[k] = Parent(rows, Above(rows, c)[N])
<1> DEFINE A == Above(rows, c)
<1>0. N \in Nat /\ N >= 1
  BY SizeIs
<1>1. /\ A \in [0..N -> DOMAIN rows \union {None}]
      /\ \A n \in 0..(N - 1) : A[n + 1] = Parent(rows, A[n])
  BY AboveIs
<1>2. CASE A[N] = None
  BY <1>0, <1>2 DEF Parent
<1>3. CASE A[N] # None
  <2>1. \A n \in 0..N : A[n] # None
    <3> SUFFICES ASSUME NEW n \in 0..N, A[n] = None PROVE FALSE
      OBVIOUS
    <3>1. N \in n..N
      BY <1>0
    <3> QED  BY <1>3, <3>1, NoneStays
  <2>2. A \in [0..N -> Categories]
    BY <1>1, <2>1, LinkedParent
  <2>3. PICK a, b \in 0..N : a # b /\ A[a] = A[b]
    <3>1. IsFiniteSet(0..N) /\ Cardinality(0..N) = N + 1
      BY <1>0, FS_Interval
    <3> DEFINE B == 0..N
    <3>2. Cardinality(Categories) < Cardinality(B) /\ IsFiniteSet(Categories)
      BY <1>0, <3>1, CategoriesAssumption DEF N
    <3> HIDE DEF A, B
    <3>3. \E a, b \in B : a # b /\ A[a] = A[b]
      BY <2>2, <3>1, <3>2, FS_PigeonHole DEF B
    <3> QED  BY <3>3 DEF B
  <2>4. PICK i \in 0..N, j \in 0..N : i < j /\ A[i] = A[j]
    <3>1. a < b \/ b < a
      BY <2>3
    <3> QED  BY <2>3, <3>1
  <2>5. N - j \in Nat /\ i + (N - j) <= N /\ j + (N - j) <= N /\ j + (N - j) = N
        /\ i + (N - j) \in 0..(N - 1) /\ (i + (N - j)) + 1 \in 1..N
    BY <1>0, <2>4
  <2>6. A[i + (N - j)] = A[j + (N - j)]
    <3> DEFINE k == N - j
    <3>1. k \in Nat /\ i + k <= N /\ j + k <= N
      BY <2>5
    <3> HIDE DEF k
    <3>2. A[i + k] = A[j + k]
      BY <2>4, <3>1, Meets
    <3> QED  BY <3>2 DEF k
  <2>7. A[(i + (N - j)) + 1] = Parent(rows, A[N])
    BY <1>1, <2>5, <2>6
  <2> QED  BY <2>5, <2>7
<1> QED  BY <1>2, <1>3

(* What is above c, without c unless it is in a circle.                    *)
Over(rows, c) == {Above(rows, c)[n] : n \in 1..N} \ {None}

(* Over(rows, c) has c's parent, and with each its parent;                 *)
LEMMA OverHas ==
  ASSUME NEW rows, Linked(rows), NEW c \in DOMAIN rows
  PROVE  /\ Over(rows, c) \subseteq DOMAIN rows
         /\ Parent(rows, c) \in Over(rows, c) \union {None}
         /\ \A v \in Over(rows, c) : Parent(rows, v) \in Over(rows, c) \union {None}
<1> DEFINE A == Above(rows, c)
<1>0. N \in Nat /\ N >= 1
  BY SizeIs
<1>1. /\ A \in [0..N -> DOMAIN rows \union {None}] /\ A[0] = c
      /\ \A n \in 0..(N - 1) : A[n + 1] = Parent(rows, A[n])
      /\ \E k \in 1..N : A[k] = Parent(rows, A[N])
  BY AboveIs, Closes
<1>2. Over(rows, c) = {A[n] : n \in 1..N} \ {None}
  BY DEF Over
<1> HIDE DEF A
<1>3. Over(rows, c) \subseteq DOMAIN rows
  <2> SUFFICES ASSUME NEW n \in 1..N, A[n] # None PROVE A[n] \in DOMAIN rows
    BY <1>2
  <2>1. n \in 0..N
    BY <1>0
  <2> QED  BY <1>1, <2>1
<1>4. \A n \in 0..N : \E k \in 1..N : A[k] = Parent(rows, A[n])
  <2> TAKE n \in 0..N
  <2>1. CASE n = N
    BY <1>1, <2>1
  <2>2. CASE n # N
    <3>1. n \in 0..(N - 1) /\ n + 1 \in 1..N
      BY <1>0, <2>2
    <3> QED  BY <1>1, <3>1
  <2> QED  BY <2>1, <2>2
<1>5. \A n \in 0..N : Parent(rows, A[n]) \in Over(rows, c) \union {None}
  BY <1>2, <1>4
<1>6. 0 \in 0..N /\ \A n \in 1..N : n \in 0..N
  BY <1>0
<1> QED  BY <1>1, <1>2, <1>3, <1>5, <1>6

(* and it is the least set that does.                                      *)
LEMMA OverLeast ==
  ASSUME NEW rows, Linked(rows), NEW c \in DOMAIN rows, NEW T,
         Parent(rows, c) \in T \union {None},
         \A v \in T : v \in DOMAIN rows => Parent(rows, v) \in T \union {None}
  PROVE  Over(rows, c) \subseteq T
<1> DEFINE A == Above(rows, c)
           G == {n \in Nat : n + 1 <= N => A[n + 1] \in T \union {None}}
<1>0. N \in Nat /\ N >= 1
  BY SizeIs
<1>1. /\ A \in [0..N -> DOMAIN rows \union {None}] /\ A[0] = c
      /\ \A n \in 0..(N - 1) : A[n + 1] = Parent(rows, A[n])
      /\ Over(rows, c) = {A[n] : n \in 1..N} \ {None}
  BY AboveIs DEF Over
<1> HIDE DEF A
<1>2. 0 \in G
  BY <1>0, <1>1
<1>3. ASSUME NEW n \in Nat, n \in G PROVE n + 1 \in G
  <2> SUFFICES ASSUME (n + 1) + 1 <= N PROVE A[(n + 1) + 1] \in T \union {None}
    OBVIOUS
  <2>1. n + 1 \in 0..(N - 1) /\ n + 1 <= N /\ n + 1 \in 0..N
    BY <1>0
  <2>2. A[n + 1] \in T \union {None} /\ A[n + 1] \in DOMAIN rows \union {None}
    BY <1>1, <1>3, <2>1
  <2>3. A[(n + 1) + 1] = Parent(rows, A[n + 1])
    BY <1>1, <2>1
  <2> QED  BY <2>2, <2>3 DEF Parent
<1>4. Nat \subseteq G
  <2> HIDE DEF G
  <2> QED  BY <1>2, <1>3, NaturalInduction
<1>5. ASSUME NEW n \in 1..N PROVE A[n] \in T \union {None}
  <2>1. n - 1 \in Nat /\ (n - 1) + 1 = n /\ n <= N
    BY <1>0
  <2>2. n - 1 \in G
    BY <1>4, <2>1
  <2> QED  BY <2>1, <2>2
<1> QED  BY <1>1, <1>5

(* One in a circle is above itself;                                        *)
LEMMA InCircleIs ==
  ASSUME NEW rows, Linked(rows), NEW c \in DOMAIN rows
  PROVE  InCircle(rows, c) <=> c \in Over(rows, c)
<1>1. DOMAIN Above(rows, c) \ {0} = 1..N
  BY AboveIs, SizeIs
<1>2. c # None
  BY LinkedParent
<1> QED  BY <1>1, <1>2 DEF InCircle, Over

(* above a root is nothing,                                                *)
LEMMA OverOfRoot ==
  ASSUME NEW rows, Linked(rows), NEW c \in DOMAIN rows, Parent(rows, c) = None
  PROVE  Over(rows, c) = {}
<1>1. Parent(rows, c) \in {} \union {None} /\ \A v \in {} : v \in DOMAIN rows => Parent(rows, v) \in {} \union {None}
  OBVIOUS
<1> DEFINE T == {}
<1>2. Parent(rows, c) \in T \union {None} /\ \A v \in T : v \in DOMAIN rows => Parent(rows, v) \in T \union {None}
  BY <1>1
<1> HIDE DEF T
<1>3. Over(rows, c) \subseteq T
  BY <1>2, OverLeast
<1> QED  BY <1>3 DEF T

(* above any other its parent and what is above that,                      *)
LEMMA OverOfChild ==
  ASSUME NEW rows, Linked(rows), NEW c \in DOMAIN rows, Parent(rows, c) # None
  PROVE  /\ Parent(rows, c) \in DOMAIN rows
         /\ Over(rows, c) = {Parent(rows, c)} \union Over(rows, Parent(rows, c))
<1> DEFINE p == Parent(rows, c)
           T == {p} \union Over(rows, p)
<1>1. p \in DOMAIN rows
  BY LinkedParent
<1>2. p \in Over(rows, c) /\ \A v \in Over(rows, c) : Parent(rows, v) \in Over(rows, c) \union {None}
  BY OverHas
<1>3. Parent(rows, p) \in Over(rows, p) \union {None}
      /\ \A v \in Over(rows, p) : Parent(rows, v) \in Over(rows, p) \union {None}
  BY <1>1, OverHas
<1> HIDE DEF p
<1>4. Over(rows, p) \subseteq Over(rows, c)
  BY <1>1, <1>2, OverLeast
<1>5. p \in T \union {None} /\ \A v \in T : v \in DOMAIN rows => Parent(rows, v) \in T \union {None}
  BY <1>3
<1> HIDE DEF T
<1>6. Over(rows, c) \subseteq T
  BY <1>5, OverLeast DEF p
<1> USE DEF p, T
<1> QED  BY <1>1, <1>2, <1>4, <1>6

(* and what is above one above is above.                                   *)
LEMMA OverAgain ==
  ASSUME NEW rows, Linked(rows), NEW c \in DOMAIN rows, NEW d \in Over(rows, c)
  PROVE  d \in DOMAIN rows /\ Over(rows, d) \subseteq Over(rows, c)
<1>1. d \in DOMAIN rows
  BY OverHas
<1>2. Parent(rows, d) \in Over(rows, c) \union {None}
      /\ \A v \in Over(rows, c) : Parent(rows, v) \in Over(rows, c) \union {None}
  BY OverHas
<1> QED  BY <1>1, <1>2, OverLeast

(* Of two above the same, one is above the other.                          *)
LEMMA OverInLine ==
  ASSUME NEW rows, Linked(rows), NEW c \in DOMAIN rows,
         NEW d \in Over(rows, c), NEW e \in Over(rows, c)
  PROVE  d = e \/ d \in Over(rows, e) \/ e \in Over(rows, d)
<1>0. d \in DOMAIN rows /\ e \in DOMAIN rows /\ Over(rows, c) \subseteq DOMAIN rows
  BY OverHas
<1> DEFINE T == {s \in DOMAIN rows : s = d \/ d \in Over(rows, s) \/ s \in Over(rows, d)}
<1>1. ASSUME NEW s \in DOMAIN rows, d \in Over(rows, s)
      PROVE  Parent(rows, s) \in T
  <2>1. Parent(rows, s) # None
    BY <1>1, OverOfRoot
  <2> QED  BY <1>1, <2>1, OverOfChild
<1>2. ASSUME NEW s \in DOMAIN rows, s = d \/ s \in Over(rows, d)
      PROVE  Parent(rows, s) \in T \union {None}
  <2>1. Parent(rows, s) \in Over(rows, d) \union {None} /\ Over(rows, d) \subseteq DOMAIN rows
    BY <1>0, <1>2, OverHas
  <2> QED  BY <2>1
<1>3. Parent(rows, c) \in T \union {None}
  BY <1>1
<1>4. \A v \in T : v \in DOMAIN rows => Parent(rows, v) \in T \union {None}
  BY <1>1, <1>2
<1> HIDE DEF T
<1>5. Over(rows, c) \subseteq T
  BY <1>3, <1>4, OverLeast
<1> QED  BY <1>5 DEF T

(* A category that is in no circle has at most one child above any other.  *)
LEMMA OneChildAbove ==
  ASSUME NEW rows, Linked(rows), NEW c \in DOMAIN rows, NEW p, p # None,
         p \in DOMAIN rows => p \notin Over(rows, p),
         NEW d \in Over(rows, c) \union {c}, NEW e \in Over(rows, c) \union {c},
         Parent(rows, d) = p, Parent(rows, e) = p
  PROVE  d = e
<1>1. d \in DOMAIN rows /\ e \in DOMAIN rows
  BY OverHas
<1>2. p \in DOMAIN rows /\ p \notin Over(rows, p)
  BY <1>1, OverOfChild
<1>3. ASSUME NEW s \in DOMAIN rows, NEW t \in DOMAIN rows, s \in Over(rows, t),
             Parent(rows, s) = p, Parent(rows, t) = p
      PROVE  FALSE
  <2>1. Over(rows, t) = {p} \union Over(rows, p)
    BY <1>3, OverOfChild
  <2>2. s = p \/ s \in Over(rows, p)
    BY <1>3, <2>1
  <2>3. Parent(rows, s) \in Over(rows, p) \union {None}
    BY <1>2, <2>2, OverHas
  <2> QED  BY <1>2, <1>3, <2>3
<1>4. d = e \/ d \in Over(rows, e) \/ e \in Over(rows, d)
  BY OverInLine
<1> QED  BY <1>1, <1>3, <1>4

(* Who is above itself is in a circle with all it is below.                *)
LEMMA CircleOfAll ==
  ASSUME NEW rows, Linked(rows), NEW t \in DOMAIN rows, t \in Over(rows, t),
         NEW x \in Over(rows, t)
  PROVE  x \in Over(rows, x)
<1>1. x \in DOMAIN rows
  BY OverAgain
<1> DEFINE T == {s \in DOMAIN rows : t = s \/ t \in Over(rows, s)}
<1>2. ASSUME NEW s \in DOMAIN rows, t \in Over(rows, s) PROVE Parent(rows, s) \in T
  <2>1. Parent(rows, s) # None
    BY <1>2, OverOfRoot
  <2> QED  BY <1>2, <2>1, OverOfChild
<1>3. Parent(rows, t) \in T \union {None} /\ \A v \in T : v \in DOMAIN rows => Parent(rows, v) \in T \union {None}
  BY <1>2
<1> HIDE DEF T
<1>4. Over(rows, t) \subseteq T
  BY <1>3, OverLeast
<1>5. t = x \/ t \in Over(rows, x)
  BY <1>4 DEF T
<1>6. CASE t \in Over(rows, x)
  BY <1>1, <1>6, OverAgain
<1> QED  BY <1>5, <1>6

(* A row that only loses its parent has less above it.                     *)
LEMMA OverTrimmed ==
  ASSUME NEW rows, Linked(rows), NEW next, Linked(next),
         \A t \in DOMAIN next \intersect DOMAIN rows :
           Parent(next, t) \in {Parent(rows, t), None},
         NEW c \in DOMAIN next \intersect DOMAIN rows
  PROVE  Over(next, c) \subseteq Over(rows, c)
<1>1. /\ Over(rows, c) \subseteq DOMAIN rows
      /\ Parent(rows, c) \in Over(rows, c) \union {None}
      /\ \A v \in Over(rows, c) : Parent(rows, v) \in Over(rows, c) \union {None}
  BY OverHas
<1>2. Parent(next, c) \in Over(rows, c) \union {None}
  BY <1>1
<1>3. \A v \in Over(rows, c) : v \in DOMAIN next => Parent(next, v) \in Over(rows, c) \union {None}
  BY <1>1
<1> QED  BY <1>2, <1>3, OverLeast

(* One that is placed below y has y and what is above y above it.          *)
LEMMA OverMoved ==
  ASSUME NEW rows, Linked(rows), NEW next, Linked(next),
         NEW x \in DOMAIN next \intersect DOMAIN rows, NEW y \in DOMAIN rows,
         Parent(next, x) = y,
         \A t \in DOMAIN next \intersect DOMAIN rows :
           t # x => Parent(next, t) \in {Parent(rows, t), None},
         NEW c \in DOMAIN next \intersect DOMAIN rows
  PROVE  Over(next, c) \subseteq Over(rows, c) \union ({y} \union Over(rows, y))
<1> DEFINE T == Over(rows, c) \union ({y} \union Over(rows, y))
<1>1. /\ Over(rows, c) \subseteq DOMAIN rows
      /\ Parent(rows, c) \in Over(rows, c) \union {None}
      /\ \A v \in Over(rows, c) : Parent(rows, v) \in Over(rows, c) \union {None}
  BY OverHas
<1>2. /\ Over(rows, y) \subseteq DOMAIN rows
      /\ Parent(rows, y) \in Over(rows, y) \union {None}
      /\ \A v \in Over(rows, y) : Parent(rows, v) \in Over(rows, y) \union {None}
  BY OverHas
<1>3. Parent(next, c) \in T \union {None}
  BY <1>1
<1>4. \A v \in T : v \in DOMAIN next => Parent(next, v) \in T \union {None}
  BY <1>1, <1>2
<1> HIDE DEF T
<1>5. Over(next, c) \subseteq T
  BY <1>3, <1>4, OverLeast
<1> QED  BY <1>5 DEF T

(* A circle that was not there has been closed where a row was placed.     *)
LEMMA CircleClosed ==
  ASSUME NEW rows, Linked(rows), NEW next, Linked(next), NEW x,
         \A t \in DOMAIN next \intersect DOMAIN rows :
           t # x => Parent(next, t) \in {Parent(rows, t), None},
         NEW t \in DOMAIN next \intersect DOMAIN rows,
         t \in Over(next, t), t \notin Over(rows, t)
  PROVE  x \in DOMAIN next /\ x \in Over(next, x)
<1> DEFINE T == Over(rows, t) \intersect Over(next, t)
<1>1. /\ Over(rows, t) \subseteq DOMAIN rows
      /\ Parent(rows, t) \in Over(rows, t) \union {None}
      /\ \A v \in Over(rows, t) : Parent(rows, v) \in Over(rows, t) \union {None}
  BY OverHas
<1>2. /\ Over(next, t) \subseteq DOMAIN next
      /\ Parent(next, t) \in Over(next, t) \union {None}
      /\ \A v \in Over(next, t) : Parent(next, v) \in Over(next, t) \union {None}
  BY OverHas
<1>3. ASSUME x \notin Over(next, t) PROVE FALSE
  <2>1. x # t
    BY <1>3
  <2>2. Parent(next, t) \in T \union {None}
    BY <1>1, <1>2, <2>1
  <2>3. \A v \in T : v \in DOMAIN next => Parent(next, v) \in T \union {None}
    BY <1>1, <1>2, <1>3
  <2> HIDE DEF T
  <2>4. Over(next, t) \subseteq T
    BY <2>2, <2>3, OverLeast
  <2> QED  BY <2>4 DEF T
<1> QED  BY <1>2, <1>3, CircleOfAll

-----------------------------------------------------------------------------
(* Counting the categories of a list *)

(* A category that waits to be read, and at which depth.                   *)
Entry == [id : Categories, depth : 1..Depth]

(* How many entries of a list are in E.                                    *)
Places(s, E) == {i \in DOMAIN s : s[i] \in E}
Count(s, E) == Cardinality(Places(s, E))

(* They can be counted;                                                    *)
LEMMA PlacesFinite ==
  ASSUME NEW S, NEW s \in Seq(S), NEW E
  PROVE  /\ DOMAIN s = 1..Len(s) /\ Len(s) \in Nat
         /\ IsFiniteSet(Places(s, E)) /\ Count(s, E) \in Nat
<1>1. DOMAIN s = 1..Len(s) /\ Len(s) \in Nat
  BY LenProperties
<1>2. IsFiniteSet(1..Len(s))
  BY <1>1, FS_Interval
<1>3. Places(s, E) \subseteq 1..Len(s)
  BY <1>1 DEF Places
<1>4. IsFiniteSet(Places(s, E))
  BY <1>2, <1>3, FS_Subset
<1> QED  BY <1>1, <1>4, FS_CardinalityType DEF Count

(* there are more of them in more,                                         *)
LEMMA CountGrows ==
  ASSUME NEW S, NEW s \in Seq(S), NEW E, NEW F,
         \A i \in DOMAIN s : s[i] \in E => s[i] \in F
  PROVE  Count(s, E) <= Count(s, F)
<1>1. Places(s, E) \subseteq Places(s, F)
  BY DEF Places
<1>2. IsFiniteSet(Places(s, F))
  BY PlacesFinite
<1> QED  BY <1>1, <1>2, FS_Subset DEF Count

(* at most as many as in two that cover it,                                *)
LEMMA CountEither ==
  ASSUME NEW S, NEW s \in Seq(S), NEW D, NEW E, NEW F,
         \A i \in DOMAIN s : s[i] \in D => s[i] \in E \/ s[i] \in F
  PROVE  Count(s, D) <= Count(s, E) + Count(s, F)
<1> DEFINE A == Places(s, E)
           B == Places(s, F)
           C == Places(s, D)
<1>1. C \subseteq A \union B
  BY DEF Places
<1>2. IsFiniteSet(A) /\ IsFiniteSet(B) /\ Cardinality(A) \in Nat /\ Cardinality(B) \in Nat
  BY PlacesFinite, FS_CardinalityType
<1> HIDE DEF A, B, C
<1>3. /\ IsFiniteSet(A \union B)
      /\ Cardinality(A \union B) = Cardinality(A) + Cardinality(B) - Cardinality(A \intersect B)
  BY <1>2, FS_Union
<1>4. Cardinality(A \intersect B) \in Nat
  BY <1>2, FS_Intersection, FS_CardinalityType
<1>5. Cardinality(C) <= Cardinality(A \union B) /\ Cardinality(C) \in Nat
  BY <1>1, <1>3, FS_Subset, FS_CardinalityType
<1>6. Cardinality(C) <= Cardinality(A) + Cardinality(B)
  BY <1>2, <1>3, <1>4, <1>5
<1> QED  BY <1>6 DEF Count, A, B, C

(* and none where nothing is in it.                                        *)
LEMMA CountNone ==
  ASSUME NEW s, NEW E, \A i \in DOMAIN s : s[i] \notin E
  PROVE  Count(s, E) = 0
<1>1. Places(s, E) = {}
  BY DEF Places
<1> QED  BY <1>1, FS_EmptySet DEF Count

(* What matches one to one is as many.                                     *)
LEMMA SameSize ==
  ASSUME NEW A, NEW B, IsFiniteSet(A), NEW f \in [A -> B],
         \A a, b \in A : f[a] = f[b] => a = b,
         \A b \in B : \E a \in A : f[a] = b
  PROVE  IsFiniteSet(B) /\ Cardinality(B) = Cardinality(A)
<1>1. f \in Bijection(A, B)
  BY DEF Bijection, Injection, Surjection, IsInjective
<1>2. ExistsBijection(A, B)
  BY <1>1 DEF ExistsBijection
<1> QED  BY <1>2, FS_Bijection

(* Of two lists put together there are the sum;                            *)
LEMMA CountJoined ==
  ASSUME NEW S, NEW s \in Seq(S), NEW t \in Seq(S), NEW E
  PROVE  /\ s \o t \in Seq(S)
         /\ Count(s \o t, E) = Count(s, E) + Count(t, E)
<1> DEFINE m == Len(s)
           n == Len(t)
           A == Places(s, E)
           B == Places(t, E)
           C == Places(s \o t, E)
           D == {m + j : j \in B}
           f == [j \in B |-> m + j]
<1>1. /\ m \in Nat /\ n \in Nat /\ DOMAIN s = 1..m /\ DOMAIN t = 1..n
      /\ IsFiniteSet(A) /\ IsFiniteSet(B)
  BY PlacesFinite
<1>2. /\ s \o t \in Seq(S) /\ DOMAIN (s \o t) = 1..(m + n)
      /\ \A i \in 1..(m + n) : (s \o t)[i] = IF i <= m THEN s[i] ELSE t[i - m]
  <2>1. /\ s \o t \in Seq(S) /\ Len(s \o t) = m + n
        /\ \A i \in 1..(m + n) : (s \o t)[i] = IF i <= m THEN s[i] ELSE t[i - m]
    BY ConcatProperties
  <2> QED  BY <2>1, LenProperties
<1>3. A \subseteq 1..m /\ B \subseteq 1..n
  BY <1>1 DEF Places
<1> HIDE DEF m, n
<1>4. C = A \union D
  <2>1. ASSUME NEW i \in C PROVE i \in A \union D
    <3>1. i \in 1..(m + n) /\ (s \o t)[i] \in E
      BY <1>2, <2>1 DEF Places
    <3>2. CASE i <= m
      <4>1. i \in 1..m /\ s[i] \in E
        BY <1>1, <1>2, <3>1, <3>2
      <4> QED  BY <1>1, <4>1 DEF Places
    <3>3. CASE ~(i <= m)
      <4> DEFINE j == i - m
      <4>1. (s \o t)[i] = t[j]
        BY <1>2, <3>1, <3>3
      <4>2. j \in 1..n /\ i = m + j
        BY <1>1, <3>1, <3>3
      <4> HIDE DEF j
      <4>3. j \in B
        BY <1>1, <3>1, <4>1, <4>2 DEF Places
      <4> QED  BY <4>2, <4>3
    <3> QED  BY <3>2, <3>3
  <2>2. ASSUME NEW i \in A PROVE i \in C
    <3>1. i \in 1..m /\ s[i] \in E
      BY <1>1 DEF Places
    <3>2. i \in 1..(m + n) /\ i <= m
      BY <1>1, <3>1
    <3> QED  BY <1>2, <3>1, <3>2 DEF Places
  <2>3. ASSUME NEW j \in B PROVE m + j \in C
    <3>1. j \in 1..n /\ t[j] \in E
      BY <1>1 DEF Places
    <3>2. m + j \in 1..(m + n) /\ ~(m + j <= m) /\ (m + j) - m = j
      BY <1>1, <3>1
    <3>3. (s \o t)[m + j] = t[j]
      BY <1>2, <3>2
    <3> QED  BY <1>2, <3>1, <3>2, <3>3 DEF Places
  <2> HIDE DEF A, B, C
  <2> QED  BY <2>1, <2>2, <2>3
<1> HIDE DEF A, B, C
<1>5. IsFiniteSet(D) /\ Cardinality(D) = Cardinality(B)
  <2>1. f \in [B -> D]
    OBVIOUS
  <2>2. \A a, b \in B : f[a] = f[b] => a = b
    BY <1>1, <1>3
  <2>3. \A d \in D : \E b \in B : f[b] = d
    OBVIOUS
  <2> HIDE DEF f, D
  <2> QED  BY <1>1, <2>1, <2>2, <2>3, SameSize
<1>6. A \intersect D = {}
  BY <1>1, <1>3
<1> HIDE DEF D
<1>7. Cardinality(A) \in Nat /\ Cardinality(B) \in Nat /\ Cardinality({}) = 0
  BY <1>1, FS_CardinalityType, FS_EmptySet
<1>8. Cardinality(A \union D) = Cardinality(A) + Cardinality(D) - 0
  <2>1. Cardinality(A \union D) = Cardinality(A) + Cardinality(D) - Cardinality(A \intersect D)
    BY <1>1, <1>5, FS_Union
  <2>2. Cardinality(A \intersect D) = 0
    BY <1>6, <1>7
  <2> QED  BY <2>1, <2>2
<1>9. Cardinality(C) = Cardinality(A) + Cardinality(B)
  BY <1>4, <1>5, <1>6, <1>7, <1>8
<1> QED  BY <1>2, <1>9 DEF Count, A, B, C

(* whatever is counted;                                                    *)
Adds(b, s, t) == \A E : Count(b, E) = Count(s, E) + Count(t, E)

LEMMA CountOfBoth ==
  ASSUME NEW S, NEW s \in Seq(S), NEW t \in Seq(S), NEW b, b = s \o t
  PROVE  b \in Seq(S) /\ Adds(b, s, t)
<1>1. b \in Seq(S)
  BY CountJoined
<1>2. ASSUME NEW E PROVE Count(b, E) = Count(s, E) + Count(t, E)
  <2>1. Count(s \o t, E) = Count(s, E) + Count(t, E)
    BY CountJoined
  <2> QED  BY <2>1
<1> QED  BY <1>1, <1>2 DEF Adds

(* and of a list those of its tail, and one if its head is.                *)
LEMMA CountOfHead ==
  ASSUME NEW S, NEW s \in Seq(S), s # <<>>, NEW E
  PROVE  /\ Head(s) \in S /\ Tail(s) \in Seq(S)
         /\ Count(s, E) = Count(Tail(s), E) + IF Head(s) \in E THEN 1 ELSE 0
<1>1. Head(s) \in S /\ Tail(s) \in Seq(S)
  BY HeadTailProperties
<1> DEFINE first == Head(s)
           rest == Tail(s)
           h == <<first>>
<1>2. h \in Seq(S) /\ Len(h) = 1 /\ h[1] = first
  BY <1>1
<1>3a. /\ Len(rest) = Len(s) - 1 /\ Len(s) \in Nat /\ Len(rest) \in Nat
       /\ \A i \in 1..Len(rest) : rest[i] = s[i + 1]
  BY <1>1, HeadTailProperties, LenProperties
<1>3b. first = s[1] /\ rest \in Seq(S) /\ first \in S
  BY <1>1
<1> HIDE DEF h, rest, first
<1>3. s = h \o rest
  <2>1. /\ h \o rest \in Seq(S)
        /\ Len(h \o rest) = 1 + Len(rest)
        /\ \A i \in 1..(1 + Len(rest)) :
             (h \o rest)[i] = IF i <= 1 THEN h[i] ELSE rest[i - 1]
    <3>1. /\ h \o rest \in Seq(S)
          /\ Len(h \o rest) = Len(h) + Len(rest)
          /\ \A i \in 1..(Len(h) + Len(rest)) :
               (h \o rest)[i] = IF i <= Len(h) THEN h[i] ELSE rest[i - Len(h)]
      BY <1>3b, <1>2, ConcatProperties
    <3> QED  BY <1>2, <3>1
  <2>4. ASSUME NEW i \in 1..Len(s) PROVE s[i] = (h \o rest)[i]
    <3>1. CASE i = 1
      BY <1>2, <2>1, <1>3a, <1>3b, <3>1
    <3>2. CASE i # 1
      <4>1. i - 1 \in 1..Len(rest) /\ (i - 1) + 1 = i /\ ~(i <= 1) /\ i \in 1..(1 + Len(rest))
        BY <1>3a, <3>2
      <4> QED  BY <2>1, <1>3a, <4>1
    <3> QED  BY <3>1, <3>2
  <2> DEFINE whole == h \o rest
  <2>5. whole \in Seq(S) /\ Len(s) = Len(whole) /\ \A i \in 1..Len(s) : s[i] = whole[i]
    BY <1>3a, <2>1, <2>4
  <2> HIDE DEF whole
  <2>6. s = whole
    BY <2>5, SeqEqual
  <2> QED  BY <2>6 DEF whole
<1>4. Count(s, E) = Count(h, E) + Count(rest, E)
  BY <1>3b, <1>2, <1>3, CountJoined
<1>5. Places(h, E) = IF first \in E THEN {1} ELSE {}
  <2>1. DOMAIN h = {1}
    BY <1>2, PlacesFinite
  <2> QED  BY <1>2, <2>1 DEF Places
<1>6. Count(h, E) = IF first \in E THEN 1 ELSE 0
  BY <1>5, FS_EmptySet, FS_Singleton DEF Count
<1>7. Count(rest, E) \in Nat
  BY <1>3b, PlacesFinite
<1> QED  BY <1>1, <1>4, <1>6, <1>7 DEF first, rest

(* The entries of the categories in F, in any order.                       *)
Listed(p, d) == [i \in DOMAIN p |-> [id |-> p[i], depth |-> d]]

(* Those of F that are in E at depth d.                                    *)
Hits(F, d, E) == {c \in F : [id |-> c, depth |-> d] \in E}

(* A list of them has as many as there are.                                *)
LEMMA CountListed ==
  ASSUME NEW F \in SUBSET Categories, NEW p \in SetToSeqs(F), NEW d, NEW E
  PROVE  /\ IsFiniteSet(F)
         /\ d \in 1..Depth => Listed(p, d) \in Seq(Entry)
         /\ IsFiniteSet(Hits(F, d, E))
         /\ Count(Listed(p, d), E) = Cardinality(Hits(F, d, E))
<1> DEFINE n == Cardinality(F)
           s == Listed(p, d)
           C == Hits(F, d, E)
           A == Places(s, E)
           f == [i \in A |-> p[i]]
<1>1. IsFiniteSet(F) /\ n \in Nat
  BY CategoriesAssumption, FS_Subset, FS_CardinalityType
<1>2. p \in [1..n -> F] /\ \A i, j \in 1..n : i # j => p[i] # p[j]
  BY DEF SetToSeqs
<1>3. \A c \in F : \E i \in 1..n : p[i] = c
  <2>1. IsFiniteSet(1..n) /\ Cardinality(1..n) = n
    BY <1>1, FS_Interval
  <2> DEFINE R == 1..n
  <2>2. p \in Injection(R, F)
    BY <1>2 DEF Injection, IsInjective
  <2>3. Cardinality(R) = Cardinality(F) /\ IsFiniteSet(F)
    BY <1>1, <2>1
  <2> HIDE DEF R
  <2>4. p \in Surjection(R, F)
    BY <2>2, <2>3, FS_Injection
  <2> QED  BY <2>4 DEF Surjection, R
<1> HIDE DEF n
<1>4. DOMAIN s = 1..n /\ \A i \in 1..n : s[i] = [id |-> p[i], depth |-> d]
  BY <1>2 DEF Listed
<1>5. ASSUME d \in 1..Depth PROVE s \in Seq(Entry)
  <2>1. s \in [1..n -> Entry]
    BY <1>2, <1>5 DEF Listed, Entry
  <2> HIDE DEF s
  <2> QED  BY <1>1, <2>1
<1>6. IsFiniteSet(A)
  <2>1. A \subseteq 1..n /\ IsFiniteSet(1..n)
    BY <1>1, <1>4, FS_Interval DEF Places
  <2> QED  BY <2>1, FS_Subset
<1>7. \A i \in A : i \in 1..n /\ [id |-> p[i], depth |-> d] \in E
  BY <1>4 DEF Places
<1>8. \A i \in 1..n : [id |-> p[i], depth |-> d] \in E => i \in A
  BY <1>4 DEF Places
<1> HIDE DEF A
<1>9. f \in [A -> C]
  BY <1>2, <1>7 DEF Hits
<1>10. \A a, b \in A : f[a] = f[b] => a = b
  BY <1>2, <1>7
<1>11. \A c \in C : \E a \in A : f[a] = c
  BY <1>3, <1>8 DEF Hits
<1> HIDE DEF f, C
<1>12. IsFiniteSet(C) /\ Cardinality(C) = Cardinality(A)
  BY <1>6, <1>9, <1>10, <1>11, SameSize
<1> QED  BY <1>1, <1>5, <1>12 DEF C, A, Count

(* Requests.                                                               *)
RequestRow == [pc : {"idle", "reorder", "walk"}, items : Nat, nav : BOOLEAN,
               todo : Seq(Entry), shown : [Categories -> Nat],
               changed : SUBSET Categories, failed : SUBSET Categories,
               placed : Nat, circled : BOOLEAN]

(* The entries of the categories in X, and those in circles.               *)
Of(X) == {e \in Entry : e.id \in X}
Circles(rows) == {c \in DOMAIN rows : c \in Over(rows, c)}

(* A category waits to be read at most once for each time it was shown;    *)
AsShown(ever, w) ==
  \A c \in Categories :
    Count(w.todo, Of({c})) <= w.shown[c] /\ (c \notin ever => w.shown[c] = 0)

(* it has been and will be shown at most twice as often for each placement; *)
CopiesFor(rows, w, c) ==
  /\ w.shown[c] <= PowerOfTwo[w.placed]
  /\ c \in DOMAIN rows =>
       w.shown[c] + Count(w.todo, Of(Over(rows, c))) <= PowerOfTwo[w.placed]

(* with nothing to read in a circle, unless one was closed;                *)
Copies(rows, w) ==
  ~w.circled => /\ Count(w.todo, Of(Circles(rows))) = 0
                /\ \A c \in Categories : CopiesFor(rows, w, c)

(* and if it was left alone, exactly once or never.                        *)
ChainOf(rows, c) == Range(Above(rows, c)) \ {None}
(* nothing on its way to a root was changed or could not be read.          *)
Clean(rows, w, c) == ChainOf(rows, c) \intersect (w.changed \union w.failed) = {}
(* It is below a root, in as many steps as there can be.                   *)
Ends(rows, c) == \E n \in 0..N : Above(rows, c)[n] = None

(* It and all below its m-th ancestor is visible.                          *)
VisibleTo(rows, c, nav, m) == nav => \A k \in 0..(m - 1) : rows[Above(rows, c)[k]].visible

(* The entries that will bring it up: above it, within the depth, visible. *)
LeadsTo(rows, c, nav) ==
  {e \in Entry : \E m \in 1..N : /\ Above(rows, c)[m] = e.id /\ m <= e.depth
                                 /\ VisibleTo(rows, c, nav, m)}

(* It is in a tree that is read at rest.                                   *)
Belongs(rows, c, nav) ==
  /\ \E n \in (1..(Depth + 1)) \intersect (0..N) : Above(rows, c)[n] = None
  /\ nav => \A d \in ChainOf(rows, c) : rows[d].visible

(* Shown or to be shown once, or never; nobody reads towards a circle.     *)
ExactFor(rows, w, c) ==
  /\ w.shown[c] + Count(w.todo, LeadsTo(rows, c, w.nav)) =
       IF Belongs(rows, c, w.nav) THEN 1 ELSE 0
  /\ ~Ends(rows, c) => Count(w.todo, Of(ChainOf(rows, c))) = 0

(* So it is for all that were left alone.                                  *)
Exact(rows, w) == \A c \in DOMAIN rows : Clean(rows, w, c) => ExactFor(rows, w, c)

-----------------------------------------------------------------------------
(* What has no two different members has none or one.                      *)
LEMMA AtMostOne ==
  ASSUME NEW S, \A a, b \in S : a = b
  PROVE  IsFiniteSet(S) /\ Cardinality(S) = IF S = {} THEN 0 ELSE 1
<1>1. CASE S = {}
  BY <1>1, FS_EmptySet
<1>2. CASE S # {}
  <2>1. PICK a \in S : TRUE
    BY <1>2
  <2>2. S = {a}
    BY <2>1
  <2> QED  BY <1>2, <2>2, FS_Singleton
<1> QED  BY <1>1, <1>2

-----------------------------------------------------------------------------
(* The query for the children of the next category                        *)

(* The rows below p, or the roots, that the query finds;                   *)
FoundIn(rows, p, nav) == {c \in DOMAIN rows : rows[c].parent = p /\ (nav => rows[c].visible)}

(* what is still to be read of them;                                       *)
Deeper(h, p) == IF h.depth > 1 THEN Listed(p, h.depth - 1) ELSE <<>>

(* and the request then.                                                   *)
AfterRead(w, found, p) ==
  [w EXCEPT !.shown = [c \in Categories |-> @[c] + IF c \in found THEN 1 ELSE 0],
            !.todo = Deeper(Head(w.todo), p) \o Tail(@)]

(* 0 or 1, and what of the found is counted.                               *)
One(b) == IF b THEN 1 ELSE 0
Gain(h, found, E) == IF h.depth > 1 THEN Cardinality(Hits(found, h.depth - 1, E)) ELSE 0

(* A read takes the head and counts what is found.                         *)
Reads(w, v, h, t, found) ==
  /\ h \in Entry /\ h.depth \in 1..Depth
  /\ v \in RequestRow /\ v.pc = w.pc /\ v.nav = w.nav /\ v.placed = w.placed
  /\ v.circled = w.circled /\ v.changed = w.changed /\ v.failed = w.failed
  /\ \A c \in Categories : v.shown[c] = w.shown[c] + One(c \in found)
  /\ \A E : /\ Count(w.todo, E) = Count(t, E) + One(h \in E)
            /\ Count(v.todo, E) = Count(t, E) + Gain(h, found, E)
            /\ Count(w.todo, E) \in Nat /\ Count(t, E) \in Nat

(* That is what the read does.                                             *)
LEMMA ReadCounts ==
  ASSUME NEW w \in RequestRow, w.todo # <<>>, NEW found \in SUBSET Categories,
         NEW p \in SetToSeqs(found), NEW v, v = AfterRead(w, found, p),
         NEW h, h = Head(w.todo), NEW t, t = Tail(w.todo)
  PROVE  Reads(w, v, h, t, found)
<1>1. w.todo \in Seq(Entry) /\ w.shown \in [Categories -> Nat]
  BY DEF RequestRow
<1>2. h \in Entry /\ t \in Seq(Entry) /\ \A E : Count(w.todo, E) = Count(t, E) + One(h \in E)
  <2>1. h \in Entry /\ t \in Seq(Entry)
    BY <1>1, CountOfHead
  <2>2. ASSUME NEW E PROVE Count(w.todo, E) = Count(t, E) + One(h \in E)
    BY <1>1, CountOfHead DEF One
  <2> QED  BY <2>1, <2>2
<1>3. h.depth \in 1..Depth /\ Depth \in Nat
  BY <1>2, DepthAssumption DEF Entry
<1> DEFINE new == Deeper(h, p)
<1>4. new \in Seq(Entry) /\ \A E : Count(new, E) = Gain(h, found, E)
  <2>1. CASE h.depth > 1
    <3> DEFINE d == h.depth - 1
    <3>1. d \in 1..Depth
      BY <1>3, <2>1
    <3>2. new = Listed(p, d) /\ \A E : Gain(h, found, E) = Cardinality(Hits(found, d, E))
      BY <2>1 DEF Deeper, Gain
    <3> HIDE DEF d, new
    <3>3. \A E : Count(Listed(p, d), E) = Cardinality(Hits(found, d, E))
      BY CountListed
    <3>4. Listed(p, d) \in Seq(Entry)
      BY <3>1, CountListed
    <3> QED  BY <3>2, <3>3, <3>4
  <2>2. CASE ~(h.depth > 1)
    <3>1. new = <<>> /\ \A E : Gain(h, found, E) = 0
      BY <2>2 DEF Deeper, Gain
    <3>2. <<>> \in Seq(Entry) /\ \A E : Count(<<>>, E) = 0
      BY CountNone
    <3> HIDE DEF new
    <3> QED  BY <3>1, <3>2
  <2> QED  BY <2>1, <2>2
<1>5. v.todo = new \o t
  BY DEF AfterRead, RequestRow
<1>6. /\ v.pc = w.pc /\ v.nav = w.nav /\ v.placed = w.placed
      /\ v.circled = w.circled /\ v.changed = w.changed /\ v.failed = w.failed
      /\ v.shown = [c \in Categories |-> w.shown[c] + IF c \in found THEN 1 ELSE 0]
      /\ v = [pc |-> w.pc, items |-> w.items, nav |-> w.nav, todo |-> v.todo, shown |-> v.shown,
              changed |-> w.changed, failed |-> w.failed, placed |-> w.placed,
              circled |-> w.circled]
  BY DEF AfterRead, RequestRow
<1>7. /\ v.shown \in [Categories -> Nat]
      /\ \A c \in Categories : v.shown[c] = w.shown[c] + One(c \in found)
  <2>1. \A c \in Categories : w.shown[c] + (IF c \in found THEN 1 ELSE 0) \in Nat
    BY <1>1
  <2> QED  BY <1>6, <2>1 DEF One
<1> HIDE DEF new
<1>8. v.todo \in Seq(Entry) /\ \A E : Count(v.todo, E) = Count(new, E) + Count(t, E)
  <2>1. new \in Seq(Entry) /\ t \in Seq(Entry)
    BY <1>2, <1>4
  <2> DEFINE b == v.todo
  <2>2. b = new \o t
    BY <1>5
  <2> HIDE DEF b
  <2>3. b \in Seq(Entry) /\ Adds(b, new, t)
    BY <2>1, <2>2, CountOfBoth
  <2> QED  BY <2>3 DEF b, Adds
<1>9. v \in RequestRow
  <2>1. v.todo \in Seq(Entry)
    BY <1>8
  <2> QED  BY <1>6, <1>7, <2>1 DEF RequestRow
<1>10. ASSUME NEW E
       PROVE  /\ Count(v.todo, E) = Count(t, E) + Gain(h, found, E)
              /\ Count(w.todo, E) \in Nat /\ Count(t, E) \in Nat
  <2>1. Count(w.todo, E) \in Nat /\ Count(t, E) \in Nat /\ Count(new, E) \in Nat
    BY <1>1, <1>2, <1>4, PlacesFinite
  <2>2. Count(v.todo, E) = Count(new, E) + Count(t, E) /\ Count(new, E) = Gain(h, found, E)
    BY <1>4, <1>8
  <2> QED  BY <2>1, <2>2
<1> QED  BY <1>2, <1>3, <1>6, <1>7, <1>9, <1>10 DEF Reads

(* What is found adds nothing, or one.                                     *)
LEMMA GainIs ==
  ASSUME NEW h, NEW found, NEW E, NEW d, d = h.depth - 1,
         \A a, b \in Hits(found, d, E) : a = b
  PROVE  Gain(h, found, E) = One(h.depth > 1 /\ Hits(found, d, E) # {})
BY AtMostOne DEF Gain, One

(* What is found can be counted.                                           *)
LEMMA GainNat ==
  ASSUME NEW h, NEW found \in SUBSET Categories, NEW E
  PROVE  Gain(h, found, E) \in Nat
<1> DEFINE C == Hits(found, h.depth - 1, E)
<1>1. C \subseteq Categories
  BY DEF Hits
<1>2. IsFiniteSet(C)
  BY <1>1, CategoriesAssumption, FS_Subset
<1> HIDE DEF C
<1>3. Cardinality(C) \in Nat
  BY <1>2, FS_CardinalityType
<1> QED  BY <1>3 DEF Gain, C

(* What is found is shown when it is listed.                               *)
LEMMA ReadAsShown ==
  ASSUME NEW w \in RequestRow, w.todo # <<>>, NEW found \in SUBSET Categories,
         NEW p \in SetToSeqs(found), NEW v, v = AfterRead(w, found, p),
         NEW h, h = Head(w.todo), NEW t, t = Tail(w.todo), NEW d, d = h.depth - 1,
         NEW ever, found \subseteq ever, AsShown(ever, w)
  PROVE  AsShown(ever, v)
<1>1. /\ \A c \in Categories : v.shown[c] = w.shown[c] + One(c \in found)
      /\ \A E : /\ Count(w.todo, E) = Count(t, E) + One(h \in E)
                /\ Count(v.todo, E) = Count(t, E) + Gain(h, found, E)
                /\ Count(w.todo, E) \in Nat /\ Count(t, E) \in Nat
  <2>1. Reads(w, v, h, t, found)
    BY ReadCounts
  <2> QED  BY <2>1 DEF Reads
<1>2. \A c \in Categories : w.shown[c] \in Nat
  BY DEF RequestRow
<1>3. ASSUME NEW c \in Categories PROVE Count(v.todo, Of({c})) <= v.shown[c]
  <2> DEFINE E == Of({c})
  <2>1. \A a \in Hits(found, d, E) : a = c /\ c \in found
    BY DEF Of, Hits
  <2>2. Count(w.todo, E) <= w.shown[c]
    BY <1>3 DEF AsShown
  <2>3. Gain(h, found, E) = One(h.depth > 1 /\ Hits(found, d, E) # {})
    <3> HIDE DEF E
    <3>1. \A a, b \in Hits(found, d, E) : a = b
      BY <2>1
    <3> QED  BY <3>1, GainIs
  <2> HIDE DEF E
  <2>4. Count(w.todo, E) = Count(t, E) + One(h \in E)
        /\ Count(v.todo, E) = Count(t, E) + Gain(h, found, E)
        /\ Count(w.todo, E) \in Nat /\ Count(t, E) \in Nat
    BY <1>1
  <2>5. v.shown[c] = w.shown[c] + One(c \in found)
    BY <1>1
  <2>6. Count(v.todo, E) <= v.shown[c]
    BY <1>2, <2>1, <2>2, <2>3, <2>4, <2>5 DEF One
  <2> QED  BY <2>6 DEF E
<1>4. ASSUME NEW c \in Categories, c \notin ever PROVE v.shown[c] = 0
  <2>1. v.shown[c] = w.shown[c] + One(c \in found)
    BY <1>1
  <2>2. w.shown[c] = 0 /\ c \notin found
    BY <1>4 DEF AsShown
  <2> QED  BY <2>1, <2>2 DEF One
<1> QED  BY <1>3, <1>4 DEF AsShown

(* What is found was counted as below the head, so no bound is passed.     *)
LEMMA ReadCopies ==
  ASSUME NEW rows, Linked(rows), NEW w \in RequestRow, w.todo # <<>>,
         NEW h, h = Head(w.todo), NEW t, t = Tail(w.todo), NEW d, d = h.depth - 1,
         NEW found, found = FoundIn(rows, h.id, w.nav),
         NEW p \in SetToSeqs(found), NEW v, v = AfterRead(w, found, p),
         Copies(rows, w)
  PROVE  Copies(rows, v)
<1>1. /\ found \subseteq DOMAIN rows /\ DOMAIN rows \subseteq Categories
      /\ \A x \in found : Parent(rows, x) = h.id
  BY LinkedParent DEF FoundIn
<1>2. /\ h \in Entry /\ v.placed = w.placed /\ v.circled = w.circled
      /\ \A c \in Categories : v.shown[c] = w.shown[c] + One(c \in found)
      /\ \A E : /\ Count(w.todo, E) = Count(t, E) + One(h \in E)
                /\ Count(v.todo, E) = Count(t, E) + Gain(h, found, E)
                /\ Count(w.todo, E) \in Nat /\ Count(t, E) \in Nat
  <2>1. found \in SUBSET Categories
    BY <1>1
  <2>2. Reads(w, v, h, t, found)
    BY <2>1, ReadCounts
  <2> QED  BY <2>2 DEF Reads
<1>3. /\ h.id \in Categories /\ h.id # None
      /\ \A c \in Categories : w.shown[c] \in Nat
      /\ PowerOfTwo[w.placed] \in Nat
  BY <1>2, CategoriesAssumption, PowerOfTwoIs DEF Entry, RequestRow
<1> SUFFICES ASSUME ~v.circled
             PROVE  /\ Count(v.todo, Of(Circles(rows))) = 0
                    /\ \A c \in Categories : CopiesFor(rows, v, c)
  BY DEF Copies
<1>4. Count(w.todo, Of(Circles(rows))) = 0 /\ \A c \in Categories : CopiesFor(rows, w, c)
  BY <1>2 DEF Copies
<1>5. h.id \in DOMAIN rows => h.id \notin Over(rows, h.id)
  <2> DEFINE E == Of(Circles(rows))
  <2>1. h \notin E
    <3> HIDE DEF E
    <3>1. Count(w.todo, E) = Count(t, E) + One(h \in E) /\ Count(t, E) \in Nat
      BY <1>2
    <3>2. Count(w.todo, E) = 0
      BY <1>4 DEF E
    <3> QED  BY <3>1, <3>2 DEF One
  <2> QED  BY <1>2, <2>1 DEF Of, Circles
<1>6. \A x \in found : h.id \in Over(rows, x) /\ x \notin Over(rows, x)
  <2> TAKE x \in found
  <2>1. h.id \in Over(rows, x)
    BY <1>1, <1>3, OverHas
  <2>2. h.id \in DOMAIN rows
    BY <1>1, <2>1, OverHas
  <2> QED  BY <1>1, <1>5, <2>1, <2>2, CircleOfAll
<1>7. Count(v.todo, Of(Circles(rows))) = 0
  <2> DEFINE E == Of(Circles(rows))
  <2>1. Hits(found, d, E) = {}
    BY <1>6 DEF Of, Circles, Hits
  <2>2. Gain(h, found, E) = 0
    BY <2>1, GainIs DEF One
  <2> HIDE DEF E
  <2>3. /\ Count(w.todo, E) = Count(t, E) + One(h \in E)
        /\ Count(v.todo, E) = Count(t, E) + Gain(h, found, E) /\ Count(t, E) \in Nat
    BY <1>2
  <2>4. Count(w.todo, E) = 0
    BY <1>4 DEF E
  <2>5. Count(v.todo, E) = 0
    BY <2>2, <2>3, <2>4 DEF One
  <2> QED  BY <2>5 DEF E
<1>8. ASSUME NEW c \in Categories PROVE CopiesFor(rows, v, c)
  <2>1. CASE c \notin DOMAIN rows
    <3>1. v.shown[c] = w.shown[c] + One(c \in found) /\ c \notin found
      BY <1>1, <1>2, <2>1
    <3>2. v.shown[c] = w.shown[c]
      BY <1>3, <3>1 DEF One
    <3> QED  BY <1>2, <1>4, <2>1, <3>2 DEF CopiesFor
  <2>2. CASE c \in DOMAIN rows
    <3> DEFINE E == Of(Over(rows, c))
           C == Hits(found, d, E)
    <3>1. C \subseteq found \intersect Over(rows, c)
      BY DEF Of, Hits
    <3>2. \A a, b \in (found \intersect Over(rows, c)) \union (found \intersect {c}) : a = b
      <4> SUFFICES ASSUME NEW a \in found, NEW b \in found,
                          a \in Over(rows, c) \union {c}, b \in Over(rows, c) \union {c}
                   PROVE  a = b
        OBVIOUS
      <4>1. Parent(rows, a) = h.id /\ Parent(rows, b) = h.id
        BY <1>1
      <4> QED  BY <1>3, <1>5, <2>2, <4>1, OneChildAbove
    <3>3. \A a, b \in C : a = b
      BY <3>1, <3>2
    <3>4. Gain(h, found, E) = One(h.depth > 1 /\ C # {})
      BY <3>3, GainIs
    <3>5. ~(c \in found /\ C # {})
      <4> SUFFICES ASSUME c \in found, NEW x \in C PROVE FALSE
        OBVIOUS
      <4>1. x \in found \intersect Over(rows, c)
        BY <3>1
      <4>2. x = c
        BY <3>2, <4>1
      <4> QED  BY <1>6, <4>1, <4>2
    <3>6. c \in found \/ C # {} => h \in E
      <4>1. ASSUME NEW x \in found, x = c \/ x \in Over(rows, c) PROVE h.id \in Over(rows, c)
        <5>1. h.id = Parent(rows, x)
          BY <1>1, <4>1
        <5> QED  BY <1>3, <2>2, <4>1, <5>1, OverHas
      <4>2. h.id \in Over(rows, c) => h \in E
        BY <1>2 DEF Of
      <4> QED  BY <3>1, <4>1, <4>2
    <3>7. w.shown[c] + Count(w.todo, E) <= PowerOfTwo[w.placed]
      BY <1>4, <2>2 DEF CopiesFor
    <3> HIDE DEF E, C
    <3>8. /\ Count(w.todo, E) = Count(t, E) + One(h \in E)
          /\ Count(v.todo, E) = Count(t, E) + Gain(h, found, E)
          /\ Count(t, E) \in Nat /\ v.shown[c] = w.shown[c] + One(c \in found)
      BY <1>2
    <3>11. v.shown[c] + Count(v.todo, E) <= PowerOfTwo[v.placed] /\ v.shown[c] <= PowerOfTwo[v.placed]
      BY <1>2, <1>3, <3>4, <3>5, <3>6, <3>7, <3>8 DEF One
    <3> QED  BY <2>2, <3>11 DEF CopiesFor, E
  <2> QED  BY <2>1, <2>2
<1> QED  BY <1>7, <1>8

(* The chain of c is c and all above it.                                   *)
LEMMA ChainIs ==
  ASSUME NEW rows, Linked(rows), NEW c \in DOMAIN rows
  PROVE  ChainOf(rows, c) = {c} \union Over(rows, c)
<1> DEFINE A == Above(rows, c)
<1>0. N \in Nat /\ N >= 1 /\ c # None
  BY SizeIs, LinkedParent
<1>1. DOMAIN A = 0..N /\ A[0] = c
  BY AboveIs
<1>2. Over(rows, c) = {A[n] : n \in 1..N} \ {None} /\ ChainOf(rows, c) = {A[n] : n \in 0..N} \ {None}
  BY <1>1 DEF Over, ChainOf, Range
<1> HIDE DEF A
<1>3. \A n \in 0..N : n = 0 \/ n \in 1..N
  BY <1>0
<1>4. 0 \in 0..N /\ \A n \in 1..N : n \in 0..N
  BY <1>0
<1> QED  BY <1>0, <1>1, <1>2, <1>3, <1>4

(* What is found below a category off a chain is off it too.               *)
LEMMA FoundApart ==
  ASSUME NEW rows, Linked(rows), NEW c \in DOMAIN rows, NEW h, h.id # None,
         h.id \notin Over(rows, c), NEW nav, NEW x \in FoundIn(rows, h.id, nav)
  PROVE  x \notin ChainOf(rows, c)
<1>1. x \in DOMAIN rows /\ Parent(rows, x) = h.id
  BY LinkedParent DEF FoundIn
<1>2. x = c \/ x \in Over(rows, c) => h.id \in Over(rows, c)
  BY <1>1, OverHas
<1> QED  BY <1>2, ChainIs

(* One on a chain that ends leads to its end if the one below it does.     *)
LEMMA FoundLeads ==
  ASSUME NEW rows, Linked(rows), NEW c \in DOMAIN rows, Ends(rows, c),
         NEW h \in Entry, h.depth \in Nat \ {0}, NEW d, d = h.depth - 1,
         NEW m \in 1..N, Above(rows, c)[m] = h.id, NEW nav,
         NEW found, found = FoundIn(rows, h.id, nav), NEW L, L = LeadsTo(rows, c, nav)
  PROVE  One(c \in found) + Gain(h, found, L) = One(h \in L)
<1> DEFINE A == Above(rows, c)
           V(k) == VisibleTo(rows, c, nav, k)
           y == A[m - 1]
<1>0. /\ N \in Nat /\ N >= 1 /\ h.id # None /\ m - 1 \in 0..(N - 1) /\ (m - 1) + 1 = m
      /\ m \in 0..N
  BY SizeIs, CategoriesAssumption DEF Entry
<1>1. /\ A \in [0..N -> DOMAIN rows \union {None}] /\ A[0] = c
      /\ \A n \in 0..(N - 1) : A[n + 1] = Parent(rows, A[n])
  BY AboveIs
<1>2. PICK e \in 0..N : A[e] = None
  BY DEF Ends
<1>3. A[N] = None
  <2>1. N \in e..N
    BY <1>0
  <2> QED  BY <1>2, <2>1, NoneStays
<1>4. \A j \in 0..N : A[j] = h.id => j = m
  <2> TAKE j \in 0..N
  <2> HAVE A[j] = h.id
  <2> QED  BY <1>0, <1>2, OnceEach
<1>5. \A x \in found : x \in DOMAIN rows /\ x # None /\ Parent(rows, x) = h.id /\ (nav => rows[x].visible)
  BY LinkedParent DEF FoundIn
<1>6. y \in DOMAIN rows /\ Parent(rows, y) = h.id /\ (y \in found <=> (nav => rows[y].visible))
  <2>1. Parent(rows, y) = h.id /\ y \in DOMAIN rows \union {None}
    BY <1>0, <1>1
  <2>2. y # None
    BY <1>0, <2>1, LinkedParent
  <2>3. Parent(rows, y) = rows[y].parent
    BY <2>1, <2>2, LinkedParent
  <2> QED  BY <2>1, <2>2, <2>3 DEF FoundIn
<1>7. V(m) <=> V(m - 1) /\ (nav => rows[y].visible)
  <2>1. \A k \in 0..(m - 1) : k = m - 1 \/ k \in 0..((m - 1) - 1)
    BY <1>0
  <2>2. m - 1 \in 0..(m - 1) /\ \A k \in 0..((m - 1) - 1) : k \in 0..(m - 1)
    BY <1>0
  <2> QED  BY <2>1, <2>2 DEF VisibleTo
<1>8. h \in L <=> m <= h.depth /\ V(m)
  BY <1>0, <1>4 DEF LeadsTo
<1> DEFINE W == V(m)
           W1 == V(m - 1)
           see == (nav => rows[y].visible)
           C == Hits(found, d, L)
<1>9. \A x \in C : x \in found /\ \E k \in 1..N : A[k] = x /\ k <= d /\ V(k)
  BY DEF Hits, LeadsTo
<1>10. \A x \in found, k \in 0..N : A[k] = x => k + 1 = m /\ x = y
  <2> TAKE x \in found, k \in 0..N
  <2> HAVE A[k] = x
  <2>1. k # N
    BY <1>3, <1>5
  <2>2. k \in 0..(N - 1) /\ k + 1 \in 0..N
    BY <1>0, <2>1
  <2>3. k + 1 = m
    BY <1>1, <1>4, <1>5, <2>2
  <2> QED  BY <2>2, <2>3
<1>11. \A x \in C : x = y /\ m # 1 /\ m - 1 <= d /\ W1
  <2> TAKE x \in C
  <2>1. PICK k \in 1..N : A[k] = x /\ k <= d /\ V(k)
    BY <1>9
  <2>2. k \in 0..N
    BY <1>0, <2>1
  <2>3. k + 1 = m /\ x = y
    BY <1>9, <1>10, <2>1, <2>2
  <2>4. k = m - 1
    BY <1>0, <2>2, <2>3
  <2> QED  BY <2>1, <2>3, <2>4
<1>12. ASSUME h.depth > 1, m # 1, y \in found, m - 1 <= d, W1 PROVE y \in C
  <2>1. d \in 1..Depth
    BY <1>12, DepthAssumption DEF Entry
  <2>2. m - 1 \in 1..N
    BY <1>0, <1>12
  <2>3. [id |-> y, depth |-> d] \in Entry
    BY <1>6, <2>1, LinkedParent DEF Entry
  <2>4. [id |-> y, depth |-> d] \in L
    BY <1>12, <2>2, <2>3 DEF LeadsTo
  <2> QED  BY <1>12, <2>4 DEF Hits
<1>13. Gain(h, found, L) = One(h.depth > 1 /\ C # {})
  <2> HIDE DEF y
  <2>1. \A a, b \in C : a = b
    BY <1>11
  <2> QED  BY <2>1, GainIs
<1>14. c \in found => m = 1
  <2> HAVE c \in found
  <2>1. 0 \in 0..N
    BY <1>0
  <2>2. 0 + 1 = m
    BY <1>1, <1>10, <2>1
  <2> QED  BY <2>2
<1>15. m = 1 => W1 /\ y = c
  <2> HAVE m = 1
  <2>1. \A k \in 0..((m - 1) - 1) : FALSE
    BY <1>0
  <2> QED  BY <1>1, <2>1 DEF VisibleTo
<1> HIDE DEF A, V, y, C, W, W1
<1>16. /\ h \in L <=> m <= h.depth /\ W
       /\ W <=> W1 /\ see
       /\ y \in found <=> see
  BY <1>6, <1>7, <1>8 DEF W, W1, V, y, A
<1> HIDE DEF see
<1>17. CASE m = 1
  <2>1. C = {}
    BY <1>11, <1>17
  <2>2. c \in found <=> h \in L
    BY <1>15, <1>16, <1>17
  <2> QED  BY <1>13, <2>1, <2>2 DEF One
<1>18. CASE m # 1
  <2>1. c \notin found
    BY <1>14, <1>18
  <2>2. h \in L => h.depth > 1 /\ C # {}
    <3> HAVE h \in L
    <3>1. h.depth > 1 /\ m - 1 <= d /\ y \in found /\ W1
      BY <1>0, <1>16, <1>18
    <3> QED  BY <1>12, <1>18, <3>1
  <2>3. h.depth > 1 /\ C # {} => h \in L
    <3> SUFFICES ASSUME h.depth > 1, NEW x \in C PROVE h \in L
      OBVIOUS
    <3>1. x \in found /\ x = y /\ m - 1 <= d /\ W1
      BY <1>9, <1>11
    <3>2. m <= h.depth
      BY <1>0, <3>1
    <3> QED  BY <1>16, <3>1, <3>2
  <2> QED  BY <1>13, <2>1, <2>2, <2>3 DEF One
<1> QED  BY <1>17, <1>18

(* What was left alone leads from its ancestor to its child, or is found.  *)
LEMMA ReadExact ==
  ASSUME NEW rows, Linked(rows), NEW w \in RequestRow, w.todo # <<>>,
         NEW h, h = Head(w.todo), NEW t, t = Tail(w.todo),
         NEW found, found = FoundIn(rows, h.id, w.nav),
         NEW p \in SetToSeqs(found), NEW v, v = AfterRead(w, found, p),
         Exact(rows, w)
  PROVE  Exact(rows, v)
<1> DEFINE d == h.depth - 1
<1>1. found \subseteq DOMAIN rows /\ DOMAIN rows \subseteq Categories
  BY LinkedParent DEF FoundIn
<1>2. /\ h \in Entry /\ h.depth \in 1..Depth /\ v.nav = w.nav
      /\ v.changed = w.changed /\ v.failed = w.failed
      /\ \A c \in Categories : v.shown[c] = w.shown[c] + One(c \in found)
      /\ \A E : /\ Count(w.todo, E) = Count(t, E) + One(h \in E)
                /\ Count(v.todo, E) = Count(t, E) + Gain(h, found, E)
                /\ Count(w.todo, E) \in Nat /\ Count(t, E) \in Nat
  <2>1. found \in SUBSET Categories
    BY <1>1
  <2>2. Reads(w, v, h, t, found)
    BY <2>1, ReadCounts
  <2> QED  BY <2>2 DEF Reads
<1>3. /\ h.id # None /\ h.depth \in Nat \ {0}
      /\ \A c \in Categories : w.shown[c] \in Nat
  BY <1>2, CategoriesAssumption, DepthAssumption DEF Entry, RequestRow
<1> SUFFICES ASSUME NEW c \in DOMAIN rows, Clean(rows, v, c) PROVE ExactFor(rows, v, c)
  BY DEF Exact
<1>4. ExactFor(rows, w, c)
  BY <1>2 DEF Exact, Clean
<1> DEFINE L == LeadsTo(rows, c, w.nav)
           K == Of(ChainOf(rows, c))
<1>5. ChainOf(rows, c) = {c} \union Over(rows, c)
  BY ChainIs
<1>6. \A e \in L : e.id \in Over(rows, c)
  <2> TAKE e \in L
  <2>1. PICK m \in 1..N : Above(rows, c)[m] = e.id
    BY DEF LeadsTo
  <2>2. e.id # None
    BY CategoriesAssumption DEF LeadsTo, Entry
  <2> QED  BY <2>1, <2>2 DEF Over
<1>7. ASSUME h.id \notin Over(rows, c)
      PROVE  One(c \in found) + Gain(h, found, L) = One(h \in L) /\ Gain(h, found, K) = 0
  <2>1. \A x \in found : x \notin ChainOf(rows, c)
    BY <1>3, <1>7, FoundApart
  <2>2. c \notin found
    BY <1>5, <2>1
  <2>3. h \notin L
    BY <1>6, <1>7
  <2>4. Hits(found, d, K) = {}
    BY <2>1 DEF Hits, Of
  <2>5. Hits(found, d, L) = {}
    <3> SUFFICES ASSUME NEW x \in Hits(found, d, L) PROVE FALSE
      OBVIOUS
    <3>1. x \in found /\ [id |-> x, depth |-> d] \in L
      BY DEF Hits
    <3>2. [id |-> x, depth |-> d].id = x
      OBVIOUS
    <3>3. x \in Over(rows, c)
      BY <1>6, <3>1, <3>2
    <3> QED  BY <1>5, <2>1, <3>1, <3>3
  <2>6. Gain(h, found, L) = 0
    <3> HIDE DEF L
    <3> QED  BY <2>5, GainIs DEF One
  <2>7. Gain(h, found, K) = 0
    <3> HIDE DEF K
    <3> QED  BY <2>4, GainIs DEF One
  <2> QED  BY <2>2, <2>3, <2>6, <2>7 DEF One
<1>8. ~Ends(rows, c) => h.id \notin Over(rows, c) /\ Count(w.todo, K) = 0
  <2> HAVE ~Ends(rows, c)
  <2>1. Count(w.todo, K) = 0
    BY <1>4 DEF ExactFor
  <2>2. h \notin K
    <3> HIDE DEF K
    <3>1. Count(w.todo, K) = Count(t, K) + One(h \in K) /\ Count(t, K) \in Nat
      BY <1>2
    <3> QED  BY <2>1, <3>1 DEF One
  <2> QED  BY <1>2, <1>5, <2>1, <2>2 DEF Of
<1>9. One(c \in found) + Gain(h, found, L) = One(h \in L)
  <2>1. CASE h.id \notin Over(rows, c)
    BY <1>7, <2>1
  <2>2. CASE h.id \in Over(rows, c)
    <3>1. Ends(rows, c)
      BY <1>8, <2>2
    <3>2. PICK m \in 1..N : Above(rows, c)[m] = h.id
      BY <2>2 DEF Over
    <3> DEFINE nav == w.nav
    <3>3. L = LeadsTo(rows, c, nav) /\ found = FoundIn(rows, h.id, nav)
      OBVIOUS
    <3> HIDE DEF nav, L
    <3> QED  BY <1>2, <1>3, <3>1, <3>2, <3>3, FoundLeads
  <2> QED  BY <2>1, <2>2
<1>10. v.shown[c] + Count(v.todo, L) = w.shown[c] + Count(w.todo, L)
  <2> HIDE DEF L
  <2>1. /\ Count(w.todo, L) = Count(t, L) + One(h \in L)
        /\ Count(v.todo, L) = Count(t, L) + Gain(h, found, L)
        /\ v.shown[c] = w.shown[c] + One(c \in found)
        /\ Count(t, L) \in Nat /\ w.shown[c] \in Nat
    BY <1>1, <1>2, <1>3
  <2>2. Gain(h, found, L) = One(h \in L) - One(c \in found)
        /\ One(h \in L) \in Nat /\ One(c \in found) \in Nat
    <3>1. Gain(h, found, L) \in Int
      BY <1>1, GainNat
    <3> QED  BY <1>9, <3>1 DEF One
  <2> QED  BY <2>1, <2>2
<1>11. ~Ends(rows, c) => Count(v.todo, K) = 0
  <2> HAVE ~Ends(rows, c)
  <2> HIDE DEF K
  <2>1. Gain(h, found, K) = 0 /\ Count(w.todo, K) = 0
    BY <1>7, <1>8
  <2>2. /\ Count(w.todo, K) = Count(t, K) + One(h \in K)
        /\ Count(v.todo, K) = Count(t, K) + Gain(h, found, K)
        /\ Count(t, K) \in Nat
    BY <1>2
  <2> QED  BY <2>1, <2>2 DEF One
<1> QED  BY <1>2, <1>4, <1>10, <1>11 DEF ExactFor

(* A failed read takes the head, and notes it.                             *)
AfterFail(w) == [w EXCEPT !.failed = @ \union {Head(w.todo).id}, !.todo = Tail(@)]

Fails(w, v, h, t) ==
  /\ h \in Entry /\ v \in RequestRow /\ v.pc = w.pc /\ v.nav = w.nav /\ v.placed = w.placed
  /\ v.circled = w.circled /\ v.changed = w.changed /\ v.failed = w.failed \union {h.id}
  /\ v.shown = w.shown
  /\ \A E : /\ Count(w.todo, E) = Count(v.todo, E) + One(h \in E)
            /\ Count(w.todo, E) \in Nat /\ Count(v.todo, E) \in Nat

(* That is what the failed read does.                                      *)
LEMMA FailCounts ==
  ASSUME NEW w \in RequestRow, w.todo # <<>>, NEW v, v = AfterFail(w),
         NEW h, h = Head(w.todo), NEW t, t = Tail(w.todo)
  PROVE  Fails(w, v, h, t)
<1>1. w.todo \in Seq(Entry)
  BY DEF RequestRow
<1>2. h \in Entry /\ t \in Seq(Entry) /\ \A E : Count(w.todo, E) = Count(t, E) + One(h \in E)
  <2>1. h \in Entry /\ t \in Seq(Entry)
    BY <1>1, CountOfHead
  <2>2. ASSUME NEW E PROVE Count(w.todo, E) = Count(t, E) + One(h \in E)
    BY <1>1, CountOfHead DEF One
  <2> QED  BY <2>1, <2>2
<1>3. /\ v.pc = w.pc /\ v.nav = w.nav /\ v.placed = w.placed
      /\ v.circled = w.circled /\ v.changed = w.changed /\ v.failed = w.failed \union {h.id}
      /\ v.shown = w.shown /\ v.todo = t
      /\ v = [pc |-> w.pc, items |-> w.items, nav |-> w.nav, todo |-> t, shown |-> w.shown,
              changed |-> w.changed, failed |-> w.failed \union {h.id}, placed |-> w.placed,
              circled |-> w.circled]
  BY DEF AfterFail, RequestRow
<1>4. v \in RequestRow
  <2>1. h.id \in Categories
    BY <1>2 DEF Entry
  <2>2. w.failed \union {h.id} \subseteq Categories
    BY <2>1 DEF RequestRow
  <2> QED  BY <1>2, <1>3, <2>2 DEF RequestRow
<1>5. \A E : Count(w.todo, E) \in Nat /\ Count(t, E) \in Nat
  BY <1>1, <1>2, PlacesFinite
<1> QED  BY <1>2, <1>3, <1>4, <1>5 DEF Fails

(* It can only make copies fewer; what it hides is no longer judged.       *)
LEMMA FailKeeps ==
  ASSUME NEW rows, Linked(rows), NEW ever, NEW w \in RequestRow, w.todo # <<>>,
         NEW v, v = AfterFail(w), AsShown(ever, w), Copies(rows, w), Exact(rows, w)
  PROVE  v \in RequestRow /\ AsShown(ever, v) /\ Copies(rows, v) /\ Exact(rows, v)
<1> DEFINE h == Head(w.todo)
           t == Tail(w.todo)
<1>0. h = Head(w.todo) /\ t = Tail(w.todo)
  OBVIOUS
<1> HIDE DEF h, t
<1>1. Fails(w, v, h, t)
  BY <1>0, FailCounts
<1>2. /\ h \in Entry /\ v \in RequestRow /\ v.nav = w.nav /\ v.placed = w.placed
      /\ v.circled = w.circled /\ v.changed = w.changed /\ v.failed = w.failed \union {h.id}
      /\ v.shown = w.shown
  BY <1>1 DEF Fails
<1>3. \A E : /\ Count(w.todo, E) = Count(v.todo, E) + One(h \in E)
             /\ Count(w.todo, E) \in Nat /\ Count(v.todo, E) \in Nat
  BY <1>1 DEF Fails
<1>4. \A E : Count(v.todo, E) <= Count(w.todo, E) /\ (h \notin E => Count(v.todo, E) = Count(w.todo, E))
  <2> TAKE E
  <2>1. /\ Count(w.todo, E) = Count(v.todo, E) + One(h \in E)
        /\ Count(w.todo, E) \in Nat /\ Count(v.todo, E) \in Nat
    BY <1>3
  <2> QED  BY <2>1 DEF One
<1>5. \A c \in Categories : w.shown[c] \in Nat
  BY DEF RequestRow
<1>6. AsShown(ever, v)
  <2>1. ASSUME NEW c \in Categories PROVE Count(v.todo, Of({c})) <= v.shown[c]
    <3> DEFINE E == Of({c})
    <3>1. Count(w.todo, E) <= w.shown[c]
      BY DEF AsShown
    <3> HIDE DEF E
    <3>2. Count(v.todo, E) <= Count(w.todo, E) /\ Count(w.todo, E) \in Nat /\ Count(v.todo, E) \in Nat
      BY <1>3, <1>4
    <3>3. Count(v.todo, E) <= w.shown[c]
      BY <1>5, <3>1, <3>2
    <3> QED  BY <1>2, <3>3 DEF E
  <2> QED  BY <1>2, <2>1 DEF AsShown
<1>7. Copies(rows, v)
  <2> SUFFICES ASSUME ~v.circled
               PROVE  /\ Count(v.todo, Of(Circles(rows))) = 0
                      /\ \A c \in Categories : CopiesFor(rows, v, c)
    BY DEF Copies
  <2>1. Count(w.todo, Of(Circles(rows))) = 0 /\ \A c \in Categories : CopiesFor(rows, w, c)
    BY <1>2 DEF Copies
  <2>2. Count(v.todo, Of(Circles(rows))) = 0
    <3> DEFINE E == Of(Circles(rows))
    <3>1. Count(w.todo, E) = 0
      BY <2>1
    <3> HIDE DEF E
    <3>2. Count(v.todo, E) <= Count(w.todo, E) /\ Count(v.todo, E) \in Nat
      BY <1>3, <1>4
    <3>3. Count(v.todo, E) = 0
      BY <3>1, <3>2
    <3> QED  BY <3>3 DEF E
  <2>3. ASSUME NEW c \in Categories, c \in DOMAIN rows
        PROVE  v.shown[c] + Count(v.todo, Of(Over(rows, c))) <= PowerOfTwo[v.placed]
    <3> DEFINE E == Of(Over(rows, c))
    <3>1. w.shown[c] + Count(w.todo, E) <= PowerOfTwo[w.placed]
      BY <2>1, <2>3 DEF CopiesFor
    <3> HIDE DEF E
    <3>2. Count(v.todo, E) <= Count(w.todo, E) /\ Count(w.todo, E) \in Nat /\ Count(v.todo, E) \in Nat
      BY <1>3, <1>4
    <3>3. PowerOfTwo[w.placed] \in Nat
      BY PowerOfTwoIs DEF RequestRow
    <3>4. v.shown[c] + Count(v.todo, E) <= PowerOfTwo[v.placed]
      BY <1>2, <1>5, <3>1, <3>2, <3>3
    <3> QED  BY <3>4 DEF E
  <2>4. \A c \in Categories : v.shown[c] <= PowerOfTwo[v.placed]
    BY <1>2, <2>1 DEF CopiesFor
  <2> QED  BY <2>2, <2>3, <2>4 DEF CopiesFor
<1>8. Exact(rows, v)
  <2> SUFFICES ASSUME NEW c \in DOMAIN rows, Clean(rows, v, c) PROVE ExactFor(rows, v, c)
    BY DEF Exact
  <2>1. Clean(rows, w, c) /\ h.id \notin ChainOf(rows, c)
    BY <1>2 DEF Clean
  <2>2. ExactFor(rows, w, c)
    BY <2>1 DEF Exact
  <2>3. h \notin LeadsTo(rows, c, w.nav) /\ h \notin Of(ChainOf(rows, c))
    <3>1. \A m \in 1..N : Above(rows, c)[m] # None => Above(rows, c)[m] \in ChainOf(rows, c)
      BY ChainIs DEF Over
    <3>2. h.id # None
      BY <1>2, CategoriesAssumption DEF Entry
    <3> QED  BY <2>1, <3>1, <3>2 DEF LeadsTo, Of
  <2>4. /\ Count(v.todo, LeadsTo(rows, c, w.nav)) = Count(w.todo, LeadsTo(rows, c, w.nav))
        /\ Count(v.todo, Of(ChainOf(rows, c))) = Count(w.todo, Of(ChainOf(rows, c)))
    BY <1>4, <2>3
  <2> QED  BY <1>2, <2>2, <2>4 DEF ExactFor
<1> QED  BY <1>2, <1>6, <1>7, <1>8

-----------------------------------------------------------------------------
(* The roots lead to what is theirs.                                       *)
LEMMA RootsLead ==
  ASSUME NEW rows, Linked(rows), NEW c \in DOMAIN rows, Ends(rows, c), NEW nav,
         NEW roots, roots = FoundIn(rows, None, nav), NEW L, L = LeadsTo(rows, c, nav)
  PROVE  One(c \in roots) + Cardinality(Hits(roots, Depth, L)) = One(Belongs(rows, c, nav))
<1> DEFINE A == Above(rows, c)
           V(k) == VisibleTo(rows, c, nav, k)
           Gone == {n \in 0..N : A[n] = None}
<1>0. N \in Nat /\ N >= 1 /\ c # None /\ Depth \in Nat \ {0}
  BY SizeIs, LinkedParent, DepthAssumption
<1>1. /\ A \in [0..N -> DOMAIN rows \union {None}] /\ A[0] = c
      /\ \A n \in 0..(N - 1) : A[n + 1] = Parent(rows, A[n])
  BY AboveIs
<1>2. PICK e \in Gone : \A n \in Gone : e <= n
  <2>1. Gone \in SUBSET Nat /\ Gone # {}
    BY DEF Ends
  <2> HIDE DEF Gone
  <2> QED  BY <2>1, LeastNatural
<1> DEFINE y == A[e - 1]
<1>3. /\ e \in 1..N /\ A[e] = None /\ e - 1 \in 0..(N - 1) /\ (e - 1) + 1 = e
      /\ \A n \in 0..N : A[n] = None => e <= n
  <2>1. e \in 0..N /\ e # 0
    BY <1>0, <1>1, <1>2
  <2> QED  BY <1>0, <1>2, <2>1
<1>4. \A n \in e..N : A[n] = None
  BY <1>2, NoneStays
<1>5. \A x \in roots : x \in DOMAIN rows /\ x # None /\ Parent(rows, x) = None /\ (nav => rows[x].visible)
  BY LinkedParent DEF FoundIn
<1>6. y \in DOMAIN rows /\ Parent(rows, y) = None /\ (y \in roots <=> (nav => rows[y].visible))
  <2>1. e - 1 \in 0..N /\ ~(e <= e - 1)
    BY <1>0, <1>3
  <2>2. Parent(rows, y) = None /\ y # None /\ y \in DOMAIN rows \union {None}
    BY <1>1, <1>3, <2>1
  <2>3. Parent(rows, y) = rows[y].parent
    BY <2>2, LinkedParent
  <2> QED  BY <2>2, <2>3 DEF FoundIn
<1>7. V(e) <=> V(e - 1) /\ (nav => rows[y].visible)
  <2>1. \A k \in 0..(e - 1) : k = e - 1 \/ k \in 0..((e - 1) - 1)
    BY <1>0, <1>3
  <2>2. e - 1 \in 0..(e - 1) /\ \A k \in 0..((e - 1) - 1) : k \in 0..(e - 1)
    BY <1>0, <1>3
  <2> QED  BY <2>1, <2>2 DEF VisibleTo
<1>8. Belongs(rows, c, nav) <=> e <= Depth + 1 /\ V(e)
  <2>1. (\E n \in (1..(Depth + 1)) \intersect (0..N) : A[n] = None) <=> e <= Depth + 1
    <3>1. ASSUME NEW n \in (1..(Depth + 1)) \intersect (0..N), A[n] = None PROVE e <= Depth + 1
      <4>1. e <= n
        BY <1>3, <3>1
      <4> QED  BY <1>0, <1>3, <4>1
    <3>2. e <= Depth + 1 => e \in (1..(Depth + 1)) \intersect (0..N)
      BY <1>0, <1>3
    <3> QED  BY <1>3, <3>1, <3>2
  <2>2. ChainOf(rows, c) = {A[k] : k \in 0..(e - 1)}
    <3>1. DOMAIN A = 0..N
      BY <1>1
    <3>2. ChainOf(rows, c) = {A[k] : k \in 0..N} \ {None}
      BY <3>1 DEF ChainOf, Range
    <3>3. \A k \in 0..N : k \in 0..(e - 1) \/ k \in e..N
      BY <1>0, <1>3
    <3>4. \A k \in 0..(e - 1) : k \in 0..N /\ ~(e <= k)
      BY <1>0, <1>3
    <3> HIDE DEF A
    <3> QED  BY <1>3, <1>4, <3>2, <3>3, <3>4
  <2>3. (nav => \A d \in ChainOf(rows, c) : rows[d].visible) <=> V(e)
    BY <2>2 DEF VisibleTo
  <2> QED  BY <2>1, <2>3 DEF Belongs
<1> DEFINE W == V(e)
           W1 == V(e - 1)
           see == (nav => rows[y].visible)
           C == Hits(roots, Depth, L)
           B == Belongs(rows, c, nav)
<1>10. \A x \in roots, k \in 0..N : A[k] = x => k + 1 = e /\ x = y
  <2> TAKE x \in roots, k \in 0..N
  <2> HAVE A[k] = x
  <2>1. x # None
    BY <1>5
  <2>2. k \notin e..N
    BY <1>4, <2>1
  <2>3. k \in 0..(N - 1) /\ k + 1 \in 0..N /\ k < e
    BY <1>0, <1>3, <2>2
  <2>4. A[k + 1] = None
    BY <1>1, <1>5, <2>3
  <2>5. k + 1 = e
    BY <1>3, <2>3, <2>4
  <2> QED  BY <2>3, <2>5
<1>11. \A x \in C : x \in roots /\ x = y /\ e # 1 /\ e - 1 <= Depth /\ W1
  <2> TAKE x \in C
  <2>1. x \in roots
    BY DEF Hits
  <2>2. PICK k \in 1..N : A[k] = x /\ k <= Depth /\ V(k)
    BY DEF Hits, LeadsTo
  <2>3. k \in 0..N
    BY <1>0, <2>2
  <2>4. k + 1 = e /\ x = y
    BY <1>10, <2>1, <2>2, <2>3
  <2>5. k = e - 1
    BY <1>0, <2>3, <2>4
  <2> QED  BY <2>1, <2>2, <2>4, <2>5
<1>12. ASSUME e # 1, y \in roots, e - 1 <= Depth, W1 PROVE y \in C
  <2>1. Depth \in 1..Depth /\ e - 1 \in 1..N
    BY <1>0, <1>3, <1>12
  <2>2. [id |-> y, depth |-> Depth] \in Entry
    BY <1>6, <2>1, LinkedParent DEF Entry
  <2>3. [id |-> y, depth |-> Depth] \in L
    BY <1>12, <2>1, <2>2 DEF LeadsTo
  <2> QED  BY <1>12, <2>3 DEF Hits
<1>13. Cardinality(C) = One(C # {})
  <2> HIDE DEF y, C
  <2>1. \A a, b \in C : a = b
    BY <1>11
  <2> QED  BY <2>1, AtMostOne DEF One
<1>14. c \in roots => e = 1
  <2> HAVE c \in roots
  <2>1. 0 \in 0..N
    BY <1>0
  <2>2. 0 + 1 = e
    BY <1>1, <1>10, <2>1
  <2> QED  BY <2>2
<1>15. e = 1 => W1 /\ y = c
  <2> HAVE e = 1
  <2>1. \A k \in 0..((e - 1) - 1) : FALSE
    BY <1>0
  <2> QED  BY <1>1, <2>1 DEF VisibleTo
<1>16. /\ B <=> e <= Depth + 1 /\ W
       /\ W <=> W1 /\ see
       /\ y \in roots <=> see
  BY <1>6, <1>7, <1>8
<1> HIDE DEF A, V, y, C, W, W1, see, B
<1>17. CASE e = 1
  <2>1. C = {}
    BY <1>11, <1>17
  <2>2. c \in roots <=> B
    BY <1>0, <1>15, <1>16, <1>17
  <2> QED  BY <1>13, <2>1, <2>2 DEF One, C, B
<1>18. CASE e # 1
  <2>1. c \notin roots
    BY <1>14, <1>18
  <2>2. B => C # {}
    <3> HAVE B
    <3>1. e - 1 <= Depth /\ y \in roots /\ W1
      BY <1>0, <1>3, <1>16
    <3> QED  BY <1>12, <1>18, <3>1
  <2>3. C # {} => B
    <3> SUFFICES ASSUME NEW x \in C PROVE B
      OBVIOUS
    <3>1. x \in roots /\ x = y /\ e - 1 <= Depth /\ W1
      BY <1>11
    <3>2. e <= Depth + 1
      BY <1>0, <1>3, <3>1
    <3> QED  BY <1>16, <3>1, <3>2
  <2> QED  BY <1>13, <2>1, <2>2, <2>3 DEF One, C, B
<1> QED  BY <1>17, <1>18

(* A walk that has read the roots.                                         *)
Begun(roots, nav, p) ==
  [Idle EXCEPT !.pc = "walk", !.nav = nav, !.todo = Listed(p, Depth),
               !.shown = [c \in Categories |-> IF c \in roots THEN 1 ELSE 0]]

(* It shows each root once, and its roots lead to what belongs.            *)
LEMMA BeginKeeps ==
  ASSUME NEW rows, Linked(rows), NEW nav \in BOOLEAN, NEW roots, roots = FoundIn(rows, None, nav),
         NEW p \in SetToSeqs(roots), NEW w, w = Begun(roots, nav, p),
         NEW ever, DOMAIN rows \subseteq ever
  PROVE  w \in RequestRow /\ AsShown(ever, w) /\ Copies(rows, w) /\ Exact(rows, w)
<1>1. /\ roots \subseteq DOMAIN rows /\ DOMAIN rows \subseteq Categories
      /\ \A x \in roots : Parent(rows, x) = None /\ Over(rows, x) = {}
  <2>1. /\ roots \subseteq DOMAIN rows /\ DOMAIN rows \subseteq Categories
        /\ \A x \in roots : Parent(rows, x) = None
    BY LinkedParent DEF FoundIn
  <2> QED  BY <2>1, OverOfRoot
<1> DEFINE d == Depth
           todo == Listed(p, d)
<1>2. d \in 1..Depth /\ Depth \in Nat
  BY DepthAssumption
<1>3. /\ w.pc = "walk" /\ w.items = 0 /\ w.nav = nav /\ w.todo = todo
      /\ w.changed = {} /\ w.failed = {} /\ w.placed = 0 /\ w.circled = FALSE
      /\ w.shown = [c \in Categories |-> IF c \in roots THEN 1 ELSE 0]
      /\ w = [pc |-> "walk", items |-> 0, nav |-> nav, todo |-> todo, shown |-> w.shown,
              changed |-> {}, failed |-> {}, placed |-> 0, circled |-> FALSE]
  BY DEF Begun, Idle
<1>4. todo \in Seq(Entry) /\ \A E : Count(todo, E) = Cardinality(Hits(roots, d, E))
  <2>1. roots \in SUBSET Categories
    BY <1>1
  <2> HIDE DEF d
  <2>2. Listed(p, d) \in Seq(Entry)
    BY <1>2, <2>1, CountListed
  <2>3. \A E : Count(Listed(p, d), E) = Cardinality(Hits(roots, d, E))
    BY <2>1, CountListed
  <2> QED  BY <2>2, <2>3
<1>5. \A c \in Categories : w.shown[c] = One(c \in roots)
  BY <1>3 DEF One
<1>6. w \in RequestRow
  <2>1. w.shown \in [Categories -> Nat]
    BY <1>3
  <2> HIDE DEF todo
  <2> DEFINE shown == w.shown
  <2>2. w = [pc |-> "walk", items |-> 0, nav |-> nav, todo |-> todo, shown |-> shown,
             changed |-> {}, failed |-> {}, placed |-> 0, circled |-> FALSE]
    BY <1>3
  <2>3. shown \in [Categories -> Nat] /\ todo \in Seq(Entry)
    BY <1>4, <2>1
  <2> HIDE DEF shown
  <2>4. {} \in SUBSET Categories /\ FALSE \in BOOLEAN /\ 0 \in Nat
    OBVIOUS
  <2> QED  BY <2>2, <2>3, <2>4 DEF RequestRow
<1> HIDE DEF todo
<1>7. \A E : Count(w.todo, E) = Cardinality(Hits(roots, d, E))
  BY <1>3, <1>4
<1>8. AsShown(ever, w)
  <2>1. ASSUME NEW c \in Categories PROVE Count(w.todo, Of({c})) <= w.shown[c]
    <3> DEFINE C == Hits(roots, d, Of({c}))
    <3>1. \A a \in C : a = c /\ c \in roots
      BY DEF Hits, Of
    <3>2. Count(w.todo, Of({c})) = Cardinality(C)
      BY <1>7
    <3> HIDE DEF C
    <3>3. Cardinality(C) = IF C = {} THEN 0 ELSE 1
      <4>1. \A a, b \in C : a = b
        BY <3>1
      <4> QED  BY <4>1, AtMostOne
    <3> QED  BY <1>5, <3>1, <3>2, <3>3 DEF One
  <2>2. \A c \in Categories : c \notin ever => w.shown[c] = 0
    BY <1>1, <1>5 DEF One
  <2> QED  BY <2>1, <2>2 DEF AsShown
<1>9. Copies(rows, w)
  <2>1. Hits(roots, d, Of(Circles(rows))) = {}
    BY <1>1 DEF Hits, Of, Circles
  <2>2. Count(w.todo, Of(Circles(rows))) = 0
    BY <1>7, <2>1, FS_EmptySet
  <2>3. PowerOfTwo[w.placed] = 1
    BY <1>3, PowerOfTwoIs
  <2>4. ASSUME NEW c \in Categories PROVE CopiesFor(rows, w, c)
    <3>1. w.shown[c] <= 1
      BY <1>5 DEF One
    <3>2. ASSUME c \in DOMAIN rows PROVE w.shown[c] + Count(w.todo, Of(Over(rows, c))) <= 1
      <4> DEFINE C == Hits(roots, d, Of(Over(rows, c)))
      <4>1. C \subseteq roots \intersect Over(rows, c)
        BY DEF Hits, Of
      <4>2. \A a, b \in C : a = b
        <5> TAKE a, b \in C
        <5>1. a = b \/ a \in Over(rows, b) \/ b \in Over(rows, a)
          BY <3>2, <4>1, OverInLine
        <5> QED  BY <1>1, <4>1, <5>1
      <4>3. c \in roots => C = {}
        BY <1>1, <4>1
      <4>4. Count(w.todo, Of(Over(rows, c))) = Cardinality(C)
        BY <1>7
      <4> HIDE DEF C
      <4>5. Cardinality(C) = IF C = {} THEN 0 ELSE 1
        BY <4>2, AtMostOne
      <4> QED  BY <1>5, <4>3, <4>4, <4>5 DEF One
    <3> QED  BY <2>3, <3>1, <3>2 DEF CopiesFor
  <2> QED  BY <2>2, <2>4 DEF Copies
<1>10. ASSUME NEW c \in DOMAIN rows PROVE ExactFor(rows, w, c)
  <2> DEFINE L == LeadsTo(rows, c, nav)
             K == Of(ChainOf(rows, c))
  <2>1. ChainOf(rows, c) = {c} \union Over(rows, c) /\ c \in Categories
    BY <1>1, ChainIs
  <2>2. w.shown[c] = One(c \in roots) /\ Count(w.todo, L) = Cardinality(Hits(roots, Depth, L))
        /\ Count(w.todo, K) = Cardinality(Hits(roots, Depth, K))
    BY <1>5, <1>7, <2>1
  <2>3. \A m \in 1..N : Above(rows, c)[m] # None => Above(rows, c)[m] \in ChainOf(rows, c)
    BY <2>1 DEF Over
  <2>4. CASE Ends(rows, c)
    <3>1. L = LeadsTo(rows, c, nav)
      OBVIOUS
    <3> HIDE DEF L
    <3>2. One(c \in roots) + Cardinality(Hits(roots, Depth, L)) = One(Belongs(rows, c, nav))
      BY <2>4, <3>1, RootsLead
    <3> QED  BY <1>3, <2>2, <2>4, <3>1, <3>2 DEF ExactFor, One
  <2>5. CASE ~Ends(rows, c)
    <3>1. \A x \in roots : x \notin ChainOf(rows, c)
      <4> SUFFICES ASSUME NEW x \in roots, x \in ChainOf(rows, c) PROVE FALSE
        OBVIOUS
      <4>1. /\ \A n \in 0..(N - 1) : Above(rows, c)[n + 1] = Parent(rows, Above(rows, c)[n])
            /\ DOMAIN Above(rows, c) = 0..N
            /\ \E k \in 1..N : Above(rows, c)[k] = Parent(rows, Above(rows, c)[N])
        BY AboveIs, Closes
      <4>2. N \in Nat /\ N >= 1
        BY SizeIs
      <4>3. PICK n \in 0..N : Above(rows, c)[n] = x
        BY <4>1 DEF ChainOf, Range
      <4>4. CASE n = N
        <5>1. PICK k \in 1..N : Above(rows, c)[k] = None
          BY <1>1, <4>1, <4>3, <4>4
        <5>2. k \in 0..N
          BY <4>2
        <5> QED  BY <2>5, <5>1, <5>2 DEF Ends
      <4>5. CASE n # N
        <5>1. n \in 0..(N - 1) /\ n + 1 \in 0..N
          BY <4>2, <4>5
        <5>2. Above(rows, c)[n + 1] = None
          BY <1>1, <4>1, <4>3, <5>1
        <5> QED  BY <2>5, <5>1, <5>2 DEF Ends
      <4> QED  BY <4>4, <4>5
    <3>2. Hits(roots, Depth, K) = {}
      BY <3>1 DEF Hits, Of
    <3>3. Hits(roots, Depth, L) = {}
      <4>1. \A x \in roots : x # None
        BY <1>1, CategoriesAssumption
      <4> QED  BY <2>3, <3>1, <4>1 DEF Hits, LeadsTo
    <3>4. c \notin roots
      BY <2>1, <3>1
    <3>5. ~Belongs(rows, c, nav)
      <4>1. \A n \in (1..(Depth + 1)) \intersect (0..N) : n \in 0..N
        OBVIOUS
      <4> QED  BY <2>5, <4>1 DEF Belongs, Ends
    <3>6. w.shown[c] = 0 /\ Count(w.todo, L) = 0 /\ Count(w.todo, K) = 0
      BY <2>2, <3>2, <3>3, <3>4, FS_EmptySet DEF One
    <3> QED  BY <1>3, <3>5, <3>6 DEF ExactFor
  <2> QED  BY <2>4, <2>5
<1> QED  BY <1>6, <1>8, <1>9, <1>10 DEF Exact

(* What a statement makes of the rows; those in ch are new, gone or changed. *)
Rewrites(rows, next, ch) ==
  /\ Linked(rows) /\ Linked(next) /\ ch \in SUBSET Categories
  /\ \A c \in DOMAIN next : c \notin ch => c \in DOMAIN rows /\ next[c] = rows[c]

(* The rows a statement puts below another parent;                         *)
Placed(rows, next, ch) ==
  {c \in ch : c \in DOMAIN next \intersect DOMAIN rows /\ next[c].parent \notin {None, rows[c].parent}}

(* what it makes of a walk,                                                *)
Judged(w, rows, next, ch) ==
  [w EXCEPT !.changed = @ \union ch,
            !.placed = @ + Cardinality(Placed(rows, next, ch)),
            !.circled = @ \/ \E c \in Placed(rows, next, ch) : InCircle(next, c)]

(* part by part.                                                           *)
Follows(w, v, rows, next, ch) ==
  /\ v \in RequestRow /\ v.pc = w.pc /\ v.todo = w.todo /\ v.shown = w.shown /\ v.nav = w.nav
  /\ v.changed = w.changed \union ch /\ v.failed = w.failed
  /\ v.placed = w.placed + Cardinality(Placed(rows, next, ch))
  /\ v.circled = (w.circled \/ \E c \in Placed(rows, next, ch) : InCircle(next, c))

(* That is what it makes of it.                                            *)
LEMMA JudgedIs ==
  ASSUME NEW rows, NEW next, NEW ch \in SUBSET Categories, NEW w \in RequestRow,
         NEW v, v = Judged(w, rows, next, ch)
  PROVE  Follows(w, v, rows, next, ch)
<1> DEFINE n == Cardinality(Placed(rows, next, ch))
           b == \E c \in Placed(rows, next, ch) : InCircle(next, c)
<1>1. n \in Nat
  <2>1. Placed(rows, next, ch) \subseteq Categories
    BY DEF Placed
  <2> QED  BY <2>1, CategoriesAssumption, FS_Subset, FS_CardinalityType
<1>2. b \in BOOLEAN
  OBVIOUS
<1>3. v = [w EXCEPT !.changed = @ \union ch, !.placed = @ + n, !.circled = @ \/ b]
  BY DEF Judged
<1> HIDE DEF n, b
<1>4. /\ v.pc = w.pc /\ v.todo = w.todo /\ v.shown = w.shown /\ v.nav = w.nav
      /\ v.changed = w.changed \union ch /\ v.failed = w.failed
      /\ v.placed = w.placed + n /\ v.circled = (w.circled \/ b)
      /\ v = [pc |-> w.pc, items |-> w.items, nav |-> w.nav, todo |-> w.todo, shown |-> w.shown,
              changed |-> w.changed \union ch, failed |-> w.failed, placed |-> w.placed + n,
              circled |-> w.circled \/ b]
  BY <1>3 DEF RequestRow
<1>5. v \in RequestRow
  <2>1. w.placed + n \in Nat /\ (w.circled \/ b) \in BOOLEAN /\ w.changed \union ch \in SUBSET Categories
    BY <1>1, <1>2 DEF RequestRow
  <2> QED  BY <1>4, <2>1 DEF RequestRow
<1> QED  BY <1>4, <1>5 DEF n, b, Follows

(* What is left alone with all above it has the same above it.             *)
LEMMA SameChain ==
  ASSUME NEW rows, NEW next, NEW ch, Rewrites(rows, next, ch),
         NEW c \in DOMAIN next, ChainOf(next, c) \intersect ch = {}
  PROVE  /\ c \in DOMAIN rows /\ Above(next, c) = Above(rows, c)
         /\ \A d \in ChainOf(next, c) : next[d] = rows[d]
<1> DEFINE A == Above(rows, c)
           B == Above(next, c)
<1>0. N \in Nat /\ N >= 1 /\ Linked(rows) /\ Linked(next)
  BY SizeIs DEF Rewrites
<1>1. /\ B \in [0..N -> DOMAIN next \union {None}] /\ B[0] = c
      /\ \A n \in 0..(N - 1) : B[n + 1] = Parent(next, B[n])
  BY <1>0, AboveIs
<1>2. ChainOf(next, c) = {B[n] : n \in 0..N} \ {None}
  <2>1. DOMAIN B = 0..N
    BY <1>1
  <2> QED  BY <2>1 DEF ChainOf, Range
<1>3. c \in ChainOf(next, c) /\ c \notin ch
  BY <1>0, ChainIs
<1>4. c \in DOMAIN rows
  BY <1>3 DEF Rewrites
<1>5. /\ A \in [0..N -> DOMAIN rows \union {None}] /\ A[0] = c
      /\ \A n \in 0..(N - 1) : A[n + 1] = Parent(rows, A[n])
  BY <1>0, <1>4, AboveIs
<1>6. \A d \in ChainOf(next, c) : d \in DOMAIN next /\ d \in DOMAIN rows /\ next[d] = rows[d]
  <2>1. ChainOf(next, c) \subseteq DOMAIN next
    BY <1>0, ChainIs, OverHas
  <2> QED  BY <2>1 DEF Rewrites
<1>7. \A n \in 0..N : Parent(next, B[n]) = Parent(rows, B[n])
  <2> TAKE n \in 0..N
  <2>1. B[n] # None => next[B[n]] = rows[B[n]]
    BY <1>2, <1>6
  <2> QED  BY <2>1 DEF Parent
<1> DEFINE G == {n \in Nat : n <= N => A[n] = B[n]}
<1> HIDE DEF A, B
<1>8. 0 \in G
  BY <1>1, <1>5
<1>9. ASSUME NEW n \in Nat, n \in G PROVE n + 1 \in G
  <2> SUFFICES ASSUME n + 1 <= N PROVE A[n + 1] = B[n + 1]
    OBVIOUS
  <2>1. n \in 0..(N - 1) /\ n \in 0..N /\ n <= N
    BY <1>0
  <2>2. A[n] = B[n]
    BY <1>9, <2>1
  <2> QED  BY <1>1, <1>5, <1>7, <2>1, <2>2
<1>10. Nat \subseteq G
  <2> HIDE DEF G
  <2> QED  BY <1>8, <1>9, NaturalInduction
<1>11. \A n \in 0..N : A[n] = B[n]
  BY <1>0, <1>10
<1>12. A = B
  <2>1. A = [n \in 0..N |-> A[n]] /\ B = [n \in 0..N |-> B[n]]
    BY <1>1, <1>5
  <2> QED  BY <1>11, <2>1
<1> QED  BY <1>4, <1>6, <1>12 DEF A, B

(* So a statement changes nothing for what it leaves alone.                *)
LEMMA StatementExact ==
  ASSUME NEW rows, NEW next, NEW ch, Rewrites(rows, next, ch),
         NEW w \in RequestRow, NEW v, v = Judged(w, rows, next, ch), Exact(rows, w)
  PROVE  Exact(next, v)
<1>1. /\ v.todo = w.todo /\ v.shown = w.shown /\ v.nav = w.nav
      /\ v.changed = w.changed \union ch /\ v.failed = w.failed
  <2>1. ch \in SUBSET Categories
    BY DEF Rewrites
  <2>2. Follows(w, v, rows, next, ch)
    BY <2>1, JudgedIs
  <2> QED  BY <2>2 DEF Follows
<1> SUFFICES ASSUME NEW c \in DOMAIN next, Clean(next, v, c) PROVE ExactFor(next, v, c)
  BY DEF Exact
<1>2. /\ c \in DOMAIN rows /\ Above(next, c) = Above(rows, c)
      /\ \A d \in ChainOf(next, c) : next[d] = rows[d]
  <2>1. ChainOf(next, c) \intersect ch = {}
    BY <1>1 DEF Clean
  <2> QED  BY <2>1, SameChain
<1>3. ChainOf(next, c) = ChainOf(rows, c)
  BY <1>2 DEF ChainOf
<1>4. ExactFor(rows, w, c)
  <2>1. Clean(rows, w, c)
    BY <1>1, <1>3 DEF Clean
  <2> QED  BY <1>2, <2>1 DEF Exact
<1>5. Ends(next, c) <=> Ends(rows, c)
  BY <1>2 DEF Ends
<1>6. Belongs(next, c, w.nav) <=> Belongs(rows, c, w.nav)
  BY <1>2, <1>3 DEF Belongs
<1>7. LeadsTo(next, c, w.nav) = LeadsTo(rows, c, w.nav)
  <2>1. ASSUME NEW m \in 1..N, Above(rows, c)[m] # None
        PROVE  VisibleTo(next, c, w.nav, m) <=> VisibleTo(rows, c, w.nav, m)
    <3>1. ASSUME NEW k \in 0..(m - 1) PROVE next[Above(next, c)[k]] = rows[Above(rows, c)[k]]
      <4>1. k \in 0..N /\ m \in k..N /\ m \in 0..N
        BY SizeIs
      <4>2. Linked(rows)
        BY DEF Rewrites
      <4>3. Above(rows, c)[k] # None
        BY <1>2, <2>1, <4>1, <4>2, NoneStays
      <4>4. DOMAIN Above(rows, c) = 0..N
        BY <1>2, <4>2, AboveIs
      <4>5. Above(rows, c)[k] \in ChainOf(next, c)
        BY <1>3, <4>1, <4>3, <4>4 DEF ChainOf, Range
      <4> QED  BY <1>2, <4>5
    <3> QED  BY <3>1 DEF VisibleTo
  <2>2. \A e \in Entry : e.id # None
    BY CategoriesAssumption DEF Entry
  <2> QED  BY <1>2, <2>1, <2>2 DEF LeadsTo
<1> QED  BY <1>1, <1>3, <1>4, <1>5, <1>6, <1>7 DEF ExactFor

-----------------------------------------------------------------------------
(* What a list has of a category and all above it, it had been shown.      *)
LEMMA ListedAbove ==
  ASSUME NEW rows, Linked(rows), NEW ever, NEW w \in RequestRow, AsShown(ever, w),
         NEW y \in DOMAIN rows, CopiesFor(rows, w, y)
  PROVE  Count(w.todo, Of({y} \union Over(rows, y))) <= PowerOfTwo[w.placed]
<1> DEFINE D == Of({y} \union Over(rows, y))
           E == Of({y})
           F == Of(Over(rows, y))
<1>1. \A i \in DOMAIN w.todo : w.todo[i] \in D => w.todo[i] \in E \/ w.todo[i] \in F
  BY DEF Of
<1>2. y \in Categories
  BY LinkedParent
<1>3. Count(w.todo, E) <= w.shown[y] /\ w.shown[y] + Count(w.todo, F) <= PowerOfTwo[w.placed]
  BY <1>2 DEF AsShown, CopiesFor
<1>4. w.todo \in Seq(Entry) /\ w.shown[y] \in Nat /\ PowerOfTwo[w.placed] \in Nat
  BY <1>2, PowerOfTwoIs DEF RequestRow
<1> DEFINE s == w.todo
<1>5. s \in Seq(Entry) /\ \A i \in DOMAIN s : s[i] \in D => s[i] \in E \/ s[i] \in F
  BY <1>1, <1>4
<1> HIDE DEF D, E, F, s
<1>6. Count(s, D) <= Count(s, E) + Count(s, F)
  BY <1>5, CountEither
<1>7. Count(s, D) \in Nat /\ Count(s, E) \in Nat /\ Count(s, F) \in Nat
  BY <1>5, PlacesFinite
<1>8. Count(s, E) <= w.shown[y] /\ w.shown[y] + Count(s, F) <= PowerOfTwo[w.placed]
  BY <1>3 DEF s
<1>9. Count(s, D) <= PowerOfTwo[w.placed]
  BY <1>4, <1>6, <1>7, <1>8
<1> QED  BY <1>9 DEF D, s

(* A list has no more of fewer categories.                                 *)
LEMMA CountWithin ==
  ASSUME NEW w \in RequestRow, NEW X, NEW Y, X \subseteq Y
  PROVE  /\ Count(w.todo, Of(X)) <= Count(w.todo, Of(Y))
         /\ Count(w.todo, Of(X)) \in Nat /\ Count(w.todo, Of(Y)) \in Nat
<1> DEFINE s == w.todo
           E == Of(X)
           F == Of(Y)
<1>1. s \in Seq(Entry) /\ \A i \in DOMAIN s : s[i] \in E => s[i] \in F
  BY DEF RequestRow, Of
<1> HIDE DEF s, E, F
<1>2. Count(s, E) <= Count(s, F) /\ Count(s, E) \in Nat /\ Count(s, F) \in Nat
  BY <1>1, CountGrows, PlacesFinite
<1> QED  BY <1>2 DEF s, E, F

(* The copies stay within their bound: when rows go or become roots,       *)
LEMMA TrimCopies ==
  ASSUME NEW rows, NEW next, NEW ch, Rewrites(rows, next, ch), Placed(rows, next, ch) = {},
         DOMAIN next \subseteq DOMAIN rows,
         NEW w \in RequestRow, NEW v, v = Judged(w, rows, next, ch), Copies(rows, w)
  PROVE  Copies(next, v)
<1>1. /\ Linked(rows) /\ Linked(next) /\ ch \in SUBSET Categories
      /\ \A c \in DOMAIN next : c \notin ch => c \in DOMAIN rows /\ next[c] = rows[c]
  BY DEF Rewrites
<1>2. v.todo = w.todo /\ v.shown = w.shown /\ v.placed = w.placed /\ v.circled = w.circled
  <2>1. Follows(w, v, rows, next, ch)
    BY <1>1, JudgedIs
  <2>2. w.placed + 0 = w.placed /\ w.circled \in BOOLEAN
    BY DEF RequestRow
  <2> QED  BY <2>1, <2>2, FS_EmptySet DEF Follows
<1>3. \A t \in DOMAIN next \intersect DOMAIN rows : Parent(next, t) \in {Parent(rows, t), None}
  <2> TAKE t \in DOMAIN next \intersect DOMAIN rows
  <2>1. Parent(next, t) = next[t].parent /\ Parent(rows, t) = rows[t].parent
    BY <1>1, LinkedParent
  <2> QED  BY <1>1, <2>1 DEF Placed
<1>4. \A c \in DOMAIN next : c \in DOMAIN rows /\ Over(next, c) \subseteq Over(rows, c)
  BY <1>1, <1>3, OverTrimmed
<1> SUFFICES ASSUME ~v.circled
             PROVE  /\ Count(v.todo, Of(Circles(next))) = 0
                    /\ \A c \in Categories : CopiesFor(next, v, c)
  BY DEF Copies
<1>5. Count(w.todo, Of(Circles(rows))) = 0 /\ \A c \in Categories : CopiesFor(rows, w, c)
  BY <1>2 DEF Copies
<1>6. Count(v.todo, Of(Circles(next))) = 0
  <2>1. Circles(next) \subseteq Circles(rows)
    BY <1>4 DEF Circles
  <2>2. /\ Count(w.todo, Of(Circles(next))) <= Count(w.todo, Of(Circles(rows)))
        /\ Count(w.todo, Of(Circles(next))) \in Nat
    BY <2>1, CountWithin
  <2> QED  BY <1>2, <1>5, <2>2
<1>7. ASSUME NEW c \in Categories PROVE CopiesFor(next, v, c)
  <2>1. w.shown[c] \in Nat /\ PowerOfTwo[w.placed] \in Nat
    BY PowerOfTwoIs DEF RequestRow
  <2>2. ASSUME c \in DOMAIN next
        PROVE  w.shown[c] + Count(w.todo, Of(Over(next, c))) <= PowerOfTwo[w.placed]
    <3>1. w.shown[c] + Count(w.todo, Of(Over(rows, c))) <= PowerOfTwo[w.placed]
      BY <1>4, <1>5, <2>2 DEF CopiesFor
    <3>2. /\ Count(w.todo, Of(Over(next, c))) <= Count(w.todo, Of(Over(rows, c)))
          /\ Count(w.todo, Of(Over(next, c))) \in Nat /\ Count(w.todo, Of(Over(rows, c))) \in Nat
      BY <1>4, <2>2, CountWithin
    <3> QED  BY <2>1, <3>1, <3>2
  <2> QED  BY <1>2, <1>5, <2>2 DEF CopiesFor
<1> QED  BY <1>6, <1>7

(* when one is new,                                                        *)
LEMMA CreateCopies ==
  ASSUME NEW rows, NEW next, NEW x, NEW ch, ch = {x}, Rewrites(rows, next, ch),
         NEW ever, DOMAIN rows \subseteq ever, x \notin ever,
         x \in DOMAIN next, Parent(next, x) \in DOMAIN rows \union {None},
         NEW w \in RequestRow, NEW v, v = Judged(w, rows, next, ch), AsShown(ever, w), Copies(rows, w)
  PROVE  Copies(next, v)
<1>1. /\ Linked(rows) /\ Linked(next) /\ ch \in SUBSET Categories /\ x \in Categories
      /\ x \notin DOMAIN rows
      /\ \A c \in DOMAIN next : c # x => c \in DOMAIN rows /\ next[c] = rows[c]
  BY DEF Rewrites
<1>2. v.todo = w.todo /\ v.shown = w.shown /\ v.placed = w.placed /\ v.circled = w.circled
  <2>1. Follows(w, v, rows, next, ch)
    BY <1>1, JudgedIs
  <2>2. w.placed + 0 = w.placed /\ w.circled \in BOOLEAN
    BY DEF RequestRow
  <2>3. Placed(rows, next, ch) = {}
    BY <1>1 DEF Placed
  <2> QED  BY <2>1, <2>2, <2>3, FS_EmptySet DEF Follows
<1>3. \A t \in DOMAIN next \intersect DOMAIN rows : t # x /\ Parent(next, t) = Parent(rows, t)
  BY <1>1 DEF Parent
<1>4. \A c \in DOMAIN next : c # x => c \in DOMAIN rows /\ Over(next, c) \subseteq Over(rows, c)
  <2>1. \A t \in DOMAIN next \intersect DOMAIN rows : Parent(next, t) \in {Parent(rows, t), None}
    BY <1>3
  <2> QED  BY <1>1, <2>1, OverTrimmed
<1> SUFFICES ASSUME ~v.circled
             PROVE  /\ Count(v.todo, Of(Circles(next))) = 0
                    /\ \A c \in Categories : CopiesFor(next, v, c)
  BY DEF Copies
<1>5. Count(w.todo, Of(Circles(rows))) = 0 /\ \A c \in Categories : CopiesFor(rows, w, c)
  BY <1>2 DEF Copies
<1>6. \A c \in Categories : w.shown[c] \in Nat
  BY DEF RequestRow
<1>7. PowerOfTwo[w.placed] \in Nat
  BY PowerOfTwoIs DEF RequestRow
<1> DEFINE y == Parent(next, x)
<1>8. Over(next, x) \subseteq DOMAIN rows /\ Count(w.todo, Of(Over(next, x))) <= PowerOfTwo[w.placed]
  <2>1. CASE y = None
    <3>1. Over(next, x) = {}
      BY <1>1, <2>1, OverOfRoot
    <3> DEFINE E == Of({})
    <3>2. \A i \in DOMAIN w.todo : w.todo[i] \notin E
      BY DEF Of
    <3>3. Count(w.todo, E) = 0
      <4> HIDE DEF E
      <4> QED  BY <3>2, CountNone
    <3> QED  BY <1>7, <3>1, <3>3
  <2>2. CASE y # None
    <3>1. y \in DOMAIN rows /\ y \in Categories
      BY <1>1, <2>2, LinkedParent
    <3> DEFINE T == {y} \union Over(rows, y)
    <3>2. /\ Over(rows, y) \subseteq DOMAIN rows
          /\ Parent(rows, y) \in T \union {None}
          /\ \A u \in Over(rows, y) : Parent(rows, u) \in T \union {None}
      BY <1>1, <3>1, OverHas
    <3>3. T \subseteq DOMAIN rows /\ y \in T
      BY <3>1, <3>2
    <3>4. \A u \in T : u \in DOMAIN next => Parent(next, u) \in T \union {None}
      <4> TAKE u \in T
      <4> HAVE u \in DOMAIN next
      <4>1. Parent(next, u) = Parent(rows, u)
        BY <1>3, <3>3
      <4> QED  BY <3>2, <4>1
    <3>5. Count(w.todo, Of(T)) <= PowerOfTwo[w.placed]
      <4>1. CopiesFor(rows, w, y)
        BY <1>5, <3>1
      <4> HIDE DEF y
      <4> QED  BY <1>1, <3>1, <4>1, ListedAbove
    <3> HIDE DEF T
    <3>6. Over(next, x) \subseteq T
      BY <1>1, <3>3, <3>4, OverLeast
    <3>7. /\ Count(w.todo, Of(Over(next, x))) <= Count(w.todo, Of(T))
          /\ Count(w.todo, Of(Over(next, x))) \in Nat /\ Count(w.todo, Of(T)) \in Nat
      BY <3>6, CountWithin
    <3> QED  BY <1>7, <3>3, <3>5, <3>6, <3>7
  <2> QED  BY <2>1, <2>2
<1>9. Count(v.todo, Of(Circles(next))) = 0
  <2>1. Circles(next) \subseteq Circles(rows)
    BY <1>1, <1>4, <1>8 DEF Circles
  <2>2. /\ Count(w.todo, Of(Circles(next))) <= Count(w.todo, Of(Circles(rows)))
        /\ Count(w.todo, Of(Circles(next))) \in Nat
    BY <2>1, CountWithin
  <2> QED  BY <1>2, <1>5, <2>2
<1>10. ASSUME NEW c \in Categories PROVE CopiesFor(next, v, c)
  <2>1. ASSUME c \in DOMAIN next, c # x
        PROVE  w.shown[c] + Count(w.todo, Of(Over(next, c))) <= PowerOfTwo[w.placed]
    <3>1. w.shown[c] + Count(w.todo, Of(Over(rows, c))) <= PowerOfTwo[w.placed]
      BY <1>4, <1>5, <2>1 DEF CopiesFor
    <3>2. /\ Count(w.todo, Of(Over(next, c))) <= Count(w.todo, Of(Over(rows, c)))
          /\ Count(w.todo, Of(Over(next, c))) \in Nat /\ Count(w.todo, Of(Over(rows, c))) \in Nat
      BY <1>4, <2>1, CountWithin
    <3> QED  BY <1>6, <1>7, <3>1, <3>2
  <2>2. ASSUME c = x
        PROVE  w.shown[c] + Count(w.todo, Of(Over(next, c))) <= PowerOfTwo[w.placed]
    <3>1. w.shown[c] = 0
      BY <2>2 DEF AsShown
    <3>2. Count(w.todo, Of(Over(next, c))) \in Nat
      BY CountWithin
    <3> QED  BY <1>8, <2>2, <3>1, <3>2
  <2> QED  BY <1>2, <1>5, <2>1, <2>2 DEF CopiesFor
<1> QED  BY <1>9, <1>10

(* and twice their bound when one is placed below another: it may be found  *)
(* there once more for each time that one is still to be read.             *)
LEMMA MoveCopies ==
  ASSUME NEW rows, NEW next, NEW x, NEW ch, ch = {x}, Rewrites(rows, next, ch),
         Placed(rows, next, ch) = {x}, DOMAIN next = DOMAIN rows,
         NEW ever, NEW w \in RequestRow, NEW v, v = Judged(w, rows, next, ch),
         AsShown(ever, w), Copies(rows, w)
  PROVE  Copies(next, v)
<1>1. /\ Linked(rows) /\ Linked(next) /\ ch \in SUBSET Categories
      /\ \A c \in DOMAIN next : c # x => next[c] = rows[c]
      /\ x \in DOMAIN next /\ x \in DOMAIN rows /\ next[x].parent # None
  BY DEF Rewrites, Placed
<1>2. /\ v.todo = w.todo /\ v.shown = w.shown /\ v.placed = w.placed + 1
      /\ v.circled = (w.circled \/ InCircle(next, x))
  <2>1. Follows(w, v, rows, next, ch)
    BY <1>1, JudgedIs
  <2>2. Cardinality(Placed(rows, next, ch)) = 1
    BY FS_Singleton
  <2> QED  BY <2>1, <2>2 DEF Follows
<1> DEFINE y == Parent(next, x)
<1>3. y \in DOMAIN rows /\ y \in Categories
  <2>1. y = next[x].parent /\ y \in DOMAIN next \union {None} /\ DOMAIN rows \subseteq Categories
    BY <1>1, LinkedParent
  <2> QED  BY <1>1, <2>1
<1>4. \A t \in DOMAIN next \intersect DOMAIN rows :
        t # x => Parent(next, t) \in {Parent(rows, t), None}
  BY <1>1 DEF Parent
<1> SUFFICES ASSUME ~v.circled
             PROVE  /\ Count(v.todo, Of(Circles(next))) = 0
                    /\ \A c \in Categories : CopiesFor(next, v, c)
  BY DEF Copies
<1>5. Count(w.todo, Of(Circles(rows))) = 0 /\ \A c \in Categories : CopiesFor(rows, w, c)
  <2>1. ~w.circled
    BY <1>2
  <2> QED  BY <2>1 DEF Copies
<1>6. \A c \in Categories : w.shown[c] \in Nat
  BY DEF RequestRow
<1>7. PowerOfTwo[w.placed] \in Nat /\ PowerOfTwo[v.placed] = 2 * PowerOfTwo[w.placed]
  <2>1. w.placed \in Nat
    BY DEF RequestRow
  <2> QED  BY <1>2, <2>1, PowerOfTwoIs
<1>8. x \notin Over(next, x)
  BY <1>1, <1>2, InCircleIs
<1>9. Count(v.todo, Of(Circles(next))) = 0
  <2>1. Circles(next) \subseteq Circles(rows)
    BY <1>1, <1>4, <1>8, CircleClosed DEF Circles
  <2>2. /\ Count(w.todo, Of(Circles(next))) <= Count(w.todo, Of(Circles(rows)))
        /\ Count(w.todo, Of(Circles(next))) \in Nat
    BY <2>1, CountWithin
  <2> QED  BY <1>2, <1>5, <2>2
<1> DEFINE T == {y} \union Over(rows, y)
<1>10. Count(w.todo, Of(T)) <= PowerOfTwo[w.placed] /\ Count(w.todo, Of(T)) \in Nat
  <2>1. CopiesFor(rows, w, y)
    BY <1>3, <1>5
  <2>2. Count(w.todo, Of(T)) \in Nat
    BY CountWithin
  <2> HIDE DEF y
  <2> QED  BY <1>1, <1>3, <2>1, <2>2, ListedAbove
<1>11. \A c \in DOMAIN next : Over(next, c) \subseteq Over(rows, c) \union T
  <2>1. y = Parent(next, x)
    OBVIOUS
  <2> HIDE DEF y
  <2> QED  BY <1>1, <1>3, <1>4, <2>1, OverMoved
<1> HIDE DEF T, y
<1>12. ASSUME NEW c \in Categories PROVE CopiesFor(next, v, c)
  <2>1. ASSUME c \in DOMAIN next
        PROVE  w.shown[c] + Count(w.todo, Of(Over(next, c))) <= PowerOfTwo[v.placed]
    <3> DEFINE s == w.todo
               D == Of(Over(next, c))
               E == Of(Over(rows, c))
               F == Of(T)
    <3>1. s \in Seq(Entry) /\ \A i \in DOMAIN s : s[i] \in D => s[i] \in E \/ s[i] \in F
      BY <1>11, <2>1 DEF RequestRow, Of
    <3>2. w.shown[c] + Count(s, E) <= PowerOfTwo[w.placed]
      BY <1>1, <1>5, <2>1 DEF CopiesFor
    <3>3. Count(s, F) <= PowerOfTwo[w.placed]
      BY <1>10
    <3> HIDE DEF s, D, E, F
    <3>4. Count(s, D) <= Count(s, E) + Count(s, F)
      BY <3>1, CountEither
    <3>5. Count(s, D) \in Nat /\ Count(s, E) \in Nat /\ Count(s, F) \in Nat
      BY <3>1, PlacesFinite
    <3>6. w.shown[c] + Count(s, D) <= PowerOfTwo[v.placed]
      BY <1>6, <1>7, <3>2, <3>3, <3>4, <3>5
    <3> QED  BY <3>6 DEF s, D
  <2>2. w.shown[c] <= PowerOfTwo[v.placed]
    <3>1. w.shown[c] <= PowerOfTwo[w.placed]
      BY <1>5 DEF CopiesFor
    <3> QED  BY <1>6, <1>7, <3>1
  <2> QED  BY <1>2, <2>1, <2>2 DEF CopiesFor
<1> QED  BY <1>9, <1>12

(* A walk has counted right; no other request has shown anything.          *)
Fits(rows, ever, w) ==
  /\ w.pc = "walk" => AsShown(ever, w) /\ Copies(rows, w) /\ Exact(rows, w)
  /\ w.pc # "walk" => \A c \in Categories : w.shown[c] = 0

(* The invariant.                                                          *)
TreeInv ==
  /\ Linked(categories) /\ DOMAIN categories \subseteq issued /\ issued \subseteq Categories
  /\ request \in [Requests -> RequestRow]
  /\ \A r \in Requests : Fits(categories, issued, request[r])
  /\ writes \in 0..MaxWrites

(* What a statement may do: take rows away, add one, or place one.         *)
Shape(rows, next, ch, ever) ==
  \/ Placed(rows, next, ch) = {} /\ DOMAIN next \subseteq DOMAIN rows
  \/ \E x : ch = {x} /\ x \notin ever /\ x \in DOMAIN next
            /\ Parent(next, x) \in DOMAIN rows \union {None}
  \/ \E x : ch = {x} /\ Placed(rows, next, ch) = {x} /\ DOMAIN next = DOMAIN rows

(* Whatever it does, the copies stay within their bound.                   *)
LEMMA StatementCopies ==
  ASSUME NEW rows, NEW next, NEW ch, Rewrites(rows, next, ch),
         NEW ever, DOMAIN rows \subseteq ever, Shape(rows, next, ch, ever),
         NEW w \in RequestRow, NEW v, v = Judged(w, rows, next, ch),
         AsShown(ever, w), Copies(rows, w)
  PROVE  Copies(next, v)
<1>1. CASE Placed(rows, next, ch) = {} /\ DOMAIN next \subseteq DOMAIN rows
  BY <1>1, TrimCopies
<1>2. ASSUME NEW x, ch = {x}, x \notin ever, x \in DOMAIN next,
             Parent(next, x) \in DOMAIN rows \union {None}
      PROVE  Copies(next, v)
  BY <1>2, CreateCopies
<1>3. ASSUME NEW x, ch = {x}, Placed(rows, next, ch) = {x}, DOMAIN next = DOMAIN rows
      PROVE  Copies(next, v)
  BY <1>3, MoveCopies
<1> QED  BY <1>1, <1>2, <1>3 DEF Shape

(* So it is for every walk under way.                                      *)
LEMMA NoticedKeeps ==
  ASSUME TreeInv, NEW next, NEW ch, Rewrites(categories, next, ch),
         Shape(categories, next, ch, issued), NEW ever, issued \subseteq ever
  PROVE  /\ Noticed(next, ch) \in [Requests -> RequestRow]
         /\ \A r \in Requests : /\ Fits(next, ever, Noticed(next, ch)[r])
                                /\ ~Reading(r) => Noticed(next, ch)[r] = request[r]
<1> DEFINE M == Noticed(next, ch)
<1>1. /\ DOMAIN M = Requests
      /\ \A r \in Requests :
           M[r] = IF Reading(r) THEN Judged(request[r], categories, next, ch) ELSE request[r]
  BY DEF Noticed, Judged, Placed
<1> HIDE DEF M
<1>2. M = [r \in Requests |-> M[r]]
  <2>1. M = [r \in Requests |->
               IF Reading(r) THEN Judged(request[r], categories, next, ch) ELSE request[r]]
    BY DEF M, Noticed, Judged, Placed
  <2> QED  BY <1>1, <2>1
<1>3. ASSUME NEW r \in Requests PROVE M[r] \in RequestRow /\ Fits(next, ever, M[r])
  <2> DEFINE w == request[r]
             v == M[r]
  <2>1. w \in RequestRow /\ Fits(categories, issued, w) /\ DOMAIN categories \subseteq issued
    BY DEF TreeInv
  <2>2. v = IF w.pc = "walk" THEN Judged(w, categories, next, ch) ELSE w
    BY <1>1 DEF Reading
  <2> HIDE DEF w, v
  <2>3. CASE w.pc # "walk"
    BY <2>1, <2>2, <2>3 DEF Fits, v
  <2>4. CASE w.pc = "walk"
    <3>1. v = Judged(w, categories, next, ch)
      BY <2>2, <2>4
    <3>2. AsShown(issued, w) /\ Copies(categories, w) /\ Exact(categories, w)
      BY <2>1, <2>4 DEF Fits
    <3>3. Follows(w, v, categories, next, ch)
      <4>1. ch \in SUBSET Categories
        BY DEF Rewrites
      <4> QED  BY <2>1, <3>1, <4>1, JudgedIs
    <3>4. Copies(next, v)
      BY <2>1, <3>1, <3>2, StatementCopies
    <3>5. Exact(next, v)
      BY <2>1, <3>1, <3>2, StatementExact
    <3>6. AsShown(ever, v)
      BY <3>2, <3>3 DEF AsShown, Follows
    <3> QED  BY <2>4, <3>3, <3>4, <3>5, <3>6 DEF Fits, Follows, v
  <2> QED  BY <2>3, <2>4
<1> QED  BY <1>1, <1>2, <1>3 DEF M

-----------------------------------------------------------------------------
(* The statements *)

(* To write one row that stays is to place it, or not to.                  *)
LEMMA ShapeOfOne ==
  ASSUME NEW rows, NEW next, NEW ch, NEW x, ch \subseteq {x}, DOMAIN next = DOMAIN rows, NEW ever
  PROVE  Shape(rows, next, ch, ever)
<1>1. Placed(rows, next, ch) \subseteq ch
  BY DEF Placed
<1>2. CASE Placed(rows, next, ch) = {}
  BY <1>2 DEF Shape
<1>3. CASE Placed(rows, next, ch) # {}
  <2>1. ch = {x} /\ Placed(rows, next, ch) = {x}
    BY <1>1, <1>3
  <2> QED  BY <2>1 DEF Shape
<1> QED  BY <1>2, <1>3

(* A new row has never been shown.                                         *)
LEMMA CreateKeeps ==
  ASSUME TreeInv, NEW c \in Categories, NEW p \in Categories \union {None}, NEW visible \in BOOLEAN,
         CreateCategory(c, p, visible), writes' \in 0..MaxWrites
  PROVE  TreeInv'
<1> DEFINE rows == categories
           next == categories'
           ch == {c}
<1>1. /\ c \notin issued /\ p \in DOMAIN rows \union {None}
      /\ next = [d \in DOMAIN rows \union {c} |->
                   IF d = c THEN [parent |-> p, visible |-> visible] ELSE rows[d]]
      /\ issued' = issued \union {c} /\ request' = Noticed(next, ch)
  BY DEF CreateCategory, Exists
<1>2. /\ Linked(rows) /\ DOMAIN rows \subseteq issued /\ issued \subseteq Categories
  BY DEF TreeInv
<1> HIDE DEF rows, next
<1>3. DOMAIN next = DOMAIN rows \union {c} /\ c \notin DOMAIN rows
      /\ next[c] = [parent |-> p, visible |-> visible]
      /\ \A d \in DOMAIN rows : next[d] = rows[d]
  BY <1>1, <1>2
<1>4. Linked(next)
  <2>1. next \in [DOMAIN next -> CategoryRow]
    <3>1. \A d \in DOMAIN next : next[d] \in CategoryRow
      BY <1>2, <1>3 DEF Linked, CategoryRow
    <3>2. next = [d \in DOMAIN next |-> next[d]]
      BY <1>1
    <3> QED  BY <3>1, <3>2
  <2>2. \A d \in DOMAIN next : next[d].parent \in DOMAIN next \union {None}
    <3>1. next[c].parent = p
      BY <1>3
    <3> QED  BY <1>1, <1>2, <1>3, <3>1 DEF Linked
  <2> QED  BY <1>2, <1>3, <2>1, <2>2 DEF Linked
<1>5. Rewrites(rows, next, ch)
  BY <1>2, <1>3, <1>4 DEF Rewrites
<1>6. Shape(rows, next, ch, issued)
  <2>1. Parent(next, c) \in DOMAIN rows \union {None}
    <3>1. c # None
      BY CategoriesAssumption
    <3> QED  BY <1>1, <1>3, <3>1 DEF Parent
  <2> QED  BY <1>1, <1>3, <2>1 DEF Shape
<1>7. /\ request' \in [Requests -> RequestRow]
      /\ \A r \in Requests : Fits(next, issued', request'[r])
  <2>1. issued \subseteq issued'
    BY <1>1
  <2> QED  BY <1>1, <1>5, <1>6, <2>1, NoticedKeeps DEF rows
<1> QED  BY <1>1, <1>2, <1>3, <1>4, <1>7 DEF TreeInv, next

(* The form places at most its own row.                                    *)
LEMMA UpdateKeeps ==
  ASSUME TreeInv, NEW c \in Categories, NEW p \in Categories \union {None}, NEW visible \in BOOLEAN,
         UpdateCategory(c, p, visible), writes' \in 0..MaxWrites
  PROVE  TreeInv'
<1> DEFINE rows == categories
           next == categories'
           ch == IF next = rows THEN {} ELSE {c}
<1>1. /\ c \in DOMAIN rows /\ p \in DOMAIN rows \union {None}
      /\ next = [rows EXCEPT ![c] = [parent |-> p, visible |-> visible]]
      /\ issued' = issued /\ request' = Noticed(next, ch)
  BY DEF UpdateCategory, Exists
<1>2. /\ Linked(rows) /\ DOMAIN rows \subseteq issued /\ issued \subseteq Categories
  BY DEF TreeInv
<1> HIDE DEF rows, next
<1>3. /\ DOMAIN next = DOMAIN rows
      /\ next[c] = [parent |-> p, visible |-> visible]
      /\ \A d \in DOMAIN rows : d # c => next[d] = rows[d]
  BY <1>1, <1>2
<1>4. Linked(next)
  <2>1. next \in [DOMAIN next -> CategoryRow]
    <3>1. [parent |-> p, visible |-> visible] \in CategoryRow
      BY DEF CategoryRow
    <3>2. rows \in [DOMAIN rows -> CategoryRow]
      BY <1>2 DEF Linked
    <3> QED  BY <1>1, <1>3, <3>1, <3>2
  <2>2. \A d \in DOMAIN next : next[d].parent \in DOMAIN next \union {None}
    <3>1. next[c].parent = p
      BY <1>3
    <3> QED  BY <1>1, <1>2, <1>3, <3>1 DEF Linked
  <2> QED  BY <1>2, <1>3, <2>1, <2>2 DEF Linked
<1>5. Rewrites(rows, next, ch)
  BY <1>2, <1>3, <1>4 DEF Rewrites
<1>6. Shape(rows, next, ch, issued)
  BY <1>3, ShapeOfOne
<1> HIDE DEF ch
<1>7. /\ request' \in [Requests -> RequestRow]
      /\ \A r \in Requests : Fits(next, issued', request'[r])
  BY <1>1, <1>5, <1>6, NoticedKeeps DEF rows
<1> QED  BY <1>1, <1>2, <1>3, <1>4, <1>7 DEF TreeInv, next

(* A row goes, and its children become roots.                              *)
LEMMA DeleteKeeps ==
  ASSUME TreeInv, NEW c \in Categories, DeleteCategory(c), writes' \in 0..MaxWrites
  PROVE  TreeInv'
<1> DEFINE rows == categories
           next == categories'
           children == Children(c, FALSE)
           ch == children \union {c}
<1>1. /\ c \in DOMAIN rows
      /\ next = [d \in DOMAIN rows \ {c} |->
                   IF d \in children THEN [rows[d] EXCEPT !.parent = None] ELSE rows[d]]
      /\ issued' = issued /\ request' = Noticed(next, ch)
  BY DEF DeleteCategory
<1>2. /\ Linked(rows) /\ DOMAIN rows \subseteq issued /\ issued \subseteq Categories
  BY DEF TreeInv
<1>3. children = {d \in DOMAIN rows : rows[d].parent = c}
  BY DEF Children
<1> HIDE DEF rows, next, children
<1>4. /\ DOMAIN next = DOMAIN rows \ {c} /\ ch \in SUBSET Categories
      /\ \A d \in DOMAIN next : d \in children => next[d] = [rows[d] EXCEPT !.parent = None]
      /\ \A d \in DOMAIN next : d \notin children => next[d] = rows[d] /\ rows[d].parent # c
  BY <1>1, <1>2, <1>3
<1>5. \A d \in DOMAIN rows : rows[d] \in CategoryRow /\ rows[d].parent \in DOMAIN rows \union {None}
  BY <1>2 DEF Linked
<1>6. \A d \in DOMAIN next : d \in children => next[d] \in CategoryRow /\ next[d].parent = None
  BY <1>4, <1>5 DEF CategoryRow
<1>7. Linked(next)
  <2>1. next \in [DOMAIN next -> CategoryRow]
    <3>1. \A d \in DOMAIN next : next[d] \in CategoryRow
      BY <1>4, <1>5, <1>6
    <3>2. next = [d \in DOMAIN next |-> next[d]]
      BY <1>1
    <3> QED  BY <3>1, <3>2
  <2>2. \A d \in DOMAIN next : next[d].parent \in DOMAIN next \union {None}
    BY <1>4, <1>5, <1>6
  <2> QED  BY <1>2, <1>4, <2>1, <2>2 DEF Linked
<1>8. Rewrites(rows, next, ch)
  BY <1>2, <1>4, <1>7 DEF Rewrites
<1>9. Shape(rows, next, ch, issued)
  <2>1. Placed(rows, next, ch) = {}
    BY <1>4, <1>6 DEF Placed
  <2> QED  BY <1>4, <2>1 DEF Shape
<1> HIDE DEF ch
<1>10. /\ request' \in [Requests -> RequestRow]
       /\ \A r \in Requests : Fits(next, issued', request'[r])
  BY <1>1, <1>8, <1>9, NoticedKeeps DEF rows
<1> QED  BY <1>1, <1>2, <1>4, <1>7, <1>10 DEF TreeInv, next

(* An item of a reorder places at most its own row.                        *)
LEMMA ReorderItemKeeps ==
  ASSUME TreeInv, NEW r \in Requests, NEW c \in Categories, NEW p \in Categories \union {None},
         ReorderItem(r, c, p), writes' \in 0..MaxWrites
  PROVE  TreeInv'
<1> DEFINE rows == categories
           next == categories'
           moves == c \in DOMAIN rows /\ rows[c].parent # p
           ch == IF moves THEN {c} ELSE {}
           M == Noticed(next, ch)
<1>1. /\ request[r].pc = "reorder" /\ request[r].items > 0
      /\ c \in DOMAIN rows => p \in DOMAIN rows \union {None}
      /\ next = IF moves THEN [rows EXCEPT ![c].parent = p] ELSE rows
      /\ issued' = issued /\ request' = [M EXCEPT ![r].items = @ - 1]
  BY DEF ReorderItem, Exists
<1>2. /\ Linked(rows) /\ DOMAIN rows \subseteq issued /\ issued \subseteq Categories
      /\ request \in [Requests -> RequestRow]
  BY DEF TreeInv
<1> HIDE DEF rows, next, M
<1>3. \A d \in DOMAIN rows : rows[d] \in CategoryRow /\ rows[d].parent \in DOMAIN rows \union {None}
  BY <1>2 DEF Linked
<1>4. /\ DOMAIN next = DOMAIN rows
      /\ moves => next[c] = [rows[c] EXCEPT !.parent = p]
      /\ \A d \in DOMAIN rows : d \notin ch => next[d] = rows[d]
  BY <1>1
<1>5. moves => next[c] \in CategoryRow /\ next[c].parent = p
  <2> HAVE moves
  <2>1. rows[c] \in CategoryRow /\ next[c] = [rows[c] EXCEPT !.parent = p]
    BY <1>3, <1>4
  <2> QED  BY <2>1 DEF CategoryRow
<1>6. Linked(next)
  <2>1. \A d \in DOMAIN next : next[d] \in CategoryRow /\ next[d].parent \in DOMAIN next \union {None}
    BY <1>1, <1>3, <1>4, <1>5
  <2>2. next = [d \in DOMAIN next |-> next[d]]
    <3>1. rows = [d \in DOMAIN rows |-> rows[d]]
      BY <1>2 DEF Linked
    <3> QED  BY <1>1, <3>1
  <2>3. next \in [DOMAIN next -> CategoryRow]
    BY <2>1, <2>2
  <2> QED  BY <1>2, <1>4, <2>1, <2>3 DEF Linked
<1>7. Rewrites(rows, next, ch)
  BY <1>2, <1>4, <1>6 DEF Rewrites
<1>8. Shape(rows, next, ch, issued)
  BY <1>4, ShapeOfOne
<1>9. /\ M \in [Requests -> RequestRow]
      /\ \A q \in Requests : Fits(next, issued, M[q])
      /\ M[r] = request[r]
  <2>1. ~Reading(r)
    BY <1>1 DEF Reading
  <2> HIDE DEF ch
  <2> QED  BY <1>7, <1>8, <2>1, NoticedKeeps DEF rows, M
<1> DEFINE w == request[r]
           u == [w EXCEPT !.items = @ - 1]
<1>10. u \in RequestRow /\ Fits(next, issued, u)
  <2>1. w \in RequestRow /\ w.pc = "reorder" /\ w.items > 0 /\ Fits(next, issued, w)
    BY <1>1, <1>2, <1>9
  <2> HIDE DEF w
  <2>2. /\ u.pc = w.pc /\ u.shown = w.shown
        /\ u = [pc |-> w.pc, items |-> w.items - 1, nav |-> w.nav, todo |-> w.todo, shown |-> w.shown,
                changed |-> w.changed, failed |-> w.failed, placed |-> w.placed,
                circled |-> w.circled]
    BY <2>1 DEF RequestRow
  <2>3. w.items - 1 \in Nat
    BY <2>1 DEF RequestRow
  <2>4. u \in RequestRow
    BY <2>1, <2>2, <2>3 DEF RequestRow
  <2> QED  BY <2>1, <2>2, <2>4 DEF Fits
<1>11. request' = [M EXCEPT ![r] = u]
  BY <1>1, <1>9
<1> HIDE DEF u, w, ch
<1>12. /\ request' \in [Requests -> RequestRow]
       /\ \A q \in Requests : Fits(next, issued', request'[q])
  BY <1>1, <1>9, <1>10, <1>11
<1> QED  BY <1>1, <1>2, <1>4, <1>6, <1>12 DEF TreeInv, next

-----------------------------------------------------------------------------
(* The requests *)

(* A request that fits takes the place of another.                         *)
LEMMA RequestKeeps ==
  ASSUME TreeInv, NEW r \in Requests, NEW w \in RequestRow, Fits(categories, issued, w),
         request' = [request EXCEPT ![r] = w], UNCHANGED <<categories, issued, writes>>
  PROVE  TreeInv'
<1>1. /\ request \in [Requests -> RequestRow]
      /\ \A q \in Requests : Fits(categories, issued, request[q])
  BY DEF TreeInv
<1>2. /\ request' \in [Requests -> RequestRow]
      /\ \A q \in Requests : Fits(categories, issued, request'[q])
  BY <1>1
<1> QED  BY <1>2 DEF TreeInv

(* A request that does not walk.                                           *)
Busy(pc, items) ==
  [pc |-> pc, items |-> items, nav |-> FALSE, todo |-> <<>>, shown |-> [c \in Categories |-> 0],
   changed |-> {}, failed |-> {}, placed |-> 0, circled |-> FALSE]

(* It fits.                                                                *)
LEMMA BusyFits ==
  ASSUME NEW items \in Nat, NEW pc, pc = "idle" \/ pc = "reorder", NEW w, w = Busy(pc, items)
  PROVE  w \in RequestRow /\ Fits(categories, issued, w)
<1> DEFINE none == <<>>
           zero == [c \in Categories |-> 0]
<1>1. none \in Seq(Entry) /\ zero \in [Categories -> Nat] /\ \A c \in Categories : zero[c] = 0
  OBVIOUS
<1>2. w = [pc |-> pc, items |-> items, nav |-> FALSE, todo |-> none, shown |-> zero,
           changed |-> {}, failed |-> {}, placed |-> 0, circled |-> FALSE]
  BY DEF Busy
<1> HIDE DEF none, zero
<1>3. {} \in SUBSET Categories /\ FALSE \in BOOLEAN /\ 0 \in Nat /\ pc \in {"idle", "reorder", "walk"}
  OBVIOUS
<1>4. w \in RequestRow
  BY <1>1, <1>2, <1>3 DEF RequestRow
<1>5. w.pc # "walk" /\ w.shown = zero
  BY <1>2
<1> QED  BY <1>1, <1>4, <1>5 DEF Fits

(* The roots query of a request, or after a reorder.                       *)
LEMMA WalkKeeps ==
  ASSUME TreeInv, NEW r \in Requests, NEW nav \in BOOLEAN,
         request' \in {[request EXCEPT ![r] = w] : w \in Walk(nav)},
         UNCHANGED <<categories, issued, writes>>
  PROVE  TreeInv'
<1> DEFINE roots == Roots(nav)
<1>1. PICK w \in Walk(nav) : request' = [request EXCEPT ![r] = w]
  OBVIOUS
<1>2. PICK p \in SetToSeqs(roots) : w = Begun(roots, nav, p)
  BY <1>1 DEF Walk, Begun, Listed
<1>3. roots = FoundIn(categories, None, nav)
  BY DEF Roots, FoundIn
<1>4. Linked(categories) /\ DOMAIN categories \subseteq issued
  BY DEF TreeInv
<1> HIDE DEF roots
<1>5. w \in RequestRow /\ AsShown(issued, w) /\ Copies(categories, w) /\ Exact(categories, w)
  BY <1>2, <1>3, <1>4, BeginKeeps
<1>6. w.pc = "walk"
  BY <1>2 DEF Begun, Idle
<1>7. Fits(categories, issued, w)
  BY <1>5, <1>6 DEF Fits
<1> QED  BY <1>1, <1>5, <1>7, RequestKeeps

(* The query for children, answered,                                       *)
LEMMA ReadChildrenKeeps ==
  ASSUME TreeInv, NEW r \in Requests, ReadChildren(r), UNCHANGED writes
  PROVE  TreeInv'
<1> DEFINE w == request[r]
           h == Head(w.todo)
           t == Tail(w.todo)
           found == Children(h.id, w.nav)
           d == h.depth - 1
<1>1. /\ Linked(categories) /\ DOMAIN categories \subseteq issued /\ issued \subseteq Categories
      /\ w \in RequestRow /\ Fits(categories, issued, w) /\ request \in [Requests -> RequestRow]
  BY DEF TreeInv
<1>2. w.pc = "walk" /\ w.todo # <<>> /\ UNCHANGED <<categories, issued, writes>>
  BY DEF ReadChildren, Reading
<1>3. found = FoundIn(categories, h.id, w.nav)
  BY DEF Children, FoundIn
<1>4. PICK p \in SetToSeqs(found) :
        request' = [request EXCEPT
          ![r].shown = [c \in Categories |-> @[c] + IF c \in found THEN 1 ELSE 0],
          ![r].todo = (IF h.depth > 1
                       THEN [i \in DOMAIN p |-> [id |-> p[i], depth |-> h.depth - 1]]
                       ELSE <<>>) \o Tail(@)]
  BY DEF ReadChildren
<1> DEFINE v == AfterRead(w, found, p)
<1>5. request' = [request EXCEPT ![r] = v]
  BY <1>1, <1>4 DEF AfterRead, Deeper, Listed
<1>6. h = Head(w.todo) /\ t = Tail(w.todo) /\ found = FoundIn(categories, h.id, w.nav)
      /\ d = h.depth - 1 /\ v = AfterRead(w, found, p)
  BY <1>3
<1>14. found \subseteq DOMAIN categories
  BY DEF Children
<1>7. AsShown(issued, w) /\ Copies(categories, w) /\ Exact(categories, w)
  BY <1>1, <1>2 DEF Fits
<1>8. found \in SUBSET Categories /\ found \subseteq issued
  BY <1>1, <1>14
<1> HIDE DEF w, h, t, found, d, v
<1>9. Reads(w, v, h, t, found)
  BY <1>1, <1>2, <1>4, <1>6, <1>8, ReadCounts
<1>10. AsShown(issued, v)
  <2>1. w \in RequestRow /\ w.todo # <<>> /\ AsShown(issued, w)
    BY <1>1, <1>2, <1>7
  <2> DEFINE ever == issued
  <2>2. found \subseteq ever /\ AsShown(ever, w)
    BY <1>8, <2>1
  <2> HIDE DEF ever
  <2>3. AsShown(ever, v)
    BY <1>6, <1>8, <2>1, <2>2, ReadAsShown
  <2> QED  BY <2>3 DEF ever
<1>11. Copies(categories, v)
  BY <1>1, <1>2, <1>4, <1>6, <1>7, <1>8, ReadCopies
<1>12. Exact(categories, v)
  BY <1>1, <1>2, <1>4, <1>6, <1>7, <1>8, ReadExact
<1>13. v \in RequestRow /\ Fits(categories, issued, v)
  BY <1>2, <1>9, <1>10, <1>11, <1>12 DEF Reads, Fits
<1> QED  BY <1>2, <1>5, <1>13, RequestKeeps

(* and failed.                                                             *)
LEMMA FailChildrenKeeps ==
  ASSUME TreeInv, NEW r \in Requests, FailChildren(r), UNCHANGED writes
  PROVE  TreeInv'
<1> DEFINE w == request[r]
           v == AfterFail(w)
<1>1. /\ Linked(categories) /\ w \in RequestRow /\ Fits(categories, issued, w)
      /\ request \in [Requests -> RequestRow]
  BY DEF TreeInv
<1>2. w.pc = "walk" /\ w.todo # <<>> /\ UNCHANGED <<categories, issued, writes>>
  BY DEF FailChildren, Reading
<1>3. request' = [request EXCEPT ![r] = v]
  BY <1>1 DEF FailChildren, AfterFail
<1>4. AsShown(issued, w) /\ Copies(categories, w) /\ Exact(categories, w)
  BY <1>1, <1>2 DEF Fits
<1>5. v.pc = w.pc
  BY <1>1 DEF AfterFail, RequestRow
<1>6. v = AfterFail(w)
  OBVIOUS
<1> HIDE DEF w, v
<1>7. v \in RequestRow /\ AsShown(issued, v) /\ Copies(categories, v) /\ Exact(categories, v)
  BY <1>1, <1>2, <1>4, <1>6, FailKeeps
<1>8. Fits(categories, issued, v)
  BY <1>2, <1>5, <1>7 DEF Fits
<1> QED  BY <1>2, <1>3, <1>7, <1>8, RequestKeeps

(* A request ends, or begins to reorder.                                   *)
LEMMA BusyKeeps ==
  ASSUME TreeInv, NEW r \in Requests, NEW items \in Nat, NEW pc, pc = "idle" \/ pc = "reorder",
         request' = [request EXCEPT ![r] = Busy(pc, items)],
         UNCHANGED <<categories, issued, writes>>
  PROVE  TreeInv'
<1> DEFINE w == Busy(pc, items)
<1>1. w = Busy(pc, items) /\ request' = [request EXCEPT ![r] = w]
  OBVIOUS
<1> HIDE DEF w
<1>2. w \in RequestRow /\ Fits(categories, issued, w)
  BY <1>1, BusyFits
<1> QED  BY <1>1, <1>2, RequestKeeps

LEMMA IdleIsBusy ==
  /\ Idle = Busy("idle", 0)
  /\ \A n, w : w = [Idle EXCEPT !.pc = "reorder", !.items = n] => w = Busy("reorder", n)
<1>1. Idle = Busy("idle", 0)
  BY DEF Idle, Busy
<1>2. ASSUME NEW n, NEW w, w = [Idle EXCEPT !.pc = "reorder", !.items = n]
      PROVE  w = Busy("reorder", n)
  BY <1>2 DEF Idle, Busy
<1> QED  BY <1>1, <1>2

-----------------------------------------------------------------------------
(* The invariant *)

(* It holds at first,                                                      *)
LEMMA TreeInvInit == TreeInit => TreeInv
<1> SUFFICES ASSUME TreeInit PROVE TreeInv
  OBVIOUS
<1>1. Linked(categories) /\ issued = DOMAIN categories
  BY InitAssumption DEF TreeInit
<1>2. issued \subseteq Categories
  BY <1>1 DEF Linked
<1>3. Idle \in RequestRow /\ Fits(categories, issued, Idle)
  <2> DEFINE pc == "idle"
             items == 0
  <2>1. Idle = Busy(pc, items) /\ items \in Nat /\ pc = "idle"
    BY IdleIsBusy
  <2> HIDE DEF pc, items
  <2> QED  BY <2>1, BusyFits
<1>4. request \in [Requests -> RequestRow] /\ \A r \in Requests : request[r] = Idle
  BY <1>3 DEF TreeInit
<1>5. writes \in 0..MaxWrites
  BY DepthAssumption DEF TreeInit
<1> QED  BY <1>1, <1>2, <1>3, <1>4, <1>5 DEF TreeInv

(* and every statement and every query keeps it.                           *)
LEMMA TreeInvStep == TreeInv /\ [TreeNext]_treeVars => TreeInv'
<1> SUFFICES ASSUME TreeInv, [TreeNext]_treeVars PROVE TreeInv'
  OBVIOUS
<1>1. CASE ChangeRows
  <2>1. writes' \in 0..MaxWrites
    BY <1>1, DepthAssumption DEF ChangeRows, TreeInv
  <2>2. ASSUME NEW c \in Categories, NEW p \in Categories \union {None}, NEW visible \in BOOLEAN,
               CreateCategory(c, p, visible)
        PROVE  TreeInv'
    BY <2>1, <2>2, CreateKeeps
  <2>3. ASSUME NEW c \in Categories, NEW p \in Categories \union {None}, NEW visible \in BOOLEAN,
               UpdateCategory(c, p, visible)
        PROVE  TreeInv'
    BY <2>1, <2>3, UpdateKeeps
  <2>4. ASSUME NEW c \in Categories, NEW p \in Categories \union {None}, NEW r \in Requests,
               ReorderItem(r, c, p)
        PROVE  TreeInv'
    BY <2>1, <2>4, ReorderItemKeeps
  <2>5. ASSUME NEW c \in Categories, DeleteCategory(c) PROVE TreeInv'
    BY <2>1, <2>5, DeleteKeeps
  <2> QED  BY <1>1, <2>2, <2>3, <2>4, <2>5 DEF ChangeRows
<1>2. CASE Proceed
  <2>1. UNCHANGED writes
    BY <1>2 DEF Proceed
  <2>2. ASSUME NEW r \in Requests, NEW nav \in BOOLEAN, GetCategoryTree(r, nav) PROVE TreeInv'
    BY <2>1, <2>2, WalkKeeps DEF GetCategoryTree
  <2>3. ASSUME NEW r \in Requests, ReadChildren(r) PROVE TreeInv'
    BY <2>1, <2>3, ReadChildrenKeeps
  <2>4. ASSUME NEW r \in Requests, FailChildren(r) PROVE TreeInv'
    BY <2>1, <2>4, FailChildrenKeeps
  <2>5. ASSUME NEW r \in Requests, FinishWalk(r) \/ FailReorder(r) PROVE TreeInv'
    <3>1. request' = [request EXCEPT ![r] = Idle] /\ UNCHANGED <<categories, issued, writes>>
      BY <2>1, <2>5 DEF FinishWalk, FailReorder
    <3> DEFINE pc == "idle"
               items == 0
    <3>2. Idle = Busy(pc, items) /\ items \in Nat /\ pc = "idle"
      BY IdleIsBusy
    <3> HIDE DEF pc, items
    <3> QED  BY <3>1, <3>2, BusyKeeps
  <2>6. ASSUME NEW r \in Requests, NEW n \in 1..MaxItems, Reorder(r, n) PROVE TreeInv'
    <3> DEFINE pc == "reorder"
    <3>1. n \in Nat /\ pc = "reorder"
      BY DepthAssumption
    <3>2. request' = [request EXCEPT ![r] = Busy(pc, n)] /\ UNCHANGED <<categories, issued, writes>>
      <4> DEFINE w == [Idle EXCEPT !.pc = "reorder", !.items = n]
      <4>1. request' = [request EXCEPT ![r] = w] /\ UNCHANGED <<categories, issued, writes>>
        BY <2>1, <2>6 DEF Reorder
      <4>2. w = Busy(pc, n)
        BY IdleIsBusy
      <4> HIDE DEF w
      <4> QED  BY <4>1, <4>2
    <3> HIDE DEF pc
    <3> QED  BY <3>1, <3>2, BusyKeeps
  <2>7. ASSUME NEW r \in Requests, WarmCache(r) PROVE TreeInv'
    <3>1. FALSE \in BOOLEAN /\ UNCHANGED <<categories, issued, writes>>
          /\ request' \in {[request EXCEPT ![r] = w] : w \in Walk(FALSE)}
      BY <2>1, <2>7 DEF WarmCache
    <3> QED  BY <3>1, WalkKeeps
  <2> QED  BY <1>2, <2>2, <2>3, <2>4, <2>5, <2>6, <2>7 DEF Proceed
<1>3. CASE UNCHANGED treeVars
  BY <1>3 DEF TreeInv, treeVars
<1> QED  BY <1>1, <1>2, <1>3 DEF TreeNext

(* Along every behaviour of the tree's readers and writers, what each walk  *)
(* has shown and has yet to read accounts for every category.              *)
THEOREM TreeInvariant == TreeSpec => []TreeInv
<1>1. TreeInit => TreeInv
  BY TreeInvInit
<1>2. TreeInv /\ [TreeNext]_treeVars => TreeInv'
  BY TreeInvStep
<1> QED  BY <1>1, <1>2, PTL DEF TreeSpec

(* Every parent is there and every request has its type, whatever is moved, *)
(* deleted or reordered meanwhile.                                         *)
THEOREM TreeHasTypes == TreeSpec => []TreeTypeOK
<1>1. TreeInv => TreeTypeOK
  <2> SUFFICES ASSUME TreeInv PROVE TreeTypeOK
    OBVIOUS
  <2>1. ASSUME NEW r \in Requests
        PROVE  /\ request[r].pc \in {"idle", "reorder", "walk"}
               /\ \A i \in DOMAIN request[r].todo :
                    request[r].todo[i] \in [id : Categories, depth : 1..Depth]
               /\ request[r].shown \in [Categories -> Nat]
    <3>1. request[r] \in RequestRow
      BY DEF TreeInv
    <3> DEFINE s == request[r].todo
    <3>2. s \in Seq(Entry)
      BY <3>1 DEF RequestRow
    <3> HIDE DEF s
    <3>3. \A i \in DOMAIN s : s[i] \in Entry
      BY <3>2
    <3> QED  BY <3>1, <3>3 DEF RequestRow, Entry, s
  <2> QED  BY <2>1 DEF TreeInv, TreeTypeOK
<1> QED  BY <1>1, TreeInvariant, PTL

(* A category moved while the tree is read comes up in it at most twice as  *)
(* often for each placement below another, unless one closed a circle.     *)
THEOREM CopiesAlwaysBounded == TreeSpec => []CopiesBounded
<1>1. TreeInv => CopiesBounded
  <2> SUFFICES ASSUME TreeInv, NEW r \in Requests, NEW c \in Categories, ~request[r].circled
               PROVE  request[r].shown[c] <= PowerOfTwo[request[r].placed]
    BY DEF CopiesBounded
  <2> DEFINE w == request[r]
  <2>1. w \in RequestRow /\ Fits(categories, issued, w)
    BY DEF TreeInv
  <2> HIDE DEF w
  <2>2. PowerOfTwo[w.placed] \in Nat
    BY <2>1, PowerOfTwoIs DEF RequestRow
  <2>3. CASE w.pc = "walk"
    BY <2>1, <2>3 DEF Fits, Copies, CopiesFor, w
  <2>4. CASE w.pc # "walk"
    BY <2>1, <2>2, <2>4 DEF Fits, w
  <2> QED  BY <2>3, <2>4
<1> QED  BY <1>1, TreeInvariant, PTL

(* A category left alone while a tree is read, with all above it, is in it  *)
(* exactly once if it is within reach and visible, and otherwise not at    *)
(* all, whatever happens to the others meanwhile.                          *)
THEOREM TreeAlwaysExact == TreeSpec => []TreeExact
<1>1. TreeInv => TreeExact
  <2> SUFFICES ASSUME TreeInv, NEW r \in Requests, NEW c \in DOMAIN categories,
                      Reading(r), request[r].todo = <<>>,
                      Chain(c) \intersect (request[r].changed \union request[r].failed) = {}
               PROVE  request[r].shown[c] =
                        IF InReach(c) /\ (request[r].nav => \A d \in Chain(c) : categories[d].visible)
                        THEN 1 ELSE 0
    BY DEF TreeExact
  <2> DEFINE w == request[r]
             nav == w.nav
             L == LeadsTo(categories, c, nav)
  <2>1. w \in RequestRow /\ Exact(categories, w) /\ Linked(categories)
    BY DEF TreeInv, Fits, Reading
  <2>2. Chain(c) = ChainOf(categories, c)
    BY DEF Chain, ChainOf
  <2>3. ExactFor(categories, w, c)
    BY <2>1, <2>2 DEF Exact, Clean
  <2>4. Belongs(categories, c, nav) <=>
          InReach(c) /\ (nav => \A d \in Chain(c) : categories[d].visible)
    BY <2>2 DEF Belongs, InReach, N
  <2>5. Count(w.todo, L) = 0
    <3> DEFINE s == w.todo
    <3>1. \A i \in DOMAIN s : s[i] \notin L
      OBVIOUS
    <3> HIDE DEF L, s
    <3>2. Count(s, L) = 0
      BY <3>1, CountNone
    <3> QED  BY <3>2 DEF s
  <2>6. w.shown[c] \in Nat
    <3>1. c \in Categories
      BY <2>1, LinkedParent
    <3> QED  BY <2>1, <3>1 DEF RequestRow
  <2>7. w.shown[c] = IF Belongs(categories, c, nav) THEN 1 ELSE 0
    <3>1. w.shown[c] + Count(w.todo, L) = IF Belongs(categories, c, nav) THEN 1 ELSE 0
      BY <2>3 DEF ExactFor
    <3> HIDE DEF w, L
    <3> QED  BY <2>5, <2>6, <3>1
  <2> QED  BY <2>4, <2>7
<1> QED  BY <1>1, TreeInvariant, PTL
=============================================================================
