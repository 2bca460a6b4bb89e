------------------------------ MODULE SumProofs ------------------------------
(***************************************************************************)
(* Sums of a function over a finite set.  SumFunctionOnSet folds over the   *)
(* set by a function defined by recursion, which the provers see as a      *)
(* CHOOSE; SumRecursion shows that the chosen function exists and satisfies *)
(* its equation, and everything else follows from that equation.           *)
(*                                                                         *)
(* The library's induction theorems speak of a predicate.  Here the "good"  *)
(* sets are collected in a set instead, for which the well-foundedness of   *)
(* strict inclusion (FS_StrictSubsetOrderingWellFounded, WFMin) suffices.   *)
(***************************************************************************)
EXTENDS Integers, Functions, FiniteSetTheorems, TLAPS

(* A set is good if all its smaller subsets are: then all subsets are good. *)
LEMMA FiniteSetInduction ==
  ASSUME NEW S, IsFiniteSet(S), NEW Good,
         \A T \in SUBSET S :
           (\A U \in SUBSET T : U # T => U \in Good) => T \in Good
  PROVE  S \in Good
<1> DEFINE R == StrictSubsetOrdering(S)
           Bad == {T \in SUBSET S : T \notin Good}
<1>1. IsWellFoundedOn(R, SUBSET S)
  BY FS_StrictSubsetOrderingWellFounded, FS_FiniteSubsetsOfFinite
<1>2. ASSUME Bad # {} PROVE FALSE
  <2> HIDE DEF R
  <2>1. Bad \subseteq SUBSET S
    OBVIOUS
  <2> HIDE DEF Bad
  <2>2. PICK T \in Bad : \A U \in Bad : ~(<<U, T>> \in R)
    BY <1>1, <1>2, <2>1, WFMin
  <2> USE DEF Bad
  <2>3. ASSUME NEW U \in SUBSET T, U # T PROVE U \in Good
    <3>1. U \in SUBSET S /\ T \in SUBSET S
      BY <2>3
    <3>2. <<U, T>> \in R
      BY <2>3, <3>1 DEF R, StrictSubsetOrdering
    <3> QED  BY <2>2, <3>1, <3>2
  <2> QED  BY <2>2, <2>3
<1> QED  BY <1>2

-----------------------------------------------------------------------------
(* The recursion behind SumFunctionOnSet *)

Picked(S) == CHOOSE x \in S : TRUE

Table(f, S, it) ==
  it = [T \in SUBSET S |->
          IF T = {} THEN 0 ELSE f[Picked(T)] + it[T \ {Picked(T)}]]

LEMMA SumIsTable ==
  ASSUME NEW f, NEW S
  PROVE  SumFunctionOnSet(f, S) = (CHOOSE it : Table(f, S, it))[S]
BY Zenon DEF SumFunctionOnSet, FoldFunctionOnSet, MapThenFoldSet, Table, Picked

LEMMA TableUnique ==
  ASSUME NEW f, NEW S, IsFiniteSet(S), NEW a, NEW b, Table(f, S, a), Table(f, S, b)
  PROVE  a[S] = b[S]
<1> DEFINE Good == {T \in SUBSET S : a[T] = b[T]}
<1>1. ASSUME NEW T \in SUBSET S, \A U \in SUBSET T : U # T => U \in Good
      PROVE  T \in Good
  <2>1. CASE T = {}
    BY <2>1 DEF Table
  <2>2. CASE T # {}
    <3>1. Picked(T) \in T
      BY <2>2 DEF Picked
    <3>2. T \ {Picked(T)} \in Good
      BY <1>1, <3>1
    <3>3. /\ a[T] = f[Picked(T)] + a[T \ {Picked(T)}]
          /\ b[T] = f[Picked(T)] + b[T \ {Picked(T)}]
      BY <2>2 DEF Table
    <3> QED  BY <3>2, <3>3
  <2> QED  BY <2>1, <2>2
<1>2. S \in Good
  <2> HIDE DEF Good
  <2> QED  BY <1>1, FiniteSetInduction
<1> QED  BY <1>2

SumEquation(f, S) ==
  SumFunctionOnSet(f, S) =
    IF S = {} THEN 0 ELSE f[Picked(S)] + SumFunctionOnSet(f, S \ {Picked(S)})

(* The sum satisfies the equation it is defined by.                        *)
LEMMA SumRecursion ==
  ASSUME NEW f, NEW S, IsFiniteSet(S)
  PROVE  SumEquation(f, S)
<1> DEFINE Good == {T \in SUBSET S : SumEquation(f, T)}
<1>1. ASSUME NEW T \in SUBSET S, \A U \in SUBSET T : U # T => U \in Good
      PROVE  T \in Good
  <2> DEFINE whole == IF T = {} THEN 0
                      ELSE f[Picked(T)] + SumFunctionOnSet(f, T \ {Picked(T)})
             it == [U \in SUBSET T |-> IF U = T THEN whole ELSE SumFunctionOnSet(f, U)]
  <2>1. \A U \in SUBSET T : U # {} => Picked(U) \in U
    BY DEF Picked
  <2>2. ASSUME NEW U \in SUBSET T
        PROVE  it[U] = IF U = {} THEN 0 ELSE f[Picked(U)] + it[U \ {Picked(U)}]
    <3>1. CASE U = {}
      BY <1>1, <2>2, <3>1 DEF SumEquation
    <3>2. CASE U # {}
      <4>1. U \ {Picked(U)} \in SUBSET T /\ U \ {Picked(U)} # T
        BY <2>1, <2>2, <3>2
      <4>2. it[U \ {Picked(U)}] = SumFunctionOnSet(f, U \ {Picked(U)})
        BY <4>1
      <4>3. it[U] = f[Picked(U)] + SumFunctionOnSet(f, U \ {Picked(U)})
        BY <1>1, <2>2, <3>2 DEF SumEquation
      <4> QED  BY <3>2, <4>2, <4>3
    <3> QED  BY <3>1, <3>2
  <2>3. Table(f, T, it)
    <3> HIDE DEF whole
    <3> QED  BY <2>2 DEF Table
  <2>4. it[T] = whole
    OBVIOUS
  <2> HIDE DEF it, whole
  <2>5. Table(f, T, CHOOSE i : Table(f, T, i))
    BY <2>3
  <2>6. IsFiniteSet(T)
    BY FS_Subset
  <2>7. SumFunctionOnSet(f, T) = it[T]
    BY <2>3, <2>5, <2>6, TableUnique, SumIsTable
  <2> QED  BY <2>4, <2>7 DEF SumEquation, whole
<1>2. S \in Good
  <2> HIDE DEF Good
  <2> QED  BY <1>1, FiniteSetInduction
<1> QED  BY <1>2

-----------------------------------------------------------------------------
(* What sums are *)

LEMMA SumEmpty ==
  ASSUME NEW f
  PROVE  SumFunctionOnSet(f, {}) = 0
BY SumRecursion, FS_EmptySet DEF SumEquation

LEMMA SumInt ==
  ASSUME NEW f, NEW S, IsFiniteSet(S), \A x \in S : f[x] \in Int
  PROVE  SumFunctionOnSet(f, S) \in Int
<1> DEFINE Good == {T \in SUBSET S : SumFunctionOnSet(f, T) \in Int}
<1>1. ASSUME NEW T \in SUBSET S, \A U \in SUBSET T : U # T => U \in Good
      PROVE  T \in Good
  <2>1. IsFiniteSet(T)
    BY FS_Subset
  <2>2. T # {} => Picked(T) \in T /\ T \ {Picked(T)} \in Good
    BY <1>1 DEF Picked
  <2> QED  BY <2>1, <2>2, SumRecursion DEF SumEquation
<1>2. S \in Good
  <2> HIDE DEF Good
  <2> QED  BY <1>1, FiniteSetInduction
<1> QED  BY <1>2

(* Any element may be the first.                                           *)
LEMMA SumWithout ==
  ASSUME NEW f, NEW S, IsFiniteSet(S), \A x \in S : f[x] \in Int, NEW x \in S
  PROVE  SumFunctionOnSet(f, S) = f[x] + SumFunctionOnSet(f, S \ {x})
<1> DEFINE Good == {T \in SUBSET S : \A y \in T :
                      SumFunctionOnSet(f, T) = f[y] + SumFunctionOnSet(f, T \ {y})}
<1>1. ASSUME NEW T \in SUBSET S, \A U \in SUBSET T : U # T => U \in Good
      PROVE  T \in Good
  <2> SUFFICES ASSUME NEW y \in T
               PROVE  SumFunctionOnSet(f, T) = f[y] + SumFunctionOnSet(f, T \ {y})
    OBVIOUS
  <2> DEFINE p == Picked(T)
  <2>1. IsFiniteSet(T) /\ p \in T
    BY FS_Subset DEF Picked
  <2> HIDE DEF p
  <2>2. SumFunctionOnSet(f, T) = f[p] + SumFunctionOnSet(f, T \ {p})
    BY <2>1, SumRecursion DEF SumEquation, p
  <2>3. CASE p # y
    <3>1. /\ y \in T \ {p} /\ T \ {p} \in Good
          /\ p \in T \ {y} /\ T \ {y} \in Good
      BY <1>1, <2>1, <2>3
    <3>2. /\ SumFunctionOnSet(f, T \ {p}) = f[y] + SumFunctionOnSet(f, (T \ {p}) \ {y})
          /\ SumFunctionOnSet(f, T \ {y}) = f[p] + SumFunctionOnSet(f, (T \ {y}) \ {p})
      BY <3>1
    <3>3. (T \ {p}) \ {y} = (T \ {y}) \ {p}
      OBVIOUS
    <3>4. SumFunctionOnSet(f, (T \ {p}) \ {y}) \in Int
      <4>1. (T \ {p}) \ {y} \in SUBSET S
        OBVIOUS
      <4>2. IsFiniteSet((T \ {p}) \ {y})
        BY <4>1, FS_Subset
      <4> QED  BY <4>1, <4>2, SumInt
    <3>5. f[p] \in Int /\ f[y] \in Int
      BY <2>1
    <3> DEFINE others == SumFunctionOnSet(f, (T \ {p}) \ {y})
               a == SumFunctionOnSet(f, T \ {p})
               b == SumFunctionOnSet(f, T \ {y})
               all == SumFunctionOnSet(f, T)
    <3>6. others \in Int /\ a = f[y] + others /\ b = f[p] + others /\ all = f[p] + a
      BY <2>2, <3>2, <3>3, <3>4
    <3> HIDE DEF others, a, b, all
    <3>7. all = f[y] + b
      BY <3>5, <3>6
    <3> QED  BY <3>7 DEF all, b
  <2> QED  BY <2>2, <2>3
<1>2. S \in Good
  <2> HIDE DEF Good
  <2> QED  BY <1>1, FiniteSetInduction
<1> QED  BY <1>2

LEMMA SumWith ==
  ASSUME NEW f, NEW S, IsFiniteSet(S), \A y \in S : f[y] \in Int,
         NEW x, x \notin S, f[x] \in Int
  PROVE  SumFunctionOnSet(f, S \union {x}) = SumFunctionOnSet(f, S) + f[x]
<1>1. IsFiniteSet(S \union {x}) /\ (S \union {x}) \ {x} = S
  BY FS_AddElement
<1>2. SumFunctionOnSet(f, S \union {x}) = f[x] + SumFunctionOnSet(f, S)
  <2>1. \A y \in S \union {x} : f[y] \in Int
    OBVIOUS
  <2>2. x \in S \union {x}
    OBVIOUS
  <2> QED  BY <1>1, <2>1, <2>2, SumWithout
<1>3. SumFunctionOnSet(f, S) \in Int
  BY SumInt
<1> QED  BY <1>2, <1>3

(* Only the values on the set matter.                                      *)
LEMMA SumSame ==
  ASSUME NEW f, NEW g, NEW S, IsFiniteSet(S), \A x \in S : f[x] = g[x]
  PROVE  SumFunctionOnSet(f, S) = SumFunctionOnSet(g, S)
<1> DEFINE Good == {T \in SUBSET S : SumFunctionOnSet(f, T) = SumFunctionOnSet(g, T)}
<1>1. ASSUME NEW T \in SUBSET S, \A U \in SUBSET T : U # T => U \in Good
      PROVE  T \in Good
  <2>1. IsFiniteSet(T)
    BY FS_Subset
  <2>2. SumEquation(f, T) /\ SumEquation(g, T)
    BY <2>1, SumRecursion
  <2>3. CASE T = {}
    BY <2>2, <2>3 DEF SumEquation
  <2>4. CASE T # {}
    <3>1. Picked(T) \in T
      BY <2>4 DEF Picked
    <3>2. T \ {Picked(T)} \in Good
      BY <1>1, <3>1
    <3> QED  BY <2>2, <2>4, <3>1, <3>2 DEF SumEquation
  <2> QED  BY <2>3, <2>4
<1>2. S \in Good
  <2> HIDE DEF Good
  <2> QED  BY <1>1, FiniteSetInduction
<1> QED  BY <1>2

(* A summand more, for a function that is defined on more.                 *)
LEMMA SumGrows ==
  ASSUME NEW f, NEW g, NEW S, IsFiniteSet(S), \A y \in S : f[y] \in Int /\ g[y] = f[y],
         NEW x, x \notin S, g[x] \in Int
  PROVE  SumFunctionOnSet(g, S \union {x}) = SumFunctionOnSet(f, S) + g[x]
<1>1. SumFunctionOnSet(g, S) = SumFunctionOnSet(f, S)
  BY SumSame
<1>2. \A y \in S : g[y] \in Int
  OBVIOUS
<1>3. SumFunctionOnSet(g, S \union {x}) = SumFunctionOnSet(g, S) + g[x]
  BY <1>2, SumWith
<1> QED  BY <1>1, <1>3

LEMMA SumNat ==
  ASSUME NEW f, NEW S, IsFiniteSet(S), \A x \in S : f[x] \in Nat
  PROVE  SumFunctionOnSet(f, S) \in Nat
<1> DEFINE Good == {T \in SUBSET S : SumFunctionOnSet(f, T) \in Nat}
<1>1. ASSUME NEW T \in SUBSET S, \A U \in SUBSET T : U # T => U \in Good
      PROVE  T \in Good
  <2>1. IsFiniteSet(T)
    BY FS_Subset
  <2>2. T # {} => Picked(T) \in T /\ T \ {Picked(T)} \in Good
    BY <1>1 DEF Picked
  <2> QED  BY <2>1, <2>2, SumRecursion DEF SumEquation
<1>2. S \in Good
  <2> HIDE DEF Good
  <2> QED  BY <1>1, FiniteSetInduction
<1> QED  BY <1>2

LEMMA SumDisjoint ==
  ASSUME NEW f, NEW S, NEW T, IsFiniteSet(S), IsFiniteSet(T), S \intersect T = {},
         \A x \in S \union T : f[x] \in Int
  PROVE  SumFunctionOnSet(f, S \union T)
           = SumFunctionOnSet(f, S) + SumFunctionOnSet(f, T)
<1> DEFINE Good == {U \in SUBSET T : SumFunctionOnSet(f, S \union U)
                                      = SumFunctionOnSet(f, S) + SumFunctionOnSet(f, U)}
<1>0. SumFunctionOnSet(f, S) \in Int
  BY SumInt
<1>1. ASSUME NEW U \in SUBSET T, \A V \in SUBSET U : V # U => V \in Good
      PROVE  U \in Good
  <2>0. IsFiniteSet(U)
    BY FS_Subset
  <2>1. CASE U = {}
    <3> DEFINE s == SumFunctionOnSet(f, S)
               su == SumFunctionOnSet(f, S \union U)
               u == SumFunctionOnSet(f, U)
    <3>1. S \union U = S
      BY <2>1
    <3>2. u = 0 /\ su = s
      BY <2>1, <3>1, SumEmpty
    <3> HIDE DEF s, su, u
    <3>3. su = s + u
      BY <1>0, <3>2 DEF s
    <3> QED  BY <3>3 DEF s, su, u
  <2>2. CASE U # {}
    <3> DEFINE p == Picked(U)
               rest == U \ {p}
               s == SumFunctionOnSet(f, S)
               su == SumFunctionOnSet(f, S \union U)
               u == SumFunctionOnSet(f, U)
               sr == SumFunctionOnSet(f, S \union rest)
               r == SumFunctionOnSet(f, rest)
    <3>1. p \in U /\ p \notin S /\ f[p] \in Int
      BY <2>2 DEF Picked
    <3>2. rest \in SUBSET T /\ IsFiniteSet(rest)
      BY <2>0, FS_RemoveElement
    <3>3. r \in Int
      BY <3>2, SumInt
    <3>4. u = f[p] + r
      BY <2>0, <3>1, SumWithout
    <3>5. su = f[p] + sr
      <4>1. (S \union U) \ {p} = S \union rest
        BY <3>1
      <4>2. IsFiniteSet(S \union U)
        BY <2>0, FS_Union
      <4>3. \A x \in S \union U : f[x] \in Int
        OBVIOUS
      <4> QED  BY <3>1, <4>1, <4>2, <4>3, SumWithout
    <3>6. sr = s + r
      BY <1>1, <3>1
    <3> HIDE DEF s, su, u, sr, r, rest
    <3>7. su = s + u
      BY <1>0, <3>1, <3>3, <3>4, <3>5, <3>6 DEF s
    <3> QED  BY <3>7 DEF s, su, u
  <2> QED  BY <2>1, <2>2
<1>2. T \in Good
  <2> HIDE DEF Good
  <2> QED  BY <1>1, FiniteSetInduction
<1> QED  BY <1>2

(* More summands, none negative, make no smaller sum.                      *)
LEMMA SumSubset ==
  ASSUME NEW f, NEW T, IsFiniteSet(T), \A x \in T : f[x] \in Nat, NEW S \in SUBSET T
  PROVE  SumFunctionOnSet(f, S) <= SumFunctionOnSet(f, T)
<1>1. IsFiniteSet(S) /\ IsFiniteSet(T \ S)
  BY FS_Subset, FS_Difference
<1>2. SumFunctionOnSet(f, S) \in Nat /\ SumFunctionOnSet(f, T \ S) \in Nat
  BY <1>1, SumNat
<1>3. SumFunctionOnSet(f, T) = SumFunctionOnSet(f, S) + SumFunctionOnSet(f, T \ S)
  <2>1. S \union (T \ S) = T /\ S \intersect (T \ S) = {}
    OBVIOUS
  <2>2. \A x \in S \union (T \ S) : f[x] \in Int
    OBVIOUS
  <2> QED  BY <1>1, <2>1, <2>2, SumDisjoint
<1> QED  BY <1>2, <1>3

(* Every summand is at most another sum over a part of T, and the parts do  *)
(* not overlap: then the sum is at most the sum over T.                    *)
LEMMA SumOfParts ==
  ASSUME NEW f, NEW S, IsFiniteSet(S), \A x \in S : f[x] \in Int,
         NEW g, NEW T, IsFiniteSet(T), \A y \in T : g[y] \in Nat,
         NEW part \in [S -> SUBSET T],
         \A x, y \in S : x # y => part[x] \intersect part[y] = {},
         \A x \in S : f[x] <= SumFunctionOnSet(g, part[x])
  PROVE  SumFunctionOnSet(f, S) <= SumFunctionOnSet(g, T)
<1> DEFINE All(U) == UNION {part[x] : x \in U}
           Good == {U \in SUBSET S : SumFunctionOnSet(f, U) <= SumFunctionOnSet(g, All(U))}
<1>0. \A U \in SUBSET T : IsFiniteSet(U) /\ SumFunctionOnSet(g, U) \in Nat
  BY FS_Subset, SumNat
<1>1. ASSUME NEW U \in SUBSET S, \A V \in SUBSET U : V # U => V \in Good
      PROVE  U \in Good
  <2>0. IsFiniteSet(U)
    BY FS_Subset
  <2>1. CASE U = {}
    <3>1. All(U) = {}
      BY <2>1
    <3> QED  BY <2>1, <3>1, SumEmpty
  <2>2. CASE U # {}
    <3> DEFINE p == Picked(U)
               rest == U \ {p}
    <3>1. p \in U /\ p \in S
      BY <2>2 DEF Picked
    <3>2. rest \in SUBSET S /\ IsFiniteSet(rest) /\ rest \in Good
      BY <1>1, <2>0, <3>1, FS_RemoveElement
    <3>3. /\ All(rest) \in SUBSET T /\ part[p] \in SUBSET T
          /\ All(U) = All(rest) \union part[p]
          /\ All(rest) \intersect part[p] = {}
      <4> HIDE DEF p
      <4> QED  BY <3>1
    <3>4. SumFunctionOnSet(f, U) = f[p] + SumFunctionOnSet(f, rest)
      BY <2>0, <3>1, SumWithout
    <3>5. SumFunctionOnSet(f, rest) \in Int /\ f[p] \in Int
      BY <3>1, <3>2, SumInt
    <3>6. SumFunctionOnSet(g, All(U))
            = SumFunctionOnSet(g, All(rest)) + SumFunctionOnSet(g, part[p])
      <4> HIDE DEF rest, p, All
      <4>1. IsFiniteSet(All(rest)) /\ IsFiniteSet(part[p])
        BY <1>0, <3>3
      <4>2. \A y \in All(rest) \union part[p] : g[y] \in Int
        BY <3>3
      <4> QED  BY <3>3, <4>1, <4>2, SumDisjoint
    <3>7. f[p] <= SumFunctionOnSet(g, part[p])
      BY <3>1
    <3>8. SumFunctionOnSet(f, rest) <= SumFunctionOnSet(g, All(rest))
      BY <3>2
    <3>9. SumFunctionOnSet(g, All(rest)) \in Nat /\ SumFunctionOnSet(g, part[p]) \in Nat
      BY <1>0, <3>3
    <3> HIDE DEF p, rest, All
    <3>10. SumFunctionOnSet(f, U) <= SumFunctionOnSet(g, All(U))
      BY <3>4, <3>5, <3>6, <3>7, <3>8, <3>9
    <3> QED  BY <3>10 DEF All
  <2> QED  BY <2>1, <2>2
<1>2. S \in Good
  <2> HIDE DEF Good
  <2> QED  BY <1>1, FiniteSetInduction
<1>3. All(S) \in SUBSET T
  OBVIOUS
<1>4. SumFunctionOnSet(g, All(S)) <= SumFunctionOnSet(g, T)
  <2> HIDE DEF All
  <2> QED  BY <1>3, SumSubset
<1>5. /\ SumFunctionOnSet(g, All(S)) \in Int /\ SumFunctionOnSet(g, T) \in Int
      /\ SumFunctionOnSet(f, S) \in Int
  BY <1>0, <1>3, SumInt
<1> QED  BY <1>2, <1>4, <1>5

(* Every summand is at most a summand of its own of another sum.           *)
LEMMA SumInto ==
  ASSUME NEW f, NEW S, IsFiniteSet(S), \A x \in S : f[x] \in Int,
         NEW g, NEW T, IsFiniteSet(T), \A y \in T : g[y] \in Nat,
         NEW h \in [S -> T], \A x, y \in S : h[x] = h[y] => x = y,
         \A x \in S : f[x] <= g[h[x]]
  PROVE  SumFunctionOnSet(f, S) <= SumFunctionOnSet(g, T)
<1> DEFINE part == [x \in S |-> {h[x]}]
<1>1. part \in [S -> SUBSET T]
  OBVIOUS
<1>2. \A x, y \in S : x # y => part[x] \intersect part[y] = {}
  OBVIOUS
<1>3. ASSUME NEW x \in S PROVE f[x] <= SumFunctionOnSet(g, part[x])
  <2>1. h[x] \in T /\ g[h[x]] \in Nat
    OBVIOUS
  <2>2. SumFunctionOnSet(g, {h[x]}) = g[h[x]] + SumFunctionOnSet(g, {h[x]} \ {h[x]})
    <3>1. IsFiniteSet({h[x]})
      BY FS_Singleton
    <3>2. \A y \in {h[x]} : g[y] \in Int
      BY <2>1
    <3>3. h[x] \in {h[x]}
      OBVIOUS
    <3> QED  BY <3>1, <3>2, <3>3, SumWithout
  <2>3. {h[x]} \ {h[x]} = {}
    OBVIOUS
  <2> QED  BY <2>1, <2>2, <2>3, SumEmpty
<1> HIDE DEF part
<1> QED  BY <1>1, <1>2, <1>3, SumOfParts
=============================================================================
