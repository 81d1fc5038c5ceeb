----------------------------- MODULE SumTheorems -----------------------------
(***************************************************************************)
(* Facts about SumFunctionOnSet(v, S), the sum of v[x] over x \in S, for   *)
(* finite sets S.  It is a fold that takes the elements in an order of its *)
(* own choice.                                                             *)
(*                                                                         *)
(* The induction theorems of the library take the property as an operator. *)
(* Inductions here are over the set of counterexamples: a set of finite    *)
(* sets, or of numbers, that is not empty has a least element.             *)
(***************************************************************************)
EXTENDS Integers, FiniteSets, Functions, FiniteSetTheorems, WellFoundedInduction, TLAPS

(* Counterexamples have a least one.                                       *)
LEMMA LeastSubset ==
  ASSUME NEW S, IsFiniteSet(S), NEW B, B \subseteq SUBSET S, B # {}
  PROVE  \E T \in B : \A U \in B : U \subseteq T => U = T
<1>1. IsWellFoundedOn(StrictSubsetOrdering(S), SUBSET S)
  BY FS_StrictSubsetOrderingWellFounded, FS_FiniteSubsetsOfFinite
<1>2. PICK T \in B : \A U \in B : <<U, T>> \notin StrictSubsetOrdering(S)
  BY <1>1, WFMin
<1>3. ASSUME NEW U \in B, U \subseteq T, U # T PROVE FALSE
  <2>1. <<U, T>> \in (SUBSET S) \X (SUBSET S)
    OBVIOUS
  <2>2. <<U, T>> \in StrictSubsetOrdering(S)
    BY <1>3, <2>1 DEF StrictSubsetOrdering
  <2> QED
    BY <1>2, <2>2
<1> QED
  BY <1>3

LEMMA LeastNumber ==
  ASSUME NEW B, B \subseteq Nat, B # {}
  PROVE  \E n \in B : \A k \in B : n <= k
<1>1. PICK n \in B : \A k \in B : <<k, n>> \notin OpToRel(<, Nat)
  BY NatLessThanWellFounded, WFMin
<1>2. ASSUME NEW k \in B, k < n PROVE FALSE
  <2>1. <<k, n>> \in OpToRel(<, Nat)
    BY <1>2 DEF OpToRel
  <2> QED
    BY <1>1, <2>1
<1> QED
  BY <1>2

-----------------------------------------------------------------------------
(* The function by which the fold is defined.                              *)

(* The element the fold takes first. *)
First(s) == CHOOSE x \in s : TRUE

(* f[s] is the sum over s, for the sets s of D. *)
Folds(v, D, f) ==
    f = [s \in D |-> IF s = {} THEN 0 ELSE v[First(s)] + f[s \ {First(s)}]]

LEMMA SumIsFold ==
  ASSUME NEW v, NEW S
  PROVE  SumFunctionOnSet(v, S) = (CHOOSE f : Folds(v, SUBSET S, f))[S]
  BY Zenon DEF SumFunctionOnSet, FoldFunctionOnSet, MapThenFoldSet, Folds, First

LEMMA FirstIsElement == ASSUME NEW s, s # {} PROVE First(s) \in s
  BY DEF First

(* Sets of at most n elements can be folded if those of fewer can.         *)
LEMMA FoldExists ==
  ASSUME NEW v, NEW S, IsFiniteSet(S)
  PROVE  \E f : Folds(v, SUBSET S, f)
<1> DEFINE Small(n) == {s \in SUBSET S : Cardinality(s) <= n}
           B == {n \in Nat : ~ \E f : Folds(v, Small(n), f)}
<1>0. \A s \in SUBSET S : IsFiniteSet(s) /\ Cardinality(s) \in Nat
  BY FS_Subset, FS_CardinalityType
<1>1. B = {}
  <2> SUFFICES ASSUME B # {} PROVE FALSE
    OBVIOUS
  <2>1. PICK n \in B : \A k \in B : n <= k
    <3>1. B \subseteq Nat
      OBVIOUS
    <3> HIDE DEF B
    <3> QED
      BY <3>1, LeastNumber
  <2>2. n \in Nat /\ ~ \E f : Folds(v, Small(n), f)
    BY <2>1
  <2>3. CASE n = 0
    <3>1. \A s \in Small(0) : s = {}
      BY <1>0, FS_EmptySet
    <3> DEFINE f == [s \in Small(0) |-> 0]
    <3>2. \A s \in Small(0) : f[s] = IF s = {} THEN 0 ELSE v[First(s)] + f[s \ {First(s)}]
      BY <3>1
    <3>3. Folds(v, Small(0), f)
      BY <3>2, Zenon DEF Folds
    <3> QED
      BY <2>2, <2>3, <3>3
  <2>4. CASE n # 0
    <3>1. n - 1 \in Nat /\ n - 1 \notin B
      <4>1. n - 1 \in Nat /\ ~(n <= n - 1)
        BY <2>2, <2>4
      <4> HIDE DEF B
      <4> QED
        BY <2>1, <4>1
    <3>2. PICK g : Folds(v, Small(n - 1), g)
      BY <3>1
    <3> DEFINE f == [s \in Small(n) |-> IF s = {} THEN 0 ELSE v[First(s)] + g[s \ {First(s)}]]
    <3>3. \A s \in Small(n - 1) :
             /\ s \in Small(n)
             /\ g[s] = IF s = {} THEN 0 ELSE v[First(s)] + g[s \ {First(s)}]
      <4>1. \A s \in Small(n - 1) : s \in Small(n)
        BY <1>0, <2>2
      <4>2. \A s \in Small(n - 1) : g[s] = IF s = {} THEN 0 ELSE v[First(s)] + g[s \ {First(s)}]
        BY <3>2, Zenon DEF Folds
      <4> QED
        BY <4>1, <4>2
    <3>4. \A s \in Small(n - 1) : f[s] = g[s]
      BY <3>3, Zenon
    <3>5. \A s \in Small(n) : s # {} => s \ {First(s)} \in Small(n - 1)
      <4>1. ASSUME NEW s \in Small(n), s # {} PROVE s \ {First(s)} \in Small(n - 1)
        <5>1. First(s) \in s /\ IsFiniteSet(s) /\ Cardinality(s) \in Nat /\ Cardinality(s) <= n
          BY <1>0, <4>1, FirstIsElement
        <5>2. Cardinality(s \ {First(s)}) = Cardinality(s) - 1
          BY <5>1, FS_RemoveElement
        <5> QED
          BY <2>2, <5>1, <5>2
      <4> QED
        BY <4>1
    <3>6. \A s \in Small(n) : f[s] = IF s = {} THEN 0 ELSE v[First(s)] + f[s \ {First(s)}]
      <4> HIDE DEF Small
      <4> QED
        BY <3>4, <3>5, Zenon
    <3>7. Folds(v, Small(n), f)
      <4> HIDE DEF Small
      <4> QED
        BY <3>6, Zenon DEF Folds
    <3> QED
      BY <2>2, <3>7
  <2> QED
    BY <2>3, <2>4
<1>2. Small(Cardinality(S)) = SUBSET S
  <2>1. \A s \in SUBSET S : Cardinality(s) <= Cardinality(S)
    BY FS_Subset
  <2> QED
    BY <2>1
<1>3. Cardinality(S) \in Nat
  BY <1>0
<1>4. \E f : Folds(v, Small(Cardinality(S)), f)
  BY <1>1, <1>3
<1> HIDE DEF Small
<1> QED
  BY <1>2, <1>4

(* What the fold says of a set does not depend on the set it began with.   *)
LEMMA FoldsAgree ==
  ASSUME NEW v, NEW S, IsFiniteSet(S), NEW T \in SUBSET S, NEW f, NEW g,
         Folds(v, SUBSET S, f), Folds(v, SUBSET T, g)
  PROVE  f[T] = g[T]
<1> DEFINE B == {s \in SUBSET T : f[s] # g[s]}
<1> SUFFICES ASSUME B # {} PROVE FALSE
  OBVIOUS
<1>1. PICK s \in B : \A u \in B : u \subseteq s => u = s
  <2>1. IsFiniteSet(T) /\ B \subseteq SUBSET T
    BY FS_Subset
  <2> HIDE DEF B
  <2> QED
    BY <2>1, LeastSubset
<1>2. s \in SUBSET T /\ s \in SUBSET S /\ f[s] # g[s]
  BY <1>1
<1>3. f[s] = IF s = {} THEN 0 ELSE v[First(s)] + f[s \ {First(s)}]
  BY <1>2, Zenon DEF Folds
<1>4. g[s] = IF s = {} THEN 0 ELSE v[First(s)] + g[s \ {First(s)}]
  BY <1>2, Zenon DEF Folds
<1>5. s # {} /\ First(s) \in s
  BY <1>2, <1>3, <1>4, FirstIsElement
<1>6. s \ {First(s)} \in SUBSET T /\ s \ {First(s)} # s
  BY <1>2, <1>5
<1>7. f[s \ {First(s)}] = g[s \ {First(s)}]
  BY <1>1, <1>6
<1> QED
  BY <1>2, <1>3, <1>4, <1>7, Zenon

-----------------------------------------------------------------------------
(* The sum of no elements, and of some: the fold takes the first of them,  *)
(* but any will do.                                                        *)

LEMMA SumEmpty == ASSUME NEW v PROVE SumFunctionOnSet(v, {}) = 0
<1>1. PICK f : Folds(v, SUBSET {}, f)
  BY FoldExists, FS_EmptySet
<1>2. Folds(v, SUBSET {}, CHOOSE g : Folds(v, SUBSET {}, g))
  BY <1>1, Zenon
<1> DEFINE h == CHOOSE g : Folds(v, SUBSET {}, g)
<1>3. h[{}] = 0
  <2>1. Folds(v, SUBSET {}, h)
    BY <1>2
  <2> HIDE DEF h
  <2> QED
    BY <2>1 DEF Folds
<1> QED
  BY <1>3, SumIsFold

LEMMA SumFirst ==
  ASSUME NEW v, NEW S, IsFiniteSet(S), S # {}
  PROVE  SumFunctionOnSet(v, S) = v[First(S)] + SumFunctionOnSet(v, S \ {First(S)})
<1> DEFINE T == S \ {First(S)}
           f == CHOOSE h : Folds(v, SUBSET S, h)
           g == CHOOSE h : Folds(v, SUBSET T, h)
<1>1. IsFiniteSet(T) /\ T \in SUBSET S
  BY FS_Subset
<1>2. Folds(v, SUBSET S, f) /\ Folds(v, SUBSET T, g)
  <2>1. \E h : Folds(v, SUBSET S, h)
    BY FoldExists
  <2>2. \E h : Folds(v, SUBSET T, h)
    BY <1>1, FoldExists
  <2> QED
    BY <2>1, <2>2, Zenon
<1>3. SumFunctionOnSet(v, S) = f[S] /\ SumFunctionOnSet(v, T) = g[T]
  BY SumIsFold
<1> HIDE DEF f, g
<1>4. f[T] = g[T]
  BY <1>1, <1>2, FoldsAgree
<1>5. f[S] = v[First(S)] + f[T]
  BY <1>2 DEF Folds
<1> QED
  BY <1>3, <1>4, <1>5

(* Sums of numbers are numbers. *)
LEMMA SumType ==
  ASSUME NEW v, NEW S, IsFiniteSet(S), \A x \in S : v[x] \in Nat
  PROVE  SumFunctionOnSet(v, S) \in Nat
<1> DEFINE B == {s \in SUBSET S : SumFunctionOnSet(v, s) \notin Nat}
<1> SUFFICES ASSUME B # {} PROVE FALSE
  OBVIOUS
<1>1. PICK s \in B : \A u \in B : u \subseteq s => u = s
  <2>1. B \subseteq SUBSET S
    OBVIOUS
  <2> HIDE DEF B
  <2> QED
    BY <2>1, LeastSubset
<1>2. s \in SUBSET S /\ SumFunctionOnSet(v, s) \notin Nat /\ IsFiniteSet(s)
  BY <1>1, FS_Subset
<1>3. s # {}
  BY <1>2, SumEmpty
<1>4. First(s) \in s
  BY <1>3, FirstIsElement
<1>5. SumFunctionOnSet(v, s \ {First(s)}) \in Nat
  <2>1. s \ {First(s)} \in SUBSET S /\ s \ {First(s)} # s /\ s \ {First(s)} \subseteq s
    BY <1>2, <1>4
  <2> QED
    BY <1>1, <2>1
<1>6. SumFunctionOnSet(v, s) = v[First(s)] + SumFunctionOnSet(v, s \ {First(s)})
  BY <1>2, <1>3, SumFirst
<1> QED
  BY <1>2, <1>4, <1>5, <1>6

(* Any element can be taken out. *)
LEMMA SumAnyElement ==
  ASSUME NEW v, NEW S, IsFiniteSet(S), \A x \in S : v[x] \in Nat, NEW a \in S
  PROVE  SumFunctionOnSet(v, S) = v[a] + SumFunctionOnSet(v, S \ {a})
<1> DEFINE B == {s \in SUBSET S : \E x \in s :
                    SumFunctionOnSet(v, s) # v[x] + SumFunctionOnSet(v, s \ {x})}
<1> SUFFICES ASSUME B # {} PROVE FALSE
  OBVIOUS
<1>1. PICK s \in B : \A u \in B : u \subseteq s => u = s
  <2>1. B \subseteq SUBSET S
    OBVIOUS
  <2> HIDE DEF B
  <2> QED
    BY <2>1, LeastSubset
<1>2. PICK x \in s : SumFunctionOnSet(v, s) # v[x] + SumFunctionOnSet(v, s \ {x})
  BY <1>1
<1>3. s \in SUBSET S /\ IsFiniteSet(s) /\ s # {}
  BY <1>1, <1>2, FS_Subset
<1> DEFINE y == First(s)
<1>4. y \in s
  BY <1>3, FirstIsElement
<1>5. SumFunctionOnSet(v, s) = v[y] + SumFunctionOnSet(v, s \ {y})
  BY <1>3, SumFirst
<1>6. x # y
  BY <1>2, <1>5
<1> HIDE DEF y
<1>7. /\ s \ {x} \in SUBSET S /\ s \ {x} # s /\ y \in s \ {x}
      /\ s \ {y} \in SUBSET S /\ s \ {y} # s /\ x \in s \ {y}
  BY <1>3, <1>4, <1>6
<1>8. SumFunctionOnSet(v, s \ {y}) = v[x] + SumFunctionOnSet(v, (s \ {y}) \ {x})
  <2>1. s \ {y} \notin B
    BY <1>1, <1>7, Zenon
  <2> QED
    BY <1>7, <2>1
<1>9. SumFunctionOnSet(v, s \ {x}) = v[y] + SumFunctionOnSet(v, (s \ {x}) \ {y})
  <2>1. s \ {x} \notin B
    BY <1>1, <1>7, Zenon
  <2> QED
    BY <1>7, <2>1
<1>10. (s \ {y}) \ {x} = (s \ {x}) \ {y}
  OBVIOUS
<1>11. SumFunctionOnSet(v, (s \ {x}) \ {y}) \in Nat
  <2>1. IsFiniteSet((s \ {x}) \ {y}) /\ \A z \in (s \ {x}) \ {y} : v[z] \in Nat
    BY <1>3, FS_Subset
  <2> QED
    BY <2>1, SumType
<1>12. v[x] \in Nat /\ v[y] \in Nat
  BY <1>3, <1>4
<1>13. v[y] + (v[x] + SumFunctionOnSet(v, (s \ {x}) \ {y}))
          = v[x] + (v[y] + SumFunctionOnSet(v, (s \ {x}) \ {y}))
  BY <1>11, <1>12
<1> QED
  BY <1>2, <1>5, <1>8, <1>9, <1>10, <1>13, Zenon

(* No element exceeds the sum, and a part does not exceed the whole.       *)
LEMMA SumAtLeastElement ==
  ASSUME NEW v, NEW S, IsFiniteSet(S), \A x \in S : v[x] \in Nat, NEW a \in S
  PROVE  v[a] <= SumFunctionOnSet(v, S)
<1>1. IsFiniteSet(S \ {a}) /\ \A x \in S \ {a} : v[x] \in Nat
  BY FS_Subset
<1>2. SumFunctionOnSet(v, S \ {a}) \in Nat
  BY <1>1, SumType
<1> QED
  BY <1>2, SumAnyElement

LEMMA SumSingleton ==
  ASSUME NEW v, NEW a, v[a] \in Nat
  PROVE  SumFunctionOnSet(v, {a}) = v[a]
<1>1. IsFiniteSet({a}) /\ {a} \ {a} = {}
  BY FS_Singleton
<1>2. SumFunctionOnSet(v, {a}) = v[a] + SumFunctionOnSet(v, {a} \ {a})
  BY <1>1, SumAnyElement
<1> QED
  BY <1>1, <1>2, SumEmpty

LEMMA SumOfImage ==
  ASSUME NEW v, NEW w, NEW S, IsFiniteSet(S), NEW T, NEW b \in [S -> T],
         \A x \in S : v[x] \in Nat /\ w[b[x]] = v[x],
         \A x, y \in S : b[x] = b[y] => x = y
  PROVE  SumFunctionOnSet(w, {b[x] : x \in S}) = SumFunctionOnSet(v, S)
<1> DEFINE Image(s) == {b[x] : x \in s}
           B == {s \in SUBSET S : SumFunctionOnSet(w, Image(s)) # SumFunctionOnSet(v, s)}
<1> SUFFICES ASSUME B # {} PROVE FALSE
  OBVIOUS
<1>1. PICK s \in B : \A u \in B : u \subseteq s => u = s
  <2>1. B \subseteq SUBSET S
    OBVIOUS
  <2> HIDE DEF B
  <2> QED
    BY <2>1, LeastSubset
<1>2. s \in SUBSET S /\ IsFiniteSet(s) /\ SumFunctionOnSet(w, Image(s)) # SumFunctionOnSet(v, s)
  BY <1>1, FS_Subset
<1>3. CASE s = {}
  <2>1. Image(s) = {}
    BY <1>3
  <2> QED
    BY <1>2, <1>3, <2>1, SumEmpty
<1>4. CASE s # {}
  <2>1. PICK a \in s : TRUE
    BY <1>4
  <2>2. SumFunctionOnSet(w, Image(s \ {a})) = SumFunctionOnSet(v, s \ {a})
    <3>1. s \ {a} \in SUBSET S /\ s \ {a} # s /\ s \ {a} \subseteq s
      BY <1>2
    <3>2. s \ {a} \notin B
      BY <1>1, <3>1, Zenon
    <3> HIDE DEF Image
    <3> QED
      BY <3>1, <3>2
  <2>3. Image(s \ {a}) = Image(s) \ {b[a]} /\ b[a] \in Image(s)
    BY <1>2
  <2>4. IsFiniteSet(Image(s)) /\ \A z \in Image(s) : w[z] \in Nat
    <3>1. IsFiniteSet(Image(s))
      <4> DEFINE h == [x \in s |-> b[x]]
      <4>1. h \in Surjection(s, Image(s))
        BY <1>2 DEF Surjection
      <4> HIDE DEF h, Image
      <4> QED
        BY <1>2, <4>1, FS_Surjection
    <3> QED
      BY <1>2, <3>1
  <2>5. SumFunctionOnSet(w, Image(s)) = w[b[a]] + SumFunctionOnSet(w, Image(s) \ {b[a]})
    <3> HIDE DEF Image
    <3> QED
      BY <2>3, <2>4, SumAnyElement
  <2>6. SumFunctionOnSet(v, s) = v[a] + SumFunctionOnSet(v, s \ {a})
    BY <1>2, SumAnyElement
  <2>7. w[b[a]] = v[a]
    BY <1>2
  <2> HIDE DEF Image
  <2> QED
    BY <1>2, <2>2, <2>3, <2>5, <2>6, <2>7
<1> QED
  BY <1>3, <1>4

(* Sets whose elements correspond one to one have the same sum.            *)
LEMMA SumBijection ==
  ASSUME NEW v, NEW w, NEW S, IsFiniteSet(S), NEW T, NEW b \in Bijection(S, T),
         \A x \in S : v[x] \in Nat /\ w[b[x]] = v[x]
  PROVE  SumFunctionOnSet(w, T) = SumFunctionOnSet(v, S)
<1>1. b \in [S -> T] /\ \A x, y \in S : b[x] = b[y] => x = y
  BY DEF Bijection, Injection, IsInjective
<1>2. T = {b[x] : x \in S}
  BY <1>1 DEF Bijection, Surjection
<1>3. SumFunctionOnSet(w, {b[x] : x \in S}) = SumFunctionOnSet(v, S)
  BY <1>1, SumOfImage
<1> QED
  BY <1>2, <1>3

(* A sum splits along any part of its set. *)
LEMMA SumSplit ==
  ASSUME NEW v, NEW S, IsFiniteSet(S), \A x \in S : v[x] \in Nat, NEW T \in SUBSET S
  PROVE  SumFunctionOnSet(v, S) = SumFunctionOnSet(v, T) + SumFunctionOnSet(v, S \ T)
<1> DEFINE B == {t \in SUBSET T :
                    SumFunctionOnSet(v, S) # SumFunctionOnSet(v, t) + SumFunctionOnSet(v, S \ t)}
<1> SUFFICES ASSUME B # {} PROVE FALSE
  OBVIOUS
<1>1. PICK t \in B : \A u \in B : u \subseteq t => u = t
  <2>1. B \subseteq SUBSET T /\ IsFiniteSet(T)
    BY FS_Subset
  <2> HIDE DEF B
  <2> QED
    BY <2>1, LeastSubset
<1>2. /\ t \in SUBSET S
      /\ SumFunctionOnSet(v, S) # SumFunctionOnSet(v, t) + SumFunctionOnSet(v, S \ t)
  BY <1>1
<1>3. SumFunctionOnSet(v, S) \in Nat
  BY SumType
<1>4. t # {}
  <2>1. S \ {} = S
    OBVIOUS
  <2> QED
    BY <1>2, <1>3, <2>1, SumEmpty
<1>5. PICK a \in t : TRUE
  BY <1>4
<1> DEFINE u == t \ {a}
<1>6. /\ u \in SUBSET T /\ u \subseteq t /\ u # t
      /\ IsFiniteSet(t) /\ IsFiniteSet(u) /\ IsFiniteSet(S \ u) /\ IsFiniteSet(S \ t)
      /\ a \in S \ u /\ (S \ u) \ {a} = S \ t
  BY <1>1, <1>2, <1>5, FS_Subset
<1>7. SumFunctionOnSet(v, S) = SumFunctionOnSet(v, u) + SumFunctionOnSet(v, S \ u)
  <2>1. u \notin B
    BY <1>1, <1>6, Zenon
  <2> HIDE DEF u
  <2> QED
    BY <1>6, <2>1
<1>8. SumFunctionOnSet(v, t) = v[a] + SumFunctionOnSet(v, u)
  BY <1>2, <1>5, <1>6, SumAnyElement
<1> HIDE DEF u
<1>9. SumFunctionOnSet(v, S \ u) = v[a] + SumFunctionOnSet(v, S \ t)
  <2>1. \A x \in S \ u : v[x] \in Nat
    OBVIOUS
  <2>2. SumFunctionOnSet(v, S \ u) = v[a] + SumFunctionOnSet(v, (S \ u) \ {a})
    BY <1>6, <2>1, SumAnyElement
  <2> QED
    BY <1>6, <2>2
<1>10. /\ SumFunctionOnSet(v, u) \in Nat /\ SumFunctionOnSet(v, S \ t) \in Nat
       /\ v[a] \in Nat
  <2>1. \A x \in u : v[x] \in Nat
    BY <1>6
  <2>2. \A x \in S \ t : v[x] \in Nat
    OBVIOUS
  <2> QED
    BY <1>6, <2>1, <2>2, SumType
<1> QED
  BY <1>2, <1>7, <1>8, <1>9, <1>10

(* Only the values on the set count. *)
LEMMA SumExtensional ==
  ASSUME NEW v, NEW w, NEW S, IsFiniteSet(S), \A x \in S : v[x] \in Nat /\ w[x] = v[x]
  PROVE  SumFunctionOnSet(w, S) = SumFunctionOnSet(v, S)
<1> DEFINE b == [x \in S |-> x]
<1>1. /\ b \in Bijection(S, S)
      /\ \A x \in S : v[x] \in Nat /\ w[b[x]] = v[x]
  BY DEF Bijection, Injection, Surjection, IsInjective
<1> HIDE DEF b
<1> QED
  BY <1>1, SumBijection

(* The sum of a function splits along any part of its domain. *)
LEMMA SumFunctionSplit ==
  ASSUME NEW v, IsFiniteSet(DOMAIN v), \A x \in DOMAIN v : v[x] \in Nat,
         NEW T, NEW U, DOMAIN v = T \union U, T \cap U = {}
  PROVE  /\ SumFunction(v) = SumFunction([x \in T |-> v[x]]) + SumFunction([x \in U |-> v[x]])
         /\ SumFunction([x \in T |-> v[x]]) \in Nat
         /\ SumFunction([x \in U |-> v[x]]) \in Nat
<1> DEFINE S == DOMAIN v
           f == [x \in T |-> v[x]]
           g == [x \in U |-> v[x]]
<1>1. /\ T \in SUBSET S /\ U = S \ T /\ IsFiniteSet(T) /\ IsFiniteSet(U)
      /\ \A x \in T : v[x] \in Nat /\ f[x] = v[x]
      /\ \A x \in U : v[x] \in Nat /\ g[x] = v[x]
      /\ DOMAIN f = T /\ DOMAIN g = U
  BY FS_Subset
<1> HIDE DEF f, g
<1>2. SumFunctionOnSet(v, S) = SumFunctionOnSet(v, T) + SumFunctionOnSet(v, U)
  BY <1>1, SumSplit
<1>3. SumFunctionOnSet(f, T) = SumFunctionOnSet(v, T)
  BY <1>1, SumExtensional
<1>4. SumFunctionOnSet(g, U) = SumFunctionOnSet(v, U)
  BY <1>1, SumExtensional
<1>5. SumFunctionOnSet(v, T) \in Nat /\ SumFunctionOnSet(v, U) \in Nat
  BY <1>1, SumType
<1>6. /\ SumFunction(v) = SumFunctionOnSet(v, S)
      /\ SumFunction(f) = SumFunctionOnSet(f, T)
      /\ SumFunction(g) = SumFunctionOnSet(g, U)
  BY <1>1, Zenon DEF SumFunction
<1> QED
  BY <1>2, <1>3, <1>4, <1>5, <1>6 DEF f, g
=============================================================================
