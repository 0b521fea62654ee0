----------------------------- MODULE SumTheorems -----------------------------
(***************************************************************************)
(* Sums of a function over a finite set of its arguments                   *)
(* (SumFunctionOnSet of the community modules): empty, one element more or *)
(* less, two disjoint parts, renamed arguments, term by term bounds.       *)
(*                                                                         *)
(* The library's induction theorems take an operator as a parameter and    *)
(* cannot be cited here.  Induction is therefore stated with a set of      *)
(* "good" arguments: a minimal bad one exists because the strict subsets   *)
(* of a finite set are well-founded.                                       *)
(***************************************************************************)
EXTENDS Integers, FiniteSets, Functions, FiniteSetTheorems, WellFoundedInduction, TLAPS

------------------------------------------------------------------------------
(* Induction.                                                               *)

(* A non-empty set of subsets of a finite set has a minimal member.         *)
LEMMA MinimalSubset ==
  ASSUME NEW S, IsFiniteSet(S), NEW T, T \subseteq SUBSET S, T # {}
  PROVE  \E x \in T : \A y \in T : y \subseteq x => y = x
<1> DEFINE R == StrictSubsetOrdering(S)
<1>1. IsWellFoundedOn(R, FiniteSubsetsOf(S)) /\ FiniteSubsetsOf(S) = SUBSET S
  BY FS_StrictSubsetOrderingWellFounded, FS_FiniteSubsetsOfFinite
<1>2. \E x \in T : \A y \in T : ~(<<y, x>> \in R)
  <2> HIDE DEF R
  <2> QED BY <1>1, WFMin
<1>3. \A x, y \in SUBSET S : y \subseteq x /\ y # x => <<y, x>> \in R
  BY DEF StrictSubsetOrdering
<1> HIDE DEF R
<1> QED BY <1>2, <1>3

(* Induction over the subsets of a finite set, one element at a time.       *)
LEMMA SubsetInduction ==
  ASSUME NEW S, IsFiniteSet(S), NEW Good,
         {} \in Good,
         \A t \in SUBSET S : t # {} /\ (\A x \in t : t \ {x} \in Good) => t \in Good
  PROVE  \A t \in SUBSET S : t \in Good
<1> DEFINE Bad == {t \in SUBSET S : t \notin Good}
<1> SUFFICES ASSUME Bad # {} PROVE FALSE
  OBVIOUS
<1>1. PICK t \in Bad : \A y \in Bad : y \subseteq t => y = t
  <2>1. Bad \subseteq SUBSET S
    OBVIOUS
  <2> HIDE DEF Bad
  <2> QED BY <2>1, MinimalSubset
<1>2. ASSUME NEW x \in t
      PROVE  t \ {x} \in Good
  <2>1. t \ {x} \subseteq t /\ t \ {x} # t /\ t \ {x} \in SUBSET S
    OBVIOUS
  <2> QED BY <1>1, <2>1
<1>3. t \in SUBSET S /\ t \notin Good /\ t # {}
  OBVIOUS
<1> QED BY <1>2, <1>3

(* Induction over the natural numbers, by the subsets 0..n.                 *)
LEMMA NatSetInduction ==
  ASSUME NEW Good, 0 \in Good, \A n \in Nat : n \in Good => n + 1 \in Good
  PROVE  \A n \in Nat : n \in Good
<1> SUFFICES ASSUME NEW k \in Nat, k \notin Good PROVE FALSE
  OBVIOUS
<1> DEFINE T == {0..n : n \in {m \in 0..k : m \notin Good}}
<1>1. IsFiniteSet(0..k)
  BY FS_Interval
<1>2. T \subseteq SUBSET (0..k) /\ 0..k \in T
  OBVIOUS
<1>3. PICK x \in T : \A y \in T : y \subseteq x => y = x
  <2>1. T # {}
    BY <1>2
  <2> DEFINE S == 0..k
  <2>2. IsFiniteSet(S) /\ T \subseteq SUBSET S
    BY <1>1, <1>2
  <2> HIDE DEF T, S
  <2> QED BY <2>1, <2>2, MinimalSubset
<1>4. PICK m \in 0..k : m \notin Good /\ x = 0..m
  OBVIOUS
<1>5. m # 0
  BY <1>4
<1>6. m - 1 \in Nat /\ m - 1 \in 0..k /\ (m - 1) + 1 = m
  BY <1>5
<1>7. m - 1 \notin Good
  BY <1>4, <1>6
<1>8. 0..(m - 1) \in T /\ 0..(m - 1) \subseteq 0..m
  BY <1>6, <1>7
<1>9. m \in 0..m /\ m \notin 0..(m - 1)
  BY <1>6
<1> QED BY <1>3, <1>4, <1>8, <1>9

------------------------------------------------------------------------------
(* The recursive function behind SumFunctionOnSet.                          *)

Pick(s) == CHOOSE x \in s : TRUE

Unfolds(iter, f, S) ==
  iter = [s \in SUBSET S |-> IF s = {} THEN 0 ELSE f[Pick(s)] + iter[s \ {Pick(s)}]]

(* SumFunctionOnSet is the value at S of a function that unfolds.           *)
LEMMA SumIsIterated ==
  ASSUME NEW f, NEW S
  PROVE  SumFunctionOnSet(f, S) = (CHOOSE iter : Unfolds(iter, f, S))[S]
BY DEF SumFunctionOnSet, FoldFunctionOnSet, MapThenFoldSet, Unfolds, Pick

(* A non-empty set has the element chosen from it.                          *)
LEMMA PickMember ==
  ASSUME NEW s, s # {}
  PROVE  Pick(s) \in s
BY DEF Pick

(* Such a function exists for every finite set: it is built up for the      *)
(* subsets of at most n elements, n = 0, 1, ...                             *)
LEMMA IterationExists ==
  ASSUME NEW f, NEW S, IsFiniteSet(S)
  PROVE  \E g : Unfolds(g, f, S)
<1> DEFINE D(n)     == {s \in SUBSET S : Cardinality(s) <= n}
           Eq(g, n) == g = [s \in D(n) |->
                              IF s = {} THEN 0 ELSE f[Pick(s)] + g[s \ {Pick(s)}]]
           Good     == {n \in Nat : \E g : Eq(g, n)}
<1>1. \A s \in SUBSET S : IsFiniteSet(s) /\ Cardinality(s) \in Nat
                          /\ (s = {} <=> Cardinality(s) = 0)
  BY FS_Subset, FS_CardinalityType, FS_EmptySet
<1>2. \A s \in SUBSET S : s # {} =>
        s \ {Pick(s)} \in SUBSET S /\ Cardinality(s \ {Pick(s)}) = Cardinality(s) - 1
  BY <1>1, PickMember, FS_RemoveElement
<1>3. 0 \in Good
  <2> DEFINE g == [s \in D(0) |-> 0]
  <2>1. \A s \in D(0) : s = {}
    BY <1>1
  <2>2. Eq(g, 0)
    BY <2>1
  <2> QED BY <2>2
<1>4. ASSUME NEW n \in Nat, n \in Good
      PROVE  n + 1 \in Good
  <2>1. PICK g : Eq(g, n)
    BY <1>4
  <2> DEFINE h == [s \in D(n + 1) |-> IF s = {} THEN 0 ELSE f[Pick(s)] + g[s \ {Pick(s)}]]
  <2>2. \A s \in D(n) : h[s] = g[s]
    <3> TAKE s \in D(n)
    <3>1. s \in D(n + 1)
      BY <1>1
    <3>2. g[s] = IF s = {} THEN 0 ELSE f[Pick(s)] + g[s \ {Pick(s)}]
      BY <2>1
    <3> QED BY <3>1, <3>2
  <2>3. \A s \in D(n + 1) : s # {} => s \ {Pick(s)} \in D(n)
    BY <1>1, <1>2
  <2>4. \A s \in D(n + 1) : h[s] = IF s = {} THEN 0 ELSE f[Pick(s)] + h[s \ {Pick(s)}]
    <3> TAKE s \in D(n + 1)
    <3>1. CASE s = {}
      BY <3>1
    <3>2. CASE s # {}
      BY <3>2, <2>2, <2>3
    <3> QED BY <3>1, <3>2
  <2>5. h = [s \in D(n + 1) |-> h[s]]
    OBVIOUS
  <2> HIDE DEF h
  <2>6. Eq(h, n + 1)
    BY <2>4, <2>5
  <2>7. n + 1 \in Nat
    OBVIOUS
  <2> HIDE DEF Eq
  <2> QED BY <2>6, <2>7
<1>5. \A n \in Nat : n \in Good
  <2> HIDE DEF Good
  <2> QED BY <1>3, <1>4, NatSetInduction
<1>6. Cardinality(S) \in Nat /\ D(Cardinality(S)) = SUBSET S
  BY FS_CardinalityType, FS_Subset
<1>7. PICK g : Eq(g, Cardinality(S))
  BY <1>5, <1>6
<1>8. Unfolds(g, f, S)
  BY <1>6, <1>7 DEF Unfolds
<1> QED BY <1>8

(* What it computes: integers, the same whatever the set it is defined on,  *)
(* and with any element taken out first.                                    *)
LEMMA IterationValue ==
  ASSUME NEW f, NEW S, IsFiniteSet(S), \A x \in S : f[x] \in Int,
         NEW g, Unfolds(g, f, S)
  PROVE  /\ g[{}] = 0
         /\ \A t \in SUBSET S : g[t] \in Int
         /\ \A t \in SUBSET S : \A x \in t : g[t] = f[x] + g[t \ {x}]
<1>1. g[{}] = 0
  BY DEF Unfolds
<1>2. \A t \in SUBSET S : t # {} =>
        Pick(t) \in t /\ g[t] = f[Pick(t)] + g[t \ {Pick(t)}]
  BY PickMember DEF Unfolds
<1>3. \A t \in SUBSET S : g[t] \in Int
  <2> DEFINE Good == {t \in SUBSET S : g[t] \in Int}
  <2>1. {} \in Good
    BY <1>1
  <2>2. ASSUME NEW t \in SUBSET S, t # {}, \A x \in t : t \ {x} \in Good
        PROVE  t \in Good
    <3>1. PICK c \in t : g[t] = f[c] + g[t \ {c}]
      BY <2>2, <1>2
    <3>2. f[c] \in Int /\ g[t \ {c}] \in Int
      BY <2>2
    <3> QED BY <3>1, <3>2
  <2>3. \A t \in SUBSET S : t \in Good
    <3> HIDE DEF Good
    <3> QED BY <2>1, <2>2, SubsetInduction
  <2> QED BY <2>3
<1>4. \A t \in SUBSET S : \A x \in t : g[t] = f[x] + g[t \ {x}]
  <2> DEFINE Good == {t \in SUBSET S : \A x \in t : g[t] = f[x] + g[t \ {x}]}
  <2>1. {} \in Good
    OBVIOUS
  <2>2. ASSUME NEW t \in SUBSET S, t # {}, \A x \in t : t \ {x} \in Good
        PROVE  t \in Good
    <3> SUFFICES ASSUME NEW x \in t PROVE g[t] = f[x] + g[t \ {x}]
      OBVIOUS
    <3>1. PICK c \in t : g[t] = f[c] + g[t \ {c}]
      BY <2>2, <1>2
    <3>2. CASE x = c
      BY <3>1, <3>2
    <3>3. CASE x # c
      <4>1. x \in t \ {c} /\ c \in t \ {x}
        BY <3>3
      <4>2. g[t \ {c}] = f[x] + g[(t \ {c}) \ {x}] /\ g[t \ {x}] = f[c] + g[(t \ {x}) \ {c}]
        BY <2>2, <4>1
      <4>3. (t \ {c}) \ {x} = (t \ {x}) \ {c}
        OBVIOUS
      <4>4. PICK k \in Int : k = g[(t \ {x}) \ {c}]
        BY <1>3
      <4>5. f[x] \in Int /\ f[c] \in Int
        OBVIOUS
      <4>6. g[t] = f[c] + (f[x] + k) /\ g[t \ {x}] = f[c] + k
        BY <3>1, <4>2, <4>3, <4>4
      <4> QED BY <4>4, <4>5, <4>6
    <3> QED BY <3>2, <3>3
  <2>3. \A t \in SUBSET S : t \in Good
    <3> HIDE DEF Good
    <3> QED BY <2>1, <2>2, SubsetInduction
  <2> QED BY <2>3
<1> QED BY <1>1, <1>3, <1>4

(* Two such functions agree where both are defined.                         *)
LEMMA IterationUnique ==
  ASSUME NEW f, NEW S, IsFiniteSet(S), NEW T \in SUBSET S,
         NEW g, Unfolds(g, f, S), NEW h, Unfolds(h, f, T)
  PROVE  h[T] = g[T]
<1> DEFINE Good == {t \in SUBSET T : h[t] = g[t]}
<1>1. {} \in Good
  BY DEF Unfolds
<1>2. ASSUME NEW t \in SUBSET T, t # {}, \A x \in t : t \ {x} \in Good
      PROVE  t \in Good
  BY <1>2, PickMember DEF Unfolds
<1>3. IsFiniteSet(T)
  BY FS_Subset
<1>4. \A t \in SUBSET T : t \in Good
  <2> HIDE DEF Good
  <2> QED BY <1>1, <1>2, <1>3, SubsetInduction
<1> QED BY <1>4

(* SumFunctionOnSet, for every subset, from one function.                   *)
LEMMA SumFromIteration ==
  ASSUME NEW f, NEW S, IsFiniteSet(S), NEW g, Unfolds(g, f, S)
  PROVE  \A t \in SUBSET S : SumFunctionOnSet(f, t) = g[t]
<1> SUFFICES ASSUME NEW t \in SUBSET S PROVE SumFunctionOnSet(f, t) = g[t]
  OBVIOUS
<1> DEFINE h == CHOOSE iter : Unfolds(iter, f, t)
<1>1. IsFiniteSet(t)
  BY FS_Subset
<1>2. Unfolds(h, f, t)
  BY <1>1, IterationExists
<1>3. SumFunctionOnSet(f, t) = h[t]
  BY SumIsIterated
<1> HIDE DEF h
<1>4. h[t] = g[t]
  BY <1>2, IterationUnique
<1> QED BY <1>3, <1>4

------------------------------------------------------------------------------
(* The facts to cite.                                                       *)

(* The empty sum.                                                           *)
LEMMA SumEmpty ==
  ASSUME NEW f
  PROVE  SumFunctionOnSet(f, {}) = 0
<1>1. IsFiniteSet({})
  BY FS_EmptySet
<1>2. PICK g : Unfolds(g, f, {})
  BY <1>1, IterationExists
<1>3. SumFunctionOnSet(f, {}) = g[{}]
  BY <1>1, <1>2, SumFromIteration
<1>4. g[{}] = 0
  BY <1>2 DEF Unfolds
<1> QED BY <1>3, <1>4

(* A sum of integers is one.                                                *)
LEMMA SumInt ==
  ASSUME NEW f, NEW S, IsFiniteSet(S), \A x \in S : f[x] \in Int
  PROVE  SumFunctionOnSet(f, S) \in Int
<1>1. PICK g : Unfolds(g, f, S)
  BY IterationExists
<1> QED BY <1>1, IterationValue, SumFromIteration

(* Any element may be taken out first.                                      *)
LEMMA SumRemove ==
  ASSUME NEW f, NEW S, IsFiniteSet(S), \A x \in S : f[x] \in Int, NEW x \in S
  PROVE  SumFunctionOnSet(f, S) = f[x] + SumFunctionOnSet(f, S \ {x})
<1>1. PICK g : Unfolds(g, f, S)
  BY IterationExists
<1>2. SumFunctionOnSet(f, S) = g[S] /\ SumFunctionOnSet(f, S \ {x}) = g[S \ {x}]
  BY <1>1, SumFromIteration
<1>3. g[S] = f[x] + g[S \ {x}]
  BY <1>1, IterationValue
<1> QED BY <1>2, <1>3

(* Two functions that agree on the set have the same sum.                   *)
LEMMA SumAgree ==
  ASSUME NEW f, NEW h, NEW S, IsFiniteSet(S), \A x \in S : f[x] \in Int /\ f[x] = h[x]
  PROVE  SumFunctionOnSet(f, S) = SumFunctionOnSet(h, S)
<1> DEFINE Good == {t \in SUBSET S : SumFunctionOnSet(f, t) = SumFunctionOnSet(h, t)}
<1>1. {} \in Good
  BY SumEmpty
<1>2. ASSUME NEW t \in SUBSET S, t # {}, \A x \in t : t \ {x} \in Good
      PROVE  t \in Good
  <2>1. IsFiniteSet(t)
    BY FS_Subset
  <2>2. PICK x \in t : TRUE
    BY <1>2
  <2>3. /\ SumFunctionOnSet(f, t) = f[x] + SumFunctionOnSet(f, t \ {x})
        /\ SumFunctionOnSet(h, t) = h[x] + SumFunctionOnSet(h, t \ {x})
    BY <2>1, SumRemove
  <2> QED BY <1>2, <2>3
<1>3. \A t \in SUBSET S : t \in Good
  <2> HIDE DEF Good
  <2> QED BY <1>1, <1>2, SubsetInduction
<1> QED BY <1>3

(* A bound on every term of the first sum by the second's and a constant.   *)
LEMMA SumBound ==
  ASSUME NEW f, NEW h, NEW S, IsFiniteSet(S), NEW c \in Int,
         \A x \in S : f[x] \in Int /\ h[x] \in Int /\ f[x] <= h[x] + c
  PROVE  SumFunctionOnSet(f, S) <= SumFunctionOnSet(h, S) + c * Cardinality(S)
<1> DEFINE Good == {t \in SUBSET S :
              SumFunctionOnSet(f, t) <= SumFunctionOnSet(h, t) + c * Cardinality(t)}
<1>1. {} \in Good
  BY SumEmpty, FS_EmptySet
<1>2. ASSUME NEW t \in SUBSET S, t # {}, \A x \in t : t \ {x} \in Good
      PROVE  t \in Good
  <2>1. IsFiniteSet(t)
    BY FS_Subset
  <2>2. PICK x \in t : TRUE
    BY <1>2
  <2>3. /\ SumFunctionOnSet(f, t) = f[x] + SumFunctionOnSet(f, t \ {x})
        /\ SumFunctionOnSet(h, t) = h[x] + SumFunctionOnSet(h, t \ {x})
    BY <2>1, SumRemove
  <2>4. PICK n \in Nat : n = Cardinality(t \ {x}) /\ Cardinality(t) = n + 1
    <3>1. IsFiniteSet(t \ {x}) /\ Cardinality(t \ {x}) = Cardinality(t) - 1
      BY <2>1, FS_RemoveElement
    <3>2. Cardinality(t) \in Nat /\ Cardinality(t \ {x}) \in Nat
      BY <2>1, <3>1, FS_CardinalityType
    <3> QED BY <3>1, <3>2
  <2>5. PICK a \in Int, b \in Int :
          a = SumFunctionOnSet(f, t \ {x}) /\ b = SumFunctionOnSet(h, t \ {x})
    <3>1. IsFiniteSet(t \ {x})
      BY <2>1, FS_RemoveElement
    <3> QED BY <3>1, SumInt
  <2>6. a <= b + c * n
    BY <1>2, <2>4, <2>5
  <2>7. PICK p \in Int : p = c * n /\ c * (n + 1) = p + c
    OBVIOUS
  <2>8. f[x] \in Int /\ h[x] \in Int /\ f[x] <= h[x] + c
    OBVIOUS
  <2>9. f[x] + a <= h[x] + b + (p + c)
    BY <2>6, <2>7, <2>8
  <2> QED BY <2>3, <2>4, <2>5, <2>7, <2>9
<1>3. \A t \in SUBSET S : t \in Good
  <2> HIDE DEF Good
  <2> QED BY <1>1, <1>2, SubsetInduction
<1> QED BY <1>3

(* A sum of natural numbers is one.                                         *)
LEMMA SumNat ==
  ASSUME NEW f, NEW S, IsFiniteSet(S), \A x \in S : f[x] \in Nat
  PROVE  SumFunctionOnSet(f, S) \in Nat
<1> DEFINE Good == {t \in SUBSET S : SumFunctionOnSet(f, t) \in Nat}
<1>1. {} \in Good
  BY SumEmpty
<1>2. ASSUME NEW t \in SUBSET S, t # {}, \A x \in t : t \ {x} \in Good
      PROVE  t \in Good
  <2>1. IsFiniteSet(t)
    BY FS_Subset
  <2>2. PICK x \in t : TRUE
    BY <1>2
  <2>3. SumFunctionOnSet(f, t) = f[x] + SumFunctionOnSet(f, t \ {x})
    BY <2>1, SumRemove
  <2> QED BY <1>2, <2>3
<1>3. \A t \in SUBSET S : t \in Good
  <2> HIDE DEF Good
  <2> QED BY <1>1, <1>2, SubsetInduction
<1> QED BY <1>3

(* Nothing adds up to nothing.                                              *)
LEMMA SumZero ==
  ASSUME NEW f, NEW S, IsFiniteSet(S), \A x \in S : f[x] = 0
  PROVE  SumFunctionOnSet(f, S) = 0
<1> DEFINE Good == {t \in SUBSET S : SumFunctionOnSet(f, t) = 0}
<1>1. {} \in Good
  BY SumEmpty
<1>2. ASSUME NEW t \in SUBSET S, t # {}, \A x \in t : t \ {x} \in Good
      PROVE  t \in Good
  <2>1. IsFiniteSet(t)
    BY FS_Subset
  <2>2. PICK x \in t : TRUE
    BY <1>2
  <2>3. SumFunctionOnSet(f, t) = f[x] + SumFunctionOnSet(f, t \ {x})
    BY <2>1, SumRemove
  <2>4. SumFunctionOnSet(f, t \ {x}) = 0 /\ f[x] = 0
    BY <1>2
  <2> QED BY <2>3, <2>4
<1>3. \A t \in SUBSET S : t \in Good
  <2> HIDE DEF Good
  <2> QED BY <1>1, <1>2, SubsetInduction
<1> QED BY <1>3

(* Two disjoint parts add up.                                               *)
LEMMA SumUnion ==
  ASSUME NEW f, NEW S, NEW T, IsFiniteSet(S), IsFiniteSet(T), S \cap T = {},
         \A x \in S \cup T : f[x] \in Int
  PROVE  SumFunctionOnSet(f, S \cup T) = SumFunctionOnSet(f, S) + SumFunctionOnSet(f, T)
<1> DEFINE Good == {t \in SUBSET T :
              SumFunctionOnSet(f, S \cup t) = SumFunctionOnSet(f, S) + SumFunctionOnSet(f, t)}
<1>1. {} \in Good
  <2>1. S \cup {} = S /\ SumFunctionOnSet(f, S) \in Int
    BY SumInt
  <2> QED BY <2>1, SumEmpty
<1>2. ASSUME NEW t \in SUBSET T, t # {}, \A x \in t : t \ {x} \in Good
      PROVE  t \in Good
  <2>1. IsFiniteSet(t) /\ IsFiniteSet(S \cup t)
    BY FS_Subset, FS_Union
  <2>2. PICK x \in t : TRUE
    BY <1>2
  <2>3. SumFunctionOnSet(f, t) = f[x] + SumFunctionOnSet(f, t \ {x})
    BY <2>1, SumRemove
  <2>4. SumFunctionOnSet(f, S \cup t) = f[x] + SumFunctionOnSet(f, (S \cup t) \ {x})
    BY <2>1, SumRemove
  <2>5. (S \cup t) \ {x} = S \cup (t \ {x})
    OBVIOUS
  <2>6. SumFunctionOnSet(f, S \cup (t \ {x}))
          = SumFunctionOnSet(f, S) + SumFunctionOnSet(f, t \ {x})
    BY <1>2
  <2>7. PICK a \in Int, b \in Int :
          a = SumFunctionOnSet(f, S) /\ b = SumFunctionOnSet(f, t \ {x})
    <3>1. IsFiniteSet(t \ {x})
      BY <2>1, FS_RemoveElement
    <3> QED BY <3>1, SumInt
  <2>8. f[x] \in Int /\ f[x] + (a + b) = a + (f[x] + b)
    OBVIOUS
  <2> QED BY <2>3, <2>4, <2>5, <2>6, <2>7, <2>8
<1>3. \A t \in SUBSET T : t \in Good
  <2> HIDE DEF Good
  <2> QED BY <1>1, <1>2, SubsetInduction
<1> QED BY <1>3

(* Renaming the arguments by an injective function changes nothing.         *)
LEMMA SumRename ==
  ASSUME NEW f, NEW h, NEW S, NEW T, NEW r, IsFiniteSet(S), \A x \in S : f[x] \in Int,
         \A x \in S : r[x] \in T /\ h[r[x]] = f[x],
         \A y \in T : \E x \in S : r[x] = y,
         \A x, y \in S : r[x] = r[y] => x = y
  PROVE  IsFiniteSet(T) /\ SumFunctionOnSet(f, S) = SumFunctionOnSet(h, T)
<1> DEFINE Image(t) == {r[x] : x \in t}
           Good == {t \in SUBSET S :
                      SumFunctionOnSet(f, t) = SumFunctionOnSet(h, Image(t))}
<1>1. {} \in Good
  <2>1. Image({}) = {}
    OBVIOUS
  <2> QED BY <2>1, SumEmpty
<1>2. ASSUME NEW t \in SUBSET S, t # {}, \A x \in t : t \ {x} \in Good
      PROVE  t \in Good
  <2>1. IsFiniteSet(t)
    BY FS_Subset
  <2>2. PICK x \in t : TRUE
    BY <1>2
  <2>3. SumFunctionOnSet(f, t) = f[x] + SumFunctionOnSet(f, t \ {x})
    BY <2>1, SumRemove
  <2>4. Image(t) \ {r[x]} = Image(t \ {x}) /\ r[x] \in Image(t)
    <3>1. \A y \in t : y # x => r[y] # r[x]
      OBVIOUS
    <3>2. Image(t) \ {r[x]} \subseteq Image(t \ {x})
      OBVIOUS
    <3>3. Image(t \ {x}) \subseteq Image(t) \ {r[x]}
      BY <3>1
    <3> QED BY <3>2, <3>3
  <2>5. IsFiniteSet(Image(t))
    <3>1. [y \in t |-> r[y]] \in Surjection(t, Image(t))
      BY DEF Surjection
    <3> QED BY <2>1, <3>1, FS_Surjection
  <2>6. \A y \in Image(t) : h[y] \in Int
    OBVIOUS
  <2> HIDE DEF Image
  <2>7. SumFunctionOnSet(h, Image(t)) = h[r[x]] + SumFunctionOnSet(h, Image(t) \ {r[x]})
    BY <2>4, <2>5, <2>6, SumRemove
  <2> QED BY <1>2, <2>3, <2>4, <2>7
<1>3. \A t \in SUBSET S : t \in Good
  <2> HIDE DEF Good
  <2> QED BY <1>1, <1>2, SubsetInduction
<1>4. T = Image(S)
  OBVIOUS
<1>5. IsFiniteSet(T)
  <2>1. [y \in S |-> r[y]] \in Surjection(S, T)
    BY DEF Surjection
  <2> QED BY <2>1, FS_Surjection
<1> HIDE DEF Image
<1> QED BY <1>3, <1>4, <1>5

(* A sequence's sum grows by its last element.                              *)
LEMMA SumPrefix ==
  ASSUME NEW f, NEW m \in Nat, \A i \in 1..(m + 1) : f[i] \in Int
  PROVE  SumFunctionOnSet(f, 1..(m + 1)) = f[m + 1] + SumFunctionOnSet(f, 1..m)
<1>1. PICK T : T = 1..(m + 1)
  OBVIOUS
<1>2. IsFiniteSet(T)
  BY <1>1, FS_Interval
<1>3. m + 1 \in T /\ \A i \in T : f[i] \in Int
  BY <1>1
<1>4. T \ {m + 1} \subseteq 1..m
  BY <1>1
<1>5. 1..m \subseteq T \ {m + 1}
  BY <1>1
<1>6. T \ {m + 1} = 1..m
  BY <1>4, <1>5
<1>7. SumFunctionOnSet(f, T) = f[m + 1] + SumFunctionOnSet(f, T \ {m + 1})
  BY <1>2, <1>3, SumRemove
<1> QED BY <1>1, <1>6, <1>7

(* Intervals one after the other: together they are no longer than from the *)
(* beginning of the first to the end of the last.                           *)
LEMMA SumTelescopes ==
  ASSUME NEW n \in Nat, NEW b \in [1..n -> Nat], NEW e \in [1..n -> Nat], NEW f,
         \A i \in 1..n : f[i] = e[i] - b[i],
         \A i \in 1..n : i + 1 \in 1..n => e[i] <= b[i + 1],
         NEW k \in 1..n
  PROVE  SumFunctionOnSet(f, 1..k) <= e[k] - b[1]
<1> DEFINE Good == {j \in Nat : j + 1 \in 1..n =>
                      SumFunctionOnSet(f, 1..(j + 1)) <= e[j + 1] - b[1]}
<1>1. \A i \in 1..n : e[i] \in Nat /\ b[i] \in Nat /\ f[i] \in Int
  OBVIOUS
<1>2. SumFunctionOnSet(f, 1..0) = 0
  <2>1. 1..0 = {}
    OBVIOUS
  <2> QED BY <2>1, SumEmpty
<1>3. 0 \in Good
  <2> SUFFICES ASSUME 1 \in 1..n PROVE SumFunctionOnSet(f, 1..1) <= e[1] - b[1]
    OBVIOUS
  <2>1. e[1] - b[1] \in Int /\ f[1] = e[1] - b[1]
    BY <1>1
  <2>2. \A i \in 1..(0 + 1) : f[i] \in Int
    BY <1>1
  <2>3. SumFunctionOnSet(f, 1..(0 + 1)) = f[0 + 1] + SumFunctionOnSet(f, 1..0)
    BY <2>2, SumPrefix
  <2>4. 0 + 1 = 1
    OBVIOUS
  <2>5. SumFunctionOnSet(f, 1..1) = f[1] + 0
    BY <1>2, <2>3, <2>4
  <2> QED BY <2>1, <2>5
<1>4. ASSUME NEW j \in Nat, j \in Good
      PROVE  j + 1 \in Good
  <2>1. SUFFICES ASSUME j + 2 \in 1..n
                 PROVE  SumFunctionOnSet(f, 1..(j + 2)) <= e[j + 2] - b[1]
    OBVIOUS
  <2>2. PICK i \in 1..n : i = j + 1 /\ i + 1 = j + 2 /\ i + 1 \in 1..n
    BY <2>1
  <2>3. 1 \in 1..n /\ 1..i \subseteq 1..n /\ 1..(i + 1) \subseteq 1..n
    BY <2>2
  <2>4. SumFunctionOnSet(f, 1..(i + 1)) = f[i + 1] + SumFunctionOnSet(f, 1..i)
    <3>1. \A x \in 1..(i + 1) : f[x] \in Int
      BY <1>1, <2>3
    <3> QED BY <2>2, <3>1, SumPrefix
  <2>5. PICK a \in Int : a = SumFunctionOnSet(f, 1..i)
    <3>1. \A x \in 1..i : f[x] \in Int
      BY <1>1, <2>3
    <3>2. IsFiniteSet(1..i)
      BY FS_Interval
    <3> QED BY <3>1, <3>2, SumInt
  <2>6. PICK p \in Nat, q \in Nat, r \in Nat, s \in Nat :
          p = e[i] /\ q = e[i + 1] /\ r = b[i + 1] /\ s = b[1]
    BY <1>1, <2>2, <2>3
  <2>7. a <= p - s
    BY <1>4, <2>2, <2>5, <2>6
  <2>8. f[i + 1] = q - r /\ p <= r
    BY <2>2, <2>6
  <2>9. (q - r) + a <= q - s
    BY <2>7, <2>8
  <2> QED BY <2>2, <2>4, <2>5, <2>6, <2>8, <2>9
<1>5. \A j \in Nat : j \in Good
  <2> HIDE DEF Good
  <2> QED BY <1>3, <1>4, NatSetInduction
<1>6. k - 1 \in Nat /\ (k - 1) + 1 = k
  OBVIOUS
<1>7. k - 1 \in Good
  BY <1>5, <1>6
<1> QED BY <1>6, <1>7
==============================================================================
