--------------------------- MODULE PollCycle_proofs ---------------------------
(***************************************************************************)
(* For any connections, listeners, hosts, names and bounds: the edges of a *)
(* poll are keyed by the listening side, carry all the bytes of their      *)
(* connections, name processes that held them and labels that are honest;  *)
(* the names they get are fresh, and what the monitors heard is logged     *)
(* once.  The order is that of the cycle: the monitors, the control, the   *)
(* host, what was read, flows, owners, bytes and keys.                     *)
(***************************************************************************)
EXTENDS PollCycle, SequenceTheorems, SumTheorems

------------------------------------------------------------------------------
(* Iterations from the left, and what is kept of a sequence.                *)

(* An iteration over the numbers up to n, the largest taken off first.      *)
UnfoldsLeft(iter, base, h, n) ==
  iter = [s \in SUBSET (1..n) |->
            IF s = {} THEN base ELSE h[<<iter[s \ {Max(s)}], Max(s)>>]]

(* The largest of a non-empty set of numbers is one of them.                *)
LEMMA MaxMember ==
  ASSUME NEW n \in Nat, NEW s \in SUBSET (1..n), s # {}
  PROVE  Max(s) \in s /\ \A i \in s : i <= Max(s)
<1> DEFINE Good == {t \in SUBSET (1..n) : t = {} \/ \E m \in t : \A i \in t : m >= i}
<1>1. {} \in Good
  OBVIOUS
<1>2. ASSUME NEW t \in SUBSET (1..n), t # {}, \A x \in t : t \ {x} \in Good
      PROVE  t \in Good
  <2>1. PICK x \in t : TRUE
    BY <1>2
  <2>2. CASE t \ {x} = {}
    <3>1. \A i \in t : x >= i
      BY <2>1, <2>2
    <3> QED BY <2>1, <3>1
  <2>3. CASE t \ {x} # {}
    <3>1. PICK m \in t \ {x} : \A i \in t \ {x} : m >= i
      BY <1>2, <2>1, <2>3
    <3>2. m \in 1..n /\ x \in 1..n /\ \A i \in t : i \in 1..n
      BY <2>1, <3>1
    <3>3. CASE m >= x
      BY <3>1, <3>2, <3>3
    <3>4. CASE x >= m
      <4>1. \A i \in t : x >= i
        BY <3>1, <3>2, <3>4
      <4> QED BY <2>1, <4>1
    <3> QED BY <3>2, <3>3, <3>4
  <2> QED BY <2>2, <2>3
<1>3. \A t \in SUBSET (1..n) : t \in Good
  <2>1. IsFiniteSet(1..n)
    BY FS_Interval
  <2> HIDE DEF Good
  <2> QED BY <1>1, <1>2, <2>1, SubsetInduction
<1>4. \E m \in s : \A i \in s : m >= i
  BY <1>3
<1>5. Max(s) \in s /\ \A i \in s : Max(s) >= i
  BY <1>4 DEF Max
<1> QED BY <1>5

(* The fold over 1..k takes k last.                                         *)
LEMMA MaxInterval ==
  ASSUME NEW n \in Nat, NEW k \in 1..n
  PROVE  /\ 1..k \in SUBSET (1..n) /\ 1..(k - 1) \in SUBSET (1..n)
         /\ 1..k # {} /\ Max(1..k) = k /\ (1..k) \ {k} = 1..(k - 1)
<1>1. 1..k \in SUBSET (1..n) /\ k \in 1..k
  OBVIOUS
<1>2. Max(1..k) \in 1..k /\ k <= Max(1..k)
  BY <1>1, MaxMember
<1> QED BY <1>1, <1>2

(* A recursive function over the subsets of 1..n that takes the largest     *)
(* element first exists, and has its values where the step stays.           *)
LEMMA FoldExists ==
  ASSUME NEW n \in Nat, NEW X, NEW base \in X, NEW h,
         \A x \in X, i \in 1..n : h[<<x, i>>] \in X
  PROVE  \E g : UnfoldsLeft(g, base, h, n) /\ \A s \in SUBSET (1..n) : g[s] \in X
<1> DEFINE S         == 1..n
           D(k)      == {s \in SUBSET S : Cardinality(s) <= k}
           Eq(g, k)  == g = [s \in D(k) |->
                              IF s = {} THEN base ELSE h[<<g[s \ {Max(s)}], Max(s)>>]]
           Good      == {k \in Nat : \E g : Eq(g, k) /\ \A s \in D(k) : g[s] \in X}
<1>0. IsFiniteSet(S)
  BY FS_Interval
<1>1. \A s \in SUBSET S : IsFiniteSet(s) /\ Cardinality(s) \in Nat
                          /\ (s = {} <=> Cardinality(s) = 0)
  BY <1>0, FS_Subset, FS_CardinalityType, FS_EmptySet
<1>2. \A s \in SUBSET S : s # {} =>
        /\ Max(s) \in 1..n
        /\ s \ {Max(s)} \in SUBSET S /\ Cardinality(s \ {Max(s)}) = Cardinality(s) - 1
  BY <1>1, MaxMember, FS_RemoveElement
<1>3. 0 \in Good
  <2> DEFINE g == [s \in D(0) |-> base]
  <2>1. \A s \in D(0) : s = {}
    BY <1>1
  <2>2. Eq(g, 0)
    BY <2>1
  <2>3. \A s \in D(0) : g[s] \in X
    OBVIOUS
  <2> QED BY <2>2, <2>3
<1>4. ASSUME NEW k \in Nat, k \in Good
      PROVE  k + 1 \in Good
  <2>1. PICK g : Eq(g, k) /\ \A s \in D(k) : g[s] \in X
    BY <1>4
  <2> DEFINE f == [s \in D(k + 1) |-> IF s = {} THEN base ELSE h[<<g[s \ {Max(s)}], Max(s)>>]]
  <2>2. \A s \in D(k) : f[s] = g[s]
    <3> TAKE s \in D(k)
    <3>1. s \in D(k + 1)
      BY <1>1
    <3>2. g[s] = IF s = {} THEN base ELSE h[<<g[s \ {Max(s)}], Max(s)>>]
      BY <2>1
    <3> QED BY <3>1, <3>2
  <2>3. \A s \in D(k + 1) : s # {} => s \ {Max(s)} \in D(k)
    BY <1>1, <1>2
  <2>4. \A s \in D(k + 1) : f[s] = IF s = {} THEN base ELSE h[<<f[s \ {Max(s)}], Max(s)>>]
    <3> TAKE s \in D(k + 1)
    <3>1. CASE s = {}
      BY <3>1
    <3>2. CASE s # {}
      BY <3>2, <2>2, <2>3
    <3> QED BY <3>1, <3>2
  <2>5. \A s \in D(k + 1) : f[s] \in X
    <3> TAKE s \in D(k + 1)
    <3>1. CASE s = {}
      BY <3>1
    <3>2. CASE s # {}
      BY <3>2, <1>2, <2>1, <2>3
    <3> QED BY <3>1, <3>2
  <2>6. f = [s \in D(k + 1) |-> f[s]]
    OBVIOUS
  <2> HIDE DEF f
  <2>7. Eq(f, k + 1)
    BY <2>4, <2>6
  <2>8. k + 1 \in Nat
    OBVIOUS
  <2> HIDE DEF Eq
  <2> QED BY <2>5, <2>7, <2>8
<1>5. \A k \in Nat : k \in Good
  <2> HIDE DEF Good
  <2> QED BY <1>3, <1>4, NatSetInduction
<1>6. Cardinality(S) \in Nat /\ D(Cardinality(S)) = SUBSET S
  BY <1>0, FS_CardinalityType, FS_Subset
<1>7. PICK g : Eq(g, Cardinality(S)) /\ \A s \in D(Cardinality(S)) : g[s] \in X
  BY <1>5, <1>6
<1>8. UnfoldsLeft(g, base, h, n)
  BY <1>6, <1>7 DEF UnfoldsLeft
<1> QED BY <1>6, <1>7, <1>8

(* Induction along the prefixes of a fold.                                  *)
LEMMA FoldStays ==
  ASSUME NEW n \in Nat, NEW iter, NEW F,
         iter[{}] \in F[0],
         \A k \in 1..n : iter[1..(k - 1)] \in F[k - 1] => iter[1..k] \in F[k]
  PROVE  iter[1..n] \in F[n]
<1> DEFINE Good == {k \in Nat : k <= n => iter[1..k] \in F[k]}
<1>1. 0 \in Good
  <2>1. 1..0 = {}
    OBVIOUS
  <2> QED BY <2>1
<1>2. ASSUME NEW k \in Nat, k \in Good
      PROVE  k + 1 \in Good
  <2> SUFFICES ASSUME k + 1 <= n PROVE iter[1..(k + 1)] \in F[k + 1]
    OBVIOUS
  <2>1. k + 1 \in 1..n /\ (k + 1) - 1 = k /\ k <= n
    OBVIOUS
  <2>2. iter[1..k] \in F[k]
    BY <1>2, <2>1
  <2> QED BY <2>1, <2>2
<1>3. \A k \in Nat : k \in Good
  <2> HIDE DEF Good
  <2> QED BY <1>1, <1>2, NatSetInduction
<1> QED BY <1>3

(* Keeping goes through its sequence from left to right.                    *)
LEMMA KeepingUnfolds ==
  ASSUME NEW S, NEW s \in Seq(S), NEW K
  PROVE  \E iter : /\ Keeping(s, K) = iter[1..Len(s)]
                   /\ iter[{}] = <<>>
                   /\ \A k \in 1..Len(s) :
                        iter[1..k] = IF s[k] \in K THEN Append(iter[1..(k - 1)], s[k])
                                     ELSE iter[1..(k - 1)]
<1> DEFINE n == Len(s)
           Good(it) == it = [t \in SUBSET DOMAIN s |->
                   IF t = {} THEN <<>>
                   ELSE IF s[Max(t)] \in K THEN Append(it[t \ {Max(t)}], s[Max(t)])
                        ELSE it[t \ {Max(t)}]]
           it0 == CHOOSE it : Good(it)
           h == [p \in Seq(S) \X (1..n) |->
                   IF s[p[2]] \in K THEN Append(p[1], s[p[2]]) ELSE p[1]]
<1>1. Keeping(s, K) = it0[DOMAIN s]
  BY DEF Keeping, FoldLeft, MapThenFoldSet
<1>2. n \in Nat /\ DOMAIN s = 1..n /\ \A i \in 1..n : s[i] \in S
  OBVIOUS
<1>3. \A x \in Seq(S), i \in 1..n :
        h[<<x, i>>] = (IF s[i] \in K THEN Append(x, s[i]) ELSE x) /\ h[<<x, i>>] \in Seq(S)
  BY <1>2
<1>4. <<>> \in Seq(S)
  OBVIOUS
<1>5. PICK g : UnfoldsLeft(g, <<>>, h, n) /\ \A t \in SUBSET (1..n) : g[t] \in Seq(S)
  <2> HIDE DEF h, n
  <2> QED BY <1>2, <1>3, <1>4, FoldExists
<1>6. \A t \in SUBSET (1..n) : t # {} => Max(t) \in 1..n /\ t \ {Max(t)} \in SUBSET (1..n)
  BY <1>2, MaxMember
<1>7. Good(g)
  BY <1>2, <1>3, <1>5, <1>6 DEF UnfoldsLeft
<1>8. Good(it0)
  BY <1>7
<1>9. it0[{}] = <<>>
  BY <1>8
<1>10. \A k \in 1..n : it0[1..k] = IF s[k] \in K THEN Append(it0[1..(k - 1)], s[k])
                                   ELSE it0[1..(k - 1)]
  <2> TAKE k \in 1..n
  <2> DEFINE t == 1..k
  <2>1. t \in SUBSET DOMAIN s /\ t # {} /\ Max(t) = k /\ t \ {k} = 1..(k - 1)
    <3> HIDE DEF it0, h
    <3> QED BY <1>2, MaxInterval
  <2> HIDE DEF it0, t
  <2>2. it0[t] = IF s[Max(t)] \in K THEN Append(it0[t \ {Max(t)}], s[Max(t)])
                ELSE it0[t \ {Max(t)}]
    BY <1>8, <2>1
  <2> QED BY <2>1, <2>2 DEF t
<1> HIDE DEF it0
<1> QED BY <1>1, <1>2, <1>9, <1>10

(* What is kept: elements of the sequence that are in the set, each as      *)
(* often and in the order in which they were there.                         *)
LEMMA KeepingValue ==
  ASSUME NEW S, NEW s \in Seq(S), NEW K, NEW R,
         \A i, j \in 1..Len(s) : i < j => <<s[i], s[j]>> \in R
  PROVE  /\ Keeping(s, K) \in Seq(S)
         /\ \A x : x \in ToSet(Keeping(s, K)) <=> x \in K /\ x \in ToSet(s)
         /\ \A i, j \in 1..Len(Keeping(s, K)) :
              i < j => <<Keeping(s, K)[i], Keeping(s, K)[j]>> \in R
<1> DEFINE n == Len(s)
           In(t, k) ==
             /\ t \in Seq(S)
             /\ \A i \in 1..Len(t) : t[i] \in K /\ \E j \in 1..k : t[i] = s[j]
             /\ \A j \in 1..k : s[j] \in K => \E i \in 1..Len(t) : t[i] = s[j]
             /\ \A i, j \in 1..Len(t) : i < j => <<t[i], t[j]>> \in R
           F == [k \in 0..n |-> {t \in Seq(S) : In(t, k)}]
<1>1. n \in Nat /\ DOMAIN s = 1..n /\ \A i \in 1..n : s[i] \in S
  OBVIOUS
<1>2. PICK iter : /\ Keeping(s, K) = iter[1..n]
                  /\ iter[{}] = <<>>
                  /\ \A k \in 1..n :
                       iter[1..k] = IF s[k] \in K THEN Append(iter[1..(k - 1)], s[k])
                                    ELSE iter[1..(k - 1)]
  <2>1. \E iter : /\ Keeping(s, K) = iter[1..Len(s)]
                  /\ iter[{}] = <<>>
                  /\ \A k \in 1..Len(s) :
                       iter[1..k] = IF s[k] \in K THEN Append(iter[1..(k - 1)], s[k])
                                    ELSE iter[1..(k - 1)]
    BY ONLY s \in Seq(S), KeepingUnfolds
  <2> QED BY ONLY <2>1
<1>3. iter[{}] \in F[0]
  BY <1>1, <1>2
<1>4. ASSUME NEW k \in 1..n, iter[1..(k - 1)] \in F[k - 1]
      PROVE  iter[1..k] \in F[k]
  <2>1. PICK t : t = iter[1..(k - 1)]
    OBVIOUS
  <2>2. k - 1 \in 0..n /\ k \in 0..n /\ t \in Seq(S) /\ In(t, k - 1)
    <3>1. k - 1 \in 0..n /\ k \in 0..n
      BY <1>1
    <3>2. t \in F[k - 1]
      BY <1>4, <2>1
    <3> HIDE DEF In
    <3> QED BY <3>1, <3>2
  <2>3. SUFFICES ASSUME NEW u, u = (IF s[k] \in K THEN Append(t, s[k]) ELSE t)
                 PROVE  u \in Seq(S) /\ In(u, k)
    <3>1. iter[1..k] = IF s[k] \in K THEN Append(t, s[k]) ELSE t
      BY <1>2, <2>1
    <3>2. \A u : u \in Seq(S) /\ In(u, k) => u \in F[k]
      BY <2>2
    <3> HIDE DEF F, In
    <3> QED BY <3>1, <3>2
  <2>4. \A j \in 1..k : j \in 1..(k - 1) \/ j = k
    OBVIOUS
  <2>5. \A j \in 1..(k - 1) : j \in 1..k
    OBVIOUS
  <2>6. CASE s[k] \notin K
    <3>1. u = t
      BY <2>3, <2>6
    <3> QED BY <2>2, <2>4, <2>5, <2>6, <3>1
  <2>7. CASE s[k] \in K
    <3>1. /\ u \in Seq(S) /\ Len(u) = Len(t) + 1 /\ Len(t) \in Nat
          /\ u[Len(t) + 1] = s[k]
          /\ \A i \in 1..Len(t) : u[i] = t[i]
      BY <1>1, <2>2, <2>3, <2>7, AppendProperties
    <3>2. \A i \in 1..Len(u) : i \in 1..Len(t) \/ i = Len(t) + 1
      BY <3>1
    <3>3. 1..Len(t) \subseteq 1..Len(u) /\ Len(t) + 1 \in 1..Len(u)
      BY <3>1
    <3>4. ASSUME NEW i \in 1..Len(u)
          PROVE  u[i] \in K /\ \E j \in 1..k : u[i] = s[j]
      <4>1. CASE i \in 1..Len(t)
        <5>1. PICK j \in 1..(k - 1) : t[i] = s[j]
          BY <2>2, <4>1
        <5>2. t[i] \in K /\ u[i] = t[i] /\ j \in 1..k
          BY <2>2, <2>5, <3>1, <4>1
        <5> QED BY <5>1, <5>2
      <4>2. CASE i = Len(t) + 1
        <5>1. k \in 1..k
          OBVIOUS
        <5> QED BY <2>7, <3>1, <4>2, <5>1
      <4> QED BY <3>2, <4>1, <4>2
    <3>5. \A j \in 1..k : s[j] \in K => \E i \in 1..Len(u) : u[i] = s[j]
      BY <2>2, <2>4, <3>1, <3>3
    <3>6. ASSUME NEW i \in 1..Len(u), NEW j \in 1..Len(u), i < j
          PROVE  <<u[i], u[j]>> \in R
      <4>1. i \in 1..Len(t)
        BY <3>1, <3>6
      <4>2. CASE j \in 1..Len(t)
        BY <2>2, <3>1, <3>6, <4>1, <4>2
      <4>3. CASE j = Len(t) + 1
        <5>1. PICK p \in 1..(k - 1) : t[i] = s[p]
          BY <2>2, <4>1
        <5>2. p \in 1..Len(s) /\ k \in 1..Len(s) /\ p < k
          BY <5>1
        <5>3. <<s[p], s[k]>> \in R
          BY <5>2
        <5> QED BY <3>1, <4>1, <4>3, <5>1, <5>3
      <4> QED BY <3>2, <4>2, <4>3
    <3> QED BY <3>1, <3>4, <3>5, <3>6
  <2> QED BY <2>6, <2>7
<1>5. iter[1..n] \in F[n]
  <2> HIDE DEF F, n
  <2> QED BY <1>1, <1>3, <1>4, FoldStays
<1>6. PICK t : t = Keeping(s, K)
  OBVIOUS
<1>7. t \in Seq(S) /\ In(t, n)
  BY <1>1, <1>2, <1>5, <1>6
<1>8. DOMAIN t = 1..Len(t)
  BY <1>7
<1>9. ASSUME NEW x
      PROVE  x \in ToSet(t) <=> x \in K /\ x \in ToSet(s)
  <2>1. x \in ToSet(t) <=> \E i \in 1..Len(t) : x = t[i]
    BY <1>8 DEF ToSet
  <2>2. x \in ToSet(s) <=> \E j \in 1..n : x = s[j]
    BY <1>1 DEF ToSet
  <2>3. \A i \in 1..Len(t) : t[i] \in K /\ \E j \in 1..n : t[i] = s[j]
    BY <1>7
  <2>4. \A j \in 1..n : s[j] \in K => \E i \in 1..Len(t) : t[i] = s[j]
    BY <1>7
  <2> HIDE DEF In, n
  <2> QED BY <2>1, <2>2, <2>3, <2>4
<1> QED BY <1>6, <1>7, <1>9

(* A buffer that takes several events stays within its bound.               *)
LEMMA BufferedAll ==
  ASSUME NEW S, NEW b \in Seq(S), NEW s \in Seq(S), MaxBuffer \in Nat, Len(b) <= MaxBuffer
  PROVE  /\ FoldLeft(Buffered, b, s) \in Seq(S)
         /\ Len(FoldLeft(Buffered, b, s)) <= MaxBuffer
<1> DEFINE n == Len(s)
           X == {x \in Seq(S) : Len(x) <= MaxBuffer}
           Good(it) == it = [t \in SUBSET DOMAIN s |->
                   IF t = {} THEN b ELSE Buffered(it[t \ {Max(t)}], s[Max(t)])]
           it0 == CHOOSE it : Good(it)
           h == [p \in X \X (1..n) |-> Buffered(p[1], s[p[2]])]
           F == [k \in 0..n |-> X]
<1>1. FoldLeft(Buffered, b, s) = it0[DOMAIN s]
  BY DEF FoldLeft, MapThenFoldSet
<1>2. n \in Nat /\ DOMAIN s = 1..n /\ b \in X
  OBVIOUS
<1>3. \A x \in X, i \in 1..n : Buffered(x, s[i]) \in X
  <2> TAKE x \in X, i \in 1..n
  <2>1. s[i] \in S /\ x \in Seq(S) /\ Len(x) <= MaxBuffer
    BY <1>2
  <2>2. CASE Len(x) < MaxBuffer
    <3>1. Append(x, s[i]) \in Seq(S) /\ Len(Append(x, s[i])) = Len(x) + 1
      BY <2>1, AppendProperties
    <3>2. Len(x) + 1 <= MaxBuffer
      BY <2>1, <2>2
    <3> QED BY <2>2, <3>1, <3>2 DEF Buffered
  <2>3. CASE ~ (Len(x) < MaxBuffer)
    BY <2>1, <2>3 DEF Buffered
  <2> QED BY <2>2, <2>3
<1> HIDE DEF X
<1>4. \A x \in X, i \in 1..n : h[<<x, i>>] = Buffered(x, s[i]) /\ h[<<x, i>>] \in X
  BY <1>3
<1>5. PICK g : UnfoldsLeft(g, b, h, n) /\ \A t \in SUBSET (1..n) : g[t] \in X
  <2> HIDE DEF h, n
  <2> QED BY <1>2, <1>4, FoldExists
<1>6. \A t \in SUBSET (1..n) : t # {} => Max(t) \in 1..n /\ t \ {Max(t)} \in SUBSET (1..n)
  BY <1>2, MaxMember
<1>7. Good(g)
  BY <1>2, <1>4, <1>5, <1>6 DEF UnfoldsLeft
<1>8. Good(it0)
  BY <1>7
<1>9. it0[{}] = b
  BY <1>8
<1>10. \A k \in 1..n : it0[1..k] = Buffered(it0[1..(k - 1)], s[k])
  <2> TAKE k \in 1..n
  <2> DEFINE t == 1..k
  <2>1. t \in SUBSET DOMAIN s /\ t # {} /\ Max(t) = k /\ t \ {k} = 1..(k - 1)
    <3> HIDE DEF it0, h
    <3> QED BY <1>2, MaxInterval
  <2> HIDE DEF it0, t
  <2>2. it0[t] = Buffered(it0[t \ {Max(t)}], s[Max(t)])
    BY <1>8, <2>1
  <2> QED BY <2>1, <2>2 DEF t
<1> HIDE DEF it0
<1>11. it0[1..n] \in F[n]
  <2>1. it0[{}] \in F[0]
    BY <1>2, <1>9
  <2>2. \A k \in 1..n : it0[1..(k - 1)] \in F[k - 1] => it0[1..k] \in F[k]
    BY <1>2, <1>3, <1>10
  <2> HIDE DEF F, n
  <2> QED BY <1>2, <2>1, <2>2, FoldStays
<1>12. it0[DOMAIN s] \in X
  BY <1>2, <1>11
<1> QED BY <1>1, <1>12 DEF X

(* The map after the records of the channel were put into it.               *)
Learned(map, ids) ==
  FoldLeft(LAMBDA m, i : Put(m, history[i].ip, history[i].name, clock), map, ids)

(* A set of maps that no record leads out of has the map in it.             *)
LEMMA LearnedStays ==
  ASSUME NEW S, NEW s \in Seq(S), NEW X, NEW map \in X,
         \A m \in X, i \in S : Put(m, history[i].ip, history[i].name, clock) \in X
  PROVE  Learned(map, s) \in X
<1> DEFINE n == Len(s)
           Next1(m, i) == Put(m, history[i].ip, history[i].name, clock)
           Good(it) == it = [t \in SUBSET DOMAIN s |->
                   IF t = {} THEN map ELSE Next1(it[t \ {Max(t)}], s[Max(t)])]
           it0 == CHOOSE it : Good(it)
           h == [p \in X \X (1..n) |-> Next1(p[1], s[p[2]])]
           F == [k \in 0..n |-> X]
<1>1. Learned(map, s) = it0[DOMAIN s]
  BY DEF Learned, FoldLeft, MapThenFoldSet
<1>2. n \in Nat /\ DOMAIN s = 1..n /\ \A i \in 1..n : s[i] \in S
  OBVIOUS
<1>3. \A x \in X, i \in S : Next1(x, i) \in X
  OBVIOUS
<1> HIDE DEF Next1
<1>4. \A x \in X, i \in 1..n : h[<<x, i>>] = Next1(x, s[i]) /\ h[<<x, i>>] \in X
  BY <1>2, <1>3
<1>5. PICK g : UnfoldsLeft(g, map, h, n) /\ \A t \in SUBSET (1..n) : g[t] \in X
  <2> HIDE DEF h, n
  <2> QED BY <1>2, <1>4, FoldExists
<1>6. \A t \in SUBSET (1..n) : t # {} => Max(t) \in 1..n /\ t \ {Max(t)} \in SUBSET (1..n)
  BY <1>2, MaxMember
<1>7. Good(g)
  BY <1>2, <1>4, <1>5, <1>6 DEF UnfoldsLeft
<1>8. Good(it0)
  BY <1>7
<1>9. it0[{}] = map
  BY <1>8
<1>10. \A k \in 1..n : it0[1..k] = Next1(it0[1..(k - 1)], s[k])
  <2> TAKE k \in 1..n
  <2> DEFINE t == 1..k
  <2>1. t \in SUBSET DOMAIN s /\ t # {} /\ Max(t) = k /\ t \ {k} = 1..(k - 1)
    <3> HIDE DEF it0, h
    <3> QED BY <1>2, MaxInterval
  <2> HIDE DEF it0, t
  <2>2. it0[t] = Next1(it0[t \ {Max(t)}], s[Max(t)])
    BY <1>8, <2>1
  <2> QED BY <2>1, <2>2 DEF t
<1> HIDE DEF it0
<1>11. it0[1..n] \in F[n]
  <2>1. it0[{}] \in F[0]
    BY <1>2, <1>9
  <2>2. \A k \in 1..n : it0[1..(k - 1)] \in F[k - 1] => it0[1..k] \in F[k]
    BY <1>2, <1>3, <1>10
  <2> HIDE DEF F, n
  <2> QED BY <1>2, <2>1, <2>2, FoldStays
<1> QED BY <1>1, <1>2, <1>11

------------------------------------------------------------------------------
(* The monitors, their maps and the log: types.                             *)

(* The maps, the events and the numbers of the events so far.               *)
Maps    == UNION {[D -> [name : Names \cup {Ech}, ts : Nat]] : D \in SUBSET Addresses}
Records == [monitor : Monitors, name : Names \cup {Ech}, ip : Addresses, ts : Nat]
Ids     == 1..Len(history)

(* What the monitors, the maps, the buffers and the log hold, in types.     *)
NamesInv ==
  /\ clock \in 0..MaxTime
  /\ link \in [Monitors -> {"off", "down", "up", "refused", "polling"}]
  /\ names \in [Monitors -> Maps]
  /\ history \in Seq(Records) /\ Len(history) <= MaxEvents
  /\ buffer \in [Monitors -> Seq(Ids)] /\ \A m \in Monitors : Len(buffer[m]) <= MaxBuffer
  /\ hand \in Seq(Ids) /\ log \in Seq(Ids) /\ gone \subseteq Ids
  /\ born \in 0..Len(history)

(* All that a step does to the names.                                       *)
NamesStep ==
  /\ pc = "stopped" /\ pc' # "stopped" => StartMonitors(setup.monitors, Windows)
  /\ \/ Tick
     \/ Connect
     \/ Disconnect
     \/ \E m \in Monitors, name \in Names \cup {Ech}, ip \in Addresses : Receive(m, name, ip)
     \/ \E name \in Names, ip \in Addresses : Channel(name, ip)
     \/ PollChannel
     \/ pc \in {"drain_dns", "drain_sni"} /\ (\E m \in Monitors : Drain(m)) /\ pc' # pc
          /\ pc' \in {"log_dns", "log_sni"}
     \/ pc \in {"log_dns", "log_sni"} /\ RecordDnsEvents /\ pc' \in {"drain_sni", "sleep"}
     \/ PruneDnsEvents
     \/ pc' = "stopped" /\ ForgetNames
     \/ pc = "stopped" /\ StartMonitors(setup.monitors, Windows)
     \/ UNCHANGED nameVars

(* A map after an address was put into it.                                  *)
LEMMA PutIsMap ==
  ASSUME NEW map \in Maps, NEW ip \in Addresses, NEW name \in Names \cup {Ech}, NEW ts \in Nat
  PROVE  /\ Put(map, ip, name, ts) \in Maps
         /\ DOMAIN Put(map, ip, name, ts) = DOMAIN map \cup {ip}
         /\ Put(map, ip, name, ts)[ip] = [name |-> name, ts |-> ts]
         /\ \A a \in DOMAIN map \ {ip} : Put(map, ip, name, ts)[a] = map[a]
<1> DEFINE E == [name : Names \cup {Ech}, ts : Nat]
           p == Put(map, ip, name, ts)
<1>1. PICK D \in SUBSET Addresses : map \in [D -> E]
  BY DEF Maps
<1>2. DOMAIN map = D /\ D \cup {ip} \in SUBSET Addresses
  BY <1>1
<1>3. p \in [D \cup {ip} -> E]
  BY <1>1, <1>2 DEF Put
<1>4. p \in Maps
  BY <1>2, <1>3 DEF Maps
<1>5. /\ DOMAIN p = D \cup {ip}
      /\ p[ip] = [name |-> name, ts |-> ts]
      /\ \A a \in D \ {ip} : p[a] = map[a]
  BY <1>2 DEF Put
<1> QED BY <1>2, <1>4, <1>5

(* And what of it is remembered: the new address, and of the others all or  *)
(* those that are not too old.                                              *)
LEMMA RememberIsMap ==
  ASSUME NEW map \in Maps, NEW ip \in Addresses, NEW name \in Names \cup {Ech},
         clock \in Nat, TTL \in Nat
  PROVE  /\ Remember(map, ip, name, clock) \in Maps
         /\ ip \in DOMAIN Remember(map, ip, name, clock)
         /\ Remember(map, ip, name, clock)[ip] = [name |-> name, ts |-> clock]
         /\ DOMAIN Remember(map, ip, name, clock) \subseteq DOMAIN map \cup {ip}
         /\ \A a \in DOMAIN map \ {ip} :
              IF a \in DOMAIN Remember(map, ip, name, clock)
              THEN Remember(map, ip, name, clock)[a] = map[a]
              ELSE map[a].ts + TTL < clock
<1> DEFINE E == [name : Names \cup {Ech}, ts : Nat]
           p == Put(map, ip, name, clock)
           q == [a \in {b \in DOMAIN p : p[b].ts + TTL >= clock} |-> p[a]]
           r == Remember(map, ip, name, clock)
<1>1. /\ p \in Maps /\ DOMAIN p = DOMAIN map \cup {ip}
      /\ p[ip] = [name |-> name, ts |-> clock]
      /\ \A a \in DOMAIN map \ {ip} : p[a] = map[a]
  <2>1. PICK ts \in Nat : ts = clock
    OBVIOUS
  <2>2. p = Put(map, ip, name, ts)
    BY <2>1
  <2> HIDE DEF p
  <2> QED BY <2>1, <2>2, PutIsMap
<1>2. PICK D \in SUBSET Addresses : p \in [D -> E]
  BY <1>1 DEF Maps
<1>3. r = p \/ r = q
  BY DEF Remember
<1>4. \A a \in DOMAIN p : p[a].ts \in Nat
  BY <1>2
<1> HIDE DEF p
<1>5. CASE r = p
  BY <1>1, <1>5
<1>6. CASE r = q
  <2>1. DOMAIN q \in SUBSET Addresses /\ q \in [DOMAIN q -> E]
    BY <1>2
  <2>2. q \in Maps
    BY <2>1 DEF Maps
  <2>3. ip \in DOMAIN q /\ q[ip] = p[ip]
    BY <1>1
  <2>4. DOMAIN q \subseteq DOMAIN p
    OBVIOUS
  <2>5. ASSUME NEW a \in DOMAIN map \ {ip}
        PROVE  IF a \in DOMAIN q THEN q[a] = map[a] ELSE map[a].ts + TTL < clock
    <3>1. a \in DOMAIN p /\ p[a] = map[a] /\ p[a].ts \in Nat
      BY <1>1, <1>4
    <3>2. CASE p[a].ts + TTL >= clock
      BY <3>1, <3>2
    <3>3. CASE ~ (p[a].ts + TTL >= clock)
      <4>1. a \notin DOMAIN q
        BY <3>3
      <4>2. \A t \in Nat : ~ (t + TTL >= clock) => t + TTL < clock
        OBVIOUS
      <4> QED BY <3>1, <3>3, <4>1, <4>2
    <3> QED BY <3>2, <3>3
  <2> HIDE DEF q
  <2> QED BY <1>1, <1>6, <2>2, <2>3, <2>4, <2>5
<1> HIDE DEF q
<1> QED BY <1>3, <1>5, <1>6

(* The names change in a step only as one of their operations changes them. *)
LEMMA NamesSteps == [PollNext]_allVars => NamesStep
<1> SUFFICES ASSUME [PollNext]_allVars PROVE NamesStep
  OBVIOUS
<1>1. CASE \E c \in Connections : Open(c) \/ Close(c) \/ Expire(c)
  BY <1>1 DEF Open, Close, Expire, Change, NamesStep
<1>2. CASE \E s \in Listeners : CloseListener(s)
  BY <1>2 DEF CloseListener, Change, NamesStep
<1>3. CASE \E pid : Exit(pid) \/ Reuse(pid)
  BY <1>3 DEF Exit, Reuse, Change, NamesStep
<1>4. CASE NamesNext /\ UNCHANGED pc
  <2>1. CASE HandleMessage
    <3>1. PICK name \in Names, ip \in Addresses : Receive("dns", name, ip)
      BY <2>1 DEF HandleMessage
    <3>2. "dns" \in Monitors /\ name \in Names \cup {Ech}
      BY DEF Monitors
    <3> QED BY <1>4, <3>1, <3>2 DEF NamesStep
  <2>2. CASE CaptureFrame
    <3>1. PICK sni \in Names \cup {NoName}, ech \in BOOLEAN, ip \in Addresses :
            \E name \in ParseClientHello(sni, ech) : Receive("sni", name, ip)
      BY <2>2 DEF CaptureFrame
    <3>2. PICK name \in ParseClientHello(sni, ech) : Receive("sni", name, ip)
      BY <3>1
    <3>3. "sni" \in Monitors /\ name \in Names \cup {Ech}
      BY <3>2 DEF Monitors, ParseClientHello
    <3> QED BY <1>4, <3>2, <3>3 DEF NamesStep
  <2>3. CASE \E name \in Names, ip \in Addresses : Channel(name, ip)
    BY <1>4, <2>3 DEF NamesStep
  <2> QED BY <1>4, <2>1, <2>2, <2>3 DEF NamesNext, NamesStep
<1>5. CASE Start
  BY <1>5 DEF Start, NamesStep
<1>6. CASE Die
  BY <1>6 DEF Die, End, NamesStep
<1>7. CASE PausedCycle
  BY <1>7 DEF PausedCycle, NamesStep
<1>8. CASE Cycle
  <2>1. CASE StartCycle
    BY <2>1 DEF StartCycle, NamesStep
  <2>2. CASE Read
    BY <2>2 DEF Read, NamesStep
  <2>3. CASE ReadDenied
    BY <2>3 DEF ReadDenied, End, NamesStep
  <2>4. CASE ReadWindows
    BY <2>4 DEF ReadWindows, NamesStep
  <2>5. CASE ReadSockets \/ WalkProcesses \/ BuildEdges \/ RecordEdges
    BY <2>5 DEF ReadSockets, WalkProcesses, BuildEdges, RecordEdges, NamesStep
  <2>6. CASE DrainMonitor("dns", "drain_dns", "log_dns")
    BY <2>6 DEF DrainMonitor, Goto, Monitors, NamesStep
  <2>7. CASE DrainMonitor("sni", "drain_sni", "log_sni")
    BY <2>7 DEF DrainMonitor, Goto, Monitors, NamesStep
  <2>8. CASE LogDns
    BY <2>8 DEF LogDns, Goto, NamesStep
  <2>9. CASE LogSni
    BY <2>9 DEF LogSni, NamesStep
  <2> QED BY <1>8, <2>1, <2>2, <2>3, <2>4, <2>5, <2>6, <2>7, <2>8, <2>9 DEF Cycle
<1>9. CASE UNCHANGED allVars
  BY <1>9 DEF allVars, NamesStep
<1> QED BY <1>1, <1>2, <1>3, <1>4, <1>5, <1>6, <1>7, <1>8, <1>9 DEF PollNext

(* What an event does when it is received; the map and the buffer.          *)
LEMMA ReceiveEffect ==
  ASSUME NamesInv, NEW m \in Monitors, NEW name \in Names \cup {Ech}, NEW ip \in Addresses,
         Receive(m, name, ip)
  PROVE  /\ Len(history') = Len(history) + 1 /\ Len(history) \in Nat /\ Len(history') <= MaxEvents
         /\ history' \in Seq(Records)
         /\ \A i \in Ids : history'[i] = history[i]
         /\ history'[Len(history')] = Event(m, name, ip)
         /\ names' \in [Monitors -> Maps]
         /\ \A a \in Monitors \ {m} : names'[a] = names[a] /\ buffer'[a] = buffer[a]
         /\ names'[m] = Remember(names[m], ip, name, clock)
         /\ buffer' \in [Monitors -> Seq(Ids')]
         /\ buffer'[m] = Buffered(buffer[m], Len(history'))
         /\ buffer'[m] = buffer[m]
              \/ (buffer'[m] = Append(buffer[m], Len(history')) /\ Len(buffer[m]) < MaxBuffer)
         /\ gone' = gone \cup ({Len(history')} \ ToSet(buffer'[m]))
         /\ UNCHANGED <<clock, link, hand, log, born>>
<1> DEFINE ev == Event(m, name, ip)
<1>0. clock \in Nat /\ TTL \in Nat /\ MaxEvents \in Nat
  BY NameMapsAssumption DEF NamesInv
<1>1. ev \in Records
  BY <1>0 DEF Event, Records
<1>2. history' = Append(history, ev) /\ Len(history) < MaxEvents
  BY DEF Receive
<1>3. history \in Seq(Records) /\ Len(history) \in Nat
  BY DEF NamesInv
<1>4. /\ Len(history') = Len(history) + 1
      /\ history' \in Seq(Records)
      /\ \A i \in 1..Len(history) : history'[i] = history[i]
      /\ history'[Len(history) + 1] = ev
  <2> HIDE DEF ev
  <2> QED BY <1>1, <1>2, <1>3, AppendProperties
<1>5. names[m] \in Maps
  BY DEF NamesInv
<1>6. Remember(names[m], ip, name, clock) \in Maps
  <2>1. PICK map : map = names[m]
    OBVIOUS
  <2> QED BY <1>0, <1>5, <2>1, RememberIsMap
<1>7. /\ names' \in [Monitors -> Maps]
      /\ \A a \in Monitors \ {m} : names'[a] = names[a]
      /\ names'[m] = Remember(names[m], ip, name, clock)
  <2>1. names' = [names EXCEPT ![m] = Remember(names[m], ip, name, clock)]
    BY DEF Receive
  <2>2. names \in [Monitors -> Maps]
    BY DEF NamesInv
  <2> QED BY <1>6, <2>1, <2>2
<1>8. Ids \subseteq Ids' /\ Len(history') \in Ids'
  BY <1>3, <1>4 DEF Ids
<1>9. buffer \in [Monitors -> Seq(Ids')]
  <2>1. buffer \in [Monitors -> Seq(Ids)]
    BY DEF NamesInv
  <2>2. \A a \in Monitors : buffer[a] \in Seq(Ids')
    BY <1>8, <2>1, SeqMonotonic
  <2> QED BY <2>1, <2>2
<1>10. Buffered(buffer[m], Len(history')) \in Seq(Ids')
  BY <1>8, <1>9, AppendProperties DEF Buffered
<1>11. /\ buffer' \in [Monitors -> Seq(Ids')]
       /\ \A a \in Monitors \ {m} : buffer'[a] = buffer[a]
       /\ buffer'[m] = Buffered(buffer[m], Len(history'))
  <2>1. buffer' = [buffer EXCEPT ![m] = Buffered(buffer[m], Len(history'))]
    BY DEF Receive
  <2> QED BY <1>9, <1>10, <2>1
<1>12. Len(history') <= MaxEvents
  BY <1>0, <1>2, <1>3, <1>4
<1>13. gone' = gone \cup ({Len(history')} \ ToSet(buffer'[m]))
       /\ UNCHANGED <<clock, link, hand, log, born>>
  BY DEF Receive
<1>14. buffer'[m] = buffer[m]
         \/ (buffer'[m] = Append(buffer[m], Len(history')) /\ Len(buffer[m]) < MaxBuffer)
  BY <1>11 DEF Buffered
<1> QED BY <1>3, <1>4, <1>7, <1>11, <1>12, <1>13, <1>14 DEF Ids

(* The records a poll of the channel reads are events.                      *)
LEMMA NewestAreEvents ==
  ASSUME NamesInv
  PROVE  Newest \in Seq(Ids)
<1> DEFINE s == [n \in 1..Len(history) |-> Len(history) + 1 - n]
           K == {i \in 1..Len(history) : history[i].monitor = "dns" /\ i + Batch > Len(history)}
<1>1. Len(history) \in Nat
  BY DEF NamesInv
<1>2. s \in [1..Len(history) -> Ids]
  BY <1>1 DEF Ids
<1>3. s \in Seq(Ids)
  BY <1>1, <1>2, SeqDef
<1>4. Newest = Keeping(s, K)
  BY DEF Newest
<1>5. PICK t, L : t \in Seq(Ids) /\ t = s /\ L = K
  BY <1>3
<1>6. PICK R : R = Ids \X Ids
  OBVIOUS
<1>7. \A i, j \in 1..Len(t) : i < j => <<t[i], t[j]>> \in R
  BY <1>5, <1>6, ElementOfSeq
<1>8. Keeping(t, L) \in Seq(Ids)
  <2> HIDE DEF s, K
  <2> QED BY <1>5, <1>7, KeepingValue
<1> QED BY <1>4, <1>5, <1>8

(* Every name a monitor knows for an address was heard for it.              *)
HeardInv ==
  \A m \in Monitors : \A a \in DOMAIN names[m] :
    \E i \in Ids : history[i].ip = a /\ history[i].name = names[m][a].name

(* What the channel's records do.                                           *)
LEMMA PollEffect ==
  ASSUME NamesInv, HeardInv, PollChannel
  PROVE  /\ buffer' \in [Monitors -> Seq(Ids)]
         /\ \A m \in Monitors : Len(buffer'[m]) <= MaxBuffer
         /\ names' \in [Monitors -> Maps]
         /\ HeardInv'
         /\ UNCHANGED <<clock, link, hand, log, history, born, gone>>
<1>0. clock \in Nat /\ MaxBuffer \in Nat /\ "dns" \in Monitors
  BY NameMapsAssumption DEF NamesInv, Monitors
<1>1. Newest \in Seq(Ids)
  BY NewestAreEvents
<1>2. /\ FoldLeft(Buffered, buffer["dns"], Newest) \in Seq(Ids)
      /\ Len(FoldLeft(Buffered, buffer["dns"], Newest)) <= MaxBuffer
  <2>1. buffer["dns"] \in Seq(Ids) /\ Len(buffer["dns"]) <= MaxBuffer
    BY <1>0 DEF NamesInv
  <2>2. PICK b, s : b = buffer["dns"] /\ s = Newest
    OBVIOUS
  <2> QED BY <1>0, <1>1, <2>1, <2>2, BufferedAll
<1>3. buffer' \in [Monitors -> Seq(Ids)] /\ \A m \in Monitors : Len(buffer'[m]) <= MaxBuffer
  <2>1. buffer' = [buffer EXCEPT !["dns"] = FoldLeft(Buffered, buffer["dns"], Newest)]
    BY DEF PollChannel
  <2>2. buffer \in [Monitors -> Seq(Ids)] /\ \A m \in Monitors : Len(buffer[m]) <= MaxBuffer
    BY DEF NamesInv
  <2> QED BY <1>0, <1>2, <2>1, <2>2
<1> DEFINE Told(map) == \A a \in DOMAIN map :
                          \E i \in Ids : history[i].ip = a /\ history[i].name = map[a].name
           X == {map \in Maps : Told(map)}
<1>4. ASSUME NEW map \in X, NEW i \in Ids
      PROVE  Put(map, history[i].ip, history[i].name, clock) \in X
  <2>1. history[i] \in Records
    BY ElementOfSeq DEF NamesInv, Ids
  <2>2. PICK ip \in Addresses, name \in Names \cup {Ech}, ts \in Nat :
          ip = history[i].ip /\ name = history[i].name /\ ts = clock
    BY <1>0, <2>1 DEF Records
  <2> DEFINE p == Put(map, ip, name, ts)
  <2>3. /\ p \in Maps
        /\ DOMAIN p = DOMAIN map \cup {ip}
        /\ p[ip] = [name |-> name, ts |-> ts]
        /\ \A a \in DOMAIN map \ {ip} : p[a] = map[a]
    <3>1. map \in Maps /\ ip \in Addresses /\ name \in Names \cup {Ech} /\ ts \in Nat
      BY <2>2
    <3>2. p = Put(map, ip, name, ts)
      OBVIOUS
    <3> HIDE DEF p, X
    <3> QED BY ONLY <3>1, <3>2, PutIsMap
  <2> HIDE DEF p
  <2>4. Told(p)
    <3> SUFFICES ASSUME NEW a \in DOMAIN p
                 PROVE  \E j \in Ids : history[j].ip = a /\ history[j].name = p[a].name
      OBVIOUS
    <3>1. CASE a = ip
      BY <2>2, <2>3, <3>1
    <3>2. CASE a # ip
      BY <2>3, <3>2
    <3> QED BY <3>1, <3>2
  <2> QED BY <2>2, <2>3, <2>4 DEF p
<1>5. ASSUME NEW m \in Monitors
      PROVE  names[m] \in X
  BY DEF NamesInv, HeardInv
<1>6. Learned(names["dns"], Newest) \in X
  <2>1. PICK map, s : map = names["dns"] /\ s = Newest
    OBVIOUS
  <2>2. PICK Y : Y = X
    OBVIOUS
  <2>3. PICK S : S = Ids
    OBVIOUS
  <2>4. map \in Y /\ s \in Seq(S)
    BY <1>0, <1>1, <1>5, <2>1, <2>2, <2>3
  <2>5. \A x \in Y, i \in S : Put(x, history[i].ip, history[i].name, clock) \in Y
    BY <1>4, <2>2, <2>3
  <2>6. Learned(map, s) \in Y
    BY ONLY <2>4, <2>5, LearnedStays
  <2> QED BY <2>1, <2>2, <2>6
<1>7. names' = [names EXCEPT !["dns"] = Learned(names["dns"], Newest)]
  BY DEF PollChannel, Learned
<1>8. \A m \in Monitors : names'[m] \in X
  <2> HIDE DEF X
  <2> QED BY <1>5, <1>6, <1>7 DEF NamesInv
<1>9. names' \in [Monitors -> Maps]
  BY <1>7, <1>8 DEF NamesInv
<1>10. UNCHANGED <<clock, link, hand, log, history, born, gone>>
  BY DEF PollChannel
<1>11. HeardInv'
  BY <1>8, <1>10 DEF HeardInv, Ids
<1> QED BY <1>3, <1>9, <1>10, <1>11

(* Drain leaves one buffer empty and the others as they are.                *)
LEMMA DrainEffect ==
  ASSUME NamesInv, NEW m \in Monitors, Drain(m)
  PROVE  /\ buffer' \in [Monitors -> Seq(Ids)] /\ buffer'[m] = <<>>
         /\ \A a \in Monitors \ {m} : buffer'[a] = buffer[a]
         /\ hand' = buffer[m]
         /\ UNCHANGED <<clock, link, names, log, history, born, gone>>
BY EmptySeq DEF NamesInv, Drain

(* What retention leaves of the log.                                        *)
LEMMA PruneEffect ==
  ASSUME NamesInv, PruneDnsEvents, NEW R,
         \A i, j \in 1..Len(log) : i < j => <<log[i], log[j]>> \in R
  PROVE  /\ log' \in Seq(Ids)
         /\ ToSet(log') \subseteq ToSet(log)
         /\ \A i, j \in 1..Len(log') : i < j => <<log'[i], log'[j]>> \in R
         /\ gone' = gone \cup (ToSet(log) \ ToSet(log'))
         /\ UNCHANGED <<clock, link, names, buffer, hand, history, born>>
<1>1. PICK K : log' = Keeping(log, K)
  BY DEF PruneDnsEvents
<1>2. PICK s, S : s = log /\ S = Ids
  OBVIOUS
<1>3. s \in Seq(S) /\ \A i, j \in 1..Len(s) : i < j => <<s[i], s[j]>> \in R
  BY <1>2 DEF NamesInv
<1>4. /\ Keeping(s, K) \in Seq(S)
      /\ \A x : x \in ToSet(Keeping(s, K)) <=> x \in K /\ x \in ToSet(s)
      /\ \A i, j \in 1..Len(Keeping(s, K)) :
           i < j => <<Keeping(s, K)[i], Keeping(s, K)[j]>> \in R
  BY ONLY <1>3, KeepingValue
<1>5. /\ gone' = gone \cup (ToSet(log) \ ToSet(log'))
      /\ UNCHANGED <<clock, link, names, buffer, hand, history, born>>
  BY DEF PruneDnsEvents, threads
<1> QED BY <1>1, <1>2, <1>4, <1>5

(* Numbers of a sequence over a set are in the set.                         *)
LEMMA ElementsIn ==
  ASSUME NEW S, NEW s \in Seq(S)
  PROVE  ToSet(s) \subseteq S
BY ElementOfSeq DEF ToSet

(* Types, and names that were heard, are kept by all a step does.           *)
LEMMA NamesInvStep ==
  ASSUME NamesInv, HeardInv, NamesStep
  PROVE  NamesInv' /\ HeardInv'
<1>0. "dns" \in Monitors /\ "sni" \in Monitors /\ MaxTime \in Nat /\ clock \in Nat
  BY NameMapsAssumption DEF NamesInv, Monitors
<1>1. CASE Tick
  BY <1>0, <1>1 DEF Tick, threads, NamesInv, HeardInv, Ids
<1>2. CASE Connect
  BY <1>0, <1>2 DEF Connect, NamesInv, HeardInv, Ids
<1>3. CASE Disconnect
  <2>1. link' \in [Monitors -> {"off", "down", "up", "refused", "polling"}]
    BY <1>0, <1>3 DEF Disconnect, NamesInv
  <2>2. UNCHANGED <<clock, names, buffer, hand, log, history, born, gone>>
    BY <1>3 DEF Disconnect
  <2> QED BY <2>1, <2>2 DEF NamesInv, HeardInv, Ids
<1>4. CASE \E m \in Monitors, name \in Names \cup {Ech}, ip \in Addresses : Receive(m, name, ip)
  <2>1. PICK m \in Monitors, name \in Names \cup {Ech}, ip \in Addresses : Receive(m, name, ip)
    BY <1>4
  <2>2. /\ Len(history') = Len(history) + 1 /\ Len(history) \in Nat /\ Len(history') <= MaxEvents
        /\ history' \in Seq(Records)
        /\ \A i \in Ids : history'[i] = history[i]
        /\ history'[Len(history')] = Event(m, name, ip)
        /\ names' \in [Monitors -> Maps]
        /\ \A a \in Monitors \ {m} : names'[a] = names[a] /\ buffer'[a] = buffer[a]
        /\ names'[m] = Remember(names[m], ip, name, clock)
        /\ buffer' \in [Monitors -> Seq(Ids')]
        /\ buffer'[m] = buffer[m]
              \/ (buffer'[m] = Append(buffer[m], Len(history')) /\ Len(buffer[m]) < MaxBuffer)
        /\ gone' = gone \cup ({Len(history')} \ ToSet(buffer'[m]))
        /\ UNCHANGED <<clock, link, hand, log, born>>
    BY <2>1, ReceiveEffect
  <2>3. Ids \subseteq Ids' /\ Len(history') \in Ids'
    BY <2>2 DEF Ids
  <2>4. hand' \in Seq(Ids') /\ log' \in Seq(Ids')
    BY <2>2, <2>3, SeqMonotonic DEF NamesInv
  <2>5. gone' \subseteq Ids'
    BY <2>2, <2>3 DEF NamesInv
  <2>6. Len(buffer'[m]) <= MaxBuffer
    <3>1. buffer[m] \in Seq(Ids) /\ Len(buffer[m]) <= MaxBuffer /\ Len(buffer[m]) \in Nat
      BY DEF NamesInv
    <3>2. CASE buffer'[m] = buffer[m]
      BY <3>1, <3>2
    <3>3. CASE buffer'[m] = Append(buffer[m], Len(history')) /\ Len(buffer[m]) < MaxBuffer
      <4>1. buffer[m] \in Seq(Ids')
        BY <2>3, <3>1, SeqMonotonic
      <4>2. Len(buffer'[m]) = Len(buffer[m]) + 1
        BY <2>3, <3>3, <4>1, AppendProperties
      <4>3. MaxBuffer \in Nat
        BY NameMapsAssumption
      <4> QED BY <3>1, <3>3, <4>2, <4>3
    <3> QED BY <2>2, <3>2, <3>3
  <2>7. \A a \in Monitors : Len(buffer'[a]) <= MaxBuffer
    BY <2>2, <2>6 DEF NamesInv
  <2>8. born' \in 0..Len(history')
    BY <2>2 DEF NamesInv
  <2>9. NamesInv'
    BY <2>2, <2>4, <2>5, <2>7, <2>8 DEF NamesInv
  <2>10. HeardInv'
    <3> SUFFICES ASSUME NEW k \in Monitors, NEW a \in DOMAIN names'[k]
                 PROVE  \E i \in Ids' : history'[i].ip = a /\ history'[i].name = names'[k][a].name
      BY DEF HeardInv
    <3>1. ASSUME a \in DOMAIN names[k], names'[k][a] = names[k][a]
          PROVE  \E i \in Ids' : history'[i].ip = a /\ history'[i].name = names'[k][a].name
      <4>1. PICK i \in Ids : history[i].ip = a /\ history[i].name = names[k][a].name
        BY <3>1 DEF HeardInv
      <4>2. i \in Ids' /\ history'[i] = history[i]
        BY <2>2, <2>3
      <4> QED BY <3>1, <4>1, <4>2
    <3>2. CASE k # m
      <4>1. names'[k] = names[k]
        BY <2>2, <3>2
      <4> QED BY <3>1, <4>1
    <3>3. CASE k = m
      <4>1. PICK map, t : map = names[m] /\ t = names'[m]
        OBVIOUS
      <4>2. map \in Maps /\ TTL \in Nat
        BY <4>1, NameMapsAssumption DEF NamesInv
      <4>3. /\ t = Remember(map, ip, name, clock)
            /\ t[ip] = [name |-> name, ts |-> clock]
            /\ DOMAIN t \subseteq DOMAIN map \cup {ip}
            /\ \A b \in DOMAIN map \ {ip} : b \in DOMAIN t => t[b] = map[b]
        <5>1. t = Remember(map, ip, name, clock)
          BY <2>2, <4>1
        <5> QED BY <1>0, <4>2, <5>1, RememberIsMap
      <4>4. CASE a = ip
        <5>1. names'[k][a].name = name
          BY <3>3, <4>1, <4>3, <4>4
        <5>2. PICK i \in Ids' : i = Len(history')
          BY <2>3
        <5>3. history'[i].ip = ip /\ history'[i].name = name
          BY <2>2, <5>2 DEF Event
        <5> QED BY <4>4, <5>1, <5>3
      <4>5. CASE a # ip
        BY <3>1, <3>3, <4>1, <4>3, <4>5
      <4> QED BY <4>4, <4>5
    <3> QED BY <3>2, <3>3
  <2> QED BY <2>9, <2>10
<1>5. CASE \E name \in Names, ip \in Addresses : Channel(name, ip)
  <2>1. PICK name \in Names, ip \in Addresses : Channel(name, ip)
    BY <1>5
  <2>2. /\ history' = Append(history, Event("dns", name, ip)) /\ Len(history) < MaxEvents
        /\ UNCHANGED <<clock, link, names, buffer, hand, log, born, gone>>
    BY <2>1 DEF Channel, threads
  <2>3. Event("dns", name, ip) \in Records
    BY <1>0 DEF Event, Records
  <2>4. /\ history' \in Seq(Records) /\ Len(history') = Len(history) + 1 /\ Len(history) \in Nat
        /\ \A i \in Ids : history'[i] = history[i]
    BY <2>2, <2>3, AppendProperties DEF NamesInv, Ids
  <2>5. Len(history') <= MaxEvents
    BY <2>2, <2>4, NameMapsAssumption
  <2>6. Ids \subseteq Ids'
    BY <2>4 DEF Ids
  <2>7. hand' \in Seq(Ids') /\ log' \in Seq(Ids') /\ \A m \in Monitors : buffer'[m] \in Seq(Ids')
    BY <2>2, <2>6, SeqMonotonic DEF NamesInv
  <2>8. NamesInv'
    BY <2>2, <2>4, <2>5, <2>6, <2>7 DEF NamesInv
  <2>9. HeardInv'
    <3> SUFFICES ASSUME NEW m \in Monitors, NEW a \in DOMAIN names'[m]
                 PROVE  \E i \in Ids' : history'[i].ip = a /\ history'[i].name = names'[m][a].name
      BY DEF HeardInv
    <3>1. PICK i \in Ids : history[i].ip = a /\ history[i].name = names[m][a].name
      BY <2>2 DEF HeardInv
    <3>2. i \in Ids' /\ history'[i] = history[i] /\ names' = names
      BY <2>2, <2>4, <2>6
    <3> QED BY <3>1, <3>2
  <2> QED BY <2>8, <2>9
<1>6. CASE PollChannel
  BY <1>6, PollEffect DEF NamesInv, Ids
<1>7. CASE \E m \in Monitors : Drain(m)
  <2>1. PICK m \in Monitors : Drain(m)
    BY <1>7
  <2>2. /\ buffer' \in [Monitors -> Seq(Ids)] /\ buffer'[m] = <<>>
        /\ \A a \in Monitors \ {m} : buffer'[a] = buffer[a]
        /\ hand' = buffer[m]
        /\ UNCHANGED <<clock, link, names, log, history, born, gone>>
    BY <2>1, DrainEffect
  <2>3. \A a \in Monitors : Len(buffer'[a]) <= MaxBuffer
    <3>1. Len(buffer'[m]) = 0 /\ MaxBuffer \in Nat
      BY <2>2, EmptySeq, NameMapsAssumption
    <3>2. \A a \in Monitors : Len(buffer[a]) <= MaxBuffer
      BY DEF NamesInv
    <3>3. \A a \in Monitors : a = m \/ buffer'[a] = buffer[a]
      BY <2>2
    <3> QED BY <2>2, <3>1, <3>2, <3>3
  <2> QED BY <2>2, <2>3 DEF NamesInv, HeardInv, Ids
<1>8. CASE RecordDnsEvents
  <2>1. log' = log \o hand /\ hand' = <<>>
        /\ UNCHANGED <<clock, link, names, buffer, history, born, gone>>
    BY <1>8 DEF RecordDnsEvents, threads
  <2>2. log' \in Seq(Ids) /\ hand' \in Seq(Ids)
    BY <2>1, ConcatProperties, EmptySeq DEF NamesInv
  <2> QED BY <2>1, <2>2 DEF NamesInv, HeardInv, Ids
<1>9. CASE PruneDnsEvents
  <2>1. PICK R : R = Ids \X Ids
    OBVIOUS
  <2>2. \A i, j \in 1..Len(log) : i < j => <<log[i], log[j]>> \in R
    BY <2>1, ElementOfSeq DEF NamesInv
  <2>3. /\ log' \in Seq(Ids)
        /\ gone' = gone \cup (ToSet(log) \ ToSet(log'))
        /\ UNCHANGED <<clock, link, names, buffer, hand, history, born>>
    BY <1>9, <2>2, PruneEffect
  <2>4. ToSet(log) \subseteq Ids /\ gone \subseteq Ids
    BY ElementsIn DEF NamesInv
  <2>5. gone' \subseteq Ids
    BY <2>3, <2>4
  <2>6. HeardInv'
    BY <2>3 DEF HeardInv, Ids
  <2> QED BY <2>3, <2>5, <2>6 DEF NamesInv, Ids
<1>10. CASE ForgetNames
  <2>1. /\ gone' = gone \cup ToSet(hand) \cup UNION {ToSet(buffer[m]) : m \in Monitors}
        /\ link' = [m \in Monitors |-> "off"]
        /\ names' = [m \in Monitors |-> NoMap]
        /\ buffer' = [m \in Monitors |-> <<>>]
        /\ hand' = <<>>
        /\ UNCHANGED <<clock, log, history, born>>
    BY <1>10 DEF ForgetNames
  <2>2. gone' \subseteq Ids
    <3>1. ToSet(hand) \subseteq Ids /\ \A m \in Monitors : ToSet(buffer[m]) \subseteq Ids
      BY ElementsIn DEF NamesInv
    <3>2. gone \subseteq Ids
      BY DEF NamesInv
    <3>3. PICK all : all = UNION {ToSet(buffer[m]) : m \in Monitors}
      OBVIOUS
    <3>4. all \subseteq Ids
      BY <3>1, <3>3
    <3>5. gone' = gone \cup ToSet(hand) \cup all
      BY <2>1, <3>3
    <3> QED BY <3>1, <3>2, <3>4, <3>5
  <2>3. NoMap \in Maps /\ DOMAIN NoMap = {}
    <3>1. NoMap \in [{} -> [name : Names \cup {Ech}, ts : Nat]]
      BY DEF NoMap
    <3> QED BY <3>1 DEF Maps
  <2>4. \A m \in Monitors : buffer'[m] = <<>> /\ Len(buffer'[m]) <= MaxBuffer
    BY <2>1, EmptySeq, NameMapsAssumption
  <2>5. buffer' \in [Monitors -> Seq(Ids)] /\ hand' \in Seq(Ids)
    BY <2>1, EmptySeq
  <2>6. HeardInv'
    BY <2>1, <2>3 DEF HeardInv
  <2> QED BY <2>1, <2>2, <2>3, <2>4, <2>5, <2>6 DEF NamesInv, Ids
<1>11. CASE StartMonitors(setup.monitors, Windows)
  BY <1>11 DEF StartMonitors, NamesInv, HeardInv, Ids
<1>12. CASE UNCHANGED nameVars
  BY <1>12 DEF nameVars, NamesInv, HeardInv, Ids
<1> QED BY <1>1, <1>2, <1>3, <1>4, <1>5, <1>6, <1>7, <1>8, <1>9, <1>10, <1>11, <1>12 DEF NamesStep

------------------------------------------------------------------------------
(* The control of the cycle.                                                *)

(* The steps of the cycle.                                                  *)
Steps == {"stopped", "sleep", "read", "sockets", "walk", "collect", "edges",
          "drain_dns", "log_dns", "drain_sni", "log_sni"}

(* Where the process is, and what it holds there.                           *)
CtrlInv ==
  /\ setup \in Setups
  /\ pc \in Steps
  /\ pc = "stopped" => /\ \A m \in Monitors : /\ link[m] = "off" /\ names[m] = NoMap
                                              /\ buffer[m] = <<>>
                       /\ left = 0
  /\ link["dns"] = "polling" => Windows
  /\ pc \notin {"log_dns", "log_sni"} => hand = <<>>
  /\ Windows => pc \notin {"sockets", "walk"}

(* The monitors' own steps.                                                 *)
LEMMA MonitorCtrl ==
  ASSUME NamesInv, CtrlInv, NamesNext, UNCHANGED <<kernel, poll, pc, backend, claimed>>
  PROVE  CtrlInv'
<1>0. "dns" \in Monitors /\ "sni" \in Monitors
  BY DEF Monitors
<1>1. CASE Tick
  BY <1>1 DEF Tick, threads, CtrlInv, Windows, kernel
<1>2. CASE Connect
  BY <1>0, <1>2 DEF Connect, CtrlInv, Windows, kernel, NamesInv
<1>3. CASE Disconnect
  BY <1>0, <1>3 DEF Disconnect, CtrlInv, Windows, kernel, NamesInv
<1>4. ASSUME NEW m \in Monitors, NEW name, NEW ip, Receive(m, name, ip)
      PROVE  CtrlInv'
  <2>1. pc # "stopped" /\ UNCHANGED <<pc, setup, link, hand, left>>
    BY <1>4 DEF Receive, CtrlInv, kernel
  <2> QED BY <2>1 DEF CtrlInv, Windows
<1>5. CASE \E name \in Names, ip \in Addresses : Channel(name, ip)
  BY <1>5 DEF Channel, threads, CtrlInv, Windows, kernel
<1>6. CASE PollChannel
  <2>1. pc # "stopped" /\ UNCHANGED <<pc, setup, link, hand, left>>
    BY <1>0, <1>6 DEF PollChannel, CtrlInv, kernel
  <2> QED BY <2>1 DEF CtrlInv, Windows
<1> QED BY <1>0, <1>1, <1>2, <1>3, <1>4, <1>5, <1>6 DEF NamesNext, HandleMessage, CaptureFrame

(* The cycle keeps its own control, and the host it runs on.                *)
LEMMA CtrlStep ==
  ASSUME NamesInv, CtrlInv, [PollNext]_allVars
  PROVE  CtrlInv' /\ UNCHANGED setup
<1>0. "dns" \in Monitors /\ "sni" \in Monitors
  BY DEF Monitors
<1>1. CASE \E c \in Connections : Open(c) \/ Close(c) \/ Expire(c)
  <2>1. pc # "stopped" /\ UNCHANGED <<setup, pc, nameVars>>
    BY <1>1 DEF Open, Close, Expire, Change, CtrlInv
  <2> QED BY <2>1 DEF CtrlInv, nameVars, Windows
<1>2. CASE \E s \in Listeners : CloseListener(s)
  <2>1. pc # "stopped" /\ UNCHANGED <<setup, pc, nameVars>>
    BY <1>2 DEF CloseListener, Change, CtrlInv
  <2> QED BY <2>1 DEF CtrlInv, nameVars, Windows
<1>3. CASE \E pid : Exit(pid) \/ Reuse(pid)
  <2>1. pc # "stopped" /\ UNCHANGED <<setup, pc, nameVars>>
    BY <1>3 DEF Exit, Reuse, Change, CtrlInv
  <2> QED BY <2>1 DEF CtrlInv, nameVars, Windows
<1>4. CASE NamesNext /\ UNCHANGED <<kernel, poll, pc, backend, claimed>>
  BY <1>4, MonitorCtrl DEF kernel
<1>5. CASE Start
  <2>1. pc = "stopped" /\ pc' = "sleep" /\ UNCHANGED <<setup, hand>>
    BY <1>5 DEF Start, StartMonitors, kernel
  <2>2. link'["dns"] = "polling" => Windows
    BY <1>0, <1>5 DEF Start, StartMonitors
  <2> QED BY <2>1, <2>2 DEF CtrlInv, Windows, Steps
<1>6. ASSUME End
      PROVE  CtrlInv' /\ UNCHANGED setup
  <2>1. /\ pc' = "stopped" /\ left' = 0 /\ UNCHANGED setup
        /\ hand' = <<>>
        /\ \A m \in Monitors : link'[m] = "off" /\ names'[m] = NoMap /\ buffer'[m] = <<>>
    BY <1>6 DEF End, ForgetNames
  <2> QED BY <1>0, <2>1 DEF CtrlInv, Windows, Steps
<1>7. CASE Die
  BY <1>6, <1>7 DEF Die
<1>8. CASE PausedCycle
  BY <1>8 DEF PausedCycle, Goto, PruneDnsEvents, threads, kernel, CtrlInv, Windows, Steps
<1>9. CASE Cycle
  <2>1. CASE StartCycle
    BY <2>1 DEF StartCycle, Goto, PruneDnsEvents, threads, CtrlInv, Windows, Steps
  <2>2. CASE Read
    BY <2>2 DEF Read, Goto, nameVars, kernel, CtrlInv, Windows, Steps
  <2>3. CASE ReadDenied
    BY <1>6, <2>3 DEF ReadDenied
  <2>4. CASE ReadWindows
    BY <2>4 DEF ReadWindows, Goto, nameVars, kernel, CtrlInv, Windows, Steps
  <2>5. CASE ReadSockets
    BY <2>5 DEF ReadSockets, Goto, nameVars, kernel, CtrlInv, Windows, Steps
  <2>6. CASE WalkProcesses
    BY <2>6 DEF WalkProcesses, Goto, nameVars, kernel, CtrlInv, Windows, Steps
  <2>7. CASE BuildEdges
    BY <2>7 DEF BuildEdges, Goto, nameVars, kernel, CtrlInv, Windows, Steps
  <2>8. CASE RecordEdges
    BY <2>8 DEF RecordEdges, Goto, nameVars, kernel, CtrlInv, Windows, Steps
  <2>9. CASE DrainMonitor("dns", "drain_dns", "log_dns")
    BY <2>9 DEF DrainMonitor, Drain, Goto, kernel, CtrlInv, Windows, Steps
  <2>10. CASE DrainMonitor("sni", "drain_sni", "log_sni")
    BY <2>10 DEF DrainMonitor, Drain, Goto, kernel, CtrlInv, Windows, Steps
  <2>11. CASE LogDns
    BY <2>11 DEF LogDns, RecordDnsEvents, threads, Goto, kernel, CtrlInv, Windows, Steps
  <2>12. CASE LogSni
    BY <2>12 DEF LogSni, RecordDnsEvents, threads, CtrlInv, Windows, Steps
  <2> QED BY <1>9, <2>1, <2>2, <2>3, <2>4, <2>5, <2>6, <2>7, <2>8, <2>9, <2>10, <2>11, <2>12
          DEF Cycle
<1>10. CASE UNCHANGED allVars
  BY <1>10 DEF allVars, nameVars, CtrlInv, Windows
<1> QED BY <1>1, <1>2, <1>3, <1>4, <1>5, <1>7, <1>8, <1>9, <1>10 DEF PollNext

------------------------------------------------------------------------------
(* Names are fresh.                                                         *)

(* The events of this process that a monitor heard about an address.        *)
Heard(m, ip) ==
  {i \in (born + 1)..Len(history) : history[i].monitor = m /\ history[i].ip = ip}

(* An address is in the map with what was heard last, or is forgotten.      *)
Fresh(m, ip) ==
  IF Heard(m, ip) = {} THEN ip \notin DOMAIN names[m]
  ELSE LET last == history[Max(Heard(m, ip))]
       IN  IF ip \in DOMAIN names[m]
           THEN names[m][ip] = [name |-> last.name, ts |-> last.ts]
           ELSE last.ts + TTL < clock

(* While a Linux process runs, its maps are what was heard last, without    *)
(* some that is too old.                                                    *)
FreshInv == pc # "stopped" /\ ~ Windows => \A m \in Monitors : \A ip : Fresh(m, ip)

(* The last thing heard is an event.                                        *)
LEMMA LastIsEvent ==
  ASSUME NamesInv, NEW m, NEW ip, Heard(m, ip) # {}
  PROVE  /\ Max(Heard(m, ip)) \in Ids /\ Max(Heard(m, ip)) \in Heard(m, ip)
         /\ history[Max(Heard(m, ip))] \in Records
<1>1. PICK n, S : n \in Nat /\ n = Len(history) /\ S = Heard(m, ip)
  BY DEF NamesInv
<1>2. S \in SUBSET (1..n) /\ S # {}
  BY <1>1 DEF Heard, NamesInv
<1>3. Max(S) \in S
  <2>1. n \in Nat
    BY <1>1
  <2> QED BY ONLY <1>2, <2>1, MaxMember
<1>4. Max(S) \in Ids
  BY <1>1, <1>2, <1>3 DEF Ids
<1>5. history[Max(S)] \in Records
  BY <1>4, ElementOfSeq DEF NamesInv, Ids
<1> QED BY <1>1, <1>3, <1>4, <1>5

(* Receiving an event makes it the last heard of its address.               *)
LEMMA FreshReceive ==
  ASSUME NamesInv, NEW m \in Monitors, NEW name \in Names \cup {Ech}, NEW ip \in Addresses,
         Receive(m, name, ip), NEW k \in Monitors, NEW a, Fresh(k, a)
  PROVE  Fresh(k, a)'
<1>0. clock \in Nat /\ TTL \in Nat /\ born \in Nat /\ Len(history) \in Nat /\ born <= Len(history)
  BY NameMapsAssumption DEF NamesInv
<1>1. /\ Len(history') = Len(history) + 1
      /\ \A i \in Ids : history'[i] = history[i]
      /\ history'[Len(history')] = Event(m, name, ip)
      /\ \A b \in Monitors \ {m} : names'[b] = names[b]
      /\ names'[m] = Remember(names[m], ip, name, clock)
      /\ UNCHANGED <<clock, born>>
  BY ReceiveEffect
<1>2. PICK N \in Nat : N = Len(history')
  BY <1>0, <1>1
<1>3. \A i : i \in (born + 1)..N <=> i \in (born + 1)..Len(history) \/ i = N
  BY <1>0, <1>1, <1>2
<1>4. \A i \in (born + 1)..Len(history) : i \in Ids /\ i # N
  BY <1>0, <1>1, <1>2 DEF Ids
<1>5. history'[N] = [monitor |-> m, name |-> name, ip |-> ip, ts |-> clock]
  BY <1>1, <1>2 DEF Event
<1>6. \A i : i \in Heard(k, a)' <=> i \in Heard(k, a) \/ (i = N /\ m = k /\ ip = a)
  <2>1. \A i : i \in Heard(k, a)' <=> /\ i \in (born + 1)..N
                                      /\ history'[i].monitor = k /\ history'[i].ip = a
    BY <1>1, <1>2 DEF Heard
  <2>2. \A i : i \in Heard(k, a) <=> /\ i \in (born + 1)..Len(history)
                                     /\ history[i].monitor = k /\ history[i].ip = a
    BY DEF Heard
  <2> QED BY <1>1, <1>3, <1>4, <1>5, <2>1, <2>2
<1>7. PICK map, t : map = names[m] /\ t = names'[m]
  OBVIOUS
<1>8. map \in Maps
  BY <1>7 DEF NamesInv
<1>9. /\ ip \in DOMAIN t /\ t[ip] = [name |-> name, ts |-> clock]
      /\ DOMAIN t \subseteq DOMAIN map \cup {ip}
      /\ \A b \in DOMAIN map \ {ip} :
           IF b \in DOMAIN t THEN t[b] = map[b] ELSE map[b].ts + TTL < clock
  <2>1. t = Remember(map, ip, name, clock)
    BY <1>1, <1>7
  <2> QED BY <1>0, <1>8, <2>1, RememberIsMap
<1>10. CASE m = k /\ ip = a
  <2>1. N \in Heard(k, a)' /\ \A i \in Heard(k, a)' : i <= N /\ i \in 1..N
    <3>1. \A i \in Heard(k, a) : i \in 1..N
      BY <1>0, <1>1, <1>2 DEF Heard
    <3> QED BY <1>6, <1>10, <1>2, <1>0, <1>1, <3>1
  <2>2. Max(Heard(k, a)') = N
    <3>1. PICK S : S = Heard(k, a)'
      OBVIOUS
    <3>2. S \in SUBSET (1..N) /\ S # {}
      BY <2>1, <3>1
    <3>3. Max(S) \in S /\ \A i \in S : i <= Max(S)
      BY ONLY <3>2, N \in Nat, MaxMember
    <3>4. N \in S /\ \A i \in S : i <= N /\ i \in 1..N
      BY <2>1, <3>1
    <3>5. Max(S) = N
      <4>1. PICK x : x = Max(S)
        OBVIOUS
      <4>2. x \in 1..N /\ N <= x
        BY <3>3, <3>4, <4>1
      <4>3. x = N
        BY <4>2
      <4> QED BY <4>1, <4>3
    <3> QED BY <3>1, <3>5
  <2>3. /\ Heard(k, a)' # {} /\ a \in DOMAIN names'[k]
        /\ names'[k][a] = [name |-> history'[N].name, ts |-> history'[N].ts]
    BY <1>5, <1>7, <1>9, <1>10, <2>1
  <2> QED BY <2>2, <2>3 DEF Fresh
<1>11. CASE ~ (m = k /\ ip = a)
  <2>1. Heard(k, a)' = Heard(k, a)
    BY <1>6, <1>11
  <2>2. Heard(k, a) # {} => history'[Max(Heard(k, a))] = history[Max(Heard(k, a))]
    BY <1>1, LastIsEvent
  <2>3. CASE k # m
    <3>1. names'[k] = names[k]
      BY <1>1, <2>3
    <3> QED BY <1>1, <2>1, <2>2, <3>1 DEF Fresh
  <2>4. CASE k = m
    <3>1. a # ip
      BY <1>11, <2>4
    <3>2. a \in DOMAIN t => a \in DOMAIN map /\ t[a] = map[a]
      BY <1>9, <3>1
    <3>3. a \in DOMAIN map /\ a \notin DOMAIN t => map[a].ts + TTL < clock
      BY <1>9, <3>1
    <3>4. CASE Heard(k, a) = {}
      BY <1>7, <2>1, <2>4, <3>2, <3>4 DEF Fresh
    <3>5. CASE Heard(k, a) # {}
      <4>1. PICK last : last = history[Max(Heard(k, a))] /\ last = history'[Max(Heard(k, a)')]
        BY <2>1, <2>2, <3>5
      <4>2. IF a \in DOMAIN map
            THEN map[a] = [name |-> last.name, ts |-> last.ts]
            ELSE last.ts + TTL < clock
        BY <1>7, <2>4, <3>5, <4>1 DEF Fresh
      <4>3. IF a \in DOMAIN t
            THEN t[a] = [name |-> last.name, ts |-> last.ts]
            ELSE last.ts + TTL < clock
        BY <3>2, <3>3, <4>2
      <4> QED BY <1>1, <1>7, <2>1, <2>4, <3>5, <4>1, <4>3 DEF Fresh
    <3> QED BY <3>4, <3>5
  <2> QED BY <2>3, <2>4
<1> QED BY <1>10, <1>11

(* The maps stay fresh in every step of a Linux process.                    *)
LEMMA FreshStep ==
  ASSUME NamesInv, CtrlInv, FreshInv, NamesStep, CtrlInv', UNCHANGED setup
  PROVE  FreshInv'
<1> SUFFICES ASSUME pc' # "stopped", ~ Windows, NEW m \in Monitors, NEW ip
             PROVE  Fresh(m, ip)'
  BY DEF FreshInv, Windows
<1>0. clock \in Nat /\ TTL \in Nat /\ born \in Nat /\ Len(history) \in Nat /\ "dns" \in Monitors
  BY NameMapsAssumption DEF NamesInv, Monitors
<1>1. CASE pc = "stopped"
  <2>1. StartMonitors(setup.monitors, Windows)
    BY <1>1 DEF NamesStep
  <2>2. born' = Len(history') /\ names'[m] = NoMap
    BY <1>1, <2>1 DEF StartMonitors, CtrlInv
  <2>3. Heard(m, ip)' = {}
    <3>1. Len(history') \in Nat
      BY <1>0, <2>1 DEF StartMonitors
    <3>2. (born' + 1)..Len(history') = {}
      BY <2>2, <3>1
    <3> QED BY <3>2 DEF Heard
  <2> QED BY <2>2, <2>3 DEF Fresh, NoMap
<1>2. CASE pc # "stopped"
  <2>0. Fresh(m, ip)
    BY <1>2 DEF FreshInv
  <2>1. CASE Tick
    <3>1. clock' = clock + 1 /\ UNCHANGED <<names, history, born>>
      BY <2>1 DEF Tick, threads
    <3>2. Heard(m, ip)' = Heard(m, ip)
      BY <3>1 DEF Heard
    <3>3. CASE Heard(m, ip) = {}
      BY <2>0, <3>1, <3>2, <3>3 DEF Fresh
    <3>4. CASE Heard(m, ip) # {}
      <4>1. history[Max(Heard(m, ip))].ts \in Nat
        BY <3>4, LastIsEvent DEF Records
      <4>2. PICK ts \in Nat : ts = history[Max(Heard(m, ip))].ts
        BY <4>1
      <4>3. ts + TTL < clock => ts + TTL < clock'
        BY <1>0, <3>1
      <4> QED BY <2>0, <3>1, <3>2, <3>4, <4>2, <4>3 DEF Fresh
    <3> QED BY <3>3, <3>4
  <2>2. CASE \E a \in Monitors, name \in Names \cup {Ech}, b \in Addresses : Receive(a, name, b)
    <3>1. PICK a \in Monitors, name \in Names \cup {Ech}, b \in Addresses : Receive(a, name, b)
      BY <2>2
    <3>2. PICK x : x = ip
      OBVIOUS
    <3>3. Fresh(m, x)
      BY <2>0, <3>2
    <3>4. Fresh(m, x)'
      BY <3>1, <3>3, FreshReceive
    <3> QED BY <3>2, <3>4
  <2>3. CASE (\E name \in Names, b \in Addresses : Channel(name, b)) \/ PollChannel
    BY <2>3 DEF Channel, PollChannel, CtrlInv
  <2>4. CASE UNCHANGED <<clock, names, history, born>>
    BY <2>0, <2>4 DEF Fresh, Heard
  <2> QED BY <1>2, <2>1, <2>2, <2>3, <2>4 DEF NamesStep, Connect, Disconnect, Drain,
          RecordDnsEvents, PruneDnsEvents, threads, nameVars
<1> QED BY <1>1, <1>2

(* A look-up gives the last name heard that is not too old.                 *)
LEMMA LookupFresh ==
  ASSUME NamesInv, NEW m \in Monitors, NEW ip, Fresh(m, ip)
  PROVE  Lookup(m, ip) = LastHeard(m, ip)
<1>0. clock \in Nat /\ TTL \in Nat
  BY NameMapsAssumption DEF NamesInv
<1>1. LastHeard(m, ip) = IF \/ Heard(m, ip) = {}
                            \/ history[Max(Heard(m, ip))].ts + TTL < clock
                            \/ history[Max(Heard(m, ip))].name = Ech
                         THEN NoName ELSE history[Max(Heard(m, ip))].name
  BY DEF LastHeard, Heard
<1>2. CASE Heard(m, ip) = {}
  BY <1>1, <1>2 DEF Fresh, Lookup
<1>3. CASE Heard(m, ip) # {}
  <2>1. PICK last \in Records : last = history[Max(Heard(m, ip))]
    BY <1>3, LastIsEvent
  <2>2. last.ts \in Nat
    BY DEF Records
  <2>3. CASE ip \in DOMAIN names[m]
    <3>1. names[m][ip] = [name |-> last.name, ts |-> last.ts]
      BY <1>3, <2>1, <2>3 DEF Fresh
    <3>2. names[m][ip].name = last.name /\ names[m][ip].ts = last.ts
      BY <3>1
    <3>3. last.ts + TTL < clock <=> ~ (clock <= last.ts + TTL)
      BY <1>0, <2>2
    <3> QED BY <1>1, <1>3, <2>1, <2>3, <3>2, <3>3 DEF Lookup
  <2>4. CASE ip \notin DOMAIN names[m]
    <3>1. last.ts + TTL < clock
      BY <1>3, <2>1, <2>4 DEF Fresh
    <3> QED BY <1>1, <2>1, <2>4, <3>1 DEF Lookup
  <2> QED BY <2>3, <2>4
<1> QED BY <1>2, <1>3

(* The domain of an edge is looked up for its peer.                         *)
LEMMA EdgeDomain ==
  ASSUME BuildEdges, NEW e \in edges'
  PROVE  e.domain = PeerDomain(e.key.peer)
<1>1. \A ns, ents, socks, own : \A f \in EdgesFrom(ns, ents, socks, own) :
        f.domain = PeerDomain(f.key.peer)
  BY DEF EdgesFrom
<1>2. \A f \in NamespaceEdges : f.domain = PeerDomain(f.key.peer)
  BY <1>1 DEF NamespaceEdges
<1>3. e \in EdgesFrom("host", entries, sockets, owned) \/ e \in NamespaceEdges
  BY DEF BuildEdges
<1> QED BY <1>1, <1>2, <1>3

(* NamesFresh, of one step.                                                 *)
FreshEdges ==
  BuildEdges => \A e \in edges' :
       IF Windows
       THEN e.domain \in {NoName} \cup {v.name : v \in {w \in ToSet(history) : w.ip = e.key.peer}}
       ELSE e.domain = IF LastHeard("dns", e.key.peer) # NoName
                       THEN LastHeard("dns", e.key.peer)
                       ELSE LastHeard("sni", e.key.peer)

(* Fresh maps give the edges fresh names.                                   *)
LEMMA NamesFreshStep ==
  ASSUME NamesInv, HeardInv, CtrlInv, FreshInv
  PROVE  FreshEdges
<1> SUFFICES ASSUME BuildEdges, NEW e \in edges'
             PROVE  IF Windows
                    THEN e.domain \in {NoName} \cup
                           {v.name : v \in {w \in ToSet(history) : w.ip = e.key.peer}}
                    ELSE e.domain = IF LastHeard("dns", e.key.peer) # NoName
                                    THEN LastHeard("dns", e.key.peer)
                                    ELSE LastHeard("sni", e.key.peer)
  BY DEF FreshEdges
<1>0. "dns" \in Monitors /\ "sni" \in Monitors /\ pc # "stopped"
  BY DEF Monitors, BuildEdges
<1>1. PICK ip : ip = e.key.peer
  OBVIOUS
<1>2. e.domain = PeerDomain(ip)
  BY <1>1, EdgeDomain
<1>3. CASE Windows
  <2>1. ASSUME NEW m \in Monitors
        PROVE  Lookup(m, ip) \in {NoName} \cup {v.name : v \in {w \in ToSet(history) : w.ip = ip}}
    <3>1. CASE Lookup(m, ip) = NoName
      BY <3>1
    <3>2. CASE Lookup(m, ip) # NoName
      <4>1. ip \in DOMAIN names[m] /\ Lookup(m, ip) = names[m][ip].name
        BY <3>2 DEF Lookup
      <4>2. PICK i \in Ids : history[i].ip = ip /\ history[i].name = names[m][ip].name
        BY <4>1 DEF HeardInv
      <4>3. history[i] \in ToSet(history)
        BY DEF NamesInv, Ids, ToSet
      <4> QED BY <4>1, <4>2, <4>3
    <3> QED BY <3>1, <3>2
  <2> QED BY <1>0, <1>1, <1>2, <1>3, <2>1 DEF PeerDomain
<1>4. CASE ~ Windows
  <2>1. Fresh("dns", ip) /\ Fresh("sni", ip)
    BY <1>0, <1>4 DEF FreshInv
  <2>2. Lookup("dns", ip) = LastHeard("dns", ip) /\ Lookup("sni", ip) = LastHeard("sni", ip)
    BY <1>0, <2>1, LookupFresh
  <2> QED BY <1>1, <1>2, <1>4, <2>2 DEF PeerDomain
<1> QED BY <1>3, <1>4

------------------------------------------------------------------------------
(* Events are logged once.                                                  *)

(* Events of one monitor come in the order of their numbers.                *)
Before(h, x, y) == h[x].monitor = h[y].monitor => x < y
Ordered(h, s)   == \A i, j \in 1..Len(s) : i < j => Before(h, s[i], s[j])
Follow(h, s, t) == \A x \in ToSet(s), y \in ToSet(t) : Before(h, x, y)

(* The events the collector or a monitor still has.                         *)
Held == ToSet(buffer["dns"]) \cup ToSet(buffer["sni"]) \cup ToSet(hand) \cup ToSet(log)

(* On Linux the log comes before the hand and the hand before the buffers,  *)
(* each in order, and what is in none of them is gone.                      *)
OrderInv ==
  ~ Windows =>
    /\ \A m \in Monitors : /\ \A x \in ToSet(buffer[m]) : history[x].monitor = m
                           /\ Ordered(history, buffer[m])
                           /\ Follow(history, hand, buffer[m]) /\ Follow(history, log, buffer[m])
    /\ Ordered(history, hand) /\ Ordered(history, log) /\ Follow(history, log, hand)
    /\ gone \cap Held = {}
    /\ Ids \subseteq gone \cup Held

(* A number is in a sequence where it stands in it.                         *)
LEMMA InToSet ==
  ASSUME NEW S, NEW s \in Seq(S)
  PROVE  \A x : x \in ToSet(s) <=> \E i \in 1..Len(s) : s[i] = x
BY LenProperties DEF ToSet

(* Nothing is in order, and follows anything.                               *)
LEMMA EmptyOrdered ==
  ASSUME NEW h, NEW s
  PROVE  /\ ToSet(<<>>) = {} /\ Ordered(h, <<>>)
         /\ Follow(h, <<>>, s) /\ Follow(h, s, <<>>)
<1>1. ToSet(<<>>) = {}
  <2>1. PICK e \in Seq({}) : e = <<>> /\ Len(e) = 0
    BY EmptySeq
  <2>2. \A x : x \in ToSet(e) <=> \E i \in 1..Len(e) : e[i] = x
    BY InToSet
  <2> QED BY <2>1, <2>2
<1> QED BY <1>1, EmptySeq DEF Ordered, Follow

(* Two sequences in order, the second after the first, are in order.        *)
LEMMA ConcatOrdered ==
  ASSUME NEW S, NEW h, NEW s \in Seq(S), NEW t \in Seq(S)
  PROVE  /\ \A x : x \in ToSet(s \o t) <=> x \in ToSet(s) \/ x \in ToSet(t)
         /\ Ordered(h, s) /\ Ordered(h, t) /\ Follow(h, s, t) => Ordered(h, s \o t)
<1> DEFINE u == s \o t
           a == Len(s)
           b == Len(t)
<1>1. /\ u \in Seq(S) /\ Len(u) = a + b /\ a \in Nat /\ b \in Nat
      /\ \A i \in 1..(a + b) : u[i] = IF i <= a THEN s[i] ELSE t[i - a]
  BY ConcatProperties
<1> HIDE DEF u, a, b
<1>2. \A i \in 1..a : i \in 1..(a + b) /\ u[i] = s[i]
  BY <1>1
<1>3. \A i \in 1..b : a + i \in 1..(a + b) /\ u[a + i] = t[i]
  <2> TAKE i \in 1..b
  <2>1. a + i \in 1..(a + b) /\ ~ (a + i <= a) /\ (a + i) - a = i
    BY <1>1
  <2> QED BY <1>1, <2>1
<1>4. \A i \in 1..(a + b) : i \in 1..a \/ \E j \in 1..b : i = a + j
  <2> TAKE i \in 1..(a + b)
  <2>1. CASE i <= a
    BY <1>1, <2>1
  <2>2. CASE ~ (i <= a)
    <3>1. i - a \in 1..b /\ i = a + (i - a)
      BY <1>1, <2>2
    <3> QED BY <3>1
  <2> QED BY <2>1, <2>2
<1>5. ASSUME NEW x
      PROVE  x \in ToSet(u) <=> x \in ToSet(s) \/ x \in ToSet(t)
  <2>1. x \in ToSet(u) <=> \E i \in 1..(a + b) : u[i] = x
    BY <1>1, InToSet
  <2>2. x \in ToSet(s) <=> \E i \in 1..a : s[i] = x
    BY InToSet DEF a
  <2>3. x \in ToSet(t) <=> \E i \in 1..b : t[i] = x
    BY InToSet DEF b
  <2> QED BY <1>2, <1>3, <1>4, <2>1, <2>2, <2>3
<1>6. ASSUME Ordered(h, s), Ordered(h, t), Follow(h, s, t)
      PROVE  Ordered(h, u)
  <2> SUFFICES ASSUME NEW i \in 1..(a + b), NEW j \in 1..(a + b), i < j
               PROVE  Before(h, u[i], u[j])
    BY <1>1 DEF Ordered
  <2>1. CASE j \in 1..a
    <3>1. i \in 1..a
      BY <1>1, <2>1
    <3>2. Before(h, s[i], s[j])
      BY <1>6, <2>1, <3>1 DEF Ordered, a
    <3> QED BY <1>2, <2>1, <3>1, <3>2
  <2>2. CASE i \in 1..a /\ \E k \in 1..b : j = a + k
    <3>1. PICK k \in 1..b : j = a + k
      BY <2>2
    <3>2. s[i] \in ToSet(s) /\ t[k] \in ToSet(t)
      BY <2>2, InToSet DEF a, b
    <3>3. Before(h, s[i], t[k])
      BY <1>6, <3>2 DEF Follow
    <3> QED BY <1>2, <1>3, <2>2, <3>1, <3>3
  <2>3. CASE (\E k \in 1..b : i = a + k) /\ (\E k \in 1..b : j = a + k)
    <3>1. PICK k \in 1..b, l \in 1..b : i = a + k /\ j = a + l
      BY <2>3
    <3>2. k < l
      BY <1>1, <3>1
    <3>3. Before(h, t[k], t[l])
      BY <1>6, <3>2 DEF Ordered, b
    <3> QED BY <1>3, <3>1, <3>3
  <2> QED BY <1>4, <2>1, <2>2, <2>3
<1> QED BY <1>5, <1>6 DEF u

(* The next event goes behind the others.                                   *)
LEMMA AppendOrdered ==
  ASSUME NEW S, NEW h, NEW s \in Seq(S), NEW y \in S
  PROVE  /\ \A x : x \in ToSet(Append(s, y)) <=> x \in ToSet(s) \/ x = y
         /\ Ordered(h, s) /\ (\A x \in ToSet(s) : Before(h, x, y)) => Ordered(h, Append(s, y))
<1>1. <<y>> \in Seq(S) /\ Append(s, y) = s \o <<y>> /\ Len(<<y>>) = 1 /\ <<y>>[1] = y
  BY AppendIsConcat
<1>2. PICK t \in Seq(S) : t = <<y>>
  BY <1>1
<1>3. \A x : x \in ToSet(t) <=> x = y
  <2>1. \A x : x \in ToSet(t) <=> \E i \in 1..Len(t) : t[i] = x
    BY InToSet
  <2>2. Len(t) = 1 /\ t[1] = y
    BY <1>1, <1>2
  <2>3. \A i \in 1..Len(t) : i = 1
    BY <2>2
  <2> QED BY <2>1, <2>2, <2>3
<1>4. Ordered(h, t)
  BY <1>1, <1>2 DEF Ordered
<1>5. (\A x \in ToSet(s) : Before(h, x, y)) => Follow(h, s, t)
  BY <1>3 DEF Follow
<1> QED BY <1>1, <1>2, <1>3, <1>4, <1>5, ConcatOrdered

(* What holds of the events so far holds when the history grows.            *)
LEMMA HistoryGrows ==
  ASSUME NEW n \in Nat, NEW h, NEW g, \A i \in 1..n : g[i] = h[i],
         NEW s \in Seq(1..n), NEW t \in Seq(1..n)
  PROVE  /\ Ordered(h, s) => Ordered(g, s)
         /\ Follow(h, s, t) => Follow(g, s, t)
<1>1. \A x, y \in 1..n : Before(h, x, y) => Before(g, x, y)
  BY DEF Before
<1>2. \A i \in 1..Len(s) : s[i] \in 1..n
  BY ElementOfSeq
<1>3. ToSet(s) \subseteq 1..n /\ ToSet(t) \subseteq 1..n
  BY ElementsIn
<1>4. ASSUME Ordered(h, s)
      PROVE  Ordered(g, s)
  BY <1>1, <1>2, <1>4 DEF Ordered
<1>5. ASSUME Follow(h, s, t)
      PROVE  Follow(g, s, t)
  BY <1>1, <1>3, <1>5 DEF Follow
<1> QED BY <1>4, <1>5

(* An event that is received is the last of its buffer, or gone.            *)
LEMMA OrderReceive ==
  ASSUME NamesInv, OrderInv, ~ Windows, UNCHANGED setup,
         NEW m \in Monitors, NEW name \in Names \cup {Ech}, NEW ip \in Addresses,
         Receive(m, name, ip)
  PROVE  OrderInv'
<1>0. "dns" \in Monitors /\ "sni" \in Monitors /\ \A k \in Monitors : k = "dns" \/ k = "sni"
  BY DEF Monitors
<1>1. /\ Len(history') = Len(history) + 1 /\ Len(history) \in Nat
      /\ \A i \in Ids : history'[i] = history[i]
      /\ history'[Len(history')] = Event(m, name, ip)
      /\ \A a \in Monitors \ {m} : buffer'[a] = buffer[a]
      /\ buffer'[m] = buffer[m] \/ buffer'[m] = Append(buffer[m], Len(history'))
      /\ gone' = gone \cup ({Len(history')} \ ToSet(buffer'[m]))
      /\ UNCHANGED <<hand, log>>
  BY ReceiveEffect
<1>2. PICK N \in Nat, n \in Nat : N = n + 1 /\ n = Len(history) /\ N = Len(history')
  BY <1>1
<1>3. PICK g, h : g = history' /\ h = history
  OBVIOUS
<1>4. /\ \A i \in 1..n : g[i] = h[i]
      /\ g[N].monitor = m
  BY <1>1, <1>2, <1>3 DEF Ids, Event
<1>5. /\ hand \in Seq(1..n) /\ log \in Seq(1..n) /\ \A k \in Monitors : buffer[k] \in Seq(1..n)
      /\ gone \subseteq 1..n
  BY <1>2 DEF NamesInv, Ids
<1>6. /\ ToSet(hand) \subseteq 1..n /\ ToSet(log) \subseteq 1..n
      /\ \A k \in Monitors : ToSet(buffer[k]) \subseteq 1..n
  BY <1>5, ElementsIn
<1>7. \A x \in 1..n : Before(g, x, N) /\ x # N
  BY <1>2 DEF Before
<1>8. /\ Ordered(g, hand) /\ Ordered(g, log) /\ Follow(g, log, hand)
      /\ \A k \in Monitors : /\ Ordered(g, buffer[k])
                             /\ Follow(g, hand, buffer[k]) /\ Follow(g, log, buffer[k])
                             /\ \A x \in ToSet(buffer[k]) : g[x].monitor = k
  <2>1. \A s, t \in Seq(1..n) : /\ Ordered(h, s) => Ordered(g, s)
                                /\ Follow(h, s, t) => Follow(g, s, t)
    BY <1>2, <1>4, HistoryGrows
  <2> QED BY <1>3, <1>4, <1>5, <1>6, <2>1 DEF OrderInv
<1>9. /\ \A x \in ToSet(buffer'[m]) : g[x].monitor = m
      /\ Ordered(g, buffer'[m])
      /\ Follow(g, hand, buffer'[m]) /\ Follow(g, log, buffer'[m])
      /\ \A x : x \in ToSet(buffer[m]) => x \in ToSet(buffer'[m])
      /\ \A x : x \in ToSet(buffer'[m]) => x \in ToSet(buffer[m]) \/ x = N
  <2>1. CASE buffer'[m] = buffer[m]
    BY <1>8, <2>1
  <2>2. CASE buffer'[m] = Append(buffer[m], Len(history'))
    <3>1. PICK s, t : s = buffer[m] /\ t = buffer'[m]
      OBVIOUS
    <3>2. s \in Seq(1..N) /\ N \in 1..N /\ t = Append(s, N)
      <4>1. 1..n \subseteq 1..N
        BY <1>2
      <4>2. s \in Seq(1..n)
        BY <1>5, <3>1
      <4>3. s \in Seq(1..N)
        BY <4>1, <4>2, SeqMonotonic
      <4> QED BY <1>2, <2>2, <3>1, <4>3
    <3>3. /\ \A x : x \in ToSet(t) <=> x \in ToSet(s) \/ x = N
          /\ Ordered(g, s) /\ (\A x \in ToSet(s) : Before(g, x, N)) => Ordered(g, t)
      <4>1. PICK S : S = 1..N
        OBVIOUS
      <4>2. s \in Seq(S) /\ N \in S
        BY <3>2, <4>1
      <4>3. PICK u : u = Append(s, N)
        OBVIOUS
      <4>4. /\ \A x : x \in ToSet(u) <=> x \in ToSet(s) \/ x = N
            /\ Ordered(g, s) /\ (\A x \in ToSet(s) : Before(g, x, N)) => Ordered(g, u)
        BY ONLY <4>2, <4>3, AppendOrdered
      <4> QED BY <3>2, <4>3, <4>4
    <3>4. /\ Ordered(g, s) /\ ToSet(s) \subseteq 1..n
          /\ Follow(g, hand, s) /\ Follow(g, log, s)
          /\ \A x \in ToSet(s) : g[x].monitor = m
      BY <1>6, <1>8, <3>1
    <3>5. Ordered(g, t)
      BY <1>7, <3>3, <3>4
    <3>6. Follow(g, hand, t) /\ Follow(g, log, t)
      BY <1>6, <1>7, <3>3, <3>4 DEF Follow
    <3>7. \A x \in ToSet(t) : g[x].monitor = m
      BY <1>4, <3>3, <3>4
    <3> QED BY <3>1, <3>3, <3>5, <3>6, <3>7
  <2> QED BY <1>1, <2>1, <2>2
<1>10. \A k \in Monitors : /\ \A x \in ToSet(buffer'[k]) : g[x].monitor = k
                           /\ Ordered(g, buffer'[k])
                           /\ Follow(g, hand, buffer'[k]) /\ Follow(g, log, buffer'[k])
  BY <1>1, <1>8, <1>9
<1>11. /\ \A x : x \in Held => x \in Held'
       /\ \A x : x \in Held' => x \in Held \/ (x = N /\ x \in ToSet(buffer'[m]))
       /\ N \in ToSet(buffer'[m]) => N \in Held'
  BY <1>0, <1>1, <1>9 DEF Held
<1>12. Held \subseteq 1..n
  BY <1>0, <1>6 DEF Held
<1>13. /\ gone \cap Held = {}
       /\ 1..n \subseteq gone \cup Held
  BY <1>2 DEF OrderInv, Ids
<1>14. gone' = gone \cup ({N} \ ToSet(buffer'[m]))
  BY <1>1, <1>2
<1>15. gone' \cap Held' = {}
  <2> SUFFICES ASSUME NEW x, x \in gone', x \in Held' PROVE FALSE
    OBVIOUS
  <2>1. N \notin 1..n
    BY <1>2
  <2> QED BY <1>5, <1>11, <1>12, <1>13, <1>14, <2>1
<1>16. Ids' \subseteq gone' \cup Held'
  <2> SUFFICES ASSUME NEW x \in 1..N PROVE x \in gone' \/ x \in Held'
    BY <1>2 DEF Ids
  <2>1. x \in 1..n \/ x = N
    BY <1>2
  <2> QED BY <1>11, <1>13, <1>14, <2>1
<1> QED BY <1>1, <1>3, <1>8, <1>10, <1>15, <1>16 DEF OrderInv

(* Every step keeps the events of a monitor in order and in one place.      *)
LEMMA OrderStep ==
  ASSUME NamesInv, CtrlInv, OrderInv, NamesStep, UNCHANGED setup
  PROVE  OrderInv'
<1> SUFFICES ASSUME ~ Windows PROVE OrderInv'
  BY DEF OrderInv, Windows
<1>0. "dns" \in Monitors /\ "sni" \in Monitors /\ \A k \in Monitors : k = "dns" \/ k = "sni"
  BY DEF Monitors
<1>1. /\ hand \in Seq(Ids) /\ log \in Seq(Ids) /\ \A k \in Monitors : buffer[k] \in Seq(Ids)
      /\ gone \subseteq Ids
  BY DEF NamesInv
<1>2. /\ \A m \in Monitors : /\ \A x \in ToSet(buffer[m]) : history[x].monitor = m
                             /\ Ordered(history, buffer[m])
                             /\ Follow(history, hand, buffer[m]) /\ Follow(history, log, buffer[m])
      /\ Ordered(history, hand) /\ Ordered(history, log) /\ Follow(history, log, hand)
      /\ gone \cap Held = {}
      /\ Ids \subseteq gone \cup Held
  BY DEF OrderInv
<1>3. ASSUME UNCHANGED <<buffer, hand, log, history, gone>>
      PROVE  OrderInv'
  <2>1. Held' = Held /\ Ids' = Ids
    BY <1>3 DEF Held, Ids
  <2> QED BY <1>2, <1>3, <2>1 DEF OrderInv
<1>4. CASE \E m \in Monitors, name \in Names \cup {Ech}, ip \in Addresses : Receive(m, name, ip)
  BY <1>4, OrderReceive
<1>5. CASE (\E name \in Names, ip \in Addresses : Channel(name, ip)) \/ PollChannel
  BY <1>5 DEF Channel, PollChannel, CtrlInv
<1>6. CASE pc \in {"drain_dns", "drain_sni"} /\ \E m \in Monitors : Drain(m)
  <2>1. PICK m \in Monitors : Drain(m)
    BY <1>6
  <2>2. /\ buffer'[m] = <<>> /\ \A a \in Monitors \ {m} : buffer'[a] = buffer[a]
        /\ hand' = buffer[m] /\ UNCHANGED <<log, history, gone>>
    BY <2>1, DrainEffect
  <2>3. hand = <<>>
    BY <1>6 DEF CtrlInv
  <2>4. \A s : ToSet(<<>>) = {} /\ Ordered(history, <<>>)
               /\ Follow(history, <<>>, s) /\ Follow(history, s, <<>>)
    BY EmptyOrdered
  <2>5. Held' = Held /\ Ids' = Ids
    BY <1>0, <2>2, <2>3, <2>4 DEF Held, Ids
  <2>6. \A a \in Monitors \ {m} : Follow(history, buffer[m], buffer[a])
    BY <1>2 DEF Follow, Before
  <2>7. \A a \in Monitors : /\ \A x \in ToSet(buffer'[a]) : history[x].monitor = a
                            /\ Ordered(history, buffer'[a])
                            /\ Follow(history, hand', buffer'[a])
                            /\ Follow(history, log, buffer'[a])
    <3> TAKE a \in Monitors
    <3>1. CASE a = m
      BY <2>2, <2>4, <3>1
    <3>2. CASE a # m
      BY <1>2, <2>2, <2>6, <3>2
    <3> QED BY <3>1, <3>2
  <2> QED BY <1>2, <2>2, <2>5, <2>7 DEF OrderInv
<1>7. CASE RecordDnsEvents
  <2>1. log' = log \o hand /\ hand' = <<>> /\ UNCHANGED <<buffer, history, gone>>
    BY <1>7 DEF RecordDnsEvents, threads
  <2>2. /\ \A x : x \in ToSet(log') <=> x \in ToSet(log) \/ x \in ToSet(hand)
        /\ Ordered(history, log')
    <3>1. PICK s, t, S, h : s = log /\ t = hand /\ S = Ids /\ h = history
      OBVIOUS
    <3>2. s \in Seq(S) /\ t \in Seq(S) /\ Ordered(h, s) /\ Ordered(h, t) /\ Follow(h, s, t)
      BY <1>1, <1>2, <3>1
    <3>3. /\ \A x : x \in ToSet(s \o t) <=> x \in ToSet(s) \/ x \in ToSet(t)
          /\ Ordered(h, s \o t)
      BY ONLY <3>2, ConcatOrdered
    <3> QED BY <2>1, <3>1, <3>3
  <2>3. \A s : ToSet(<<>>) = {} /\ Ordered(history, <<>>)
               /\ Follow(history, <<>>, s) /\ Follow(history, s, <<>>)
    BY EmptyOrdered
  <2>4. Held' = Held /\ Ids' = Ids
    BY <2>1, <2>2, <2>3 DEF Held, Ids
  <2>5. \A m \in Monitors : Follow(history, log', buffer[m])
    BY <1>2, <2>2 DEF Follow
  <2> QED BY <1>2, <2>1, <2>2, <2>3, <2>4, <2>5 DEF OrderInv
<1>8. CASE PruneDnsEvents
  <2>1. PICK R : R = {p \in Ids \X Ids : Before(history, p[1], p[2])}
    OBVIOUS
  <2>2. \A i, j \in 1..Len(log) : i < j => <<log[i], log[j]>> \in R
    BY <1>1, <1>2, <2>1, ElementOfSeq DEF Ordered
  <2>3. /\ log' \in Seq(Ids)
        /\ ToSet(log') \subseteq ToSet(log)
        /\ \A i, j \in 1..Len(log') : i < j => <<log'[i], log'[j]>> \in R
        /\ gone' = gone \cup (ToSet(log) \ ToSet(log'))
        /\ UNCHANGED <<buffer, hand, history>>
    BY <1>8, <2>2, PruneEffect
  <2>4. Ordered(history, log')
    BY <2>1, <2>3 DEF Ordered
  <2>5. /\ Follow(history, log', hand)
        /\ \A m \in Monitors : Follow(history, log', buffer[m])
    BY <1>2, <2>3 DEF Follow
  <2>6. ASSUME NEW x \in ToSet(log)
        PROVE  x \notin ToSet(hand) /\ \A m \in Monitors : x \notin ToSet(buffer[m])
    <3>1. x \in Ids /\ ~ (x < x)
      BY <1>1, ElementsIn DEF Ids
    <3>2. ~ Before(history, x, x)
      BY <3>1 DEF Before
    <3> QED BY <1>2, <3>2 DEF Follow
  <2>7. Ids' = Ids /\ ToSet(log) \subseteq Ids
    BY <1>1, <2>3, ElementsIn DEF Ids
  <2>8. gone' \cap Held' = {} /\ Ids' \subseteq gone' \cup Held'
    <3>1. \A x : x \in Held <=> \/ x \in ToSet(buffer["dns"]) \/ x \in ToSet(buffer["sni"])
                                \/ x \in ToSet(hand) \/ x \in ToSet(log)
      BY DEF Held
    <3>2. \A x : x \in Held' <=> \/ x \in ToSet(buffer["dns"]) \/ x \in ToSet(buffer["sni"])
                                 \/ x \in ToSet(hand) \/ x \in ToSet(log')
      BY <2>3 DEF Held
    <3> QED BY <1>0, <1>2, <2>3, <2>6, <2>7, <3>1, <3>2
  <2> QED BY <1>2, <2>3, <2>4, <2>5, <2>8 DEF OrderInv
<1>9. CASE ForgetNames
  <2>1. /\ \A m \in Monitors : buffer'[m] = <<>>
        /\ hand' = <<>> /\ UNCHANGED <<log, history>>
    BY <1>9 DEF ForgetNames
  <2>2. \A x : x \in gone' <=> \/ x \in gone \/ x \in ToSet(hand)
                               \/ x \in ToSet(buffer["dns"]) \/ x \in ToSet(buffer["sni"])
    <3>1. gone' = gone \cup ToSet(hand) \cup UNION {ToSet(buffer[m]) : m \in Monitors}
      BY <1>9 DEF ForgetNames
    <3>2. PICK all : all = UNION {ToSet(buffer[m]) : m \in Monitors}
      OBVIOUS
    <3>3. \A x : x \in all <=> x \in ToSet(buffer["dns"]) \/ x \in ToSet(buffer["sni"])
      BY <1>0, <3>2
    <3>4. gone' = gone \cup ToSet(hand) \cup all
      BY <3>1, <3>2
    <3> QED BY <3>3, <3>4
  <2>3. \A s : ToSet(<<>>) = {} /\ Ordered(history, <<>>)
               /\ Follow(history, <<>>, s) /\ Follow(history, s, <<>>)
    BY EmptyOrdered
  <2>4. ASSUME NEW x \in ToSet(log)
        PROVE  x \notin ToSet(hand) /\ \A m \in Monitors : x \notin ToSet(buffer[m])
    <3>1. x \in Ids /\ ~ (x < x)
      BY <1>1, ElementsIn DEF Ids
    <3>2. ~ Before(history, x, x)
      BY <3>1 DEF Before
    <3> QED BY <1>2, <3>2 DEF Follow
  <2>5. Held' = ToSet(log) /\ Ids' = Ids
    BY <1>0, <2>1, <2>3 DEF Held, Ids
  <2>6. gone' \cap Held' = {} /\ Ids' \subseteq gone' \cup Held'
    BY <1>0, <1>2, <2>2, <2>4, <2>5 DEF Held
  <2> QED BY <1>2, <2>1, <2>3, <2>6 DEF OrderInv
<1> QED BY <1>3, <1>4, <1>5, <1>6, <1>7, <1>8, <1>9 DEF NamesStep, Tick, Connect, Disconnect,
        StartMonitors, threads, nameVars

(* A sequence that has every element once.                                  *)
Distinct(s) == IsFiniteSet(ToSet(s)) /\ Len(s) = Cardinality(ToSet(s))

(* Where the events of each monitor are in order, none is there twice.      *)
LEMMA OrderedDistinct ==
  ASSUME NEW n \in Nat, NEW h, NEW s \in Seq(1..n), Ordered(h, s)
  PROVE  Distinct(s)
<1>1. PICK k, T : k \in Nat /\ k = Len(s) /\ T = ToSet(s)
  BY LenProperties
<1>2. s \in [1..k -> T]
  BY <1>1, InToSet, LenProperties
<1>3. \A y \in T : \E i \in 1..k : s[i] = y
  BY <1>1, InToSet
<1>4. s \in Surjection(1..k, T)
  BY <1>2, <1>3 DEF Surjection
<1>5. \A i, j \in 1..k : s[i] = s[j] => i = j
  <2>1. \A i \in 1..k : s[i] \in Nat
    BY <1>1, ElementOfSeq
  <2>2. \A i, j \in 1..k : i < j => (h[s[i]].monitor = h[s[j]].monitor => s[i] < s[j])
    BY <1>1 DEF Ordered, Before
  <2>3. \A i, j \in 1..k : i < j => s[i] # s[j]
    <3> SUFFICES ASSUME NEW i \in 1..k, NEW j \in 1..k, i < j, s[i] = s[j] PROVE FALSE
      OBVIOUS
    <3>1. s[i] < s[j]
      BY <2>2
    <3>2. PICK x \in Nat : x = s[i] /\ x = s[j]
      BY <2>1
    <3> QED BY <3>1, <3>2
  <2>4. \A i, j \in 1..k : i # j => i < j \/ j < i
    BY <1>1
  <2> QED BY <2>3, <2>4
<1>6. s \in Injection(1..k, T)
  BY <1>2, <1>5 DEF Injection, IsInjective
<1>7. IsFiniteSet(1..k) /\ Cardinality(1..k) = k
  <2>1. 1 \in Int /\ k \in Int /\ (1 > k => k = 0) /\ k - 1 + 1 = k
    BY <1>1
  <2>2. IsFiniteSet(1..k) /\ Cardinality(1..k) = IF 1 > k THEN 0 ELSE k - 1 + 1
    BY ONLY <2>1, FS_Interval
  <2> QED BY <2>1, <2>2
<1>8. Cardinality(T) = Cardinality(1..k) /\ IsFiniteSet(T)
  BY ONLY <1>4, <1>6, <1>7, FS_Surjection
<1> QED BY <1>1, <1>7, <1>8 DEF Distinct

(* Sequences without a common element stay distinct one after the other.    *)
LEMMA ConcatDistinct ==
  ASSUME NEW S, NEW s \in Seq(S), NEW t \in Seq(S), Distinct(s), Distinct(t),
         \A x \in ToSet(s) : x \notin ToSet(t)
  PROVE  Distinct(s \o t)
<1>1. PICK A, B, C : A = ToSet(s) /\ B = ToSet(t) /\ C = ToSet(s \o t)
  OBVIOUS
<1>2. C = A \cup B /\ A \cap B = {}
  BY <1>1, ConcatOrdered
<1>3. IsFiniteSet(A) /\ IsFiniteSet(B)
  BY <1>1 DEF Distinct
<1>4. IsFiniteSet(C) /\ Cardinality(C) = Cardinality(A) + Cardinality(B)
  <2>1. Cardinality(A \cap B) = 0
    BY <1>2, FS_EmptySet
  <2>2. /\ IsFiniteSet(A \cup B)
        /\ Cardinality(A \cup B) = Cardinality(A) + Cardinality(B) - Cardinality(A \cap B)
    BY ONLY <1>3, FS_Union
  <2>3. Cardinality(A) \in Nat /\ Cardinality(B) \in Nat
    BY <1>3, FS_CardinalityType
  <2> QED BY <1>2, <2>1, <2>2, <2>3
<1>5. Len(s \o t) = Len(s) + Len(t)
  BY ConcatProperties
<1> QED BY <1>1, <1>4, <1>5 DEF Distinct

(* What the ordering of the events says of LoggedOnce.                      *)
LEMMA OrderLoggedOnce ==
  ASSUME NamesInv, OrderInv
  PROVE  LoggedOnce
<1> SUFFICES ASSUME ~ Windows PROVE LoggedOnce
  BY DEF LoggedOnce
<1>1. PICK n, h, d, b, t, l :
        /\ n \in Nat /\ n = Len(history) /\ h = history
        /\ d = buffer["dns"] /\ b = buffer["sni"] /\ t = hand /\ l = log
  <2>1. Len(history) \in Nat
    BY LenProperties DEF NamesInv
  <2> QED BY <2>1
<1>2. "dns" \in Monitors /\ "sni" \in Monitors
  BY DEF Monitors
<1>3. d \in Seq(1..n) /\ b \in Seq(1..n) /\ t \in Seq(1..n) /\ l \in Seq(1..n)
  BY <1>1, <1>2 DEF NamesInv, Ids
<1>4. /\ Ordered(h, d) /\ Ordered(h, b) /\ Ordered(h, t) /\ Ordered(h, l)
      /\ Follow(h, t, d) /\ Follow(h, t, b) /\ Follow(h, l, t) /\ Follow(h, l, d)
      /\ Follow(h, l, b)
      /\ \A x \in ToSet(d) : h[x].monitor = "dns"
      /\ \A x \in ToSet(b) : h[x].monitor = "sni"
  BY <1>1, <1>2 DEF OrderInv
<1>5. Distinct(d) /\ Distinct(b) /\ Distinct(t) /\ Distinct(l)
  <2>1. n \in Nat
    BY <1>1
  <2> QED BY <1>3, <1>4, <2>1, OrderedDistinct
<1>6. ToSet(d) \subseteq 1..n /\ ToSet(b) \subseteq 1..n /\ ToSet(t) \subseteq 1..n
      /\ ToSet(l) \subseteq 1..n
  BY <1>3, ElementsIn
<1>7. \A x \in 1..n : ~ Before(h, x, x)
  BY DEF Before
<1>8. /\ \A x \in ToSet(d) : x \notin ToSet(b)
      /\ \A x \in ToSet(t) : x \notin ToSet(d) /\ x \notin ToSet(b)
      /\ \A x \in ToSet(l) : x \notin ToSet(d) /\ x \notin ToSet(b) /\ x \notin ToSet(t)
  <2>1. "dns" # "sni"
    OBVIOUS
  <2>2. \A x \in ToSet(d) : x \notin ToSet(b)
    BY <1>4, <2>1
  <2>3. \A x \in ToSet(t) : x \notin ToSet(d) /\ x \notin ToSet(b)
    BY <1>4, <1>6, <1>7 DEF Follow
  <2>4. \A x \in ToSet(l) : x \notin ToSet(d) /\ x \notin ToSet(b) /\ x \notin ToSet(t)
    BY <1>4, <1>6, <1>7 DEF Follow
  <2> QED BY <2>2, <2>3, <2>4
<1>9. PICK p, q, r : p = d \o b /\ q = p \o t /\ r = q \o l
  OBVIOUS
<1>10. p \in Seq(1..n) /\ q \in Seq(1..n) /\ r \in Seq(1..n)
  BY <1>3, <1>9, ConcatProperties
<1>11. /\ \A x : x \in ToSet(p) <=> x \in ToSet(d) \/ x \in ToSet(b)
       /\ \A x : x \in ToSet(q) <=> x \in ToSet(p) \/ x \in ToSet(t)
       /\ \A x : x \in ToSet(r) <=> x \in ToSet(q) \/ x \in ToSet(l)
  <2>0. PICK S : S = 1..n
    OBVIOUS
  <2>1. d \in Seq(S) /\ b \in Seq(S) /\ p \in Seq(S) /\ t \in Seq(S) /\ q \in Seq(S) /\ l \in Seq(S)
    BY <1>3, <1>10, <2>0
  <2>2. \A x : x \in ToSet(d \o b) <=> x \in ToSet(d) \/ x \in ToSet(b)
    BY ONLY <2>1, ConcatOrdered
  <2>3. \A x : x \in ToSet(p \o t) <=> x \in ToSet(p) \/ x \in ToSet(t)
    BY ONLY <2>1, ConcatOrdered
  <2>4. \A x : x \in ToSet(q \o l) <=> x \in ToSet(q) \/ x \in ToSet(l)
    BY ONLY <2>1, ConcatOrdered
  <2> QED BY <1>9, <2>2, <2>3, <2>4
<1>12. Distinct(p)
  BY <1>3, <1>5, <1>8, <1>9, ConcatDistinct
<1>13. Distinct(q)
  <2>1. \A x \in ToSet(p) : x \notin ToSet(t)
    BY <1>8, <1>11
  <2> QED BY <1>3, <1>5, <1>9, <1>10, <1>12, <2>1, ConcatDistinct
<1>14. Distinct(r)
  <2>1. \A x \in ToSet(q) : x \notin ToSet(l)
    BY <1>8, <1>11
  <2> QED BY <1>3, <1>5, <1>9, <1>10, <1>13, <2>1, ConcatDistinct
<1>15. Everywhere = r
  BY <1>1, <1>9 DEF Everywhere
<1>16. ToSet(r) = Held
  BY <1>1, <1>11 DEF Held
<1>17. Len(Everywhere) = Cardinality(ToSet(Everywhere))
  BY <1>14, <1>15 DEF Distinct
<1>18. ToSet(Everywhere) \cap gone = {} /\ ToSet(Everywhere) \cup gone = 1..Len(history)
  <2>1. gone \cap Held = {} /\ 1..n \subseteq gone \cup Held /\ gone \subseteq 1..n
    BY <1>1 DEF OrderInv, NamesInv, Ids
  <2>2. Held \subseteq 1..n
    BY <1>1, <1>6 DEF Held
  <2> QED BY <1>1, <1>15, <1>16, <2>1, <2>2
<1>19. \A i, j \in 1..Len(log) :
         i < j /\ history[log[i]].monitor = history[log[j]].monitor => log[i] < log[j]
  BY <1>1, <1>4 DEF Ordered, Before
<1> QED BY <1>17, <1>18, <1>19 DEF LoggedOnce

(* The start.                                                               *)
LEMMA NamesStart == PollInit => NamesInv /\ HeardInv /\ CtrlInv /\ FreshInv /\ OrderInv
<1> SUFFICES ASSUME PollInit PROVE NamesInv /\ HeardInv /\ CtrlInv /\ FreshInv /\ OrderInv
  OBVIOUS
<1>0. /\ clock = 0 /\ link = [m \in Monitors |-> "off"] /\ names = [m \in Monitors |-> NoMap]
      /\ buffer = [m \in Monitors |-> <<>>]
      /\ hand = <<>> /\ log = <<>> /\ history = <<>> /\ born = 0 /\ gone = {}
      /\ setup \in Setups /\ pc = "stopped" /\ left = 0
      /\ MaxTime \in Nat /\ MaxEvents \in Nat /\ MaxBuffer \in Nat
      /\ "dns" \in Monitors /\ "sni" \in Monitors
  BY NameMapsAssumption DEF PollInit, NamesInit, Monitors
<1>1. \A S : <<>> \in Seq(S) /\ Len(<<>>) = 0
  BY EmptySeq
<1>2. NoMap \in Maps /\ DOMAIN NoMap = {}
  <2> DEFINE E == [name : Names \cup {Ech}, ts : Nat]
  <2>1. NoMap \in [{} -> E] /\ DOMAIN NoMap = {}
    BY DEF NoMap
  <2> QED BY <2>1 DEF Maps
<1>3. NamesInv
  <2>1. buffer \in [Monitors -> Seq(Ids)] /\ \A m \in Monitors : Len(buffer[m]) <= MaxBuffer
    BY <1>0, <1>1
  <2>2. history \in Seq(Records) /\ Len(history) = 0 /\ hand \in Seq(Ids) /\ log \in Seq(Ids)
    BY <1>0, <1>1
  <2>3. names \in [Monitors -> Maps]
    BY <1>0, <1>2
  <2> QED BY <1>0, <2>1, <2>2, <2>3 DEF NamesInv
<1>4. HeardInv
  BY <1>0, <1>2 DEF HeardInv
<1>5. CtrlInv
  BY <1>0 DEF CtrlInv, Steps
<1>6. FreshInv
  BY <1>0 DEF FreshInv
<1>7. OrderInv
  <2>1. \A s, h : ToSet(<<>>) = {} /\ Ordered(h, <<>>) /\ Follow(h, <<>>, s) /\ Follow(h, s, <<>>)
    BY EmptyOrdered
  <2>2. Ids = {}
    BY <1>0, <1>1 DEF Ids
  <2> QED BY <1>0, <2>1, <2>2 DEF OrderInv
<1> QED BY <1>3, <1>4, <1>5, <1>6, <1>7

(* All of it is kept.                                                       *)
NameInvariants == NamesInv /\ HeardInv /\ CtrlInv /\ FreshInv /\ OrderInv

(* The invariants of the monitors and the log hold in every reachable state.*)
THEOREM NamesHold == PollSpec => []NameInvariants
<1>1. PollInit => NameInvariants
  BY NamesStart DEF NameInvariants
<1>2. NameInvariants /\ [PollNext]_allVars => NameInvariants'
  <2> SUFFICES ASSUME NameInvariants, [PollNext]_allVars PROVE NameInvariants'
    OBVIOUS
  <2>1. NamesStep
    BY NamesSteps
  <2>2. NamesInv' /\ HeardInv'
    BY <2>1, NamesInvStep DEF NameInvariants
  <2>3. CtrlInv' /\ UNCHANGED setup
    BY CtrlStep DEF NameInvariants
  <2>4. FreshInv'
    BY <2>1, <2>3, FreshStep DEF NameInvariants
  <2>5. OrderInv'
    BY <2>1, <2>3, OrderStep DEF NameInvariants
  <2> QED BY <2>2, <2>3, <2>4, <2>5 DEF NameInvariants
<1> QED BY <1>1, <1>2, PTL DEF PollSpec

(* record_dns_events logs an event a monitor received at most once, in order,*)
(* and none is lost but by a full buffer, retention or the end of the process.*)
THEOREM EventsLoggedOnce == PollSpec => []LoggedOnce
<1>1. NameInvariants => LoggedOnce
  BY OrderLoggedOnce DEF NameInvariants
<1> QED BY <1>1, NamesHold, PTL

(* peer_domain labels an edge with the last name that was heard for its peer*)
(* and has not outlived the TTL, DNS before SNI (on Windows, with some name *)
(* that was given out for it).                                              *)
THEOREM FreshNames == PollSpec => NamesFresh
<1>1. NameInvariants /\ [PollNext]_allVars => [FreshEdges]_allVars
  BY NamesFreshStep DEF NameInvariants
<1>2. [][FreshEdges]_allVars => NamesFresh
  BY DEF NamesFresh, FreshEdges
<1> QED BY <1>1, <1>2, NamesHold, PTL DEF PollSpec

------------------------------------------------------------------------------
(* The host and the sources.                                                *)

(* Who has a socket is alive, the connections open all along are open, and  *)
(* none has counters unless accounting is on.                               *)
KernelInv ==
  /\ counted \subseteq Connections /\ (counted # {} => Accounting)
  /\ phase \in [Connections -> {"none", "open", "ended"}]
  /\ listeners \subseteq Listeners
  /\ steady \subseteq OpenConns
  /\ exited \cap InUse = {}

(* The steps between reading and recording.                                 *)
Reading == {"sockets", "walk", "collect", "edges"}

(* The source the collector names and the one it reads.                     *)
Named  == IF Windows THEN "iphlp" ELSE CaptureBackend(setup.preferred, setup.tools)
Source == IF Windows THEN "iphlp" ELSE SourceRead(setup.preferred, setup.tools)

(* The back-end that is named and the one that is read follow from the      *)
(* host alone, and there is nothing of a poll outside of it.                *)
SourceInv ==
  /\ IF pc = "stopped" THEN backend = "sockets" /\ claimed = Nothing
     ELSE /\ backend = Named
          /\ claimed \in {CaptureQuality(Named, setup.accounting),
                          CaptureQuality(Named, Accounting)}
  /\ IF pc \in Reading THEN readFrom = Source
     ELSE readFrom = Nothing /\ entries = {} /\ sockets = {} /\ owned = {} /\ atRead = {}
          /\ counting = {}
  /\ pc = "sockets" => sockets = {}
  /\ pc \in {"sockets", "walk"} => owned = {}
  /\ pc # "edges" => edges = {}

(* A process with a socket is in use.                                       *)
LEMMA InUseOf ==
  ASSUME NEW pid, \/ \E s \in listeners : s.owner = pid
                  \/ \E c \in OpenConns : \E s \in Ends(c) : s.owner = pid
  PROVE  pid \in InUse
<1>1. PICK all : all = UNION {Ends(c) : c \in OpenConns}
  OBVIOUS
<1>2. InUse = {s.owner : s \in listeners \cup all}
  BY <1>1 DEF InUse
<1> QED BY <1>1, <1>2

(* The host keeps its own rules: what is in use has not exited, and what is *)
(* steady is open.                                                          *)
LEMMA KernelStep ==
  ASSUME KernelInv, CtrlInv, [PollNext]_allVars
  PROVE  KernelInv'
<1>0. setup.conns \subseteq Connections
  BY PollCycleAssumption DEF CtrlInv
<1>00. UNCHANGED setup => Accounting' = Accounting
  BY DEF Accounting
<1>1. ASSUME UNCHANGED <<setup, phase, listeners, exited, counted>>, steady' \subseteq OpenConns
      PROVE  KernelInv'
  <2>1. OpenConns' = OpenConns
    BY <1>1 DEF OpenConns
  <2>2. InUse' = InUse
    BY <1>1, <2>1 DEF InUse
  <2> QED BY <1>00, <1>1, <2>1, <2>2 DEF KernelInv
<1>2. ASSUME NEW c \in Connections, Open(c)
      PROVE  KernelInv'
  <2>1. /\ phase' = [phase EXCEPT ![c] = "open"]
        /\ UNCHANGED <<setup, listeners, exited, steady>>
        /\ {s.owner : s \in Ends(c)} \cap exited = {}
        /\ counted' = IF Accounting THEN counted \cup {c} ELSE counted \ {c}
    BY <1>2 DEF Open, Change
  <2>2. phase' \in [Connections -> {"none", "open", "ended"}]
    BY <2>1 DEF KernelInv
  <2>3. /\ \A d \in OpenConns' : d \in OpenConns \/ d = c
        /\ OpenConns \subseteq OpenConns'
    BY <1>0, <2>1 DEF KernelInv, OpenConns
  <2>4. ASSUME NEW pid, pid \in exited', pid \in InUse' PROVE FALSE
    <3>1. \/ \E s \in listeners' : s.owner = pid
          \/ \E d \in OpenConns' : \E s \in Ends(d) : s.owner = pid
      <4>1. PICK all : all = UNION {Ends(d) : d \in OpenConns'}
        OBVIOUS
      <4>2. InUse' = {s.owner : s \in listeners' \cup all}
        BY <4>1 DEF InUse
      <4> QED BY <2>4, <4>1, <4>2
    <3>2. pid \notin {s.owner : s \in Ends(c)}
      BY <2>1, <2>4
    <3>3. \/ \E s \in listeners : s.owner = pid
          \/ \E d \in OpenConns : \E s \in Ends(d) : s.owner = pid
      BY <2>1, <2>3, <3>1, <3>2
    <3>4. pid \in InUse
      BY <3>3, InUseOf
    <3> QED BY <2>1, <2>4, <3>4 DEF KernelInv
  <2>5. counted' \subseteq Connections /\ (counted' # {} => Accounting')
    <3>1. Accounting' = Accounting
      BY <1>00, <2>1
    <3>2. CASE Accounting
      BY <2>1, <3>1, <3>2 DEF KernelInv
    <3>3. CASE ~ Accounting
      BY <2>1, <3>1, <3>3 DEF KernelInv
    <3> QED BY <3>2, <3>3
  <2> QED BY <2>1, <2>2, <2>3, <2>4, <2>5 DEF KernelInv
<1>3. ASSUME UNCHANGED <<setup, counted>>, phase' \in [Connections -> {"none", "open", "ended"}],
             OpenConns' \subseteq OpenConns, steady' \subseteq OpenConns',
             listeners' \subseteq listeners,
             \A pid \in exited' : pid \in exited \/ pid \notin InUse
      PROVE  KernelInv'
  <2>1. ASSUME NEW pid, pid \in InUse' PROVE pid \in InUse
    <3>1. PICK all : all = UNION {Ends(d) : d \in OpenConns'}
      OBVIOUS
    <3>2. InUse' = {s.owner : s \in listeners' \cup all}
      BY <3>1 DEF InUse
    <3>3. \/ \E s \in listeners : s.owner = pid
          \/ \E d \in OpenConns : \E s \in Ends(d) : s.owner = pid
      BY <1>3, <2>1, <3>1, <3>2
    <3> QED BY <3>3, InUseOf
  <2> QED BY <1>00, <1>3, <2>1 DEF KernelInv
<1>4. ASSUME NEW c \in Connections, Close(c)
      PROVE  KernelInv'
  <2>1. /\ phase' = [phase EXCEPT ![c] = "ended"] /\ steady' = steady \ {c}
        /\ UNCHANGED <<setup, listeners, exited, counted>>
    BY <1>4 DEF Close, Change
  <2>2. /\ phase' \in [Connections -> {"none", "open", "ended"}]
        /\ OpenConns' = OpenConns \ {c}
    BY <1>0, <2>1 DEF KernelInv, OpenConns
  <2> QED BY <1>3, <2>1, <2>2 DEF KernelInv
<1>5. ASSUME NEW c \in Connections, Expire(c)
      PROVE  KernelInv'
  <2>1. /\ phase' = [phase EXCEPT ![c] = "none"] /\ phase[c] = "ended"
        /\ UNCHANGED <<setup, listeners, exited, counted, steady>>
    BY <1>5 DEF Expire, Change
  <2>2. /\ phase' \in [Connections -> {"none", "open", "ended"}]
        /\ OpenConns' = OpenConns
    BY <1>0, <2>1 DEF KernelInv, OpenConns
  <2> QED BY <1>3, <2>1, <2>2 DEF KernelInv
<1>6. CASE \E s \in Listeners : CloseListener(s)
  <2>1. listeners' \subseteq listeners /\ UNCHANGED <<setup, phase, exited, counted, steady>>
    BY <1>6 DEF CloseListener, Change
  <2>2. OpenConns' = OpenConns
    BY <2>1 DEF OpenConns
  <2> QED BY <1>3, <2>1, <2>2 DEF KernelInv
<1>7. ASSUME NEW pid, Exit(pid)
      PROVE  KernelInv'
  <2>1. /\ exited' = exited \cup {pid} /\ pid \notin InUse
        /\ UNCHANGED <<setup, phase, listeners, counted, steady>>
    BY <1>7 DEF Exit, Change
  <2>2. OpenConns' = OpenConns
    BY <2>1 DEF OpenConns
  <2> QED BY <1>3, <2>1, <2>2 DEF KernelInv
<1>7a. ASSUME NEW pid, Reuse(pid)
       PROVE  KernelInv'
  <2>1. /\ exited' = exited \ {pid}
        /\ UNCHANGED <<setup, phase, listeners, counted, steady>>
    BY <1>7a DEF Reuse, Change
  <2>2. OpenConns' = OpenConns
    BY <2>1 DEF OpenConns
  <2> QED BY <1>3, <2>1, <2>2 DEF KernelInv
<1>8. CASE End
  BY <1>1, <1>8 DEF End
<1>9. CASE StartCycle
  BY <1>1, <1>9 DEF StartCycle
<1>10. CASE LogSni
  BY <1>1, <1>10 DEF LogSni
<1>11. CASE UNCHANGED kernel
  BY <1>1, <1>11 DEF kernel, KernelInv
<1>12. CASE Cycle
  BY <1>8, <1>9, <1>10, <1>11, <1>12 DEF Cycle, Read, ReadDenied, ReadWindows, ReadSockets,
     WalkProcesses, BuildEdges, RecordEdges, DrainMonitor, LogDns
<1>13. CASE UNCHANGED allVars
  BY <1>11, <1>13 DEF allVars, kernel
<1> QED BY <1>2, <1>4, <1>5, <1>6, <1>7, <1>7a, <1>8, <1>11, <1>12, <1>13 DEF PollNext, Start, Die,
        PausedCycle

(* The collector keeps to the source it named and the one it reads.         *)
LEMMA SourceStep ==
  ASSUME SourceInv, CtrlInv, [PollNext]_allVars
  PROVE  SourceInv'
<1>0. UNCHANGED setup => Named' = Named /\ Source' = Source /\ Accounting' = Accounting
  BY DEF Named, Source, Accounting, Windows
<1>1. CASE UNCHANGED <<setup, pc, backend, claimed, poll>>
  BY <1>0, <1>1 DEF SourceInv, poll
<1>2. CASE \/ \E c \in Connections : Open(c) \/ Close(c) \/ Expire(c)
           \/ \E s \in Listeners : CloseListener(s)
           \/ \E pid : Exit(pid) \/ Reuse(pid)
  BY <1>1, <1>2 DEF Open, Close, Expire, CloseListener, Exit, Reuse, Change
<1>3. CASE UNCHANGED <<kernel, poll, pc, backend, claimed>>
  BY <1>1, <1>3 DEF kernel
<1>4. CASE Start
  BY <1>0, <1>4 DEF Start, kernel, poll, SourceInv, Reading, Named
<1>5. CASE End
  BY <1>5 DEF End, NoPoll, SourceInv, Reading
<1>6. CASE PausedCycle \/ StartCycle
  BY <1>0, <1>6 DEF PausedCycle, StartCycle, Goto, kernel, poll, SourceInv, Reading
<1>7. CASE Read
  <2>1. /\ pc = "read" /\ pc' = "sockets" /\ readFrom' = Source /\ atRead' = Tracked
        /\ UNCHANGED <<setup, backend, claimed, sockets, owned, edges>>
    BY <1>7 DEF Read, Goto, kernel, Source
  <2> QED BY <1>0, <2>1 DEF SourceInv, Reading
<1>8. CASE ReadWindows
  <2>1. /\ pc = "read" /\ pc' = "collect" /\ readFrom' = Source
        /\ UNCHANGED <<setup, backend, claimed, edges>>
    BY <1>8 DEF ReadWindows, Goto, kernel, Source
  <2> QED BY <1>0, <2>1 DEF SourceInv, Reading
<1>9. CASE ReadSockets
  BY <1>0, <1>9 DEF ReadSockets, Goto, kernel, SourceInv, Reading
<1>10. CASE WalkProcesses
  BY <1>0, <1>10 DEF WalkProcesses, Goto, kernel, SourceInv, Reading
<1>11. CASE BuildEdges
  BY <1>0, <1>11 DEF BuildEdges, Goto, kernel, SourceInv, Reading
<1>12. CASE RecordEdges
  BY <1>0, <1>12 DEF RecordEdges, NoPoll, Goto, kernel, SourceInv, Reading
<1>13. CASE \/ DrainMonitor("dns", "drain_dns", "log_dns")
            \/ DrainMonitor("sni", "drain_sni", "log_sni")
  BY <1>0, <1>13 DEF DrainMonitor, Goto, kernel, poll, SourceInv, Reading
<1>14. CASE LogDns
  BY <1>0, <1>14 DEF LogDns, Goto, kernel, poll, SourceInv, Reading
<1>15. CASE LogSni
  <2>1. /\ pc = "log_sni" /\ pc' = "sleep" /\ UNCHANGED <<setup, backend, poll>>
        /\ claimed' \in {claimed, CaptureQuality(backend, Accounting)}
    BY <1>15 DEF LogSni
  <2> QED BY <1>0, <2>1 DEF poll, SourceInv, Reading
<1>16. CASE Cycle
  BY <1>5, <1>6, <1>7, <1>8, <1>9, <1>10, <1>11, <1>12, <1>13, <1>14, <1>15, <1>16
     DEF Cycle, ReadDenied
<1>17. CASE UNCHANGED allVars
  BY <1>1, <1>17 DEF allVars, poll
<1> QED BY <1>2, <1>3, <1>4, <1>5, <1>6, <1>16, <1>17 DEF PollNext, Die

(* The first of an order that is in a set.                                  *)
LEMMA FirstOfIs ==
  ASSUME NEW order, NEW set, NEW n \in Nat, n = Len(order), NEW k \in 1..n, order[k] \in set,
         \A j \in 1..(k - 1) : order[j] \notin set
  PROVE  FirstOf(order, set) = order[k]
<1> DEFINE I == {i \in 1..Len(order) : order[i] \in set}
<1>1. k \in I /\ \A i \in I : k <= i
  <2>1. \A i \in 1..n : i \in I => ~ (i \in 1..(k - 1))
    OBVIOUS
  <2>2. \A i \in 1..n : i \in 1..(k - 1) \/ k <= i
    OBVIOUS
  <2> QED BY <2>1, <2>2
<1>2. I \subseteq Nat
  OBVIOUS
<1>3. SelectInSeq(order, LAMBDA b : b \in set) = IF I # {} THEN Min(I) ELSE 0
  BY DEF SelectInSeq
<1>4. Min(I) = k
  <2> HIDE DEF I
  <2>1. \A x \in I : (\A y \in I : x <= y) => x = k
    BY <1>1, <1>2
  <2> QED BY <1>1, <2>1 DEF Min
<1>5. FirstOf(order, set) = order[IF I # {} THEN Min(I) ELSE 0]
  BY <1>3 DEF FirstOf
<1> QED BY <1>1, <1>4, <1>5

(* The first of one, two, three or four.                                    *)
LEMMA FirstOfOne ==
  ASSUME NEW a, NEW set
  PROVE  a \in set => FirstOf(<<a>>, set) = a
<1>1. PICK s : s = <<a>>
  OBVIOUS
<1>2. /\ 1 = Len(s) /\ {1} \subseteq 1..1
      /\ s[1] = a
      /\ \A j \in 1..(1 - 1) : FALSE
  BY <1>1
<1>3. s[1] \in set => FirstOf(s, set) = s[1]
  BY <1>2, FirstOfIs
<1> QED BY <1>1, <1>2, <1>3

(* The first of two.                                                        *)
LEMMA FirstOfTwo ==
  ASSUME NEW a, NEW b, NEW set
  PROVE  /\ a \in set => FirstOf(<<a, b>>, set) = a
         /\ a \notin set /\ b \in set => FirstOf(<<a, b>>, set) = b
<1>1. PICK s : s = <<a, b>>
  OBVIOUS
<1>2. /\ 2 = Len(s) /\ {1, 2} \subseteq 1..2
      /\ s[1] = a /\ s[2] = b
      /\ \A j \in 1..(1 - 1) : FALSE
      /\ \A j \in 1..(2 - 1) : j = 1
  BY <1>1
<1>3. s[1] \in set => FirstOf(s, set) = s[1]
  BY <1>2, FirstOfIs
<1>4. s[1] \notin set /\ s[2] \in set => FirstOf(s, set) = s[2]
  BY <1>2, FirstOfIs
<1> QED BY <1>1, <1>2, <1>3, <1>4

(* The first of three.                                                      *)
LEMMA FirstOfThree ==
  ASSUME NEW a, NEW b, NEW c, NEW set
  PROVE  /\ a \in set => FirstOf(<<a, b, c>>, set) = a
         /\ a \notin set /\ b \in set => FirstOf(<<a, b, c>>, set) = b
         /\ a \notin set /\ b \notin set /\ c \in set => FirstOf(<<a, b, c>>, set) = c
<1>1. PICK s : s = <<a, b, c>>
  OBVIOUS
<1>2. /\ 3 = Len(s) /\ {1, 2, 3} \subseteq 1..3
      /\ s[1] = a /\ s[2] = b /\ s[3] = c
      /\ \A j \in 1..(1 - 1) : FALSE
      /\ \A j \in 1..(2 - 1) : j = 1
      /\ \A j \in 1..(3 - 1) : j = 1 \/ j = 2
  BY <1>1
<1>3. s[1] \in set => FirstOf(s, set) = s[1]
  BY <1>2, FirstOfIs
<1>4. s[1] \notin set /\ s[2] \in set => FirstOf(s, set) = s[2]
  BY <1>2, FirstOfIs
<1>5. s[1] \notin set /\ s[2] \notin set /\ s[3] \in set => FirstOf(s, set) = s[3]
  BY <1>2, FirstOfIs
<1> QED BY <1>1, <1>2, <1>3, <1>4, <1>5

(* The first of four.                                                       *)
LEMMA FirstOfFour ==
  ASSUME NEW a, NEW b, NEW c, NEW d, NEW set
  PROVE  /\ a \in set => FirstOf(<<a, b, c, d>>, set) = a
         /\ a \notin set /\ b \in set => FirstOf(<<a, b, c, d>>, set) = b
         /\ a \notin set /\ b \notin set /\ c \in set => FirstOf(<<a, b, c, d>>, set) = c
         /\ a \notin set /\ b \notin set /\ c \notin set /\ d \in set
              => FirstOf(<<a, b, c, d>>, set) = d
<1>1. PICK s : s = <<a, b, c, d>>
  OBVIOUS
<1>2. /\ 4 = Len(s) /\ {1, 2, 3, 4} \subseteq 1..4
      /\ s[1] = a /\ s[2] = b /\ s[3] = c /\ s[4] = d
      /\ \A j \in 1..(1 - 1) : FALSE
      /\ \A j \in 1..(2 - 1) : j = 1
      /\ \A j \in 1..(3 - 1) : j = 1 \/ j = 2
      /\ \A j \in 1..(4 - 1) : j = 1 \/ j = 2 \/ j = 3
  BY <1>1
<1>3. s[1] \in set => FirstOf(s, set) = s[1]
  BY <1>2, FirstOfIs
<1>4. s[1] \notin set /\ s[2] \in set => FirstOf(s, set) = s[2]
  BY <1>2, FirstOfIs
<1>5. s[1] \notin set /\ s[2] \notin set /\ s[3] \in set => FirstOf(s, set) = s[3]
  BY <1>2, FirstOfIs
<1>6. s[1] \notin set /\ s[2] \notin set /\ s[3] \notin set /\ s[4] \in set
        => FirstOf(s, set) = s[4]
  BY <1>2, FirstOfIs
<1> QED BY <1>1, <1>2, <1>3, <1>4, <1>5, <1>6

(* The back-end that is named, and the one that is read, of any host: where *)
(* a conntrack source is read, one is named.                                *)
LEMMA SourceValues ==
  ASSUME NEW p, NEW tools,
         p \in {"auto", "procfs", "conntrack-list", "socket-diag", "sockets"},
         tools.tool \in {"absent", "failing", "works"}
  PROVE  LET named == CaptureBackend(p, tools)
             source == SourceRead(p, tools)
         IN  /\ named \in {"procfs", "conntrack-list", "socket-diag", "sockets"}
             /\ source \in {"procfs", "conntrack-list", "socket-diag", "sockets"}
             /\ source \in Conntrack => named \in Conntrack
<1> DEFINE A == Available(tools)
           B == Answering(tools)
           r == ResolveSource(p, tools)
<1>1. /\ "sockets" \in A /\ "sockets" \in B /\ "socket-diag" \in B
      /\ "procfs" \in A <=> "procfs" \in B
      /\ "conntrack-list" \in B => "conntrack-list" \in A
      /\ "conntrack-list" \in A /\ tools.tool # "failing" => "conntrack-list" \in B
  BY DEF Available, Answering
<1>0. PICK P, C, D, K : P = "procfs" /\ C = "conntrack-list" /\ D = "socket-diag" /\ K = "sockets"
  OBVIOUS
<1>00. ASSUME NEW S, K \in S
       PROVE  /\ FirstOf(<<K>>, S) = K
              /\ FirstOf(<<D, K>>, S) = IF D \in S THEN D ELSE K
              /\ FirstOf(<<P, C, K>>, S) = IF P \in S THEN P ELSE IF C \in S THEN C ELSE K
              /\ FirstOf(<<C, P, K>>, S) = IF C \in S THEN C ELSE IF P \in S THEN P ELSE K
              /\ FirstOf(<<P, C, D, K>>, S) = IF P \in S THEN P ELSE IF C \in S THEN C
                                              ELSE IF D \in S THEN D ELSE K
              /\ FirstOf(<<C, P, D, K>>, S) = IF C \in S THEN C ELSE IF P \in S THEN P
                                              ELSE IF D \in S THEN D ELSE K
  <2>1. FirstOf(<<K>>, S) = K
    BY ONLY <1>00, FirstOfOne
  <2>2. FirstOf(<<D, K>>, S) = IF D \in S THEN D ELSE K
    BY ONLY <1>00, FirstOfTwo
  <2>3. FirstOf(<<P, C, K>>, S) = IF P \in S THEN P ELSE IF C \in S THEN C ELSE K
    BY ONLY <1>00, FirstOfThree
  <2>4. FirstOf(<<C, P, K>>, S) = IF C \in S THEN C ELSE IF P \in S THEN P ELSE K
    BY ONLY <1>00, FirstOfThree
  <2>5. FirstOf(<<P, C, D, K>>, S) = IF P \in S THEN P ELSE IF C \in S THEN C
                                     ELSE IF D \in S THEN D ELSE K
    BY ONLY <1>00, FirstOfFour
  <2>6. FirstOf(<<C, P, D, K>>, S) = IF C \in S THEN C ELSE IF P \in S THEN P
                                     ELSE IF D \in S THEN D ELSE K
    BY ONLY <1>00, FirstOfFour
  <2> QED BY <2>1, <2>2, <2>3, <2>4, <2>5, <2>6
<1>2. r = IF p = "auto"
          THEN IF P \in A THEN P ELSE IF C \in A THEN C ELSE IF D \in A THEN D ELSE K
          ELSE p
  <2>1. r = IF p = "auto" THEN FirstOf(<<P, C, D, K>>, A) ELSE p
    BY <1>0 DEF ResolveSource
  <2>2. K \in A
    BY <1>0, <1>1
  <2> HIDE DEF A, r
  <2> QED BY <1>00, <2>1, <2>2
<1>3. r \in {"procfs", "conntrack-list", "socket-diag", "sockets"}
  BY <1>0, <1>2
<1>4. PICK S, T, q : S = A /\ T = B /\ q = r
  OBVIOUS
<1>5. CaptureBackend(p, tools) = FirstOf(Labels(q), S)
  BY <1>4 DEF CaptureBackend
<1>6. SourceRead(p, tools) = FirstOf(Readers(q), T)
  BY <1>4 DEF SourceRead
<1>7. Labels(q) = CASE q = P -> <<P, C, D, K>> [] q = C -> <<C, P, D, K>>
                   [] q = D -> <<D, K>> [] q = K -> <<K>>
  BY <1>0 DEF Labels
<1>8. Readers(q) = CASE q = P -> <<P, C, K>> [] q = C -> <<C, P, K>>
                    [] q = D -> <<D, K>> [] q = K -> <<K>>
  BY <1>0 DEF Readers
<1>9. Conntrack = {P, C}
  BY <1>0 DEF Conntrack
<1>10. P # C /\ P # D /\ P # K /\ C # D /\ C # K /\ D # K /\ q \in {P, C, D, K}
       /\ K \in S /\ K \in T /\ D \in T /\ (P \in S <=> P \in T) /\ (C \in T => C \in S)
       /\ (C \in S /\ tools.tool # "failing" => C \in T)
  BY <1>0, <1>1, <1>3, <1>4
<1>11. CASE q = P
  <2>1. FirstOf(Labels(q), S) = IF P \in S THEN P ELSE IF C \in S THEN C
                                              ELSE IF D \in S THEN D ELSE K
    BY <1>00, <1>7, <1>10, <1>11
  <2>2. FirstOf(Readers(q), T) = IF P \in T THEN P ELSE IF C \in T THEN C ELSE K
    BY <1>00, <1>8, <1>10, <1>11
  <2>3. p = q \/ (p = "auto" /\ P \in S)
    BY <1>0, <1>2, <1>4, <1>10, <1>11
  <2> HIDE DEF A, B, r
  <2> QED BY <1>0, <1>5, <1>6, <1>9, <1>10, <1>11, <2>1, <2>2, <2>3
<1>12. CASE q = C
  <2>1. FirstOf(Labels(q), S) = IF C \in S THEN C ELSE IF P \in S THEN P
                                              ELSE IF D \in S THEN D ELSE K
    BY <1>00, <1>7, <1>10, <1>12
  <2>2. FirstOf(Readers(q), T) = IF C \in T THEN C ELSE IF P \in T THEN P ELSE K
    BY <1>00, <1>8, <1>10, <1>12
  <2>3. p = q \/ (p = "auto" /\ C \in S)
    BY <1>0, <1>2, <1>4, <1>10, <1>12
  <2> HIDE DEF A, B, r
  <2> QED BY <1>0, <1>5, <1>6, <1>9, <1>10, <1>12, <2>1, <2>2, <2>3
<1>13. CASE q = D
  <2>1. FirstOf(Labels(q), S) \in {D, K} /\ FirstOf(Readers(q), T) = D
    BY <1>00, <1>7, <1>8, <1>10, <1>13
  <2> HIDE DEF A, B, r
  <2> QED BY <1>0, <1>5, <1>6, <1>9, <1>10, <2>1
<1>14. CASE q = K
  <2>1. FirstOf(Labels(q), S) = K /\ FirstOf(Readers(q), T) = K
    BY <1>00, <1>7, <1>8, <1>10, <1>14
  <2> HIDE DEF A, B, r
  <2> QED BY <1>0, <1>5, <1>6, <1>9, <1>10, <2>1
<1> QED BY <1>10, <1>11, <1>12, <1>13, <1>14

------------------------------------------------------------------------------
(* Types of a poll.                                                         *)

(* The names of edges and their labels.                                     *)
EdgeTypes ==
  \A e \in edges : /\ e.quality \in {"socket-snapshot", "no-accounting", Unlabelled}
                   /\ e.domain \in Names \cup {NoName}

(* Between reading and recording only the reading itself touches a poll;    *)
(* what the host does meanwhile only makes less connections steady.         *)
LEMMA PollStays ==
  ASSUME [PollNext]_allVars, pc' \in Reading
  PROVE  \/ Read \/ ReadWindows \/ ReadSockets \/ WalkProcesses \/ BuildEdges
         \/ UNCHANGED <<setup, pc, backend, claimed, poll>> /\ steady' \subseteq steady
<1>1. CASE \/ \E c \in Connections : Open(c) \/ Close(c) \/ Expire(c)
           \/ \E s \in Listeners : CloseListener(s)
           \/ \E pid : Exit(pid) \/ Reuse(pid)
  BY <1>1 DEF Open, Close, Expire, CloseListener, Exit, Reuse, Change
<1>2. CASE NamesNext /\ UNCHANGED <<kernel, poll, pc, backend, claimed>>
  BY <1>2 DEF kernel
<1>3. CASE Start \/ Die \/ PausedCycle
  BY <1>3 DEF Start, Die, End, PausedCycle, Goto, Reading
<1>4. CASE Cycle
  BY <1>4 DEF Cycle, StartCycle, ReadDenied, End, RecordEdges, DrainMonitor, LogDns, LogSni, Goto,
     Reading
<1>5. CASE UNCHANGED allVars
  BY <1>5 DEF allVars, poll
<1> QED BY <1>1, <1>2, <1>3, <1>4, <1>5 DEF PollNext

(* The name of an edge is a name.                                           *)
LEMMA DomainIsName ==
  ASSUME NamesInv, NEW ip
  PROVE  PeerDomain(ip) \in Names \cup {NoName}
<1>1. ASSUME NEW m \in Monitors
      PROVE  Lookup(m, ip) \in Names \cup {NoName}
  <2> SUFFICES ASSUME ip \in DOMAIN names[m], names[m][ip].name # Ech
               PROVE  names[m][ip].name \in Names
    BY DEF Lookup
  <2>1. PICK map, E : map = names[m] /\ E = [name : Names \cup {Ech}, ts : Nat]
    OBVIOUS
  <2>2. PICK D \in SUBSET Addresses : map \in [D -> E]
    BY <2>1 DEF NamesInv, Maps
  <2>3. map[ip] \in E
    BY <2>1, <2>2
  <2> QED BY <2>1, <2>3
<1>2. "dns" \in Monitors /\ "sni" \in Monitors
  BY DEF Monitors
<1> QED BY <1>1, <1>2 DEF PeerDomain

(* build_edges gives edges names and labels that exist.                     *)
LEMMA EdgeTypesStep ==
  ASSUME NamesInv, CtrlInv, SourceInv, EdgeTypes, [PollNext]_allVars, SourceInv'
  PROVE  EdgeTypes'
<1>1. CASE pc' # "edges"
  BY <1>1 DEF SourceInv, EdgeTypes
<1>2. CASE BuildEdges
  <2>1. ASSUME NEW ns, NEW ents, NEW socks, NEW own, NEW e \in EdgesFrom(ns, ents, socks, own)
        PROVE  /\ e.quality \in {"socket-snapshot", "no-accounting", Unlabelled}
               /\ e.domain \in Names \cup {NoName}
    <3>1. \A n, bytes : Quality(n, bytes) \in {"socket-snapshot", "no-accounting", Unlabelled}
      BY DEF Quality, DataQuality
    <3>2. /\ \E n, bytes : e.quality = Quality(n, bytes)
          /\ \E ip : e.domain = PeerDomain(ip)
      BY <2>1 DEF EdgesFrom
    <3> QED BY <3>1, <3>2, DomainIsName
  <2>2. \A e \in edges' : \E ns, ents, socks, own : e \in EdgesFrom(ns, ents, socks, own)
    <3>1. PICK more : more = NamespaceEdges
      OBVIOUS
    <3>2. \A e \in more : \E ns, ents, socks, own : e \in EdgesFrom(ns, ents, socks, own)
      BY <3>1 DEF NamespaceEdges
    <3>3. edges' = EdgesFrom("host", entries, sockets, owned) \cup more
      BY <1>2, <3>1 DEF BuildEdges
    <3> QED BY <3>2, <3>3
  <2> QED BY <2>1, <2>2 DEF EdgeTypes
<1>3. CASE pc' = "edges" /\ ~ BuildEdges
  <2>1. pc' \in Reading /\ UNCHANGED edges
    <3>1. pc' \in Reading
      BY <1>3 DEF Reading
    <3> QED BY <1>3, <3>1, PollStays DEF Read, ReadWindows, ReadSockets, WalkProcesses, Goto, poll
  <2> QED BY <2>1 DEF EdgeTypes
<1> QED BY <1>1, <1>2, <1>3

(* The sources of a setup are known.                                        *)
LEMMA SetupSources ==
  ASSUME CtrlInv
  PROVE  /\ Windows => Named = "iphlp" /\ Source = "iphlp"
         /\ ~ Windows => /\ Named = CaptureBackend(setup.preferred, setup.tools)
                         /\ Source = SourceRead(setup.preferred, setup.tools)
                         /\ Named \in {"procfs", "conntrack-list", "socket-diag", "sockets"}
                         /\ Source \in {"procfs", "conntrack-list", "socket-diag", "sockets"}
                         /\ Source \in Conntrack => Named \in Conntrack
<1>1. /\ setup.preferred \in {"auto", "procfs", "conntrack-list", "socket-diag", "sockets"}
      /\ setup.tools.tool \in {"absent", "failing", "works"}
  BY PollCycleAssumption DEF CtrlInv, Conntrack
<1>2. PICK p, t : p = setup.preferred /\ t = setup.tools
  OBVIOUS
<1>3. LET named == CaptureBackend(p, t)
          source == SourceRead(p, t)
      IN  /\ named \in {"procfs", "conntrack-list", "socket-diag", "sockets"}
          /\ source \in {"procfs", "conntrack-list", "socket-diag", "sockets"}
          /\ source \in Conntrack => named \in Conntrack
  BY <1>1, <1>2, SourceValues
<1> QED BY <1>2, <1>3 DEF Named, Source

(* Owners are found for sockets that were read.                             *)
OwnedInv == owned \subseteq sockets

(* And for no others in any step.                                           *)
LEMMA OwnedStep ==
  ASSUME SourceInv, OwnedInv, [PollNext]_allVars, SourceInv'
  PROVE  OwnedInv'
<1>1. CASE pc' \in Reading
  <2>1. CASE Read \/ ReadSockets
    BY <2>1 DEF Read, ReadSockets, Goto, SourceInv, OwnedInv
  <2>2. CASE WalkProcesses \/ ReadWindows
    BY <2>2 DEF WalkProcesses, ReadWindows, OwnedInv
  <2>3. CASE BuildEdges \/ UNCHANGED poll
    BY <2>3 DEF BuildEdges, poll, OwnedInv
  <2> QED BY <1>1, <2>1, <2>2, <2>3, PollStays
<1>2. CASE pc' \notin Reading
  BY <1>2 DEF SourceInv, OwnedInv
<1> QED BY <1>1, <1>2

(* What TypeOK needs.                                                       *)
LEMMA InvariantsTypeOK ==
  ASSUME NamesInv, CtrlInv, KernelInv, SourceInv, EdgeTypes, OwnedInv, atRead \subseteq setup.conns,
         counting \subseteq atRead
  PROVE  PollTypeOK
<1>0. "dns" \in Monitors /\ "sni" \in Monitors /\ setup.conns \subseteq Connections
  BY PollCycleAssumption DEF Monitors, CtrlInv
<1>1. NamesTypeOK
  <2>1. ASSUME NEW m \in Monitors
        PROVE  /\ DOMAIN names[m] \subseteq Addresses
               /\ \A ip \in DOMAIN names[m] : names[m][ip].name \in Names \cup {Ech}
               /\ Len(buffer[m]) <= MaxBuffer /\ ToSet(buffer[m]) \subseteq Id
    <3>1. PICK map, E, S, b : /\ map = names[m] /\ E = [name : Names \cup {Ech}, ts : Nat]
                              /\ S = Ids /\ b = buffer[m]
      OBVIOUS
    <3>2. PICK D \in SUBSET Addresses : map \in [D -> E]
      BY <3>1 DEF NamesInv, Maps
    <3>3. \A ip \in D : map[ip] \in E
      BY <3>2
    <3>4. DOMAIN map = D /\ \A ip \in D : map[ip].name \in Names \cup {Ech}
      BY <3>1, <3>2, <3>3
    <3>5. ToSet(b) \subseteq S
      BY <3>1, ElementsIn DEF NamesInv
    <3>6. Ids \subseteq Id
      BY NameMapsAssumption DEF NamesInv, Ids, Id
    <3> QED BY <3>1, <3>4, <3>5, <3>6 DEF NamesInv
  <2>2. ToSet(hand) \subseteq Id /\ ToSet(log) \subseteq Id /\ gone \subseteq Id
    <3>1. PICK S : S = Ids
      OBVIOUS
    <3>2. ToSet(hand) \subseteq S /\ ToSet(log) \subseteq S
      BY <3>1, ElementsIn DEF NamesInv
    <3>3. Ids \subseteq Id
      BY NameMapsAssumption DEF NamesInv, Ids, Id
    <3> QED BY <3>1, <3>2, <3>3 DEF NamesInv
  <2> QED BY <2>1, <2>2 DEF NamesTypeOK, NamesInv
<1>2. /\ Named \in Conntrack \cup {"socket-diag", "sockets", "iphlp"}
      /\ Source \in Conntrack \cup {"socket-diag", "sockets", "iphlp"}
  BY SetupSources DEF Conntrack
<1>3. \A b, a : CaptureQuality(b, a) \in {"exact", "per-socket-tcp", "topology-only"}
  BY DEF CaptureQuality
<1>4. /\ backend \in Conntrack \cup {"socket-diag", "sockets", "iphlp"}
      /\ claimed \in {"exact", "per-socket-tcp", "topology-only", Nothing}
      /\ readFrom \in Conntrack \cup {"socket-diag", "sockets", "iphlp", Nothing}
  BY <1>2, <1>3 DEF SourceInv
<1>5. steady \subseteq Connections /\ atRead \subseteq Connections
  BY <1>0 DEF KernelInv, OpenConns
<1> QED BY <1>1, <1>4, <1>5 DEF PollTypeOK, CtrlInv, Steps, KernelInv, EdgeTypes, OwnedInv

------------------------------------------------------------------------------
(* What a poll reads.                                                       *)

(* The tables the host may show, and the sockets of steady connections.     *)
HostTables == SUBSET AllSockets("host", setup.conns, Listeners)
SteadyEnds == AllSockets("host", steady, {})

(* Those whose owner the walk finds.                                        *)
SteadyWalked == {s \in SteadyEnds : MayWalk(s.owner)}

(* What a poll has read so far: tables that show all connections that are   *)
(* open all along, and no other sockets than the host has.                  *)
ReadInv ==
  /\ atRead \subseteq setup.conns
  /\ counting \subseteq atRead /\ (counting # {} => Accounting)
  /\ pc \in Reading /\ ~ Windows =>
       /\ \E socks \in HostTables :
            /\ SteadyEnds \subseteq socks
            /\ entries = Snapshot(readFrom, setup.tools, atRead, counting, socks)
       /\ pc # "sockets" => sockets \in HostTables /\ SteadyEnds \subseteq sockets
       /\ pc \in {"collect", "edges"} => SteadyWalked \subseteq owned
  /\ pc \in Reading /\ Windows =>
       /\ \E socks \in HostTables :
            /\ SteadyEnds \subseteq socks
            /\ sockets = {[s EXCEPT !.bytes = 0] : s \in {t \in socks : t.proto = "tcp"}}
       /\ owned = sockets /\ entries = FromSockets(sockets)

(* The sockets of a namespace.                                              *)
LEMMA SocketOf ==
  ASSUME NEW ns, NEW conns, NEW ls, NEW s
  PROVE  s \in AllSockets(ns, conns, ls)
           <=> s.ns = ns /\ (s \in ls \/ \E c \in conns : s \in Ends(c))
<1>1. PICK all : all = UNION {Ends(c) : c \in conns}
  OBVIOUS
<1>2. AllSockets(ns, conns, ls) = {t \in ls \cup all : t.ns = ns}
  BY <1>1 DEF AllSockets
<1> QED BY <1>1, <1>2

(* What is open at one moment is among the tables.                          *)
LEMMA TablesShow ==
  ASSUME KernelInv
  PROVE  HostSockets \in HostTables /\ SteadyEnds \subseteq HostSockets
<1>1. /\ listeners \subseteq Listeners
      /\ \A c : c \in OpenConns => c \in setup.conns
      /\ \A c : c \in steady => c \in OpenConns
  BY DEF KernelInv, OpenConns
<1>2. HostSockets \subseteq AllSockets("host", setup.conns, Listeners)
  <2> SUFFICES ASSUME NEW s \in HostSockets PROVE s \in AllSockets("host", setup.conns, Listeners)
    OBVIOUS
  <2>1. s.ns = "host" /\ (s \in listeners \/ \E c \in OpenConns : s \in Ends(c))
    BY SocketOf DEF HostSockets
  <2>2. s.ns = "host" /\ (s \in Listeners \/ \E c \in setup.conns : s \in Ends(c))
    BY <1>1, <2>1
  <2> QED BY <2>2, SocketOf
<1>3. SteadyEnds \subseteq HostSockets
  <2> SUFFICES ASSUME NEW s \in SteadyEnds PROVE s \in HostSockets
    OBVIOUS
  <2>1. s.ns = "host" /\ (s \in {} \/ \E c \in steady : s \in Ends(c))
    BY SocketOf DEF SteadyEnds
  <2>2. s.ns = "host" /\ \E c \in OpenConns : s \in Ends(c)
    BY <1>1, <2>1
  <2> QED BY <2>2, SocketOf DEF HostSockets
<1> QED BY <1>2, <1>3 DEF HostTables

(* Less steady connections, less steady ends.                               *)
LEMMA FewerSteady ==
  ASSUME steady' \subseteq steady
  PROVE  SteadyEnds' \subseteq SteadyEnds
<1> SUFFICES ASSUME NEW s \in SteadyEnds' PROVE s \in SteadyEnds
  OBVIOUS
<1>1. PICK few : few = steady'
  OBVIOUS
<1>2. s \in AllSockets("host", few, {})
  BY <1>1 DEF SteadyEnds
<1>3. s.ns = "host" /\ (s \in {} \/ \E c \in few : s \in Ends(c))
  BY <1>2, SocketOf
<1>4. s.ns = "host" /\ \E c \in steady : s \in Ends(c)
  BY <1>1, <1>3
<1> QED BY <1>4, SocketOf DEF SteadyEnds

(* What is counted of connections that are not listed makes no difference.  *)
LEMMA OnlyTrackedCount ==
  ASSUME NEW src, NEW tools, NEW conns, NEW all, NEW few, few = conns \cap all, NEW socks
  PROVE  Snapshot(src, tools, conns, all, socks) = Snapshot(src, tools, conns, few, socks)
<1>1. \A c \in conns : ConntrackEntry(c, all) = ConntrackEntry(c, few)
  BY DEF ConntrackEntry
<1>2. FromConntrack(conns, all) = FromConntrack(conns, few)
  BY <1>1 DEF FromConntrack
<1> QED BY <1>2 DEF Snapshot

(* Reading, step by step, keeps what it has read.                           *)
LEMMA ReadStep ==
  ASSUME KernelInv, CtrlInv, SourceInv, SourceInv', ReadInv, CtrlInv', [PollNext]_allVars
  PROVE  ReadInv'
<1>1. CASE pc' \notin Reading
  BY <1>1 DEF SourceInv, ReadInv
<1> SUFFICES ASSUME pc' \in Reading PROVE ReadInv'
  BY <1>1
<1>2. UNCHANGED setup /\ (pc = "sockets" \/ pc = "walk" => ~ Windows)
  BY CtrlStep, PollStays DEF Read, ReadWindows, ReadSockets, WalkProcesses, BuildEdges, kernel,
     CtrlInv
<1>3. /\ HostTables' = HostTables /\ Accounting' = Accounting /\ Windows' = Windows
      /\ \A pid : MayWalk(pid)' = MayWalk(pid)
  BY <1>2 DEF HostTables, Accounting, Windows, MayWalk
<1>4. CASE Read
  <2>1. UNCHANGED <<setup, phase, listeners, exited, steady>> /\ pc = "read" /\ ~ Windows
    BY <1>4 DEF Read, kernel
  <2>2. SteadyEnds' = SteadyEnds
    BY <2>1 DEF SteadyEnds
  <2>3. /\ atRead' = Tracked /\ pc' = "sockets"
        /\ readFrom' = SourceRead(setup.preferred, setup.tools)
        /\ counting' = Tracked \cap counted
        /\ entries' = Snapshot(SourceRead(setup.preferred, setup.tools), setup.tools, Tracked,
                               counted, HostSockets)
    BY <1>4 DEF Read, Goto
  <2>4. entries' = Snapshot(readFrom', setup.tools, atRead', counting', HostSockets)
    <3>1. PICK src, tools, conns, all, few, socks :
            /\ src = readFrom' /\ tools = setup.tools /\ conns = Tracked /\ all = counted
            /\ few = counting' /\ socks = HostSockets
      OBVIOUS
    <3>2. few = conns \cap all
      BY <2>3, <3>1
    <3>3. Snapshot(src, tools, conns, all, socks) = Snapshot(src, tools, conns, few, socks)
      BY <3>2, OnlyTrackedCount
    <3> QED BY <2>3, <3>1, <3>3
  <2>6. counting' \subseteq atRead' /\ (counting' # {} => Accounting')
    BY <1>3, <2>3 DEF KernelInv
  <2>5. Tracked \subseteq setup.conns
    BY DEF Tracked
  <2> QED BY <1>2, <1>3, <2>1, <2>2, <2>3, <2>4, <2>5, <2>6, TablesShow DEF ReadInv
<1>5. CASE ReadWindows
  <2>1. UNCHANGED <<setup, phase, listeners, exited, steady>> /\ pc = "read" /\ Windows
    BY <1>5 DEF ReadWindows, kernel
  <2>2. SteadyEnds' = SteadyEnds
    BY <2>1 DEF SteadyEnds
  <2>3. /\ atRead' = Tracked /\ counting' = {} /\ pc' = "collect" /\ owned' = sockets'
        /\ entries' = FromSockets(sockets')
        /\ sockets' = {[s EXCEPT !.bytes = 0] : s \in {t \in HostSockets : t.proto = "tcp"}}
    BY <1>5 DEF ReadWindows, Goto, TcpTable
  <2>4. Tracked \subseteq setup.conns
    BY DEF Tracked
  <2> QED BY <1>2, <1>3, <2>1, <2>2, <2>3, <2>4, TablesShow DEF ReadInv
<1>6. CASE ReadSockets
  <2>1. /\ UNCHANGED <<setup, steady, entries, readFrom, atRead, counting>>
        /\ pc = "sockets"
        /\ sockets' = HostSockets /\ pc' = "walk"
    BY <1>6 DEF ReadSockets, Goto, kernel
  <2>2. SteadyEnds' = SteadyEnds
    BY <2>1 DEF SteadyEnds
  <2> QED BY <1>2, <1>3, <2>1, <2>2, TablesShow DEF ReadInv, Reading
<1>7. CASE WalkProcesses
  <2>1. /\ UNCHANGED <<setup, steady, entries, readFrom, atRead, counting, sockets>>
        /\ pc = "walk" /\ pc' = "collect"
        /\ owned' = {s \in sockets \cap HostSockets : MayWalk(s.owner)}
    BY <1>7 DEF WalkProcesses, Goto, kernel
  <2>2. SteadyEnds' = SteadyEnds
    BY <2>1 DEF SteadyEnds
  <2>3. SteadyEnds \subseteq sockets
    BY <1>2, <2>1 DEF ReadInv, Reading
  <2>4. SteadyWalked' \subseteq owned'
    BY <1>3, <2>1, <2>2, <2>3, TablesShow DEF SteadyWalked
  <2> QED BY <1>2, <1>3, <2>1, <2>2, <2>4 DEF ReadInv, Reading
<1>8. CASE BuildEdges
  <2>1. /\ UNCHANGED <<setup, steady, entries, readFrom, atRead, counting, sockets, owned>>
        /\ pc = "collect" /\ pc' = "edges"
    BY <1>8 DEF BuildEdges, Goto, kernel
  <2>2. SteadyEnds' = SteadyEnds
    BY <2>1 DEF SteadyEnds
  <2>3. SteadyWalked' = SteadyWalked
    BY <1>3, <2>2 DEF SteadyWalked
  <2> QED BY <1>3, <2>1, <2>2, <2>3 DEF ReadInv, Reading
<1>9. CASE UNCHANGED <<setup, pc, backend, claimed, poll>> /\ steady' \subseteq steady
  <2>1. SteadyEnds' \subseteq SteadyEnds
    BY <1>9, FewerSteady
  <2>0. SteadyWalked' \subseteq SteadyWalked
    BY <1>3, <2>1 DEF SteadyWalked
  <2>2. UNCHANGED <<setup, pc, entries, readFrom, atRead, counting, sockets, owned>>
    BY <1>9 DEF poll
  <2>3. /\ pc' \in Reading /\ ~ Windows' =>
             /\ \E socks \in HostTables' :
                  /\ SteadyEnds' \subseteq socks
                  /\ entries' = Snapshot(readFrom', setup'.tools, atRead', counting', socks)
             /\ pc' # "sockets" => sockets' \in HostTables' /\ SteadyEnds' \subseteq sockets'
             /\ pc' \in {"collect", "edges"} => SteadyWalked' \subseteq owned'
    BY <1>3, <2>0, <2>1, <2>2 DEF ReadInv
  <2>4. /\ pc' \in Reading /\ Windows' =>
             /\ \E socks \in HostTables' :
                  /\ SteadyEnds' \subseteq socks
                  /\ sockets' = {[s EXCEPT !.bytes = 0] : s \in {t \in socks : t.proto = "tcp"}}
             /\ owned' = sockets' /\ entries' = FromSockets(sockets')
    BY <1>3, <2>1, <2>2 DEF ReadInv
  <2>5. counting' \subseteq atRead' /\ (counting' # {} => Accounting')
    BY <1>3, <2>2 DEF ReadInv
  <2> QED BY <2>2, <2>3, <2>4, <2>5 DEF ReadInv
<1> QED BY <1>4, <1>5, <1>6, <1>7, <1>8, <1>9, PollStays

------------------------------------------------------------------------------
(* From a connection to its flow and its edge.                              *)

(* The flow of a connection of the host.                                    *)
TrueFlow(c, e) ==
  CASE c.opener = "us"   -> OutboundFlow(e)
    [] c.opener = "peer" -> InboundFlow(e)
    [] OTHER             -> LoopbackFlow(e)

(* The entry conntrack has of a connection, and the one the socket at the   *)
(* local end makes of it, have the same flow but where a peer opened it.    *)
Describes(e, c) ==
  /\ e.proto = c.proto
  /\ IF c.opener = "peer"
     THEN <<e.src, e.sport, e.dst, e.dport>> = <<c.peer, c.pport, c.local, c.lport>>
     ELSE <<e.src, e.sport, e.dst, e.dport>> = <<c.local, c.lport, c.peer, c.pport>>

(* normalize_entry finds the service side: with the addresses that sockets  *)
(* of the host show, the flow is the connection's, or there is none where   *)
(* they do not show its local address.                                      *)
LEMMA FlowIsTrue ==
  ASSUME NEW c \in Connections, c.ns = "host", NEW e, Describes(e, c),
         NEW ips \in SUBSET Own, Loopback \in ips, NEW ports
  PROVE  /\ NormalizeEntry(e, ips, ports)
              = IF c.opener # "other" /\ c.local \in ips THEN {TrueFlow(c, e)} ELSE {}
         /\ c.opener # "other" => Key(TrueFlow(c, e)) = TrueKey(c)
<1>1. /\ c.opener \in {"us", "peer", "self", "other"}
      /\ c.opener \in {"us", "peer"} => c.local # Wildcard /\ c.peer \notin Own
      /\ c.opener = "self"  => {c.local, c.peer} = {Loopback}
      /\ c.opener = "other" => {c.local, c.peer} \cap Own = {}
  BY PollCycleAssumption, TopologyAssumption
<1>2. CASE c.opener = "us"
  <2>1. /\ e.proto = c.proto /\ e.src = c.local /\ e.sport = c.lport
        /\ e.dst = c.peer /\ e.dport = c.pport
    BY <1>2 DEF Describes
  <2>2. e.dst \notin ips
    BY <1>1, <1>2, <2>1
  <2>3. NormalizeEntry(e, ips, ports) = IF c.local \in ips THEN {OutboundFlow(e)} ELSE {}
    BY <2>1, <2>2 DEF NormalizeEntry
  <2>4. Key(OutboundFlow(e)) = TrueKey(c)
    BY <1>2, <2>1 DEF Key, OutboundFlow, Flow, TrueKey
  <2> QED BY <1>2, <2>3, <2>4 DEF TrueFlow
<1>3. CASE c.opener = "peer"
  <2>1. /\ e.proto = c.proto /\ e.src = c.peer /\ e.sport = c.pport
        /\ e.dst = c.local /\ e.dport = c.lport
    BY <1>3 DEF Describes
  <2>2. e.src \notin ips
    BY <1>1, <1>3, <2>1
  <2>3. NormalizeEntry(e, ips, ports) = IF c.local \in ips THEN {InboundFlow(e)} ELSE {}
    BY <2>1, <2>2 DEF NormalizeEntry
  <2>4. Key(InboundFlow(e)) = TrueKey(c)
    BY <1>3, <2>1 DEF Key, InboundFlow, Flow, TrueKey
  <2> QED BY <1>3, <2>3, <2>4 DEF TrueFlow
<1>4. CASE c.opener = "self"
  <2>1. /\ e.proto = c.proto /\ e.src = c.local /\ e.sport = c.lport
        /\ e.dst = c.peer /\ e.dport = c.pport
    BY <1>4 DEF Describes
  <2>2. c.local = Loopback /\ c.peer = Loopback
    BY <1>1, <1>4
  <2>3. NormalizeEntry(e, ips, ports) = {LoopbackFlow(e)}
    BY <2>1, <2>2 DEF NormalizeEntry
  <2>4. Key(LoopbackFlow(e)) = TrueKey(c)
    BY <1>4, <2>1 DEF Key, LoopbackFlow, Flow, TrueKey
  <2> QED BY <1>4, <2>2, <2>3, <2>4 DEF TrueFlow
<1>5. CASE c.opener = "other"
  <2>1. e.src = c.local /\ e.dst = c.peer
    BY <1>5 DEF Describes
  <2>2. e.src \notin ips /\ e.dst \notin ips
    BY <1>1, <1>5, <2>1
  <2>3. NormalizeEntry(e, ips, ports) = {}
    BY <2>2 DEF NormalizeEntry
  <2> QED BY <1>5, <2>3
<1> QED BY <1>1, <1>2, <1>3, <1>4, <1>5

(* What conntrack has describes the connection.                             *)
LEMMA ConntrackDescribes ==
  ASSUME NEW c, NEW a
  PROVE  /\ Describes(ConntrackEntry(c, a), c)
         /\ ConntrackEntry(c, a).bytes = IF c \in a THEN c.bytes ELSE 0
BY DEF Describes, ConntrackEntry

(* Two connections have two flows.                                          *)
LEMMA FlowsApart ==
  ASSUME NEW c \in Connections, NEW d \in Connections, NEW e, NEW g,
         c.ns = "host", d.ns = "host", c.opener # "other", d.opener # "other",
         Describes(e, c), Describes(g, d), TrueFlow(c, e) = TrueFlow(d, g)
  PROVE  c = d
<1>1. /\ c.opener \in {"us", "peer", "self"} /\ d.opener \in {"us", "peer", "self"}
      /\ d # c => Tuples(c) \cap Tuples(d) = {}
  BY PollCycleAssumption, TopologyAssumption
<1> DEFINE OwnEnd(x) == <<"host", x.proto, x.local, x.lport, x.peer, x.pport>>
<1>2. ASSUME NEW x, x.ns = "host", x.opener \in {"us", "peer", "self"}
      PROVE  OwnEnd(x) \in Tuples(x)
  <2>1. PICK s : s = Socket(x, x.local, x.lport, x.peer, x.pport, x.pid)
    OBVIOUS
  <2>2. s \in Ends(x)
    BY <1>2, <2>1 DEF Ends
  <2>3. OwnEnd(x) = <<s.ns, s.proto, s.lip, s.lport, s.rip, s.rport>>
    BY <1>2, <2>1 DEF Socket
  <2> QED BY <2>2, <2>3 DEF Tuples
<1>3. c.opener = d.opener /\ OwnEnd(c) = OwnEnd(d)
  <2>1. PICK f, h : f = TrueFlow(c, e) /\ h = TrueFlow(d, g)
    OBVIOUS
  <2>2. /\ f.proto = c.proto
        /\ f.direction = CASE c.opener = "us" -> "outbound" [] c.opener = "peer" -> "inbound"
                           [] OTHER -> "loopback"
        /\ c.opener = "self" => /\ f.local = c.peer /\ f.lport = c.pport
                                /\ f.peer = c.local /\ f.pport = c.lport
        /\ c.opener # "self" => /\ f.local = c.local /\ f.lport = c.lport
                                /\ f.peer = c.peer /\ f.pport = c.pport
    BY <1>1, <2>1 DEF TrueFlow, Describes, OutboundFlow, InboundFlow, LoopbackFlow, Flow
  <2>3. /\ h.proto = d.proto
        /\ h.direction = CASE d.opener = "us" -> "outbound" [] d.opener = "peer" -> "inbound"
                           [] OTHER -> "loopback"
        /\ d.opener = "self" => /\ h.local = d.peer /\ h.lport = d.pport
                                /\ h.peer = d.local /\ h.pport = d.lport
        /\ d.opener # "self" => /\ h.local = d.local /\ h.lport = d.lport
                                /\ h.peer = d.peer /\ h.pport = d.pport
    BY <1>1, <2>1 DEF TrueFlow, Describes, OutboundFlow, InboundFlow, LoopbackFlow, Flow
  <2>4. f = h
    BY <2>1
  <2> QED BY <1>1, <2>2, <2>3, <2>4
<1>4. OwnEnd(c) \in Tuples(c) /\ OwnEnd(c) \in Tuples(d)
  BY <1>1, <1>2, <1>3
<1> QED BY <1>1, <1>4

(* The tables show no address but those of the host.                        *)
LEMMA IpsAreOwn ==
  ASSUME CtrlInv, NEW socks \in HostTables
  PROVE  LocalIps(socks) \in SUBSET Own /\ Loopback \in LocalIps(socks)
<1>1. setup.conns \subseteq Connections
  BY PollCycleAssumption DEF CtrlInv
<1>2. ASSUME NEW s \in socks
      PROVE  s \in AllSockets("host", Connections, Listeners)
  <2>1. s \in AllSockets("host", setup.conns, Listeners)
    BY DEF HostTables
  <2>2. s.ns = "host" /\ (s \in Listeners \/ \E c \in setup.conns : s \in Ends(c))
    BY <2>1, SocketOf
  <2>3. s.ns = "host" /\ (s \in Listeners \/ \E c \in Connections : s \in Ends(c))
    BY <1>1, <2>2
  <2> QED BY <2>3, SocketOf
<1> QED BY <1>2 DEF LocalIps, Own

(* A steady connection shows its ends.                                      *)
LEMMA SteadyShows ==
  ASSUME CtrlInv, KernelInv, NEW c \in steady, c.ns = "host", c.opener # "other"
  PROVE  /\ Ends(c) \subseteq SteadyEnds
         /\ \E s \in Ends(c) : s = Socket(c, c.local, c.lport, c.peer, c.pport, c.pid)
         /\ c \in setup.conns /\ c \in Connections /\ c \in OpenConns
<1>1. c \in setup.conns /\ c \in Connections /\ c \in OpenConns
  BY PollCycleAssumption DEF KernelInv, OpenConns, CtrlInv
<1>2. \A s \in Ends(c) : s.ns = "host"
  BY DEF Ends, Socket
<1>3. Ends(c) \subseteq SteadyEnds
  BY <1>2, SocketOf DEF SteadyEnds
<1>4. \E s \in Ends(c) : s = Socket(c, c.local, c.lport, c.peer, c.pport, c.pid)
  BY <1>1 DEF Ends
<1> QED BY <1>1, <1>3, <1>4

(* The flows of the host.                                                   *)
HostFlows == NormalizeEntries(entries, LocalIps(sockets), ListeningPorts(sockets))

(* The edges of the host are those of its flows.                            *)
LEMMA HostEdgesBuilt ==
  ASSUME BuildEdges
  PROVE  /\ \A e \in HostEdges' :
              /\ \E f \in HostFlows : Key(f) = e.key
              /\ e.bytes = EdgeBytes(HostFlows, e.key)
              /\ e.owners = Alive(Candidates(HostFlows, owned, e.key))
              /\ e.quality = Quality("host", e.bytes)
         /\ \A f \in HostFlows : \E e \in HostEdges' : e.key = Key(f)
<1>1. PICK more : more = NamespaceEdges
  OBVIOUS
<1>2. \A e \in more : e.ns # "host"
  <2>1. \A ns, ents, socks, own : \A e \in EdgesFrom(ns, ents, socks, own) : e.ns = ns
    BY DEF EdgesFrom
  <2>2. \A e \in more : \E ns \in Namespaces : e.ns = ns
    BY <1>1, <2>1 DEF NamespaceEdges
  <2> QED BY <2>2 DEF Namespaces
<1>3. PICK main : main = EdgesFrom("host", entries, sockets, owned)
  OBVIOUS
<1>4. main = {[key     |-> k,
               ns      |-> "host",
               bytes   |-> EdgeBytes(HostFlows, k),
               owners  |-> Alive(Candidates(HostFlows, owned, k)),
               quality |-> Quality("host", EdgeBytes(HostFlows, k)),
               domain  |-> PeerDomain(k.peer)] : k \in {Key(f) : f \in HostFlows}}
  BY <1>3 DEF EdgesFrom, HostFlows
<1>5. \A e \in main : e.ns = "host"
  BY <1>4
<1>6. edges' = main \cup more
  BY <1>1, <1>3 DEF BuildEdges
<1>7. HostEdges' = main
  BY <1>2, <1>5, <1>6 DEF HostEdges
<1> HIDE DEF HostFlows
<1>8. \A e \in main :
              /\ \E f \in HostFlows : Key(f) = e.key
              /\ e.bytes = EdgeBytes(HostFlows, e.key)
              /\ e.owners = Alive(Candidates(HostFlows, owned, e.key))
              /\ e.quality = Quality("host", e.bytes)
  BY <1>4
<1>9. ASSUME NEW f \in HostFlows
      PROVE  \E e \in main : e.key = Key(f)
  <2>1. PICK k : k = Key(f)
    OBVIOUS
  <2>2. PICK e : e = [key     |-> k,
                      ns      |-> "host",
                      bytes   |-> EdgeBytes(HostFlows, k),
                      owners  |-> Alive(Candidates(HostFlows, owned, k)),
                      quality |-> Quality("host", EdgeBytes(HostFlows, k)),
                      domain  |-> PeerDomain(k.peer)]
    OBVIOUS
  <2>3. k \in {Key(g) : g \in HostFlows}
    BY <2>1
  <2>4. e \in main
    BY <1>4, <2>2, <2>3
  <2>5. e.key = k
    BY <2>2
  <2> QED BY <2>1, <2>4, <2>5
<1> QED BY <1>7, <1>8, <1>9

(* The poll and the host are as they were when the edges are built.         *)
LEMMA BuiltFrom ==
  ASSUME BuildEdges
  PROVE  /\ pc = "collect" /\ pc' = "edges" /\ pc \in Reading
         /\ UNCHANGED <<setup, phase, listeners, exited, steady, readFrom, entries, sockets, owned,
                        atRead, counting, backend, claimed>>
BY DEF BuildEdges, Goto, kernel, Reading

(* A flow and its entry.                                                    *)
LEMMA FlowOfEntry ==
  ASSUME NEW f \in HostFlows
  PROVE  \E e \in entries :
           /\ f \in NormalizeEntry(e, LocalIps(sockets), ListeningPorts(sockets))
           /\ f.bytes = e.bytes /\ f.proto = e.proto
           /\ IF f.direction = "outbound" THEN f.service = f.pport ELSE f.service = f.lport
<1>1. PICK e \in entries : f \in NormalizeEntry(e, LocalIps(sockets), ListeningPorts(sockets))
  BY DEF HostFlows, NormalizeEntries
<1>2. f = LoopbackFlow(e) \/ f = InboundFlow(e) \/ f = OutboundFlow(e)
  BY <1>1 DEF NormalizeEntry
<1> QED BY <1>1, <1>2 DEF LoopbackFlow, InboundFlow, OutboundFlow, Flow

(* A socket without its counters is otherwise the same.                     *)
LEMMA ZeroedSame ==
  ASSUME NEW conns, NEW s \in AllSockets("host", conns, Listeners), NEW t,
         t = [s EXCEPT !.bytes = 0]
  PROVE  /\ t.ns = s.ns /\ t.proto = s.proto /\ t.lip = s.lip /\ t.lport = s.lport
         /\ t.rip = s.rip /\ t.rport = s.rport /\ t.listening = s.listening /\ t.owner = s.owner
         /\ t.bytes = 0
<1>1. s \in Listeners \/ \E c \in conns : s \in Ends(c)
  BY SocketOf
<1>2. CASE s \in Listeners
  <2>1. DOMAIN s = {"ns", "proto", "lip", "lport", "rip", "rport", "listening", "owner", "bytes"}
    BY <1>2, PollCycleAssumption
  <2> QED BY <2>1
<1>3. CASE \E c \in conns : s \in Ends(c)
  <2>1. PICK c, lip, lport, rip, rport, owner : s = Socket(c, lip, lport, rip, rport, owner)
    BY <1>3 DEF Ends
  <2> QED BY <2>1 DEF Socket
<1> QED BY <1>1, <1>2, <1>3

(* Whoever is found to own a socket is the owner of one of the host's.      *)
LEMMA OwnedAreHosts ==
  ASSUME ReadInv, OwnedInv, pc = "collect", NEW s \in owned
  PROVE  \E t \in AllSockets("host", setup.conns, Listeners) :
           /\ t.owner = s.owner /\ t.proto = s.proto /\ t.lip = s.lip /\ t.lport = s.lport
           /\ t.rip = s.rip /\ t.rport = s.rport /\ t.listening = s.listening
<1>1. CASE Windows
  <2>1. PICK socks \in HostTables :
          sockets = {[t EXCEPT !.bytes = 0] : t \in {u \in socks : u.proto = "tcp"}}
    BY <1>1 DEF ReadInv, Reading
  <2>2. PICK t \in socks : s = [t EXCEPT !.bytes = 0]
    BY <2>1 DEF OwnedInv
  <2>3. t \in AllSockets("host", setup.conns, Listeners)
    BY DEF HostTables
  <2> QED BY <2>2, <2>3, ZeroedSame
<1>2. CASE ~ Windows
  BY <1>2 DEF ReadInv, Reading, OwnedInv, HostTables
<1> QED BY <1>1, <1>2

(* A process an edge names held an end of it, or listened there.            *)
LEMMA OwnersHeld ==
  ASSUME ReadInv, OwnedInv, BuildEdges, NEW e \in HostEdges', NEW pid \in e.owners \ {NoProcess}
  PROVE  \E s \in Listeners \cup UNION {Ends(c) : c \in setup.conns} :
             /\ s.owner = pid /\ s.proto = e.key.proto
             /\ IF e.key.direction = "outbound"
                THEN <<s.lip, s.rip, s.rport>> = <<e.key.local, e.key.peer, e.key.service>>
                ELSE /\ s.lport = e.key.service
                     /\ s.listening \/ <<s.lip, s.rip>> = <<e.key.local, e.key.peer>>
<1>1. pid \in Candidates(HostFlows, owned, e.key) /\ pid # NoProcess
  BY HostEdgesBuilt DEF Alive
<1>2. PICK f \in HostFlows : Key(f) = e.key /\ pid \in ResolvePid(f, owned)
  <2>1. PICK pids : pids = UNION {ResolvePid(f, owned) : f \in FlowsOf(HostFlows, e.key)}
    OBVIOUS
  <2>2. pid \in pids
    BY <1>1, <2>1 DEF Candidates
  <2> QED BY <2>1, <2>2 DEF FlowsOf
<1>3. PICK s \in owned :
        /\ s.owner = pid /\ s.proto = f.proto
        /\ \/ /\ s.lip = f.local /\ s.lport = f.lport /\ s.rip = f.peer /\ s.rport = f.pport
           \/ f.direction # "outbound" /\ s.listening /\ s.lport = f.service
  BY <1>2 DEF ResolvePid, Established, Listening
<1>4. PICK t \in AllSockets("host", setup.conns, Listeners) :
        /\ t.owner = s.owner /\ t.proto = s.proto /\ t.lip = s.lip /\ t.lport = s.lport
        /\ t.rip = s.rip /\ t.rport = s.rport /\ t.listening = s.listening
  BY BuiltFrom, OwnedAreHosts
<1>5. t \in Listeners \cup UNION {Ends(c) : c \in setup.conns}
  <2>1. t \in Listeners \/ \E c \in setup.conns : t \in Ends(c)
    BY <1>4, SocketOf
  <2> QED BY <2>1
<1>6. IF f.direction = "outbound" THEN f.service = f.pport ELSE f.service = f.lport
  BY FlowOfEntry
<1>7. /\ e.key.proto = f.proto /\ e.key.direction = f.direction /\ e.key.local = f.local
      /\ e.key.peer = f.peer /\ e.key.service = f.service
  <2>1. PICK k : k = Key(f) /\ k = e.key
    BY <1>2
  <2> QED BY <2>1 DEF Key
<1> QED BY <1>3, <1>4, <1>5, <1>6, <1>7

------------------------------------------------------------------------------
(* Owners.                                                                  *)

(* The connections conntrack listed whose local address a socket shows.     *)
Seen == {c \in atRead : /\ c.ns = "host" /\ c.opener # "other"
                        /\ c.local \in LocalIps(sockets)}

(* The flow a connection listed by conntrack becomes.                       *)
FlowIn(c) == TrueFlow(c, ConntrackEntry(c, counting))

(* Read from conntrack, the flows are the connections.                      *)
LEMMA ConntrackFlows ==
  ASSUME CtrlInv, SourceInv, ReadInv, pc = "collect", readFrom \in Conntrack
  PROVE  /\ ~ Windows /\ sockets \in HostTables
         /\ \A c \in Seen : FlowIn(c) \in HostFlows /\ Key(FlowIn(c)) = TrueKey(c)
                            /\ c \in Connections
         /\ \A f \in HostFlows : \E c \in Seen : f = FlowIn(c)
         /\ \A c, d \in Seen : FlowIn(c) = FlowIn(d) => c = d
<1>1. ~ Windows
  BY DEF SourceInv, Reading, Source, Conntrack
<1>2. /\ sockets \in HostTables
      /\ entries = FromConntrack(atRead, counting)
      /\ atRead \subseteq setup.conns
  <2>1. \A socks : Snapshot(readFrom, setup.tools, atRead, counting, socks)
                     = FromConntrack(atRead, counting)
    BY DEF Snapshot, Conntrack
  <2>2. \E socks : entries = Snapshot(readFrom, setup.tools, atRead, counting, socks)
    BY <1>1 DEF ReadInv, Reading
  <2> QED BY <1>1, <2>1, <2>2 DEF ReadInv, Reading
<1>3. PICK ips, ports : ips = LocalIps(sockets) /\ ports = ListeningPorts(sockets)
  OBVIOUS
<1>4. ips \in SUBSET Own /\ Loopback \in ips
  BY <1>2, <1>3, IpsAreOwn
<1>5. atRead \subseteq Connections
  BY <1>2, PollCycleAssumption DEF CtrlInv
<1>6. ASSUME NEW c \in atRead, c.ns = "host"
      PROVE  /\ Describes(ConntrackEntry(c, counting), c)
             /\ NormalizeEntry(ConntrackEntry(c, counting), ips, ports)
                  = IF c.opener # "other" /\ c.local \in ips THEN {FlowIn(c)} ELSE {}
             /\ c.opener # "other" => Key(FlowIn(c)) = TrueKey(c)
  <2>1. PICK e : e = ConntrackEntry(c, counting)
    OBVIOUS
  <2>2. Describes(e, c)
    BY <2>1, ConntrackDescribes
  <2>3. /\ NormalizeEntry(e, ips, ports)
              = IF c.opener # "other" /\ c.local \in ips THEN {TrueFlow(c, e)} ELSE {}
        /\ c.opener # "other" => Key(TrueFlow(c, e)) = TrueKey(c)
    BY <1>4, <1>5, <1>6, <2>2, FlowIsTrue
  <2> QED BY <2>1, <2>2, <2>3 DEF FlowIn
<1>7. \A f : f \in HostFlows <=> \E e \in entries : f \in NormalizeEntry(e, ips, ports)
  BY <1>3 DEF HostFlows, NormalizeEntries
<1>8. \A e : e \in entries <=> \E c \in atRead : c.ns = "host" /\ e = ConntrackEntry(c, counting)
  BY <1>2 DEF FromConntrack
<1>9. \A c : c \in Seen <=> c \in atRead /\ c.ns = "host" /\ c.opener # "other" /\ c.local \in ips
  BY <1>3 DEF Seen
<1> HIDE DEF HostFlows, Seen, FlowIn
<1>10. \A c \in Seen : FlowIn(c) \in HostFlows /\ Key(FlowIn(c)) = TrueKey(c) /\ c \in Connections
  BY <1>5, <1>6, <1>7, <1>8, <1>9
<1>11. \A f \in HostFlows : \E c \in Seen : f = FlowIn(c)
  <2> SUFFICES ASSUME NEW f \in HostFlows PROVE \E c \in Seen : f = FlowIn(c)
    OBVIOUS
  <2>1. PICK e \in entries : f \in NormalizeEntry(e, ips, ports)
    BY <1>7
  <2>2. PICK c \in atRead : c.ns = "host" /\ e = ConntrackEntry(c, counting)
    BY <1>8, <2>1
  <2>3. f \in IF c.opener # "other" /\ c.local \in ips THEN {FlowIn(c)} ELSE {}
    BY <1>6, <2>1, <2>2
  <2> QED BY <1>9, <2>2, <2>3
<1>12. \A c, d \in Seen : FlowIn(c) = FlowIn(d) => c = d
  <2> SUFFICES ASSUME NEW c \in Seen, NEW d \in Seen, FlowIn(c) = FlowIn(d) PROVE c = d
    OBVIOUS
  <2>1. PICK e, g : e = ConntrackEntry(c, counting) /\ g = ConntrackEntry(d, counting)
    OBVIOUS
  <2>2. Describes(e, c) /\ Describes(g, d)
    BY <2>1, ConntrackDescribes
  <2>3. TrueFlow(c, e) = TrueFlow(d, g)
    BY <2>1 DEF FlowIn
  <2>4. /\ c \in Connections /\ d \in Connections /\ c.ns = "host" /\ d.ns = "host"
        /\ c.opener # "other" /\ d.opener # "other"
    BY <1>5, <1>9
  <2> QED BY ONLY <2>2, <2>3, <2>4, FlowsApart
<1> QED BY <1>1, <1>2, <1>10, <1>11, <1>12

(* The process of a flow is the one that holds the end it is about.         *)
LEMMA HolderFound ==
  ASSUME KernelInv, CtrlInv, ReadInv, OwnedInv, pc = "collect", ~ Windows,
         NEW c \in steady, c.ns = "host", c.opener # "other", NEW e, Describes(e, c),
         MayWalk(HolderOf(c))
  PROVE  Established(TrueFlow(c, e), owned) = {HolderOf(c)} /\ HolderOf(c) \notin exited
<1>1. PICK f : f = TrueFlow(c, e)
  OBVIOUS
<1>2. /\ c \in Connections /\ c \in setup.conns /\ c \in OpenConns
      /\ Ends(c) \subseteq SteadyEnds
      /\ c.opener \in {"us", "peer", "self"}
      /\ c.opener = "self" => {c.local, c.peer} = {Loopback} /\ c.lport # c.pport
      /\ \A d \in Connections \ {c} : Tuples(c) \cap Tuples(d) = {}
  BY SteadyShows, PollCycleAssumption, TopologyAssumption
<1>3. SteadyWalked \subseteq owned /\ owned \subseteq AllSockets("host", setup.conns, Listeners)
  BY DEF ReadInv, OwnedInv, Reading, HostTables
<1>4. PICK s : /\ s \in Ends(c) /\ s.owner = HolderOf(c) /\ s.listening = FALSE /\ s.ns = "host"
               /\ s.proto = f.proto /\ s.lip = f.local /\ s.lport = f.lport
               /\ s.rip = f.peer /\ s.rport = f.pport
               /\ \A t \in Ends(c) : t = s \/ t.lport # s.lport
  <2>1. CASE c.opener = "self"
    <3>1. PICK s, t : /\ s = Socket(c, c.peer, c.pport, c.local, c.lport, c.far)
                      /\ t = Socket(c, c.local, c.lport, c.peer, c.pport, c.pid)
      OBVIOUS
    <3>2. Ends(c) = {t, s}
      BY <2>1, <3>1 DEF Ends
    <3>3. /\ s.owner = HolderOf(c) /\ s.listening = FALSE /\ s.ns = "host" /\ s.proto = c.proto
          /\ s.lip = c.peer /\ s.lport = c.pport /\ s.rip = c.local /\ s.rport = c.lport
          /\ t.lport = c.lport
      BY <2>1, <3>1 DEF Socket, HolderOf
    <3>4. /\ f.proto = c.proto /\ f.local = c.peer /\ f.lport = c.pport
          /\ f.peer = c.local /\ f.pport = c.lport
      BY <1>1, <2>1 DEF TrueFlow, Describes, LoopbackFlow, Flow
    <3> QED BY <1>2, <2>1, <3>2, <3>3, <3>4
  <2>2. CASE c.opener # "self"
    <3>1. PICK s : s = Socket(c, c.local, c.lport, c.peer, c.pport, c.pid)
      OBVIOUS
    <3>2. Ends(c) = {s}
      BY <1>2, <2>2, <3>1 DEF Ends
    <3>3. /\ s.owner = HolderOf(c) /\ s.listening = FALSE /\ s.ns = "host" /\ s.proto = c.proto
          /\ s.lip = c.local /\ s.lport = c.lport /\ s.rip = c.peer /\ s.rport = c.pport
      BY <2>2, <3>1 DEF Socket, HolderOf
    <3>4. /\ f.proto = c.proto /\ f.local = c.local /\ f.lport = c.lport
          /\ f.peer = c.peer /\ f.pport = c.pport
      BY <1>1, <1>2, <2>2 DEF TrueFlow, Describes, OutboundFlow, InboundFlow, Flow
    <3> QED BY <3>2, <3>3, <3>4
  <2> QED BY <2>1, <2>2
<1>5. ASSUME NEW t \in owned, ~ t.listening, t.proto = f.proto, t.lip = f.local,
             t.lport = f.lport, t.rip = f.peer, t.rport = f.pport
      PROVE  t = s
  <2>1. t.ns = "host" /\ (t \in Listeners \/ \E d \in setup.conns : t \in Ends(d))
    BY <1>3, SocketOf
  <2>2. PICK d \in Connections : t \in Ends(d)
    BY <1>5, <2>1, PollCycleAssumption DEF CtrlInv
  <2>3. PICK tuple : tuple = <<"host", f.proto, f.local, f.lport, f.peer, f.pport>>
    OBVIOUS
  <2>4. tuple \in Tuples(c)
    BY <1>4, <2>3 DEF Tuples
  <2>5. tuple \in Tuples(d)
    BY <1>5, <2>1, <2>2, <2>3 DEF Tuples
  <2>6. d = c
    BY <1>2, <2>4, <2>5
  <2> QED BY <1>4, <1>5, <2>2, <2>6
<1>6. s \in owned
  <2>1. s \in SteadyEnds /\ MayWalk(s.owner)
    BY <1>2, <1>4
  <2> QED BY <1>3, <2>1 DEF SteadyWalked
<1>7. Established(f, owned) = {HolderOf(c)}
  <2>1. {t \in owned : /\ ~ t.listening /\ t.proto = f.proto
                       /\ t.lip = f.local /\ t.lport = f.lport
                       /\ t.rip = f.peer /\ t.rport = f.pport} = {s}
    BY <1>4, <1>5, <1>6
  <2> QED BY <1>4, <2>1 DEF Established
<1>8. HolderOf(c) \in InUse
  BY <1>2, <1>4, InUseOf
<1> QED BY <1>1, <1>7, <1>8 DEF KernelInv

(* A connection that has its edge for itself is given to its process.       *)
LEMMA OwnersExact ==
  ASSUME KernelInv, CtrlInv, SourceInv, ReadInv, OwnedInv, BuildEdges,
         readFrom \in Conntrack, NEW c \in steady \cap atRead, NEW e \in HostEdges',
         OfEdge(e.key, atRead) = {c}, MayWalk(HolderOf(c))
  PROVE  e.owners = {HolderOf(c)}
<1>1. pc = "collect"
  BY BuiltFrom
<1>2. PICK k : k = e.key
  OBVIOUS
<1>3. c \in atRead /\ c.ns = "host" /\ c.opener # "other" /\ TrueKey(c) = k
  BY <1>2 DEF OfEdge
<1>4. PICK g : g = ConntrackEntry(c, counting)
  OBVIOUS
<1>5. Describes(g, c) /\ ~ Windows
  BY <1>1, <1>4, ConntrackDescribes, ConntrackFlows
<1>6. Established(TrueFlow(c, g), owned) = {HolderOf(c)} /\ HolderOf(c) \notin exited
  BY <1>1, <1>3, <1>5, HolderFound
<1>7. FlowIn(c) = TrueFlow(c, g)
  BY <1>4 DEF FlowIn
<1>8. FlowsOf(HostFlows, k) = {FlowIn(c)}
  <2>1. ASSUME NEW f \in HostFlows, Key(f) = k PROVE f = FlowIn(c)
    <3>1. PICK d \in Seen : f = FlowIn(d) /\ Key(f) = TrueKey(d)
      BY <1>1, ConntrackFlows
    <3>2. d \in OfEdge(k, atRead)
      BY <2>1, <3>1 DEF OfEdge, Seen
    <3> QED BY <1>2, <3>1, <3>2
  <2>2. \E f \in HostFlows : Key(f) = k
    BY <1>2, HostEdgesBuilt
  <2> QED BY <2>1, <2>2 DEF FlowsOf
<1>9. ResolvePid(FlowIn(c), owned) = {HolderOf(c)}
  BY <1>6, <1>7 DEF ResolvePid
<1>10. Candidates(HostFlows, owned, k) = {HolderOf(c)}
  BY <1>8, <1>9 DEF Candidates
<1> QED BY <1>2, <1>6, <1>10, HostEdgesBuilt DEF Alive

(* Owners are right when the edges are built, and stay until recorded.      *)
LEMMA OwnerStep ==
  ASSUME KernelInv, CtrlInv, SourceInv, ReadInv, OwnedInv, OwnerHeldIt, [PollNext]_allVars
  PROVE  OwnerHeldIt'
<1>1. CASE pc' # "edges"
  BY <1>1 DEF OwnerHeldIt
<1>2. CASE BuildEdges
  <2>1. \A e \in HostEdges', pid \in UNION {d.owners : d \in HostEdges'} :
         pid \in e.owners \ {NoProcess} =>
           \E s \in Listeners \cup UNION {Ends(c) : c \in setup'.conns} :
             /\ s.owner = pid /\ s.proto = e.key.proto
             /\ IF e.key.direction = "outbound"
                THEN <<s.lip, s.rip, s.rport>> = <<e.key.local, e.key.peer, e.key.service>>
                ELSE /\ s.lport = e.key.service
                     /\ s.listening \/ <<s.lip, s.rip>> = <<e.key.local, e.key.peer>>
    BY <1>2, OwnersHeld, BuiltFrom
  <2>2. readFrom' \in Conntrack =>
         \A c \in steady' \cap atRead', e \in HostEdges' :
           OfEdge(e.key, atRead') = {c} /\ MayWalk(HolderOf(c))' => e.owners = {HolderOf(c)}
    <3>1. \A pid : MayWalk(pid)' = MayWalk(pid)
      BY <1>2, BuiltFrom DEF MayWalk
    <3> QED BY <1>2, <3>1, OwnersExact, BuiltFrom
  <2> QED BY <2>1, <2>2 DEF OwnerHeldIt
<1>3. CASE pc' = "edges" /\ ~ BuildEdges
  <2>1. /\ UNCHANGED <<setup, pc, edges, readFrom, atRead, counting>>
        /\ steady' \subseteq steady
    <3>1. pc' \in Reading
      BY <1>3 DEF Reading
    <3> QED BY <1>3, <3>1, PollStays DEF Read, ReadWindows, ReadSockets, WalkProcesses, Goto, poll
  <2>2. HostEdges' = HostEdges /\ \A pid : MayWalk(pid)' = MayWalk(pid)
    BY <2>1 DEF HostEdges, MayWalk
  <2> QED BY <1>3, <2>1, <2>2 DEF OwnerHeldIt
<1> QED BY <1>1, <1>2, <1>3

------------------------------------------------------------------------------
(* Bytes and their labels.                                                  *)

(* The bytes connections have carried, where they are counted.              *)
ConnBytes(a, conns) == MapThenSumSet(LAMBDA c : IF c \in a THEN c.bytes ELSE 0, conns)

(* The bytes of an edge are the sum of those of its flows.                  *)
LEMMA EdgeBytesSum ==
  ASSUME NEW flows, NEW k, NEW S, S = FlowsOf(flows, k), IsFiniteSet(S)
  PROVE  EdgeBytes(flows, k) = SumFunctionOnSet([f \in S |-> f.bytes], S)
<1> DEFINE fn == [f \in S |-> f.bytes]
           Good(it) == it = [s \in SUBSET S |->
                IF s = {} THEN 0 ELSE Pick(s).bytes + it[s \ {Pick(s)}]]
           it0 == CHOOSE it : Good(it)
<1>1. EdgeBytes(flows, k) = it0[S]
  BY DEF EdgeBytes, MapThenSumSet, MapThenFoldSet, Pick
<1>2. ASSUME NEW it
      PROVE  Good(it) <=> Unfolds(it, fn, S)
  <2>1. \A s \in SUBSET S : s # {} => Pick(s) \in S
    BY PickMember
  <2>2. \A s \in SUBSET S : s # {} => Pick(s).bytes = fn[Pick(s)]
    BY <2>1
  <2> HIDE DEF fn
  <2> QED BY <2>2 DEF Unfolds
<1>3. \E it : Unfolds(it, fn, S)
  <2> HIDE DEF fn
  <2> QED BY IterationExists
<1>4. Good(it0)
  <2>1. \E it : Good(it)
    <3> HIDE DEF Good, fn
    <3> QED BY <1>2, <1>3
  <2> QED BY <2>1
<1>5. Unfolds(it0, fn, S)
  <2> HIDE DEF it0, Good, fn
  <2> QED BY <1>2, <1>4
<1>6. SumFunctionOnSet(fn, S) = it0[S]
  <2>1. PICK g, u : g = it0 /\ u = fn
    OBVIOUS
  <2>2. Unfolds(g, u, S)
    BY <1>5, <2>1
  <2>3. \A t \in SUBSET S : SumFunctionOnSet(u, t) = g[t]
    BY ONLY IsFiniteSet(S), <2>2, SumFromIteration
  <2> QED BY <2>1, <2>3
<1> QED BY <1>1, <1>6

(* And what connections have carried is the sum of what each has.           *)
LEMMA ConnBytesSum ==
  ASSUME NEW a, NEW S, IsFiniteSet(S)
  PROVE  ConnBytes(a, S) = SumFunctionOnSet([c \in S |-> IF c \in a THEN c.bytes ELSE 0], S)
<1> DEFINE fn == [c \in S |-> IF c \in a THEN c.bytes ELSE 0]
           Good(it) == it = [s \in SUBSET S |->
                IF s = {} THEN 0
                ELSE (IF Pick(s) \in a THEN Pick(s).bytes ELSE 0) + it[s \ {Pick(s)}]]
           it0 == CHOOSE it : Good(it)
<1>1. ConnBytes(a, S) = it0[S]
  BY DEF ConnBytes, MapThenSumSet, MapThenFoldSet, Pick
<1>2. ASSUME NEW it
      PROVE  Good(it) <=> Unfolds(it, fn, S)
  <2>1. \A s \in SUBSET S : s # {} => Pick(s) \in S
    BY PickMember
  <2>2. \A s \in SUBSET S : s # {} => (IF Pick(s) \in a THEN Pick(s).bytes ELSE 0) = fn[Pick(s)]
    BY <2>1
  <2> HIDE DEF fn
  <2> QED BY <2>2 DEF Unfolds
<1>3. \E it : Unfolds(it, fn, S)
  <2> HIDE DEF fn
  <2> QED BY IterationExists
<1>4. Good(it0)
  <2>1. \E it : Good(it)
    <3> HIDE DEF Good, fn
    <3> QED BY <1>2, <1>3
  <2> QED BY <2>1
<1>5. Unfolds(it0, fn, S)
  <2> HIDE DEF it0, Good, fn
  <2> QED BY <1>2, <1>4
<1>6. SumFunctionOnSet(fn, S) = it0[S]
  <2>1. PICK g, u : g = it0 /\ u = fn
    OBVIOUS
  <2>2. Unfolds(g, u, S)
    BY <1>5, <2>1
  <2>3. \A t \in SUBSET S : SumFunctionOnSet(u, t) = g[t]
    BY ONLY IsFiniteSet(S), <2>2, SumFromIteration
  <2> QED BY <2>1, <2>3
<1> QED BY <1>1, <1>6

(* A sum of naturals is 0 exactly when all of them are.                     *)
LEMMA SumPositive ==
  ASSUME NEW u, NEW S, IsFiniteSet(S), \A x \in S : u[x] \in Nat
  PROVE  SumFunctionOnSet(u, S) > 0 <=> \E x \in S : u[x] > 0
<1>1. ASSUME NEW x \in S, u[x] > 0
      PROVE  SumFunctionOnSet(u, S) > 0
  <2>1. PICK T : T = S \ {x}
    OBVIOUS
  <2>2. SumFunctionOnSet(u, S) = u[x] + SumFunctionOnSet(u, T)
    <3>1. \A y \in S : u[y] \in Int
      OBVIOUS
    <3> QED BY <2>1, <3>1, SumRemove
  <2>3. IsFiniteSet(T) /\ \A y \in T : u[y] \in Nat
    BY <2>1, FS_Subset
  <2>4. SumFunctionOnSet(u, T) \in Nat
    BY ONLY <2>3, SumNat
  <2>5. PICK a \in Nat, b \in Nat : a = u[x] /\ b = SumFunctionOnSet(u, T) /\ a > 0
    BY <1>1, <2>4
  <2>6. SumFunctionOnSet(u, S) = a + b
    BY <2>2, <2>5
  <2> QED BY <2>5, <2>6
<1>2. ASSUME \A x \in S : ~ (u[x] > 0)
      PROVE  SumFunctionOnSet(u, S) = 0
  <2>1. \A x \in S : u[x] = 0
    BY <1>2
  <2> QED BY <2>1, SumZero
<1> QED BY <1>1, <1>2

(* What a function makes of a finite set is finite.                         *)
LEMMA ImageFinite ==
  ASSUME NEW S, IsFiniteSet(S), NEW T, NEW r, \A x \in S : r[x] \in T,
         \A y \in T : \E x \in S : r[x] = y
  PROVE  IsFiniteSet(T)
<1>1. PICK u : u = [x \in S |-> r[x]]
  OBVIOUS
<1>2. u \in Surjection(S, T)
  BY <1>1 DEF Surjection
<1> QED BY <1>2, FS_Surjection

(* The two ends of a connection.                                            *)
Near(c) == Socket(c, c.local, c.lport, c.peer, c.pport, c.pid)
Far(c)  == Socket(c, c.peer, c.pport, c.local, c.lport, c.far)

(* What a source may list of a connection.                                  *)
Listed(c, i) ==
  CASE i = 1 -> ConntrackEntry(c, counting)
    [] i = 2 -> SocketEntry(Near(c), 0)
    [] i = 3 -> SocketEntry(Near(c), Near(c).bytes)
    [] i = 4 -> SocketEntry(Far(c), 0)
    [] i = 5 -> SocketEntry(Far(c), Far(c).bytes)

(* A socket of the host that does not listen is an end of a connection.     *)
LEMMA EndOf ==
  ASSUME NEW s \in AllSockets("host", setup.conns, Listeners), ~ s.listening
  PROVE  \E c \in setup.conns : s \in Ends(c) /\ (s = Near(c) \/ s = Far(c))
<1>1. \E c \in setup.conns : s \in Ends(c)
  BY SocketOf, PollCycleAssumption
<1> QED BY <1>1 DEF Ends, Near, Far

(* Every entry is of a connection.                                          *)
LEMMA EntryOrigin ==
  ASSUME CtrlInv, SourceInv, ReadInv, pc = "collect", NEW e \in entries
  PROVE  \E c \in setup.conns, i \in 1..5 : e = Listed(c, i)
<1>1. CASE Windows
  <2>1. PICK socks \in HostTables :
          sockets = {[t EXCEPT !.bytes = 0] : t \in {u \in socks : u.proto = "tcp"}}
    BY <1>1 DEF ReadInv, Reading
  <2>2. entries = FromSockets(sockets)
    BY <1>1 DEF ReadInv, Reading
  <2>3. PICK s \in sockets : ~ s.listening /\ e = SocketEntry(s, 0)
    BY <2>2 DEF FromSockets
  <2>4. PICK t \in socks : s = [t EXCEPT !.bytes = 0]
    BY <2>1
  <2>5. t \in AllSockets("host", setup.conns, Listeners)
    BY DEF HostTables
  <2>6. /\ s.proto = t.proto /\ s.lip = t.lip /\ s.lport = t.lport
        /\ s.rip = t.rip /\ s.rport = t.rport /\ s.listening = t.listening
    BY <2>4, <2>5, ZeroedSame
  <2>7. e = SocketEntry(t, 0)
    BY <2>3, <2>6 DEF SocketEntry
  <2>8. PICK c \in setup.conns : t = Near(c) \/ t = Far(c)
    BY <2>3, <2>5, <2>6, EndOf
  <2>9. e = Listed(c, 2) \/ e = Listed(c, 4)
    BY <2>7, <2>8 DEF Listed
  <2> QED BY <2>9
<1>2. CASE ~ Windows
  <2>1. PICK socks \in HostTables :
          entries = Snapshot(readFrom, setup.tools, atRead, counting, socks)
    BY <1>2 DEF ReadInv, Reading
  <2>2. atRead \subseteq setup.conns
    BY DEF ReadInv
  <2>3. ASSUME NEW t \in socks, ~ t.listening
        PROVE  \E c \in setup.conns : t = Near(c) \/ t = Far(c)
    BY <2>3, EndOf DEF HostTables
  <2>4. CASE readFrom \in Conntrack
    <3>1. entries = FromConntrack(atRead, counting)
      BY <2>1, <2>4 DEF Snapshot, Conntrack
    <3>2. PICK c \in atRead : e = ConntrackEntry(c, counting)
      BY <3>1 DEF FromConntrack
    <3>3. e = Listed(c, 1)
      BY <3>2 DEF Listed
    <3> QED BY <2>2, <3>3
  <2>5. CASE readFrom = "socket-diag"
    <3>1. entries = FromSockDiag(socks, setup.tools.diag = "works")
      BY <2>1, <2>5 DEF Snapshot, Conntrack
    <3>2. PICK t \in socks :
            /\ \/ e = SocketEntry(t, t.bytes) /\ t.proto = "tcp" /\ ~ t.listening
               \/ e = SocketEntry(t, 0) /\ t.proto = "udp" /\ ~ t.listening
      BY <3>1 DEF FromSockDiag, FromSockets
    <3>3. PICK c \in setup.conns : t = Near(c) \/ t = Far(c)
      BY <2>3, <3>2
    <3>4. \E i \in 1..5 : e = Listed(c, i)
      <4>1. e = Listed(c, 2) \/ e = Listed(c, 3) \/ e = Listed(c, 4) \/ e = Listed(c, 5)
        BY <3>2, <3>3 DEF Listed
      <4> QED BY <4>1
    <3> QED BY <3>4
  <2>6. CASE readFrom \notin Conntrack \cup {"socket-diag"}
    <3>1. entries = FromSockets(socks)
      BY <2>1, <2>6 DEF Snapshot, Conntrack
    <3>2. PICK t \in socks : e = SocketEntry(t, 0) /\ ~ t.listening
      BY <3>1 DEF FromSockets
    <3>3. PICK c \in setup.conns : t = Near(c) \/ t = Far(c)
      BY <2>3, <3>2
    <3>4. e = Listed(c, 2) \/ e = Listed(c, 4)
      BY <3>2, <3>3 DEF Listed
    <3> QED BY <3>4
  <2> QED BY <2>4, <2>5, <2>6
<1> QED BY <1>1, <1>2

(* There are only so many flows.                                            *)
LEMMA HostFlowsFinite ==
  ASSUME CtrlInv, SourceInv, ReadInv, pc = "collect"
  PROVE  IsFiniteSet(HostFlows)
<1>1. IsFiniteSet(setup.conns)
  BY PollCycleAssumption, FS_Subset DEF CtrlInv
<1>2. PICK A, B, X, P, Q : /\ A = setup.conns /\ B = 1..5 /\ X = A \X B
                           /\ P = {Listed(p[1], p[2]) : p \in X} /\ Q = entries
  OBVIOUS
<1>3. IsFiniteSet(X)
  <2>1. 1 \in Int /\ 5 \in Int
    OBVIOUS
  <2>2. IsFiniteSet(B)
    BY <1>2, <2>1, FS_Interval
  <2>3. IsFiniteSet(A)
    BY <1>1, <1>2
  <2> QED BY <1>2, <2>2, <2>3, FS_Product
<1>4. IsFiniteSet(P)
  <2>1. PICK r : r = [p \in X |-> Listed(p[1], p[2])]
    OBVIOUS
  <2>2. \A p \in X : r[p] \in P
    BY <1>2, <2>1
  <2>3. \A y \in P : \E p \in X : r[p] = y
    BY <1>2, <2>1
  <2> QED BY <1>3, <2>2, <2>3, ImageFinite
<1>5. Q \subseteq P
  <2> SUFFICES ASSUME NEW e \in entries PROVE e \in P
    BY <1>2
  <2>1. PICK c \in setup.conns, i \in 1..5 : e = Listed(c, i)
    BY EntryOrigin
  <2>2. <<c, i>> \in X /\ <<c, i>>[1] = c /\ <<c, i>>[2] = i
    BY <1>2
  <2> QED BY <1>2, <2>1, <2>2
<1>6. IsFiniteSet(Q)
  BY <1>4, <1>5, FS_Subset
<1>7. PICK C, Y, R, H : /\ C = 1..3 /\ Y = Q \X C
                        /\ R = {IF p[2] = 1 THEN LoopbackFlow(p[1])
                                ELSE IF p[2] = 2 THEN InboundFlow(p[1])
                                ELSE OutboundFlow(p[1]) : p \in Y}
                        /\ H = HostFlows
  OBVIOUS
<1>8. IsFiniteSet(Y)
  <2>1. 1 \in Int /\ 3 \in Int
    OBVIOUS
  <2>2. IsFiniteSet(C)
    BY <1>7, <2>1, FS_Interval
  <2> QED BY <1>6, <1>7, <2>2, FS_Product
<1>9. IsFiniteSet(R)
  <2>1. PICK r : r = [p \in Y |-> IF p[2] = 1 THEN LoopbackFlow(p[1])
                                  ELSE IF p[2] = 2 THEN InboundFlow(p[1])
                                  ELSE OutboundFlow(p[1])]
    OBVIOUS
  <2>2. \A p \in Y : r[p] \in R
    BY <1>7, <2>1
  <2>3. \A y \in R : \E p \in Y : r[p] = y
    BY <1>7, <2>1
  <2> QED BY <1>8, <2>2, <2>3, ImageFinite
<1>10. H \subseteq R
  <2> SUFFICES ASSUME NEW f \in HostFlows PROVE f \in R
    BY <1>7
  <2>1. PICK e \in entries : f \in NormalizeEntry(e, LocalIps(sockets), ListeningPorts(sockets))
    BY FlowOfEntry
  <2>2. f = LoopbackFlow(e) \/ f = InboundFlow(e) \/ f = OutboundFlow(e)
    BY <2>1 DEF NormalizeEntry
  <2>3. <<e, 1>> \in Y /\ <<e, 2>> \in Y /\ <<e, 3>> \in Y
    BY <1>2, <1>7
  <2>4. ASSUME NEW p \in Y
        PROVE  (IF p[2] = 1 THEN LoopbackFlow(p[1])
                ELSE IF p[2] = 2 THEN InboundFlow(p[1])
                ELSE OutboundFlow(p[1])) \in R
    BY <1>7
  <2> QED BY <2>2, <2>3, <2>4
<1> QED BY <1>7, <1>9, <1>10, FS_Subset

------------------------------------------------------------------------------
(* Keys.                                                                    *)

(* r takes the elements of S to those of T, one to one, and f to h.         *)
Renames(r, f, h, S, T) ==
  /\ \A x \in S : f[x] \in Int
  /\ \A x \in S : r[x] \in T /\ h[r[x]] = f[x]
  /\ \A y \in T : \E x \in S : r[x] = y
  /\ \A x, y \in S : r[x] = r[y] => x = y

(* SumRename, with one hypothesis. *)
LEMMA RenamedSum ==
  ASSUME NEW f, NEW h, NEW S, NEW T, NEW r, IsFiniteSet(S), Renames(r, f, h, S, T)
  PROVE  IsFiniteSet(T) /\ SumFunctionOnSet(f, S) = SumFunctionOnSet(h, T)
<1>1. \A x \in S : f[x] \in Int
  BY DEF Renames
<1>2.  \A x \in S : r[x] \in T /\ h[r[x]] = f[x]
  BY DEF Renames
<1>3. \A y \in T : \E x \in S : r[x] = y
  BY DEF Renames
<1>4. \A x, y \in S : r[x] = r[y] => x = y
  BY DEF Renames
<1> QED BY ONLY IsFiniteSet(S), <1>1, <1>2, <1>3, <1>4, SumRename, SMT

(* KeyedByListeningSide, its sum taken apart.                               *)
KeyedConns ==
  LET seen == {c \in atRead : c.local \in LocalIps(sockets)}
  IN  /\ {e.key : e \in HostEdges}
            = {TrueKey(c) : c \in {d \in seen : d.ns = "host" /\ d.opener # "other"}}
      /\ \A e \in HostEdges : e.bytes = ConnBytes(counting, OfEdge(e.key, seen))

(* Read from sockets: what is steady is found.                              *)
KeyedSteady ==
  \A c \in steady :
    \/ c.ns # "host" \/ c.opener \notin {"us", "self"}
    \/ c.proto = "tcp" /\ readFrom = "socket-diag" /\ setup.tools.diag # "works"
    \/ c.proto = "udp" /\ Windows
    \/ TrueKey(c) \in {e.key : e \in HostEdges}

(* Both.                                                                    *)
Keyed ==
  pc = "edges" => (IF readFrom \in Conntrack THEN KeyedConns ELSE KeyedSteady)

(* Together they are KeyedByListeningSide.                                  *)
LEMMA KeyedIsKeyed == Keyed => KeyedByListeningSide
<1> SUFFICES ASSUME Keyed, pc = "edges" PROVE KeyedByListeningSide
  BY DEF Keyed, KeyedByListeningSide
<1>1. CASE readFrom \in Conntrack
  <2>1. KeyedConns
    BY <1>1 DEF Keyed
  <2> DEFINE seen == {c \in atRead : c.local \in LocalIps(sockets)}
             bytes(c) == IF c \in counting THEN c.bytes ELSE 0
  <2>2. {e.key : e \in HostEdges}
            = {TrueKey(c) : c \in {d \in seen : d.ns = "host" /\ d.opener # "other"}}
    BY <2>1 DEF KeyedConns
  <2>3. \A e \in HostEdges : e.bytes = ConnBytes(counting, OfEdge(e.key, seen))
    BY <2>1 DEF KeyedConns
  <2>4. \A e \in HostEdges : e.bytes = MapThenSumSet(bytes, OfEdge(e.key, seen))
    <3> HIDE DEF seen
    <3> QED BY <2>3 DEF ConnBytes, MapThenSumSet, MapThenFoldSet
  <2>5. (/\ {e.key : e \in HostEdges}
              = {TrueKey(c) : c \in {d \in seen : d.ns = "host" /\ d.opener # "other"}}
         /\ \A e \in HostEdges : e.bytes = MapThenSumSet(bytes, OfEdge(e.key, seen)))
        => KeyedByListeningSide
    BY <1>1 DEF KeyedByListeningSide, MapThenSumSet, MapThenFoldSet
  <2> QED BY <2>2, <2>4, <2>5
<1>2. CASE readFrom \notin Conntrack
  BY <1>2 DEF Keyed, KeyedSteady, KeyedByListeningSide
<1> QED BY <1>1, <1>2

(* Read from conntrack: the edges are those of the connections, and their   *)
(* bytes, too.                                                              *)
LEMMA KeyedConntrack ==
  ASSUME CtrlInv, SourceInv, ReadInv, BuildEdges, readFrom \in Conntrack,
         NEW seen, seen = {c \in atRead : c.local \in LocalIps(sockets)}
  PROVE  /\ {e.key : e \in HostEdges'}
              = {TrueKey(c) : c \in {d \in seen : d.ns = "host" /\ d.opener # "other"}}
         /\ \A e \in HostEdges' : e.bytes = ConnBytes(counting, OfEdge(e.key, seen))
<1>0. pc = "collect"
  BY BuiltFrom
<1>1. {d \in seen : d.ns = "host" /\ d.opener # "other"} = Seen
  BY DEF Seen
<1>2. /\ \A c \in Seen : FlowIn(c) \in HostFlows /\ Key(FlowIn(c)) = TrueKey(c)
                         /\ c \in Connections
      /\ \A f \in HostFlows : \E c \in Seen : f = FlowIn(c)
      /\ \A c, d \in Seen : FlowIn(c) = FlowIn(d) => c = d
  BY <1>0, ConntrackFlows
<1>3. /\ \A e \in HostEdges' : \E f \in HostFlows : Key(f) = e.key
      /\ \A f \in HostFlows : \E e \in HostEdges' : e.key = Key(f)
      /\ \A e \in HostEdges' : e.bytes = EdgeBytes(HostFlows, e.key)
  BY HostEdgesBuilt
<1>4. {e.key : e \in HostEdges'} = {TrueKey(c) : c \in Seen}
  <2>1. \A e \in HostEdges' : \E c \in Seen : e.key = TrueKey(c)
    BY <1>2, <1>3
  <2>2. \A c \in Seen : \E e \in HostEdges' : e.key = TrueKey(c)
    BY <1>2, <1>3
  <2> QED BY <2>1, <2>2
<1>5. ASSUME NEW k
      PROVE  EdgeBytes(HostFlows, k) = ConnBytes(counting, OfEdge(k, seen))
  <2>1. PICK F, S, T, a : /\ F = HostFlows /\ S = OfEdge(k, seen) /\ T = FlowsOf(F, k)
                          /\ a = counting
    OBVIOUS
  <2>2. \A c : c \in S <=> c \in Seen /\ TrueKey(c) = k
    BY <1>1, <2>1 DEF OfEdge
  <2>3. \A f : f \in T <=> f \in F /\ Key(f) = k
    BY <2>1 DEF FlowsOf
  <2>4. PICK u, h, r : /\ u = [c \in S |-> IF c \in a THEN c.bytes ELSE 0]
                       /\ h = [f \in T |-> f.bytes]
                       /\ r = [c \in S |-> FlowIn(c)]
    OBVIOUS
  <2>5. IsFiniteSet(S)
    BY <1>2, <2>2, PollCycleAssumption, FS_Subset
  <2>6. \A c \in S : u[c] \in Int
    <3>1. \A c \in S : c.bytes \in Nat
      BY <1>2, <2>2, PollCycleAssumption
    <3> QED BY <2>4, <3>1
  <2>7. \A c \in S : r[c] \in T /\ h[r[c]] = u[c]
    <3> SUFFICES ASSUME NEW c \in S PROVE r[c] \in T /\ h[r[c]] = u[c]
      OBVIOUS
    <3>1. r[c] = FlowIn(c) /\ c \in Seen /\ TrueKey(c) = k
      BY <2>2, <2>4
    <3>2. FlowIn(c) \in T
      BY <1>2, <2>1, <2>3, <3>1
    <3>3. FlowIn(c).bytes = ConntrackEntry(c, a).bytes
      BY <2>1 DEF FlowIn, TrueFlow, LoopbackFlow, InboundFlow, OutboundFlow, Flow
    <3>4. ConntrackEntry(c, a).bytes = IF c \in a THEN c.bytes ELSE 0
      BY ConntrackDescribes
    <3> QED BY <2>4, <3>1, <3>2, <3>3, <3>4
  <2>8. \A y \in T : \E c \in S : r[c] = y
    <3> SUFFICES ASSUME NEW y \in T PROVE \E c \in S : r[c] = y
      OBVIOUS
    <3>1. y \in F /\ Key(y) = k
      BY <2>3
    <3>2. PICK c \in Seen : y = FlowIn(c)
      BY <1>2, <2>1, <3>1
    <3>3. c \in S
      BY <1>2, <2>2, <3>1, <3>2
    <3> QED BY <2>4, <3>2, <3>3
  <2>9. \A x, y \in S : r[x] = r[y] => x = y
    BY <1>2, <2>2, <2>4
  <2>10. IsFiniteSet(T) /\ SumFunctionOnSet(u, S) = SumFunctionOnSet(h, T)
    <3>1. Renames(r, u, h, S, T)
      BY <2>6, <2>7, <2>8, <2>9 DEF Renames
    <3> QED BY ONLY <2>5, <3>1, RenamedSum
  <2>11. EdgeBytes(F, k) = SumFunctionOnSet(h, T)
    BY ONLY <2>1, <2>4, <2>10, EdgeBytesSum
  <2>12. ConnBytes(a, S) = SumFunctionOnSet(u, S)
    BY ONLY <2>4, <2>5, ConnBytesSum
  <2> QED BY <2>1, <2>10, <2>11, <2>12
<1> QED BY <1>1, <1>3, <1>4, <1>5

------------------------------------------------------------------------------
(* Labels.                                                                  *)

(* The connections of an edge all have their local address shown if one has.*)
LEMMA EdgeShown ==
  ASSUME CtrlInv, ReadInv, NEW c \in Seen,
         NEW seen, seen = {d \in atRead : d.local \in LocalIps(sockets)}
  PROVE  OfEdge(TrueKey(c), seen) = OfEdge(TrueKey(c), atRead)
<1>1. atRead \subseteq Connections
  BY PollCycleAssumption DEF ReadInv, CtrlInv
<1>2. ASSUME NEW d \in atRead, d.ns = "host", d.opener # "other", TrueKey(d) = TrueKey(c)
      PROVE  d.local \in LocalIps(sockets)
  <2>1. /\ c.opener \in {"us", "peer", "self"} /\ d.opener \in {"us", "peer", "self"}
        /\ c.ns = "host" /\ c.local \in LocalIps(sockets)
        /\ c \in Connections /\ d \in Connections
    BY <1>1, <1>2, PollCycleAssumption DEF Seen
  <2>2. PICK k : k = TrueKey(c) /\ k = TrueKey(d)
    BY <1>2
  <2>2a. ASSUME NEW x, x.opener \in {"us", "peer", "self"}, k = TrueKey(x)
         PROVE  /\ x.opener = "self" <=> k.direction = "loopback"
                /\ x.opener # "self" => k.local = x.local
    BY <2>2a DEF TrueKey
  <2>3. CASE d.opener = "self"
    <3>1. d.local = Loopback
      BY <1>2, <2>1, <2>3, TopologyAssumption
    <3> QED BY <3>1 DEF LocalIps
  <2>4. CASE d.opener # "self"
    <3>1. k.direction # "loopback" /\ k.local = d.local
      BY <2>1, <2>2, <2>2a, <2>4
    <3>2. c.opener # "self"
      <4>1. CASE c.opener = "self"
        <5>1. k.direction = "loopback"
          BY <2>2, <4>1 DEF TrueKey
        <5> QED BY <3>1, <5>1
      <4> QED BY <4>1
    <3>3. k.local = c.local
      BY <2>1, <2>2, <3>2 DEF TrueKey
    <3> QED BY <2>1, <3>1, <3>3
  <2> QED BY <2>3, <2>4
<1>3. PICK k, conns : k = TrueKey(c) /\ conns = atRead
  OBVIOUS
<1>4. \A d : d \in OfEdge(k, conns) =>
        d \in conns /\ d.ns = "host" /\ d.opener # "other" /\ TrueKey(d) = k
  BY DEF OfEdge
<1>5. \A d : d \in OfEdge(k, conns) => d \in seen
  BY <1>2, <1>3, <1>4
<1>6. seen \subseteq conns
  BY <1>3
<1>7. OfEdge(k, seen) = OfEdge(k, conns)
  BY <1>5, <1>6 DEF OfEdge
<1> QED BY <1>3, <1>7

(* What is counted of a set of connections is more than nothing if one of   *)
(* them is.                                                                 *)
LEMMA ConnBytesPositive ==
  ASSUME NEW S \in SUBSET Connections, NEW a
  PROVE  ConnBytes(a, S) > 0 <=> S \cap a # {}
<1>1. PICK u : u = [c \in S |-> IF c \in a THEN c.bytes ELSE 0]
  OBVIOUS
<1>2. IsFiniteSet(S) /\ \A c \in S : c.bytes \in Nat \ {0}
  BY PollCycleAssumption, FS_Subset
<1>3. \A c \in S : u[c] \in Nat /\ (u[c] > 0 <=> c \in a)
  BY <1>1, <1>2
<1>4. ConnBytes(a, S) = SumFunctionOnSet(u, S)
  BY <1>1, <1>2, ConnBytesSum
<1>5. SumFunctionOnSet(u, S) > 0 <=> \E c \in S : u[c] > 0
  BY <1>2, <1>3, SumPositive
<1> QED BY <1>3, <1>4, <1>5

(* The labels of the edges are honest when they are given.                  *)
LEMMA QualityBuilt ==
  ASSUME CtrlInv, SourceInv, ReadInv, BuildEdges, readFrom \in Conntrack, NEW e \in HostEdges'
  PROVE  e.quality = Unlabelled <=> OfEdge(e.key, atRead) \cap counting # {}
<1>0. pc = "collect" /\ pc \in Reading
  BY BuiltFrom
<1>1. backend = Named /\ readFrom = Source /\ ~ Windows
  BY <1>0, ConntrackFlows DEF SourceInv, Reading
<1>2. Named \in Conntrack
  BY <1>1, SetupSources
<1>3. e.quality = DataQuality(Named, "host", Accounting, e.bytes)
  BY <1>1, HostEdgesBuilt DEF Quality
<1>4. e.quality = Unlabelled <=> Accounting /\ e.bytes > 0
  BY <1>2, <1>3, FlowFoldAssumption DEF DataQuality, Conntrack
<1>5. PICK seen : seen = {d \in atRead : d.local \in LocalIps(sockets)}
  OBVIOUS
<1>6. e.bytes = ConnBytes(counting, OfEdge(e.key, seen))
  BY <1>5, KeyedConntrack
<1>7. OfEdge(e.key, seen) = OfEdge(e.key, atRead)
  <2>1. PICK f \in HostFlows : Key(f) = e.key
    BY HostEdgesBuilt
  <2>2. PICK c \in Seen : f = FlowIn(c) /\ Key(f) = TrueKey(c)
    BY <1>0, ConntrackFlows
  <2>3. OfEdge(TrueKey(c), seen) = OfEdge(TrueKey(c), atRead)
    BY <1>5, EdgeShown
  <2> QED BY <2>1, <2>2, <2>3
<1>8. OfEdge(e.key, atRead) \in SUBSET Connections
  BY PollCycleAssumption DEF OfEdge, ReadInv, CtrlInv
<1>9. PICK S, a : S = OfEdge(e.key, atRead) /\ a = counting
  OBVIOUS
<1>10. ConnBytes(a, S) > 0 <=> S \cap a # {}
  BY <1>8, <1>9, ConnBytesPositive
<1>11. S \cap a # {} => Accounting
  BY <1>9 DEF ReadInv
<1> QED BY <1>4, <1>6, <1>7, <1>9, <1>10, <1>11

(* Labels are honest when the edges are built, and stay until recorded.     *)
LEMMA QualityStep ==
  ASSUME CtrlInv, SourceInv, ReadInv, QualityHonest, [PollNext]_allVars
  PROVE  QualityHonest'
<1>1. CASE pc' # "edges"
  BY <1>1 DEF QualityHonest
<1>2. CASE BuildEdges
  <2> SUFFICES ASSUME readFrom' \in Conntrack, NEW e \in HostEdges'
               PROVE  e.quality = Unlabelled <=> OfEdge(e.key, atRead') \cap counting' # {}
    BY DEF QualityHonest
  <2> QED BY <1>2, QualityBuilt, BuiltFrom
<1>3. CASE pc' = "edges" /\ ~ BuildEdges
  <2>1. UNCHANGED <<pc, edges, readFrom, atRead, counting>>
    <3>1. pc' \in Reading
      BY <1>3 DEF Reading
    <3> QED BY <1>3, <3>1, PollStays DEF Read, ReadWindows, ReadSockets, WalkProcesses, Goto, poll
  <2>2. HostEdges' = HostEdges
    BY <2>1 DEF HostEdges
  <2> QED BY <1>3, <2>1, <2>2 DEF QualityHonest
<1> QED BY <1>1, <1>2, <1>3

------------------------------------------------------------------------------
(* From sockets.                                                            *)

(* Read from sockets: what the host opened and keeps open is found.         *)
LEMMA KeyedSockets ==
  ASSUME KernelInv, CtrlInv, SourceInv, ReadInv, BuildEdges, readFrom \notin Conntrack,
         NEW c \in steady, c.ns = "host", c.opener \in {"us", "self"},
         ~ (c.proto = "tcp" /\ readFrom = "socket-diag" /\ setup.tools.diag # "works"),
         ~ (c.proto = "udp" /\ Windows)
  PROVE  TrueKey(c) \in {e.key : e \in HostEdges'}
<1>0. pc = "collect" /\ c.opener # "other"
  BY BuiltFrom
<1>1. /\ c \in Connections /\ c.proto \in {"tcp", "udp"}
      /\ c.opener = "self" => c.local = Loopback
      /\ c.opener = "us" => c.local # Wildcard
  BY <1>0, SteadyShows, PollCycleAssumption, TopologyAssumption
<1>2. PICK s : s = Near(c)
  OBVIOUS
<1>3. s \in SteadyEnds
  BY <1>0, <1>2, SteadyShows DEF Near
<1>4. /\ s.ns = "host" /\ s.proto = c.proto /\ s.lip = c.local /\ s.lport = c.lport
      /\ s.rip = c.peer /\ s.rport = c.pport /\ s.listening = FALSE
  BY <1>2 DEF Near, Socket
<1>5. /\ \E b : \E e \in entries : e = SocketEntry(s, b)
      /\ c.local \in LocalIps(sockets)
      /\ LocalIps(sockets) \in SUBSET Own /\ Loopback \in LocalIps(sockets)
  <2>1. CASE Windows
    <3>1. PICK socks \in HostTables :
            /\ SteadyEnds \subseteq socks
            /\ sockets = {[t EXCEPT !.bytes = 0] : t \in {u \in socks : u.proto = "tcp"}}
      BY <1>0, <2>1 DEF ReadInv, Reading
    <3>2. entries = FromSockets(sockets)
      BY <1>0, <2>1 DEF ReadInv, Reading
    <3>3. s \in socks /\ s.proto = "tcp"
      BY <1>1, <1>3, <1>4, <2>1, <3>1
    <3>4. PICK z : z = [s EXCEPT !.bytes = 0]
      OBVIOUS
    <3>5. z \in sockets
      BY <3>1, <3>3, <3>4
    <3>6. s \in AllSockets("host", setup.conns, Listeners)
      BY <3>3 DEF HostTables
    <3>7. /\ z.proto = s.proto /\ z.lip = s.lip /\ z.lport = s.lport
          /\ z.rip = s.rip /\ z.rport = s.rport /\ z.listening = s.listening
      BY <3>4, <3>6, ZeroedSame
    <3>8. SocketEntry(z, 0) = SocketEntry(s, 0)
      BY <3>7 DEF SocketEntry
    <3>9. SocketEntry(z, 0) \in entries
      BY <1>4, <3>2, <3>5, <3>7 DEF FromSockets
    <3>10. c.local \in LocalIps(sockets)
      BY <1>1, <1>4, <3>5, <3>7 DEF LocalIps
    <3>11. LocalIps(sockets) \in SUBSET Own /\ Loopback \in LocalIps(sockets)
      <4>1. LocalIps(socks) \in SUBSET Own
        BY IpsAreOwn
      <4>2. ASSUME NEW y \in sockets PROVE \E t \in socks : t.lip = y.lip
        <5>1. PICK t \in socks : y = [t EXCEPT !.bytes = 0]
          BY <3>1
        <5>2. t \in AllSockets("host", setup.conns, Listeners)
          BY DEF HostTables
        <5>3. y.lip = t.lip
          BY <5>1, <5>2, ZeroedSame
        <5> QED BY <5>3
      <4>3. LocalIps(sockets) \subseteq LocalIps(socks)
        BY <4>2 DEF LocalIps
      <4> QED BY <4>1, <4>3 DEF LocalIps
    <3> QED BY <3>8, <3>9, <3>10, <3>11
  <2>2. CASE ~ Windows
    <3>1. PICK socks \in HostTables :
            /\ SteadyEnds \subseteq socks
            /\ entries = Snapshot(readFrom, setup.tools, atRead, counting, socks)
      BY <1>0, <2>2 DEF ReadInv, Reading
    <3>2. sockets \in HostTables /\ SteadyEnds \subseteq sockets
      BY <1>0, <2>2 DEF ReadInv, Reading
    <3>3. s \in socks /\ s \in sockets
      BY <1>3, <3>1, <3>2
    <3>4. CASE readFrom = "socket-diag"
      <4>1. entries = FromSockDiag(socks, setup.tools.diag = "works")
        BY <3>1, <3>4 DEF Snapshot, Conntrack
      <4>2. CASE c.proto = "tcp"
        <5>1. SocketEntry(s, s.bytes) \in entries
          BY <1>4, <3>3, <3>4, <4>1, <4>2 DEF FromSockDiag
        <5> QED BY <1>1, <1>4, <3>2, <3>3, <5>1, IpsAreOwn DEF LocalIps
      <4>3. CASE c.proto = "udp"
        <5>1. SocketEntry(s, 0) \in entries
          BY <1>4, <3>3, <4>1, <4>3 DEF FromSockDiag, FromSockets
        <5> QED BY <1>1, <1>4, <3>2, <3>3, <5>1, IpsAreOwn DEF LocalIps
      <4> QED BY <1>1, <4>2, <4>3
    <3>5. CASE readFrom # "socket-diag"
      <4>1. entries = FromSockets(socks)
        BY <3>1, <3>5 DEF Snapshot, Conntrack
      <4>2. SocketEntry(s, 0) \in entries
        BY <1>4, <3>3, <4>1 DEF FromSockets
      <4> QED BY <1>1, <1>4, <3>2, <3>3, <4>2, IpsAreOwn DEF LocalIps
    <3> QED BY <3>4, <3>5
  <2> QED BY <2>1, <2>2
<1>6a. PICK b : \E e \in entries : e = SocketEntry(s, b)
  BY <1>5
<1>6. PICK e \in entries : e = SocketEntry(s, b)
  BY <1>6a
<1>7. Describes(e, c)
  BY <1>0, <1>4, <1>6 DEF Describes, SocketEntry
<1>8. PICK ips, ports : ips = LocalIps(sockets) /\ ports = ListeningPorts(sockets)
  OBVIOUS
<1>9. /\ NormalizeEntry(e, ips, ports) = {TrueFlow(c, e)}
      /\ Key(TrueFlow(c, e)) = TrueKey(c)
  <2>1. ips \in SUBSET Own /\ Loopback \in ips /\ c.local \in ips
    BY <1>5, <1>8
  <2> QED BY <1>0, <1>1, <1>7, <2>1, FlowIsTrue
<1>10. TrueFlow(c, e) \in HostFlows
  BY <1>8, <1>9 DEF HostFlows, NormalizeEntries
<1> QED BY <1>9, <1>10, HostEdgesBuilt

(* Edges are keyed right when they are built, and stay until recorded.      *)
LEMMA KeyedStep ==
  ASSUME KernelInv, CtrlInv, SourceInv, ReadInv, Keyed, [PollNext]_allVars
  PROVE  Keyed'
<1>1. CASE pc' # "edges"
  BY <1>1 DEF Keyed
<1>2. CASE BuildEdges
  <2>1. /\ UNCHANGED <<setup, steady, readFrom, sockets, atRead, counting>>
        /\ Windows' = Windows
    BY <1>2, BuiltFrom DEF Windows
  <2>2. ASSUME readFrom \in Conntrack PROVE KeyedConns'
    <3>1. PICK seen : seen = {c \in atRead : c.local \in LocalIps(sockets)}
      OBVIOUS
    <3>2. /\ {e.key : e \in HostEdges'}
               = {TrueKey(c) : c \in {d \in seen : d.ns = "host" /\ d.opener # "other"}}
          /\ \A e \in HostEdges' : e.bytes = ConnBytes(counting, OfEdge(e.key, seen))
      BY <1>2, <2>2, <3>1, KeyedConntrack
    <3> QED BY <2>1, <3>1, <3>2 DEF KeyedConns
  <2>3. ASSUME readFrom \notin Conntrack PROVE KeyedSteady'
    <3>1. \A c \in steady :
           \/ c.ns # "host" \/ c.opener \notin {"us", "self"}
           \/ c.proto = "tcp" /\ readFrom = "socket-diag" /\ setup.tools.diag # "works"
           \/ c.proto = "udp" /\ Windows
           \/ TrueKey(c) \in {e.key : e \in HostEdges'}
      BY <1>2, <2>3, KeyedSockets
    <3> QED BY <2>1, <3>1 DEF KeyedSteady
  <2> QED BY <2>1, <2>2, <2>3 DEF Keyed
<1>3. CASE pc' = "edges" /\ ~ BuildEdges
  <2>1. /\ UNCHANGED <<setup, pc, edges, readFrom, sockets, atRead, counting>>
        /\ steady' \subseteq steady
    <3>1. pc' \in Reading
      BY <1>3 DEF Reading
    <3> QED BY <1>3, <3>1, PollStays DEF Read, ReadWindows, ReadSockets, WalkProcesses, Goto, poll
  <2>2. HostEdges' = HostEdges /\ Windows' = Windows
    BY <2>1 DEF HostEdges, Windows
  <2>3. KeyedConns => KeyedConns'
    BY <2>1, <2>2 DEF KeyedConns
  <2>4. KeyedSteady => KeyedSteady'
    BY <2>1, <2>2 DEF KeyedSteady
  <2> QED BY <1>3, <2>1, <2>3, <2>4 DEF Keyed
<1> QED BY <1>1, <1>2, <1>3

------------------------------------------------------------------------------
(* The theorems.                                                            *)

(* What a poll's properties rest on; each part is preserved given those     *)
(* above it.                                                                *)
PollInvariants ==
  /\ NameInvariants
  /\ KernelInv
  /\ SourceInv
  /\ EdgeTypes
  /\ OwnedInv
  /\ ReadInv

(* The start.                                                               *)
LEMMA PollStart ==
  ASSUME PollInit
  PROVE  /\ PollInvariants
         /\ OwnerHeldIt /\ QualityHonest /\ Keyed
<1>1. NameInvariants
  BY NamesStart DEF NameInvariants
<1>2. /\ phase \in [Connections -> {"none", "open", "ended"}]
      /\ pc = "stopped" /\ listeners = Listeners /\ exited = {} /\ steady = {}
      /\ backend = "sockets" /\ claimed = Nothing /\ readFrom = Nothing
      /\ entries = {} /\ sockets = {} /\ owned = {} /\ edges = {} /\ atRead = {}
      /\ counting = {}
  BY DEF PollInit
<1>3. KernelInv
  <2>1. counted \subseteq Connections /\ (counted # {} => Accounting)
    BY PollCycleAssumption DEF PollInit, Accounting
  <2> QED BY <1>2, <2>1 DEF KernelInv
<1>4. SourceInv
  BY <1>2 DEF SourceInv, Reading
<1>5. EdgeTypes /\ OwnedInv /\ ReadInv
  BY <1>2 DEF EdgeTypes, OwnedInv, ReadInv, Reading
<1>6. OwnerHeldIt /\ QualityHonest /\ Keyed
  BY <1>2 DEF OwnerHeldIt, QualityHonest, Keyed
<1> QED BY <1>1, <1>3, <1>4, <1>5, <1>6 DEF PollInvariants

(* What a poll has read, from which source and with which owners, as an     *)
(* invariant of the collector beside its host.                              *)
THEOREM PollHolds == PollSpec => []PollInvariants
<1>1. PollInit => PollInvariants
  BY PollStart
<1>2. NameInvariants /\ NameInvariants' /\ PollInvariants /\ [PollNext]_allVars => PollInvariants'
  <2> SUFFICES ASSUME NameInvariants, NameInvariants', PollInvariants, [PollNext]_allVars
               PROVE  PollInvariants'
    OBVIOUS
  <2>1. NamesInv /\ CtrlInv /\ CtrlInv'
    BY DEF NameInvariants
  <2>2. KernelInv /\ SourceInv /\ EdgeTypes /\ OwnedInv /\ ReadInv
    BY DEF PollInvariants
  <2>3. KernelInv'
    BY <2>1, <2>2, KernelStep
  <2>4. SourceInv'
    BY <2>1, <2>2, SourceStep
  <2>5. EdgeTypes'
    BY <2>1, <2>2, <2>4, EdgeTypesStep
  <2>6. OwnedInv'
    BY <2>2, <2>4, OwnedStep
  <2>7. ReadInv'
    BY <2>1, <2>2, <2>4, ReadStep
  <2> QED BY <2>3, <2>4, <2>5, <2>6, <2>7 DEF PollInvariants
<1> QED BY <1>1, <1>2, NamesHold, PTL DEF PollSpec

(* Type correctness of the cycle.                                           *)
THEOREM PollTypes == PollSpec => []PollTypeOK
<1>1. PollInvariants => PollTypeOK
  <2> SUFFICES ASSUME PollInvariants PROVE PollTypeOK
    OBVIOUS
  <2>1. NamesInv /\ CtrlInv /\ KernelInv /\ SourceInv /\ EdgeTypes /\ OwnedInv
    BY DEF PollInvariants, NameInvariants
  <2>2. atRead \subseteq setup.conns /\ counting \subseteq atRead
    BY DEF PollInvariants, ReadInv
  <2> QED BY <2>1, <2>2, InvariantsTypeOK
<1> QED BY <1>1, PollHolds, PTL

(* select_owner and the socket tables, read one after the other: a process  *)
(* named by an edge held that end of a connection of the edge or listened   *)
(* there, and a steady connection alone on its edge has its own process.    *)
THEOREM OwnersHeldIt == PollSpec => []OwnerHeldIt
<1>1. PollInit => OwnerHeldIt
  BY PollStart
<1>2. PollInvariants /\ OwnerHeldIt /\ [PollNext]_allVars => OwnerHeldIt'
  BY OwnerStep DEF PollInvariants, NameInvariants
<1> QED BY <1>1, <1>2, PollHolds, PTL DEF PollSpec

(* data_quality: read from conntrack, an edge of the host goes without a    *)
(* label exactly when at least one of its connections has counters.         *)
THEOREM HonestQuality == PollSpec => []QualityHonest
<1>1. PollInit => QualityHonest
  BY PollStart
<1>2. PollInvariants /\ QualityHonest /\ [PollNext]_allVars => QualityHonest'
  BY QualityStep DEF PollInvariants, NameInvariants
<1> QED BY <1>1, <1>2, PollHolds, PTL DEF PollSpec

(* build_edges: from conntrack the edges of the host are those of the tracked*)
(* connections, keyed by the listening side, with all their bytes; from     *)
(* sockets no steady connection the host opened is missing.                 *)
THEOREM EdgesKeyed == PollSpec => []KeyedByListeningSide
<1>1. PollInit => Keyed
  BY PollStart
<1>2. PollInvariants /\ Keyed /\ [PollNext]_allVars => Keyed'
  BY KeyedStep DEF PollInvariants, NameInvariants
<1>3. Keyed => KeyedByListeningSide
  BY KeyedIsKeyed
<1> QED BY <1>1, <1>2, <1>3, PollHolds, PTL DEF PollSpec
==============================================================================
