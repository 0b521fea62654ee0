------------------------- MODULE EventCapture_proofs -------------------------
(***************************************************************************)
(* For any flows, any buffer sizes and any number of restarts: the thread's*)
(* table follows the kernel's announcements, its memory is bounded, and no *)
(* traffic is lost or counted twice between the kernel and the database.   *)
(***************************************************************************)
EXTENDS EventCapture, SumTheorems, SequenceTheorems

(* Between two cycles the loop holds nothing; an edge that is not in its    *)
(* hands has no sum of ended flows left.                                    *)
LoopInv ==
  /\ pc = "cycle" => held = {}
  /\ \A e \in Edges \ held : sums[e].ends = 0

IInv ==
  /\ TypeOK
  /\ LoopInv
  /\ ListenerFollows
  /\ TrafficConserved

Sums == [all : Nat, ends : Nat]
Row  == [bytes : Nat, last_snapshot_bytes : Nat]

------------------------------------------------------------------------------
(* What entries and tables add up to.                                       *)

(* What a counter adds to the sum of edge e.                                *)
Share(e, f, count) == IF EdgeOf[f] = e /\ count # None THEN count ELSE 0

(* The counter an entry carries when it is an end.                          *)
EndCount(x) == IF x.event = "DESTROY" THEN x.bytes ELSE None

(* An entry's fields.                                                       *)
LEMMA EntryType ==
  ASSUME NEW x \in Entry
  PROVE  /\ x.flow \in Flows /\ x.event \in {"LIVE", "DESTROY"} /\ x.bytes \in Nat
         /\ x.bytes # None
BY EventCaptureAssumption DEF Entry

(* The positions summed are finite in number and hold natural numbers.      *)
LEMMA EndsAtFinite ==
  ASSUME NEW s \in Seq(Entry), NEW e
  PROVE  /\ DOMAIN s = 1..Len(s) /\ Len(s) \in Nat
         /\ IsFiniteSet(EndsAt(e, s)) /\ EndsAt(e, s) \subseteq 1..Len(s)
         /\ \A i \in 1..Len(s) : s[i] \in Entry /\ s[i].bytes \in Nat
<1>1. DOMAIN s = 1..Len(s) /\ Len(s) \in Nat
  BY LenProperties
<1>2. EndsAt(e, s) \subseteq 1..Len(s)
  BY <1>1 DEF EndsAt
<1>3. IsFiniteSet(1..Len(s))
  BY <1>1, FS_Interval
<1>4. IsFiniteSet(EndsAt(e, s))
  BY <1>2, <1>3, FS_Subset
<1>5. \A i \in 1..Len(s) : s[i] \in Entry /\ s[i].bytes \in Nat
  BY ElementOfSeq, EntryType
<1> QED BY <1>1, <1>2, <1>4, <1>5

(* The ends of an edge carried a natural number of units.                   *)
LEMMA EndsType ==
  ASSUME NEW s \in Seq(Entry), NEW e
  PROVE  EndsOf(e, s) \in Nat
<1> DEFINE f == [i \in DOMAIN s |-> s[i].bytes]
           A == EndsAt(e, s)
<1>1. IsFiniteSet(A) /\ \A i \in A : f[i] \in Nat
  BY EndsAtFinite
<1>2. EndsOf(e, s) = SumFunctionOnSet(f, A)
  BY DEF EndsOf
<1> HIDE DEF f, A
<1> QED BY <1>1, <1>2, SumNat

(* No entries, no ends.                                                     *)
LEMMA EndsOfNone ==
  ASSUME NEW e
  PROVE  EndsOf(e, <<>>) = 0
<1>1. EndsAt(e, <<>>) = {}
  BY DEF EndsAt
<1> QED BY <1>1, SumEmpty DEF EndsOf

(* One entry is worth its counter, if it is an end and folds onto the edge. *)
LEMMA EndsOfOne ==
  ASSUME NEW x \in Entry, NEW e
  PROVE  EndsOf(e, <<x>>) = Share(e, x.flow, EndCount(x))
<1> DEFINE f == [i \in DOMAIN <<x>> |-> <<x>>[i].bytes]
           A == EndsAt(e, <<x>>)
<1>1. DOMAIN <<x>> = {1} /\ <<x>>[1] = x
  OBVIOUS
<1>2. A = IF x.event = "DESTROY" /\ EdgeOf[x.flow] = e THEN {1} ELSE {}
  BY <1>1 DEF EndsAt
<1>3. f[1] = x.bytes /\ x.bytes \in Nat /\ x.bytes # None
  BY <1>1, EntryType
<1>4. IsFiniteSet({1}) /\ {1} \ {1} = {}
  BY FS_Singleton
<1>5. EndsOf(e, <<x>>) = SumFunctionOnSet(f, A)
  BY DEF EndsOf
<1> HIDE DEF f, A
<1>6. SumFunctionOnSet(f, {1}) = f[1] + SumFunctionOnSet(f, {})
  <2>1. PICK S : S = {1}
    OBVIOUS
  <2>2. IsFiniteSet(S) /\ (\A i \in S : f[i] \in Int) /\ 1 \in S /\ S \ {1} = {}
    BY <1>3, <1>4, <2>1
  <2>3. SumFunctionOnSet(f, S) = f[1] + SumFunctionOnSet(f, S \ {1})
    BY <2>2, SumRemove
  <2> QED BY <2>1, <2>2, <2>3
<1> QED BY <1>2, <1>3, <1>5, <1>6, SumEmpty DEF Share, EndCount

(* Two stretches of entries are worth what each is worth.                   *)
LEMMA EndsOfConcat ==
  ASSUME NEW s \in Seq(Entry), NEW t \in Seq(Entry), NEW e
  PROVE  EndsOf(e, s \o t) = EndsOf(e, s) + EndsOf(e, t)
<1>1. PICK n \in Nat, m \in Nat, u \in Seq(Entry) : n = Len(s) /\ m = Len(t) /\ u = s \o t
  BY LenProperties, ConcatProperties
<1>2. /\ Len(u) = n + m
      /\ \A i \in 1..n : u[i] = s[i]
      /\ \A i \in 1..m : u[n + i] = t[i]
  <2>1. \A i \in 1..(n + m) : u[i] = IF i <= n THEN s[i] ELSE t[i - n]
    BY <1>1, ConcatProperties
  <2>2. \A i \in 1..n : i \in 1..(n + m) /\ i <= n
    OBVIOUS
  <2>3. \A i \in 1..m : n + i \in 1..(n + m) /\ ~(n + i <= n) /\ (n + i) - n = i
    OBVIOUS
  <2>4. Len(u) = n + m
    BY <1>1, ConcatProperties
  <2> QED BY <2>1, <2>2, <2>3, <2>4
<1> DEFINE fs == [i \in DOMAIN s |-> s[i].bytes]
           ft == [i \in DOMAIN t |-> t[i].bytes]
           fu == [i \in DOMAIN u |-> u[i].bytes]
           A  == EndsAt(e, s)
           B  == EndsAt(e, t)
           r  == [i \in 1..m |-> n + i]
           C  == {r[i] : i \in B}
<1>3. /\ EndsOf(e, s) = SumFunctionOnSet(fs, A)
      /\ EndsOf(e, t) = SumFunctionOnSet(ft, B)
      /\ EndsOf(e, u) = SumFunctionOnSet(fu, EndsAt(e, u))
  BY DEF EndsOf
<1>4. /\ DOMAIN s = 1..n /\ DOMAIN t = 1..m /\ DOMAIN u = 1..(n + m)
      /\ IsFiniteSet(A) /\ IsFiniteSet(B) /\ A \subseteq 1..n /\ B \subseteq 1..m
      /\ \A i \in 1..n : fs[i] \in Int
      /\ \A i \in 1..m : ft[i] \in Int
      /\ \A i \in 1..(n + m) : fu[i] \in Int
  <2>1. /\ DOMAIN s = 1..n /\ IsFiniteSet(A) /\ A \subseteq 1..n
        /\ \A i \in 1..n : s[i].bytes \in Int
    BY <1>1, EndsAtFinite
  <2>2. /\ DOMAIN t = 1..m /\ IsFiniteSet(B) /\ B \subseteq 1..m
        /\ \A i \in 1..m : t[i].bytes \in Int
    BY <1>1, EndsAtFinite
  <2>3. DOMAIN u = 1..(n + m) /\ \A i \in 1..(n + m) : u[i].bytes \in Int
    <3>1. DOMAIN u = 1..Len(u) /\ \A i \in 1..Len(u) : u[i].bytes \in Nat
      BY EndsAtFinite
    <3> QED BY <1>2, <3>1
  <2> HIDE DEF A, B
  <2> QED BY <2>1, <2>2, <2>3
<1>5. EndsAt(e, u) = A \cup C
  <2>1. \A i \in 1..n : i \in EndsAt(e, u) <=> i \in A
    BY <1>2, <1>4 DEF EndsAt
  <2>2. \A i \in 1..m : n + i \in EndsAt(e, u) <=> i \in B
    BY <1>2, <1>4 DEF EndsAt
  <2>3. \A i \in 1..(n + m) : i \in 1..n \/ (i - n \in 1..m /\ i = n + (i - n))
    OBVIOUS
  <2>4. EndsAt(e, u) \subseteq 1..(n + m)
    BY <1>4 DEF EndsAt
  <2>5. \A i \in B : r[i] = n + i
    BY <1>4
  <2>6. C = {n + i : i \in B}
    BY <2>5
  <2> HIDE DEF A, B, C, r
  <2>7. EndsAt(e, u) \subseteq A \cup C
    BY <2>1, <2>2, <2>3, <2>4, <2>6
  <2>8. A \cup C \subseteq EndsAt(e, u)
    BY <1>4, <2>1, <2>2, <2>6
  <2> QED BY <2>7, <2>8
<1>6. /\ \A i \in A : fs[i] \in Int /\ fs[i] = fu[i]
      /\ \A i \in B : ft[i] \in Int
      /\ \A i \in B : fu[r[i]] = ft[i]
      /\ \A i, j \in B : r[i] = r[j] => i = j
  BY <1>2, <1>4
<1>7. A \cap C = {} /\ \A i \in A \cup C : fu[i] \in Int
  <2>1. \A i \in B : r[i] \in 1..(n + m) /\ r[i] \notin 1..n
    BY <1>4
  <2>2. \A i \in A : i \in 1..n /\ i \in 1..(n + m)
    BY <1>4
  <2>3. \A i \in C : i \in 1..(n + m) /\ i \notin 1..n
    BY <2>1
  <2> HIDE DEF A, C
  <2> QED BY <1>4, <2>2, <2>3
<1> HIDE DEF fs, ft, fu, A, B, r
<1>8. IsFiniteSet(C) /\ SumFunctionOnSet(ft, B) = SumFunctionOnSet(fu, C)
  <2>1. IsFiniteSet(B)
    BY <1>4
  <2>2. \A i \in B : r[i] \in C /\ fu[r[i]] = ft[i]
    BY <1>6
  <2>3. \A j \in C : \E i \in B : r[i] = j
    OBVIOUS
  <2> HIDE DEF C
  <2> QED BY ONLY <1>6, <2>1, <2>2, <2>3, SumRename
<1> HIDE DEF C
<1>10. SumFunctionOnSet(fs, A) = SumFunctionOnSet(fu, A)
  <2>1. IsFiniteSet(A)
    BY <1>4
  <2> QED BY ONLY <1>6, <2>1, SumAgree
<1>11. SumFunctionOnSet(fu, A \cup C) = SumFunctionOnSet(fu, A) + SumFunctionOnSet(fu, C)
  BY <1>4, <1>7, <1>8, SumUnion
<1> QED BY <1>1, <1>3, <1>5, <1>8, <1>10, <1>11

(* One entry more.                                                          *)
LEMMA EndsOfAppend ==
  ASSUME NEW s \in Seq(Entry), NEW x \in Entry, NEW e
  PROVE  EndsOf(e, Append(s, x)) = EndsOf(e, s) + Share(e, x.flow, EndCount(x))
<1>1. Append(s, x) = s \o <<x>> /\ <<x>> \in Seq(Entry)
  BY AppendIsConcat
<1>2. EndsOf(e, s \o <<x>>) = EndsOf(e, s) + EndsOf(e, <<x>>)
  BY <1>1, EndsOfConcat
<1> QED BY <1>1, <1>2, EndsOfOne

(* The first entry taken off.                                               *)
LEMMA EndsOfTail ==
  ASSUME NEW s \in Seq(Entry), s # <<>>, NEW e
  PROVE  EndsOf(e, s) = Share(e, Head(s).flow, EndCount(Head(s))) + EndsOf(e, Tail(s))
<1>1. /\ Head(s) \in Entry /\ Tail(s) \in Seq(Entry) /\ <<Head(s)>> \in Seq(Entry)
      /\ s = <<Head(s)>> \o Tail(s)
  BY HeadTailProperties, ConcatSimplifications
<1>2. EndsOf(e, <<Head(s)>> \o Tail(s)) = EndsOf(e, <<Head(s)>>) + EndsOf(e, Tail(s))
  BY <1>1, EndsOfConcat
<1> QED BY <1>1, <1>2, EndsOfOne

(* A sequence cut in two.                                                   *)
LEMMA EndsOfCut ==
  ASSUME NEW s \in Seq(Entry), NEW k \in Nat, k <= Len(s), NEW e
  PROVE  /\ SubSeq(s, 1, k) \in Seq(Entry) /\ SubSeq(s, k + 1, Len(s)) \in Seq(Entry)
         /\ Len(SubSeq(s, k + 1, Len(s))) = Len(s) - k
         /\ EndsOf(e, s) = EndsOf(e, SubSeq(s, 1, k)) + EndsOf(e, SubSeq(s, k + 1, Len(s)))
<1>1. PICK n \in Nat : n = Len(s)
  BY LenProperties
<1> DEFINE a == SubSeq(s, 1, k)
           b == SubSeq(s, k + 1, n)
<1>2. \A i \in 1..n : s[i] \in Entry
  BY <1>1, ElementOfSeq
<1>3. a \in Seq(Entry)
  <2>1. \A i \in 1..k : s[i] \in Entry
    BY <1>1, <1>2
  <2> QED BY <2>1, SubSeqProperties
<1>4. b \in Seq(Entry) /\ Len(b) = n - k
  <2>1. k + 1 \in Int /\ \A i \in (k + 1)..n : s[i] \in Entry
    BY <1>2
  <2>2. b \in Seq(Entry) /\ Len(b) = IF k + 1 <= n THEN n - (k + 1) + 1 ELSE 0
    BY <2>1, SubSeqProperties
  <2>3. k <= n
    BY <1>1
  <2> HIDE DEF b
  <2> QED BY <2>2, <2>3
<1>5. s = a \o b
  <2>1. 1 \in 1..(n + 1) /\ k \in (1 - 1)..n /\ n \in k..n
    BY <1>1
  <2>2. a \o b = SubSeq(s, 1, n)
    BY <1>1, <2>1, ConcatAdjacentSubSeq
  <2> QED BY <1>1, <2>2, SubSeqFull
<1> HIDE DEF a, b
<1>6. EndsOf(e, a \o b) = EndsOf(e, a) + EndsOf(e, b)
  BY <1>3, <1>4, EndsOfConcat
<1> QED BY <1>1, <1>3, <1>4, <1>5, <1>6 DEF a, b

(* The live flows of a table are finite in number and have counters.        *)
LEMMA LiveFinite ==
  ASSUME NEW c \in [Flows -> Counter]
  PROVE  /\ IsFiniteSet(Held(c)) /\ Cardinality(Held(c)) \in Nat
         /\ \A f \in Held(c) : f \in Flows /\ c[f] \in Nat
         /\ \A e : IsFiniteSet(HeldAt(e, c)) /\ HeldAt(e, c) \subseteq Held(c)
<1>1. IsFiniteSet(Flows) /\ Held(c) \subseteq Flows
  BY EventCaptureAssumption DEF Held
<1>2. IsFiniteSet(Held(c)) /\ Cardinality(Held(c)) \in Nat
  BY <1>1, FS_Subset, FS_CardinalityType
<1>3. \A e : HeldAt(e, c) \subseteq Held(c)
  BY DEF HeldAt
<1>4. \A e : IsFiniteSet(HeldAt(e, c))
  BY <1>2, <1>3, FS_Subset
<1>5. \A f \in Held(c) : f \in Flows /\ c[f] \in Nat
  BY DEF Held, Counter
<1> QED BY <1>2, <1>3, <1>4, <1>5

(* The live flows of an edge add up to a natural number of units.           *)
LEMMA LiveType ==
  ASSUME NEW c \in [Flows -> Counter], NEW e
  PROVE  LiveUnits(e, c) \in Nat
<1>1. IsFiniteSet(HeldAt(e, c)) /\ \A f \in HeldAt(e, c) : c[f] \in Nat
  BY LiveFinite
<1> QED BY <1>1, SumNat DEF LiveUnits

(* What the other live flows of an edge add up to.                          *)
OtherUnits(e, f, c) == SumFunctionOnSet(c, HeldAt(e, c) \ {f})

(* One flow's counter apart from the others.                                *)
LEMMA LiveSplit ==
  ASSUME NEW c \in [Flows -> Counter], NEW f \in Flows, NEW e
  PROVE  /\ LiveUnits(e, c) = Share(e, f, c[f]) + OtherUnits(e, f, c)
         /\ OtherUnits(e, f, c) \in Int
<1>1. PICK S : S = HeldAt(e, c)
  OBVIOUS
<1>2. IsFiniteSet(S) /\ (\A g \in S : c[g] \in Nat) /\ (\A g \in S : c[g] \in Int)
  BY <1>1, LiveFinite
<1>3. LiveUnits(e, c) = SumFunctionOnSet(c, S)
  BY <1>1 DEF LiveUnits
<1>4. Share(e, f, c[f]) = IF f \in S THEN c[f] ELSE 0
  BY <1>1 DEF HeldAt, Held, Share
<1>5. IsFiniteSet(S \ {f}) /\ \A g \in S \ {f} : c[g] \in Int
  BY <1>2, FS_RemoveElement
<1>6. PICK k \in Int : k = SumFunctionOnSet(c, S \ {f}) /\ k = OtherUnits(e, f, c)
  BY <1>1, <1>5, SumInt DEF OtherUnits
<1>7. CASE f \in S
  <2>1. SumFunctionOnSet(c, S) = c[f] + SumFunctionOnSet(c, S \ {f})
    BY <1>2, <1>7, SumRemove
  <2> QED BY <1>3, <1>4, <1>6, <1>7, <2>1
<1>8. CASE f \notin S
  <2>1. S \ {f} = S /\ 0 + k = k
    BY <1>8
  <2> QED BY <1>3, <1>4, <1>6, <1>8, <2>1
<1> QED BY <1>7, <1>8

(* The others do not change when only one flow does.                        *)
LEMMA OthersKeep ==
  ASSUME NEW c \in [Flows -> Counter], NEW d \in [Flows -> Counter], NEW f \in Flows, NEW e,
         \A g \in Flows \ {f} : d[g] = c[g]
  PROVE  OtherUnits(e, f, d) = OtherUnits(e, f, c)
<1>1. PICK S : S = HeldAt(e, c) \ {f}
  OBVIOUS
<1>2. S = HeldAt(e, d) \ {f}
  BY <1>1 DEF HeldAt, Held
<1>3. IsFiniteSet(S) /\ \A g \in S : g # f /\ g \in Flows /\ c[g] \in Int
  BY <1>1, LiveFinite, FS_RemoveElement
<1>4. \A g \in S : c[g] \in Int /\ c[g] = d[g]
  BY <1>3
<1>5. SumFunctionOnSet(c, S) = SumFunctionOnSet(d, S)
  BY <1>3, <1>4, SumAgree
<1> QED BY <1>1, <1>2, <1>5 DEF OtherUnits

(* Tables that hold no more have no more entries; the empty one has none.   *)
LEMMA HeldSize ==
  ASSUME NEW c \in [Flows -> Counter], NEW d \in [Flows -> Counter], Held(d) \subseteq Held(c)
  PROVE  Cardinality(Held(d)) <= Cardinality(Held(c))
BY LiveFinite, FS_Subset

LEMMA NothingHeld ==
  /\ Nothing \in [Flows -> Counter]
  /\ Held(Nothing) = {} /\ Cardinality(Held(Nothing)) = 0
  /\ \A e : LiveUnits(e, Nothing) = 0
<1>1. Nothing \in [Flows -> Counter]
  BY DEF Nothing, Counter
<1>2. Held(Nothing) = {}
  BY DEF Held, Nothing
<1>3. \A e : HeldAt(e, Nothing) = {}
  BY <1>2 DEF HeldAt
<1> QED BY <1>1, <1>2, <1>3, FS_EmptySet, SumEmpty DEF LiveUnits

(* A table of unused flows adds up to nothing.                              *)
LEMMA FreshUnits ==
  ASSUME NEW c \in [Flows -> {None, 0}], NEW e
  PROVE  c \in [Flows -> Counter] /\ LiveUnits(e, c) = 0
<1>1. c \in [Flows -> Counter]
  BY DEF Counter
<1>2. PICK S : S = HeldAt(e, c)
  OBVIOUS
<1>3. IsFiniteSet(S) /\ \A f \in S : c[f] = 0
  BY <1>1, <1>2, LiveFinite DEF HeldAt, Held
<1>4. SumFunctionOnSet(c, S) = 0
  <2> DEFINE Good == {t \in SUBSET S : SumFunctionOnSet(c, t) = 0}
  <2>1. {} \in Good
    BY SumEmpty
  <2>2. ASSUME NEW t \in SUBSET S, t # {}, \A x \in t : t \ {x} \in Good
        PROVE  t \in Good
    <3>1. PICK x \in t : TRUE
      BY <2>2
    <3>2. IsFiniteSet(t) /\ \A y \in t : c[y] \in Int
      BY <1>3, FS_Subset
    <3>3. SumFunctionOnSet(c, t) = c[x] + SumFunctionOnSet(c, t \ {x})
      BY <3>2, SumRemove
    <3> QED BY <1>3, <2>2, <3>3
  <2>3. \A t \in SUBSET S : t \in Good
    <3> HIDE DEF Good
    <3> QED BY <1>3, <2>1, <2>2, SubsetInduction
  <2> QED BY <2>3
<1> QED BY <1>1, <1>2, <1>4 DEF LiveUnits

------------------------------------------------------------------------------
(* Type correctness and the traffic of an edge, operator by operator.       *)

(* Throwing entries away books the ends among them as dropped.              *)
LEMMA DropEffect ==
  ASSUME TypeOK, NEW s \in Seq(Entry), Drop(s)
  PROVE  /\ dropped' \in [Edges -> Nat]
         /\ \A e \in Edges : dropped'[e] = dropped[e] + EndsOf(e, s)
<1>1. \A e \in Edges : dropped[e] \in Nat /\ EndsOf(e, s) \in Nat
  BY EndsType DEF TypeOK
<1>2. dropped' = [e \in Edges |-> dropped[e] + EndsOf(e, s)]
  BY DEF Drop
<1> QED BY <1>1, <1>2

(* An event goes to the buffer or is dropped, and its end with it.          *)
LEMMA EmitEffect ==
  ASSUME TypeOK, NEW f \in Flows, NEW event \in {"LIVE", "DESTROY"}, NEW count \in Nat,
         Emit(f, event, count)
  PROVE  /\ queue' \in Seq(Entry) /\ Len(queue') <= MaxQueue
         /\ reported' \in [Flows -> Counter] /\ blurred' \subseteq Flows
         /\ dropped' \in [Edges -> Nat]
         /\ \A e \in Edges : EndsOf(e, queue') + dropped'[e] = EndsOf(e, queue) + dropped[e]
              + Share(e, f, IF event = "DESTROY" THEN count ELSE None)
<1>1. PICK x \in Entry : x = [flow |-> f, event |-> event, bytes |-> count]
  BY DEF Entry
<1>2. /\ queue \in Seq(Entry) /\ Len(queue) \in Nat /\ Len(queue) <= MaxQueue
      /\ MaxQueue \in Nat
      /\ reported \in [Flows -> Counter] /\ blurred \subseteq Flows
      /\ dropped \in [Edges -> Nat] /\ <<x>> \in Seq(Entry)
  BY EventCaptureAssumption, LenProperties DEF TypeOK
<1>3. \A e \in Edges : /\ EndsOf(e, queue) \in Nat /\ dropped[e] \in Nat
                       /\ Share(e, f, EndCount(x)) \in Nat
                       /\ EndsOf(e, <<x>>) = Share(e, f, EndCount(x))
  <2>1. \A e \in Edges : EndsOf(e, <<x>>) = Share(e, x.flow, EndCount(x))
    BY EndsOfOne
  <2> QED BY <1>1, <1>2, <2>1, EndsType
<1>4. EndCount(x) = IF event = "DESTROY" THEN count ELSE None
  BY <1>1 DEF EndCount
<1>5. (IF event = "DESTROY" THEN None ELSE count) \in Counter
  BY DEF Counter
<1>6. CASE Drop(<<x>>) /\ UNCHANGED queue
  <2>1. dropped' \in [Edges -> Nat] /\ \A e \in Edges : dropped'[e] = dropped[e] + EndsOf(e, <<x>>)
    BY <1>2, <1>6, DropEffect
  <2>2. reported' \in [Flows -> Counter] /\ blurred' \subseteq Flows
    BY <1>2, <1>5 DEF Emit
  <2>3. ASSUME NEW e \in Edges
        PROVE  EndsOf(e, queue') + dropped'[e]
                 = EndsOf(e, queue) + dropped[e] + Share(e, f, EndCount(x))
    BY <1>3, <1>6, <2>1
  <2> QED BY <1>2, <1>4, <1>6, <2>1, <2>2, <2>3
<1>7. CASE Len(queue) < MaxQueue /\ queue' = Append(queue, x) /\ UNCHANGED dropped
  <2>1. queue' \in Seq(Entry) /\ Len(queue') = Len(queue) + 1
    BY <1>2, <1>7, AppendProperties
  <2>2. \A e \in Edges : EndsOf(e, queue') = EndsOf(e, queue) + Share(e, f, EndCount(x))
    <3>1. \A e \in Edges :
            EndsOf(e, Append(queue, x)) = EndsOf(e, queue) + Share(e, x.flow, EndCount(x))
      BY <1>2, EndsOfAppend
    <3> QED BY <1>1, <1>7, <3>1
  <2>3. reported' \in [Flows -> Counter] /\ blurred' \subseteq Flows
    BY <1>2, <1>5 DEF Emit
  <2>4. ASSUME NEW e \in Edges
        PROVE  EndsOf(e, queue') + dropped'[e]
                 = EndsOf(e, queue) + dropped[e] + Share(e, f, EndCount(x))
    BY <1>3, <1>7, <2>2
  <2> QED BY <1>2, <1>4, <1>7, <2>1, <2>3, <2>4
<1> QED BY <1>1, <1>6, <1>7 DEF Emit

(* _record keeps its two buffers within their bounds; what it makes room    *)
(* for is dropped.                                                          *)
LEMMA RecordEffect ==
  ASSUME TypeOK, NEW x \in Entry, RecordEntry(x)
  PROVE  /\ active' \in [Flows -> Counter] /\ Cardinality(Held(active')) <= MaxActive
         /\ destroyed' \in Seq(Entry) /\ Len(destroyed') <= MaxDestroyed
         /\ blurred' \subseteq Flows /\ dropped' \in [Edges -> Nat]
         /\ \A e \in Edges : EndsOf(e, destroyed') + dropped'[e]
              = EndsOf(e, destroyed) + dropped[e] + Share(e, x.flow, EndCount(x))
<1>1. /\ active \in [Flows -> Counter] /\ Cardinality(Held(active)) \in Nat
      /\ Cardinality(Held(active)) <= MaxActive
      /\ destroyed \in Seq(Entry) /\ Len(destroyed) \in Nat /\ Len(destroyed) <= MaxDestroyed
      /\ blurred \subseteq Flows /\ dropped \in [Edges -> Nat]
      /\ MaxActive \in Nat /\ MaxDestroyed \in Nat \ {0}
  BY EventCaptureAssumption, LenProperties, LiveFinite DEF TypeOK
<1>2. x.flow \in Flows /\ x.bytes \in Counter /\ None \in Counter /\ x.bytes \in Nat
  BY EntryType DEF Counter
<1>3. \A e \in Edges : /\ EndsOf(e, destroyed) \in Nat /\ dropped[e] \in Nat
                       /\ Share(e, x.flow, EndCount(x)) \in Nat
  BY <1>1, <1>2, EndsType DEF Share, EndCount
<1>4. CASE x.event = "DESTROY"
  <2> DEFINE all == Append(destroyed, x)
             old == IF Len(all) > MaxDestroyed THEN Len(all) - MaxDestroyed ELSE 0
  <2>1. /\ active' = [active EXCEPT ![x.flow] = None] /\ UNCHANGED blurred
        /\ destroyed' = SubSeq(all, old + 1, Len(all))
        /\ Drop(SubSeq(all, 1, old))
    BY <1>4 DEF RecordEntry
  <2>2. active' \in [Flows -> Counter] /\ Held(active') \subseteq Held(active)
    BY <1>1, <1>2, <2>1 DEF Held
  <2>3. Cardinality(Held(active')) <= MaxActive
    <3>1. Cardinality(Held(active')) <= Cardinality(Held(active))
      BY <1>1, <2>2, HeldSize
    <3>2. Cardinality(Held(active')) \in Nat
      BY <2>2, LiveFinite
    <3> QED BY <1>1, <3>1, <3>2
  <2>4. all \in Seq(Entry) /\ Len(all) = Len(destroyed) + 1
    BY <1>1, AppendProperties
  <2>5. old \in Nat /\ old <= Len(all) /\ Len(all) - old <= MaxDestroyed
    BY <1>1, <2>4
  <2>6. \A e \in Edges : EndsOf(e, all) = EndsOf(e, destroyed) + Share(e, x.flow, EndCount(x))
    BY <1>1, EndsOfAppend
  <2> HIDE DEF all, old
  <2>7. /\ SubSeq(all, 1, old) \in Seq(Entry) /\ SubSeq(all, old + 1, Len(all)) \in Seq(Entry)
        /\ Len(SubSeq(all, old + 1, Len(all))) = Len(all) - old
    BY <2>4, <2>5, EndsOfCut
  <2>8. \A e \in Edges : EndsOf(e, all) = EndsOf(e, SubSeq(all, 1, old)) + EndsOf(e, destroyed')
    BY <2>1, <2>4, <2>5, EndsOfCut
  <2>9. /\ dropped' \in [Edges -> Nat]
        /\ \A e \in Edges : dropped'[e] = dropped[e] + EndsOf(e, SubSeq(all, 1, old))
    BY <2>1, <2>7, DropEffect
  <2>10. \A e \in Edges :
           EndsOf(e, SubSeq(all, 1, old)) \in Nat /\ EndsOf(e, destroyed') \in Nat
    BY <2>1, <2>7, EndsType
  <2>11. destroyed' \in Seq(Entry) /\ Len(destroyed') <= MaxDestroyed
    BY <2>1, <2>5, <2>7
  <2>12. ASSUME NEW e \in Edges
         PROVE  EndsOf(e, destroyed') + dropped'[e]
                  = EndsOf(e, destroyed) + dropped[e] + Share(e, x.flow, EndCount(x))
    BY <1>3, <2>6, <2>8, <2>9, <2>10
  <2> QED BY <1>1, <2>1, <2>2, <2>3, <2>9, <2>11, <2>12
<1>5. CASE x.event # "DESTROY"
  <2> DEFINE grown == [active EXCEPT ![x.flow] = x.bytes]
  <2>1. UNCHANGED <<destroyed, dropped>> /\ grown \in [Flows -> Counter]
    BY <1>1, <1>2, <1>5 DEF RecordEntry
  <2>2. ASSUME NEW e \in Edges
        PROVE  EndsOf(e, destroyed') + dropped'[e]
                 = EndsOf(e, destroyed) + dropped[e] + Share(e, x.flow, EndCount(x))
    <3>1. Share(e, x.flow, EndCount(x)) = 0
      BY <1>5 DEF Share, EndCount
    <3> QED BY <1>3, <2>1, <3>1
  <2>3. CASE /\ Cardinality(Held(grown)) > MaxActive
             /\ active' = Nothing
             /\ blurred' = blurred \cup (Held(grown) \ FlowsIn(Tail(queue)))
    <3>1. Held(grown) \subseteq Flows
      BY DEF Held
    <3>2. active' \in [Flows -> Counter] /\ Cardinality(Held(active')) <= MaxActive
      BY <1>1, <2>3, NothingHeld
    <3> QED BY <1>1, <2>1, <2>2, <2>3, <3>1, <3>2
  <2>4. CASE ~(Cardinality(Held(grown)) > MaxActive) /\ active' = grown /\ UNCHANGED blurred
    <3>1. Cardinality(Held(grown)) \in Nat
      BY <2>1, LiveFinite
    <3>2. Cardinality(Held(active')) <= MaxActive
      BY <1>1, <2>4, <3>1
    <3> QED BY <1>1, <2>1, <2>2, <2>4, <3>2
  <2> QED BY <1>5, <2>3, <2>4 DEF RecordEntry
<1> QED BY <1>4, <1>5

(* What a cycle takes in hand.                                              *)
LEMMA FoldEffect ==
  ASSUME NEW c \in [Flows -> Counter], NEW s \in Seq(Entry), Fold(c, s)
  PROVE  /\ held' \subseteq Edges /\ sums' \in [Edges -> Sums]
         /\ \A e \in Edges : sums'[e].ends = EndsOf(e, s)
         /\ \A e \in Edges \ held' : EndsOf(e, s) = 0
<1>1. \A e \in Edges : LiveUnits(e, c) \in Nat /\ EndsOf(e, s) \in Nat
  BY LiveType, EndsType
<1>2. \A e \in Edges :
        [all |-> LiveUnits(e, c) + EndsOf(e, s), ends |-> EndsOf(e, s)] \in Sums
  BY <1>1 DEF Sums
<1>3. \A i \in DOMAIN s : s[i].flow \in Flows
  BY EndsAtFinite, EntryType
<1>4. held' = {EdgeOf[f] : f \in Held(c) \cup FlowsIn(s)}
  BY DEF Fold
<1>5. held' \subseteq Edges
  BY <1>3, <1>4, EventCaptureAssumption DEF Held, FlowsIn
<1>6. ASSUME NEW e \in Edges \ held'
      PROVE  EndsOf(e, s) = 0
  <2>1. EndsAt(e, s) = {}
    BY <1>4, <1>6 DEF EndsAt, FlowsIn
  <2> QED BY <2>1, SumEmpty DEF EndsOf
<1>7. sums' = [e \in Edges |-> [all  |-> LiveUnits(e, c) + EndsOf(e, s),
                               ends |-> EndsOf(e, s)]]
  BY DEF Fold
<1> QED BY <1>2, <1>5, <1>6, <1>7

------------------------------------------------------------------------------
(* The initial states.                                                      *)

LEMMA Start == Init => IInv
<1> SUFFICES ASSUME Init PROVE IInv
  OBVIOUS
<1> USE EventCaptureAssumption DEF Init
<1>1. /\ bytes \in [Flows -> Counter] /\ Nothing \in [Flows -> Counter]
      /\ \A e \in Edges : LiveUnits(e, bytes) = 0
      /\ Cardinality(Held(Nothing)) = 0
  BY FreshUnits, NothingHeld
<1>2. <<>> \in Seq(Entry) /\ Len(<<>>) = 0 /\ \A e \in Edges : EndsOf(e, <<>>) = 0
  BY EmptySeq, EndsOfNone
<1>3. sums \in [Edges -> Sums] /\ \A e \in Edges : sums[e].ends = 0
  BY DEF NoSums, Sums
<1>4. row \in [Edges -> Row] /\ Zero \in [Edges -> Nat]
  BY DEF Row, Zero
<1>5. TypeOK
  BY <1>1, <1>2, <1>3, <1>4 DEF TypeOK, Sums, Row
<1>6. LoopInv
  BY <1>3 DEF LoopInv
<1>7. ListenerFollows
  BY DEF ListenerFollows
<1>8. TrafficConserved
  BY <1>1, <1>2, <1>3 DEF TrafficConserved, Zero
<1> QED BY <1>5, <1>6, <1>7, <1>8 DEF IInv

------------------------------------------------------------------------------
(* Every step keeps the types.                                              *)

LEMMA NextTypes ==
  ASSUME TypeOK, [Next]_vars
  PROVE  TypeOK'
<1> USE EventCaptureAssumption DEF TypeOK
<1>0. None \in Counter /\ Nat \subseteq Counter
  BY DEF Counter
<1>1. ASSUME NEW f \in Flows, KernelNew(f) PROVE TypeOK'
  <2>1. bytes' \in [Flows -> Counter] /\ Emit(f, "LIVE", 0)
    BY <1>0, <1>1 DEF KernelNew
  <2> QED BY <1>1, <2>1, EmitEffect DEF KernelNew, buffers, loop, database
<1>2. ASSUME NEW f \in Flows, KernelCount(f) PROVE TypeOK'
  <2>1. bytes[f] + 1 \in Counter
    BY <1>2 DEF KernelCount, Tracked, Counter
  <2>2. bytes' \in [Flows -> Counter]
    BY <1>2, <2>1 DEF KernelCount
  <2>3. carried' \in [Edges -> Nat]
    BY <1>2 DEF KernelCount
  <2> QED BY <1>2, <2>2, <2>3 DEF KernelCount, buffers, loop, database
<1>3. ASSUME NEW f \in Flows, KernelUpdate(f) PROVE TypeOK'
  <2>1. bytes[f] \in Nat /\ Emit(f, "LIVE", bytes[f])
    BY <1>3 DEF KernelUpdate, Tracked, Counter
  <2> QED BY <1>3, <2>1, EmitEffect DEF KernelUpdate, buffers, loop, database
<1>4. ASSUME NEW f \in Flows, KernelDestroy(f) PROVE TypeOK'
  <2>1. bytes[f] \in Nat /\ Emit(f, "DESTROY", bytes[f])
    BY <1>4 DEF KernelDestroy, Tracked, Counter
  <2>2. bytes' \in [Flows -> Counter]
    BY <1>0, <1>4 DEF KernelDestroy
  <2> QED BY <1>4, <2>1, <2>2, EmitEffect DEF KernelDestroy, buffers, loop, database
<1>5. CASE OpenSocket
  BY <1>5 DEF OpenSocket, kernel, buffers, loop, database, history, totals
<1>6. CASE Receive
  <2>1. /\ Head(queue) \in Entry /\ queue' \in Seq(Entry) /\ Len(queue') <= MaxQueue
        /\ RecordEntry(Head(queue))
    <3>1. queue # <<>> /\ queue \in Seq(Entry) /\ queue' = Tail(queue)
      BY <1>6 DEF Receive
    <3>2. Head(queue) \in Entry /\ Tail(queue) \in Seq(Entry) /\ Len(Tail(queue)) = Len(queue) - 1
      BY <3>1, HeadTailProperties
    <3> QED BY <1>6, <3>1, <3>2, LenProperties DEF Receive
  <2> QED BY <1>6, <2>1, RecordEffect DEF Receive, loop, database
<1>7. CASE StartRecording
  <2>0. <<>> \in Seq(Entry) /\ Len(<<>>) = 0
    BY EmptySeq
  <2>1. /\ held' \subseteq Edges /\ sums' \in [Edges -> Sums]
        /\ destroyed' \in Seq(Entry) /\ Len(destroyed') <= MaxDestroyed
    <3>1. CASE eventDriven
      <4>1. Fold(active, destroyed) /\ destroyed' = <<>>
        BY <1>7, <3>1 DEF StartRecording, Drain
      <4>2. held' \subseteq Edges /\ sums' \in [Edges -> Sums]
        BY <4>1, FoldEffect
      <4> QED BY <2>0, <4>1, <4>2
    <3>2. CASE ~eventDriven
      <4>1. Fold(bytes, <<>>) /\ UNCHANGED destroyed
        BY <1>7, <3>2 DEF StartRecording
      <4>2. held' \subseteq Edges /\ sums' \in [Edges -> Sums]
        BY <2>0, <4>1, FoldEffect
      <4> QED BY <4>1, <4>2
    <3> QED BY <3>1, <3>2
  <2>2. pc' = "record"
    BY <1>7 DEF StartRecording
  <2> QED BY <1>7, <2>1, <2>2 DEF StartRecording, kernel, database, history, totals, Sums
<1>8. CASE PausedCycle
  <2>1. <<>> \in Seq(Entry) /\ Len(<<>>) = 0
    BY EmptySeq
  <2>2. dropped' \in [Edges -> Nat]
    BY <1>8, DropEffect DEF PausedCycle
  <2> QED BY <1>8, <2>1, <2>2 DEF PausedCycle, kernel, loop, database
<1>9. ASSUME NEW e \in Edges, RecordEdge(e) PROVE TypeOK'
  <2>1. /\ row[e] \in Row /\ row[e].bytes \in Nat /\ row[e].last_snapshot_bytes \in Nat
        /\ sums[e].all \in Nat /\ sums[e].ends \in Nat
    BY DEF Row
  <2>2. row[e].bytes + Delta(row[e].last_snapshot_bytes, sums[e].all) \in Nat
    BY <2>1 DEF Delta
  <2>3. [bytes |-> row[e].bytes + Delta(row[e].last_snapshot_bytes, sums[e].all),
         last_snapshot_bytes |-> sums[e].all] \in Row
    BY <2>1, <2>2 DEF Row
  <2>4. row' \in [Edges -> Row]
    BY <1>9, <2>3 DEF RecordEdge, Row
  <2>5. sums' \in [Edges -> Sums]
    BY <1>9 DEF RecordEdge, NoSums, Sums
  <2>6. captured' \in [Edges -> Nat]
    BY <1>9, <2>1 DEF RecordEdge
  <2> QED BY <1>9, <2>4, <2>5, <2>6 DEF RecordEdge, kernel, buffers, Sums, Row
<1>10. CASE EndCycle
  BY <1>10 DEF EndCycle, kernel, buffers, database, history, totals
<1>11. CASE Restart
  <2>1. <<>> \in Seq(Entry) /\ Len(<<>>) = 0
    BY EmptySeq
  <2>2. \A e \in Edges : EndsOf(e, queue) \in Nat /\ EndsOf(e, destroyed) \in Nat
    BY EndsType
  <2>3. dropped' \in [Edges -> Nat]
    BY <1>11, <2>2 DEF Restart
  <2>4. sums' \in [Edges -> Sums]
    BY <1>11 DEF Restart, NoSums, Sums
  <2>5. restarts' \in 0..MaxRestarts
    BY <1>11 DEF Restart
  <2> QED BY <1>11, <2>1, <2>3, <2>4, <2>5, NothingHeld DEF Restart, database, Sums
<1>12. CASE UNCHANGED vars
  BY <1>12 DEF vars
<1> QED BY <1>1, <1>2, <1>3, <1>4, <1>5, <1>6, <1>7, <1>8, <1>9, <1>10, <1>11, <1>12 DEF Next

------------------------------------------------------------------------------
(* Every step keeps the loop's hands in order.                              *)
LEMMA NextLoop ==
  ASSUME TypeOK, LoopInv, [Next]_vars
  PROVE  LoopInv'
<1> USE DEF LoopInv
<1>1. CASE UNCHANGED loop
  BY <1>1 DEF loop
<1>2. CASE StartRecording
  <2>1. pc' = "record"
    BY <1>2 DEF StartRecording
  <2>2. PICK c \in [Flows -> Counter], s \in Seq(Entry) : Fold(c, s)
    <3>1. active \in [Flows -> Counter] /\ bytes \in [Flows -> Counter]
          /\ destroyed \in Seq(Entry) /\ <<>> \in Seq(Entry)
      BY EmptySeq DEF TypeOK
    <3> QED BY <1>2, <3>1 DEF StartRecording, Drain
  <2>3. \A e \in Edges \ held' : sums'[e].ends = 0
    BY <2>2, FoldEffect
  <2> QED BY <2>1, <2>3
<1>3. ASSUME NEW e \in Edges, RecordEdge(e) PROVE LoopInv'
  <2>1. pc' = "record"
    BY <1>3 DEF RecordEdge
  <2>2. ASSUME NEW d \in Edges \ held' PROVE sums'[d].ends = 0
    BY <1>3 DEF RecordEdge, NoSums, TypeOK
  <2> QED BY <2>1, <2>2
<1>4. CASE EndCycle
  BY <1>4 DEF EndCycle
<1>5. CASE Restart
  BY <1>5 DEF Restart, NoSums
<1>6. ASSUME NEW f \in Flows,
             KernelNew(f) \/ KernelCount(f) \/ KernelUpdate(f) \/ KernelDestroy(f)
      PROVE  UNCHANGED loop
  BY <1>6 DEF KernelNew, KernelCount, KernelUpdate, KernelDestroy
<1>7. OpenSocket \/ Receive \/ PausedCycle \/ UNCHANGED vars => UNCHANGED loop
  BY DEF OpenSocket, Receive, PausedCycle, vars, loop
<1> QED BY <1>1, <1>2, <1>3, <1>4, <1>5, <1>6, <1>7 DEF Next

(* Every step moves an edge's traffic from one place to another.            *)
LEMMA NextTraffic ==
  ASSUME TypeOK, LoopInv, TrafficConserved, [Next]_vars
  PROVE  TrafficConserved'
<1> SUFFICES ASSUME NEW e \in Edges
             PROVE  carried'[e] = LiveUnits(e, bytes') + EndsOf(e, queue')
                      + EndsOf(e, destroyed') + sums'[e].ends + captured'[e] + dropped'[e]
  BY DEF TrafficConserved
<1>1. /\ bytes \in [Flows -> Counter] /\ queue \in Seq(Entry) /\ destroyed \in Seq(Entry)
      /\ active \in [Flows -> Counter] /\ None \in Counter /\ Nat \subseteq Counter
      /\ \A n \in Nat : n # None
  BY EventCaptureAssumption DEF TypeOK, Counter
<1>2. PICK t \in Nat, l \in Nat, q \in Nat, d \in Nat, s \in Nat, c \in Nat, r \in Nat :
        /\ t = carried[e] /\ l = LiveUnits(e, bytes) /\ q = EndsOf(e, queue)
        /\ d = EndsOf(e, destroyed) /\ s = sums[e].ends /\ c = captured[e] /\ r = dropped[e]
  BY LiveType, EndsType DEF TypeOK
<1>3. PICK t2 \in Nat, l2 \in Nat, q2 \in Nat, d2 \in Nat, s2 \in Nat, c2 \in Nat, r2 \in Nat :
        /\ t2 = carried'[e] /\ l2 = LiveUnits(e, bytes') /\ q2 = EndsOf(e, queue')
        /\ d2 = EndsOf(e, destroyed') /\ s2 = sums'[e].ends /\ c2 = captured'[e]
        /\ r2 = dropped'[e]
  <2>1. TypeOK'
    BY NextTypes
  <2> QED BY <2>1, LiveType, EndsType DEF TypeOK
<1>4. bytes' \in [Flows -> Counter]
  BY NextTypes DEF TypeOK
<1>5. t = l + q + d + s + c + r
  BY <1>2 DEF TrafficConserved
<1> SUFFICES t2 = l2 + q2 + d2 + s2 + c2 + r2
  BY <1>3
<1>6. ASSUME NEW f \in Flows, KernelNew(f)
      PROVE  l2 = l /\ q2 + r2 = q + r /\ d2 = d /\ s2 = s /\ c2 = c /\ t2 = t
  <2>1. /\ bytes[f] = None /\ bytes' = [bytes EXCEPT ![f] = 0] /\ 0 \in Counter
        /\ Emit(f, "LIVE", 0) /\ UNCHANGED <<destroyed, sums, carried, captured>>
    BY <1>1, <1>6 DEF KernelNew, Tracked, buffers, loop
  <2>2. Share(e, f, None) = 0 /\ Share(e, f, 0) = 0
    BY DEF Share
  <2>3. bytes'[f] = 0
    BY <1>1, <2>1
  <2>4. l2 = l
    <3>1. PICK rest \in Int : /\ LiveUnits(e, bytes) = Share(e, f, bytes[f]) + rest
                            /\ LiveUnits(e, bytes') = Share(e, f, bytes'[f]) + rest
      <4>1. OtherUnits(e, f, bytes') = OtherUnits(e, f, bytes)
        <5>1. \A g \in Flows \ {f} : bytes'[g] = bytes[g]
          BY <1>1, <2>1
        <5> QED BY <1>1, <1>4, <5>1, OthersKeep
      <4> QED BY <1>1, <1>4, <4>1, LiveSplit
    <3> QED BY <1>2, <1>3, <2>1, <2>2, <2>3, <3>1
  <2>5. q2 + r2 = q + r + Share(e, f, None)
    BY <1>2, <1>3, <2>1, EmitEffect
  <2> QED BY <1>2, <1>3, <2>1, <2>2, <2>4, <2>5
<1>7. ASSUME NEW f \in Flows, KernelCount(f)
      PROVE  l2 - l = t2 - t /\ q2 = q /\ r2 = r /\ d2 = d /\ s2 = s /\ c2 = c
  <2>1. /\ bytes[f] \in Nat /\ bytes' = [bytes EXCEPT ![f] = bytes[f] + 1]
        /\ carried' = [carried EXCEPT ![EdgeOf[f]] = carried[EdgeOf[f]] + 1]
        /\ UNCHANGED <<queue, destroyed, sums, captured, dropped>>
    BY <1>1, <1>7 DEF KernelCount, Tracked, Counter, buffers, loop
  <2>2. PICK n \in Nat, rest \in Int :
          n = bytes[f] /\ l = Share(e, f, n) + rest /\ l2 = Share(e, f, n + 1) + rest
    <3>1. bytes'[f] = bytes[f] + 1 /\ \A g \in Flows \ {f} : bytes'[g] = bytes[g]
      BY <1>1, <2>1
    <3>2. PICK rest \in Int : /\ LiveUnits(e, bytes) = Share(e, f, bytes[f]) + rest
                            /\ LiveUnits(e, bytes') = Share(e, f, bytes'[f]) + rest
      <4>1. OtherUnits(e, f, bytes') = OtherUnits(e, f, bytes)
        BY <1>1, <1>4, <3>1, OthersKeep
      <4> QED BY <1>1, <1>4, <4>1, LiveSplit
    <3> QED BY <1>2, <1>3, <2>1, <3>1, <3>2
  <2>3. t2 = IF EdgeOf[f] = e THEN t + 1 ELSE t
    BY <1>2, <1>3, <2>1 DEF TypeOK
  <2>4. n # None /\ n + 1 # None
    BY <1>1
  <2>5. l2 - l = t2 - t
    BY <2>2, <2>3, <2>4 DEF Share
  <2> QED BY <1>2, <1>3, <2>1, <2>5
<1>8. ASSUME NEW f \in Flows, KernelUpdate(f)
      PROVE  l2 = l /\ q2 + r2 = q + r /\ d2 = d /\ s2 = s /\ c2 = c /\ t2 = t
  <2>1. /\ bytes[f] \in Nat /\ Emit(f, "LIVE", bytes[f])
        /\ UNCHANGED <<bytes, destroyed, sums, carried, captured>>
    BY <1>1, <1>8 DEF KernelUpdate, Tracked, Counter, buffers, loop
  <2>2. q2 + r2 = q + r + Share(e, f, None)
    BY <1>2, <1>3, <2>1, EmitEffect
  <2>3. Share(e, f, None) = 0
    BY DEF Share
  <2> QED BY <1>2, <1>3, <2>1, <2>2, <2>3
<1>9. ASSUME NEW f \in Flows, KernelDestroy(f)
      PROVE  l2 + q2 + r2 = l + q + r /\ d2 = d /\ s2 = s /\ c2 = c /\ t2 = t
  <2>1. PICK n \in Nat :
          /\ bytes[f] = n /\ bytes' = [bytes EXCEPT ![f] = None]
          /\ Emit(f, "DESTROY", n) /\ UNCHANGED <<destroyed, sums, carried, captured>>
    BY <1>1, <1>9 DEF KernelDestroy, Tracked, Counter, buffers, loop
  <2>2. PICK k \in Nat : k = Share(e, f, n)
    BY DEF Share
  <2>3. Share(e, f, None) = 0
    BY DEF Share
  <2>4. l = k + l2
    <3>1. bytes'[f] = None /\ \A g \in Flows \ {f} : bytes'[g] = bytes[g]
      BY <1>1, <2>1
    <3>2. PICK rest \in Int : /\ LiveUnits(e, bytes) = Share(e, f, bytes[f]) + rest
                            /\ LiveUnits(e, bytes') = Share(e, f, bytes'[f]) + rest
      <4>1. OtherUnits(e, f, bytes') = OtherUnits(e, f, bytes)
        BY <1>1, <1>4, <3>1, OthersKeep
      <4> QED BY <1>1, <1>4, <4>1, LiveSplit
    <3> QED BY <1>2, <1>3, <2>1, <2>2, <2>3, <3>1, <3>2
  <2>5. q2 + r2 = q + r + k
    BY <1>2, <1>3, <2>1, <2>2, EmitEffect
  <2>6. l2 + q2 + r2 = l + q + r
    BY <2>4, <2>5
  <2> QED BY <1>2, <1>3, <2>1, <2>6
<1>10. CASE Receive
  <2>1. /\ queue # <<>> /\ queue' = Tail(queue) /\ Head(queue) \in Entry
        /\ RecordEntry(Head(queue)) /\ UNCHANGED <<bytes, sums, carried, captured>>
    <3>1. queue # <<>>
      BY <1>10 DEF Receive
    <3> QED BY <1>1, <1>10, <3>1, HeadTailProperties DEF Receive, loop
  <2>2. PICK k \in Nat : k = Share(e, Head(queue).flow, EndCount(Head(queue)))
    BY <2>1, EntryType DEF Share, EndCount
  <2>3. q = k + q2
    BY <1>1, <1>2, <1>3, <2>1, <2>2, EndsOfTail
  <2>4. d2 + r2 = d + r + k
    BY <1>2, <1>3, <2>1, <2>2, RecordEffect
  <2>5. l2 = l /\ s2 = s /\ c2 = c /\ t2 = t
    BY <1>2, <1>3, <2>1
  <2> QED BY <1>5, <2>3, <2>4, <2>5
<1>11. CASE StartRecording
  <2>1. t2 = t /\ l2 = l /\ q2 = q /\ c2 = c /\ r2 = r
    <3>1. UNCHANGED <<bytes, queue, carried, captured, dropped>>
      BY <1>11 DEF StartRecording, kernel, history, totals
    <3> QED BY <1>2, <1>3, <3>1
  <2>2. s = 0
    BY <1>2, <1>11 DEF StartRecording, LoopInv
  <2>3. EndsOf(e, <<>>) = 0 /\ <<>> \in Seq(Entry)
    BY EndsOfNone, EmptySeq
  <2>4. s2 + d2 = d
    <3>1. CASE eventDriven
      <4>1. Fold(active, destroyed) /\ destroyed' = <<>>
        BY <1>11, <3>1 DEF StartRecording, Drain
      <4>2. sums'[e].ends = EndsOf(e, destroyed)
        BY <1>1, <4>1, FoldEffect
      <4> QED BY <1>2, <1>3, <2>3, <4>1, <4>2
    <3>2. CASE ~eventDriven
      <4>1. Fold(bytes, <<>>) /\ UNCHANGED destroyed
        BY <1>11, <3>2 DEF StartRecording
      <4>2. sums'[e].ends = 0
        BY <1>1, <2>3, <4>1, FoldEffect
      <4> QED BY <1>2, <1>3, <4>1, <4>2
    <3> QED BY <3>1, <3>2
  <2> QED BY <1>5, <2>1, <2>2, <2>4
<1>12. CASE PausedCycle
  <2>1. /\ destroyed' = <<>> /\ Drop(destroyed)
        /\ UNCHANGED <<bytes, queue, sums, carried, captured>>
    BY <1>12 DEF PausedCycle, kernel, loop
  <2>2. d2 = 0 /\ l2 = l /\ q2 = q /\ s2 = s /\ c2 = c /\ t2 = t
    BY <1>2, <1>3, <2>1, EndsOfNone
  <2>3. r2 = r + d
    BY <1>1, <1>2, <1>3, <2>1, DropEffect
  <2> QED BY <1>5, <2>2, <2>3
<1>13. ASSUME NEW k \in Edges, RecordEdge(k)
       PROVE  s2 + c2 = s + c /\ l2 = l /\ q2 = q /\ d2 = d /\ r2 = r /\ t2 = t
  <2>1. UNCHANGED <<bytes, queue, destroyed, carried, dropped>>
    BY <1>13 DEF RecordEdge, kernel, buffers
  <2>2. /\ sums' = [sums EXCEPT ![k] = NoSums[k]] /\ NoSums[k].ends = 0
        /\ captured' = [captured EXCEPT ![k] = captured[k] + sums[k].ends]
    BY <1>13 DEF RecordEdge, NoSums
  <2>3. /\ sums'[e] = IF k = e THEN NoSums[k] ELSE sums[e]
        /\ captured'[e] = IF k = e THEN captured[k] + sums[k].ends ELSE captured[e]
    BY <2>2 DEF TypeOK
  <2>4. s2 + c2 = s + c
    BY <1>2, <1>3, <2>2, <2>3
  <2> QED BY <1>2, <1>3, <2>1, <2>4
<1>14. CASE Restart
  <2>1. /\ UNCHANGED <<bytes, carried, captured>> /\ queue' = <<>> /\ destroyed' = <<>>
        /\ sums' = NoSums
        /\ dropped' = [x \in Edges |-> dropped[x] + EndsOf(x, queue) + EndsOf(x, destroyed)
                                         + sums[x].ends]
    BY <1>14 DEF Restart
  <2>2. l2 = l /\ q2 = 0 /\ d2 = 0 /\ s2 = 0 /\ c2 = c /\ t2 = t
    BY <1>2, <1>3, <2>1, EndsOfNone DEF NoSums
  <2>3. r2 = r + q + d + s
    BY <1>2, <1>3, <2>1
  <2> QED BY <1>5, <2>2, <2>3
<1>15. CASE OpenSocket \/ EndCycle \/ UNCHANGED vars
  <2>1. UNCHANGED <<bytes, queue, destroyed, sums, carried, captured, dropped>>
    BY <1>15 DEF OpenSocket, EndCycle, vars, kernel, buffers, loop, history, totals
  <2> QED BY <1>2, <1>3, <1>5, <2>1
<1>16. ASSUME NEW f \in Flows,
              KernelNew(f) \/ KernelCount(f) \/ KernelUpdate(f) \/ KernelDestroy(f)
       PROVE  t2 = l2 + q2 + d2 + s2 + c2 + r2
  BY <1>5, <1>6, <1>7, <1>8, <1>9, <1>16
<1>17. ASSUME NEW k \in Edges, RecordEdge(k)
       PROVE  t2 = l2 + q2 + d2 + s2 + c2 + r2
  BY <1>5, <1>13, <1>17
<1> QED BY <1>10, <1>11, <1>12, <1>14, <1>15, <1>16, <1>17 DEF Next

------------------------------------------------------------------------------
(* The thread follows the kernel.                                           *)

(* An event that is announced, lost or not.                                 *)
LEMMA EmitFollows ==
  ASSUME TypeOK, ListenerFollows, NEW f \in Flows, NEW event \in {"LIVE", "DESTROY"},
         NEW count \in Nat, Emit(f, event, count), UNCHANGED active
  PROVE  ListenerFollows'
<1>1. PICK x \in Entry : x = [flow |-> f, event |-> event, bytes |-> count]
  BY DEF Entry
<1>2. PICK n \in Nat : n = Len(queue) /\ DOMAIN queue = 1..n /\ queue \in Seq(Entry)
  BY LenProperties DEF TypeOK
<1>3. reported \in [Flows -> Counter]
  BY DEF TypeOK
<1>4. CASE UNCHANGED <<queue, reported, blurred>>
  BY <1>4 DEF ListenerFollows, LastWord, FlowsIn
<1>5. CASE /\ reported' = [reported EXCEPT ![f] = IF event = "DESTROY" THEN None ELSE count]
           /\ queue' = Append(queue, x) /\ blurred' = blurred \ {f}
  <2>1. /\ DOMAIN queue' = 1..(n + 1) /\ queue'[n + 1] = x
        /\ \A i \in 1..n : queue'[i] = queue[i]
    BY <1>2, <1>5, AppendProperties, LenProperties
  <2>2. reported'[f] = Says(x) /\ \A g \in Flows \ {f} : reported'[g] = reported[g]
    BY <1>1, <1>3, <1>5 DEF Says
  <2>3. ASSUME NEW g \in Flows \ blurred', g # f
        PROVE  /\ g \notin FlowsIn(queue') => active'[g] = reported'[g]
               /\ \A i \in DOMAIN queue' :
                    queue'[i].flow = g /\ LastWord(i)' => Says(queue'[i]) = reported'[g]
    <3>1. /\ g \notin FlowsIn(queue) => active[g] = reported[g]
          /\ \A i \in 1..n : queue[i].flow = g /\ LastWord(i) => Says(queue[i]) = reported[g]
      BY <1>2, <1>5, <2>3 DEF ListenerFollows
    <3>2. g \in FlowsIn(queue) => g \in FlowsIn(queue')
      BY <1>2, <2>1 DEF FlowsIn
    <3>3. \A i \in 1..n : LastWord(i)' => LastWord(i)
      BY <1>2, <2>1 DEF LastWord
    <3>4. \A i \in 1..(n + 1) : queue'[i].flow = g => i \in 1..n
      BY <1>1, <2>1, <2>3
    <3> QED BY <2>1, <2>2, <2>3, <3>1, <3>2, <3>3, <3>4
  <2>4. /\ f \in FlowsIn(queue')
        /\ \A i \in DOMAIN queue' :
             queue'[i].flow = f /\ LastWord(i)' => Says(queue'[i]) = reported'[f]
    <3>1. n + 1 \in 1..(n + 1) /\ queue'[n + 1].flow = f
      BY <1>1, <2>1
    <3>2. \A i \in 1..(n + 1) : queue'[i].flow = f /\ LastWord(i)' => i = n + 1
      BY <2>1, <3>1 DEF LastWord
    <3> QED BY <2>1, <2>2, <3>1, <3>2 DEF FlowsIn
  <2> QED BY <2>3, <2>4 DEF ListenerFollows
<1>6. CASE /\ reported' = [reported EXCEPT ![f] = IF event = "DESTROY" THEN None ELSE count]
           /\ UNCHANGED queue /\ blurred' = blurred \cup {f}
  <2>1. \A g \in Flows \ {f} : reported'[g] = reported[g]
    BY <1>3, <1>6
  <2> QED BY <1>6, <2>1 DEF ListenerFollows, LastWord, FlowsIn
<1> QED BY <1>1, <1>4, <1>5, <1>6 DEF Emit

(* An event that the thread takes from the buffer.                          *)
LEMMA ReceiveFollows ==
  ASSUME TypeOK, ListenerFollows, Receive
  PROVE  ListenerFollows'
<1>1. PICK n \in Nat : n = Len(queue) /\ DOMAIN queue = 1..n /\ queue \in Seq(Entry)
  BY LenProperties DEF TypeOK
<1>2. PICK x \in Entry : x = Head(queue) /\ x = queue[1] /\ n >= 1
  <2>1. queue # <<>>
    BY DEF Receive
  <2>2. Head(queue) \in Entry /\ n \in Nat \ {0}
    BY <1>1, <2>1, HeadTailProperties, EmptySeq
  <2>3. Head(queue) = queue[1]
    BY <1>1, <2>1
  <2> QED BY <2>2, <2>3
<1>3. x.flow \in Flows /\ x.bytes \in Nat /\ x.bytes # None
  BY EntryType
<1>4. /\ UNCHANGED reported /\ queue' = Tail(queue) /\ RecordEntry(x)
      /\ active \in [Flows -> Counter]
  BY <1>2 DEF Receive, TypeOK
<1>5. DOMAIN queue' = 1..(n - 1) /\ \A i \in 1..(n - 1) : queue'[i] = queue[i + 1]
  <2>1. queue # <<>>
    BY DEF Receive
  <2>2. /\ Tail(queue) \in Seq(Entry) /\ Len(Tail(queue)) = n - 1
        /\ \A i \in 1..(n - 1) : Tail(queue)[i] = queue[i + 1]
    BY <1>1, <2>1, HeadTailProperties
  <2> QED BY <1>4, <2>2, LenProperties
<1>6. blurred \subseteq blurred'
  BY <1>4 DEF RecordEntry
<1> SUFFICES ASSUME NEW g \in Flows \ blurred'
             PROVE  /\ g \notin FlowsIn(queue') => active'[g] = reported[g]
                    /\ \A i \in 1..(n - 1) :
                         queue'[i].flow = g /\ LastWord(i)' => Says(queue'[i]) = reported[g]
  BY <1>4, <1>5 DEF ListenerFollows
<1>7. /\ g \notin FlowsIn(queue) => active[g] = reported[g]
      /\ \A i \in 1..n : queue[i].flow = g /\ LastWord(i) => Says(queue[i]) = reported[g]
  BY <1>1, <1>6 DEF ListenerFollows
<1>8. ASSUME NEW i \in 1..(n - 1), queue'[i].flow = g, LastWord(i)'
      PROVE  Says(queue'[i]) = reported[g]
  <2>1. i + 1 \in 1..n /\ queue[i + 1].flow = g /\ queue'[i] = queue[i + 1]
    BY <1>5, <1>8
  <2>2. ASSUME NEW j \in 1..n, j > i + 1
        PROVE  queue[j].flow # queue[i + 1].flow
    <3>1. j - 1 \in 1..(n - 1) /\ j - 1 > i /\ (j - 1) + 1 = j
      BY <2>2
    <3>2. queue'[j - 1] = queue[j]
      BY <1>5, <3>1
    <3>3. queue'[j - 1].flow # queue'[i].flow
      BY <1>5, <1>8, <3>1 DEF LastWord
    <3> QED BY <2>1, <3>2, <3>3
  <2>3. LastWord(i + 1)
    BY <1>1, <2>2 DEF LastWord
  <2> QED BY <1>7, <2>1, <2>3
<1>9. ASSUME g \notin FlowsIn(queue')
      PROVE  active'[g] = reported[g]
  <2>1. \A i \in 1..n : i # 1 => queue[i].flow # g
    <3> SUFFICES ASSUME NEW i \in 1..n, i # 1 PROVE queue[i].flow # g
      OBVIOUS
    <3>1. i - 1 \in 1..(n - 1) /\ (i - 1) + 1 = i
      OBVIOUS
    <3>2. queue'[i - 1] = queue[i]
      BY <1>5, <3>1
    <3> QED BY <1>5, <1>9, <3>1, <3>2 DEF FlowsIn
  <2>2. CASE x.flow = g
    <3>1. 1 \in 1..n /\ LastWord(1)
      BY <1>1, <1>2, <2>1, <2>2 DEF LastWord
    <3>2. Says(x) = reported[g]
      BY <1>2, <1>7, <2>2, <3>1
    <3>3. g \in Held([active EXCEPT ![x.flow] = x.bytes])
      BY <1>3, <1>4, <2>2 DEF Held
    <3>4. active'[g] = Says(x)
      <4>1. CASE x.event = "DESTROY"
        BY <1>3, <1>4, <2>2, <4>1 DEF RecordEntry, Says
      <4>2. CASE x.event # "DESTROY"
        <5>1. active' = [active EXCEPT ![x.flow] = x.bytes]
          BY <1>4, <1>9, <3>3, <4>2 DEF RecordEntry
        <5> QED BY <1>3, <1>4, <2>2, <4>2, <5>1 DEF Says
      <4> QED BY <4>1, <4>2
    <3> QED BY <3>2, <3>4
  <2>3. CASE x.flow # g
    <3>1. g \notin FlowsIn(queue)
      BY <1>1, <1>2, <2>1, <2>3 DEF FlowsIn
    <3>2. active[g] = reported[g]
      BY <1>7, <3>1
    <3>3. active'[g] = active[g]
      <4>1. CASE x.event = "DESTROY"
        BY <1>3, <1>4, <2>3, <4>1 DEF RecordEntry
      <4>2. CASE x.event # "DESTROY" /\ active' = [active EXCEPT ![x.flow] = x.bytes]
        BY <1>3, <1>4, <2>3, <4>2
      <4>3. CASE /\ x.event # "DESTROY" /\ active' = Nothing
                 /\ blurred' = blurred \cup
                      (Held([active EXCEPT ![x.flow] = x.bytes]) \ FlowsIn(Tail(queue)))
        <5>1. g \notin Held([active EXCEPT ![x.flow] = x.bytes])
          BY <1>4, <1>9, <4>3
        <5>2. active[g] = None
          BY <1>3, <1>4, <2>3, <5>1 DEF Held
        <5> QED BY <4>3, <5>2 DEF Nothing
      <4> QED BY <1>4, <4>1, <4>2, <4>3 DEF RecordEntry
    <3> QED BY <3>2, <3>3
  <2> QED BY <2>2, <2>3
<1> QED BY <1>8, <1>9

LEMMA NextFollows ==
  ASSUME TypeOK, ListenerFollows, [Next]_vars
  PROVE  ListenerFollows'
<1>1. ASSUME NEW f \in Flows, KernelNew(f) PROVE ListenerFollows'
  <2>1. Emit(f, "LIVE", 0) /\ UNCHANGED active
    BY <1>1 DEF KernelNew, buffers
  <2> QED BY <2>1, EmitFollows
<1>2. ASSUME NEW f \in Flows, KernelUpdate(f) PROVE ListenerFollows'
  <2>1. bytes[f] \in Nat /\ Emit(f, "LIVE", bytes[f]) /\ UNCHANGED active
    BY <1>2 DEF KernelUpdate, Tracked, TypeOK, Counter, buffers
  <2> QED BY <2>1, EmitFollows
<1>3. ASSUME NEW f \in Flows, KernelDestroy(f) PROVE ListenerFollows'
  <2>1. bytes[f] \in Nat /\ Emit(f, "DESTROY", bytes[f]) /\ UNCHANGED active
    BY <1>3 DEF KernelDestroy, Tracked, TypeOK, Counter, buffers
  <2> QED BY <2>1, EmitFollows
<1>4. CASE Restart
  <2>1. queue' = <<>> /\ active' = Nothing /\ reported' = Nothing
    BY <1>4 DEF Restart
  <2> QED BY <2>1 DEF ListenerFollows
<1>5. CASE UNCHANGED <<queue, active, reported, blurred>>
  BY <1>5 DEF ListenerFollows, LastWord, FlowsIn
<1>6. ASSUME NEW f \in Flows, KernelCount(f) PROVE UNCHANGED <<queue, active, reported, blurred>>
  BY <1>6 DEF KernelCount, buffers
<1>7. ASSUME NEW e \in Edges, RecordEdge(e) PROVE UNCHANGED <<queue, active, reported, blurred>>
  BY <1>7 DEF RecordEdge, kernel, buffers
<1>8. CASE OpenSocket \/ StartRecording \/ PausedCycle \/ EndCycle \/ UNCHANGED vars
  <2>1. UNCHANGED <<queue, active, reported, blurred>>
    BY <1>8 DEF OpenSocket, StartRecording, PausedCycle, EndCycle, vars, kernel, buffers, history
  <2> QED BY <1>5, <2>1
<1> QED BY <1>1, <1>2, <1>3, <1>4, <1>5, <1>6, <1>7, <1>8, ReceiveFollows DEF Next

------------------------------------------------------------------------------
(* The theorems.                                                            *)

LEMMA Step == IInv /\ [Next]_vars => IInv'
BY NextTypes, NextLoop, NextTraffic, NextFollows DEF IInv

LEMMA Invariant == Spec => []IInv
BY Start, Step, PTL DEF Spec

(* Type correctness: the thread's tables never outgrow their bounds         *)
(* (_record, "Bound memory under a flood"), whatever the kernel announces.  *)
THEOREM TypeCorrect == Spec => []TypeOK
<1>1. IInv => TypeOK
  BY DEF IInv
<1> QED BY <1>1, Invariant, PTL

(* ConntrackEventListener keeps "the latest counters for each active flow": *)
(* what it will believe of a flow is what the kernel last announced, unless *)
(* an event or an entry of that flow was thrown away since.                 *)
THEOREM Follows == Spec => []ListenerFollows
<1>1. IInv => ListenerFollows
  BY DEF IInv
<1> QED BY <1>1, Invariant, PTL

(* Every unit an edge carried is on an open connection, in one of the       *)
(* buffers between the kernel and the loop, recorded, or dropped where the  *)
(* code drops: no step of kernel, thread and loop, in any order, loses or   *)
(* repeats an ended flow.                                                   *)
THEOREM NothingLost == Spec => []TrafficConserved
<1>1. IInv => TrafficConserved
  BY DEF IInv
<1> QED BY <1>1, Invariant, PTL

==============================================================================
