---------------------------- MODULE LruOrderFacts ----------------------------
(***************************************************************************)
(* What the operators of LruOrder return, for sequences of any length.     *)
(*                                                                         *)
(* The library's induction theorems are over an operator; here induction   *)
(* is over the set of numbers of which a claim holds.                      *)
(***************************************************************************)
EXTENDS LruOrder, Totals, Integers, FiniteSetTheorems, SequenceTheorems, WellFoundedInduction, TLAPS

\* The order of the naturals as a relation.
Less == {p \in Nat \X Nat : p[1] < p[2]}

\* It is well founded.
LEMMA LessWellFounded == IsWellFoundedOn(Less, Nat)
<1>1. OpToRel(<, Nat) = Less
  BY DEF OpToRel, Less
<1> QED
  BY <1>1, NatLessThanWellFounded

\* A set of naturals that is not empty has a least element.
LEMMA LeastExists ==
    ASSUME NEW I \in SUBSET Nat, I # {}
    PROVE  \E i \in I : \A j \in I : i <= j
<1>1. PICK i \in I : \A j \in I : ~(<<j, i>> \in Less)
  BY LessWellFounded, WFMin
<1>2. ASSUME NEW j \in I PROVE i <= j
  <2>1. i \in Nat /\ j \in Nat /\ ~(<<j, i>> \in Less)
    BY <1>1
  <2> QED
    BY <2>1 DEF Less
<1> QED
  BY <1>2

\* A set that has 0, and with a natural its successor, has them all.
LEMMA SetInduction ==
    ASSUME NEW T, 0 \in T, \A n \in Nat : n \in T => n + 1 \in T
    PROVE  Nat \subseteq T
<1> SUFFICES ASSUME Nat \ T # {} PROVE FALSE
  OBVIOUS
<1>1. PICK x \in Nat \ T : \A y \in Nat \ T : x <= y
  BY LeastExists
<1>2. x - 1 \in Nat /\ x - 1 \notin Nat \ T
  BY <1>1
<1> QED
  BY <1>1, <1>2

----------------------------------------------------------------------------
(* The nth element of a set                                                *)

\* How many elements of I are no greater than i.
Rank(I, i) == Cardinality({j \in I : j <= i})

\* The greater of two elements has the greater rank, and ranks count from 1.
LEMMA RankMonotone ==
    ASSUME NEW I \in SUBSET Nat, IsFiniteSet(I), NEW a \in I, NEW b \in I, a < b
    PROVE  Rank(I, a) \in Nat /\ Rank(I, b) \in Nat /\ Rank(I, a) < Rank(I, b)
<1> DEFINE A == {j \in I : j <= a}
           B == {j \in I : j <= b}
<1>1. IsFiniteSet(B) /\ A \subseteq B /\ A # B
  <2>1. IsFiniteSet(B)
    BY FS_Subset
  <2>2. a \in Nat /\ b \in Nat /\ \A j \in I : j \in Nat
    OBVIOUS
  <2>3. A \subseteq B
    <3>1. ASSUME NEW j \in I, j <= a PROVE j <= b
      BY <2>2, <3>1
    <3> QED
      BY <3>1
  <2>4. b \in B /\ b \notin A
    <3>1. b <= b /\ ~(b <= a)
      BY <2>2
    <3> QED
      BY <3>1
  <2> QED
    BY <2>1, <2>3, <2>4
<1> HIDE DEF A, B
<1>2. Cardinality(A) \in Nat /\ Cardinality(B) \in Nat /\ Cardinality(A) < Cardinality(B)
  BY <1>1, FS_Subset, FS_CardinalityType
<1> QED
  BY <1>2 DEF A, B, Rank

\* A rank is at least 1 and at most the size of the set.
LEMMA RankInRange ==
    ASSUME NEW I \in SUBSET Nat, IsFiniteSet(I), NEW i \in I
    PROVE  Cardinality(I) \in Nat /\ Rank(I, i) \in 1..Cardinality(I)
<1> DEFINE A == {j \in I : j <= i}
<1>1. IsFiniteSet(A) /\ A \subseteq I /\ i \in A
  BY FS_Subset
<1> HIDE DEF A
<1>2. /\ Cardinality(I) \in Nat /\ Cardinality(A) \in Nat
      /\ Cardinality(A) <= Cardinality(I) /\ Cardinality(A) # 0
  BY <1>1, FS_Subset, FS_CardinalityType, FS_EmptySet
<1> QED
  BY <1>2 DEF A, Rank

\* Every number up to the size of the set is the rank of an element.
LEMMA RankSurjective ==
    ASSUME NEW I \in SUBSET Nat, IsFiniteSet(I), NEW n \in 1..Cardinality(I)
    PROVE  \E i \in I : Rank(I, i) = n
<1> DEFINE T == {m \in Nat : m \in 1..Cardinality(I) => \E i \in I : Rank(I, i) = m}
<1>0. Cardinality(I) \in Nat
  BY FS_CardinalityType
<1>1. 0 \in T
  OBVIOUS
<1>2. ASSUME NEW m \in Nat, m \in T PROVE m + 1 \in T
  <2> SUFFICES ASSUME m + 1 \in 1..Cardinality(I)
               PROVE  \E i \in I : Rank(I, i) = m + 1
    OBVIOUS
  <2>1. PICK A \in SUBSET I : /\ Cardinality(A) = m
                              /\ \A a \in A, j \in I : j <= a => j \in A
    <3>1. CASE m = 0
      BY <3>1, FS_EmptySet
    <3>2. CASE m # 0
      <4>1. PICK a \in I : Rank(I, a) = m
        BY <1>0, <1>2, <3>2
      <4> QED
        BY <4>1 DEF Rank
    <3> QED
      BY <3>1, <3>2
  <2>2. I \ A \in SUBSET Nat /\ I \ A # {}
    <3>1. A # I
      BY <1>0, <2>1
    <3> QED
      BY <3>1
  <2>3. PICK i \in I \ A : \A j \in I \ A : i <= j
    BY <2>2, LeastExists
  <2>4. {j \in I : j <= i} = A \cup {i}
    <3>1. ASSUME NEW j \in I PROVE j <= i <=> j \in A \cup {i}
      <4>1. j \in Nat /\ i \in Nat
        OBVIOUS
      <4>2. CASE j \in A
        <5>1. ~(i <= j)
          BY <2>1, <2>3, <4>2
        <5> QED
          BY <4>1, <4>2, <5>1
      <4>3. CASE j \notin A
        BY <2>3, <4>1, <4>3
      <4> QED
        BY <4>2, <4>3
    <3> QED
      BY <3>1
  <2>5. Cardinality(A \cup {i}) = m + 1
    BY <2>1, <2>3, FS_Subset, FS_AddElement
  <2> QED
    BY <2>3, <2>4, <2>5 DEF Rank
<1> HIDE DEF T
<1>3. Nat \subseteq T
  BY <1>1, <1>2, SetInduction
<1> QED
  BY <1>0, <1>3 DEF T

\* The nth element is in the set, and its rank is n.
LEMMA NthProperties ==
    ASSUME NEW I \in SUBSET Nat, IsFiniteSet(I), NEW n \in 1..Cardinality(I)
    PROVE  Nth(I, n) \in I /\ Rank(I, Nth(I, n)) = n
BY RankSurjective DEF Nth, Rank

\* The nth element of a set for n its rank is the element itself.
LEMMA NthOfRank ==
    ASSUME NEW I \in SUBSET Nat, IsFiniteSet(I), NEW i \in I
    PROVE  Rank(I, i) \in 1..Cardinality(I) /\ Nth(I, Rank(I, i)) = i
<1>1. Rank(I, i) \in 1..Cardinality(I)
  BY RankInRange
<1> DEFINE k == Nth(I, Rank(I, i))
<1>2. k \in I /\ Rank(I, k) = Rank(I, i)
  BY <1>1, NthProperties
<1> HIDE DEF k
<1>3. ~(k < i) /\ ~(i < k)
  BY <1>2, RankMonotone
<1>4. k = i
  BY <1>2, <1>3
<1> QED
  BY <1>1, <1>4 DEF k

----------------------------------------------------------------------------
(* What is kept of a sequence                                              *)

\* The indices of a sequence are a finite set of naturals.
LEMMA IndicesOfSeq ==
    ASSUME NEW S, NEW s \in Seq(S), NEW I \in SUBSET (DOMAIN s)
    PROVE  /\ I \in SUBSET Nat /\ IsFiniteSet(I)
           /\ Cardinality(I) \in Nat /\ Cardinality(I) <= Len(s)
           /\ I # DOMAIN s => Cardinality(I) < Len(s)
<1>1. DOMAIN s = 1..Len(s) /\ Len(s) \in Nat
  OBVIOUS
<1>2. \A n \in Nat : IsFiniteSet(1..n) /\ Cardinality(1..n) = n
  BY FS_Interval
<1>3. IsFiniteSet(DOMAIN s) /\ Cardinality(DOMAIN s) = Len(s)
  BY <1>1, <1>2
<1> QED
  BY <1>1, <1>3, FS_Subset, FS_CardinalityType

\* Keep(s, I) has an element for each index in I, that element of s.
LEMMA KeepProperties ==
    ASSUME NEW S, NEW s \in Seq(S), NEW I \in SUBSET (DOMAIN s)
    PROVE  /\ Keep(s, I) \in Seq(S)
           /\ Len(Keep(s, I)) = Cardinality(I)
           /\ DOMAIN Keep(s, I) = 1..Cardinality(I)
           /\ \A k \in 1..Cardinality(I) : Keep(s, I)[k] = s[Nth(I, k)] /\ Nth(I, k) \in I
<1>1. I \in SUBSET Nat /\ IsFiniteSet(I) /\ Cardinality(I) \in Nat
  BY IndicesOfSeq
<1>2. \A k \in 1..Cardinality(I) : Nth(I, k) \in I
  BY <1>1, NthProperties
<1>3. Keep(s, I) \in [1..Cardinality(I) -> S]
  BY <1>2 DEF Keep
<1> QED
  BY <1>1, <1>2, <1>3 DEF Keep

\* Its elements are those of s at the indices in I.
LEMMA KeepElements ==
    ASSUME NEW S, NEW s \in Seq(S), NEW I \in SUBSET (DOMAIN s)
    PROVE  Range(Keep(s, I)) = {s[i] : i \in I}
<1>1. I \in SUBSET Nat /\ IsFiniteSet(I)
  BY IndicesOfSeq
<1>2. ASSUME NEW i \in I
      PROVE  \E k \in 1..Cardinality(I) : Nth(I, k) = i
  BY <1>1, NthOfRank
<1> QED
  BY <1>2, KeepProperties DEF Range

\* A sequence without repetitions has none in what is kept of it.
LEMMA KeepInjective ==
    ASSUME NEW S, NEW s \in Seq(S), NEW I \in SUBSET (DOMAIN s),
           IsInjective(s)
    PROVE  IsInjective(Keep(s, I))
<1>1. I \in SUBSET Nat /\ IsFiniteSet(I)
  BY IndicesOfSeq
<1> SUFFICES ASSUME NEW k \in 1..Cardinality(I), NEW l \in 1..Cardinality(I),
                    s[Nth(I, k)] = s[Nth(I, l)]
             PROVE  k = l
  BY KeepProperties DEF IsInjective
<1>2. Nth(I, k) = Nth(I, l)
  BY KeepProperties DEF IsInjective
<1> QED
  BY <1>1, <1>2, NthProperties

\* A sequence without repetitions has as many elements as indices.
LEMMA ImageSize ==
    ASSUME NEW S, NEW s \in Seq(S), IsInjective(s), NEW I \in SUBSET (DOMAIN s)
    PROVE  /\ IsFiniteSet({s[i] : i \in I})
           /\ Cardinality({s[i] : i \in I}) = Cardinality(I)
<1> DEFINE T == {s[i] : i \in I}
           f == [i \in I |-> s[i]]
<1>1. f \in Bijection(I, T)
  BY DEF IsInjective, Bijection, Injection, Surjection
<1>2. IsFiniteSet(I) /\ ExistsBijection(I, T)
  BY <1>1, IndicesOfSeq DEF ExistsBijection
<1> HIDE DEF T
<1>3. IsFiniteSet(T) /\ Cardinality(T) = Cardinality(I)
  BY <1>2, FS_Bijection
<1> QED
  BY <1>3 DEF T

\* Its length is the number of its elements.
LEMMA RangeSize ==
    ASSUME NEW S, NEW s \in Seq(S), IsInjective(s)
    PROVE  IsFiniteSet(Range(s)) /\ Cardinality(Range(s)) = Len(s)
<1>1. DOMAIN s = 1..Len(s) /\ Len(s) \in Nat /\ Range(s) = {s[i] : i \in DOMAIN s}
  BY DEF Range
<1>2. \A n \in Nat : Cardinality(1..n) = n
  BY FS_Interval
<1>3. IsFiniteSet(Range(s)) /\ Cardinality(Range(s)) = Cardinality(DOMAIN s)
  <2>1. DOMAIN s \in SUBSET (DOMAIN s)
    OBVIOUS
  <2>2. /\ IsFiniteSet({s[i] : i \in DOMAIN s})
        /\ Cardinality({s[i] : i \in DOMAIN s}) = Cardinality(DOMAIN s)
    BY <2>1, ImageSize
  <2> QED
    BY <2>2 DEF Range
<1> QED
  BY <1>1, <1>2, <1>3

\* Two sequences without repetitions or common elements have none together.
LEMMA ConcatInjective ==
    ASSUME NEW S, NEW a \in Seq(S), NEW b \in Seq(S),
           IsInjective(a), IsInjective(b), Range(a) \cap Range(b) = {}
    PROVE  /\ a \o b \in Seq(S)
           /\ IsInjective(a \o b)
           /\ Range(a \o b) = Range(a) \cup Range(b)
<1>1. /\ a \o b \in Seq(S) /\ DOMAIN (a \o b) = 1..(Len(a) + Len(b))
      /\ \A i \in 1..(Len(a) + Len(b)) :
            (a \o b)[i] = IF i <= Len(a) THEN a[i] ELSE b[i - Len(a)]
  OBVIOUS
<1>2. IsInjective(a \o b)
  <2> SUFFICES ASSUME NEW i \in 1..(Len(a) + Len(b)), NEW j \in 1..(Len(a) + Len(b)),
                      (a \o b)[i] = (a \o b)[j]
               PROVE  i = j
    BY <1>1 DEF IsInjective
  <2>1. CASE i <= Len(a) /\ j <= Len(a)
    BY <1>1, <2>1 DEF IsInjective
  <2>2. CASE ~(i <= Len(a)) /\ ~(j <= Len(a))
    <3>1. i - Len(a) \in DOMAIN b /\ j - Len(a) \in DOMAIN b
      BY <2>2
    <3>2. i - Len(a) = j - Len(a)
      BY <1>1, <2>2, <3>1 DEF IsInjective
    <3> QED
      BY <3>2
  <2>3. CASE i <= Len(a) /\ ~(j <= Len(a))
    <3>1. i \in DOMAIN a /\ j - Len(a) \in DOMAIN b /\ a[i] = b[j - Len(a)]
      BY <1>1, <2>3
    <3> QED
      BY <3>1 DEF Range
  <2>4. CASE ~(i <= Len(a)) /\ j <= Len(a)
    <3>1. j \in DOMAIN a /\ i - Len(a) \in DOMAIN b /\ a[j] = b[i - Len(a)]
      BY <1>1, <2>4
    <3> QED
      BY <3>1 DEF Range
  <2> QED
    BY <2>1, <2>2, <2>3, <2>4
<1>3. Range(a \o b) = Range(a) \cup Range(b)
  BY RangeConcatenation
<1> QED
  BY <1>1, <1>2, <1>3

\* Without(s, e) has the elements of s other than e, and is shorter if s had it.
LEMMA WithoutProperties ==
    ASSUME NEW S, NEW s \in Seq(S), NEW e
    PROVE  /\ Without(s, e) \in Seq(S)
           /\ Len(Without(s, e)) <= Len(s)
           /\ e \in Range(s) => Len(Without(s, e)) < Len(s)
           /\ Range(Without(s, e)) = Range(s) \ {e}
<1> DEFINE I == {i \in DOMAIN s : s[i] # e}
<1>1. I \in SUBSET (DOMAIN s) /\ Without(s, e) = Keep(s, I)
  BY DEF Without
<1>2. e \in Range(s) => I # DOMAIN s
  BY DEF Range
<1>3. {s[i] : i \in I} = Range(s) \ {e}
  BY DEF Range
<1> HIDE DEF I
<1>4. /\ Keep(s, I) \in Seq(S) /\ Len(Keep(s, I)) <= Len(s)
      /\ I # DOMAIN s => Len(Keep(s, I)) < Len(s)
  BY <1>1, KeepProperties, IndicesOfSeq
<1>5. Range(Keep(s, I)) = Range(s) \ {e}
  BY <1>1, <1>3, KeepElements
<1> QED
  BY <1>1, <1>2, <1>4, <1>5

\* MoveToEnd(s, e) has the elements of s and e, and is no longer than s if s had
\* it already.
LEMMA MoveToEndProperties ==
    ASSUME NEW S, NEW s \in Seq(S), NEW e \in S
    PROVE  /\ MoveToEnd(s, e) \in Seq(S)
           /\ Len(MoveToEnd(s, e)) <= Len(s) + 1
           /\ e \in Range(s) => Len(MoveToEnd(s, e)) <= Len(s)
           /\ Range(MoveToEnd(s, e)) = Range(s) \cup {e}
<1>1. PICK r \in Seq(S) : r = Without(s, e)
  BY WithoutProperties
<1>2. /\ Len(r) <= Len(s)
      /\ e \in Range(s) => Len(r) < Len(s)
      /\ Range(r) = Range(s) \ {e}
  BY <1>1, WithoutProperties
<1>3. /\ Append(r, e) \in Seq(S) /\ Len(Append(r, e)) = Len(r) + 1
      /\ DOMAIN Append(r, e) = DOMAIN r \cup {Len(r) + 1}
      /\ \A k \in DOMAIN r : Append(r, e)[k] = r[k]
      /\ Append(r, e)[Len(r) + 1] = e
  OBVIOUS
<1>4. Range(Append(r, e)) = Range(r) \cup {e}
  BY <1>3 DEF Range
<1> QED
  BY <1>1, <1>2, <1>3, <1>4 DEF MoveToEnd

\* MoveToEnd(s, e) repeats nothing if s does not.
LEMMA MoveToEndInjective ==
    ASSUME NEW S, NEW s \in Seq(S), NEW e \in S, IsInjective(s)
    PROVE  IsInjective(MoveToEnd(s, e))
<1> DEFINE I == {i \in DOMAIN s : s[i] # e}
<1>0. I \in SUBSET (DOMAIN s) /\ Without(s, e) = Keep(s, I)
  BY DEF Without
<1>1. PICK r \in Seq(S) : r = Keep(s, I)
  BY KeepProperties
<1>2. IsInjective(r)
  <2> HIDE DEF I
  <2> QED
    BY <1>0, <1>1, KeepInjective
<1>3. e \notin Range(r)
  <2>1. r = Without(s, e)
    BY <1>0, <1>1
  <2> QED
    BY <2>1, WithoutProperties
<1>4. IsInjective(Append(r, e))
  BY <1>2, <1>3 DEF Range, IsInjective
<1> QED
  BY <1>0, <1>1, <1>4 DEF MoveToEnd

----------------------------------------------------------------------------
(* Sums                                                                    *)

\* How the sum of a sequence of numbers goes on, up to its first n.
TotalUpTo(numbers, n, f) ==
    f = [k \in 0..n |-> IF k = 0 THEN 0 ELSE f[k - 1] + numbers[k]]

\* Numbers have a sum, up to any of them.
LEMMA TotalExists ==
    ASSUME NEW g \in Seq(Nat), NEW n \in Nat, n <= Len(g)
    PROVE  \E f \in [0..n -> Nat] : TotalUpTo(g, n, f)
  <1> DEFINE T == {k \in Nat : k <= Len(g) => \E f \in [0..k -> Nat] : TotalUpTo(g, k, f)}
  <1>1. 0 \in T
    <2>1. [k \in 0..0 |-> 0] \in [0..0 -> Nat] /\ TotalUpTo(g, 0, [k \in 0..0 |-> 0])
      BY DEF TotalUpTo
    <2> QED
      BY <2>1
  <1>2. ASSUME NEW k \in Nat, k \in T PROVE k + 1 \in T
    <2> SUFFICES ASSUME k + 1 <= Len(g) PROVE \E f \in [0..(k + 1) -> Nat] : TotalUpTo(g, k + 1, f)
      OBVIOUS
    <2>1. k <= Len(g) /\ k + 1 \in DOMAIN g /\ g[k + 1] \in Nat
      OBVIOUS
    <2>2. PICK f \in [0..k -> Nat] : TotalUpTo(g, k, f)
      BY <1>2, <2>1
    <2>3. \A i \in 0..k : f[i] \in Nat /\ f[i] = IF i = 0 THEN 0 ELSE f[i - 1] + g[i]
      BY <2>2 DEF TotalUpTo
    <2> DEFINE h == [i \in 0..(k + 1) |-> IF i = k + 1 THEN f[k] + g[k + 1] ELSE f[i]]
    <2>4. \A i \in 0..k : i # k + 1 /\ i \in 0..(k + 1) /\ (i # 0 => i - 1 \in 0..k)
      OBVIOUS
    <2>5. \A i \in 0..(k + 1) : i \in 0..k \/ i = k + 1
      OBVIOUS
    <2>6. (\A i \in 0..k : h[i] = f[i]) /\ h[k + 1] = f[k] + g[k + 1]
      BY <2>4
    <2>7. h \in [0..(k + 1) -> Nat]
      BY <2>1, <2>3, <2>5
    <2>8. h = [i \in 0..(k + 1) |-> h[i]]
      OBVIOUS
    <2> HIDE DEF h
    <2>9. \A i \in 0..(k + 1) : h[i] = IF i = 0 THEN 0 ELSE h[i - 1] + g[i]
      <3>1. ASSUME NEW i \in 0..k PROVE h[i] = IF i = 0 THEN 0 ELSE h[i - 1] + g[i]
        BY <2>3, <2>4, <2>6
      <3>2. k + 1 # 0 /\ k + 1 - 1 = k /\ k \in 0..k
        OBVIOUS
      <3>3. h[k + 1] = h[k + 1 - 1] + g[k + 1]
        BY <2>6, <3>2
      <3> QED
        BY <2>5, <3>1, <3>2, <3>3
    <2>10. TotalUpTo(g, k + 1, h)
      BY <2>8, <2>9 DEF TotalUpTo
    <2> QED
      BY <2>7, <2>10
  <1> HIDE DEF T
  <1>3. Nat \subseteq T
    BY <1>1, <1>2, SetInduction
  <1> QED
    BY <1>3 DEF T

\* A number more adds itself to the sum.
LEMMA TotalGrows ==
    ASSUME NEW g \in Seq(Nat)
    PROVE  \E f \in [0..Len(g) -> Nat] :
              /\ f[0] = 0 /\ \A k \in 1..Len(g) : f[k] = f[k - 1] + g[k]
              /\ TotalOf(g) = f[Len(g)]
  <1> DEFINE upTo[n \in 0..Len(g)] == IF n = 0 THEN 0 ELSE upTo[n - 1] + g[n]
  <1>1. Len(g) \in Nat /\ TotalOf(g) = upTo[Len(g)]
    BY DEF TotalOf
  <1>2. PICK f \in [0..Len(g) -> Nat] : TotalUpTo(g, Len(g), f)
    BY <1>1, TotalExists
  <1>3. \E h : h = [n \in 0..Len(g) |-> IF n = 0 THEN 0 ELSE h[n - 1] + g[n]]
    BY <1>2 DEF TotalUpTo
  <1>4. upTo = [n \in 0..Len(g) |-> IF n = 0 THEN 0 ELSE upTo[n - 1] + g[n]]
    BY <1>3
  <1> HIDE DEF upTo
  <1>5. /\ f[0] = 0 /\ upTo[0] = 0
        /\ \A k \in 1..Len(g) : f[k] = f[k - 1] + g[k] /\ upTo[k] = upTo[k - 1] + g[k]
    <2>1. 0 \in 0..Len(g) /\ \A k \in 1..Len(g) : k \in 0..Len(g) /\ k # 0
      BY <1>1
    <2>2. \A k \in 0..Len(g) : /\ f[k] = IF k = 0 THEN 0 ELSE f[k - 1] + g[k]
                              /\ upTo[k] = IF k = 0 THEN 0 ELSE upTo[k - 1] + g[k]
      BY <1>2, <1>4 DEF TotalUpTo
    <2> QED
      BY <2>1, <2>2
  <1> DEFINE T == {n \in Nat : n <= Len(g) => upTo[n] = f[n]}
  <1>6. 0 \in T
    BY <1>5
  <1>7. ASSUME NEW n \in Nat, n \in T PROVE n + 1 \in T
    <2> SUFFICES ASSUME n + 1 <= Len(g) PROVE upTo[n + 1] = f[n + 1]
      OBVIOUS
    <2>1. n + 1 \in 1..Len(g) /\ n + 1 - 1 = n /\ upTo[n] = f[n]
      BY <1>1, <1>7
    <2> QED
      BY <1>5, <2>1
  <1> HIDE DEF T
  <1>8. Nat \subseteq T
    BY <1>6, <1>7, SetInduction
  <1>9. upTo[Len(g)] = f[Len(g)]
    BY <1>1, <1>8 DEF T
  <1> QED
    BY <1>1, <1>5, <1>9

\* Whatever starts at 0 and grows by each number is the sum in the end.
LEMMA TotalUnique ==
    ASSUME NEW g \in Seq(Nat), NEW h,
           h[0] = 0, \A k \in 1..Len(g) : h[k] = h[k - 1] + g[k]
    PROVE  TotalOf(g) = h[Len(g)] /\ TotalOf(g) \in Nat
  <1>1. PICK f \in [0..Len(g) -> Nat] :
              /\ f[0] = 0 /\ \A k \in 1..Len(g) : f[k] = f[k - 1] + g[k]
              /\ TotalOf(g) = f[Len(g)]
    BY TotalGrows
  <1>2. Len(g) \in Nat
    OBVIOUS
  <1> DEFINE T == {n \in Nat : n <= Len(g) => h[n] = f[n]}
  <1>3. 0 \in T
    BY <1>1
  <1>4. ASSUME NEW n \in Nat, n \in T PROVE n + 1 \in T
    <2> SUFFICES ASSUME n + 1 <= Len(g) PROVE h[n + 1] = f[n + 1]
      OBVIOUS
    <2>1. n + 1 \in 1..Len(g) /\ n + 1 - 1 = n /\ h[n] = f[n]
      BY <1>2, <1>4
    <2> QED
      BY <1>1, <2>1
  <1> HIDE DEF T
  <1>5. Nat \subseteq T
    BY <1>3, <1>4, SetInduction
  <1> QED
    BY <1>1, <1>2, <1>5 DEF T

\* A number that is added.
LEMMA TotalAppend ==
    ASSUME NEW g \in Seq(Nat), NEW x \in Nat
    PROVE  TotalOf(Append(g, x)) = TotalOf(g) + x /\ TotalOf(g) \in Nat
  <1>1. PICK f \in [0..Len(g) -> Nat] :
              /\ f[0] = 0 /\ \A k \in 1..Len(g) : f[k] = f[k - 1] + g[k]
              /\ TotalOf(g) = f[Len(g)]
    BY TotalGrows
  <1>2. Len(g) \in Nat
    OBVIOUS
  <1>3. /\ Append(g, x) \in Seq(Nat) /\ Len(Append(g, x)) = Len(g) + 1
        /\ Append(g, x)[Len(g) + 1] = x /\ \A k \in 1..Len(g) : Append(g, x)[k] = g[k]
    OBVIOUS
  <1> DEFINE h == [k \in 0..(Len(g) + 1) |-> IF k = Len(g) + 1 THEN f[Len(g)] + x ELSE f[k]]
  <1>4. (\A k \in 0..Len(g) : h[k] = f[k]) /\ h[Len(g) + 1] = f[Len(g)] + x
    BY <1>2
  <1> HIDE DEF h
  <1>5. \A k \in 1..(Len(g) + 1) : h[k] = h[k - 1] + Append(g, x)[k]
    <2> SUFFICES ASSUME NEW k \in 1..(Len(g) + 1) PROVE h[k] = h[k - 1] + Append(g, x)[k]
      OBVIOUS
    <2>1. CASE k \in 1..Len(g)
      <3>1. k \in 0..Len(g) /\ k - 1 \in 0..Len(g)
        BY <1>2, <2>1
      <3> QED
        BY <1>1, <1>3, <1>4, <2>1, <3>1
    <2>2. CASE k = Len(g) + 1
      <3>1. k - 1 = Len(g) /\ Len(g) \in 0..Len(g)
        BY <1>2, <2>2
      <3> QED
        BY <1>3, <1>4, <2>2, <3>1
    <2> QED
      BY <1>2, <2>1, <2>2
  <1>6. h[0] = 0
    BY <1>1, <1>2, <1>4
  <1>7. TotalOf(Append(g, x)) = h[Len(g) + 1]
    BY <1>3, <1>5, <1>6, TotalUnique
  <1>8. f[Len(g)] \in Nat
    BY <1>2
  <1> QED
    BY <1>1, <1>4, <1>7, <1>8

\* A number that changes.
LEMMA TotalChange ==
    ASSUME NEW g \in Seq(Nat), NEW h \in Seq(Nat), Len(h) = Len(g), NEW c \in DOMAIN g,
           \A k \in DOMAIN g : k # c => h[k] = g[k]
    PROVE  TotalOf(h) + g[c] = TotalOf(g) + h[c] /\ TotalOf(h) \in Nat /\ TotalOf(g) \in Nat
  <1>1. PICK f \in [0..Len(g) -> Nat] :
              /\ f[0] = 0 /\ \A k \in 1..Len(g) : f[k] = f[k - 1] + g[k]
              /\ TotalOf(g) = f[Len(g)]
    BY TotalGrows
  <1>2. PICK e \in [0..Len(g) -> Nat] :
              /\ e[0] = 0 /\ \A k \in 1..Len(g) : e[k] = e[k - 1] + h[k]
              /\ TotalOf(h) = e[Len(g)]
    BY TotalGrows
  <1>3. PICK m \in Nat : m = Len(g)
    OBVIOUS
  <1>4. /\ DOMAIN g = 1..m /\ DOMAIN h = 1..m /\ c \in 1..m
        /\ \A k \in 1..m : g[k] \in Nat /\ h[k] \in Nat
    <2>1. DOMAIN g = 1..m
      BY <1>3
    <2>2. DOMAIN h = 1..m
      BY <1>3
    <2>3. \A k \in 1..m : g[k] \in Nat
      BY <1>3
    <2>4. \A k \in 1..m : h[k] \in Nat
      BY <1>3
    <2> QED
      BY <2>1, <2>2, <2>3, <2>4
  <1>5. \A k \in 0..m : e[k] \in Nat /\ f[k] \in Nat
    BY <1>3
  <1> DEFINE Same(n) == n < c => e[n] = f[n]
             Off(n) == n >= c => e[n] + g[c] = f[n] + h[c]
             T == {n \in Nat : n <= m => Same(n) /\ Off(n)}
  <1>6. 0 \in T
    BY <1>1, <1>2, <1>4
  <1>7. ASSUME NEW n \in Nat, n \in T PROVE n + 1 \in T
    <2> SUFFICES ASSUME n + 1 <= m PROVE Same(n + 1) /\ Off(n + 1)
      OBVIOUS
    <2>1. n + 1 \in 1..m /\ n + 1 - 1 = n /\ n \in 0..m /\ Same(n) /\ Off(n)
      BY <1>7
    <2> HIDE DEF T
    <2>2. e[n + 1] = e[n] + h[n + 1] /\ f[n + 1] = f[n] + g[n + 1]
      <3>1. e[n + 1] = e[n + 1 - 1] + h[n + 1] /\ f[n + 1] = f[n + 1 - 1] + g[n + 1]
        BY <1>1, <1>2, <1>3, <2>1
      <3> QED
        BY <2>1, <3>1
    <2>3. n + 1 # c => h[n + 1] = g[n + 1]
      BY <1>4, <2>1
    <2>4. e[n] \in Nat /\ f[n] \in Nat /\ g[n + 1] \in Nat /\ h[n + 1] \in Nat
      BY <1>4, <1>5, <2>1
    <2>5. CASE n + 1 < c
      <3>1. Same(n) /\ n < c /\ ~(n + 1 >= c) /\ n + 1 # c
        BY <1>4, <2>1, <2>5
      <3> QED
        BY <2>2, <2>3, <3>1
    <2>6. CASE n + 1 = c
      <3>1. e[n] = f[n] /\ ~(n + 1 < c)
        BY <1>4, <2>1, <2>6
      <3> QED
        BY <2>2, <2>4, <2>6, <3>1
    <2>7. CASE n + 1 > c
      <3>1. Off(n) /\ n >= c /\ ~(n + 1 < c) /\ n + 1 # c
        BY <1>4, <2>1, <2>7
      <3>2. e[n] + g[c] = f[n] + h[c] /\ h[n + 1] = g[n + 1] /\ g[c] \in Nat /\ h[c] \in Nat
        BY <1>4, <2>3, <3>1
      <3>3. e[n + 1] + g[c] = f[n + 1] + h[c]
        <4>1. PICK a \in Nat, b \in Nat, x \in Nat, y \in Nat, z \in Nat :
                 a = e[n] /\ b = f[n] /\ x = g[n + 1] /\ y = g[c] /\ z = h[c]
          BY <2>4, <3>2
        <4>2. a + y = b + z /\ e[n + 1] = a + x /\ f[n + 1] = b + x
          BY <2>2, <3>2, <4>1
        <4>3. (a + x) + y = (b + x) + z
          BY <4>2
        <4> QED
          BY <4>1, <4>2, <4>3
      <3> QED
        BY <3>1, <3>3
    <2> QED
      BY <1>4, <2>5, <2>6, <2>7
  <1> HIDE DEF T
  <1>8. m \in T
    BY <1>3, <1>6, <1>7, SetInduction
  <1>9. Off(m)
    BY <1>8 DEF T
  <1>10. e[m] \in Nat /\ f[m] \in Nat /\ m >= c
    BY <1>3, <1>4, <1>5
  <1> QED
    BY <1>1, <1>2, <1>3, <1>9, <1>10

----------------------------------------------------------------------------
(* Recursion over sequences                                                *)

\* A function is built from 0 up to N by steps that stay in a set.
LEMMA Recursion ==
    ASSUME NEW V, NEW a \in V, NEW N \in Nat, NEW step \in [1..N -> [V -> V]]
    PROVE  \E f \in [0..N -> V] : f = [n \in 0..N |-> IF n = 0 THEN a ELSE step[n][f[n - 1]]]
<1> DEFINE P(f, m) == f = [n \in 0..m |-> IF n = 0 THEN a ELSE step[n][f[n - 1]]]
           T == {m \in Nat : m <= N => \E f \in [0..m -> V] : P(f, m)}
<1>1. 0 \in T
  <2>1. [n \in 0..0 |-> a] \in [0..0 -> V] /\ P([n \in 0..0 |-> a], 0)
    OBVIOUS
  <2> QED
    BY <2>1
<1>2. ASSUME NEW m \in Nat, m \in T PROVE m + 1 \in T
  <2> SUFFICES ASSUME m + 1 <= N PROVE \E f \in [0..(m + 1) -> V] : P(f, m + 1)
    OBVIOUS
  <2>1. m <= N /\ m + 1 \in 1..N
    OBVIOUS
  <2>2. PICK f \in [0..m -> V] : P(f, m)
    BY <1>2, <2>1
  <2> DEFINE h == [n \in 0..(m + 1) |-> IF n = m + 1 THEN step[m + 1][f[m]] ELSE f[n]]
  <2>3. (\A n \in 0..m : h[n] = f[n]) /\ h[m + 1] = step[m + 1][f[m]]
    OBVIOUS
  <2>4. f[m] \in V /\ step[m + 1][f[m]] \in V
    BY <2>1
  <2>5. h \in [0..(m + 1) -> V]
    BY <2>4
  <2>6. \A n \in 0..m : f[n] = IF n = 0 THEN a ELSE step[n][f[n - 1]]
    BY <2>2
  <2>7. \A n \in 0..(m + 1) : h[n] = IF n = 0 THEN a ELSE step[n][h[n - 1]]
    <3> SUFFICES ASSUME NEW n \in 0..(m + 1) PROVE h[n] = IF n = 0 THEN a ELSE step[n][h[n - 1]]
      OBVIOUS
    <3>1. CASE n = m + 1
      <4>1. n # 0 /\ n - 1 = m /\ m \in 0..m
        BY <3>1
      <4>2. h[n] = step[n][f[m]] /\ h[n - 1] = f[m]
        BY <2>3, <3>1, <4>1
      <4> HIDE DEF h
      <4> QED
        BY <4>1, <4>2
    <3>2. CASE n # m + 1
      <4>1. n \in 0..m /\ (n # 0 => n - 1 \in 0..m)
        BY <3>2
      <4>2. h[n] = f[n] /\ (n # 0 => h[n - 1] = f[n - 1])
        BY <2>3, <4>1
      <4> HIDE DEF h
      <4> QED
        BY <2>6, <4>1, <4>2
    <3> QED
      BY <3>1, <3>2
  <2> DEFINE H == [n \in 0..(m + 1) |-> IF n = 0 THEN a ELSE step[n][h[n - 1]]]
  <2>8. h = H
    <3>1. \A n \in 0..(m + 1) : h[n] = H[n]
      BY <2>7
    <3> QED
      BY <3>1
  <2>9. P(h, m + 1)
    BY <2>8
  <2> QED
    BY <2>5, <2>9
<1> HIDE DEF T
<1>3. Nat \subseteq T
  BY <1>1, <1>2, SetInduction
<1> QED
  BY <1>3 DEF T

----------------------------------------------------------------------------
(* Folds over sequences                                                    *)

\* A sequence is built by appending.
LEMMA AppendInduction ==
    ASSUME NEW C, NEW T, <<>> \in T, \A s \in Seq(C) : s \in T => \A c \in C : Append(s, c) \in T
    PROVE  Seq(C) \subseteq T
<1> DEFINE N == {n \in Nat : \A s \in Seq(C) : Len(s) = n => s \in T}
<1>1. 0 \in N
  <2>1. \A s \in Seq(C) : Len(s) = 0 => s = <<>>
    OBVIOUS
  <2> QED
    BY <2>1
<1>2. ASSUME NEW n \in Nat, n \in N PROVE n + 1 \in N
  <2> SUFFICES ASSUME NEW s \in Seq(C), Len(s) = n + 1 PROVE s \in T
    OBVIOUS
  <2> DEFINE r == [i \in 1..n |-> s[i]]
  <2>1. r \in Seq(C) /\ Len(r) = n /\ s[n + 1] \in C
    OBVIOUS
  <2>2. Append(r, s[n + 1]) = s
    OBVIOUS
  <2> QED
    BY <1>2, <2>1, <2>2
<1> HIDE DEF N
<1>3. Nat \subseteq N
  BY <1>1, <1>2, SetInduction
<1> QED
  BY <1>3 DEF N

\* Steps from a state to the next one, for an element of a sequence.
Steps(V, C) == [V \X C -> V]

\* f starts with a, and takes a step for each element of s while it is in V.
RunsOver(V, a, step, s, f) ==
    /\ f[0] = a
    /\ \A k \in 1..Len(s) : f[k - 1] \in V => f[k] = step[<<f[k - 1], s[k]>>]

\* There is only one way to do so.
LEMMA Unrolled ==
    ASSUME NEW V, NEW C, NEW a \in V, NEW step \in Steps(V, C), NEW s \in Seq(C),
           NEW f, NEW g, RunsOver(V, a, step, s, f), RunsOver(V, a, step, s, g)
    PROVE  \A k \in 0..Len(s) : f[k] \in V /\ f[k] = g[k]
<1> DEFINE N == {n \in Nat : n <= Len(s) => f[n] \in V /\ f[n] = g[n]}
<1>0. Len(s) \in Nat
  OBVIOUS
<1> USE DEF RunsOver
<1>1. 0 \in N
  OBVIOUS
<1>2. ASSUME NEW n \in Nat, n \in N PROVE n + 1 \in N
  <2> SUFFICES ASSUME n + 1 <= Len(s) PROVE f[n + 1] \in V /\ f[n + 1] = g[n + 1]
    OBVIOUS
  <2>1. n + 1 \in 1..Len(s) /\ n + 1 - 1 = n /\ f[n] \in V /\ f[n] = g[n] /\ s[n + 1] \in C
    BY <1>0, <1>2
  <2>2. f[n + 1] = step[<<f[n], s[n + 1]>>] /\ g[n + 1] = step[<<g[n], s[n + 1]>>]
    BY <2>1
  <2>3. step[<<f[n], s[n + 1]>>] \in V
    BY <2>1 DEF Steps
  <2> QED
    BY <2>1, <2>2, <2>3
<1> HIDE DEF N
<1>3. Nat \subseteq N
  BY <1>1, <1>2, SetInduction
<1> QED
  BY <1>0, <1>3 DEF N

\* And there is one.
LEMMA RunExists ==
    ASSUME NEW V, NEW C, NEW a \in V, NEW step \in Steps(V, C)
    PROVE  \A s \in Seq(C) : \E f \in [0..Len(s) -> V] : RunsOver(V, a, step, s, f)
<1> DEFINE T == {s \in Seq(C) : \E f \in [0..Len(s) -> V] : RunsOver(V, a, step, s, f)}
<1>1. <<>> \in T
  <2>1. <<>> \in Seq(C) /\ Len(<<>>) = 0 /\ [k \in 0..0 |-> a] \in [0..0 -> V]
    OBVIOUS
  <2>2. RunsOver(V, a, step, <<>>, [k \in 0..0 |-> a])
    BY <2>1 DEF RunsOver
  <2> QED
    BY <2>1, <2>2
<1>2. ASSUME NEW s \in Seq(C), s \in T, NEW c \in C PROVE Append(s, c) \in T
  <2>1. PICK f \in [0..Len(s) -> V] : RunsOver(V, a, step, s, f)
    BY <1>2
  <2>2. PICK n \in Nat : n = Len(s)
    OBVIOUS
  <2> DEFINE t == Append(s, c)
  <2>3. t \in Seq(C) /\ Len(t) = n + 1 /\ t[n + 1] = c /\ \A k \in 1..n : t[k] = s[k]
    BY <2>2
  <2> DEFINE h == [k \in 0..(n + 1) |-> IF k = n + 1 THEN step[<<f[n], c>>] ELSE f[k]]
  <2>4. f[n] \in V /\ step[<<f[n], c>>] \in V
    BY <2>1, <2>2 DEF Steps
  <2>5. h \in [0..(n + 1) -> V]
    BY <2>1, <2>2, <2>4
  <2>6. h[n + 1] = step[<<f[n], c>>] /\ \A k \in 0..n : h[k] = f[k]
    OBVIOUS
  <2> HIDE DEF h, t
  <2>7. RunsOver(V, a, step, t, h)
    <3>1. h[0] = a
      BY <2>1, <2>6 DEF RunsOver
    <3>2. ASSUME NEW k \in 1..Len(t), h[k - 1] \in V PROVE h[k] = step[<<h[k - 1], t[k]>>]
      <4>1. CASE k = n + 1
        <5>1. k - 1 = n /\ n \in 0..n
          BY <4>1
        <5> QED
          BY <2>3, <2>6, <4>1, <5>1
      <4>2. CASE k # n + 1
        <5>1. k \in 1..n /\ k \in 0..n /\ k - 1 \in 0..n
          BY <2>3, <4>2
        <5>2. h[k] = f[k] /\ h[k - 1] = f[k - 1] /\ t[k] = s[k]
          BY <2>3, <2>6, <5>1
        <5> QED
          BY <2>1, <2>2, <3>2, <5>1, <5>2 DEF RunsOver
      <4> QED
        BY <4>1, <4>2
    <3> QED
      BY <3>1, <3>2 DEF RunsOver
  <2> QED
    BY <2>3, <2>5, <2>7 DEF t
<1> HIDE DEF T
<1>3. Seq(C) \subseteq T
  BY <1>1, <1>2, AppendInduction
<1> QED
  BY <1>3 DEF T

\* A step that stays in a set can be taken for every element of a sequence in turn,
\* and any function that takes it ends where this one does.
LEMMA FoldExists ==
    ASSUME NEW V, NEW C, NEW a \in V, NEW step \in Steps(V, C)
    PROVE  \E fold \in [Seq(C) -> V] :
              /\ fold[<<>>] = a
              /\ \A s \in Seq(C), c \in C : fold[Append(s, c)] = step[<<fold[s], c>>]
              /\ \A s \in Seq(C) : \A f : RunsOver(V, a, step, s, f) => f[Len(s)] = fold[s]
<1> DEFINE After(s, f) == RunsOver(V, a, step, s, f)
           run(s) == CHOOSE f \in [0..Len(s) -> V] : After(s, f)
           fold == [s \in Seq(C) |-> run(s)[Len(s)]]
<1>1. ASSUME NEW s \in Seq(C) PROVE run(s) \in [0..Len(s) -> V] /\ After(s, run(s))
  <2>1. \E f \in [0..Len(s) -> V] : RunsOver(V, a, step, s, f)
    BY RunExists
  <2> QED
    BY <2>1
<1> HIDE DEF run
<1>2. fold \in [Seq(C) -> V]
  <2>1. ASSUME NEW s \in Seq(C) PROVE run(s)[Len(s)] \in V
    <3>1. Len(s) \in 0..Len(s)
      OBVIOUS
    <3> QED
      BY <1>1, <3>1
  <2> QED
    BY <2>1
<1>3. ASSUME NEW s \in Seq(C), NEW f, After(s, f) PROVE f[Len(s)] = fold[s]
  <2>1. \A k \in 0..Len(s) : f[k] \in V /\ f[k] = run(s)[k]
    <3> HIDE DEF fold
    <3>1. PICK g : g = run(s)
      OBVIOUS
    <3>2. After(s, g)
      BY <1>1, <3>1
    <3>4. \A k \in 0..Len(s) : f[k] \in V /\ f[k] = g[k]
      BY <1>1, <1>3, <3>2, Unrolled
    <3> QED
      BY <3>1, <3>4
  <2>2. Len(s) \in 0..Len(s)
    OBVIOUS
  <2> QED
    BY <2>1, <2>2
<1>4. fold[<<>>] = a
  <2>1. <<>> \in Seq(C) /\ Len(<<>>) = 0
    OBVIOUS
  <2>2. After(<<>>, run(<<>>))
    BY <1>1, <2>1
  <2> QED
    BY <2>1, <2>2 DEF RunsOver
<1>5. ASSUME NEW s \in Seq(C), NEW c \in C PROVE fold[Append(s, c)] = step[<<fold[s], c>>]
  <2>0. Append(s, c) \in Seq(C)
    OBVIOUS
  <2>1. PICK t \in Seq(C) : t = Append(s, c)
    BY <2>0
  <2>2. Len(s) \in Nat /\ Len(t) = Len(s) + 1 /\ t[Len(s) + 1] = c /\ \A k \in 1..Len(s) : t[k] = s[k]
    BY <2>1
  <2>3. PICK f : f = run(t)
    OBVIOUS
  <2>4. f \in [0..Len(t) -> V] /\ After(t, f)
    BY <1>1, <2>3
  <2>5. After(s, f)
    <3>1. \A k \in 1..Len(s) : k \in 1..Len(t)
      BY <2>2
    <3> QED
      BY <2>2, <2>4, <3>1 DEF RunsOver
  <2>6. f[Len(s)] = fold[s]
    BY <1>3, <2>5
  <2>7. fold[t] = f[Len(t)]
    BY <2>3
  <2> HIDE DEF fold
  <2>8. Len(t) \in 1..Len(t) /\ Len(t) - 1 = Len(s) /\ Len(s) \in 0..Len(t)
    BY <2>2
  <2>9. f[Len(t)] = step[<<f[Len(s)], c>>]
    BY <2>2, <2>4, <2>8 DEF RunsOver
  <2> QED
    BY <2>1, <2>6, <2>7, <2>9
<1> HIDE DEF fold
<1> QED
  BY <1>2, <1>3, <1>4, <1>5

----------------------------------------------------------------------------
(* Sums over sequences                                                     *)

\* No numbers sum to 0.
LEMMA TotalEmpty == TotalOf(<<>>) = 0
<1>1. /\ <<>> \in Seq(Nat) /\ Len(<<>>) = 0
      /\ [k \in {0} |-> 0][0] = 0
  OBVIOUS
<1>2. \A k \in 1..Len(<<>>) : FALSE
  BY <1>1
<1> DEFINE h == [k \in {0} |-> 0]
<1>3. TotalOf(<<>>) = h[Len(<<>>)]
  BY <1>1, <1>2, TotalUnique
<1> QED
  BY <1>1, <1>3

\* The sum of two sequences one after the other.
LEMMA TotalConcat ==
    ASSUME NEW a \in Seq(Nat), NEW b \in Seq(Nat)
    PROVE  TotalOf(a \o b) = TotalOf(a) + TotalOf(b) /\ TotalOf(a) \in Nat /\ TotalOf(b) \in Nat
<1> DEFINE T == {t \in Seq(Nat) : TotalOf(a \o t) = TotalOf(a) + TotalOf(t)}
<1>0. TotalOf(a) \in Nat /\ TotalOf(b) \in Nat
  BY TotalAppend
<1>1. <<>> \in T
  <2>1. a \o <<>> = a /\ <<>> \in Seq(Nat)
    OBVIOUS
  <2> QED
    BY <1>0, <2>1, TotalEmpty
<1>2. ASSUME NEW t \in Seq(Nat), t \in T, NEW x \in Nat PROVE Append(t, x) \in T
  <2>0. a \o t \in Seq(Nat) /\ Append(t, x) \in Seq(Nat)
    OBVIOUS
  <2>1. PICK c \in Seq(Nat), u \in Seq(Nat) : c = a \o t /\ u = Append(t, x)
    BY <2>0
  <2>2. TotalOf(Append(c, x)) = TotalOf(c) + x
    BY TotalAppend
  <2>3. TotalOf(u) = TotalOf(t) + x /\ TotalOf(t) \in Nat
    BY <2>1, TotalAppend
  <2>4. TotalOf(c) = TotalOf(a) + TotalOf(t)
    BY <1>2, <2>1
  <2>5. a \o u = Append(c, x)
    BY <2>1
  <2>6. TotalOf(a \o u) = TotalOf(a) + TotalOf(u)
    BY <1>0, <2>2, <2>3, <2>4, <2>5
  <2>7. u \in T
    BY <2>6
  <2> HIDE DEF T
  <2> QED
    BY <2>1, <2>7
<1> HIDE DEF T
<1>3. Seq(Nat) \subseteq T
  BY <1>1, <1>2, AppendInduction
<1> QED
  BY <1>0, <1>3 DEF T

\* A sum is at least any two of its numbers.
LEMMA TotalOfTwo ==
    ASSUME NEW g \in Seq(Nat)
    PROVE  \A i \in DOMAIN g, j \in DOMAIN g : i < j => TotalOf(g) >= g[i] + g[j]
<1> DEFINE One(t) == \A i \in DOMAIN t : TotalOf(t) >= t[i]
           Two(t) == \A i \in DOMAIN t, j \in DOMAIN t : i < j => TotalOf(t) >= t[i] + t[j]
           T == {t \in Seq(Nat) : One(t) /\ Two(t)}
<1>1. <<>> \in T
  OBVIOUS
<1>2. ASSUME NEW t \in Seq(Nat), t \in T, NEW x \in Nat PROVE Append(t, x) \in T
  <2>1. TotalOf(Append(t, x)) = TotalOf(t) + x /\ TotalOf(t) \in Nat
    BY TotalAppend
  <2>2. PICK n \in Nat : n = Len(t)
    OBVIOUS
  <2>a. Append(t, x) \in Seq(Nat)
    OBVIOUS
  <2>3. PICK u \in Seq(Nat) : u = Append(t, x)
    BY <2>a
  <2>4. /\ DOMAIN t = 1..n /\ DOMAIN u = 1..(n + 1)
        /\ u[n + 1] = x /\ \A k \in 1..n : u[k] = t[k] /\ t[k] \in Nat
    BY <2>2, <2>3
  <2>5. One(t) /\ Two(t)
    BY <1>2
  <2>6. One(u)
    BY <2>1, <2>3, <2>4, <2>5
  <2>7. Two(u)
    BY <2>1, <2>3, <2>4, <2>5
  <2>8. u \in T
    BY <2>6, <2>7
  <2> HIDE DEF T
  <2> QED
    BY <2>3, <2>8
<1> HIDE DEF T
<1>3. Seq(Nat) \subseteq T
  BY <1>1, <1>2, AppendInduction
<1> QED
  BY <1>3 DEF T

\* What the elements of a set weigh.
Weights(S) == [S -> Nat]

\* The weights of the elements of a sequence together.
Weighed(w, s) == [i \in DOMAIN s |-> w[s[i]]]
Weight(w, s) == TotalOf(Weighed(w, s))

\* Weighing the elements is a sequence of numbers, as long.
LEMMA WeighedSeq ==
    ASSUME NEW S, NEW w \in Weights(S), NEW s \in Seq(S)
    PROVE  /\ Weighed(w, s) \in Seq(Nat) /\ Len(Weighed(w, s)) = Len(s)
           /\ DOMAIN Weighed(w, s) = DOMAIN s
           /\ \A i \in DOMAIN s : Weighed(w, s)[i] = w[s[i]]
           /\ Weight(w, s) \in Nat
<1>1. PICK n \in Nat : n = Len(s)
  OBVIOUS
<1>2. DOMAIN s = 1..n /\ \A i \in 1..n : w[s[i]] \in Nat
  BY <1>1 DEF Weights
<1>3. Weighed(w, s) \in [1..n -> Nat]
  BY <1>2 DEF Weighed
<1>4. Weighed(w, s) \in Seq(Nat) /\ Len(Weighed(w, s)) = n
  BY <1>3
<1>5. Weight(w, s) \in Nat
  BY <1>4, TotalAppend DEF Weight
<1> QED
  BY <1>1, <1>2, <1>4, <1>5 DEF Weighed

\* Nothing weighs nothing.
LEMMA WeightEmpty == ASSUME NEW w PROVE Weight(w, <<>>) = 0
<1>1. Weighed(w, <<>>) = <<>>
  BY DEF Weighed
<1> QED
  BY <1>1, TotalEmpty DEF Weight

\* Two sequences weigh what each of them does.
LEMMA WeightConcat ==
    ASSUME NEW S, NEW w \in Weights(S), NEW a \in Seq(S), NEW b \in Seq(S)
    PROVE  Weight(w, a \o b) = Weight(w, a) + Weight(w, b)
<1> DEFINE x == Weighed(w, a)
           y == Weighed(w, b)
           z == Weighed(w, a \o b)
<1>1. a \o b \in Seq(S)
  OBVIOUS
<1>2. x \in Seq(Nat) /\ y \in Seq(Nat) /\ z \in Seq(Nat)
  BY <1>1, WeighedSeq
<1>3. z = x \o y
  <2>1. PICK n \in Nat, m \in Nat : n = Len(a) /\ m = Len(b)
    OBVIOUS
  <2>2. PICK c \in Seq(S) : c = a \o b
    BY <1>1
  <2>3. /\ DOMAIN a = 1..n /\ DOMAIN b = 1..m /\ Len(c) = n + m /\ DOMAIN c = 1..(n + m)
        /\ \A i \in 1..n : c[i] = a[i]
        /\ \A i \in (n + 1)..(n + m) : c[i] = b[i - n]
    BY <2>1, <2>2
  <2>4. /\ Len(x) = n /\ \A i \in 1..n : x[i] = w[a[i]]
        /\ Len(y) = m /\ \A i \in 1..m : y[i] = w[b[i]]
    <3>1. /\ Len(Weighed(w, a)) = n /\ \A i \in 1..n : Weighed(w, a)[i] = w[a[i]]
      BY <2>1, <2>3, WeighedSeq
    <3>2. /\ Len(Weighed(w, b)) = m /\ \A i \in 1..m : Weighed(w, b)[i] = w[b[i]]
      BY <2>1, <2>3, WeighedSeq
    <3> QED
      BY <3>1, <3>2
  <2>5. Len(z) = n + m /\ \A i \in 1..(n + m) : z[i] = w[c[i]]
    <3>1. Len(Weighed(w, c)) = Len(c) /\ \A i \in DOMAIN c : Weighed(w, c)[i] = w[c[i]]
      BY WeighedSeq
    <3>2. z = Weighed(w, c)
      BY <2>2
    <3> HIDE DEF z
    <3> QED
      BY <2>3, <3>1, <3>2
  <2> HIDE DEF x, y, z
  <2>6. PICK u : u = x \o y
    OBVIOUS
  <2>c. Len(x) = n /\ Len(y) = m
    BY <2>4
  <2>7. /\ u \in Seq(Nat) /\ Len(u) = n + m
        /\ \A i \in 1..n : u[i] = x[i]
        /\ \A i \in (n + 1)..(n + m) : u[i] = y[i - n]
    <3>1. PICK p \in Seq(Nat), q \in Seq(Nat) : p = x /\ q = y
      BY <1>2
    <3>2. u = p \o q /\ Len(p) = n /\ Len(q) = m
      BY <2>c, <2>6, <3>1
    <3>a. /\ p \o q \in Seq(Nat) /\ Len(p \o q) = Len(p) + Len(q)
          /\ \A i \in 1..Len(p) : (p \o q)[i] = p[i]
          /\ \A i \in (Len(p) + 1)..(Len(p) + Len(q)) : (p \o q)[i] = q[i - Len(p)]
      OBVIOUS
    <3>3. u \in Seq(Nat) /\ Len(u) = n + m
      BY <3>2, <3>a
    <3>4. \A i \in 1..n : u[i] = p[i]
      BY <3>2, <3>a
    <3>5. \A i \in (n + 1)..(n + m) : u[i] = q[i - n]
      BY <3>2, <3>a
    <3> QED
      BY <3>1, <3>3, <3>4, <3>5
  <2>8. \A i \in 1..(n + m) : z[i] = u[i]
    <3> SUFFICES ASSUME NEW i \in 1..(n + m) PROVE z[i] = u[i]
      OBVIOUS
    <3>1. CASE i \in 1..n
      <4>1. c[i] = a[i] /\ u[i] = x[i] /\ x[i] = w[a[i]]
        BY <2>3, <2>4, <2>7, <3>1
      <4> QED
        BY <2>5, <4>1
    <3>2. CASE i \in (n + 1)..(n + m)
      <4>1. i - n \in 1..m
        BY <3>2
      <4> QED
        <5>1. c[i] = b[i - n] /\ u[i] = y[i - n] /\ y[i - n] = w[b[i - n]]
          BY <2>3, <2>4, <2>7, <3>2, <4>1
        <5> QED
          BY <2>5, <5>1
    <3> QED
      BY <3>1, <3>2
  <2>9. z = u
    BY <1>2, <2>5, <2>7, <2>8
  <2> QED
    BY <2>6, <2>9
<1> HIDE DEF x, y, z
<1>4. TotalOf(x \o y) = TotalOf(x) + TotalOf(y)
  BY <1>2, TotalConcat
<1> QED
  BY <1>3, <1>4 DEF x, y, z, Weight

\* One element weighs its weight.
LEMMA WeightOne ==
    ASSUME NEW S, NEW w \in Weights(S), NEW e \in S
    PROVE  Weight(w, <<e>>) = w[e]
<1>1. Weighed(w, <<e>>) = Append(<<>>, w[e])
  BY DEF Weighed
<1>2. TotalOf(Append(<<>>, w[e])) = TotalOf(<<>>) + w[e] /\ w[e] \in Nat
  <2>1. <<>> \in Seq(Nat) /\ w[e] \in Nat
    BY DEF Weights
  <2> QED
    BY <2>1, TotalAppend
<1> QED
  BY <1>1, <1>2, TotalEmpty DEF Weight

\* One element more adds its weight.
LEMMA WeightAppend ==
    ASSUME NEW S, NEW w \in Weights(S), NEW s \in Seq(S), NEW e \in S
    PROVE  Weight(w, Append(s, e)) = Weight(w, s) + w[e]
<1>1. Append(s, e) = s \o <<e>>
  OBVIOUS
<1>a. <<e>> \in Seq(S)
  OBVIOUS
<1>2. PICK t \in Seq(S) : t = <<e>>
  BY <1>a
<1>3. Weight(w, s \o t) = Weight(w, s) + Weight(w, t)
  BY WeightConcat
<1> QED
  BY <1>1, <1>2, <1>3, WeightOne
=============================================================================
