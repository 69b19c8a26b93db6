------------------------- MODULE AcquisitionProofs -------------------------
(***************************************************************************)
(* Theorems about Acquisition.tla: after a kill at any instant the state   *)
(* directory can be resumed from, what it holds is the source with the     *)
(* gaps its table names, and nothing acknowledged is touched again.        *)
(*                                                                         *)
(* First the three functions of the model that visit a sequence (Media,    *)
(* Normalize, Clip), then what a writer keeps true of itself (Consistent), *)
(* of the directory (Sound) and of the call under way, then the actions.   *)
(***************************************************************************)
EXTENDS Acquisition, LruOrderFacts

----------------------------------------------------------------------------
(* The media of a list of segments                                         *)

DecodedUpTo(seals, n, f) ==
    f = [k \in 0..n |-> IF k = 0 THEN <<>> ELSE f[k - 1] \o seals[k].digest.media]

\* A function that decodes any number of segments in turn exists.
LEMMA DecodingExists == \A n \in Nat : \A seals : \E f : DecodedUpTo(seals, n, f)
<1> SUFFICES ASSUME NEW seals PROVE \A n \in Nat : \E f : DecodedUpTo(seals, n, f)
  OBVIOUS
<1> DEFINE T == {n \in Nat : \E f : DecodedUpTo(seals, n, f)}
<1>1. 0 \in T
  <2> DEFINE g == [k \in 0..0 |-> <<>>]
  <2>1. DecodedUpTo(seals, 0, g)
    BY DEF DecodedUpTo
  <2> QED
    BY <2>1
<1>2. ASSUME NEW n \in Nat, n \in T PROVE n + 1 \in T
  <2>1. PICK f : DecodedUpTo(seals, n, f)
    BY <1>2
  <2> DEFINE g == [k \in 0..(n + 1) |->
                      IF k = n + 1 THEN f[n] \o seals[n + 1].digest.media ELSE f[k]]
  <2>2. \A k \in 0..n : g[k] = f[k]
    OBVIOUS
  <2>3. ASSUME NEW k \in 0..(n + 1)
        PROVE  g[k] = IF k = 0 THEN <<>> ELSE g[k - 1] \o seals[k].digest.media
    <3>1. CASE k = n + 1
      <4>1. g[n] = f[n]
        BY <2>2
      <4>2. g[n + 1] = f[n] \o seals[n + 1].digest.media
        OBVIOUS
      <4>3. k # 0 /\ k - 1 = n
        BY <3>1
      <4> HIDE DEF g
      <4> QED
        BY <3>1, <4>1, <4>2, <4>3
    <3>2. CASE k # n + 1
      <4>1. k \in 0..n /\ (k # 0 => k - 1 \in 0..n)
        BY <3>2
      <4>2. f[k] = IF k = 0 THEN <<>> ELSE f[k - 1] \o seals[k].digest.media
        BY <2>1, <4>1 DEF DecodedUpTo
      <4> HIDE DEF g
      <4> QED
        BY <2>2, <4>1, <4>2
    <3> QED
      BY <3>1, <3>2
  <2>4. DecodedUpTo(seals, n + 1, g)
    BY <2>3 DEF DecodedUpTo
  <2> QED
    BY <2>4
<1> HIDE DEF T
<1>3. Nat \subseteq T
  BY <1>1, <1>2, SetInduction
<1> QED
  BY <1>3 DEF T

\* Media(seals) is the last value of one.
LEMMA MediaDefinition ==
    ASSUME NEW S, NEW seals \in Seq(S)
    PROVE  \E f : DecodedUpTo(seals, Len(seals), f) /\ Media(seals) = f[Len(seals)]
<1>1. Len(seals) \in Nat
  OBVIOUS
<1>2. \E f : DecodedUpTo(seals, Len(seals), f)
  BY <1>1, DecodingExists
<1> QED
  BY <1>2 DEF Media, DecodedUpTo

\* The first n segments of two lists store the same.
SameStored(a, b, n) == \A k \in 1..n : a[k].digest.media = b[k].digest.media

\* Two such lists decode to the same.
LEMMA DecodingAgrees ==
    ASSUME NEW a, NEW b, NEW n \in Nat, NEW m \in Nat, NEW f, NEW g,
           DecodedUpTo(a, n, f), DecodedUpTo(b, m, g), n <= m,
           SameStored(a, b, n)
    PROVE  \A k \in 0..n : f[k] = g[k]
<1> DEFINE T == {k \in Nat : k <= n => f[k] = g[k]}
<1>1. 0 \in T
  BY DEF DecodedUpTo
<1>2. ASSUME NEW k \in Nat, k \in T PROVE k + 1 \in T
  <2> SUFFICES ASSUME k + 1 <= n PROVE f[k + 1] = g[k + 1]
    OBVIOUS
  <2>1. k + 1 \in 0..n /\ k + 1 \in 0..m /\ k + 1 # 0 /\ (k + 1) - 1 = k /\ k + 1 \in 1..n
    OBVIOUS
  <2>2. f[k + 1] = f[k] \o a[k + 1].digest.media
    BY <2>1 DEF DecodedUpTo
  <2>3. g[k + 1] = g[k] \o b[k + 1].digest.media
    BY <2>1 DEF DecodedUpTo
  <2>4. f[k] = g[k] /\ a[k + 1].digest.media = b[k + 1].digest.media
    BY <1>2, <2>1 DEF SameStored
  <2> QED
    BY <2>2, <2>3, <2>4
<1> HIDE DEF T
<1>3. Nat \subseteq T
  BY <1>1, <1>2, SetInduction
<1> QED
  BY <1>3 DEF T

\* No segments, no media.
LEMMA MediaEmpty == Media(<<>>) = <<>>
<1>1. <<>> \in Seq({}) /\ Len(<<>>) = 0
  OBVIOUS
<1>2. PICK f : DecodedUpTo(<<>>, 0, f) /\ Media(<<>>) = f[0]
  BY <1>1, MediaDefinition
<1> QED
  BY <1>2 DEF DecodedUpTo

\* One segment more adds what it stores.
LEMMA MediaAppend ==
    ASSUME NEW S, NEW seals \in Seq(S), NEW seal \in S
    PROVE  Media(Append(seals, seal)) = Media(seals) \o seal.digest.media
<1> DEFINE longer == Append(seals, seal)
           n == Len(seals)
<1>1. n \in Nat /\ longer \in Seq(S) /\ Len(longer) = n + 1
  OBVIOUS
<1>2. longer[n + 1] = seal /\ \A k \in 1..n : longer[k] = seals[k]
  OBVIOUS
<1> HIDE DEF longer, n
<1>3. PICK f : DecodedUpTo(longer, n + 1, f) /\ Media(longer) = f[n + 1]
  BY <1>1, MediaDefinition
<1>4. PICK g : DecodedUpTo(seals, n, g) /\ Media(seals) = g[n]
  BY MediaDefinition DEF n
<1>5. g[n] = f[n]
  <2>1. SameStored(seals, longer, n)
    BY <1>2 DEF SameStored
  <2>2. n \in Nat /\ n + 1 \in Nat /\ n <= n + 1
    BY <1>1
  <2>3. \A k \in 0..n : g[k] = f[k]
    BY <1>3, <1>4, <2>1, <2>2, DecodingAgrees
  <2> QED
    BY <1>1, <2>3
<1>6. f[n + 1] = f[n] \o longer[n + 1].digest.media
  <2>1. n + 1 \in 0..(n + 1) /\ n + 1 # 0 /\ (n + 1) - 1 = n
    BY <1>1
  <2> QED
    BY <1>3, <2>1 DEF DecodedUpTo
<1> QED
  BY <1>2, <1>3, <1>4, <1>5, <1>6 DEF longer

\* Lists of segments that store the same decode to the same.
LEMMA MediaSame ==
    ASSUME NEW S, NEW a \in Seq(S), NEW R, NEW b \in Seq(R), Len(a) = Len(b),
           \A k \in 1..Len(a) : a[k].digest.media = b[k].digest.media
    PROVE  Media(a) = Media(b)
<1>1. PICK n \in Nat : n = Len(a) /\ n = Len(b)
  OBVIOUS
<1>2. PICK f : DecodedUpTo(a, n, f) /\ Media(a) = f[n]
  BY <1>1, MediaDefinition
<1>3. PICK g : DecodedUpTo(b, n, g) /\ Media(b) = g[n]
  BY <1>1, MediaDefinition
<1>4. SameStored(a, b, n)
  BY <1>1 DEF SameStored
<1>5. \A k \in 0..n : f[k] = g[k]
  <2>1. n <= n
    OBVIOUS
  <2> QED
    BY <2>1, <1>2, <1>3, <1>4, DecodingAgrees
<1> QED
  BY <1>2, <1>3, <1>5

----------------------------------------------------------------------------
(* Tables of substituted sectors                                           *)

RangeType == [first : 0..Size, count : 1..Size]

LEMMA RangeFields ==
    \A r \in RangeType : /\ r.first \in Nat /\ r.count \in Nat /\ RangeEnd(r) \in Nat
                         /\ RangeEnd(r) = r.first + r.count
<1>1. Size \in Nat
  BY AcquisitionAssumption
<1> QED
  BY <1>1 DEF RangeType, RangeEnd

\* A table as record_substitution() writes it: sorted, with a sector between
\* any two ranges, so that there is nothing for normalize_errors() to merge.
Gapped(errors) ==
    \A j, k \in DOMAIN errors : j < k => RangeEnd(errors[j]) < errors[k].first
Table(errors, end) ==
    /\ errors \in Seq(RangeType) /\ Gapped(errors)
    /\ \A k \in DOMAIN errors : RangeEnd(errors[k]) <= end

\* Sector i is substituted.
InTable(errors, i) ==
    \E k \in DOMAIN errors : errors[k].first < i /\ i <= RangeEnd(errors[k])

\* The sectors that Covered collects are those.
LEMMA CoveredMeans ==
    ASSUME NEW errors \in Seq(RangeType), NEW i
    PROVE  /\ i \in Covered(errors) => i \in Int /\ InTable(errors, i)
           /\ i \in Int /\ InTable(errors, i) => i \in Covered(errors)
<1>1. \A k \in DOMAIN errors : errors[k] \in RangeType
  OBVIOUS
<1>2. Size \in Nat
  BY AcquisitionAssumption
<1>3. \A k \in DOMAIN errors : errors[k].first \in Nat /\ errors[k].count \in Nat
  BY <1>1, <1>2 DEF RangeType
<1>4. i \in Covered(errors) <=>
         \E k \in DOMAIN errors : i \in errors[k].first + 1 .. RangeEnd(errors[k])
  BY DEF Covered, Range
<1>5. ASSUME NEW k \in DOMAIN errors
      PROVE  i \in errors[k].first + 1 .. RangeEnd(errors[k])
                <=> i \in Int /\ errors[k].first < i /\ i <= RangeEnd(errors[k])
  BY <1>3 DEF RangeEnd
<1> QED
  BY <1>4, <1>5 DEF InTable

\* A table has nothing to merge.
LEMMA NormalizeIsIdentity ==
    ASSUME NEW errors, NEW end \in Nat, Table(errors, end)
    PROVE  Normalize(errors) = errors
<1> DEFINE n == Len(errors)
           UpTo(f) == f = [k \in 0..n |-> IF k = 0 THEN <<>> ELSE Merge(f[k - 1], errors[k])]
           prefix(k) == SubSeq(errors, 1, k)
           g == [k \in 0..n |-> prefix(k)]
<1>1. errors \in Seq(RangeType) /\ n \in Nat /\ Size \in Nat
  BY AcquisitionAssumption DEF Table
<1>2. prefix(0) = <<>> /\ prefix(n) = errors
  BY <1>1
<1>3. ASSUME NEW k \in 1..n PROVE Merge(prefix(k - 1), errors[k]) = prefix(k)
  <2>1. /\ errors[k] \in RangeType /\ prefix(k - 1) \in Seq(RangeType)
        /\ Len(prefix(k - 1)) = k - 1
        /\ \A j \in 1..(k - 1) : prefix(k - 1)[j] = errors[j]
    BY <1>1
  <2>2. prefix(k) = Append(prefix(k - 1), errors[k])
    BY <1>1, <2>1
  <2>3. CASE k = 1
    <3>1. prefix(k - 1) = <<>>
      BY <1>2, <2>3
    <3> QED
      BY <2>2, <3>1 DEF Merge
  <2>4. CASE k # 1
    <3>1. k - 1 \in DOMAIN errors /\ k \in DOMAIN errors /\ k - 1 < k
      BY <1>1, <2>4
    <3>2. Last(prefix(k - 1)) = errors[k - 1]
      BY <2>1, <2>4 DEF Last
    <3>3. RangeEnd(errors[k - 1]) < errors[k].first
      BY <3>1 DEF Table, Gapped
    <3>4. RangeEnd(errors[k - 1]) \in Nat /\ errors[k].first \in Nat
      <4>1. errors[k - 1] \in RangeType /\ errors[k] \in RangeType
        BY <1>1, <3>1
      <4> QED
        BY <4>1, RangeFields
    <3>5. ~(errors[k].first <= RangeEnd(errors[k - 1]))
      BY <3>3, <3>4
    <3> HIDE DEF prefix
    <3> QED
      BY <2>2, <3>2, <3>5 DEF Merge
  <2> QED
    BY <2>3, <2>4
<1> HIDE DEF prefix
<1>4. UpTo(g)
  <2>1. ASSUME NEW k \in 0..n
        PROVE  g[k] = IF k = 0 THEN <<>> ELSE Merge(g[k - 1], errors[k])
    <3>1. CASE k = 0
      BY <1>2, <3>1
    <3>2. CASE k # 0
      <4>1. k \in 1..n /\ k - 1 \in 0..n
        BY <1>1, <3>2
      <4>2. g[k] = prefix(k) /\ g[k - 1] = prefix(k - 1)
        BY <4>1
      <4> HIDE DEF g
      <4> QED
        BY <1>3, <3>2, <4>1, <4>2
    <3> QED
      BY <3>1, <3>2
  <2> QED
    BY <2>1
<1> HIDE DEF g
<1>5. PICK f : UpTo(f) /\ Normalize(errors) = f[n]
  BY <1>4 DEF Normalize
<1> DEFINE T == {k \in Nat : k <= n => f[k] = prefix(k)}
<1>6. 0 \in T
  BY <1>1, <1>2, <1>5
<1>7. ASSUME NEW k \in Nat, k \in T PROVE k + 1 \in T
  <2> SUFFICES ASSUME k + 1 <= n PROVE f[k + 1] = prefix(k + 1)
    OBVIOUS
  <2>1. k + 1 \in 1..n /\ k + 1 \in 0..n /\ k + 1 # 0 /\ (k + 1) - 1 = k
    BY <1>1
  <2>2. f[k] = prefix(k)
    BY <1>1, <1>7
  <2>3. f[k + 1] = Merge(f[(k + 1) - 1], errors[k + 1])
    BY <1>5, <2>1
  <2>4. Merge(prefix((k + 1) - 1), errors[k + 1]) = prefix(k + 1)
    BY <1>3, <2>1
  <2> QED
    BY <2>1, <2>2, <2>3, <2>4
<1> HIDE DEF T
<1>8. Nat \subseteq T
  BY <1>6, <1>7, SetInduction
<1>9. f[n] = prefix(n)
  BY <1>1, <1>8 DEF T
<1> QED
  BY <1>2, <1>5, <1>9

\* What Clip leaves is a table up to the seal, of the sectors before it.
LEMMA ClipProperties ==
    ASSUME NEW errors, NEW n \in Nat, Table(errors, n), NEW end \in Nat
    PROVE  /\ Table(Clip(errors, end), end)
           /\ \A i \in 1..end : InTable(Clip(errors, end), i) <=> InTable(errors, i)
<1> DEFINE I == {k \in DOMAIN errors : errors[k].first < end}
           kept == Keep(errors, I)
           clipped(r) == [first |-> r.first, count |-> Least(RangeEnd(r), end) - r.first]
           N == Cardinality(I)
<1>1. errors \in Seq(RangeType) /\ Size \in Nat
  BY AcquisitionAssumption DEF Table
<1>2. I \in SUBSET (DOMAIN errors) /\ I \in SUBSET Nat /\ IsFiniteSet(I) /\ N \in Nat
  BY <1>1, IndicesOfSeq
<1>3. /\ DOMAIN kept = 1..N
      /\ \A k \in 1..N : kept[k] = errors[Nth(I, k)] /\ Nth(I, k) \in I
  <2>1. I \in SUBSET (DOMAIN errors)
    OBVIOUS
  <2> HIDE DEF I
  <2> QED
    BY <1>1, <2>1, KeepProperties
<1>4. \A i \in I : \E k \in 1..N : Nth(I, k) = i
  <2> HIDE DEF I
  <2> QED
    BY <1>2, NthOfRank DEF Rank
<1>5. \A j, k \in 1..N : j < k => Nth(I, j) < Nth(I, k)
  <2> SUFFICES ASSUME NEW j \in 1..N, NEW k \in 1..N, j < k, ~(Nth(I, j) < Nth(I, k))
               PROVE  FALSE
    OBVIOUS
  <2> HIDE DEF I
  <2>1. /\ Nth(I, j) \in I /\ Rank(I, Nth(I, j)) = j
        /\ Nth(I, k) \in I /\ Rank(I, Nth(I, k)) = k
    BY <1>2, NthProperties
  <2>2. Nth(I, j) \in Nat /\ Nth(I, k) \in Nat
    BY <1>2, <2>1
  <2>3. CASE Nth(I, j) = Nth(I, k)
    BY <1>2, <2>1, <2>3
  <2>4. CASE Nth(I, k) < Nth(I, j)
    BY <1>2, <2>1, <2>4, RankMonotone
  <2> QED
    BY <2>2, <2>3, <2>4
<1>6. Clip(errors, end) = [k \in 1..N |-> clipped(errors[Nth(I, k)])]
  BY <1>3 DEF Clip
<1>7. ASSUME NEW i \in I
      PROVE  /\ errors[i] \in RangeType
             /\ clipped(errors[i]) \in RangeType
             /\ RangeEnd(clipped(errors[i])) = Least(RangeEnd(errors[i]), end)
             /\ RangeEnd(errors[i]) \in Nat
  <2>1. errors[i] \in RangeType /\ errors[i].first < end
    BY <1>1
  <2>2. errors[i].first \in 0..Size /\ errors[i].count \in 1..Size
    BY <2>1 DEF RangeType
  <2>3. clipped(errors[i]).first = errors[i].first
    OBVIOUS
  <2>4. clipped(errors[i]).count = Least(RangeEnd(errors[i]), end) - errors[i].first
    OBVIOUS
  <2>5. clipped(errors[i]).count \in 1..Size
    BY <1>1, <2>1, <2>2, <2>4 DEF Least, RangeEnd
  <2>6. RangeEnd(clipped(errors[i])) = Least(RangeEnd(errors[i]), end)
    BY <1>1, <2>2, <2>3, <2>4 DEF Least, RangeEnd
  <2>7. RangeEnd(errors[i]) \in Nat
    BY <1>1, <2>2 DEF RangeEnd
  <2> QED
    BY <2>1, <2>2, <2>5, <2>6, <2>7 DEF RangeType
<1> DEFINE c == Clip(errors, end)
<1> HIDE DEF I, kept
<1>8. c \in Seq(RangeType) /\ DOMAIN c = 1..N
  <2>1. c \in [1..N -> RangeType]
    BY <1>3, <1>6, <1>7
  <2> QED
    BY <1>2, <2>1
<1>9. \A k \in 1..N : c[k] = clipped(errors[Nth(I, k)])
  BY <1>6
<1> HIDE DEF c
<1>10. \A k \in DOMAIN c : RangeEnd(c[k]) <= end
  <2> TAKE k \in DOMAIN c
  <2>1. RangeEnd(c[k]) = Least(RangeEnd(errors[Nth(I, k)]), end)
        /\ RangeEnd(errors[Nth(I, k)]) \in Nat
    <3> HIDE DEF clipped
    <3> QED
      BY <1>3, <1>7, <1>8, <1>9
  <2> QED
    BY <2>1 DEF Least
<1>11. Gapped(c)
  <2> SUFFICES ASSUME NEW j \in 1..N, NEW k \in 1..N, j < k
               PROVE  RangeEnd(c[j]) < c[k].first
    BY <1>8 DEF Gapped
  <2> DEFINE x == Nth(I, j)
             y == Nth(I, k)
  <2>1. x \in I /\ y \in I /\ x < y
    BY <1>3, <1>5
  <2>2. RangeEnd(errors[x]) < errors[y].first
    BY <1>2, <2>1 DEF Table, Gapped
  <2>3. RangeEnd(c[j]) = Least(RangeEnd(errors[x]), end) /\ c[k].first = errors[y].first
    <3>1. c[j] = clipped(errors[x]) /\ c[k] = clipped(errors[y])
      BY <1>9
    <3>2. RangeEnd(clipped(errors[x])) = Least(RangeEnd(errors[x]), end)
      BY <1>7, <2>1
    <3>3. clipped(errors[y]).first = errors[y].first
      OBVIOUS
    <3> HIDE DEF clipped, x, y
    <3> QED
      BY <3>1, <3>2, <3>3
  <2>4. RangeEnd(errors[x]) \in Nat /\ errors[y].first \in Nat
    <3>1. RangeEnd(errors[x]) \in Nat /\ errors[y] \in RangeType
      BY <1>7, <2>1
    <3> QED
      BY <1>1, <3>1 DEF RangeType
  <2> HIDE DEF x, y
  <2> QED
    BY <2>2, <2>3, <2>4 DEF Least
<1>12. ASSUME NEW i \in 1..end, NEW x \in I
       PROVE  /\ clipped(errors[x]).first < i /\ i <= RangeEnd(clipped(errors[x]))
                    <=> errors[x].first < i /\ i <= RangeEnd(errors[x])
  BY <1>7 DEF Least
<1>13. ASSUME NEW i \in 1..end, InTable(c, i) PROVE InTable(errors, i)
  <2>1. PICK k \in 1..N : c[k].first < i /\ i <= RangeEnd(c[k])
    BY <1>8, <1>13 DEF InTable
  <2>2. Nth(I, k) \in I /\ Nth(I, k) \in DOMAIN errors
    BY <1>2, <1>3
  <2> HIDE DEF clipped
  <2>3. errors[Nth(I, k)].first < i /\ i <= RangeEnd(errors[Nth(I, k)])
    BY <1>9, <1>12, <2>1, <2>2
  <2> QED
    BY <2>2, <2>3 DEF InTable
<1>14. ASSUME NEW i \in 1..end, InTable(errors, i) PROVE InTable(c, i)
  <2>1. PICK x \in DOMAIN errors : errors[x].first < i /\ i <= RangeEnd(errors[x])
    BY <1>14 DEF InTable
  <2>2. errors[x] \in RangeType
    BY <1>1
  <2>3. x \in I
    BY <2>1, <2>2 DEF I, RangeType
  <2>4. PICK k \in 1..N : Nth(I, k) = x
    BY <1>4, <2>3
  <2> HIDE DEF clipped
  <2>5. c[k].first < i /\ i <= RangeEnd(c[k])
    BY <1>9, <1>12, <2>1, <2>3, <2>4
  <2> QED
    BY <1>8, <2>5 DEF InTable
<1> QED
  BY <1>8, <1>10, <1>11, <1>13, <1>14 DEF Table, c

\* A table up to one sector is a table up to a later one.
LEMMA TableExtends ==
    ASSUME NEW errors, NEW a \in Nat, NEW b \in Nat, a <= b, Table(errors, a)
    PROVE  Table(errors, b)
<1>1. Size \in Nat
  BY AcquisitionAssumption
<1>2. ASSUME NEW k \in DOMAIN errors PROVE RangeEnd(errors[k]) <= b
  <2>1. errors[k] \in RangeType /\ RangeEnd(errors[k]) <= a
    BY DEF Table
  <2> QED
    BY <1>1, <2>1 DEF RangeType, RangeEnd
<1> QED
  BY <1>2 DEF Table

\* The next sector is recorded, and nothing else changes.
LEMMA RecordedProperties ==
    ASSUME NEW errors, NEW sector \in Nat, sector < Size, Table(errors, sector)
    PROVE  LET more == RecordSubstitution(errors, sector)
           IN  /\ Table(more, sector + 1)
               /\ InTable(more, sector + 1)
               /\ \A i \in 1..sector : InTable(more, i) <=> InTable(errors, i)
<1> DEFINE more == RecordSubstitution(errors, sector)
<1>0. errors \in Seq(RangeType)
  BY DEF Table
<1>1. PICK n \in Nat : /\ errors \in Seq(RangeType) /\ Size \in Nat
                      /\ n = Len(errors) /\ DOMAIN errors = 1..n
  BY <1>0, AcquisitionAssumption
<1>2. ASSUME NEW k \in 1..n
      PROVE  /\ errors[k] \in RangeType /\ RangeEnd(errors[k]) <= sector
             /\ errors[k].first \in Nat /\ errors[k].count \in Nat
             /\ RangeEnd(errors[k]) = errors[k].first + errors[k].count
  <2>1. errors[k] \in RangeType /\ RangeEnd(errors[k]) <= sector
    BY <1>1 DEF Table
  <2> QED
    BY <1>1, <2>1 DEF RangeType, RangeEnd
<1>3. CASE Extends(errors, sector)
  <2>1. n # 0 /\ n \in 1..n /\ RangeEnd(errors[n]) = sector
    BY <1>1, <1>3 DEF Extends, Last
  <2> DEFINE last == [first |-> errors[n].first, count |-> errors[n].count + 1]
  <2>2. errors[n].first \in 0..Size /\ errors[n].count \in 1..Size
        /\ errors[n] = [first |-> errors[n].first, count |-> errors[n].count]
    <3>1. errors[n] \in RangeType
      BY <1>2, <2>1
    <3> QED
      BY <3>1 DEF RangeType
  <2>3. last \in RangeType
    <3>1. errors[n].count + 1 \in 1..Size
      BY <1>1, <1>2, <2>1, <2>2
    <3> QED
      BY <2>2, <3>1 DEF RangeType
  <2>4. [errors[n] EXCEPT !.count = @ + 1] = last
    BY <2>2
  <2>5. more = [errors EXCEPT ![n] = last]
    <3>1. more = [errors EXCEPT ![n].count = @ + 1]
      BY <1>1, <1>3 DEF RecordSubstitution
    <3>2. more = [errors EXCEPT ![n] = [errors[n] EXCEPT !.count = @ + 1]]
      BY <1>1, <2>1, <3>1
    <3> HIDE DEF last, more
    <3> QED
      BY <2>4, <3>2
  <2>6. RangeEnd(last) = sector + 1
    BY <1>2, <2>1 DEF RangeEnd
  <2>7. last.first = errors[n].first
    OBVIOUS
  <2> HIDE DEF last, more
  <2>8. /\ more \in Seq(RangeType) /\ DOMAIN more = 1..n
        /\ \A k \in 1..n : k # n => more[k] = errors[k]
        /\ more[n] = last
    BY <1>1, <2>1, <2>3, <2>5
  <2>9. \A k \in 1..n : k # n => RangeEnd(errors[k]) < errors[n].first
    <3>1. \A k \in 1..n : k # n => k < n
      OBVIOUS
    <3> QED
      BY <1>1, <2>1, <3>1 DEF Table, Gapped
  <2>10. Gapped(more)
    <3> SUFFICES ASSUME NEW j \in 1..n, NEW k \in 1..n, j < k
                 PROVE  RangeEnd(more[j]) < more[k].first
      BY <2>8 DEF Gapped
    <3>1. RangeEnd(errors[j]) < errors[k].first
      BY <1>1 DEF Table, Gapped
    <3>2. j # n
      OBVIOUS
    <3> QED
      BY <2>7, <2>8, <3>1, <3>2
  <2>11. \A k \in 1..n : RangeEnd(more[k]) <= sector + 1
    <3> TAKE k \in 1..n
    <3>1. CASE k = n
      BY <2>6, <2>8, <3>1
    <3>2. CASE k # n
      <4>1. more[k] = errors[k] /\ errors[k] \in RangeType /\ RangeEnd(errors[k]) <= sector
        BY <1>2, <2>8, <3>2
      <4>2. RangeEnd(errors[k]) \in Nat
        BY <4>1, RangeFields
      <4> QED
        BY <4>1, <4>2
    <3> QED
      BY <3>1, <3>2
  <2>12. ASSUME NEW i \in 1..sector
         PROVE  InTable(more, i) <=> InTable(errors, i)
    <3>1. \A k \in 1..n : (more[k].first < i /\ i <= RangeEnd(more[k]))
                             <=> (errors[k].first < i /\ i <= RangeEnd(errors[k]))
      <4> TAKE k \in 1..n
      <4>1. CASE k = n
        BY <2>1, <2>6, <2>7, <2>8, <4>1
      <4>2. CASE k # n
        BY <2>8, <4>2
      <4> QED
        BY <4>1, <4>2
    <3> QED
      BY <1>1, <2>8, <3>1 DEF InTable
  <2>13. InTable(more, sector + 1)
    <3>1. errors[n].first < sector + 1
      BY <1>2, <2>1
    <3>2. more[n].first < sector + 1 /\ sector + 1 <= RangeEnd(more[n])
      BY <2>6, <2>7, <2>8, <3>1
    <3> QED
      BY <2>1, <2>8, <3>2 DEF InTable
  <2> QED
    BY <2>8, <2>10, <2>11, <2>12, <2>13 DEF Table, more
<1>4. CASE ~Extends(errors, sector)
  <2> DEFINE new == [first |-> sector, count |-> 1]
  <2>1. new \in RangeType /\ RangeEnd(new) = sector + 1 /\ new.first = sector
    BY <1>1 DEF RangeType, RangeEnd
  <2>2. more = Append(errors, new)
    BY <1>4 DEF RecordSubstitution
  <2> HIDE DEF new, more
  <2>3. /\ more \in Seq(RangeType) /\ DOMAIN more = 1..(n + 1)
        /\ \A k \in 1..n : more[k] = errors[k]
        /\ more[n + 1] = new
    BY <1>1, <2>1, <2>2
  <2>4. \A k \in 1..n : RangeEnd(errors[k]) < sector
    <3> TAKE k \in 1..n
    <3>1. n \in 1..n /\ RangeEnd(errors[n]) # sector
      BY <1>1, <1>4 DEF Extends, Last
    <3>2. CASE k = n
      BY <1>2, <3>1, <3>2
    <3>3. CASE k # n
      <4>1. k < n
        BY <3>3
      <4>2. RangeEnd(errors[k]) < errors[n].first
        BY <1>1, <3>1, <4>1 DEF Table, Gapped
      <4> QED
        BY <1>2, <3>1, <4>2
    <3> QED
      BY <3>2, <3>3
  <2>5. Gapped(more)
    <3> SUFFICES ASSUME NEW j \in 1..(n + 1), NEW k \in 1..(n + 1), j < k
                 PROVE  RangeEnd(more[j]) < more[k].first
      BY <2>3 DEF Gapped
    <3>1. j \in 1..n
      BY <1>1
    <3>2. CASE k = n + 1
      BY <2>1, <2>3, <2>4, <3>1, <3>2
    <3>3. CASE k # n + 1
      <4>1. k \in 1..n
        BY <1>1, <3>3
      <4>2. RangeEnd(errors[j]) < errors[k].first
        BY <1>1, <3>1, <4>1 DEF Table, Gapped
      <4> QED
        BY <2>3, <3>1, <4>1, <4>2
    <3> QED
      BY <3>2, <3>3
  <2>6. \A k \in 1..(n + 1) : RangeEnd(more[k]) <= sector + 1
    <3> TAKE k \in 1..(n + 1)
    <3>1. CASE k = n + 1
      BY <2>1, <2>3, <3>1
    <3>2. CASE k # n + 1
      <4>1. k \in 1..n
        BY <1>1, <3>2
      <4> QED
        BY <1>2, <2>3, <4>1
    <3> QED
      BY <3>1, <3>2
  <2>7. ASSUME NEW i \in 1..sector
        PROVE  InTable(more, i) <=> InTable(errors, i)
    <3>1. ~(more[n + 1].first < i)
      BY <2>1, <2>3
    <3>2. \A k \in 1..(n + 1) : k = n + 1 \/ k \in 1..n
      BY <1>1
    <3>3. \A k \in 1..n : k \in 1..(n + 1)
      BY <1>1
    <3> QED
      BY <1>1, <2>3, <3>1, <3>2, <3>3 DEF InTable
  <2>8. InTable(more, sector + 1)
    <3>1. more[n + 1].first < sector + 1 /\ sector + 1 <= RangeEnd(more[n + 1])
      BY <2>1, <2>3
    <3>2. n + 1 \in DOMAIN more
      BY <1>1, <2>3
    <3> QED
      BY <3>1, <3>2 DEF InTable
  <2> QED
    BY <2>3, <2>5, <2>6, <2>7, <2>8 DEF Table, more
<1> QED
  BY <1>3, <1>4

----------------------------------------------------------------------------
(* Media that is the source's but where a table says otherwise             *)

Value(errors, i) == IF InTable(errors, i) THEN Zero ELSE i
Holds(media, from, errors) == \A i \in 1..Len(media) : media[i] = Value(errors, from + i)

\* One after the other.
LEMMA HoldsConcat ==
    ASSUME NEW S, NEW a \in Seq(S), NEW b \in Seq(S), NEW from \in Nat, NEW errors,
           Holds(a, from, errors), Holds(b, from + Len(a), errors)
    PROVE  Holds(a \o b, from, errors)
<1> SUFFICES ASSUME NEW i \in 1..Len(a \o b)
             PROVE  (a \o b)[i] = Value(errors, from + i)
  BY DEF Holds
<1>1. Len(a) \in Nat /\ Len(b) \in Nat /\ Len(a \o b) = Len(a) + Len(b)
  OBVIOUS
<1>2. CASE i <= Len(a)
  BY <1>1, <1>2 DEF Holds
<1>3. CASE ~(i <= Len(a))
  <2>1. i - Len(a) \in 1..Len(b) /\ (a \o b)[i] = b[i - Len(a)]
    BY <1>1, <1>3
  <2>2. b[i - Len(a)] = Value(errors, (from + Len(a)) + (i - Len(a)))
    BY <2>1 DEF Holds
  <2>3. (from + Len(a)) + (i - Len(a)) = from + i
    BY <1>1, <2>1
  <2> QED
    BY <2>1, <2>2, <2>3
<1> QED
  BY <1>2, <1>3

\* By any table that agrees up to its end.
LEMMA HoldsAgrees ==
    ASSUME NEW S, NEW a \in Seq(S), NEW from \in Nat, NEW end \in Nat, from + Len(a) <= end,
           NEW errors, NEW other, Holds(a, from, errors),
           \A i \in 1..end : InTable(other, i) <=> InTable(errors, i)
    PROVE  Holds(a, from, other)
<1> SUFFICES ASSUME NEW i \in 1..Len(a) PROVE a[i] = Value(other, from + i)
  BY DEF Holds
<1>1. from + i \in 1..end
  OBVIOUS
<1> QED
  BY <1>1 DEF Holds, Value

----------------------------------------------------------------------------
(* Chunks and sectors                                                      *)

\* A number of sectors that fit c chunks take no more than c.
LEMMA CeilDivBound ==
    ASSUME NEW a \in Nat, NEW b \in Nat \ {0}, NEW c \in Nat, a <= c * b
    PROVE  CeilDiv(a, b) <= c
<1> DEFINE q == (a + b - 1) \div b
<1>1. q \in Nat /\ b * q <= a + b - 1
  OBVIOUS
<1>2. b * q < c * b + b
  <2>1. b * q \in Int /\ c * b \in Int
    BY <1>1
  <2> QED
    BY <1>1, <2>1
<1>3. q < c + 1
  <2> HIDE DEF q
  <2> SUFFICES ASSUME q >= c + 1 PROVE FALSE
    BY <1>1
  <2>1. b * q >= b * (c + 1)
    BY <1>1
  <2>2. b * (c + 1) = c * b + b
    OBVIOUS
  <2> QED
    BY <1>1, <1>2, <2>1, <2>2
<1> QED
  BY <1>1, <1>3 DEF CeilDiv

\* One chunk more.
LEMMA OneMoreChunk ==
    ASSUME NEW n \in Nat, NEW b \in Nat
    PROVE  n * b \in Nat /\ (n + 1) * b = n * b + b
OBVIOUS

\* A whole chunk more does not change where in a chunk an offset is.
LEMMA ModChunk ==
    ASSUME NEW a \in Nat, NEW b \in Nat \ {0}, a % b = 0
    PROVE  (a + b) % b = 0
<1>1. PICK q \in Nat : a = q * b
  <2>1. a \div b \in Nat /\ a = (a \div b) * b
    OBVIOUS
  <2> QED
    BY <2>1
<1>2. q + 1 \in Nat /\ a + b = (q + 1) * b
  BY <1>1
<1>3. \A n \in Nat : (n * b) % b = 0
  OBVIOUS
<1> QED
  BY <1>2, <1>3

----------------------------------------------------------------------------
(* Lists of sealed segments                                                *)

\* What holds of the segments a checkpoint acknowledges: load_checkpoint()
\* accepts their records, they decode to the source but for the sectors the
\* last one's table names, and it is complete exactly if they are.
Sound(seals) ==
    /\ seals \in Seq(SealType)
    /\ Len(seals) <= MaxSegs /\ Len(seals) <= EndOf(seals)
    /\ Geometry(seals)
    /\ Media(seals) \in MediaType /\ Len(Media(seals)) = EndOf(seals)
    /\ \A k \in DOMAIN seals : seals[k].digest.final = (seals[k].end = Size)
    /\ seals # <<>> => /\ Table(Last(seals).digest.errors, EndOf(seals))
                       /\ Holds(Media(seals), 0, Last(seals).digest.errors)
    /\ EndOf(seals) = Size => Last(seals).digest.hash = Media(seals)

LEMMA ConstantsType ==
    /\ Size \in Nat \ {0} /\ ChunkSectors \in Nat \ {0} /\ SegChunks \in Nat \ {0}
    /\ BulkChunks \in Nat \ {0} /\ MaxSegs \in Nat \ {0} /\ MaxRanges \in Nat \ {0}
    /\ \A i \in Intervals : i \in Nat
BY AcquisitionAssumption

\* Where they end.
LEMMA EndType ==
    ASSUME NEW seals \in Seq(SealType)
    PROVE  /\ EndOf(seals) \in 0..Size
           /\ seals # <<>> => EndOf(seals) = seals[Len(seals)].end
           /\ seals = <<>> => EndOf(seals) = 0
<1>1. CASE seals = <<>>
  BY <1>1, ConstantsType DEF EndOf
<1>2. CASE seals # <<>>
  <2>1. Last(seals) \in SealType /\ Last(seals) = seals[Len(seals)]
    BY <1>2 DEF Last
  <2> QED
    BY <1>2, <2>1, ConstantsType DEF EndOf, SealType
<1> QED
  BY <1>1, <1>2

\* Media behind media.
LEMMA MediaConcat ==
    ASSUME NEW a \in MediaType, NEW b \in MediaType
    PROVE  /\ a \o b \in MediaType
           /\ Len(a \o b) = Len(a) + Len(b)
           /\ Len(a) \in Nat /\ Len(b) \in Nat
BY DEF MediaType

LEMMA MediaAssociative ==
    ASSUME NEW a \in MediaType, NEW b \in MediaType, NEW c \in MediaType
    PROVE  (a \o b) \o c = a \o (b \o c)
BY ConcatAssociative DEF MediaType

\* The segments of one checkpoint and one more that continues them.
LEMMA SoundAppend ==
    ASSUME NEW seals, Sound(seals), NEW seal \in SealType,
           Len(seals) < MaxSegs,
           EndOf(seals) < seal.end,
           seal.end < Size => seal.end % ChunkSectors = 0,
           CeilDiv(seal.end - EndOf(seals), ChunkSectors) <= SegChunks,
           Len(seal.digest.media) = seal.end - EndOf(seals),
           seal.digest.final = (seal.end = Size),
           Table(seal.digest.errors, seal.end),
           Holds(Media(seals) \o seal.digest.media, 0, seal.digest.errors),
           seal.end = Size => seal.digest.hash = Media(seals) \o seal.digest.media
    PROVE  /\ Sound(Append(seals, seal))
           /\ EndOf(Append(seals, seal)) = seal.end
           /\ Media(Append(seals, seal)) = Media(seals) \o seal.digest.media
<1> DEFINE more == Append(seals, seal)
<1>1. PICK n \in Nat : n = Len(seals) /\ seals \in Seq(SealType)
  BY DEF Sound
<1>2. /\ more \in Seq(SealType) /\ Len(more) = n + 1 /\ more # <<>>
      /\ \A k \in 1..n : more[k] = seals[k]
      /\ more[n + 1] = seal /\ DOMAIN more = 1..(n + 1) /\ DOMAIN seals = 1..n
  BY <1>1
<1>3. Media(more) = Media(seals) \o seal.digest.media
  BY <1>1, MediaAppend
<1>4. Last(more) = seal /\ EndOf(more) = seal.end
  <2>1. Last(more) = seal
    BY <1>2 DEF Last
  <2> QED
    BY <1>2, <2>1 DEF EndOf
<1>5. seal.digest.media \in MediaType /\ seal.end \in 1..Size
  BY DEF SealType, SegmentType
<1>6. Media(more) \in MediaType /\ Len(Media(more)) = seal.end
  <2>1. Media(seals) \in MediaType /\ Len(Media(seals)) = EndOf(seals) /\ EndOf(seals) \in 0..Size
    BY <1>1, EndType DEF Sound
  <2>2. Media(more) \in MediaType
    BY <1>3, <1>5, <2>1, MediaConcat
  <2>3. Len(Media(more)) = Len(Media(seals)) + Len(seal.digest.media)
    BY <1>3, <1>5, <2>1, MediaConcat
  <2> QED
    BY <1>5, <2>1, <2>2, <2>3, ConstantsType
<1> HIDE DEF more
<1>7. Geometry(more)
  <2> SUFFICES ASSUME NEW k \in 1..(n + 1)
               PROVE  LET end == more[k].end
                          previous == IF k = 1 THEN 0 ELSE more[k - 1].end
                      IN  /\ previous < end /\ end <= Size
                          /\ end < Size => end % ChunkSectors = 0
                          /\ CeilDiv(end - previous, ChunkSectors) <= SegChunks
    BY <1>2 DEF Geometry
  <2>1. CASE k = n + 1
    <3>1. more[k].end = seal.end
      BY <1>2, <2>1
    <3>2. EndOf(seals) = IF k = 1 THEN 0 ELSE more[k - 1].end
      <4>1. CASE n = 0
        <5>1. seals = <<>>
          BY <1>1, <4>1, EmptySeq
        <5>2. EndOf(seals) = 0
          BY <1>1, <5>1, EndType
        <5> QED
          BY <2>1, <4>1, <5>2
      <4>2. CASE n # 0
        <5>1. k - 1 = n /\ k # 1 /\ seals # <<>> /\ n \in 1..n
          BY <1>1, <2>1, <4>2
        <5>2. EndOf(seals) = seals[n].end
          BY <1>1, <5>1, EndType
        <5> QED
          BY <1>2, <5>1, <5>2
      <4> QED
        BY <4>1, <4>2
    <3> QED
      BY <1>5, <3>1, <3>2
  <2>2. CASE k # n + 1
    <3>1. k \in 1..n /\ (k # 1 => k - 1 \in 1..n)
      BY <2>2
    <3>2. more[k] = seals[k] /\ (k # 1 => more[k - 1] = seals[k - 1])
      BY <1>2, <3>1
    <3>3. Geometry(seals)
      BY DEF Sound
    <3> QED
      BY <1>2, <3>1, <3>2, <3>3 DEF Geometry
  <2> QED
    BY <2>1, <2>2
<1>8. ASSUME NEW k \in 1..(n + 1) PROVE more[k].digest.final = (more[k].end = Size)
  <2>1. CASE k = n + 1
    BY <1>2, <2>1
  <2>2. CASE k # n + 1
    <3>1. k \in 1..n
      BY <2>2
    <3> QED
      BY <1>2, <3>1 DEF Sound
  <2> QED
    BY <2>1, <2>2
<1>9. n + 1 <= MaxSegs /\ n + 1 <= seal.end
  <2>1. n <= EndOf(seals) /\ EndOf(seals) \in 0..Size
    BY <1>1, EndType DEF Sound
  <2> QED
    BY <1>1, <1>5, <2>1, ConstantsType
<1>10. Sound(more)
  BY <1>2, <1>3, <1>4, <1>6, <1>7, <1>8, <1>9 DEF Sound
<1> QED
  BY <1>3, <1>4, <1>10 DEF more

\* No segments at all are a sound list.
LEMMA SoundEmpty == Sound(<<>>) /\ EndOf(<<>>) = 0
<1>1. EndOf(<<>>) = 0
  BY DEF EndOf
<1>2. Media(<<>>) = <<>> /\ <<>> \in MediaType /\ Len(<<>>) = 0 /\ DOMAIN <<>> = {}
  BY MediaEmpty DEF MediaType
<1>3. <<>> \in Seq(SealType)
  OBVIOUS
<1> QED
  BY <1>1, <1>2, <1>3, ConstantsType DEF Sound, Geometry

----------------------------------------------------------------------------
(* The writer                                                              *)

WriterType == [open : BOOLEAN, offset : 0..Size, pending : MediaType, spool : MediaType,
               chunks : 0..SegChunks, hashed : MediaType, sealed : Seq(SealType),
               errors : ErrorsType, failed : BOOLEAN]

\* How much it has hashed, holds of a chunk and has spooled.
HashedLen(v) == Len(v.hashed)
PendingLen(v) == Len(v.pending)
SpoolLen(v) == Len(v.spool)

\* What a writer's fields say of each other: it has hashed what it sealed and
\* what it spooled, in whole chunks but at the end of the source, and all it has
\* taken is the source's but for its table.
Consistent(v) ==
    /\ v \in WriterType
    /\ Sound(v.sealed)
    /\ v.hashed = Media(v.sealed) \o v.spool
    /\ v.offset = HashedLen(v) + PendingLen(v)
    /\ PendingLen(v) < ChunkSectors /\ (v.offset = Size => v.pending = <<>>)
    /\ HashedLen(v) < Size => HashedLen(v) % ChunkSectors = 0
    /\ SpoolLen(v) <= v.chunks * ChunkSectors /\ (SpoolLen(v) = 0 <=> v.chunks = 0)
    /\ Table(v.errors, v.offset)
    /\ Holds(v.hashed, 0, v.errors) /\ Holds(v.pending, HashedLen(v), v.errors)

\* What else append() promises.
Advances(v, n) ==
    /\ v.open = w.open /\ v.failed = w.failed /\ v.sealed = w.sealed
    /\ v.offset = w.offset + n
    /\ \/ v.pending = <<>> /\ v.chunks = w.chunks + 1
       \/ v.pending # <<>> /\ v.chunks = w.chunks /\ v.offset # Size
    /\ PendingLen(w) + n = ChunkSectors => v.pending = <<>>

\* The fields of the writer then.
HasFields(v, pending, offset, errors) ==
    /\ v.open = w.open /\ v.failed = w.failed /\ v.sealed = w.sealed
    /\ v.offset = offset /\ v.errors = errors
    /\ ChunkComplete(pending, offset) =>
          /\ v.pending = <<>> /\ v.chunks = w.chunks + 1
          /\ v.spool = w.spool \o pending /\ v.hashed = w.hashed \o pending
    /\ ~ChunkComplete(pending, offset) =>
          /\ v.pending = pending /\ v.chunks = w.chunks
          /\ v.spool = w.spool /\ v.hashed = w.hashed
    /\ v = [open |-> v.open, offset |-> v.offset, pending |-> v.pending,
            spool |-> v.spool, chunks |-> v.chunks, hashed |-> v.hashed,
            sealed |-> v.sealed, errors |-> v.errors, failed |-> v.failed]

LEMMA AppendedFields ==
    ASSUME w \in WriterType, NEW sectors
    PROVE  HasFields(Appended(sectors), w.pending \o sectors, w.offset + Len(sectors), w.errors)
<1> DEFINE pending == w.pending \o sectors
           offset == w.offset + Len(sectors)
<1>1. CASE ChunkComplete(pending, offset)
  <2>1. Appended(sectors) =
            [w EXCEPT !.offset = offset, !.pending = <<>>, !.spool = @ \o pending,
                      !.chunks = @ + 1, !.hashed = @ \o pending]
    BY <1>1 DEF Appended
  <2> HIDE DEF pending, offset
  <2> QED
    BY <1>1, <2>1 DEF WriterType, HasFields, pending, offset
<1>2. CASE ~ChunkComplete(pending, offset)
  <2>1. Appended(sectors) = [w EXCEPT !.offset = offset, !.pending = pending]
    BY <1>2 DEF Appended
  <2> HIDE DEF pending, offset
  <2> QED
    BY <1>2, <2>1 DEF WriterType, HasFields, pending, offset
<1> QED
  BY <1>1, <1>2

LEMMA TakenFields ==
    ASSUME w \in WriterType, NEW sectors, NEW errors
    PROVE  HasFields([Appended(sectors) EXCEPT !.errors = errors],
                     w.pending \o sectors, w.offset + Len(sectors), errors)
<1>1. PICK v : v = Appended(sectors)
  OBVIOUS
<1>2. HasFields(v, w.pending \o sectors, w.offset + Len(sectors), w.errors)
  BY <1>1, AppendedFields
<1>3. PICK t : t = [v EXCEPT !.errors = errors]
  OBVIOUS
<1>4. HasFields(t, w.pending \o sectors, w.offset + Len(sectors), errors)
  BY <1>2, <1>3 DEF HasFields
<1> QED
  BY <1>1, <1>3, <1>4

\* Taking sectors keeps the writer consistent.
LEMMA TakenProperties ==
    ASSUME Consistent(w), NEW sectors \in MediaType, NEW errors, NEW v,
           HasFields(v, w.pending \o sectors, w.offset + Len(sectors), errors),
           Len(sectors) > 0, PendingLen(w) + Len(sectors) <= ChunkSectors,
           w.offset + Len(sectors) <= Size, w.chunks < SegChunks,
           Table(errors, w.offset + Len(sectors)),
           \A i \in 1..w.offset : InTable(errors, i) <=> InTable(w.errors, i),
           Holds(sectors, w.offset, errors)
    PROVE  Consistent(v) /\ Advances(v, Len(sectors))
<1> DEFINE pending == w.pending \o sectors
           offset == w.offset + Len(sectors)
<1>1. /\ w \in WriterType /\ w.pending \in MediaType /\ w.hashed \in MediaType
      /\ w.spool \in MediaType /\ w.offset \in 0..Size /\ w.chunks \in 0..SegChunks
      /\ w.sealed \in Seq(SealType) /\ w.open \in BOOLEAN /\ w.failed \in BOOLEAN
      /\ Media(w.sealed) \in MediaType /\ errors \in ErrorsType
  <2>1. w \in WriterType /\ errors \in ErrorsType
    BY DEF Consistent, Table, ErrorsType, RangeType
  <2>2. Media(w.sealed) \in MediaType
    BY DEF Consistent, Sound
  <2> QED
    BY <2>1, <2>2 DEF WriterType
<1>3. /\ v.open = w.open /\ v.failed = w.failed /\ v.sealed = w.sealed
      /\ v.offset = offset /\ v.errors = errors
      /\ ChunkComplete(pending, offset) =>
            /\ v.pending = <<>> /\ v.chunks = w.chunks + 1
            /\ v.spool = w.spool \o pending /\ v.hashed = w.hashed \o pending
      /\ ~ChunkComplete(pending, offset) =>
            /\ v.pending = pending /\ v.chunks = w.chunks
            /\ v.spool = w.spool /\ v.hashed = w.hashed
      /\ v = [open |-> v.open, offset |-> v.offset, pending |-> v.pending,
              spool |-> v.spool, chunks |-> v.chunks, hashed |-> v.hashed,
              sealed |-> v.sealed, errors |-> v.errors, failed |-> v.failed]
  <2> HIDE DEF pending, offset
  <2>1. HasFields(v, pending, offset, errors)
    BY DEF pending, offset
  <2> QED
    BY <2>1 DEF HasFields
<1>4. /\ pending \in MediaType /\ Len(pending) = PendingLen(w) + Len(sectors)
      /\ PendingLen(w) \in Nat /\ Len(sectors) \in Nat
      /\ HashedLen(w) \in Nat /\ SpoolLen(w) \in Nat
  BY <1>1, MediaConcat DEF HashedLen, PendingLen, SpoolLen
<1>5. w.offset = HashedLen(w) + PendingLen(w) /\ HashedLen(w) <= w.offset /\ w.offset \in Nat
  <2>1. w.offset = HashedLen(w) + PendingLen(w)
    BY DEF Consistent
  <2> QED
    BY <1>4, <2>1
<1>6. Holds(w.hashed, 0, errors)
  <2>1. Holds(w.hashed, 0, w.errors)
    BY DEF Consistent
  <2>2. 0 + HashedLen(w) <= w.offset
    BY <1>4, <1>5
  <2> QED
    BY <1>1, <1>5, <2>1, <2>2, HoldsAgrees DEF MediaType, HashedLen
<1>7. Holds(pending, HashedLen(w), errors)
  <2>1. Holds(w.pending, HashedLen(w), w.errors)
    BY DEF Consistent
  <2>2. Holds(w.pending, HashedLen(w), errors)
    <3>1. HashedLen(w) + PendingLen(w) <= w.offset
      BY <1>4, <1>5
    <3> QED
      BY <1>1, <1>4, <1>5, <2>1, <3>1, HoldsAgrees DEF MediaType, PendingLen
  <2>3. Holds(sectors, HashedLen(w) + PendingLen(w), errors)
    BY <1>5
  <2> QED
    BY <1>1, <1>4, <2>2, <2>3, HoldsConcat DEF MediaType, PendingLen
<1>8. Sound(v.sealed) /\ Table(v.errors, v.offset) /\ offset \in 0..Size
  <2>1. Sound(w.sealed)
    BY DEF Consistent
  <2>2. offset \in 0..Size
    BY <1>4, <1>5, ConstantsType
  <2> QED
    BY <1>3, <2>1, <2>2
<1>9. /\ SpoolLen(w) <= w.chunks * ChunkSectors
      /\ SpoolLen(w) = 0 <=> w.chunks = 0
      /\ w.hashed = Media(w.sealed) \o w.spool
      /\ HashedLen(w) < Size => HashedLen(w) % ChunkSectors = 0
  BY DEF Consistent
<1> HIDE DEF pending, offset
<1>10. CASE ChunkComplete(pending, offset)
  <2>1. /\ v.pending = <<>> /\ v.chunks = w.chunks + 1
        /\ v.spool = w.spool \o pending /\ v.hashed = w.hashed \o pending
    BY <1>3, <1>10
  <2>2. /\ v.spool \in MediaType /\ v.hashed \in MediaType /\ v.pending \in MediaType
        /\ SpoolLen(v) = SpoolLen(w) + Len(pending)
        /\ HashedLen(v) = HashedLen(w) + Len(pending) /\ PendingLen(v) = 0
    <3>1. <<>> \in MediaType /\ Len(<<>>) = 0
      BY DEF MediaType
    <3>2. v.spool \in MediaType /\ SpoolLen(v) = SpoolLen(w) + Len(pending)
      <4>1. PICK a \in MediaType : a = w.spool
        BY <1>1
      <4>2. a \o pending \in MediaType /\ Len(a \o pending) = Len(a) + Len(pending)
        BY <1>4, MediaConcat
      <4>3. v.spool = a \o pending /\ SpoolLen(v) = Len(a \o pending) /\ SpoolLen(w) = Len(a)
        BY <2>1, <4>1 DEF SpoolLen
      <4> QED
        BY <4>2, <4>3
    <3>3. v.hashed \in MediaType /\ HashedLen(v) = HashedLen(w) + Len(pending)
      <4>1. PICK a \in MediaType : a = w.hashed
        BY <1>1
      <4>2. a \o pending \in MediaType /\ Len(a \o pending) = Len(a) + Len(pending)
        BY <1>4, MediaConcat
      <4>3. v.hashed = a \o pending /\ HashedLen(v) = Len(a \o pending) /\ HashedLen(w) = Len(a)
        BY <2>1, <4>1 DEF HashedLen
      <4> QED
        BY <4>2, <4>3
    <3> QED
      BY <2>1, <3>1, <3>2, <3>3 DEF PendingLen
  <2>3. v.chunks \in 0..SegChunks
    BY <1>1, <2>1, ConstantsType
  <2>4. v \in WriterType
    <3> DEFINE u == v
    <3>1. /\ v.open \in BOOLEAN /\ v.offset \in 0..Size /\ v.sealed \in Seq(SealType)
          /\ v.errors \in ErrorsType /\ v.failed \in BOOLEAN
      BY <1>1, <1>3, <1>8
    <3> QED
      BY <1>3, <2>2, <2>3, <3>1 DEF WriterType
  <2>5. v.hashed = Media(v.sealed) \o v.spool
    <3>1. (Media(w.sealed) \o w.spool) \o pending = Media(w.sealed) \o (w.spool \o pending)
      BY <1>1, <1>4, MediaAssociative
    <3> QED
      BY <1>3, <1>9, <2>1, <3>1
  <2>6. v.offset = HashedLen(v) + PendingLen(v)
    <3>1. v.offset = w.offset + Len(sectors)
      BY <1>3 DEF offset
    <3> QED
      BY <1>4, <1>5, <2>2, <3>1
  <2>7. HashedLen(v) < Size => HashedLen(v) % ChunkSectors = 0
    <3> SUFFICES ASSUME HashedLen(v) < Size PROVE HashedLen(v) % ChunkSectors = 0
      OBVIOUS
    <3>1. offset = HashedLen(v)
      BY <1>3, <1>4, <2>2, <2>6
    <3>2. Len(pending) = ChunkSectors
      BY <1>10, <3>1, ConstantsType DEF ChunkComplete
    <3>3. HashedLen(w) < Size
      <4>1. HashedLen(v) = HashedLen(w) + ChunkSectors
        BY <2>2, <3>2
      <4> QED
        BY <1>4, <4>1, ConstantsType
    <3> QED
      BY <1>4, <1>9, <2>2, <3>2, <3>3, ModChunk, ConstantsType
  <2>8. SpoolLen(v) <= v.chunks * ChunkSectors /\ SpoolLen(v) # 0 /\ v.chunks # 0
    <3>1. (w.chunks + 1) * ChunkSectors = w.chunks * ChunkSectors + ChunkSectors
          /\ w.chunks * ChunkSectors \in Nat
      <4>1. w.chunks \in Nat
        BY <1>1, ConstantsType
      <4> QED
        BY <4>1, OneMoreChunk, ConstantsType
    <3>2. Len(pending) <= ChunkSectors /\ Len(pending) > 0
      BY <1>4, ConstantsType
    <3>3. v.chunks * ChunkSectors = (w.chunks + 1) * ChunkSectors /\ v.chunks # 0
      BY <1>1, <2>1, ConstantsType
    <3>4. PICK most \in Nat : most = w.chunks * ChunkSectors
      BY <3>1
    <3>5. v.chunks * ChunkSectors = most + ChunkSectors /\ SpoolLen(w) <= most
      BY <1>9, <3>1, <3>3, <3>4
    <3>6. SpoolLen(v) = SpoolLen(w) + Len(pending) /\ Len(pending) \in Nat
      BY <1>4, <2>2
    <3> QED
      BY <1>4, <3>2, <3>3, <3>5, <3>6, ConstantsType
  <2>9. Holds(v.hashed, 0, v.errors) /\ Holds(v.pending, HashedLen(v), v.errors)
    <3>1. Holds(pending, 0 + HashedLen(w), errors)
      BY <1>4, <1>7
    <3>2. Holds(w.hashed \o pending, 0, errors)
      BY <1>1, <1>4, <1>6, <3>1, HoldsConcat DEF MediaType, HashedLen
    <3>3. Holds(v.pending, HashedLen(v), v.errors)
      BY <2>2 DEF Holds, PendingLen
    <3> QED
      BY <1>3, <2>1, <3>2, <3>3
  <2>10. PendingLen(v) < ChunkSectors
    BY <2>2, ConstantsType
  <2>11. Consistent(v)
    BY <1>8, <2>1, <2>4, <2>5, <2>6, <2>7, <2>8, <2>9, <2>10 DEF Consistent
  <2>12. Advances(v, Len(sectors))
    BY <1>3, <2>1 DEF Advances, offset
  <2> QED
    BY <2>11, <2>12
<1>11. CASE ~ChunkComplete(pending, offset)
  <2>1. /\ v.pending = pending /\ v.chunks = w.chunks
        /\ v.spool = w.spool /\ v.hashed = w.hashed
        /\ PendingLen(v) = Len(pending) /\ SpoolLen(v) = SpoolLen(w) /\ HashedLen(v) = HashedLen(w)
    BY <1>3, <1>11 DEF PendingLen, SpoolLen, HashedLen
  <2>2. v \in WriterType
    <3>1. /\ v.open \in BOOLEAN /\ v.offset \in 0..Size /\ v.sealed \in Seq(SealType)
          /\ v.errors \in ErrorsType /\ v.failed \in BOOLEAN
          /\ v.spool \in MediaType /\ v.hashed \in MediaType /\ v.pending \in MediaType
          /\ v.chunks \in 0..SegChunks
      BY <1>1, <1>3, <1>4, <1>8, <2>1
    <3> QED
      BY <1>3, <3>1 DEF WriterType
  <2>3. v.offset = HashedLen(v) + PendingLen(v)
    <3>1. v.offset = w.offset + Len(sectors)
      BY <1>3 DEF offset
    <3> QED
      BY <1>4, <1>5, <2>1, <3>1
  <2>4. PendingLen(v) < ChunkSectors /\ v.offset # Size /\ v.pending # <<>>
    <3>1. Len(pending) # ChunkSectors /\ offset # Size
      BY <1>11 DEF ChunkComplete
    <3>2. Len(pending) <= ChunkSectors /\ Len(pending) > 0
      BY <1>4, ConstantsType
    <3>3. pending # <<>>
      BY <3>2
    <3> QED
      BY <1>3, <1>4, <2>1, <3>1, <3>2, <3>3, ConstantsType
  <2>5. Consistent(v)
    BY <1>3, <1>6, <1>7, <1>8, <1>9, <2>1, <2>2, <2>3, <2>4 DEF Consistent
  <2>6. PendingLen(w) + Len(sectors) # ChunkSectors
    BY <1>4, <2>1, <2>4
  <2>7. Advances(v, Len(sectors))
    BY <1>3, <2>1, <2>4, <2>6 DEF Advances, offset
  <2> QED
    BY <2>5, <2>7
<1> QED
  BY <1>10, <1>11

\* A writer that begins behind the segments of a checkpoint.
Begins(v, seals) ==
    /\ v.offset = EndOf(seals) /\ v.hashed = Media(seals) /\ v.sealed = seals
    /\ v.pending = <<>> /\ v.spool = <<>> /\ v.chunks = 0
    /\ v.errors = (IF seals = <<>> THEN <<>> ELSE Last(seals).digest.errors)
    /\ v \in WriterType

\* A checkpoint that is not complete ends with a whole chunk.
LEMMA SoundEnd ==
    ASSUME NEW seals, Sound(seals)
    PROVE  /\ EndOf(seals) \in 0..Size
           /\ EndOf(seals) < Size => EndOf(seals) % ChunkSectors = 0
           /\ EndOf(seals) = Size => seals # <<>>
<1>1. seals \in Seq(SealType) /\ Geometry(seals)
  BY DEF Sound
<1>2. CASE seals = <<>>
  <2>1. EndOf(seals) = 0
    BY <1>1, <1>2, EndType
  <2>2. 0 % ChunkSectors = 0
    BY ConstantsType
  <2> QED
    BY <2>1, <2>2, ConstantsType
<1>3. CASE seals # <<>>
  <2>1. PICK n \in Nat \ {0} : n = Len(seals)
    BY <1>1, <1>3, EmptySeq
  <2>2. n \in DOMAIN seals /\ EndOf(seals) = seals[n].end
    BY <1>1, <1>3, <2>1, EndType
  <2>3. seals[n].end < Size => seals[n].end % ChunkSectors = 0
    BY <1>1, <2>2 DEF Geometry
  <2> QED
    BY <1>1, <1>3, <2>2, <2>3, EndType
<1> QED
  BY <1>2, <1>3

LEMMA BeginsConsistent ==
    ASSUME NEW seals, Sound(seals), NEW v, Begins(v, seals)
    PROVE  Consistent(v)
<1>1. /\ seals \in Seq(SealType) /\ EndOf(seals) \in 0..Size
      /\ Media(seals) \in MediaType /\ Len(Media(seals)) = EndOf(seals)
      /\ <<>> \in MediaType /\ Len(<<>>) = 0
  BY EndType DEF Sound, MediaType
<1>2. Table(v.errors, EndOf(seals)) /\ Holds(Media(seals), 0, v.errors)
  <2>1. CASE seals = <<>>
    <3>1. Media(seals) = <<>> /\ v.errors = <<>>
      BY <2>1, MediaEmpty DEF Begins
    <3>2. <<>> \in Seq(RangeType) /\ DOMAIN <<>> = {}
      OBVIOUS
    <3>3. Gapped(<<>>)
      BY <3>2 DEF Gapped
    <3>4. Holds(<<>>, 0, <<>>)
      BY <1>1 DEF Holds
    <3> QED
      BY <3>1, <3>2, <3>3, <3>4 DEF Table
  <2>2. CASE seals # <<>>
    BY <2>2 DEF Sound, Begins
  <2> QED
    BY <2>1, <2>2
<1>4. v \in WriterType
  BY DEF Begins
<1>5. HashedLen(v) = EndOf(seals) /\ PendingLen(v) = 0 /\ SpoolLen(v) = 0
  BY <1>1 DEF Begins, HashedLen, PendingLen, SpoolLen
<1>6. v.offset = HashedLen(v) + PendingLen(v) /\ SpoolLen(v) <= v.chunks * ChunkSectors
  <2>1. v.offset = EndOf(seals) /\ v.chunks = 0
    BY DEF Begins
  <2>2. 0 * ChunkSectors = 0
    BY ConstantsType
  <2> QED
    BY <1>1, <1>5, <2>1, <2>2, ConstantsType
<1>7. HashedLen(v) < Size => HashedLen(v) % ChunkSectors = 0
  BY <1>5, SoundEnd
<1>8. v.hashed = Media(v.sealed) \o v.spool
  <2>1. Media(seals) \o <<>> = Media(seals)
    BY <1>1, ConcatEmptySeq DEF MediaType
  <2> QED
    BY <2>1 DEF Begins
<1>9. Holds(v.pending, HashedLen(v), v.errors)
  BY <1>1 DEF Holds, Begins
<1>10. PendingLen(v) < ChunkSectors
  BY <1>5, ConstantsType
<1>11. /\ Sound(v.sealed) /\ v.pending = <<>> /\ (SpoolLen(v) = 0 <=> v.chunks = 0)
       /\ Table(v.errors, v.offset) /\ Holds(v.hashed, 0, v.errors)
  BY <1>2, <1>5 DEF Begins
<1> QED
  BY <1>4, <1>6, <1>7, <1>8, <1>9, <1>10, <1>11 DEF Consistent

\* The state of a writer at its creation, and of none.
LEMMA ClosedBegins ==
    /\ Begins(Closed, <<>>) /\ ~Closed.open /\ ~Closed.failed
    /\ Begins([Closed EXCEPT !.open = TRUE], <<>>)
    /\ [Closed EXCEPT !.open = TRUE].open /\ ~[Closed EXCEPT !.open = TRUE].failed
<1>1. Closed \in WriterType
  <2>1. <<>> \in MediaType /\ <<>> \in ErrorsType /\ <<>> \in Seq(SealType)
    BY DEF MediaType, ErrorsType
  <2>2. 0 \in 0..Size /\ 0 \in 0..SegChunks
    BY ConstantsType
  <2> QED
    BY <2>1, <2>2 DEF Closed, WriterType
<1>2. PICK c : c = Closed
  OBVIOUS
<1>3. Begins(c, <<>>) /\ ~c.open /\ ~c.failed
  BY <1>1, <1>2, SoundEmpty, MediaEmpty DEF Begins, Closed
<1>4. PICK v : v = [c EXCEPT !.open = TRUE]
  OBVIOUS
<1>5. Begins(v, <<>>) /\ v.open /\ ~v.failed
  <2>1. /\ v \in WriterType /\ v.open /\ v.failed = c.failed /\ v.sealed = c.sealed
        /\ v.offset = c.offset /\ v.pending = c.pending /\ v.spool = c.spool
        /\ v.chunks = c.chunks /\ v.hashed = c.hashed /\ v.errors = c.errors
    BY <1>1, <1>2, <1>4 DEF WriterType
  <2> QED
    BY <1>3, <2>1 DEF Begins
<1> QED
  BY <1>2, <1>3, <1>4, <1>5

\* The state of a writer that has resumed: there was nothing to merge in the
\* table of the last segment.
LEMMA ResumedBegins ==
    ASSUME NEW seals, Sound(seals)
    PROVE  Begins(Resumed(seals), seals) /\ Resumed(seals).open /\ ~Resumed(seals).failed
<1>1. (IF seals = <<>> THEN <<>> ELSE Normalize(Last(seals).digest.errors))
         = (IF seals = <<>> THEN <<>> ELSE Last(seals).digest.errors)
  <2>1. ASSUME seals # <<>>
        PROVE  Normalize(Last(seals).digest.errors) = Last(seals).digest.errors
    <3>1. Table(Last(seals).digest.errors, EndOf(seals)) /\ EndOf(seals) \in 0..Size
      BY <2>1, SoundEnd DEF Sound
    <3> QED
      BY <3>1, NormalizeIsIdentity, ConstantsType
  <2> QED
    BY <2>1
<1>2. PICK errors : errors = IF seals = <<>> THEN <<>> ELSE Last(seals).digest.errors
  OBVIOUS
<1>3. PICK end, media : end = EndOf(seals) /\ media = Media(seals)
  OBVIOUS
<1>4. Resumed(seals) = [Closed EXCEPT !.open = TRUE, !.offset = end, !.hashed = media,
                                      !.sealed = seals, !.errors = errors]
  BY <1>1, <1>2, <1>3 DEF Resumed
<1>5. Resumed(seals) =
        [open |-> TRUE, offset |-> end, pending |-> <<>>, spool |-> <<>>, chunks |-> 0,
         hashed |-> media, sealed |-> seals, errors |-> errors, failed |-> FALSE]
  BY <1>4 DEF Closed
<1>6. PICK v : v = Resumed(seals)
  OBVIOUS
<1>7. v \in WriterType
  <2>1. errors \in ErrorsType
    <3>1. CASE seals = <<>>
      BY <1>2, <3>1 DEF ErrorsType
    <3>2. CASE seals # <<>>
      BY <1>2, <3>2 DEF Sound, Table, ErrorsType, RangeType
    <3> QED
      BY <3>1, <3>2
  <2>2. /\ end \in 0..Size /\ media \in MediaType /\ seals \in Seq(SealType)
        /\ <<>> \in MediaType
    BY <1>3, SoundEnd DEF Sound, MediaType
  <2>3. 0 \in 0..SegChunks
    BY ConstantsType
  <2> QED
    BY <1>5, <1>6, <2>1, <2>2, <2>3 DEF WriterType
<1>8. Begins(v, seals) /\ v.open /\ ~v.failed
  BY <1>2, <1>3, <1>5, <1>6, <1>7 DEF Begins
<1> QED
  BY <1>6, <1>8

\* A writer that is poisoned has its state still.
LEMMA PoisonedConsistent ==
    ASSUME Consistent(w)
    PROVE  LET v == [w EXCEPT !.failed = TRUE]
           IN  /\ Consistent(v) /\ v.open = w.open /\ v.sealed = w.sealed /\ v.failed
               /\ v.offset = w.offset
<1> DEFINE v == [w EXCEPT !.failed = TRUE]
<1>1. w \in WriterType
  BY DEF Consistent
<1>2. /\ v \in WriterType /\ v.open = w.open /\ v.failed /\ v.sealed = w.sealed
      /\ v.offset = w.offset /\ v.pending = w.pending /\ v.spool = w.spool
      /\ v.chunks = w.chunks /\ v.hashed = w.hashed /\ v.errors = w.errors
  BY <1>1 DEF WriterType
<1> HIDE DEF v
<1>3. HashedLen(v) = HashedLen(w) /\ PendingLen(v) = PendingLen(w) /\ SpoolLen(v) = SpoolLen(w)
  BY <1>2 DEF HashedLen, PendingLen, SpoolLen
<1>4. Consistent(v)
  BY <1>2, <1>3 DEF Consistent
<1> QED
  BY <1>2, <1>4 DEF v

----------------------------------------------------------------------------
(* Sealing                                                                 *)

\* The segment seal() writes, and its checkpoint record.
NewSegment == Segment(w.spool, Clip(w.errors, SealedEnd), call.final,
                      IF call.final THEN w.hashed ELSE <<>>)
NewSeal == [end |-> SealedEnd, digest |-> NewSegment]

\* The fields of the record.
LEMMA NewSealFields ==
    /\ NewSeal.end = SealedEnd /\ NewSeal.digest = NewSegment
    /\ NewSegment.kind = "segment" /\ NewSegment.media = w.spool
    /\ NewSegment.errors = Clip(w.errors, SealedEnd)
    /\ NewSegment.final = call.final
    /\ NewSegment.hash = IF call.final THEN w.hashed ELSE <<>>
BY DEF NewSeal, NewSegment, Segment

\* What is sealed ends where the pending chunk begins.
LEMMA SealedEndType ==
    ASSUME Consistent(w)
    PROVE  /\ SealedEnd = HashedLen(w) /\ SealedEnd \in 0..w.offset /\ w.offset \in 0..Size
           /\ SealedEnd = Size <=> w.offset = Size
           /\ HashedLen(w) = EndOf(w.sealed) + SpoolLen(w)
           /\ SpoolLen(w) \in Nat /\ EndOf(w.sealed) \in 0..Size
<1>1. /\ w.offset \in 0..Size /\ w.pending \in MediaType /\ w.hashed \in MediaType
      /\ w.spool \in MediaType /\ w.sealed \in Seq(SealType)
  BY DEF Consistent, WriterType
<1>2. PendingLen(w) \in Nat /\ HashedLen(w) \in Nat /\ SpoolLen(w) \in Nat
  BY <1>1, MediaConcat DEF PendingLen, HashedLen, SpoolLen
<1>3. SealedEnd = w.offset - PendingLen(w)
  BY DEF SealedEnd, PendingLen
<1>4. w.offset = HashedLen(w) + PendingLen(w) /\ (w.offset = Size => w.pending = <<>>)
  BY DEF Consistent
<1>5. SealedEnd = HashedLen(w) /\ SealedEnd \in 0..w.offset
  BY <1>1, <1>2, <1>3, <1>4, ConstantsType
<1>6. SealedEnd = Size <=> w.offset = Size
  <2>1. CASE w.offset = Size
    <3>1. PendingLen(w) = 0
      BY <1>4, <2>1 DEF PendingLen
    <3> QED
      BY <1>1, <1>3, <2>1, <3>1, ConstantsType
  <2>2. CASE w.offset # Size
    BY <1>1, <1>5, <2>2, ConstantsType
  <2> QED
    BY <2>1, <2>2
<1>7. HashedLen(w) = EndOf(w.sealed) + SpoolLen(w)
  <2>1. Media(w.sealed) \in MediaType /\ Len(Media(w.sealed)) = EndOf(w.sealed)
    BY DEF Consistent, Sound
  <2>2. w.hashed = Media(w.sealed) \o w.spool
    BY DEF Consistent
  <2>3. PICK spool \in MediaType : spool = w.spool
    BY <1>1
  <2>4. Len(Media(w.sealed) \o spool) = EndOf(w.sealed) + Len(spool)
    BY <2>1, MediaConcat
  <2> QED
    BY <2>2, <2>3, <2>4 DEF HashedLen, SpoolLen
<1>8. EndOf(w.sealed) \in 0..Size
  BY <1>1, EndType
<1> QED
  BY <1>1, <1>2, <1>5, <1>6, <1>7, <1>8

\* The segment behind a sound list makes it a longer sound one.
LEMMA NewSealProperties ==
    ASSUME Consistent(w), w.chunks > 0, call.final \in BOOLEAN,
           call.final <=> w.offset = Size, Len(w.sealed) < MaxSegs
    PROVE  /\ NewSeal \in SealType /\ NewSegment \in SegmentType
           /\ Sound(Append(w.sealed, NewSeal))
           /\ EndOf(Append(w.sealed, NewSeal)) = SealedEnd
           /\ EndOf(w.sealed) < SealedEnd
           /\ Media(Append(w.sealed, NewSeal)) = w.hashed
<1>1. /\ w.hashed \in MediaType /\ w.spool \in MediaType /\ w.sealed \in Seq(SealType)
      /\ w.chunks \in 0..SegChunks /\ Sound(w.sealed)
      /\ w.hashed = Media(w.sealed) \o w.spool
      /\ Table(w.errors, w.offset) /\ Holds(w.hashed, 0, w.errors)
  BY DEF Consistent, WriterType
<1>2. /\ SealedEnd = HashedLen(w) /\ SealedEnd \in 0..w.offset /\ w.offset \in 0..Size
      /\ SealedEnd = Size <=> w.offset = Size
      /\ HashedLen(w) = EndOf(w.sealed) + SpoolLen(w)
      /\ SpoolLen(w) \in Nat /\ EndOf(w.sealed) \in 0..Size
  BY SealedEndType
<1>3. SpoolLen(w) > 0 /\ SpoolLen(w) <= w.chunks * ChunkSectors
  <2>1. SpoolLen(w) = 0 <=> w.chunks = 0
    BY DEF Consistent
  <2>2. w.chunks # 0
    BY <1>1, ConstantsType
  <2>3. SpoolLen(w) > 0
    BY <1>2, <2>1, <2>2
  <2> QED
    BY <2>3 DEF Consistent
<1>4. EndOf(w.sealed) < SealedEnd /\ SealedEnd \in 1..Size
      /\ SealedEnd - EndOf(w.sealed) = SpoolLen(w)
  BY <1>2, <1>3, ConstantsType
<1>5. /\ Table(Clip(w.errors, SealedEnd), SealedEnd)
      /\ \A i \in 1..SealedEnd : InTable(Clip(w.errors, SealedEnd), i) <=> InTable(w.errors, i)
  <2>1. w.offset \in Nat /\ SealedEnd \in Nat
    BY <1>2, ConstantsType
  <2> QED
    BY <1>1, <2>1, ClipProperties
<1>6. Holds(w.hashed, 0, Clip(w.errors, SealedEnd))
  <2>1. 0 + Len(w.hashed) <= SealedEnd /\ SealedEnd \in Nat
    <3>1. Len(w.hashed) = SealedEnd
      BY <1>2 DEF HashedLen
    <3> QED
      BY <1>4, <3>1, ConstantsType
  <2> QED
    BY <1>1, <1>5, <2>1, HoldsAgrees DEF MediaType
<1>7. NewSegment \in SegmentType
  <2>1. Clip(w.errors, SealedEnd) \in ErrorsType
    BY <1>5 DEF Table, ErrorsType, RangeType
  <2>2. (IF call.final THEN w.hashed ELSE <<>>) \in MediaType
    <3>1. <<>> \in MediaType
      BY DEF MediaType
    <3> QED
      BY <1>1, <3>1
  <2> QED
    BY <1>1, <2>1, <2>2 DEF NewSegment, Segment, SegmentType
<1>8. NewSeal \in SealType
  BY <1>4, <1>7 DEF NewSeal, SealType
<1>9. CeilDiv(NewSeal.end - EndOf(w.sealed), ChunkSectors) <= SegChunks
  <2>1. CeilDiv(SpoolLen(w), ChunkSectors) <= w.chunks
    BY <1>1, <1>2, <1>3, CeilDivBound, ConstantsType
  <2>2. CeilDiv(SpoolLen(w), ChunkSectors) \in Int
    BY <1>2, ConstantsType DEF CeilDiv
  <2>3. NewSeal.end - EndOf(w.sealed) = SpoolLen(w)
    BY <1>4, NewSealFields
  <2> QED
    BY <1>1, <2>1, <2>2, <2>3, ConstantsType
<1>10. NewSeal.end < Size => NewSeal.end % ChunkSectors = 0
  BY <1>2, NewSealFields DEF Consistent
<1>11. /\ EndOf(w.sealed) < NewSeal.end
       /\ Len(NewSeal.digest.media) = NewSeal.end - EndOf(w.sealed)
       /\ NewSeal.digest.final = (NewSeal.end = Size)
       /\ Table(NewSeal.digest.errors, NewSeal.end)
       /\ Holds(Media(w.sealed) \o NewSeal.digest.media, 0, NewSeal.digest.errors)
       /\ NewSeal.end = Size => NewSeal.digest.hash = Media(w.sealed) \o NewSeal.digest.media
  <2>1. NewSeal.digest.media = w.spool /\ NewSeal.end = SealedEnd
        /\ NewSeal.digest.errors = Clip(w.errors, SealedEnd)
    BY NewSealFields
  <2>2. Len(NewSeal.digest.media) = SpoolLen(w)
    BY <2>1 DEF SpoolLen
  <2>3. NewSeal.digest.final = (NewSeal.end = Size)
    BY <1>2, <2>1, NewSealFields
  <2>4. NewSeal.end = Size => NewSeal.digest.hash = w.hashed
    BY <1>2, <2>1, NewSealFields
  <2> QED
    BY <1>1, <1>4, <1>5, <1>6, <2>1, <2>2, <2>3, <2>4
<1>12. /\ Sound(Append(w.sealed, NewSeal))
       /\ EndOf(Append(w.sealed, NewSeal)) = NewSeal.end
       /\ Media(Append(w.sealed, NewSeal)) = Media(w.sealed) \o NewSeal.digest.media
  <2> HIDE DEF NewSeal
  <2> QED
    BY <1>1, <1>8, <1>9, <1>10, <1>11, SoundAppend
<1> QED
  BY <1>1, <1>4, <1>7, <1>8, <1>12, NewSealFields

\* After it has taken note of the record, the writer has nothing spooled.
LEMMA SealedConsistent ==
    ASSUME Consistent(w), NEW seals, Sound(seals), Media(seals) = w.hashed,
           NEW v, v = [w EXCEPT !.sealed = seals, !.spool = <<>>, !.chunks = 0]
    PROVE  /\ Consistent(v) /\ v.sealed = seals /\ v.open = w.open /\ v.failed = w.failed
           /\ v.offset = w.offset /\ v.chunks = 0 /\ v.pending = w.pending
<1>1. w \in WriterType /\ seals \in Seq(SealType) /\ <<>> \in MediaType /\ 0 \in 0..SegChunks
  BY ConstantsType DEF Consistent, Sound, MediaType
<1>2. /\ v \in WriterType /\ v.open = w.open /\ v.failed = w.failed /\ v.sealed = seals
      /\ v.offset = w.offset /\ v.pending = w.pending /\ v.spool = <<>>
      /\ v.chunks = 0 /\ v.hashed = w.hashed /\ v.errors = w.errors
  BY <1>1 DEF WriterType
<1>3. HashedLen(v) = HashedLen(w) /\ PendingLen(v) = PendingLen(w) /\ SpoolLen(v) = 0
  BY <1>2 DEF HashedLen, PendingLen, SpoolLen
<1>4. v.hashed = Media(v.sealed) \o v.spool
  <2>1. w.hashed \in MediaType
    BY <1>1 DEF WriterType
  <2>2. w.hashed \o <<>> = w.hashed
    BY <2>1, ConcatEmptySeq DEF MediaType
  <2> QED
    BY <1>2, <2>2
<1>5. SpoolLen(v) <= v.chunks * ChunkSectors
  <2>1. 0 * ChunkSectors = 0
    BY ConstantsType
  <2> QED
    BY <1>2, <1>3, <2>1
<1>6. /\ w.offset = HashedLen(w) + PendingLen(w)
      /\ PendingLen(w) < ChunkSectors /\ (w.offset = Size => w.pending = <<>>)
      /\ HashedLen(w) < Size => HashedLen(w) % ChunkSectors = 0
      /\ Table(w.errors, w.offset)
      /\ Holds(w.hashed, 0, w.errors) /\ Holds(w.pending, HashedLen(w), w.errors)
  BY DEF Consistent
<1>7. Consistent(v)
  BY <1>2, <1>3, <1>4, <1>5, <1>6 DEF Consistent
<1> QED
  BY <1>2, <1>7

----------------------------------------------------------------------------
(* The invariant                                                           *)

CallType == [pc : {"idle", "seal", "record", "sealed", "loop", "batch", "sectors", "after",
                   "notify", "end", "check", "link"},
             back : {"idle", "after", "notify"}, mode : {"loop", "batch", "sectors"},
             left : 0..(Size + 1), policy : {"stop", "zero"}, interval : Intervals \cup {0},
             final : BOOLEAN,
             result : {"ok", "error", "complete", "cancelled", "rejected", "published"}]
DirType == [exists : BOOLEAN, staged : Seq(SegmentType), records : Seq(SealType),
            publishing : BOOLEAN]
OutType == [SegNames -> SegmentType \cup {NoFile, Foreign}]

\* The first segments staged are those the records are about.
Vouched(staged, records) ==
    /\ Len(records) <= Len(staged)
    /\ \A k \in 1..Len(records) : staged[k] = records[k].digest
Even(staged, records) == Len(staged) = Len(records)
OneAhead(staged, records) == Len(staged) = Len(records) + 1

DirInv ==
    /\ dir \in DirType
    /\ dir.exists => /\ Sound(dir.records)
                     /\ Vouched(dir.staged, dir.records)
                     /\ dir.publishing => EndOf(dir.records) = Size
                     /\ ~Even(dir.staged, dir.records) => EndOf(dir.records) < Size

\* What a writer has noted as sealed is acknowledged on disk; without a call
\* under way it may be a record behind, but only if it is poisoned.
WriterInv ==
    /\ Consistent(w)
    /\ ~w.open => call.pc = "idle" /\ w.sealed = <<>>
    /\ w.failed => call.pc = "idle"
    /\ w.open => dir.exists /\ IsPrefix(w.sealed, dir.records)

Sealing == call.pc \in {"seal", "record", "sealed"}
\* A part of the source has been read of which `left' sectors are to be taken.
Reading == \/ call.pc \in {"batch", "sectors", "after", "notify"}
           \/ Sealing /\ call.back # "idle"
InRead == /\ call.mode \in {"batch", "sectors"}
          /\ w.offset + call.left <= Size
          /\ call.mode = "batch" /\ call.left > 0 => w.pending = <<>>
SealDue == w.chunks > 0 /\ (call.final <=> w.offset = Size)
NoneDue == w.chunks < SegChunks /\ (w.offset = Size => w.chunks = 0)
Acknowledged == dir.records = w.sealed /\ Even(dir.staged, w.sealed)
LinkedBefore(n, seals) ==
    /\ n >= 1 /\ n <= Len(seals) + 1
    /\ \A k \in 1..(n - 1) : out[k] = seals[k].digest

CallInv ==
    /\ Sealing => SealDue
    /\ ~Sealing => NoneDue
    /\ call.pc \notin {"record", "sealed"} => Acknowledged
    /\ call.pc = "record" =>
          /\ dir.records = w.sealed /\ Len(w.sealed) < MaxSegs
          /\ OneAhead(dir.staged, w.sealed) /\ Last(dir.staged) = NewSegment
    /\ call.pc = "sealed" =>
          /\ dir.records = Append(w.sealed, NewSeal) /\ Len(w.sealed) < MaxSegs
          /\ Even(dir.staged, dir.records)
    /\ Reading => InRead
    /\ call.pc \in {"batch", "sectors"} => call.mode = call.pc /\ call.left > 0
    /\ call.pc \in {"check", "link"} => w.offset = Size
    /\ call.pc = "link" => LinkedBefore(call.left, w.sealed)

IInv ==
    /\ DirInv /\ WriterInv
    /\ call \in CallType /\ out \in OutType
    /\ w.open /\ ~w.failed => CallInv
    /\ PublishedExact

----------------------------------------------------------------------------
(* The directory as a list of segments and a list of records               *)

LEMMA PrefixMeans ==
    ASSUME NEW S, NEW s \in Seq(S), NEW t \in Seq(S)
    PROVE  IsPrefix(s, t) <=> Len(s) <= Len(t) /\ \A k \in 1..Len(s) : s[k] = t[k]
<1>1. PICK m \in Nat, n \in Nat : m = Len(s) /\ n = Len(t)
  OBVIOUS
<1>2. SubSeq(s, 1, m) = s
  BY <1>1
<1>3. ASSUME m <= n
      PROVE  /\ SubSeq(t, 1, m) \in Seq(S) /\ Len(SubSeq(t, 1, m)) = m
             /\ \A k \in 1..m : SubSeq(t, 1, m)[k] = t[k]
  BY <1>1, <1>3
<1>4. ASSUME m <= n, \A k \in 1..m : s[k] = t[k] PROVE s = SubSeq(t, 1, m)
  BY <1>1, <1>3, <1>4, SeqEqual
<1> QED
  BY <1>1, <1>2, <1>3, <1>4 DEF IsPrefix

\* Nothing is a prefix of every list, and a list one of itself.
LEMMA PrefixTrivial ==
    ASSUME NEW S, NEW t \in Seq(S)
    PROVE  IsPrefix(<<>>, t) /\ IsPrefix(t, t)
<1>1. PICK n \in Nat : n = Len(t)
  OBVIOUS
<1>2. PICK e \in Seq(S) : e = <<>> /\ Len(e) = 0
  <2>1. <<>> \in Seq(S) /\ Len(<<>>) = 0
    OBVIOUS
  <2> QED
    BY <2>1
<1>3. Len(e) <= Len(t) /\ \A k \in 1..Len(e) : e[k] = t[k]
  BY <1>1, <1>2
<1>4. IsPrefix(e, t)
  BY <1>3, PrefixMeans
<1>5. IsPrefix(t, t)
  BY <1>1, PrefixMeans
<1> QED
  BY <1>2, <1>4, <1>5

\* A prefix of a list is a prefix of any longer one.
LEMMA PrefixGrows ==
    ASSUME NEW S, NEW s \in Seq(S), NEW t \in Seq(S), NEW e \in S
    PROVE  /\ IsPrefix(s, Append(s, e))
           /\ IsPrefix(s, t) => IsPrefix(s, Append(t, e))
<1>1. PICK m \in Nat, n \in Nat : m = Len(s) /\ n = Len(t)
  OBVIOUS
<1>2. Append(t, e) \in Seq(S) /\ Len(Append(t, e)) = n + 1
      /\ \A k \in 1..n : Append(t, e)[k] = t[k]
  BY <1>1
<1>3. Append(s, e) \in Seq(S) /\ Len(Append(s, e)) = m + 1
      /\ \A k \in 1..m : Append(s, e)[k] = s[k]
  BY <1>1
<1>4. IsPrefix(s, Append(s, e))
  <2>1. PICK longer \in Seq(S) : longer = Append(s, e)
    BY <1>3
  <2>2. Len(s) <= Len(longer) /\ \A k \in 1..Len(s) : s[k] = longer[k]
    BY <1>1, <1>3, <2>1
  <2> QED
    BY <2>1, <2>2, PrefixMeans
<1>5. ASSUME IsPrefix(s, t) PROVE IsPrefix(s, Append(t, e))
  <2>1. m <= n /\ \A k \in 1..m : s[k] = t[k]
    BY <1>1, <1>5, PrefixMeans
  <2>2. PICK longer \in Seq(S) : longer = Append(t, e)
    BY <1>2
  <2>3. Len(s) <= Len(longer) /\ \A k \in 1..Len(s) : s[k] = longer[k]
    <3>1. Len(longer) = n + 1 /\ \A k \in 1..n : longer[k] = t[k]
      BY <1>2, <2>2
    <3>2. \A k \in 1..m : k \in 1..n
      BY <2>1
    <3> QED
      BY <1>1, <2>1, <3>1, <3>2
  <2> QED
    BY <2>2, <2>3, PrefixMeans
<1> QED
  BY <1>4, <1>5

\* A segment file more changes nothing the records are about.
LEMMA VouchedStage ==
    ASSUME NEW staged \in Seq(SegmentType), NEW records \in Seq(SealType),
           Vouched(staged, records), Even(staged, records), NEW segment \in SegmentType
    PROVE  /\ Append(staged, segment) \in Seq(SegmentType)
           /\ Vouched(Append(staged, segment), records)
           /\ OneAhead(Append(staged, segment), records)
           /\ ~Even(Append(staged, segment), records)
           /\ Last(Append(staged, segment)) = segment
<1>1. PICK n \in Nat : n = Len(records) /\ n = Len(staged)
  BY DEF Even
<1>2. /\ Append(staged, segment) \in Seq(SegmentType)
      /\ Len(Append(staged, segment)) = n + 1
      /\ \A k \in 1..n : Append(staged, segment)[k] = staged[k]
      /\ Append(staged, segment)[n + 1] = segment
  BY <1>1
<1> QED
  BY <1>1, <1>2 DEF Vouched, OneAhead, Even, Last

\* With its record the lists are even again.
LEMMA VouchedRecord ==
    ASSUME NEW staged \in Seq(SegmentType), NEW records \in Seq(SealType),
           Vouched(staged, records), OneAhead(staged, records),
           NEW seal \in SealType, seal.digest = Last(staged)
    PROVE  /\ Append(records, seal) \in Seq(SealType)
           /\ Vouched(staged, Append(records, seal))
           /\ Even(staged, Append(records, seal))
           /\ Last(Append(records, seal)) = seal
<1>1. PICK n \in Nat : n = Len(records) /\ Len(staged) = n + 1
  BY DEF OneAhead
<1>2. /\ Append(records, seal) \in Seq(SealType)
      /\ Len(Append(records, seal)) = n + 1
      /\ \A k \in 1..n : Append(records, seal)[k] = records[k]
      /\ Append(records, seal)[n + 1] = seal
  BY <1>1
<1>3. Last(staged) = staged[n + 1]
  BY <1>1 DEF Last
<1> QED
  BY <1>1, <1>2, <1>3 DEF Vouched, Even, Last

\* What is left when unsealed segments are removed.
LEMMA VouchedDiscard ==
    ASSUME NEW staged \in Seq(SegmentType), NEW records \in Seq(SealType),
           Vouched(staged, records)
    PROVE  LET kept == SubSeq(staged, 1, Len(records))
           IN  /\ kept \in Seq(SegmentType)
               /\ Vouched(kept, records) /\ Even(kept, records)
               /\ IsPrefix(kept, kept) /\ IsPrefix(kept, staged)
<1> DEFINE kept == SubSeq(staged, 1, Len(records))
<1>1. PICK m \in Nat, n \in Nat : m = Len(records) /\ n = Len(staged) /\ m <= n
  BY DEF Vouched
<1>2. kept \in Seq(SegmentType) /\ Len(kept) = m /\ \A k \in 1..m : kept[k] = staged[k]
  BY <1>1
<1>3. IsPrefix(kept, kept) /\ IsPrefix(kept, staged)
  <2> HIDE DEF kept
  <2> QED
    BY <1>1, <1>2, PrefixMeans
<1>4. Vouched(kept, records) /\ Even(kept, records)
  <2> HIDE DEF kept
  <2> QED
    BY <1>1, <1>2 DEF Vouched, Even
<1> QED
  BY <1>2, <1>3, <1>4

\* load_checkpoint() accepts such a directory.
LEMMA DirLoads == ASSUME DirInv, dir.exists PROVE Loadable
<1>1. PICK seals : seals = dir.records /\ seals \in Seq(SealType) /\ Sound(seals)
  BY DEF DirInv, Sound
<1>2. Geometry(seals) /\ EndOf(seals) \in 0..Size
  BY <1>1, SoundEnd DEF Sound
<1>3. /\ Len(seals) <= Len(dir.staged)
      /\ \A k \in DOMAIN seals : dir.staged[k] = seals[k].digest
      /\ dir.publishing => EndOf(seals) = Size
  BY <1>1 DEF DirInv, Vouched
<1>4. ASSUME seals # <<>>
      PROVE  /\ Last(seals).digest.final = (EndOf(seals) = Size)
             /\ \A r \in Range(Last(seals).digest.errors) : RangeEnd(r) <= EndOf(seals)
  <2>1. PICK n \in DOMAIN seals : Last(seals) = seals[n] /\ EndOf(seals) = seals[n].end
    <3>1. Len(seals) \in DOMAIN seals
      BY <1>1, <1>4, EmptySeq
    <3> QED
      BY <1>1, <1>4, <3>1, EndType DEF Last
  <2>2. Last(seals).digest.final = (EndOf(seals) = Size)
    BY <1>1, <2>1 DEF Sound
  <2>3. Table(Last(seals).digest.errors, EndOf(seals))
    BY <1>1, <1>4 DEF Sound
  <2> QED
    BY <2>2, <2>3 DEF Table, Range
<1> QED
  BY <1>1, <1>2, <1>3, <1>4 DEF Loadable

----------------------------------------------------------------------------
(* It holds at first                                                       *)

LEMMA InitIInv == ASSUME Init PROVE IInv
<1>1. w = Closed /\ call = Idle /\ dir = NoDir /\ out = [k \in SegNames |-> NoFile]
  BY DEF Init
<1>2. DirInv
  <2>1. NoDir \in DirType /\ ~NoDir.exists
    BY DEF NoDir, DirType
  <2> QED
    BY <1>1, <2>1 DEF DirInv
<1>3. call \in CallType /\ call.pc = "idle"
  <2>1. 0 \in 0..(Size + 1)
    BY ConstantsType
  <2> QED
    BY <1>1, <2>1 DEF Idle, CallType
<1>4. Consistent(w) /\ ~w.open /\ ~w.failed /\ w.sealed = <<>>
  BY <1>1, ClosedBegins, SoundEmpty, BeginsConsistent DEF Begins
<1>5. WriterInv
  BY <1>3, <1>4 DEF WriterInv
<1>6. out \in OutType
  BY <1>1 DEF OutType
<1>7. PublishedExact
  <2>1. 1 \in SegNames /\ NoFile.kind # "segment"
    BY ConstantsType DEF SegNames, NoFile
  <2> QED
    BY <1>1, <2>1 DEF PublishedExact
<1> QED
  BY <1>2, <1>3, <1>4, <1>5, <1>6, <1>7 DEF IInv

----------------------------------------------------------------------------
(* Steps of a call that change neither the writer nor a file               *)

\* What the invariant says of a writer that is in a call.
LEMMA InCall ==
    ASSUME IInv
    PROVE  /\ call.pc # "idle" => w.open /\ ~w.failed
           /\ w.open /\ ~w.failed => CallInv
           /\ call \in CallType /\ Consistent(w) /\ w \in WriterType
           /\ w.offset \in 0..Size /\ w.chunks \in 0..SegChunks
<1>1. Consistent(w) /\ w \in WriterType
  BY DEF IInv, WriterInv, Consistent
<1> QED
  BY <1>1 DEF IInv, WriterInv, WriterType

LEMMA CallStep ==
    ASSUME IInv, UNCHANGED <<w, dir, out>>, w.open, ~w.failed, call' \in CallType, CallInv'
    PROVE  IInv'
<1>1. DirInv'
  BY DEF IInv, DirInv
<1>2. WriterInv'
  BY DEF IInv, WriterInv
<1>3. PublishedExact'
  BY DEF IInv, PublishedExact
<1> QED
  BY <1>1, <1>2, <1>3 DEF IInv, OutType

\* A call goes on: nothing is to be sealed before and after.
LEMMA GoesOn ==
    ASSUME IInv, UNCHANGED <<w, dir, out>>, w.open, ~w.failed, ~Sealing, call' \in CallType,
           call'.pc \in {"idle", "loop", "batch", "sectors", "after", "notify", "end"},
           call'.pc \in {"batch", "sectors", "after", "notify"} => InRead',
           call'.pc \in {"batch", "sectors"} => call'.mode = call'.pc /\ call'.left > 0
    PROVE  IInv'
<1>1. CallInv /\ NoneDue /\ Acknowledged
  BY DEF IInv, CallInv, Sealing
<1>2. NoneDue' /\ Acknowledged' /\ ~Sealing'
  BY <1>1 DEF NoneDue, Acknowledged, Sealing
<1>3. Reading' => InRead'
  BY <1>2 DEF Reading
<1>4. call'.pc \notin {"record", "sealed", "check", "link"}
  OBVIOUS
<1>5. CallInv'
  BY <1>2, <1>3, <1>4 DEF CallInv
<1> QED
  BY <1>5, CallStep

\* A call begins to seal what is spooled.
LEMMA BeginsToSeal ==
    ASSUME IInv, UNCHANGED <<w, dir, out>>, w.open, ~w.failed, ~Sealing, call' \in CallType,
           call'.pc = "seal", ~call'.final, w.chunks > 0,
           call'.back # "idle" => InRead'
    PROVE  IInv'
<1>1. CallInv /\ NoneDue /\ Acknowledged
  BY DEF IInv, CallInv, Sealing
<1>2. w.offset # Size
  BY <1>1, InCall, ConstantsType DEF NoneDue
<1>3. Acknowledged' /\ Sealing' /\ SealDue'
  BY <1>1, <1>2 DEF SealDue, Acknowledged, Sealing
<1>4. Reading' => InRead'
  BY <1>3 DEF Reading
<1>5. CallInv'
  BY <1>3, <1>4 DEF CallInv
<1> QED
  BY <1>5, CallStep

LEMMA SealSpooledStep ==
    ASSUME IInv, UNCHANGED <<w, dir, out>>, w.open, ~w.failed, ~Sealing,
           NEW label, label \in {"idle", "notify"}, SealSpooled(label),
           label = "notify" => InRead
    PROVE  IInv'
<1>1. call \in CallType /\ w.chunks \in 0..SegChunks
  BY InCall
<1>2. CASE w.chunks > 0
  <2>1. call' = [call EXCEPT !.pc = "seal", !.final = FALSE, !.back = label]
    BY <1>2 DEF SealSpooled
  <2>2. /\ call' \in CallType /\ call'.pc = "seal" /\ ~call'.final /\ call'.back = label
        /\ call'.mode = call.mode /\ call'.left = call.left
    BY <1>1, <2>1 DEF CallType
  <2>3. label = "notify" => InRead'
    BY <2>2 DEF InRead
  <2> QED
    BY <1>2, <2>2, <2>3, BeginsToSeal
<1>3. CASE ~(w.chunks > 0)
  <2>1. call' = [call EXCEPT !.pc = label]
    BY <1>3 DEF SealSpooled
  <2>2. /\ call' \in CallType /\ call'.pc = label
        /\ call'.mode = call.mode /\ call'.left = call.left
    BY <1>1, <2>1 DEF CallType
  <2>3. label = "notify" => InRead'
    BY <2>2 DEF InRead
  <2> QED
    BY <2>2, <2>3, GoesOn
<1> QED
  BY <1>2, <1>3

LEMMA ProductPositive == \A a, b \in Nat \ {0} : a * b \in Nat \ {0}
OBVIOUS

\* What a bulk read asks for is there to be read.
LEMMA BulkSizeFits ==
    ASSUME Consistent(w), w.offset < Size
    PROVE  /\ BulkSize \in 0..(Size + 1) /\ BulkSize > 0
           /\ w.offset + BulkSize <= Size
<1>1. w.offset \in 0..Size /\ w.pending \in MediaType
  BY DEF Consistent, WriterType
<1>2. PICK p \in Nat : p = Len(w.pending) /\ p = PendingLen(w) /\ p < ChunkSectors
  BY <1>1 DEF MediaType, PendingLen, Consistent
<1>3. PICK most \in Nat \ {0} : most = IF w.pending = <<>> THEN ChunkSectors * BulkChunks
                                       ELSE ChunkSectors - Len(w.pending)
  <2>1. ChunkSectors * BulkChunks \in Nat \ {0}
    BY ConstantsType, ProductPositive
  <2>2. ChunkSectors - Len(w.pending) \in Nat \ {0}
    <3>1. ChunkSectors - p \in Nat \ {0}
      BY <1>2, ConstantsType
    <3> QED
      BY <1>2, <3>1
  <2> QED
    BY <2>1, <2>2
<1>4. BulkSize = Least(most, Size - w.offset)
  BY <1>3 DEF BulkSize
<1> QED
  BY <1>1, <1>3, <1>4, ConstantsType DEF Least

LEMMA AcquireStep ==
    ASSUME IInv, NEW policy \in {"stop", "zero"}, NEW interval \in Intervals,
           Acquire(policy, interval)
    PROVE  IInv'
<1>1. w.open /\ ~w.failed /\ ~Sealing
  BY DEF Acquire, Sealing
<1>2. call' = [Idle EXCEPT !.pc = "loop", !.policy = policy, !.interval = interval]
      /\ UNCHANGED <<w, dir, out>>
  BY DEF Acquire
<1>3. call' \in CallType /\ call'.pc = "loop"
  <2>1. 0 \in 0..(Size + 1)
    BY ConstantsType
  <2> QED
    BY <1>2, <2>1 DEF Idle, CallType
<1> QED
  BY <1>1, <1>2, <1>3, GoesOn

\* A call that has a result has only to seal what is spooled.
LEMMA ReturnsStep ==
    ASSUME IInv, call.pc # "idle", ~Sealing, UNCHANGED <<w, dir, out>>,
           NEW result, result \in {"error", "complete", "cancelled", "rejected"},
           Returns(result)
    PROVE  IInv'
<1>1. w.open /\ ~w.failed /\ call \in CallType
  BY InCall
<1>2. call' = [call EXCEPT !.pc = "end", !.result = result]
  BY DEF Returns
<1>3. call' \in CallType /\ call'.pc = "end"
  BY <1>1, <1>2 DEF CallType
<1> QED
  BY <1>1, <1>3, GoesOn

LEMMA BulkReadStep == ASSUME IInv, BulkRead PROVE IInv'
<1>1. call.pc = "loop" /\ w.offset < Size /\ UNCHANGED <<w, dir, out>> /\ ~Sealing
  BY DEF BulkRead, Sealing
<1>2. w.open /\ ~w.failed /\ call \in CallType /\ Consistent(w)
  BY <1>1, InCall
<1>3. CASE w.pending # <<>>
  BY <1>1, <1>3, ReturnsStep DEF BulkRead
<1>4. CASE w.pending = <<>>
  <2>1. PICK n : n = BulkSize
    OBVIOUS
  <2>2. call' = [call EXCEPT !.pc = "batch", !.mode = "batch", !.left = n]
    BY <1>4, <2>1 DEF BulkRead
  <2>3. n \in 0..(Size + 1) /\ n > 0 /\ w.offset + n <= Size
    BY <1>1, <1>2, <2>1, BulkSizeFits
  <2>4. call' \in CallType /\ call'.pc = "batch" /\ call'.mode = "batch" /\ call'.left = n
    BY <1>2, <2>2, <2>3 DEF CallType
  <2>5. InRead'
    BY <1>1, <1>4, <2>3, <2>4 DEF InRead
  <2> QED
    BY <1>1, <1>2, <2>3, <2>4, <2>5, GoesOn
<1> QED
  BY <1>3, <1>4

LEMMA BulkFailsStep == ASSUME IInv, BulkFails PROVE IInv'
<1>1. call.pc = "loop" /\ w.offset < Size /\ UNCHANGED <<w, dir, out>> /\ ~Sealing
  BY DEF BulkFails, Sealing
<1>2. w.open /\ ~w.failed /\ call \in CallType /\ Consistent(w)
  BY <1>1, InCall
<1>3. PICK n : n = BulkSize
  OBVIOUS
<1>4. call' = [call EXCEPT !.pc = "sectors", !.mode = "sectors", !.left = n]
  BY <1>3 DEF BulkFails
<1>5. n \in 0..(Size + 1) /\ n > 0 /\ w.offset + n <= Size
  BY <1>1, <1>2, <1>3, BulkSizeFits
<1>6. call' \in CallType /\ call'.pc = "sectors" /\ call'.mode = "sectors" /\ call'.left = n
  BY <1>2, <1>4, <1>5 DEF CallType
<1>7. InRead'
  BY <1>1, <1>5, <1>6 DEF InRead
<1> QED
  BY <1>1, <1>2, <1>5, <1>6, <1>7, GoesOn

LEMMA AfterSourceWriteStep == ASSUME IInv, AfterSourceWrite PROVE IInv'
<1>1. call.pc = "after" /\ UNCHANGED <<w, dir, out>> /\ ~Sealing
  BY DEF AfterSourceWrite, Sealing
<1>2. w.open /\ ~w.failed /\ call \in CallType /\ CallInv
  BY <1>1, InCall
<1>3. InRead
  BY <1>1, <1>2 DEF CallInv, Reading
<1>4. CASE SealSpooled("notify")
  BY <1>1, <1>2, <1>3, <1>4, SealSpooledStep
<1>5. CASE call' = [call EXCEPT !.pc = "notify"]
  <2>1. /\ call' \in CallType /\ call'.pc = "notify"
        /\ call'.mode = call.mode /\ call'.left = call.left
    BY <1>2, <1>5 DEF CallType
  <2>2. InRead'
    BY <1>1, <1>3, <2>1 DEF InRead
  <2> QED
    BY <1>1, <1>2, <2>1, <2>2, GoesOn
<1> QED
  BY <1>4, <1>5 DEF AfterSourceWrite

LEMMA ContinueStep == ASSUME IInv, Continue PROVE IInv'
<1>1. call.pc = "notify" /\ UNCHANGED <<w, dir, out>> /\ ~Sealing
  BY DEF Continue, Sealing
<1>2. w.open /\ ~w.failed /\ call \in CallType /\ CallInv
  BY <1>1, InCall
<1>3. InRead
  BY <1>1, <1>2 DEF CallInv, Reading
<1>4. PICK next : next = IF call.left > 0 THEN call.mode ELSE "loop"
  OBVIOUS
<1>5. call' = [call EXCEPT !.pc = next]
  BY <1>4 DEF Continue
<1>6. next \in {"batch", "sectors", "loop"}
  BY <1>3, <1>4 DEF InRead
<1>7. /\ call' \in CallType /\ call'.pc = next
      /\ call'.mode = call.mode /\ call'.left = call.left
  BY <1>2, <1>5, <1>6 DEF CallType
<1>8. InRead'
  BY <1>1, <1>3, <1>7 DEF InRead
<1>9. call'.pc \in {"batch", "sectors"} => call'.mode = call'.pc /\ call'.left > 0
  BY <1>3, <1>4, <1>7
<1> QED
  BY <1>1, <1>2, <1>6, <1>7, <1>8, <1>9, GoesOn

LEMMA NoUnexpectedOutputStep == ASSUME IInv, NoUnexpectedOutput PROVE IInv'
<1>1. call.pc = "check" /\ UNCHANGED <<w, dir, out>> /\ ~Sealing
      /\ call' = [call EXCEPT !.pc = "link", !.left = 1]
  BY DEF NoUnexpectedOutput, Sealing
<1>2. w.open /\ ~w.failed /\ call \in CallType /\ CallInv /\ Consistent(w)
  BY <1>1, InCall
<1>3. call' \in CallType /\ call'.pc = "link" /\ call'.left = 1
  <2>1. 1 \in 0..(Size + 1)
    BY ConstantsType
  <2> QED
    BY <1>1, <1>2, <2>1 DEF CallType
<1>4. NoneDue' /\ Acknowledged' /\ w'.offset = Size
  BY <1>1, <1>2 DEF CallInv, NoneDue, Acknowledged, Sealing
<1>5. LinkedBefore(call.left, w.sealed)'
  <2>1. w.sealed \in Seq(SealType)
    BY <1>2 DEF Consistent, Sound
  <2>2. PICK n \in Nat : n = Len(w.sealed)
    BY <2>1
  <2>3. 1 <= n + 1 /\ 1..(1 - 1) = {}
    BY <2>2
  <2> QED
    BY <1>1, <1>3, <2>2, <2>3 DEF LinkedBefore
<1>6. ~Sealing' /\ ~Reading'
  BY <1>3 DEF Sealing, Reading
<1>7. CallInv'
  BY <1>3, <1>4, <1>5, <1>6 DEF CallInv
<1> QED
  BY <1>1, <1>2, <1>3, <1>7, CallStep

LEMMA CallOnlySteps ==
    ASSUME IInv, \/ Checkpoint \/ AcquireDone \/ Cancel \/ AcquireReturns
    PROVE  IInv'
<1>1. CASE Checkpoint
  BY <1>1, SealSpooledStep DEF Checkpoint, Sealing
<1>2. CASE AcquireDone
  BY <1>2, ReturnsStep DEF AcquireDone, Sealing
<1>3. CASE Cancel
  BY <1>3, ReturnsStep DEF Cancel, Sealing
<1>4. CASE AcquireReturns
  BY <1>4, InCall, SealSpooledStep DEF AcquireReturns, Sealing
<1> QED
  BY <1>1, <1>2, <1>3, <1>4

----------------------------------------------------------------------------
(* Steps that take sectors                                                 *)

\* What the source returns.
LEMMA HealthySectors ==
    ASSUME Consistent(w), NEW n \in Nat, w.offset + n <= Size,
           NEW s, s = [i \in 1..n |-> w.offset + i]
    PROVE  s \in MediaType /\ Len(s) = n /\ Holds(s, w.offset, w.errors)
<1>1. w.offset \in 0..Size /\ Table(w.errors, w.offset)
  BY DEF Consistent, WriterType
<1>2. PICK f \in Nat : f = w.offset /\ f + n <= Size
  BY <1>1, ConstantsType
<1>3. s \in [1..n -> 0..Size]
  BY <1>2, ConstantsType
<1>4. s \in MediaType /\ Len(s) = n
  BY <1>3 DEF MediaType
<1>5. ASSUME NEW i \in 1..n PROVE s[i] = Value(w.errors, f + i)
  <2>1. ~InTable(w.errors, f + i)
    <3> SUFFICES ASSUME NEW k \in DOMAIN w.errors, f + i <= RangeEnd(w.errors[k]) PROVE FALSE
      BY DEF InTable
    <3>1. w.errors[k] \in RangeType /\ RangeEnd(w.errors[k]) <= f
      BY <1>1, <1>2 DEF Table
    <3>2. RangeEnd(w.errors[k]) \in Int
      BY <3>1, ConstantsType DEF RangeType, RangeEnd
    <3> QED
      BY <1>2, <3>1, <3>2
  <2> QED
    BY <1>2, <2>1 DEF Value
<1> QED
  BY <1>2, <1>4, <1>5 DEF Holds

LEMMA TakesHealthy ==
    ASSUME Consistent(w), NEW n \in Nat, n > 0, w.offset + n <= Size,
           PendingLen(w) + n <= ChunkSectors, w.chunks < SegChunks,
           NEW s, s = [i \in 1..n |-> w.offset + i], NEW v, v = Appended(s)
    PROVE  Consistent(v) /\ Advances(v, n)
<1>1. s \in MediaType /\ Len(s) = n /\ Holds(s, w.offset, w.errors)
  BY HealthySectors
<1>2. w \in WriterType /\ w.offset \in 0..Size /\ Table(w.errors, w.offset)
  BY DEF Consistent, WriterType
<1>3. HasFields(v, w.pending \o s, w.offset + Len(s), w.errors)
  BY <1>2, AppendedFields
<1>4. Table(w.errors, w.offset + Len(s))
  <2>1. w.offset \in Nat /\ w.offset + n \in Nat /\ w.offset <= w.offset + n
    BY <1>2, ConstantsType
  <2> QED
    BY <1>1, <1>2, <2>1, TableExtends
<1> QED
  BY <1>1, <1>3, <1>4, TakenProperties

\* Where append() goes on.
SealsOrGoesOn(v, back) ==
    \/ /\ v.pending = <<>> /\ (v.chunks = SegChunks \/ v.offset = Size)
       /\ call'.pc = "seal" /\ (call'.final <=> v.offset = Size) /\ call'.back = back
    \/ /\ ~(v.pending = <<>> /\ (v.chunks = SegChunks \/ v.offset = Size))
       /\ call'.pc = back

LEMMA SealOrFields ==
    ASSUME call \in CallType, NEW v, NEW back \in {"idle", "after"},
           NEW left \in 0..(Size + 1), NEW next, next = SealOr(v, back, back),
           call' = [next EXCEPT !.left = left]
    PROVE  /\ call' \in CallType /\ SealsOrGoesOn(v, back)
           /\ call'.mode = call.mode /\ call'.left = left
<1> DEFINE due == v.pending = <<>> /\ (v.chunks = SegChunks \/ v.offset = Size)
<1>1. PICK f \in BOOLEAN : f = (v.offset = Size)
  OBVIOUS
<1>2. CASE due
  <2>1. next = [call EXCEPT !.pc = "seal", !.final = f, !.back = back]
    BY <1>1, <1>2 DEF SealOr
  <2>2. /\ next \in CallType /\ next.pc = "seal" /\ next.final = f /\ next.back = back
        /\ next.mode = call.mode
    BY <2>1 DEF CallType
  <2>3. /\ call' \in CallType /\ call'.pc = "seal" /\ call'.final = f /\ call'.back = back
        /\ call'.mode = call.mode /\ call'.left = left
    BY <2>2 DEF CallType
  <2> QED
    BY <1>1, <1>2, <2>3 DEF SealsOrGoesOn
<1>3. CASE ~due
  <2>1. next = [call EXCEPT !.pc = back]
    BY <1>3 DEF SealOr
  <2>2. next \in CallType /\ next.pc = back /\ next.mode = call.mode
    BY <2>1 DEF CallType
  <2>3. /\ call' \in CallType /\ call'.pc = back
        /\ call'.mode = call.mode /\ call'.left = left
    BY <2>2 DEF CallType
  <2> QED
    BY <1>3, <2>3 DEF SealsOrGoesOn
<1> QED
  BY <1>2, <1>3

LEMMA AppendStep ==
    ASSUME IInv, ~Sealing, w.open, ~w.failed, UNCHANGED <<dir, out>>,
           call.pc \in {"idle", "batch", "sectors"},
           NEW n \in Nat, Consistent(w'), Advances(w', n),
           NEW back \in {"idle", "after"}, call' \in CallType, SealsOrGoesOn(w', back),
           back = "after" => InRead'
    PROVE  IInv'
<1>1. CallInv /\ NoneDue /\ Acknowledged
  BY DEF IInv, CallInv, Sealing
<1>2. /\ w'.open /\ ~w'.failed /\ w'.sealed = w.sealed
      /\ \/ w'.pending = <<>> /\ w'.chunks = w.chunks + 1
         \/ w'.pending # <<>> /\ w'.chunks = w.chunks /\ w'.offset # Size
  BY DEF Advances
<1>3. w.chunks \in 0..SegChunks /\ w.chunks < SegChunks /\ SegChunks \in Nat
  BY <1>1, InCall, ConstantsType DEF NoneDue
<1>4. DirInv' /\ PublishedExact' /\ out' \in OutType
  BY DEF IInv, DirInv, PublishedExact
<1>5. WriterInv'
  BY <1>2 DEF IInv, WriterInv
<1>6. Acknowledged'
  BY <1>1, <1>2 DEF Acknowledged
<1>7. CASE /\ w'.pending = <<>> /\ call'.pc = "seal"
           /\ (call'.final <=> w'.offset = Size) /\ call'.back = back
  <2>1. SealDue' /\ Sealing'
    <3>1. w'.chunks = w.chunks + 1
      BY <1>2, <1>7
    <3>2. w'.chunks > 0
      BY <1>3, <3>1
    <3> QED
      BY <1>7, <3>2 DEF SealDue, Sealing
  <2>2. Reading' => InRead'
    BY <1>7, <2>1 DEF Reading
  <2>3. CallInv'
    BY <1>6, <1>7, <2>1, <2>2 DEF CallInv
  <2> QED
    BY <1>4, <1>5, <2>3 DEF IInv
<1>8. CASE /\ ~(w'.pending = <<>> /\ (w'.chunks = SegChunks \/ w'.offset = Size))
           /\ call'.pc = back
  <2>1. NoneDue'
    <3>1. CASE w'.pending = <<>>
      <4>1. w'.chunks = w.chunks + 1 /\ w'.chunks # SegChunks /\ w'.offset # Size
        BY <1>2, <1>8, <3>1
      <4>2. w'.chunks < SegChunks
        BY <1>3, <4>1
      <4> QED
        BY <4>1, <4>2 DEF NoneDue
    <3>2. CASE w'.pending # <<>>
      BY <1>2, <1>3, <3>2 DEF NoneDue
    <3> QED
      BY <3>1, <3>2
  <2>2. ~Sealing' /\ (Reading' => InRead')
    BY <1>8 DEF Sealing, Reading
  <2>3. CallInv'
    BY <1>6, <1>8, <2>1, <2>2 DEF CallInv
  <2> QED
    BY <1>4, <1>5, <2>3 DEF IInv
<1> QED
  BY <1>7, <1>8 DEF SealsOrGoesOn

\* A poisoned writer keeps its state, for Drop.
LEMMA PoisonStep ==
    ASSUME IInv, w.open, ~w.failed, w' = [w EXCEPT !.failed = TRUE],
           UNCHANGED <<dir, out>>, call' \in CallType, call'.pc = "idle"
    PROVE  IInv'
<1>1. Consistent(w') /\ w'.open = w.open /\ w'.sealed = w.sealed /\ w'.failed
  BY InCall, PoisonedConsistent
<1>2. DirInv' /\ PublishedExact' /\ out' \in OutType
  BY DEF IInv, DirInv, PublishedExact
<1>3. WriterInv'
  BY <1>1 DEF IInv, WriterInv
<1> QED
  BY <1>1, <1>2, <1>3 DEF IInv

LEMMA DestinationFailsStep == ASSUME IInv, DestinationFails PROVE IInv'
<1>1. call' \in CallType /\ call'.pc = "idle"
  <2>1. call' = [Idle EXCEPT !.result = "error"] /\ 0 \in 0..(Size + 1)
    BY ConstantsType DEF DestinationFails
  <2> QED
    BY <2>1 DEF Idle, CallType
<1> QED
  BY <1>1, PoisonStep DEF DestinationFails

LEMMA WriteStep == ASSUME IInv, NEW n \in 1..Size, Write(n) PROVE IInv'
<1>1. w.open /\ call.pc = "idle" /\ ~w.failed /\ UNCHANGED <<dir, out>> /\ ~Sealing
  BY DEF Write, Sealing
<1>2. call \in CallType /\ Consistent(w) /\ w.offset \in 0..Size /\ CallInv
  BY <1>1, InCall
<1>3. CASE w.offset = Size
  <2>1. w' = [w EXCEPT !.failed = TRUE] /\ UNCHANGED call
    BY <1>3 DEF Write
  <2> QED
    BY <1>1, <1>2, <2>1, PoisonStep
<1>4. CASE w.offset # Size
  <2>1. PICK take : take = Least(n, Least(ChunkSectors - Len(w.pending), Size - w.offset))
    OBVIOUS
  <2>2. PICK s : s = [i \in 1..take |-> w.offset + i]
    OBVIOUS
  <2>3. w' = Appended(s) /\ call' = SealOr(Appended(s), "idle", "idle")
    BY <1>4, <2>1, <2>2 DEF Write
  <2>4. take \in Nat /\ take > 0 /\ w.offset + take <= Size
        /\ PendingLen(w) + take <= ChunkSectors
    <3>1. w.pending \in MediaType /\ PendingLen(w) < ChunkSectors
      BY <1>2 DEF Consistent, WriterType
    <3>2. PICK p \in Nat : p = Len(w.pending) /\ p = PendingLen(w) /\ p < ChunkSectors
      BY <3>1 DEF MediaType, PendingLen
    <3>3. take = Least(n, Least(ChunkSectors - p, Size - w.offset))
      BY <2>1, <3>2
    <3> QED
      BY <1>2, <1>4, <3>2, <3>3, ConstantsType DEF Least
  <2>5. w.chunks < SegChunks
    BY <1>1, <1>2 DEF CallInv, NoneDue
  <2>6. Consistent(w') /\ Advances(w', take)
    BY <1>2, <2>2, <2>3, <2>4, <2>5, TakesHealthy
  <2>7. PICK left \in 0..(Size + 1) : left = call.left
    BY <1>2 DEF CallType
  <2>8. PICK next : next = SealOr(w', "idle", "idle") /\ call' = next
    BY <2>3
  <2>9. call' = [next EXCEPT !.left = left]
    <3>1. next \in CallType /\ next.left = left
      <4>1. PICK f \in BOOLEAN : f = (w'.offset = Size)
        OBVIOUS
      <4>2. next = [call EXCEPT !.pc = "seal", !.final = f, !.back = "idle"]
            \/ next = [call EXCEPT !.pc = "idle"]
        BY <2>8, <4>1 DEF SealOr
      <4> QED
        BY <1>2, <2>7, <4>2 DEF CallType
    <3> QED
      BY <2>8, <3>1 DEF CallType
  <2>10. call' \in CallType /\ SealsOrGoesOn(w', "idle")
    BY <1>2, <2>8, <2>9, SealOrFields
  <2> QED
    BY <1>1, <2>4, <2>6, <2>10, AppendStep
<1> QED
  BY <1>3, <1>4

LEMMA AppendChunkStep == ASSUME IInv, AppendChunk PROVE IInv'
<1>1. call.pc = "batch" /\ UNCHANGED <<dir, out>> /\ ~Sealing
  BY DEF AppendChunk, Sealing
<1>2. w.open /\ ~w.failed /\ call \in CallType /\ Consistent(w) /\ CallInv
      /\ w.offset \in 0..Size /\ w.chunks \in 0..SegChunks
  BY <1>1, InCall
<1>3. /\ call.left \in Nat /\ call.left > 0 /\ call.left <= Size + 1 /\ call.mode = "batch"
      /\ w.offset + call.left <= Size /\ w.pending = <<>> /\ w.chunks < SegChunks
  BY <1>1, <1>2, ConstantsType DEF CallInv, Reading, InRead, NoneDue, CallType, Sealing
<1>4. PICK n \in Nat : n = Least(ChunkSectors, call.left)
  BY <1>3, ConstantsType DEF Least
<1>5. PICK s : s = [i \in 1..n |-> w.offset + i]
  OBVIOUS
<1>6. /\ n > 0 /\ w.offset + n <= Size /\ PendingLen(w) + n <= ChunkSectors
      /\ PendingLen(w) = 0 /\ call.left - n \in 0..(Size + 1)
      /\ call.left - n > 0 => PendingLen(w) + n = ChunkSectors
  <2>1. PendingLen(w) = 0
    BY <1>3 DEF PendingLen
  <2> QED
    BY <1>2, <1>3, <1>4, <2>1, ConstantsType DEF Least
<1>7. w' = Appended(s)
  BY <1>4, <1>5 DEF AppendChunk
<1>8. Consistent(w') /\ Advances(w', n)
  BY <1>2, <1>3, <1>5, <1>6, <1>7, TakesHealthy
<1>9. PICK next : next = SealOr(w', "after", "after") /\ call' = [next EXCEPT !.left = @ - Len(s)]
  BY <1>4, <1>5, <1>7 DEF AppendChunk
<1>10. PICK left \in 0..(Size + 1) : left = call.left - n
  BY <1>6
<1>11. call' = [next EXCEPT !.left = left]
  <2>1. next.left = call.left
    BY <1>2, <1>9 DEF SealOr, CallType
  <2>2. Len(s) = n
    BY <1>5
  <2> QED
    BY <1>9, <1>10, <2>1, <2>2
<1>12. call' \in CallType /\ SealsOrGoesOn(w', "after") /\ call'.mode = "batch"
       /\ call'.left = left
  BY <1>2, <1>3, <1>9, <1>11, SealOrFields
<1>13. InRead'
  <2>1. w'.offset = w.offset + n /\ (PendingLen(w) + n = ChunkSectors => w'.pending = <<>>)
    BY <1>8 DEF Advances
  <2>2. w'.offset + left <= Size
    BY <1>2, <1>3, <1>10, <2>1, ConstantsType
  <2>3. left > 0 => w'.pending = <<>>
    BY <1>6, <1>10, <2>1
  <2> QED
    BY <1>12, <2>2, <2>3 DEF InRead
<1> QED
  BY <1>1, <1>2, <1>8, <1>12, <1>13, AppendStep

\* What the two ways of taking one sector of a read have in common.
LEMMA SectorTaken ==
    ASSUME IInv, call.pc = "sectors", UNCHANGED <<dir, out>>,
           Consistent(w'), Advances(w', 1),
           NEW next, next = SealOr(w', "after", "after"), call' = [next EXCEPT !.left = @ - 1]
    PROVE  IInv'
<1>1. ~Sealing
  BY DEF Sealing
<1>2. w.open /\ ~w.failed /\ call \in CallType /\ CallInv /\ w.offset \in 0..Size
  BY InCall
<1>3. /\ call.left \in Nat /\ call.left > 0 /\ call.left <= Size + 1
      /\ call.mode = "sectors" /\ w.offset + call.left <= Size
  BY <1>2, ConstantsType DEF CallInv, Reading, InRead, CallType
<1>4. PICK left \in 0..(Size + 1) : left = call.left - 1
  BY <1>3, ConstantsType
<1>5. call' = [next EXCEPT !.left = left]
  <2>1. next.left = call.left
    BY <1>2 DEF SealOr, CallType
  <2> QED
    BY <1>4, <2>1
<1>6. call' \in CallType /\ SealsOrGoesOn(w', "after") /\ call'.mode = "sectors"
      /\ call'.left = left
  BY <1>2, <1>3, <1>5, SealOrFields
<1>7. InRead'
  <2>1. w'.offset = w.offset + 1
    BY DEF Advances
  <2>2. w'.offset + left <= Size
    BY <1>2, <1>3, <1>4, <2>1, ConstantsType
  <2> QED
    BY <1>6, <2>2 DEF InRead
<1> QED
  BY <1>1, <1>2, <1>6, <1>7, AppendStep

\* There is room for a sector that is read.
LEMMA SectorFits ==
    ASSUME IInv, call.pc = "sectors"
    PROVE  /\ Consistent(w) /\ w.offset \in Nat /\ w.offset + 1 <= Size
           /\ PendingLen(w) + 1 <= ChunkSectors /\ w.chunks < SegChunks
<1>1. Consistent(w) /\ CallInv /\ call \in CallType /\ w.offset \in 0..Size
  BY InCall
<1>2. call.left > 0 /\ w.offset + call.left <= Size /\ w.chunks < SegChunks
      /\ call.left \in Nat
  BY <1>1, ConstantsType DEF CallInv, Reading, InRead, NoneDue, Sealing, CallType
<1>3. w.pending \in MediaType /\ PendingLen(w) < ChunkSectors
  BY <1>1 DEF Consistent, WriterType
<1>4. PendingLen(w) \in Nat
  BY <1>3 DEF PendingLen, MediaType
<1> QED
  BY <1>1, <1>2, <1>3, <1>4, ConstantsType

LEMMA SectorReadStep == ASSUME IInv, SectorRead PROVE IInv'
<1>1. call.pc = "sectors" /\ UNCHANGED <<dir, out>> /\ w' = Appended(<<w.offset + 1>>)
  BY DEF SectorRead
<1>2. /\ Consistent(w) /\ w.offset \in Nat /\ w.offset + 1 <= Size
      /\ PendingLen(w) + 1 <= ChunkSectors /\ w.chunks < SegChunks
  BY <1>1, SectorFits
<1>3. PICK s : s = [i \in 1..1 |-> w.offset + i]
  OBVIOUS
<1>4. <<w.offset + 1>> = s
  <2>1. Len(s) = 1 /\ s[1] = w.offset + 1 /\ s \in Seq({w.offset + 1})
    BY <1>3
  <2>2. PICK f : f = w.offset + 1
    OBVIOUS
  <2>3. <<f>> \in Seq({f}) /\ Len(<<f>>) = 1 /\ <<f>>[1] = f
    OBVIOUS
  <2> QED
    BY <2>1, <2>2, <2>3, SeqEqual
<1>5. Consistent(w') /\ Advances(w', 1)
  <2>1. w' = Appended(s)
    BY <1>1, <1>4
  <2>2. PICK n \in Nat : n = 1
    OBVIOUS
  <2>3. n > 0 /\ w.offset + n <= Size /\ PendingLen(w) + n <= ChunkSectors
        /\ s = [i \in 1..n |-> w.offset + i]
    BY <1>2, <1>3, <2>2
  <2> QED
    BY <1>2, <2>1, <2>2, <2>3, TakesHealthy
<1>6. PICK next : next = SealOr(w', "after", "after") /\ call' = [next EXCEPT !.left = @ - 1]
  BY <1>1 DEF SectorRead, AppendSector
<1> QED
  BY <1>1, <1>5, <1>6, SectorTaken

LEMMA SectorUnreadableStep == ASSUME IInv, SectorUnreadable PROVE IInv'
<1>1. call.pc = "sectors" /\ UNCHANGED <<dir, out>> /\ ~Sealing
  BY DEF SectorUnreadable, Sealing
<1>2. CASE Returns("error") /\ UNCHANGED w
  BY <1>1, <1>2, ReturnsStep
<1>3. CASE /\ w' = [Appended(<<Zero>>) EXCEPT !.errors = RecordSubstitution(w.errors, w.offset)]
           /\ AppendSector(Zero)
  <2>1. /\ Consistent(w) /\ w.offset \in Nat /\ w.offset + 1 <= Size
        /\ PendingLen(w) + 1 <= ChunkSectors /\ w.chunks < SegChunks
    BY <1>1, SectorFits
  <2>2. PICK s : s = <<Zero>>
    OBVIOUS
  <2>3. s \in MediaType /\ Len(s) = 1 /\ s[1] = Zero
    BY <2>2, ConstantsType DEF Zero, MediaType
  <2>4. PICK errors : errors = RecordSubstitution(w.errors, w.offset)
    OBVIOUS
  <2>5. /\ Table(errors, w.offset + 1) /\ InTable(errors, w.offset + 1)
        /\ \A i \in 1..w.offset : InTable(errors, i) <=> InTable(w.errors, i)
    <3>1. Table(w.errors, w.offset) /\ w.offset < Size
      BY <2>1, ConstantsType DEF Consistent
    <3> QED
      BY <2>1, <2>4, <3>1, RecordedProperties
  <2>6. Holds(s, w.offset, errors)
    <3>1. \A i \in 1..Len(s) : i = 1
      BY <2>3
    <3> QED
      BY <2>3, <2>5, <3>1 DEF Holds, Value
  <2>7. w \in WriterType
    BY <2>1 DEF Consistent
  <2>8. HasFields(w', w.pending \o s, w.offset + Len(s), errors)
    BY <1>3, <2>2, <2>4, <2>7, TakenFields
  <2>9. Consistent(w') /\ Advances(w', 1)
    <3>1. Len(s) > 0 /\ PendingLen(w) + Len(s) <= ChunkSectors
          /\ w.offset + Len(s) <= Size /\ Table(errors, w.offset + Len(s))
      BY <2>1, <2>3, <2>5
    <3>2. Consistent(w') /\ Advances(w', Len(s))
      BY <2>1, <2>3, <2>5, <2>6, <2>8, <3>1, TakenProperties
    <3> QED
      BY <2>3, <3>2
  <2>10. PICK next : next = SealOr(w', "after", "after") /\ call' = [next EXCEPT !.left = @ - 1]
    <3>1. call' = [SealOr(Appended(<<Zero>>), "after", "after") EXCEPT !.left = @ - 1]
      BY <1>3 DEF AppendSector
    <3>2. PICK v : v = Appended(<<Zero>>)
      OBVIOUS
    <3>3. HasFields(v, w.pending \o <<Zero>>, w.offset + Len(<<Zero>>), w.errors)
      BY <2>7, <3>2, AppendedFields
    <3>4. w'.pending = v.pending /\ w'.chunks = v.chunks /\ w'.offset = v.offset
      <4>1. w' = [v EXCEPT !.errors = errors]
        BY <1>3, <2>4, <3>2
      <4> QED
        BY <3>3, <4>1 DEF HasFields
    <3>5. SealOr(v, "after", "after") = SealOr(w', "after", "after")
      BY <3>4 DEF SealOr
    <3> QED
      BY <3>1, <3>2, <3>5
  <2> QED
    BY <1>1, <2>9, <2>10, SectorTaken
<1> QED
  BY <1>2, <1>3 DEF SectorUnreadable

----------------------------------------------------------------------------
(* Steps that seal                                                         *)

\* A segment is being sealed.
LEMMA InSealing ==
    ASSUME IInv, Sealing
    PROVE  /\ w.open /\ ~w.failed /\ CallInv /\ SealDue /\ Consistent(w) /\ w.chunks > 0
           /\ call \in CallType /\ call.final \in BOOLEAN
           /\ dir \in DirType /\ dir.exists /\ Sound(dir.records)
           /\ dir.staged \in Seq(SegmentType) /\ dir.records \in Seq(SealType)
           /\ w.sealed \in Seq(SealType)
           /\ Vouched(dir.staged, dir.records)
           /\ dir.publishing => EndOf(dir.records) = Size
           /\ Reading <=> call.back # "idle"
           /\ Len(w.sealed) < MaxSegs =>
                 /\ NewSeal \in SealType /\ NewSegment \in SegmentType
                 /\ NewSeal.digest = NewSegment
                 /\ Sound(Append(w.sealed, NewSeal))
                 /\ Media(Append(w.sealed, NewSeal)) = w.hashed
                 /\ EndOf(w.sealed) < Size
<1>1. w.open /\ ~w.failed /\ CallInv /\ SealDue /\ Consistent(w) /\ call \in CallType
  BY InCall DEF Sealing, CallInv
<1>2. call.final \in BOOLEAN /\ w.chunks > 0
  BY <1>1 DEF CallType, SealDue
<1>3. /\ dir \in DirType /\ dir.exists /\ Sound(dir.records)
      /\ Vouched(dir.staged, dir.records)
      /\ dir.publishing => EndOf(dir.records) = Size
  BY <1>1 DEF IInv, WriterInv, DirInv
<1>4. dir.staged \in Seq(SegmentType) /\ dir.records \in Seq(SealType)
      /\ w.sealed \in Seq(SealType)
  BY <1>1, <1>3 DEF DirType, Consistent, Sound
<1>5. Reading <=> call.back # "idle"
  BY DEF Reading, Sealing
<1>6. ASSUME Len(w.sealed) < MaxSegs
      PROVE  /\ NewSeal \in SealType /\ NewSegment \in SegmentType
             /\ NewSeal.digest = NewSegment
             /\ Sound(Append(w.sealed, NewSeal))
             /\ Media(Append(w.sealed, NewSeal)) = w.hashed
             /\ EndOf(w.sealed) < Size
  <2>1. call.final <=> w.offset = Size
    BY <1>1 DEF SealDue
  <2>2. /\ NewSeal \in SealType /\ NewSegment \in SegmentType
        /\ Sound(Append(w.sealed, NewSeal))
        /\ Media(Append(w.sealed, NewSeal)) = w.hashed
        /\ EndOf(w.sealed) < SealedEnd
    BY <1>1, <1>2, <1>6, <2>1, NewSealProperties
  <2>3. SealedEnd \in 0..w.offset /\ w.offset \in 0..Size /\ EndOf(w.sealed) \in 0..Size
    BY <1>1, SealedEndType
  <2>4. EndOf(w.sealed) < Size
    BY <2>2, <2>3, ConstantsType
  <2> QED
    BY <2>2, <2>4, NewSealFields
<1> QED
  BY <1>1, <1>2, <1>3, <1>4, <1>5, <1>6

LEMMA SealSegmentStep == ASSUME IInv, SealSegment PROVE IInv'
<1>1. /\ call.pc = "seal" /\ Sealing /\ UNCHANGED <<w, out>> /\ Len(w.sealed) < MaxSegs
      /\ dir' = [dir EXCEPT !.staged = Append(@, NewSegment)]
      /\ call' = [call EXCEPT !.pc = "record"]
  BY DEF SealSegment, Sealing, NewSegment
<1>2. /\ w.open /\ ~w.failed /\ CallInv /\ SealDue /\ Consistent(w)
      /\ call \in CallType /\ dir \in DirType /\ dir.exists /\ Sound(dir.records)
      /\ dir.staged \in Seq(SegmentType) /\ dir.records \in Seq(SealType)
      /\ Vouched(dir.staged, dir.records)
      /\ dir.publishing => EndOf(dir.records) = Size
      /\ NewSegment \in SegmentType /\ EndOf(w.sealed) < Size
      /\ Reading => InRead
  BY <1>1, InSealing DEF CallInv
<1>3. dir.records = w.sealed /\ Even(dir.staged, w.sealed)
  BY <1>1, <1>2 DEF CallInv, Acknowledged
<1>4. /\ call' \in CallType /\ call'.pc = "record" /\ call'.final = call.final
      /\ call'.back = call.back /\ call'.mode = call.mode /\ call'.left = call.left
  BY <1>1, <1>2 DEF CallType
<1>5. PICK segment \in SegmentType : segment = NewSegment
  BY <1>2
<1>6. PICK longer : longer = Append(dir.staged, segment)
  OBVIOUS
<1>7. /\ longer \in Seq(SegmentType) /\ Vouched(longer, dir.records)
      /\ OneAhead(longer, dir.records) /\ ~Even(longer, dir.records)
      /\ Last(longer) = segment
  BY <1>2, <1>3, <1>5, <1>6, VouchedStage
<1>8. /\ dir' \in DirType /\ dir'.staged = longer /\ dir'.records = dir.records
      /\ dir'.exists /\ dir'.publishing = dir.publishing
  <2>1. dir' = [dir EXCEPT !.staged = longer]
    BY <1>1, <1>5, <1>6
  <2> QED
    BY <1>2, <1>7, <2>1 DEF DirType
<1>9. DirInv'
  BY <1>2, <1>3, <1>7, <1>8 DEF DirInv
<1>10. WriterInv'
  BY <1>1, <1>2, <1>8 DEF IInv, WriterInv
<1>11. NewSegment' = NewSegment
  BY <1>1, <1>4 DEF NewSegment, SealedEnd
<1>12. SealDue' /\ Sealing'
  BY <1>1, <1>2, <1>4 DEF SealDue, Sealing
<1>13. Reading' => InRead'
  BY <1>1, <1>2, <1>4, <1>12 DEF Reading, InRead
<1>14. /\ dir'.records = w'.sealed /\ Len(w'.sealed) < MaxSegs
       /\ OneAhead(dir'.staged, w'.sealed) /\ Last(dir'.staged) = NewSegment'
  BY <1>1, <1>3, <1>5, <1>7, <1>8, <1>11
<1>15. CallInv'
  BY <1>4, <1>12, <1>13, <1>14 DEF CallInv
<1>16. PublishedExact' /\ out' \in OutType
  BY <1>1, <1>8 DEF IInv, PublishedExact
<1> QED
  BY <1>4, <1>9, <1>10, <1>15, <1>16 DEF IInv

LEMMA SealRecordStep == ASSUME IInv, SealRecord PROVE IInv'
<1>1. /\ call.pc = "record" /\ Sealing /\ UNCHANGED <<w, out>>
      /\ dir' = [dir EXCEPT !.records = Append(@, [end |-> SealedEnd, digest |-> Last(dir.staged)])]
      /\ call' = [call EXCEPT !.pc = "sealed"]
  BY DEF SealRecord, Sealing
<1>2. /\ CallInv /\ dir.records = w.sealed /\ Len(w.sealed) < MaxSegs
      /\ OneAhead(dir.staged, w.sealed) /\ Last(dir.staged) = NewSegment
  BY <1>1, InSealing DEF CallInv
<1>3. /\ w.open /\ ~w.failed /\ SealDue /\ Consistent(w)
      /\ call \in CallType /\ dir \in DirType /\ dir.exists
      /\ dir.staged \in Seq(SegmentType) /\ dir.records \in Seq(SealType)
      /\ Vouched(dir.staged, dir.records)
      /\ dir.publishing => EndOf(dir.records) = Size
      /\ NewSeal \in SealType /\ NewSeal.digest = NewSegment
      /\ Sound(Append(w.sealed, NewSeal)) /\ EndOf(w.sealed) < Size
      /\ Reading => InRead
  BY <1>1, <1>2, InSealing DEF CallInv
<1>4. /\ call' \in CallType /\ call'.pc = "sealed" /\ call'.final = call.final
      /\ call'.back = call.back /\ call'.mode = call.mode /\ call'.left = call.left
  BY <1>1, <1>3 DEF CallType
<1>5. PICK seal \in SealType : seal = NewSeal
  BY <1>3
<1>6. PICK longer : longer = Append(dir.records, seal)
  OBVIOUS
<1>7. /\ longer \in Seq(SealType) /\ Vouched(dir.staged, longer) /\ Even(dir.staged, longer)
  BY <1>2, <1>3, <1>5, <1>6, VouchedRecord
<1>8. /\ dir' \in DirType /\ dir'.staged = dir.staged /\ dir'.records = longer
      /\ dir'.exists /\ dir'.publishing = dir.publishing
  <2>1. [end |-> SealedEnd, digest |-> Last(dir.staged)] = seal
    BY <1>2, <1>5 DEF NewSeal
  <2>2. dir' = [dir EXCEPT !.records = longer]
    BY <1>1, <1>6, <2>1
  <2> QED
    BY <1>3, <1>7, <2>2 DEF DirType
<1>9. ~dir.publishing
  BY <1>2, <1>3, ConstantsType
<1>10. DirInv'
  <2>1. Sound(longer)
    BY <1>2, <1>3, <1>5, <1>6
  <2> QED
    BY <1>7, <1>8, <1>9, <2>1 DEF DirInv
<1>11. WriterInv'
  <2>1. IsPrefix(dir.records, longer)
    BY <1>3, <1>6, PrefixGrows
  <2> QED
    BY <1>1, <1>2, <1>3, <1>8, <2>1 DEF WriterInv
<1>12. NewSeal' = NewSeal
  BY <1>1, <1>4 DEF NewSeal, NewSegment, SealedEnd
<1>13. SealDue' /\ Sealing'
  BY <1>1, <1>3, <1>4 DEF SealDue, Sealing
<1>14. Reading' => InRead'
  BY <1>1, <1>3, <1>4, <1>13 DEF Reading, InRead
<1>15. /\ dir'.records = Append(w'.sealed, NewSeal') /\ Len(w'.sealed) < MaxSegs
       /\ Even(dir'.staged, dir'.records)
  BY <1>1, <1>2, <1>5, <1>6, <1>7, <1>8, <1>12
<1>16. CallInv'
  BY <1>4, <1>13, <1>14, <1>15 DEF CallInv
<1>17. PublishedExact' /\ out' \in OutType
  BY <1>1, <1>8 DEF IInv, PublishedExact
<1> QED
  BY <1>4, <1>10, <1>11, <1>16, <1>17 DEF IInv

LEMMA SealedStep == ASSUME IInv, Sealed PROVE IInv'
<1>1. /\ call.pc = "sealed" /\ Sealing /\ UNCHANGED <<dir, out>>
      /\ w' = [w EXCEPT !.sealed = Append(@, Last(dir.records)), !.spool = <<>>, !.chunks = 0]
      /\ call' = [call EXCEPT !.pc = call.back]
  BY DEF Sealed, Sealing
<1>2. /\ CallInv /\ dir.records = Append(w.sealed, NewSeal) /\ Len(w.sealed) < MaxSegs
      /\ Even(dir.staged, dir.records)
  BY <1>1, InSealing DEF CallInv
<1>3. /\ w.open /\ ~w.failed /\ Consistent(w) /\ call \in CallType
      /\ dir.exists /\ dir.records \in Seq(SealType) /\ w.sealed \in Seq(SealType)
      /\ NewSeal \in SealType /\ Sound(dir.records) /\ Media(dir.records) = w.hashed
      /\ Reading => InRead
  BY <1>1, <1>2, InSealing DEF CallInv
<1>4. w' = [w EXCEPT !.sealed = dir.records, !.spool = <<>>, !.chunks = 0]
  <2>1. Last(dir.records) = NewSeal
    <3>1. PICK seal \in SealType, n \in Nat : seal = NewSeal /\ n = Len(w.sealed)
      BY <1>3
    <3>2. Len(Append(w.sealed, seal)) = n + 1 /\ Append(w.sealed, seal)[n + 1] = seal
      BY <1>3, <3>1
    <3> QED
      BY <1>2, <3>1, <3>2 DEF Last
  <2>2. w \in WriterType
    BY <1>3 DEF Consistent
  <2> QED
    BY <1>1, <1>2, <2>1, <2>2 DEF WriterType
<1>5. /\ Consistent(w') /\ w'.sealed = dir.records /\ w'.open = w.open /\ w'.failed = w.failed
      /\ w'.offset = w.offset /\ w'.chunks = 0 /\ w'.pending = w.pending
  BY <1>3, <1>4, SealedConsistent
<1>6. /\ call' \in CallType /\ call'.pc = call.back /\ call'.pc \in {"idle", "after", "notify"}
      /\ call'.mode = call.mode /\ call'.left = call.left
  BY <1>1, <1>3 DEF CallType
<1>7. DirInv' /\ PublishedExact' /\ out' \in OutType
  BY <1>1, <1>3 DEF IInv, DirInv, PublishedExact
<1>8. WriterInv'
  <2>1. IsPrefix(dir.records, dir.records)
    BY <1>3, PrefixTrivial
  <2> QED
    BY <1>1, <1>3, <1>5, <2>1 DEF WriterInv
<1>9. NoneDue' /\ Acknowledged' /\ ~Sealing'
  BY <1>1, <1>2, <1>5, <1>6, ConstantsType DEF NoneDue, Acknowledged, Sealing
<1>10. Reading' => InRead'
  BY <1>1, <1>3, <1>5, <1>6, <1>9 DEF Reading, InRead
<1>11. CallInv'
  BY <1>6, <1>9, <1>10 DEF CallInv
<1> QED
  BY <1>6, <1>7, <1>8, <1>11 DEF IInv

----------------------------------------------------------------------------
(* Steps that begin and end a writer                                       *)

\* Media that hold the source but for a table are exact.
LEMMA ExactMedia ==
    ASSUME NEW media \in MediaType, NEW n \in 0..Size, Len(media) = n,
           NEW errors, Table(errors, n), Holds(media, 0, errors)
    PROVE  Exact(media, errors)
<1>1. DOMAIN media = 1..n /\ errors \in Seq(RangeType) /\ n \in Nat
  BY ConstantsType DEF MediaType, Table
<1>2. ASSUME NEW i \in Covered(errors) PROVE i \in 1..n
  <2>1. i \in Int /\ InTable(errors, i)
    BY <1>1, CoveredMeans
  <2>2. PICK k \in DOMAIN errors : errors[k].first < i /\ i <= RangeEnd(errors[k])
    BY <2>1 DEF InTable
  <2>3. errors[k] \in RangeType /\ RangeEnd(errors[k]) <= n
    BY <1>1 DEF Table
  <2> QED
    BY <1>1, <2>1, <2>2, <2>3, ConstantsType DEF RangeType, RangeEnd
<1>3. ASSUME NEW i \in 1..n PROVE media[i] = IF i \in Covered(errors) THEN Zero ELSE i
  <2>1. i \in Covered(errors) <=> InTable(errors, i)
    BY <1>1, CoveredMeans
  <2>2. media[i] = Value(errors, 0 + i) /\ 0 + i = i
    BY <1>1 DEF Holds
  <2> QED
    BY <2>1, <2>2 DEF Value
<1> QED
  BY <1>1, <1>2, <1>3 DEF Exact

\* A writer that begins at the end of a checkpoint may go on.
LEMMA BeginsStep ==
    ASSUME DirInv', out' \in OutType, PublishedExact', dir'.exists, call' = Idle,
           Sound(dir'.records), Begins(w', dir'.records), w'.open, ~w'.failed,
           Even(dir'.staged, dir'.records)
    PROVE  IInv'
<1>1. call' \in CallType /\ call'.pc = "idle"
  <2>1. 0 \in 0..(Size + 1)
    BY ConstantsType
  <2> QED
    BY <2>1 DEF Idle, CallType
<1>2. Consistent(w')
  BY BeginsConsistent
<1>3. w'.sealed = dir'.records /\ w'.chunks = 0
  BY DEF Begins
<1>4. WriterInv'
  <2>1. dir'.records \in Seq(SealType)
    BY DEF Sound
  <2>2. IsPrefix(dir'.records, dir'.records)
    BY <2>1, PrefixTrivial
  <2> QED
    BY <1>2, <1>3, <2>2 DEF WriterInv
<1>5. NoneDue' /\ Acknowledged' /\ ~Sealing' /\ ~Reading'
  BY <1>1, <1>3, ConstantsType DEF NoneDue, Acknowledged, Sealing, Reading
<1>6. CallInv'
  BY <1>1, <1>5 DEF CallInv
<1> QED
  BY <1>1, <1>4, <1>6 DEF IInv

LEMMA CreateStep == ASSUME IInv, Create PROVE IInv'
<1>1. /\ dir' = [NoDir EXCEPT !.exists = TRUE] /\ w' = [Closed EXCEPT !.open = TRUE]
      /\ call' = Idle /\ UNCHANGED out
  BY DEF Create
<1>2. /\ dir' \in DirType /\ dir'.exists /\ dir'.records = <<>> /\ dir'.staged = <<>>
      /\ ~dir'.publishing
  <2>1. dir' = [exists |-> TRUE, staged |-> <<>>, records |-> <<>>, publishing |-> FALSE]
    BY <1>1 DEF NoDir
  <2> QED
    BY <2>1 DEF DirType
<1>3. Even(<<>>, <<>>) /\ Vouched(<<>>, <<>>)
  BY DEF Even, Vouched
<1>4. DirInv'
  BY <1>2, <1>3, SoundEmpty DEF DirInv
<1>5. out' \in OutType /\ PublishedExact'
  BY <1>1, <1>2 DEF IInv, PublishedExact
<1> QED
  BY <1>1, <1>2, <1>3, <1>4, <1>5, SoundEmpty, ClosedBegins, BeginsStep

LEMMA ResumeStep == ASSUME IInv, Resume PROVE IInv'
<1>1. /\ dir.exists /\ w' = Resumed(dir.records) /\ dir' = DiscardUnsealed(dir)
      /\ call' = Idle /\ UNCHANGED out
  BY DEF Resume
<1>2. /\ dir \in DirType /\ Sound(dir.records) /\ Vouched(dir.staged, dir.records)
      /\ dir.publishing => EndOf(dir.records) = Size
      /\ ~Even(dir.staged, dir.records) => EndOf(dir.records) < Size
      /\ dir.staged \in Seq(SegmentType) /\ dir.records \in Seq(SealType)
  BY <1>1 DEF IInv, DirInv, DirType
<1>3. /\ dir' \in DirType /\ dir'.exists /\ dir'.records = dir.records
      /\ dir'.publishing = dir.publishing
      /\ Vouched(dir'.staged, dir.records) /\ Even(dir'.staged, dir.records)
  <2>1. CASE EndOf(dir.records) < Size
    <3>1. PICK kept : kept = SubSeq(dir.staged, 1, Len(dir.records))
      OBVIOUS
    <3>2. kept \in Seq(SegmentType) /\ Vouched(kept, dir.records) /\ Even(kept, dir.records)
      BY <1>2, <3>1, VouchedDiscard
    <3>3. dir' = [dir EXCEPT !.staged = kept]
      BY <1>1, <2>1, <3>1 DEF DiscardUnsealed
    <3> QED
      BY <1>1, <1>2, <3>2, <3>3 DEF DirType
  <2>2. CASE ~(EndOf(dir.records) < Size)
    BY <1>1, <1>2, <2>2 DEF DiscardUnsealed
  <2> QED
    BY <2>1, <2>2
<1>4. DirInv'
  BY <1>2, <1>3 DEF DirInv
<1>5. out' \in OutType /\ PublishedExact'
  BY <1>1, <1>3 DEF IInv, PublishedExact
<1>6. Begins(w', dir'.records) /\ w'.open /\ ~w'.failed
  BY <1>1, <1>2, <1>3, ResumedBegins
<1> QED
  BY <1>1, <1>2, <1>3, <1>4, <1>5, <1>6, BeginsStep

\* The writer is gone.
LEMMA GoneStep ==
    ASSUME DirInv', out' \in OutType, PublishedExact', w' = Closed,
           call' \in CallType, call'.pc = "idle"
    PROVE  IInv'
<1>1. Consistent(w') /\ ~w'.open /\ w'.sealed = <<>>
  BY ClosedBegins, SoundEmpty, BeginsConsistent DEF Begins
<1>2. ~w'.failed
  BY ClosedBegins
<1>3. WriterInv'
  BY <1>1, <1>2 DEF WriterInv
<1> QED
  BY <1>1, <1>3 DEF IInv

LEMMA DropStep == ASSUME IInv, Drop PROVE IInv'
<1>1. w' = Closed /\ call' = Idle /\ UNCHANGED <<dir, out>>
  BY DEF Drop
<1>2. call' \in CallType /\ call'.pc = "idle"
  <2>1. 0 \in 0..(Size + 1)
    BY ConstantsType
  <2> QED
    BY <1>1, <2>1 DEF Idle, CallType
<1>3. DirInv' /\ PublishedExact' /\ out' \in OutType
  BY <1>1 DEF IInv, DirInv, PublishedExact
<1> QED
  BY <1>1, <1>2, <1>3, GoneStep

\* A writer whose segments reach the end has nothing left to seal.
LEMMA FinishStep == ASSUME IInv, Finish PROVE IInv'
<1>1. /\ w.open /\ call.pc = "idle" /\ ~w.failed /\ EndOf(w.sealed) = Size
      /\ dir' = [dir EXCEPT !.publishing = TRUE] /\ call' = [Idle EXCEPT !.pc = "check"]
      /\ UNCHANGED <<w, out>>
  BY DEF Finish, checkpoint_offset
<1>2. CallInv /\ Consistent(w) /\ call \in CallType
  BY <1>1, InCall
<1>3. NoneDue /\ Acknowledged
  BY <1>1, <1>2 DEF CallInv, Sealing
<1>4. dir \in DirType /\ dir.exists /\ Sound(dir.records) /\ Vouched(dir.staged, dir.records)
      /\ IsPrefix(w.sealed, dir.records)
  BY <1>1 DEF IInv, DirInv, WriterInv
<1>5. /\ dir' \in DirType /\ dir'.exists /\ dir'.publishing
      /\ dir'.records = dir.records /\ dir'.staged = dir.staged
  BY <1>1, <1>4 DEF DirType
<1>6. DirInv'
  BY <1>1, <1>3, <1>4, <1>5 DEF DirInv, Acknowledged
<1>7. WriterInv'
  BY <1>1, <1>2, <1>4, <1>5 DEF WriterInv
<1>8. call' \in CallType /\ call'.pc = "check"
  <2>1. 0 \in 0..(Size + 1)
    BY ConstantsType
  <2> QED
    BY <1>1, <2>1 DEF Idle, CallType
<1>9. w'.offset = Size
  <2>1. /\ SealedEnd = EndOf(w.sealed) + SpoolLen(w) /\ SealedEnd \in 0..w.offset
        /\ w.offset \in 0..Size /\ SpoolLen(w) \in Nat
    BY <1>2, SealedEndType
  <2> QED
    BY <1>1, <2>1, ConstantsType
<1>10. NoneDue' /\ Acknowledged' /\ ~Sealing' /\ ~Reading'
  BY <1>1, <1>3, <1>5, <1>8 DEF NoneDue, Acknowledged, Sealing, Reading
<1>11. CallInv'
  BY <1>8, <1>9, <1>10 DEF CallInv
<1>12. out' \in OutType /\ PublishedExact'
  BY <1>1, <1>5 DEF IInv, PublishedExact
<1> QED
  BY <1>6, <1>7, <1>8, <1>11, <1>12 DEF IInv

----------------------------------------------------------------------------
(* Steps that publish                                                      *)

\* What a call of finish() has before it.
LEMMA InFinish ==
    ASSUME IInv, call.pc = "link"
    PROVE  /\ w.open /\ ~w.failed /\ call \in CallType /\ CallInv /\ Consistent(w)
           /\ Sound(w.sealed) /\ EndOf(w.sealed) = Size
           /\ dir.exists /\ dir.records = w.sealed /\ Vouched(dir.staged, w.sealed)
           /\ dir.staged \in Seq(SegmentType) /\ w.sealed \in Seq(SealType)
           /\ LinkedBefore(call.left, w.sealed)
<1>1. w.open /\ ~w.failed /\ call \in CallType /\ CallInv /\ Consistent(w)
  BY InCall
<1>2. /\ w.offset = Size /\ LinkedBefore(call.left, w.sealed)
      /\ dir.records = w.sealed /\ w.chunks = 0
  BY <1>1 DEF CallInv, Acknowledged, NoneDue, Sealing
<1>3. Sound(w.sealed) /\ w.sealed \in Seq(SealType) /\ (SpoolLen(w) = 0 <=> w.chunks = 0)
  BY <1>1 DEF Consistent, Sound
<1>4. EndOf(w.sealed) = Size
  <2>1. /\ SealedEnd = EndOf(w.sealed) + SpoolLen(w) /\ SealedEnd = Size
        /\ EndOf(w.sealed) \in 0..Size
    BY <1>1, <1>2, SealedEndType
  <2> QED
    BY <1>2, <1>3, <2>1, ConstantsType
<1>5. dir.exists /\ Vouched(dir.staged, w.sealed) /\ dir.staged \in Seq(SegmentType)
  BY <1>1, <1>2 DEF IInv, WriterInv, DirInv, DirType
<1> QED
  BY <1>1, <1>2, <1>3, <1>4, <1>5

LEMMA LinkStep == ASSUME IInv, Link PROVE IInv'
<1>1. /\ call.pc = "link" /\ call.left <= Len(w.sealed)
      /\ out' = [out EXCEPT ![call.left] = dir.staged[call.left]]
      /\ call' = [call EXCEPT !.left = @ + 1] /\ UNCHANGED <<w, dir>>
  BY DEF Link
<1>2. /\ w.open /\ ~w.failed /\ call \in CallType /\ CallInv /\ Consistent(w)
      /\ Sound(w.sealed) /\ dir.exists /\ Vouched(dir.staged, w.sealed)
      /\ dir.staged \in Seq(SegmentType) /\ w.sealed \in Seq(SealType)
      /\ LinkedBefore(call.left, w.sealed)
  BY <1>1, InFinish
<1>3. PICK n \in Nat : n = Len(w.sealed)
  BY <1>2
<1>4. n <= MaxSegs /\ n <= Size
  <2>1. n <= MaxSegs /\ n <= EndOf(w.sealed) /\ EndOf(w.sealed) \in 0..Size
    BY <1>2, <1>3, SoundEnd DEF Sound
  <2> QED
    BY <2>1, ConstantsType
<1>5. PICK m \in 1..n : m = call.left
  <2>1. call.left \in Nat
    BY <1>2, ConstantsType DEF CallType
  <2>2. call.left >= 1
    BY <1>2 DEF LinkedBefore
  <2> QED
    BY <1>1, <1>3, <2>1, <2>2
<1>6. call' \in CallType /\ call'.pc = "link" /\ call'.left = m + 1
  <2>1. PICK next \in 0..(Size + 1) : next = m + 1
    BY <1>4, ConstantsType
  <2>2. call' = [call EXCEPT !.left = next]
    BY <1>1, <1>5, <2>1
  <2> QED
    BY <1>1, <1>2, <2>1, <2>2 DEF CallType
<1>7. PICK segment \in SegmentType : segment = dir.staged[m] /\ segment = w.sealed[m].digest
  <2>1. n <= Len(dir.staged) /\ \A k \in 1..n : dir.staged[k] = w.sealed[k].digest
    BY <1>2, <1>3 DEF Vouched
  <2>2. dir.staged[m] \in SegmentType
    <3>1. PICK l \in Nat : l = Len(dir.staged)
      BY <1>2
    <3> QED
      BY <1>2, <2>1, <3>1
  <2> QED
    BY <2>1, <2>2
<1>8. /\ out' \in OutType /\ out'[m] = segment
      /\ \A k \in SegNames \ {m} : out'[k] = out[k]
  <2>1. m \in SegNames
    BY <1>3, <1>4, ConstantsType DEF SegNames
  <2>2. out' = [out EXCEPT ![m] = segment] /\ out \in OutType
    BY <1>1, <1>5, <1>7 DEF IInv
  <2> QED
    BY <2>1, <2>2 DEF OutType
<1>9. LinkedBefore(call.left, w.sealed)'
  <2>1. \A k \in 1..(m - 1) : out[k] = w.sealed[k].digest
    BY <1>2, <1>5 DEF LinkedBefore
  <2>2. ASSUME NEW k \in 1..((m + 1) - 1) PROVE out'[k] = w.sealed[k].digest
    <3>1. CASE k = m
      BY <1>7, <1>8, <3>1
    <3>2. CASE k # m
      <4>1. k \in 1..(m - 1) /\ k \in SegNames \ {m}
        BY <1>3, <1>4, <3>2, ConstantsType DEF SegNames
      <4> QED
        BY <1>8, <2>1, <4>1
    <3> QED
      BY <3>1, <3>2
  <2>3. m + 1 >= 1 /\ m + 1 <= n + 1
    BY <1>3
  <2> QED
    BY <1>1, <1>3, <1>6, <2>2, <2>3 DEF LinkedBefore
<1>10. DirInv' /\ WriterInv' /\ PublishedExact'
  BY <1>1, <1>2 DEF IInv, DirInv, WriterInv, PublishedExact
<1>11. CallInv'
  <2>1. /\ NoneDue' /\ Acknowledged' /\ w'.offset = Size
    BY <1>1, <1>2 DEF CallInv, NoneDue, Acknowledged, Sealing
  <2>2. ~Sealing' /\ ~Reading'
    BY <1>6 DEF Sealing, Reading
  <2> QED
    BY <1>6, <1>9, <2>1, <2>2 DEF CallInv
<1> QED
  BY <1>6, <1>8, <1>10, <1>11 DEF IInv

\* The first n files are an image of the source.
ImageOf(files, n) ==
    /\ \A k \in 1..n : files[k].kind = "segment" /\ (files[k].final <=> k = n)
    /\ LET media == Media([k \in 1..n |-> [digest |-> files[k]]])
       IN  /\ Len(media) = Size
           /\ Exact(media, files[n].errors)
           /\ files[n].hash = media

\* The segments of a whole image, one linked under each name.
LEMMA WholeImage ==
    ASSUME NEW seals, Sound(seals), EndOf(seals) = Size, NEW n \in Nat, n = Len(seals),
           NEW files, \A k \in 1..n : files[k] = seals[k].digest
    PROVE  n \in SegNames /\ ImageOf(files, n)
<1>1. /\ seals \in Seq(SealType) /\ n <= MaxSegs /\ Geometry(seals)
      /\ \A k \in 1..n : seals[k].digest.final = (seals[k].end = Size)
      /\ Media(seals) \in MediaType /\ Len(Media(seals)) = Size
  BY DEF Sound
<1>2. seals # <<>> /\ n \in SegNames /\ n \in 1..n
  <2>1. seals # <<>>
    BY SoundEnd
  <2>2. n > 0
    BY <1>1, <2>1, EmptySeq
  <2> QED
    BY <1>1, <2>1, <2>2, ConstantsType DEF SegNames
<1>3. Last(seals) = seals[n] /\ seals[n].end = Size
  BY <1>1, <1>2, EndType DEF Last
<1>4. ASSUME NEW k \in 1..n
      PROVE  files[k].kind = "segment" /\ (files[k].final <=> k = n)
  <2>1. seals[k] \in SealType
    BY <1>1
  <2>2. seals[k].digest.kind = "segment"
    BY <2>1 DEF SealType, SegmentType
  <2>3. k # n => seals[k].end # Size
    <3> SUFFICES ASSUME k # n PROVE seals[k].end # Size
      OBVIOUS
    <3>1. PICK j \in DOMAIN seals : j = k + 1 /\ j - 1 = k /\ j # 1
      BY <1>1
    <3>2. seals[k].end < seals[j].end /\ seals[j].end <= Size
      BY <1>1, <3>1 DEF Geometry
    <3>3. seals[k].end \in Nat /\ seals[j].end \in Nat
      <4>1. seals[j] \in SealType
        BY <1>1, <3>1
      <4> QED
        BY <2>1, <4>1, ConstantsType DEF SealType
    <3> QED
      BY <3>2, <3>3, ConstantsType
  <2> QED
    BY <1>1, <1>3, <2>2, <2>3
<1>5. PICK b : b = [k \in 1..n |-> [digest |-> files[k]]]
  OBVIOUS
<1>6. Media(b) = Media(seals)
  <2>1. b \in Seq({[digest |-> files[k]] : k \in 1..n}) /\ Len(b) = n
    <3>1. b \in [1..n -> {[digest |-> files[k]] : k \in 1..n}]
      BY <1>5
    <3> QED
      BY <1>5, <3>1
  <2>2. \A k \in 1..Len(seals) : seals[k].digest.media = b[k].digest.media
    BY <1>5
  <2> QED
    BY <1>1, <2>1, <2>2, MediaSame
<1>7. Exact(Media(seals), files[n].errors) /\ files[n].hash = Media(seals)
  <2>1. /\ files[n] = Last(seals).digest
        /\ Table(Last(seals).digest.errors, Size)
        /\ Holds(Media(seals), 0, Last(seals).digest.errors)
        /\ Last(seals).digest.hash = Media(seals)
    BY <1>2, <1>3 DEF Sound
  <2>2. Size \in 0..Size
    BY ConstantsType
  <2> QED
    BY <1>1, <2>1, <2>2, ExactMedia
<1> QED
  BY <1>1, <1>2, <1>4, <1>5, <1>6, <1>7 DEF ImageOf

LEMMA RetireStep == ASSUME IInv, Retire PROVE IInv'
<1>1. /\ call.pc = "link" /\ call.left > Len(w.sealed) /\ dir' = NoDir
      /\ w' = Closed /\ call' = [Idle EXCEPT !.result = "published"] /\ UNCHANGED out
  BY DEF Retire
<1>2. /\ Sound(w.sealed) /\ EndOf(w.sealed) = Size /\ w.sealed \in Seq(SealType)
      /\ LinkedBefore(call.left, w.sealed) /\ call \in CallType
  BY <1>1, InFinish
<1>3. PICK n \in Nat : n = Len(w.sealed)
  BY <1>2
<1>4. \A k \in 1..n : out[k] = w.sealed[k].digest
  <2>1. call.left \in Nat
    BY <1>2, ConstantsType DEF CallType
  <2>2. call.left <= n + 1 /\ \A k \in 1..(call.left - 1) : out[k] = w.sealed[k].digest
    BY <1>2, <1>3 DEF LinkedBefore
  <2>3. call.left - 1 = n
    BY <1>1, <1>3, <2>1, <2>2
  <2> QED
    BY <2>2, <2>3
<1>5. PublishedExact'
  <2>1. n \in SegNames /\ ImageOf(out, n)
    BY <1>2, <1>3, <1>4, WholeImage
  <2> QED
    BY <1>1, <2>1 DEF PublishedExact, ImageOf
<1>6. DirInv'
  <2>1. NoDir \in DirType /\ ~NoDir.exists
    BY DEF NoDir, DirType
  <2> QED
    BY <1>1, <2>1 DEF DirInv
<1>7. call' \in CallType /\ call'.pc = "idle"
  <2>1. 0 \in 0..(Size + 1)
    BY ConstantsType
  <2> QED
    BY <1>1, <2>1 DEF Idle, CallType
<1>8. out' \in OutType
  BY <1>1 DEF IInv, OutType
<1> QED
  BY <1>1, <1>5, <1>6, <1>7, <1>8, GoneStep

\* A foreign file takes only a name that no segment has.
LEMMA IntrudeStep == ASSUME IInv, NEW k \in SegNames, Intrude(k) PROVE IInv'
<1>1. out[k] = NoFile /\ out' = [out EXCEPT ![k] = Foreign] /\ UNCHANGED <<w, call, dir>>
  BY DEF Intrude
<1>2. out \in OutType /\ NoFile.kind # "segment"
  BY DEF IInv, NoFile
<1>3. /\ out' \in OutType /\ out'[k] = Foreign /\ Foreign.kind # "segment"
      /\ \A j \in SegNames \ {k} : out'[j] = out[j]
  BY <1>1, <1>2 DEF OutType, Foreign
<1>4. ASSUME NEW j \in SegNames, out[j].kind = "segment" PROVE out'[j] = out[j]
  BY <1>1, <1>2, <1>3, <1>4
<1>5. PublishedExact'
  <2> SUFFICES ASSUME ~dir.exists, out'[1].kind = "segment"
               PROVE  PublishedExact'
    BY <1>1 DEF PublishedExact
  <2>1. out[1].kind = "segment"
    <3>1. 1 \in SegNames
      BY ConstantsType DEF SegNames
    <3> QED
      BY <1>3, <3>1
  <2>2. PICK n \in SegNames : ImageOf(out, n)
    BY <2>1 DEF IInv, PublishedExact, ImageOf
  <2>3. \A j \in 1..n : j \in SegNames
    BY ConstantsType DEF SegNames
  <2>4. \A j \in 1..n : out'[j] = out[j]
    BY <1>4, <2>2, <2>3 DEF ImageOf
  <2>5. [j \in 1..n |-> [digest |-> out'[j]]] = [j \in 1..n |-> [digest |-> out[j]]]
    BY <2>4
  <2>6. n \in 1..n
    BY ConstantsType DEF SegNames
  <2>7. ImageOf(out', n)
    BY <2>2, <2>4, <2>5, <2>6 DEF ImageOf
  <2> QED
    BY <2>7 DEF PublishedExact, ImageOf
<1>6. DirInv' /\ WriterInv' /\ call' \in CallType
  BY <1>1 DEF IInv, DirInv, WriterInv
<1>7. ASSUME w.open, ~w.failed PROVE CallInv'
  <2>1. CallInv
    BY <1>7 DEF IInv
  <2>2. call.pc = "link" => LinkedBefore(call.left, w.sealed)'
    <3> SUFFICES ASSUME call.pc = "link" PROVE LinkedBefore(call.left, w.sealed)'
      OBVIOUS
    <3>1. LinkedBefore(call.left, w.sealed) /\ w.sealed \in Seq(SealType)
          /\ Len(w.sealed) <= MaxSegs /\ call.left \in Nat
      BY InFinish, ConstantsType DEF CallType, Sound
    <3>2. PICK n \in Nat, m \in Nat :
              n = Len(w.sealed) /\ m = call.left /\ n <= MaxSegs /\ m <= n + 1 /\ m >= 1
      BY <3>1 DEF LinkedBefore
    <3>3. ASSUME NEW j \in 1..(m - 1) PROVE out'[j] = w.sealed[j].digest
      <4>1. j \in SegNames /\ j \in 1..n
        BY <3>2, ConstantsType DEF SegNames
      <4>2. out[j] = w.sealed[j].digest
        BY <3>1, <3>2 DEF LinkedBefore
      <4>3. w.sealed[j] \in SealType
        BY <3>1, <3>2, <4>1
      <4>4. out[j].kind = "segment"
        BY <4>2, <4>3 DEF SealType, SegmentType
      <4> QED
        BY <1>4, <4>1, <4>2, <4>4
    <3> QED
      BY <1>1, <3>2, <3>3 DEF LinkedBefore
  <2> QED
    BY <1>1, <2>1, <2>2 DEF CallInv, Sealing, SealDue, NoneDue, Acknowledged, Reading, InRead,
                            NewSegment, NewSeal, SealedEnd
<1> QED
  BY <1>1, <1>3, <1>5, <1>6, <1>7 DEF IInv

----------------------------------------------------------------------------
(* The theorems                                                            *)

LEMMA NextIInv == ASSUME IInv, [Next]_vars PROVE IInv'
<1>1. CASE \/ Create \/ Resume \/ Drop
  BY <1>1, CreateStep, ResumeStep, DropStep
<1>2. CASE \E n \in WriteSizes : Write(n)
  BY <1>2, WriteStep, AcquisitionAssumption
<1>3. CASE \/ SealSegment \/ SealRecord \/ Sealed \/ DestinationFails
  BY <1>3, SealSegmentStep, SealRecordStep, SealedStep, DestinationFailsStep
<1>4. CASE \E policy \in {"stop", "zero"}, interval \in Intervals : Acquire(policy, interval)
  BY <1>4, AcquireStep
<1>5. CASE \/ Checkpoint \/ AcquireDone \/ Cancel \/ AcquireReturns
  BY <1>5, CallOnlySteps
<1>6. CASE \/ BulkRead \/ BulkFails \/ AppendChunk \/ SectorRead \/ SectorUnreadable
           \/ AfterSourceWrite \/ Continue
  BY <1>6, BulkReadStep, BulkFailsStep, AppendChunkStep, SectorReadStep,
     SectorUnreadableStep, AfterSourceWriteStep, ContinueStep
<1>7. CASE \/ Finish \/ NoUnexpectedOutput \/ Link \/ Retire
  BY <1>7, FinishStep, NoUnexpectedOutputStep, LinkStep, RetireStep
<1>8. CASE \E k \in SegNames : Intrude(k)
  BY <1>8, IntrudeStep
<1>9. CASE UNCHANGED vars
  <2>1. DirInv' /\ WriterInv' /\ PublishedExact' /\ call' \in CallType /\ out' \in OutType
    BY <1>9 DEF IInv, vars, DirInv, WriterInv, PublishedExact
  <2>2. ASSUME w.open, ~w.failed PROVE CallInv'
    BY <1>9, <2>2 DEF IInv, vars, CallInv, Sealing, SealDue, NoneDue, Acknowledged, Reading,
                      InRead, LinkedBefore, NewSegment, NewSeal, SealedEnd
  <2> QED
    BY <1>9, <2>1, <2>2 DEF IInv, vars
<1> QED
  BY <1>1, <1>2, <1>3, <1>4, <1>5, <1>6, <1>7, <1>8, <1>9 DEF Next, AcquireNext

LEMMA Invariance == Spec => []IInv
<1>1. Init => IInv
  BY InitIInv
<1>2. IInv /\ [Next]_vars => IInv'
  BY NextIInv
<1> QED
  BY <1>1, <1>2, PTL DEF Spec

\* Whatever the size of the source, the chunks, the segments and the table of
\* ranges, and wherever the writer is killed or its destination fails, there is
\* a directory that load_checkpoint() accepts, and so resume() can continue.
THEOREM ResumeAccepts == Spec => []AlwaysResumable
<1>1. IInv => AlwaysResumable
  BY DirLoads DEF IInv, AlwaysResumable
<1> QED
  BY <1>1, Invariance, PTL

\* Every value of the sealed prefix is the source's, in place, or a zero that
\* the table in the last sealed segment owns up to; that table names no sector
\* besides, and no variable leaves its type.
THEOREM PrefixIsExact == Spec => []SealedPrefixExact
<1>1. ASSUME IInv PROVE SealedPrefixExact
  <2>1. TypeOK
    <3>1. w \in WriterType /\ call \in CallType /\ dir \in DirType /\ out \in OutType
      BY <1>1, InCall DEF IInv, DirInv
    <3> QED
      BY <3>1 DEF TypeOK, WriterType, CallType, DirType, OutType
  <2>2. ASSUME dir.exists
        PROVE  /\ Len(Media(dir.records)) = EndOf(dir.records)
               /\ dir.records # <<>> => Exact(Media(dir.records), Last(dir.records).digest.errors)
    <3>1. PICK seals : seals = dir.records /\ Sound(seals)
      BY <1>1, <2>2 DEF IInv, DirInv
    <3>2. /\ Media(seals) \in MediaType /\ Len(Media(seals)) = EndOf(seals)
          /\ EndOf(seals) \in 0..Size
      BY <3>1, SoundEnd DEF Sound
    <3>3. ASSUME seals # <<>> PROVE Exact(Media(seals), Last(seals).digest.errors)
      <4>1. /\ Table(Last(seals).digest.errors, EndOf(seals))
            /\ Holds(Media(seals), 0, Last(seals).digest.errors)
        BY <3>1, <3>3 DEF Sound
      <4> QED
        BY <3>2, <4>1, ExactMedia
    <3> QED
      BY <3>1, <3>2, <3>3
  <2> QED
    BY <2>1, <2>2 DEF SealedPrefixExact
<1>2. IInv => SealedPrefixExact
  BY <1>1
<1> QED
  BY <1>2, Invariance, PTL

\* Once finish() has retired the directory, the files under the output names
\* are one whole image: all its segments, the last one marked, with the hash of
\* exactly the media they hold and a table of exactly the substituted sectors.
THEOREM PublishedIsExact == Spec => []PublishedExact
<1>1. IInv => PublishedExact
  BY DEF IInv
<1> QED
  BY <1>1, Invariance, PTL

\* How the lists on disk may change: while the directory exists, records and the
\* segments they are about are never removed, replaced or reordered.
LEMMA DirSteps ==
    ASSUME IInv, [Next]_vars, dir.exists, dir'.exists
    PROVE  /\ IsPrefix(dir.records, dir'.records)
           /\ IsPrefix(SubSeq(dir.staged, 1, Len(dir.records)), dir'.staged)
<1> DEFINE kept == SubSeq(dir.staged, 1, Len(dir.records))
<1>1. /\ dir \in DirType /\ dir.staged \in Seq(SegmentType) /\ dir.records \in Seq(SealType)
      /\ Vouched(dir.staged, dir.records)
  BY DEF IInv, DirInv, DirType
<1>2. kept \in Seq(SegmentType) /\ IsPrefix(kept, kept) /\ IsPrefix(kept, dir.staged)
  BY <1>1, VouchedDiscard
<1>3. IsPrefix(dir.records, dir.records)
  BY <1>1, PrefixTrivial
<1>4. CASE dir'.records = dir.records /\ dir'.staged = dir.staged
  BY <1>2, <1>3, <1>4
<1>5. CASE Resume
  <2>1. dir' = DiscardUnsealed(dir)
    BY <1>5 DEF Resume
  <2>2. dir'.records = dir.records /\ dir'.staged \in {kept, dir.staged}
    <3> HIDE DEF kept
    <3>1. dir' = [dir EXCEPT !.staged = kept] \/ dir' = dir
      BY <2>1 DEF DiscardUnsealed, kept
    <3> QED
      BY <1>1, <3>1 DEF DirType
  <2> QED
    BY <1>2, <1>3, <2>2
<1>6. CASE SealSegment
  <2>1. Sealing /\ Len(w.sealed) < MaxSegs /\ dir' = [dir EXCEPT !.staged = Append(@, NewSegment)]
    BY <1>6 DEF SealSegment, Sealing, NewSegment
  <2>2. PICK segment \in SegmentType : segment = NewSegment
    BY <2>1, InSealing
  <2>3. dir'.records = dir.records /\ dir'.staged = Append(dir.staged, segment)
    BY <1>1, <2>1, <2>2 DEF DirType
  <2>4. IsPrefix(kept, Append(dir.staged, segment))
    <3> HIDE DEF kept
    <3> QED
      BY <1>1, <1>2, PrefixGrows
  <2> QED
    BY <1>3, <2>3, <2>4
<1>7. CASE SealRecord
  <2>1. /\ Sealing /\ Len(w.sealed) < MaxSegs /\ Last(dir.staged) = NewSegment
        /\ dir' = [dir EXCEPT !.records = Append(@, [end |-> SealedEnd, digest |-> Last(dir.staged)])]
    <3>1. Sealing /\ call.pc = "record"
      BY <1>7 DEF SealRecord, Sealing
    <3> QED
      BY <1>7, <3>1, InSealing DEF SealRecord, CallInv
  <2>2. PICK seal \in SealType : seal = NewSeal
    BY <2>1, InSealing
  <2>3. dir'.records = Append(dir.records, seal) /\ dir'.staged = dir.staged
    BY <1>1, <2>1, <2>2 DEF DirType, NewSeal
  <2>4. IsPrefix(dir.records, Append(dir.records, seal))
    BY <1>1, PrefixGrows
  <2> QED
    BY <1>2, <2>3, <2>4
<1>8. CASE Finish
  <2>1. dir'.records = dir.records /\ dir'.staged = dir.staged
    BY <1>1, <1>8 DEF Finish, DirType
  <2> QED
    BY <1>4, <2>1
<1>9. ~Create /\ ~Retire
  BY DEF Create, Retire, NoDir
<1>10. \/ Resume \/ SealSegment \/ SealRecord \/ Finish \/ dir' = dir
  <2>1. CASE Next
    BY <1>9, <2>1 DEF Next, AcquireNext, Drop, Write, Checkpoint, Sealed, DestinationFails,
       Acquire, AcquireDone, BulkRead, BulkFails, AppendChunk, SectorRead, SectorUnreadable,
       AfterSourceWrite, Continue, Cancel, AcquireReturns, NoUnexpectedOutput, Link, Intrude
  <2>2. CASE UNCHANGED vars
    BY <2>2 DEF vars
  <2> QED
    BY <2>1, <2>2
<1> QED
  BY <1>4, <1>5, <1>6, <1>7, <1>8, <1>10

\* What a checkpoint has acknowledged stays: the writer never notes more as
\* sealed than the disk holds, and no step, not even a resume that discards an
\* unsealed segment or a finish, takes a record back or touches its segment.
THEOREM SealedIsImmutable == Spec => SealedImmutable
<1> DEFINE Step == dir.exists /\ dir'.exists =>
                       /\ IsPrefix(w.sealed, dir.records)
                       /\ IsPrefix(dir.records, dir'.records)
                       /\ IsPrefix(SubSeq(dir.staged, 1, Len(dir.records)), dir'.staged)
<1>1. ASSUME IInv, [Next]_vars PROVE Step
  <2> SUFFICES ASSUME dir.exists, dir'.exists
               PROVE  /\ IsPrefix(w.sealed, dir.records)
                      /\ IsPrefix(dir.records, dir'.records)
                      /\ IsPrefix(SubSeq(dir.staged, 1, Len(dir.records)), dir'.staged)
    OBVIOUS
  <2>1. IsPrefix(w.sealed, dir.records)
    <3>1. CASE w.open
      BY <1>1, <3>1 DEF IInv, WriterInv
    <3>2. CASE ~w.open
      <4>1. w.sealed = <<>> /\ dir.records \in Seq(SealType)
        BY <1>1, <3>2 DEF IInv, WriterInv, DirInv, DirType
      <4> QED
        BY <4>1, PrefixTrivial
    <3> QED
      BY <3>1, <3>2
  <2> QED
    BY <1>1, <2>1, DirSteps
<1>2. IInv /\ [Next]_vars => [Step]_vars
  BY <1>1
<1> QED
  BY <1>2, Invariance, PTL DEF Spec, SealedImmutable
=============================================================================
