-------------------------- MODULE SegmentPoolProofs --------------------------
(***************************************************************************)
(* Proofs about SegmentPool, for any number of threads, segments and       *)
(* handles.                                                                *)
(*                                                                         *)
(* The limit is kept only because as many handles can be closed as there   *)
(* are idle entries in the order, which takes that the order has every     *)
(* open file exactly once.  The invariant is therefore about the order;    *)
(* the rest is what the methods of SegmentFilePool make of any pool whose  *)
(* order is right, whoever holds leases meanwhile.                         *)
(***************************************************************************)
EXTENDS SegmentPool, LruOrderFacts

PoolType == [files : SUBSET Segs, order : Seq(Segs), max : Limits]

\* The order of pool p has its files, each once.
Tracked(p) == p \in PoolType /\ IsInjective(p.order) /\ Range(p.order) = p.files

Within(p) == p.max = 0 \/ Cardinality(p.files) <= p.max

\* Pool q comes of pool p without closing a file under a read.
KeepsBusy(p, q) == q.max = p.max /\ \A s \in p.files : Busy(s) => s \in q.files

\* A thread that reads, or waits to, does so from a segment of the image.
Asking == \A t \in Threads : thread[t].at # "idle" => thread[t].seg \in Segs

\* The inductive invariant.
IInv == TypeOK /\ Asking /\ Tracked(pool) /\ Within(pool) /\ LeasedStaysOpen

----------------------------------------------------------------------------
(* What SegmentFilePool's methods make of a pool                           *)

\* Limits and the segments are numbers, the files a finite set.
LEMMA PoolFacts ==
    ASSUME NEW p \in PoolType
    PROVE  /\ p.max \in Nat
           /\ IsFiniteSet(p.files) /\ Cardinality(p.files) \in Nat
           /\ IdleAt(p) \in SUBSET (DOMAIN p.order)
           /\ IdleAt(p) \in SUBSET Nat /\ IsFiniteSet(IdleAt(p))
           /\ Cardinality(IdleAt(p)) \in Nat
<1>1. p.max \in Nat
  BY PoolAssumption DEF PoolType
<1>2. IsFiniteSet(p.files) /\ Cardinality(p.files) \in Nat
  <2>1. IsFiniteSet(Segs)
    BY PoolAssumption, FS_Interval DEF Segs
  <2> QED
    BY <2>1, FS_Subset, FS_CardinalityType DEF PoolType
<1>3. IdleAt(p) \in SUBSET (DOMAIN p.order) /\ p.order \in Seq(Segs)
  BY DEF IdleAt, PoolType
<1> QED
  BY <1>1, <1>2, <1>3, IndicesOfSeq

\* Closing n idle handles closes n files, none of them leased, and the order
\* still has the rest once.
LEMMA CloseLRUProperties ==
    ASSUME NEW p, Tracked(p), NEW n \in 1..Cardinality(IdleAt(p))
    PROVE  /\ Tracked(CloseLRU(p, n))
           /\ KeepsBusy(p, CloseLRU(p, n))
           /\ CloseLRU(p, n).files \subseteq p.files
           /\ Cardinality(CloseLRU(p, n).files) = Cardinality(p.files) - n
<1> DEFINE order == p.order
           last == Nth(IdleAt(p), n)
           closed == {i \in IdleAt(p) : i <= last}
           passed == (1..last) \ closed
           gone == {order[i] : i \in closed}
           rest == SubSeq(order, last + 1, Len(order))
           kept == Keep(order, passed)
           q == CloseLRU(p, n)
<1>1. /\ order \in Seq(Segs) /\ IsInjective(order) /\ Range(order) = p.files
      /\ Len(order) \in Nat /\ DOMAIN order = 1..Len(order)
      /\ p \in PoolType
  BY DEF Tracked, PoolType
<1>2. last \in IdleAt(p) /\ Cardinality(closed) = n /\ last \in 1..Len(order)
  BY <1>1, PoolFacts, NthProperties DEF Rank
<1>3. closed \in SUBSET (DOMAIN order) /\ passed \in SUBSET (DOMAIN order)
      /\ \A i \in closed : ~Busy(order[i])
  <2>1. closed \in SUBSET IdleAt(p) /\ passed \in SUBSET (1..last)
    OBVIOUS
  <2>2. IdleAt(p) \in SUBSET (DOMAIN order) /\ \A i \in IdleAt(p) : ~Busy(order[i])
    BY DEF IdleAt
  <2> HIDE DEF closed, passed
  <2> QED
    BY <1>1, <1>2, <2>1, <2>2
<1>4. q = [p EXCEPT !.files = p.files \ gone, !.order = rest \o kept]
  BY <1>1 DEF CloseLRU
<1>5. /\ rest \in Seq(Segs) /\ Len(rest) = Len(order) - last
      /\ \A i \in 1..Len(rest) : rest[i] = order[last + i]
      /\ Range(rest) = {order[i] : i \in (last + 1)..Len(order)}
  <2>1. /\ rest \in Seq(Segs) /\ Len(rest) = Len(order) - last
        /\ \A i \in 1..Len(rest) : rest[i] = order[last + i]
    BY SMTT(30), <1>1, <1>2
  <2> HIDE DEF rest
  <2>2. ASSUME NEW i \in (last + 1)..Len(order) PROVE i - last \in 1..Len(rest) /\ rest[i - last] = order[i]
    BY SMTT(30), <1>1, <1>2, <2>1
  <2>3. ASSUME NEW i \in 1..Len(rest) PROVE last + i \in (last + 1)..Len(order)
    BY <1>1, <1>2, <2>1
  <2>4. Range(rest) \subseteq {order[i] : i \in (last + 1)..Len(order)}
    BY <2>1, <2>3 DEF Range
  <2>5. {order[i] : i \in (last + 1)..Len(order)} \subseteq Range(rest)
    <3>1. DOMAIN rest = 1..Len(rest)
      BY <2>1
    <3> QED
      BY <2>2, <3>1 DEF Range
  <2> QED
    BY <2>1, <2>4, <2>5
<1>6. kept \in Seq(Segs) /\ IsInjective(kept) /\ Range(kept) = {order[i] : i \in passed}
  <2> HIDE DEF passed, order
  <2> QED
    BY SMTT(30), <1>1, <1>3, KeepProperties, KeepElements, KeepInjective
<1>7. IsInjective(rest)
  <2> HIDE DEF rest
  <2> SUFFICES ASSUME NEW i \in 1..Len(rest), NEW j \in 1..Len(rest), rest[i] = rest[j]
               PROVE  i = j
    BY <1>5 DEF IsInjective
  <2>1. last + i \in DOMAIN order /\ last + j \in DOMAIN order
    BY SMTT(30), <1>1, <1>2, <1>5
  <2>2. last + i = last + j
    BY <1>1, <1>5, <2>1 DEF IsInjective
  <2> QED
    BY <1>2, <2>2
<1>8. Range(rest) \cap Range(kept) = {}
  <2> SUFFICES ASSUME NEW i \in (last + 1)..Len(order), NEW j \in passed, order[i] = order[j]
               PROVE  FALSE
    BY SMTT(30), <1>5, <1>6
  <2>1. i \in DOMAIN order /\ j \in DOMAIN order /\ j <= last /\ i > last
    BY <1>1, <1>2, <1>3
  <2>2. i = j
    BY <1>1, <2>1 DEF IsInjective
  <2> QED
    BY <1>1, <1>2, <2>1, <2>2
<1>9. Range(rest) \cup Range(kept) = p.files \ gone
  <2>1. ASSUME NEW i \in DOMAIN order
        PROVE  order[i] \in gone <=> i \in closed
    BY <1>1, <1>3 DEF IsInjective
  <2>2. ASSUME NEW i \in DOMAIN order, i \notin closed
        PROVE  i \in passed \/ i \in (last + 1)..Len(order)
    BY <1>1, <1>2, <2>2
  <2>3. ASSUME NEW i \in passed PROVE i \in DOMAIN order /\ i \notin closed
    BY <1>3
  <2>4. ASSUME NEW i \in (last + 1)..Len(order) PROVE i \in DOMAIN order /\ i \notin closed
    BY <1>1, <1>2
  <2>5. p.files = {order[i] : i \in DOMAIN order}
    BY <1>1 DEF Range
  <2> HIDE DEF closed, passed, gone
  <2> QED
    BY <1>5, <1>6, <2>1, <2>2, <2>3, <2>4, <2>5
<1>10. /\ rest \o kept \in Seq(Segs) /\ IsInjective(rest \o kept)
       /\ Range(rest \o kept) = p.files \ gone
  <2> HIDE DEF rest, kept
  <2> QED
    BY ZenonT(30), <1>5, <1>6, <1>7, <1>8, <1>9, ConcatInjective
<1>11. Tracked(q)
  <2> HIDE DEF rest, kept, gone, order, q
  <2>1. q.files = p.files \ gone /\ q.order = rest \o kept /\ q \in PoolType
    BY <1>1, <1>4, <1>10 DEF PoolType
  <2> QED
    BY <1>10, <2>1 DEF Tracked
<1>12. Cardinality(p.files \ gone) = Cardinality(p.files) - n
  <2>1. Cardinality(gone) = n
    BY <1>1, <1>2, <1>3, ImageSize
  <2>2. gone \subseteq p.files
    BY <1>1, <1>3 DEF Range
  <2>3. p.files \cap gone = gone
    BY <2>2
  <2> HIDE DEF gone
  <2>4. IsFiniteSet(p.files)
    BY <1>1, PoolFacts
  <2>5. Cardinality(p.files \ gone) = Cardinality(p.files) - Cardinality(p.files \cap gone)
    BY <2>4, FS_Difference
  <2> QED
    BY <2>1, <2>3, <2>5
<1>13. \A s \in p.files : Busy(s) => s \notin gone
  BY <1>3
<1> HIDE DEF q, gone, rest, kept
<1>14. q.files = p.files \ gone /\ q.max = p.max
  BY <1>1, <1>4 DEF PoolType
<1> QED
  BY <1>11, <1>12, <1>13, <1>14 DEF q, KeepsBusy

\* shrink_open_handles_to(): the same for as many handles as exceed the limit,
\* or all idle ones if those are fewer.
LEMMA ShrinkToProperties ==
    ASSUME NEW p, Tracked(p), NEW limit \in Int, p.max # 0 => limit \in Nat
    PROVE  /\ Tracked(ShrinkTo(p, limit))
           /\ KeepsBusy(p, ShrinkTo(p, limit))
           /\ ShrinkTo(p, limit).files \subseteq p.files
           /\ Shrinkable(p, limit) =>
                 p.max = 0 \/ Cardinality(ShrinkTo(p, limit).files) <= limit
<1> DEFINE n == Excess(p, limit)
           idle == Cardinality(IdleAt(p))
           closed == IF n <= idle THEN n ELSE idle
           size == Cardinality(p.files)
<1>1. p \in PoolType /\ size \in Nat /\ idle \in Nat /\ p.max \in Nat
  BY PoolFacts DEF Tracked
<1>2. /\ n \in Nat
      /\ p.max # 0 => n = IF size <= limit THEN 0 ELSE size - limit
  BY <1>1 DEF Excess
<1>3. closed \in 0..idle
  BY <1>1, <1>2
<1>4. ShrinkTo(p, limit) = IF closed = 0 THEN p ELSE CloseLRU(p, closed)
  BY DEF ShrinkTo
<1>5. Shrinkable(p, limit) => closed = n
  BY DEF Shrinkable
<1> HIDE DEF n, idle, closed, size
<1>6. CASE closed = 0
  <2>1. ShrinkTo(p, limit) = p
    BY <1>4, <1>6
  <2>2. Shrinkable(p, limit) => p.max = 0 \/ size <= limit
    BY <1>1, <1>2, <1>5, <1>6
  <2> QED
    BY <2>1, <2>2 DEF size, KeepsBusy
<1>7. CASE closed # 0
  <2>1. closed \in 1..Cardinality(IdleAt(p)) /\ ShrinkTo(p, limit) = CloseLRU(p, closed)
    BY <1>1, <1>3, <1>4, <1>7 DEF idle
  <2>2. PICK q : q = CloseLRU(p, closed)
    OBVIOUS
  <2>3. /\ Tracked(q) /\ KeepsBusy(p, q) /\ q.files \subseteq p.files
        /\ Cardinality(q.files) = size - closed
    BY <2>1, <2>2, CloseLRUProperties DEF size
  <2>4. Shrinkable(p, limit) => p.max = 0 \/ Cardinality(q.files) <= limit
    BY <1>1, <1>2, <1>5, <2>3
  <2> QED
    BY <2>1, <2>2, <2>3, <2>4
<1> QED
  BY <1>6, <1>7

\* What is opened is tracked and used last.
LEMMA OpenedProperties ==
    ASSUME NEW p, Tracked(p), NEW s \in Segs
    PROVE  /\ Tracked(Opened(p, s))
           /\ KeepsBusy(p, Opened(p, s))
           /\ Opened(p, s).files = p.files \cup {s}
<1> DEFINE q == [p EXCEPT !.files = p.files \cup {s}, !.order = MoveToEnd(p.order, s)]
<1>1. p \in PoolType /\ p.order \in Seq(Segs) /\ IsInjective(p.order) /\ Range(p.order) = p.files
  BY DEF Tracked, PoolType
<1>2. Opened(p, s) = q
  BY <1>1 DEF Opened, MarkUsed, PoolType
<1>3. /\ MoveToEnd(p.order, s) \in Seq(Segs)
      /\ IsInjective(MoveToEnd(p.order, s))
      /\ Range(MoveToEnd(p.order, s)) = p.files \cup {s}
  BY <1>1, MoveToEndProperties, MoveToEndInjective
<1>4. /\ q \in PoolType /\ q.max = p.max
      /\ q.files = p.files \cup {s} /\ q.order = MoveToEnd(p.order, s)
  BY <1>1, <1>3 DEF PoolType
<1> HIDE DEF q
<1> QED
  BY <1>2, <1>3, <1>4 DEF Tracked, KeepsBusy

\* A pool that comes of p by opening and closing files within the limit, none of
\* those that were leased.
ComesOf(p, q) == Tracked(q) /\ Within(q) /\ KeepsBusy(p, q)

\* It may come of another one in between.
LEMMA ComesOfTransitive ==
    ASSUME NEW p, NEW q, NEW r, ComesOf(p, q), ComesOf(q, r)
    PROVE  ComesOf(p, r)
BY DEF ComesOf, KeepsBusy

\* Making room, when there is some, leaves a slot for the segment.
LEMMA MakeRoomProperties ==
    ASSUME NEW p, Tracked(p), Within(p), NEW s \in Segs, Room(p, s)
    PROVE  /\ ComesOf(p, MakeRoom(p, s))
           /\ ComesOf(p, Opened(MakeRoom(p, s), s))
           /\ s \in Opened(MakeRoom(p, s), s).files
<1>1. PICK q : q = MakeRoom(p, s)
  OBVIOUS
<1>2. PICK r : r = Opened(q, s)
  OBVIOUS
<1>3. p \in PoolType /\ p.max \in Nat
  BY PoolFacts DEF Tracked
<1>4. /\ Tracked(q) /\ KeepsBusy(p, q)
      /\ \/ s \in q.files /\ Within(q)
         \/ q.max # 0 => Cardinality(q.files) <= q.max - 1
  <2>1. CASE s \in p.files
    BY <1>1, <2>1 DEF MakeRoom, KeepsBusy
  <2>2. CASE s \notin p.files
    <3>1. q = ShrinkTo(p, p.max - 1) /\ Shrinkable(p, p.max - 1)
      BY <1>1, <2>2 DEF MakeRoom, Room
    <3>2. p.max - 1 \in Int /\ (p.max # 0 => p.max - 1 \in Nat)
      BY <1>3
    <3>3. /\ Tracked(q) /\ KeepsBusy(p, q)
          /\ p.max = 0 \/ Cardinality(q.files) <= p.max - 1
      BY <3>1, <3>2, ShrinkToProperties
    <3> QED
      BY <3>3 DEF KeepsBusy
  <2> QED
    BY <2>1, <2>2
<1>5. /\ Tracked(r) /\ KeepsBusy(q, r) /\ r.files = q.files \cup {s}
  BY <1>2, <1>4, OpenedProperties
<1>6. q \in PoolType /\ q.max \in Nat /\ IsFiniteSet(q.files) /\ Cardinality(q.files) \in Nat
  BY <1>4, PoolFacts DEF Tracked
<1>7. Within(q)
  BY <1>4, <1>6 DEF Within
<1>8. Within(r)
  <2>1. Cardinality(r.files) = IF s \in q.files THEN Cardinality(q.files)
                               ELSE Cardinality(q.files) + 1
    BY <1>5, <1>6, FS_AddElement
  <2>2. CASE s \in q.files
    BY <1>5, <1>7, <2>1, <2>2 DEF Within, KeepsBusy
  <2>3. CASE s \notin q.files
    <3>1. q.max # 0 => Cardinality(q.files) <= q.max - 1
      BY <1>4, <2>3
    <3>2. r.max = q.max /\ Cardinality(r.files) = Cardinality(q.files) + 1
      BY <1>5, <2>1, <2>3 DEF KeepsBusy
    <3> QED
      BY <1>6, <3>1, <3>2 DEF Within
  <2> QED
    BY <2>2, <2>3
<1>9. ComesOf(p, q) /\ ComesOf(q, r)
  BY <1>4, <1>5, <1>7, <1>8 DEF ComesOf
<1>10. ComesOf(p, r) /\ s \in r.files
  BY <1>5, <1>9, ComesOfTransitive
<1> QED
  BY <1>1, <1>2, <1>9, <1>10

\* Closing what can be closed, though it is not enough.
LEMMA NoRoomProperties ==
    ASSUME NEW p, Tracked(p), Within(p)
    PROVE  ComesOf(p, ShrinkTo(p, p.max - 1))
<1>1. PICK q : q = ShrinkTo(p, p.max - 1)
  OBVIOUS
<1>2. p \in PoolType /\ p.max \in Nat /\ IsFiniteSet(p.files) /\ Cardinality(p.files) \in Nat
  BY PoolFacts DEF Tracked
<1>3. Tracked(q) /\ KeepsBusy(p, q) /\ q.files \subseteq p.files
  BY <1>1, <1>2, ShrinkToProperties
<1>4. Cardinality(q.files) \in Nat /\ Cardinality(q.files) <= Cardinality(p.files)
  BY <1>2, <1>3, FS_Subset, FS_CardinalityType
<1>5. Within(q)
  BY <1>2, <1>3, <1>4 DEF Within, KeepsBusy
<1> QED
  BY <1>1, <1>3, <1>5 DEF ComesOf
----------------------------------------------------------------------------
(* segment_set_size() visits the segments in turn.  Visited is a recursive *)
(* function, so that there is one has to be proved first.                  *)

VisitedUpTo(n, f) ==
    f = [s \in 0..n |-> IF s = 0 THEN [ok |-> TRUE, pool |-> pool] ELSE Visit(f[s - 1], s)]

\* A function that visits as many segments as there are exists.
LEMMA VisitsExist == \A n \in Nat : \E f : VisitedUpTo(n, f)
<1> DEFINE T == {n \in Nat : \E f : VisitedUpTo(n, f)}
<1>1. 0 \in T
  <2> DEFINE g == [s \in 0..0 |-> [ok |-> TRUE, pool |-> pool]]
  <2>1. VisitedUpTo(0, g)
    BY DEF VisitedUpTo
  <2> QED
    BY <2>1
<1>2. ASSUME NEW n \in Nat, n \in T PROVE n + 1 \in T
  <2>1. PICK f : VisitedUpTo(n, f)
    BY <1>2
  <2> DEFINE g == [s \in 0..(n + 1) |-> IF s = n + 1 THEN Visit(f[n], n + 1) ELSE f[s]]
  <2>2. \A s \in 0..n : g[s] = f[s]
    OBVIOUS
  <2>3. ASSUME NEW s \in 0..(n + 1)
        PROVE  g[s] = IF s = 0 THEN [ok |-> TRUE, pool |-> pool] ELSE Visit(g[s - 1], s)
    <3>1. CASE s = n + 1
      <4>1. g[n] = f[n]
        BY <2>2
      <4> QED
        BY <3>1, <4>1
    <3>2. CASE s # n + 1
      <4>1. s \in 0..n /\ (s # 0 => s - 1 \in 0..n)
        BY <3>2
      <4>2. f[s] = IF s = 0 THEN [ok |-> TRUE, pool |-> pool] ELSE Visit(f[s - 1], s)
        BY <2>1, <4>1 DEF VisitedUpTo
      <4> HIDE DEF g
      <4> QED
        BY <2>2, <4>1, <4>2
    <3> QED
      BY <3>1, <3>2
  <2>4. VisitedUpTo(n + 1, g)
    BY <2>3 DEF VisitedUpTo
  <2> QED
    BY <2>4
<1> HIDE DEF T
<1>3. Nat \subseteq T
  BY <1>1, <1>2, SetInduction
<1> QED
  BY <1>3 DEF T

\* So Visited is what it is defined to be.
LEMMA VisitedDefinition == VisitedUpTo(Count, Visited)
<1>1. \E f : VisitedUpTo(Count, f)
  BY VisitsExist, PoolAssumption
<1> QED
  BY <1>1 DEF Visited, VisitedUpTo

\* After any number of visits the pool comes of the one before the first.
LEMMA VisitedProperties ==
    ASSUME Tracked(pool), Within(pool)
    PROVE  ComesOf(pool, Visited[Count].pool)
<1> DEFINE T == {n \in Nat : n <= Count => ComesOf(pool, Visited[n].pool)}
<1>0. Count \in Nat
  BY PoolAssumption
<1>1. 0 \in T
  <2>1. Visited[0] = [ok |-> TRUE, pool |-> pool]
    BY <1>0, VisitedDefinition DEF VisitedUpTo
  <2>2. Visited[0].pool = pool
    BY <2>1
  <2> QED
    BY <2>2 DEF ComesOf, KeepsBusy
<1>2. ASSUME NEW n \in Nat, n \in T PROVE n + 1 \in T
  <2> SUFFICES ASSUME n + 1 <= Count PROVE ComesOf(pool, Visited[n + 1].pool)
    OBVIOUS
  <2>1. PICK state : state = Visited[n]
    OBVIOUS
  <2>2. ComesOf(pool, state.pool)
    BY <1>0, <1>2, <2>1
  <2>3. Visited[n + 1] = Visit(state, n + 1) /\ n + 1 \in Segs
    <3>1. n + 1 \in 0..Count /\ n + 1 # 0 /\ (n + 1) - 1 = n /\ n + 1 \in 1..Count
      BY <1>0
    <3>2. Visited[n + 1] = Visit(Visited[(n + 1) - 1], n + 1)
      BY <3>1, VisitedDefinition DEF VisitedUpTo
    <3> QED
      BY <2>1, <3>1, <3>2 DEF Segs
  <2>4. Tracked(state.pool) /\ Within(state.pool)
    BY <2>2 DEF ComesOf
  <2>5. CASE ~state.ok
    BY <2>2, <2>3, <2>5 DEF Visit
  <2>6. CASE state.ok /\ Room(state.pool, n + 1)
    <3>1. PICK q : q = Opened(MakeRoom(state.pool, n + 1), n + 1)
      OBVIOUS
    <3>2. ComesOf(state.pool, q)
      BY <2>3, <2>4, <2>6, <3>1, MakeRoomProperties
    <3>3. ComesOf(pool, q)
      BY <2>2, <3>2, ComesOfTransitive
    <3> QED
      BY <2>3, <2>6, <3>1, <3>3 DEF Visit
  <2>7. CASE state.ok /\ ~Room(state.pool, n + 1)
    <3>1. PICK q : q = ShrinkTo(state.pool, state.pool.max - 1)
      OBVIOUS
    <3>2. ComesOf(state.pool, q)
      BY <2>4, <3>1, NoRoomProperties
    <3>3. ComesOf(pool, q)
      BY <2>2, <3>2, ComesOfTransitive
    <3> QED
      BY <2>3, <2>7, <3>1, <3>3 DEF Visit
  <2> QED
    BY <2>5, <2>6, <2>7
<1> HIDE DEF T
<1>3. Nat \subseteq T
  BY <1>1, <1>2, SetInduction
<1> QED
  BY <1>0, <1>3 DEF T

----------------------------------------------------------------------------
(* The steps                                                               *)

ThreadType == [at : States, seg : Segs \cup {NoSeg}]

\* A thread that holds a lease keeps its file open, so whatever comes of the
\* pool has it open too.
LEMMA LeasesSurvive ==
    ASSUME IInv, NEW q, ComesOf(pool, q)
    PROVE  \A t \in Threads : thread[t].at = "lease" => thread[t].seg \in q.files
BY DEF IInv, LeasedStaysOpen, At, Busy, ComesOf, KeepsBusy

\* A step that leaves a pool which comes of the old one, and gives no thread a
\* lease on a file it does not have open, keeps the invariant.
LEMMA StepKeeps ==
    ASSUME IInv, ComesOf(pool, pool') \/ (Tracked(pool)' /\ Within(pool)'),
           thread' \in [Threads -> ThreadType], failed' \in BOOLEAN, Asking',
           \A t \in Threads : thread'[t].at = "lease" => thread'[t].seg \in pool'.files
    PROVE  IInv'
<1>1. Tracked(pool)' /\ Within(pool)'
  BY DEF ComesOf, Tracked, Within
<1>2. TypeOK'
  BY <1>1 DEF TypeOK, Tracked, PoolType, ThreadType
<1>3. LeasedStaysOpen'
  BY DEF LeasedStaysOpen, At
<1> QED
  BY <1>1, <1>2, <1>3 DEF IInv

\* Only thread t moves, to stand `at' for segment s.
LEMMA ThreadMoves ==
    ASSUME IInv, NEW t \in Threads, NEW r \in ThreadType, r.at # "idle" => r.seg \in Segs,
           thread' = [thread EXCEPT ![t] = r]
    PROVE  /\ thread' \in [Threads -> ThreadType] /\ Asking'
           /\ thread'[t] = r
           /\ \A u \in Threads : u # t => thread'[u] = thread[u]
BY DEF IInv, TypeOK, Asking, ThreadType

\* Moving to another label, which is what Goto does.
LEMMA GotoMoves ==
    ASSUME IInv, NEW t \in Threads, NEW state \in States, thread[t].at # "idle", Goto(t, state)
    PROVE  /\ thread' \in [Threads -> ThreadType] /\ Asking'
           /\ thread'[t].at = state /\ thread'[t].seg = thread[t].seg
           /\ \A u \in Threads : u # t => thread'[u] = thread[u]
<1> DEFINE r == [thread[t] EXCEPT !.at = state]
<1>1. r \in ThreadType /\ r.at = state /\ r.seg = thread[t].seg
  BY DEF IInv, TypeOK, ThreadType
<1>2. thread' = [thread EXCEPT ![t] = r]
  BY DEF Goto, IInv, TypeOK
<1>3. r.seg \in Segs
  BY <1>1 DEF IInv, Asking
<1> HIDE DEF r
<1> QED
  BY <1>1, <1>2, <1>3, ThreadMoves

\* Going idle.
LEMMA IdleMoves ==
    ASSUME IInv, NEW t \in Threads, GoIdle(t)
    PROVE  /\ thread' \in [Threads -> ThreadType] /\ Asking'
           /\ thread'[t].at = "idle"
           /\ \A u \in Threads : u # t => thread'[u] = thread[u]
<1> DEFINE r == [at |-> "idle", seg |-> NoSeg]
<1>1. r \in ThreadType /\ r.at = "idle"
  BY DEF ThreadType, States
<1> HIDE DEF r
<1> QED
  BY <1>1, ThreadMoves DEF GoIdle, r

\* read_segment_range() asks for a segment.
LEMMA RequestKeeps ==
    ASSUME IInv, NEW t \in Threads, NEW s \in Segs, Request(t, s)
    PROVE  IInv'
<1> DEFINE r == [at |-> "try", seg |-> s]
<1>1. r \in ThreadType /\ r.at = "try" /\ r.seg = s
  BY DEF ThreadType, States
<1>2. thread' = [thread EXCEPT ![t] = r] /\ pool' = pool /\ failed' = failed
  BY DEF Request
<1> HIDE DEF r
<1>3. /\ thread' \in [Threads -> ThreadType] /\ Asking'
      /\ thread'[t] = r
      /\ \A u \in Threads : u # t => thread'[u] = thread[u]
  BY <1>1, <1>2, ThreadMoves
<1>4. ComesOf(pool, pool')
  BY <1>2 DEF IInv, ComesOf, KeepsBusy
<1>5. \A u \in Threads : thread'[u].at = "lease" => thread'[u].seg \in pool'.files
  BY <1>1, <1>2, <1>3 DEF IInv, LeasedStaysOpen, At
<1> QED
  BY <1>2, <1>3, <1>4, <1>5, StepKeeps DEF IInv, TypeOK

\* acquire_path_file() takes a lease on a file it opened or found open, or goes
\* to sleep; leases that others hold are left alone either way.
LEMMA AcquireKeeps ==
    ASSUME IInv, NEW t \in Threads, Acquire(t)
    PROVE  IInv'
<1> DEFINE s == thread[t].seg
<1>1. thread[t].at = "try" /\ s \in Segs /\ failed' = failed
  BY DEF Acquire, IInv, Asking
<1>2. Tracked(pool) /\ Within(pool) /\ failed' \in BOOLEAN
  BY <1>1 DEF IInv, TypeOK
<1>3. CASE Room(pool, s)
  <2>1. pool' = Opened(MakeRoom(pool, s), s) /\ Goto(t, "lease")
    BY <1>3 DEF Acquire
  <2>2. ComesOf(pool, pool') /\ s \in pool'.files
    BY <1>1, <1>2, <1>3, <2>1, MakeRoomProperties
  <2>3. /\ thread' \in [Threads -> ThreadType] /\ Asking'
        /\ thread'[t].seg = s
        /\ \A u \in Threads : u # t => thread'[u] = thread[u]
    BY <1>1, <2>1, GotoMoves DEF States
  <2>4. \A u \in Threads : thread'[u].at = "lease" => thread'[u].seg \in pool'.files
    BY <2>2, <2>3, LeasesSurvive
  <2> QED
    BY <1>2, <2>2, <2>3, <2>4, StepKeeps
<1>4. CASE ~Room(pool, s)
  <2>1. pool' = ShrinkTo(pool, pool.max - 1) /\ Goto(t, "wait")
    BY <1>4 DEF Acquire
  <2>2. ComesOf(pool, pool')
    BY <1>2, <2>1, NoRoomProperties
  <2>3. /\ thread' \in [Threads -> ThreadType] /\ Asking'
        /\ thread'[t].at = "wait"
        /\ \A u \in Threads : u # t => thread'[u] = thread[u]
    BY <1>1, <2>1, GotoMoves DEF States
  <2>4. \A u \in Threads : thread'[u].at = "lease" => thread'[u].seg \in pool'.files
    BY <2>2, <2>3, LeasesSurvive
  <2> QED
    BY <1>2, <2>2, <2>3, <2>4, StepKeeps
<1> QED
  BY <1>3, <1>4

\* A read whose file does not open goes away without a lease.
LEMMA AcquireFailsKeeps ==
    ASSUME IInv, NEW t \in Threads, AcquireFails(t)
    PROVE  IInv'
<1> DEFINE s == thread[t].seg
<1>1. thread[t].at = "try" /\ s \in Segs /\ Room(pool, s) /\ GoIdle(t) /\ failed' \in BOOLEAN
  BY DEF AcquireFails, IInv, Asking
<1>2. Tracked(pool) /\ Within(pool)
  BY DEF IInv
<1>3. ComesOf(pool, pool')
  BY <1>1, <1>2, MakeRoomProperties DEF AcquireFails
<1>4. /\ thread' \in [Threads -> ThreadType] /\ Asking'
      /\ thread'[t].at = "idle"
      /\ \A u \in Threads : u # t => thread'[u] = thread[u]
  BY <1>1, IdleMoves
<1>5. \A u \in Threads : thread'[u].at = "lease" => thread'[u].seg \in pool'.files
  BY <1>3, <1>4, LeasesSurvive
<1> QED
  BY <1>1, <1>3, <1>4, <1>5, StepKeeps

\* Steps that only move threads, none of them to a lease.
LEMMA ThreadsOnlyKeeps ==
    ASSUME IInv, UNCHANGED <<pool, failed>>, thread' \in [Threads -> ThreadType], Asking',
           \A t \in Threads : thread'[t].at = "lease" => thread'[t] = thread[t]
    PROVE  IInv'
<1>1. ComesOf(pool, pool') /\ failed' \in BOOLEAN
  BY DEF IInv, TypeOK, ComesOf, KeepsBusy
<1>2. \A t \in Threads : thread'[t].at = "lease" => thread'[t].seg \in pool'.files
  BY <1>1, LeasesSurvive
<1> QED
  BY <1>1, <1>2, StepKeeps

\* A lease is dropped, and one waiter told.
LEMMA NotifyOneKeeps ==
    ASSUME IInv, NEW t \in Threads, NotifyOne(t)
    PROVE  IInv'
<1>1. thread[t].at = "notify" /\ UNCHANGED <<pool, failed>>
  BY DEF NotifyOne
<1>2. CASE GoIdle(t)
  BY <1>1, <1>2, IdleMoves, ThreadsOnlyKeeps
<1>3. ASSUME NEW u \in At("wait"),
             thread' = [thread EXCEPT ![t] = [at |-> "idle", seg |-> NoSeg], ![u].at = "try"]
      PROVE  IInv'
  <2>1. u \in Threads /\ u # t /\ thread[u].at = "wait" /\ thread[u].seg \in Segs
    BY <1>1, <1>3 DEF At, IInv, Asking
  <2>2. /\ thread'[t] = [at |-> "idle", seg |-> NoSeg]
        /\ thread'[u] = [at |-> "try", seg |-> thread[u].seg]
        /\ \A v \in Threads \ {t, u} : thread'[v] = thread[v]
        /\ DOMAIN thread' = Threads
    BY <1>3, <2>1 DEF IInv, TypeOK
  <2>3. \A v \in Threads : thread'[v] \in ThreadType
    BY <2>1, <2>2 DEF ThreadType, States, IInv, TypeOK
  <2>4. thread' \in [Threads -> ThreadType]
    BY <1>3, <2>3 DEF IInv, TypeOK
  <2>5. Asking'
    BY <2>1, <2>2 DEF Asking, IInv
  <2>6. \A v \in Threads : thread'[v].at = "lease" => thread'[v] = thread[v]
    BY <2>2
  <2> QED
    BY <1>1, <2>4, <2>5, <2>6, ThreadsOnlyKeeps
<1> QED
  BY <1>2, <1>3 DEF NotifyOne

\* set_maximum_open_handles() closes what the new limit does not allow, or puts
\* the old one back.
LEMMA SetMaximumKeeps ==
    ASSUME IInv, NEW limit \in Limits, SetMaximum(limit)
    PROVE  IInv'
<1> DEFINE next == [pool EXCEPT !.max = limit]
           shrunk == ShrinkTo(next, limit)
<1>1. limit \in Nat
  BY PoolAssumption
<1>2. /\ pool \in PoolType /\ pool.max \in Nat
      /\ IsFiniteSet(pool.files) /\ Cardinality(pool.files) \in Nat
      /\ Tracked(pool) /\ Within(pool)
  BY PoolFacts DEF IInv, Tracked
<1>3. /\ next \in PoolType /\ next.max = limit
      /\ next.files = pool.files /\ next.order = pool.order
  BY <1>2 DEF PoolType
<1> HIDE DEF next
<1>4. Tracked(next)
  BY <1>2, <1>3 DEF Tracked
<1>5. /\ Tracked(shrunk) /\ KeepsBusy(next, shrunk) /\ shrunk.files \subseteq pool.files
      /\ Shrinkable(next, limit) => limit = 0 \/ Cardinality(shrunk.files) <= limit
  BY <1>1, <1>3, <1>4, ShrinkToProperties
<1>6. Cardinality(shrunk.files) <= Cardinality(pool.files) /\ Cardinality(shrunk.files) \in Nat
  BY <1>2, <1>5, FS_Subset, FS_CardinalityType
<1>7. pool' = IF Shrinkable(next, limit) THEN shrunk ELSE [shrunk EXCEPT !.max = pool.max]
  BY DEF SetMaximum, next
<1> HIDE DEF shrunk
<1>8. pool'.files = shrunk.files /\ Tracked(pool') /\ Within(pool')
  <2>1. CASE Shrinkable(next, limit)
    BY <1>3, <1>5, <1>7, <2>1 DEF Within, KeepsBusy
  <2>2. CASE ~Shrinkable(next, limit)
    <3>1. shrunk \in PoolType
      BY <1>5 DEF Tracked
    <3>2. /\ pool' \in PoolType /\ pool'.max = pool.max
          /\ pool'.files = shrunk.files /\ pool'.order = shrunk.order
      BY <1>2, <1>7, <2>2, <3>1 DEF PoolType
    <3>3. Within(pool')
      BY <1>2, <1>6, <3>2 DEF Within
    <3> QED
      BY <1>5, <3>2, <3>3 DEF Tracked
  <2> QED
    BY <2>1, <2>2
<1>9. \A t \in Threads : thread'[t].at = "lease" => thread'[t].seg \in pool'.files
  BY <1>3, <1>5, <1>8 DEF SetMaximum, IInv, LeasedStaysOpen, At, Busy, KeepsBusy
<1>10. /\ thread' \in [Threads -> ThreadType] /\ failed' \in BOOLEAN /\ Asking'
       /\ Tracked(pool)' /\ Within(pool)'
  BY <1>8 DEF SetMaximum, IInv, TypeOK, ThreadType, Asking, Tracked, Within
<1> QED
  BY <1>9, <1>10, StepKeeps

\* segment_set_size() opens every segment in turn.
LEMMA SegmentSetSizeKeeps ==
    ASSUME IInv, SegmentSetSize
    PROVE  IInv'
<1>1. ComesOf(pool, pool') /\ UNCHANGED <<thread, failed>>
  BY VisitedProperties DEF SegmentSetSize, IInv
<1>2. \A t \in Threads : thread'[t].at = "lease" => thread'[t].seg \in pool'.files
  BY <1>1, LeasesSurvive
<1>3. thread' \in [Threads -> ThreadType] /\ failed' \in BOOLEAN /\ Asking'
  BY <1>1 DEF IInv, TypeOK, ThreadType, Asking
<1> QED
  BY <1>1, <1>2, <1>3, StepKeeps

----------------------------------------------------------------------------
(* Invariance                                                              *)

\* At first no file is open and no thread reads.
LEMMA InitIInv == Init => IInv
<1> SUFFICES ASSUME Init PROVE IInv
  OBVIOUS
<1>1. PICK limit \in Limits : pool = [files |-> {}, order |-> <<>>, max |-> limit]
  BY DEF Init
<1>2. <<>> \in Seq(Segs) /\ IsInjective(<<>>) /\ Range(<<>>) = {}
  BY DEF IsInjective, Range
<1>3. Tracked(pool)
  BY <1>1, <1>2 DEF Tracked, PoolType
<1>4. Within(pool)
  BY <1>1, FS_EmptySet, PoolAssumption DEF Within
<1>5. TypeOK /\ Asking /\ LeasedStaysOpen
  BY <1>3 DEF Init, TypeOK, Tracked, PoolType, States, Asking, LeasedStaysOpen, At
<1> QED
  BY <1>3, <1>4, <1>5 DEF IInv

\* Every step of every thread and every other use of the pool keep the
\* invariant.
LEMMA NextIInv == IInv /\ [Next]_vars => IInv'
<1> SUFFICES ASSUME IInv, [Next]_vars PROVE IInv'
  OBVIOUS
<1>1. ASSUME NEW t \in Threads, NEW s \in Segs, Request(t, s) PROVE IInv'
  BY <1>1, RequestKeeps
<1>2. ASSUME NEW t \in Threads, Acquire(t) \/ AcquireFails(t) \/ NotifyOne(t) PROVE IInv'
  BY <1>2, AcquireKeeps, AcquireFailsKeeps, NotifyOneKeeps
<1>3. ASSUME NEW t \in Threads, Return(t) PROVE IInv'
  BY <1>3, GotoMoves, ThreadsOnlyKeeps DEF Return, States
<1>4. ASSUME NEW t \in Threads, WakeSpuriously(t) PROVE IInv'
  BY <1>4, GotoMoves, ThreadsOnlyKeeps DEF WakeSpuriously, States
<1>5. ASSUME NEW limit \in Limits, SetMaximum(limit) PROVE IInv'
  BY <1>5, SetMaximumKeeps
<1>6. CASE SegmentSetSize
  BY <1>6, SegmentSetSizeKeeps
<1>7. CASE UNCHANGED vars
  <2>1. thread' \in [Threads -> ThreadType] /\ Asking'
    BY <1>7 DEF vars, IInv, TypeOK, ThreadType, Asking
  <2> QED
    BY <1>7, <2>1, ThreadsOnlyKeeps DEF vars
<1> QED
  BY <1>1, <1>2, <1>3, <1>4, <1>5, <1>6, <1>7 DEF Next, Serve

\* The invariant holds throughout.
LEMMA Invariance == Spec => []IInv
<1> QED
  BY InitIInv, NextIInv, PTL DEF Spec

\* Every open file is in open_order exactly once, so that
\* close_least_recently_used() can find and close it.
THEOREM OrderCorrect == Spec => []OrderTracksFiles
<1>1. IInv => OrderTracksFiles
  <2> SUFFICES ASSUME IInv PROVE OrderTracksFiles
    OBVIOUS
  <2>1. /\ pool.order \in Seq(Segs) /\ IsInjective(pool.order)
        /\ Range(pool.order) = pool.files
    BY DEF IInv, Tracked, PoolType
  <2>2. Len(pool.order) = Cardinality(pool.files)
    BY <2>1, RangeSize
  <2> QED
    BY <2>1, <2>2 DEF IInv, OrderTracksFiles
<1> QED
  BY Invariance, <1>1, PTL

\* maximum_open_handles is never exceeded, however reads, changes of the limit
\* and walks over all segments interleave (SegmentFilePool).
THEOREM LimitKept == Spec => []WithinLimit
<1>1. IInv => WithinLimit
  BY DEF IInv, Within, WithinLimit
<1> QED
  BY Invariance, <1>1, PTL

\* No file is closed while a PositionedSegmentLease reads from it.
THEOREM LeasesStayOpen == Spec => []LeasedStaysOpen
<1>1. IInv => LeasedStaysOpen
  BY DEF IInv
<1> QED
  BY Invariance, <1>1, PTL

----------------------------------------------------------------------------
(* Waiters.  A waiter is stranded only by a file that does not open (see   *)
(* NobodyStranded): as long as none failed, somebody is left to wake it.   *)

StrandedByFailureOnly == failed \/ NobodyStranded

\* A thread goes to sleep only when every handle is leased.
LEMMA NoRoomMeansLeases ==
    ASSUME Tracked(pool), Within(pool), NEW s \in Segs, ~Room(pool, s)
    PROVE  At("lease") # {}
<1> DEFINE size == Cardinality(pool.files)
<1>1. /\ pool \in PoolType /\ pool.max \in Nat
      /\ size \in Nat /\ IsFiniteSet(pool.files)
      /\ IsFiniteSet(IdleAt(pool)) /\ Cardinality(IdleAt(pool)) \in Nat
  BY PoolFacts DEF Tracked
<1>2. ~(Excess(pool, pool.max - 1) <= Cardinality(IdleAt(pool)))
  BY DEF Room, Shrinkable
<1>3. pool.max # 0 /\ size = pool.max /\ Cardinality(IdleAt(pool)) = 0
  BY <1>1, <1>2 DEF Excess, Within
<1>4. IdleAt(pool) = {} /\ pool.files # {}
  BY <1>1, <1>3, FS_EmptySet
<1>5. PICK i \in DOMAIN pool.order : TRUE
  BY <1>4 DEF Tracked, Range
<1>6. Busy(pool.order[i])
  BY <1>4, <1>5 DEF IdleAt
<1> QED
  BY <1>6 DEF Busy

\* Every step keeps somebody awake for those who sleep, unless opening failed.
LEMMA StrandedByFailureOnlyKeeps ==
    ASSUME IInv, StrandedByFailureOnly, [Next]_vars
    PROVE  StrandedByFailureOnly'
<1> SUFFICES ASSUME ~failed', At("wait")' # {}
             PROVE  (At("lease") \cup At("notify") \cup At("try"))' # {}
  BY DEF StrandedByFailureOnly, NobodyStranded
<1> DEFINE Awake == {t \in Threads : thread[t].at \in {"lease", "notify", "try"}}
<1>0. (Awake = {} => At("wait") = {} \/ failed) /\ (Awake # {} <=> At("lease") \cup At("notify") \cup At("try") # {})
  BY DEF At, StrandedByFailureOnly, NobodyStranded
<1>1. ASSUME NEW t \in Threads, NEW s \in Segs, Request(t, s) PROVE thread'[t].at = "try"
  BY <1>1 DEF Request, IInv, TypeOK
<1>2. ASSUME NEW t \in Threads, Acquire(t) PROVE \E u \in Threads : thread'[u].at = "lease"
  <2>1. thread[t].at = "try" /\ thread[t].seg \in Segs
    BY <1>2 DEF Acquire, IInv, Asking
  <2>2. CASE Room(pool, thread[t].seg)
    BY <1>2, <2>2 DEF Acquire, Goto, IInv, TypeOK
  <2>3. CASE ~Room(pool, thread[t].seg)
    <3>1. PICK u \in Threads : thread[u].at = "lease"
      BY <2>1, <2>3, NoRoomMeansLeases DEF IInv, At
    <3>2. u # t /\ thread'[u] = thread[u]
      BY <1>2, <2>1, <2>3, <3>1 DEF Acquire, Goto, IInv, TypeOK
    <3> QED
      BY <3>1, <3>2
  <2> QED
    BY <2>2, <2>3
<1>3. ASSUME NEW t \in Threads, Return(t) PROVE thread'[t].at = "notify"
  BY <1>3 DEF Return, Goto, IInv, TypeOK
<1>4. ASSUME NEW t \in Threads, NotifyOne(t) PROVE \E u \in Threads : thread'[u].at = "try"
  <2>1. CASE At("wait") = {} /\ GoIdle(t)
    BY <2>1 DEF GoIdle, At, IInv, TypeOK
  <2>2. ASSUME NEW u \in At("wait"),
               thread' = [thread EXCEPT ![t] = [at |-> "idle", seg |-> NoSeg], ![u].at = "try"]
        PROVE  thread'[u].at = "try"
    BY <2>2, <1>4 DEF At, IInv, TypeOK, NotifyOne
  <2> QED
    BY <1>4, <2>1, <2>2 DEF NotifyOne, At
<1>5. ASSUME NEW t \in Threads, WakeSpuriously(t) PROVE thread'[t].at = "try"
  BY <1>5 DEF WakeSpuriously, Goto, IInv, TypeOK
<1>6. ASSUME UNCHANGED <<thread, failed>> PROVE Awake' # {}
  BY <1>0, <1>6 DEF At
<1>7. ASSUME NEW t \in Threads, AcquireFails(t) PROVE FALSE
  BY <1>7 DEF AcquireFails
<1> QED
  BY <1>1, <1>2, <1>3, <1>4, <1>5, <1>6, <1>7
     DEF Next, Serve, SetMaximum, SegmentSetSize, vars, At

\* src/image.rs, "A waiter cannot slip between checking the pool and going to
\* sleep": as long as no file fails to open, a thread asleep on
\* segment_handle_available has somebody who holds a lease, is about to notify
\* or is about to look at the pool.
THEOREM WaitersAreLed == Spec => []StrandedByFailureOnly
<1>1. Init => StrandedByFailureOnly
  BY DEF Init, StrandedByFailureOnly, NobodyStranded, At
<1>2. IInv /\ StrandedByFailureOnly /\ [Next]_vars => StrandedByFailureOnly'
  BY StrandedByFailureOnlyKeeps
<1> QED
  BY <1>1, <1>2, Invariance, PTL DEF Spec
=============================================================================
