-------------------------- MODULE ChunkReadsProofs --------------------------
(***************************************************************************)
(* Proofs about ChunkReads, for any threads, chunks and damage and a cache *)
(* of any capacity, 0 included.                                            *)
(*                                                                         *)
(* What keeps two threads from decoding a chunk at once, and a follower    *)
(* from sleeping for ever, is the map of flights: the invariant says that  *)
(* a flight is there exactly while one thread is between its decision to   *)
(* lead and its removal of the flight, and that it is complete exactly in  *)
(* the window between the completion and the removal.                      *)
(***************************************************************************)
EXTENDS ChunkReads, LruOrderFacts

\* Where a thread that leads stands.
Leading == {"decode", "put", "complete", "remove"}

\* A read under way is of a chunk.
Placed == \A t \in Threads : thread[t].at # "idle" => thread[t].chunk \in Chunks

\* A thread that leads owns the flight of its chunk, complete once it has told
\* the followers.
Led ==
    \A t \in Threads : thread[t].at \in Leading =>
        /\ flight[thread[t].chunk].owner = t
        /\ flight[thread[t].chunk].complete <=> thread[t].at = "remove"

\* A flight has an owner, who is there.
Owned ==
    \A c \in Chunks : flight[c].owner # NoFlight =>
        /\ thread[flight[c].owner].chunk = c
        /\ thread[flight[c].owner].at \in Leading

\* A follower sleeps only while its flight is incomplete.
Asleep ==
    \A t \in Threads : (thread[t].at = "wait" /\ ~thread[t].woken) =>
        flight[thread[t].chunk].owner # NoFlight /\ ~flight[thread[t].chunk].complete

\* What decoding chunk c yields under the policies; its zeroes were reported.
Yields(c, value) ==
    /\ value = IF c \in Damaged THEN "zeros" ELSE "data"
    /\ c \in Damaged => c \in reported
Earned == \A t \in Threads : thread[t].at = "put" => Yields(thread[t].chunk, thread[t].value)
Cached == \A c \in Range(cache.order) : Yields(c, cache.value[c])

\* The inductive invariant.
IInv == TypeOK /\ Placed /\ Led /\ Owned /\ Asleep /\ Earned /\ Cached

----------------------------------------------------------------------------
(* Helpers                                                                 *)

ThreadType == [at : States, chunk : Chunks \cup {NoFlight}, value : Values, woken : BOOLEAN]

\* Evict leaves an order that fits, of chunks that were in it.
LEMMA EvictProperties ==
    ASSUME NEW order \in Seq(Chunks), Len(order) <= Capacity + 1
    PROVE  /\ Evict(order) \in Seq(Chunks)
           /\ Len(Evict(order)) <= Capacity
           /\ Range(Evict(order)) \subseteq Range(order)
<1>1. Capacity \in Nat
  BY ChunkReadsAssumption
<1>2. CASE Len(order) > Capacity
  <2>1. order # <<>> /\ Evict(order) = Tail(order)
    BY <1>1, <1>2 DEF Evict
  <2>2. Len(Tail(order)) = Len(order) - 1 /\ \A i \in 1..Len(Tail(order)) : Tail(order)[i] = order[i + 1]
    BY <2>1
  <2> QED
    BY <1>1, <2>1, <2>2 DEF Range
<1>3. CASE ~(Len(order) > Capacity)
  BY <1>1, <1>3 DEF Evict
<1> QED
  BY <1>2, <1>3

\* An update of one thread's record that keeps it typed keeps them all typed.
LEMMA ThreadUpdate ==
    ASSUME TypeOK, NEW t \in Threads, NEW r \in ThreadType, thread' = [thread EXCEPT ![t] = r]
    PROVE  /\ thread' \in [Threads -> ThreadType]
           /\ thread'[t] = r
           /\ \A u \in Threads : u # t => thread'[u] = thread[u]
BY DEF TypeOK, ThreadType

\* Fields of a record updated within their types.
LEMMA FieldUpdates ==
    ASSUME NEW r \in ThreadType, NEW at \in States
    PROVE  /\ [r EXCEPT !.at = at] \in ThreadType
           /\ \A value \in Values : [r EXCEPT !.at = at, !.value = value] \in ThreadType
           /\ \A woken \in BOOLEAN :
                 /\ [r EXCEPT !.woken = woken] \in ThreadType
                 /\ [r EXCEPT !.at = at, !.woken = woken] \in ThreadType
BY DEF ThreadType

\* Only one thread leads for a chunk, and no thread leads for one without a
\* flight.
LEMMA OneLeader ==
    ASSUME IInv, NEW t \in Threads, NEW u \in Threads,
           thread[t].at \in Leading, thread[u].at \in Leading,
           thread[t].chunk = thread[u].chunk
    PROVE  t = u
BY DEF IInv, Led

----------------------------------------------------------------------------
(* The steps of one thread                                                 *)

\* A read begins with the cache.
LEMMA ReadKeeps ==
    ASSUME IInv, NEW t \in Threads, NEW c \in Chunks, Read(t, c)
    PROVE  IInv'
<1> DEFINE r == [at |-> "cache", chunk |-> c, value |-> "error", woken |-> FALSE]
<1> USE DEF IInv, Read
<1>1. r \in ThreadType /\ thread' = [thread EXCEPT ![t] = r]
  BY DEF ThreadType, States, Values
<1>2. /\ thread' \in [Threads -> ThreadType] /\ thread'[t] = r
      /\ \A u \in Threads : u # t => thread'[u] = thread[u]
  BY <1>1, ThreadUpdate
<1>3. TypeOK'
  BY <1>2 DEF TypeOK, ThreadType
<1>4. Placed' /\ Led' /\ Asleep' /\ Earned'
  BY <1>2 DEF Placed, Led, Asleep, Earned, Leading, Yields
<1>5. Owned'
  BY <1>2 DEF Owned, Leading, TypeOK
<1>6. Cached'
  BY DEF Cached, Yields
<1> QED
  BY <1>3, <1>4, <1>5, <1>6
\* A hit returns what is cached; a miss leads to the flights.
LEMMA LookInCacheKeeps ==
    ASSUME IInv, NEW t \in Threads, LookInCache(t)
    PROVE  IInv'
<1> DEFINE c == thread[t].chunk
<1> USE DEF IInv
<1>0. /\ thread[t].at = "cache" /\ c \in Chunks
      /\ UNCHANGED <<flight, zeroFill, aborted, reported>>
  BY DEF LookInCache, Placed
<1>1. CASE c \in Range(cache.order)
  <2>1. /\ cache' = [cache EXCEPT !.order = MoveToEnd(@, c)]
        /\ thread' = [thread EXCEPT ![t] = NoRead(cache.value[c])]
    BY <1>1 DEF LookInCache, ReturnValue
  <2>2. /\ MoveToEnd(cache.order, c) \in Seq(Chunks)
        /\ Len(MoveToEnd(cache.order, c)) <= Capacity
        /\ Range(MoveToEnd(cache.order, c)) = Range(cache.order)
    <3>1. cache.order \in Seq(Chunks) /\ Len(cache.order) <= Capacity /\ Capacity \in Nat
      BY ChunkReadsAssumption DEF TypeOK
    <3>2. /\ MoveToEnd(cache.order, c) \in Seq(Chunks)
          /\ Len(MoveToEnd(cache.order, c)) <= Len(cache.order)
          /\ Range(MoveToEnd(cache.order, c)) = Range(cache.order) \cup {c}
      BY <1>0, <1>1, <3>1, MoveToEndProperties
    <3>3. Len(MoveToEnd(cache.order, c)) <= Capacity
      BY <3>1, <3>2
    <3> QED
      BY <1>1, <3>2, <3>3
  <2>3. NoRead(cache.value[c]) \in ThreadType
    BY <1>0 DEF NoRead, ThreadType, States, TypeOK
  <2>4. /\ thread' \in [Threads -> ThreadType] /\ thread'[t] = NoRead(cache.value[c])
        /\ \A u \in Threads : u # t => thread'[u] = thread[u]
    BY <2>1, <2>3, ThreadUpdate
  <2>5. TypeOK'
    BY <1>0, <2>1, <2>2, <2>4 DEF TypeOK, ThreadType
  <2>6. Placed' /\ Led' /\ Asleep' /\ Earned'
    BY <1>0, <2>4 DEF Placed, Led, Asleep, Earned, Leading, Yields, NoRead
  <2>7. Owned'
    BY <1>0, <2>4 DEF Owned, Leading, TypeOK
  <2>8. Cached'
    BY <1>0, <2>1, <2>2 DEF Cached, Yields, TypeOK
  <2> QED
    BY <2>5, <2>6, <2>7, <2>8
<1>2. CASE c \notin Range(cache.order)
  <2>1. thread' = [thread EXCEPT ![t].at = "flight"] /\ UNCHANGED cache
    BY <1>2 DEF LookInCache, Goto
  <2>2. TypeOK'
    <3>1. thread' \in [Threads -> ThreadType]
      BY <2>1 DEF TypeOK, ThreadType, States
    <3> QED
      BY <1>0, <2>1, <3>1 DEF TypeOK, ThreadType
  <2>3. Placed' /\ Led' /\ Asleep' /\ Earned'
    BY <1>0, <2>1 DEF Placed, Led, Asleep, Earned, Leading, Yields, TypeOK
  <2>4. Owned' /\ Cached'
    BY <1>0, <2>1 DEF Owned, Leading, Cached, Yields, TypeOK
  <2> QED
    BY <2>2, <2>3, <2>4
<1> QED
  BY <1>1, <1>2

\* A thread that finds no flight is the only one to lead for its chunk; one that
\* finds a flight sleeps on it, or has been told already.
LEMMA JoinOrLeadKeeps ==
    ASSUME IInv, NEW t \in Threads, JoinOrLead(t)
    PROVE  IInv'
<1> DEFINE c == thread[t].chunk
<1> USE DEF IInv
<1>0. /\ thread[t].at = "flight" /\ c \in Chunks
      /\ UNCHANGED <<cache, zeroFill, aborted, reported>>
  BY DEF JoinOrLead, Placed
<1>1. CASE flight[c].owner = NoFlight
  <2>1. /\ flight' = [flight EXCEPT ![c] = [owner |-> t, complete |-> FALSE]]
        /\ thread' = [thread EXCEPT ![t].at = "decode"]
    BY <1>1 DEF JoinOrLead, Goto
  <2>2. TypeOK'
    BY <1>0, <2>1 DEF TypeOK, States
  <2>3. \A u \in Threads : thread[u].at \in Leading => thread[u].chunk # c
    BY <1>1, ChunkReadsAssumption DEF Led
  <2>4. Led' /\ Owned'
    BY <1>0, <2>1, <2>3 DEF Led, Owned, Leading, Placed, TypeOK
  <2>5. Asleep'
    BY <1>0, <1>1, <2>1 DEF Asleep, Placed, TypeOK
  <2>6. Placed' /\ Earned' /\ Cached'
    BY <1>0, <2>1 DEF Placed, Earned, Cached, Yields, TypeOK
  <2> QED
    BY <2>2, <2>4, <2>5, <2>6
<1>2. CASE flight[c].owner # NoFlight
  <2>1. /\ thread' = [thread EXCEPT ![t].at = "wait", ![t].woken = flight[c].complete]
        /\ UNCHANGED flight
    BY <1>2 DEF JoinOrLead
  <2>2. TypeOK'
    <3>1. flight[c].complete \in BOOLEAN
      BY <1>0 DEF TypeOK
    <3>2. thread' \in [Threads -> ThreadType]
      <4>1. thread[t] \in ThreadType /\ "wait" \in States
        BY DEF TypeOK, ThreadType, States
      <4>2. thread' = [thread EXCEPT ![t] = [thread[t] EXCEPT !.at = "wait", !.woken = flight[c].complete]]
        BY <2>1 DEF TypeOK
      <4>3. [thread[t] EXCEPT !.at = "wait", !.woken = flight[c].complete] \in ThreadType
        BY <3>1, <4>1, FieldUpdates, Zenon
      <4> QED
        BY <4>2, <4>3, ThreadUpdate
    <3> QED
      BY <1>0, <2>1, <3>2 DEF TypeOK, ThreadType
  <2>3. Led' /\ Owned'
    BY SMTT(30), <1>0, <2>1 DEF Led, Owned, Leading, TypeOK
  <2>4. Asleep'
    BY <1>0, <1>2, <2>1 DEF Asleep, TypeOK
  <2>5. Placed' /\ Earned' /\ Cached'
    BY <1>0, <2>1 DEF Placed, Earned, Cached, Yields, TypeOK
  <2> QED
    BY <2>2, <2>3, <2>4, <2>5
<1> QED
  BY <1>1, <1>2

\* A follower that was told looks in the cache again.
LEMMA FollowerLoopsKeeps ==
    ASSUME IInv, NEW t \in Threads, FollowerLoops(t)
    PROVE  IInv'
<1> USE DEF IInv, FollowerLoops
<1>1. TypeOK'
  BY DEF TypeOK, States
<1>2. Led' /\ Owned' /\ Asleep'
  BY DEF Led, Owned, Asleep, Leading, TypeOK
<1>3. Placed' /\ Earned' /\ Cached'
  BY DEF Placed, Earned, Cached, Yields, TypeOK
<1> QED
  BY <1>1, <1>2, <1>3

\* What goes on to the cache is what the chunk yields, and zeroes were reported.
LEMMA DecodeKeeps ==
    ASSUME IInv, NEW t \in Threads, Decode(t)
    PROVE  IInv'
<1> DEFINE c == thread[t].chunk
           value == IF c \in Damaged THEN "zeros" ELSE "data"
<1> USE DEF IInv
<1>1. /\ thread[t].at = "decode" /\ c \in Chunks
      /\ thread' = [thread EXCEPT ![t].at = "put", ![t].value = value]
      /\ reported' = IF c \in Damaged THEN reported \cup {c} ELSE reported
      /\ UNCHANGED <<cache, flight, zeroFill, aborted>>
  BY DEF Decode, Placed
<1>2. value \in Values
  BY DEF Values
<1>3. TypeOK'
  <2> HIDE DEF value
  <2>1. thread' \in [Threads -> ThreadType]
    <3>1. thread[t] \in ThreadType /\ "put" \in States
      BY DEF TypeOK, ThreadType, States
    <3>2. thread' = [thread EXCEPT ![t] = [thread[t] EXCEPT !.at = "put", !.value = value]]
      BY <1>1 DEF TypeOK
    <3> QED
      BY <1>2, <3>1, <3>2, FieldUpdates, ThreadUpdate
  <2> QED
    BY <1>1, <2>1 DEF TypeOK, ThreadType
<1>4. Led' /\ Owned' /\ Asleep'
  BY <1>1 DEF Led, Owned, Asleep, Leading, TypeOK
<1>5. reported \subseteq reported' /\ (c \in Damaged => c \in reported')
  BY <1>1
<1>6. Placed' /\ Cached'
  BY <1>1, <1>5 DEF Placed, Cached, Yields, TypeOK
<1>7. Earned'
  BY <1>1, <1>5 DEF Earned, Yields, TypeOK
<1> QED
  BY <1>3, <1>4, <1>6, <1>7

\* An error goes past the cache to the completion of the flight.
LEMMA DecodeFailsKeeps ==
    ASSUME IInv, NEW t \in Threads, DecodeFails(t)
    PROVE  IInv'
<1> USE DEF IInv, DecodeFails
<1>1. TypeOK'
  <2>1. thread' \in [Threads -> ThreadType]
    <3>1. thread[t] \in ThreadType /\ "complete" \in States /\ "error" \in Values
      BY DEF TypeOK, ThreadType, States, Values
    <3>2. thread' = [thread EXCEPT ![t] = [thread[t] EXCEPT !.at = "complete", !.value = "error"]]
      BY DEF TypeOK
    <3> QED
      BY <3>1, <3>2, FieldUpdates, ThreadUpdate
  <2> QED
    BY <2>1 DEF TypeOK, ThreadType
<1>2. Led' /\ Owned' /\ Asleep'
  BY DEF Led, Owned, Asleep, Leading, TypeOK
<1>3. Placed' /\ Earned' /\ Cached'
  BY DEF Placed, Earned, Cached, Yields, TypeOK
<1> QED
  BY <1>1, <1>2, <1>3

\* The cache takes what the chunk yields.
LEMMA PutKeeps ==
    ASSUME IInv, NEW t \in Threads, Put(t)
    PROVE  IInv'
<1> DEFINE c == thread[t].chunk
           moved == MoveToEnd(cache.order, c)
<1> USE DEF IInv
<1>1. /\ thread[t].at = "put" /\ c \in Chunks /\ thread[t].value \in Values
      /\ cache' = [order |-> Evict(moved),
                   value |-> [cache.value EXCEPT ![c] = thread[t].value]]
      /\ thread' = [thread EXCEPT ![t].at = "complete"]
      /\ UNCHANGED <<flight, zeroFill, aborted, reported>>
  BY DEF Put, Placed, Goto, TypeOK
<1>2. /\ Evict(moved) \in Seq(Chunks) /\ Len(Evict(moved)) <= Capacity
      /\ Range(Evict(moved)) \subseteq Range(cache.order) \cup {c}
  <2>1. cache.order \in Seq(Chunks) /\ Len(cache.order) <= Capacity /\ Capacity \in Nat
    BY ChunkReadsAssumption DEF TypeOK
  <2>2. /\ moved \in Seq(Chunks) /\ Len(moved) <= Len(cache.order) + 1
        /\ Range(moved) = Range(cache.order) \cup {c}
    BY SMTT(30), <1>1, <2>1, MoveToEndProperties
  <2>3. Len(moved) <= Capacity + 1
    BY <2>1, <2>2
  <2> QED
    BY <2>2, <2>3, EvictProperties
<1>3. TypeOK'
  <2>1. thread' \in [Threads -> ThreadType]
    BY SMTT(30), <1>1 DEF TypeOK, ThreadType, States
  <2>2. [cache.value EXCEPT ![c] = thread[t].value] \in [Chunks -> Values]
    BY <1>1 DEF TypeOK
  <2> HIDE DEF moved
  <2>3. /\ cache' \in [order : Seq(Chunks), value : [Chunks -> Values]]
        /\ Len(cache'.order) <= Capacity
    BY <1>1, <1>2, <2>2
  <2> QED
    BY <1>1, <2>1, <2>3 DEF TypeOK, ThreadType
<1>4. Led' /\ Owned' /\ Asleep'
  BY <1>1 DEF Led, Owned, Asleep, Leading, TypeOK
<1>5. Placed' /\ Earned'
  BY <1>1 DEF Placed, Earned, Yields, TypeOK
<1>6. Cached'
  <2>1. Yields(c, thread[t].value)
    BY <1>1 DEF Earned
  <2> QED
    BY <1>1, <1>2, <2>1 DEF Cached, Yields, TypeOK
<1> QED
  BY <1>3, <1>4, <1>5, <1>6

\* Everyone asleep on the flight is told, and nobody can go to sleep on it any
\* more.
LEMMA CompleteKeeps ==
    ASSUME IInv, NEW t \in Threads, Complete(t)
    PROVE  IInv'
<1> DEFINE c == thread[t].chunk
<1> USE DEF IInv
<1>1. /\ thread[t].at = "complete" /\ c \in Chunks /\ flight[c].owner = t
      /\ flight' = [flight EXCEPT ![c].complete = TRUE]
      /\ thread' = [u \in Threads |->
                      IF u = t THEN [thread[t] EXCEPT !.at = "remove"]
                      ELSE IF u \in Followers(t) THEN [thread[u] EXCEPT !.woken = TRUE]
                      ELSE thread[u]]
      /\ UNCHANGED <<cache, zeroFill, aborted, reported>>
  BY DEF Complete, Placed, Led, Leading
<1>2. \A u \in Threads : /\ thread'[u].chunk = thread[u].chunk
                         /\ thread'[u].value = thread[u].value
                         /\ u # t => thread'[u].at = thread[u].at
  BY <1>1 DEF TypeOK
<1>3. TypeOK'
  <2>1. ASSUME NEW u \in Threads PROVE thread'[u] \in ThreadType
    <3>1. thread[u] \in ThreadType /\ thread[t] \in ThreadType /\ "remove" \in States
      BY DEF TypeOK, ThreadType, States
    <3>2. /\ [thread[t] EXCEPT !.at = "remove"] \in ThreadType
          /\ [thread[u] EXCEPT !.woken = TRUE] \in ThreadType
      BY <3>1, FieldUpdates, Zenon
    <3> QED
      BY <1>1, <3>1, <3>2
  <2>2. thread' \in [Threads -> ThreadType]
    BY <1>1, <2>1
  <2>3. flight' \in [Chunks -> [owner : Threads \cup {NoFlight}, complete : BOOLEAN]]
    BY ZenonT(30), <1>1 DEF TypeOK
  <2> QED
    BY <1>1, <2>2, <2>3 DEF TypeOK, ThreadType
<1>4. Led'
  <2> SUFFICES ASSUME NEW u \in Threads, thread'[u].at \in Leading
               PROVE  /\ flight'[thread[u].chunk].owner = u
                      /\ flight'[thread[u].chunk].complete <=> thread'[u].at = "remove"
    BY <1>2 DEF Led
  <2>1. CASE u = t
    BY <1>1, <2>1 DEF TypeOK
  <2>2. CASE u # t
    <3>1. thread[u].at \in Leading /\ thread[u].chunk # c
      BY <1>1, <1>2, <2>2, OneLeader DEF Leading
    <3> QED
      BY <1>1, <1>2, <2>2, <3>1 DEF Led, Placed, Leading, TypeOK
  <2> QED
    BY <2>1, <2>2
<1>5. Owned'
  <2> SUFFICES ASSUME NEW d \in Chunks, flight'[d].owner # NoFlight
               PROVE  /\ thread'[flight'[d].owner].chunk = d
                      /\ thread'[flight'[d].owner].at \in Leading
    BY DEF Owned
  <2>1. PICK u \in Threads : u = flight[d].owner /\ flight'[d].owner = u
    BY <1>1 DEF TypeOK
  <2>2. thread[u].chunk = d /\ thread[u].at \in Leading
    BY <2>1, ChunkReadsAssumption DEF Owned
  <2>3. thread'[t].at \in Leading
    BY <1>1 DEF Leading, TypeOK
  <2> QED
    BY <1>2, <2>1, <2>2, <2>3
<1>6. Asleep'
  <2> SUFFICES ASSUME NEW u \in Threads, thread'[u].at = "wait", ~thread'[u].woken
               PROVE  /\ flight'[thread[u].chunk].owner # NoFlight
                      /\ ~flight'[thread[u].chunk].complete
    BY <1>2 DEF Asleep
  <2>1. u # t
    BY <1>1 DEF TypeOK
  <2>2. thread[u].at = "wait" /\ ~thread[u].woken /\ u \notin Followers(t)
    BY <1>1, <2>1 DEF TypeOK
  <2>3. thread[u].chunk # c
    BY <1>1, <2>2 DEF Followers
  <2> QED
    BY <1>1, <2>2, <2>3 DEF Asleep, Placed, TypeOK
<1>7. Placed' /\ Earned' /\ Cached'
  <2>1. \A u \in Threads : thread'[u].at = "put" => thread[u].at = "put"
    BY <1>1 DEF TypeOK
  <2>2. \A u \in Threads : thread'[u].at # "idle" => thread[u].at # "idle"
    BY <1>1 DEF TypeOK
  <2> QED
    BY <1>1, <1>2, <2>1, <2>2 DEF Placed, Earned, Cached, Yields
<1> QED
  BY <1>3, <1>4, <1>5, <1>6, <1>7

\* The flight goes; nobody sleeps on it.
LEMMA RemoveFlightKeeps ==
    ASSUME IInv, NEW t \in Threads, RemoveFlight(t)
    PROVE  IInv'
<1> DEFINE c == thread[t].chunk
<1> USE DEF IInv
<1>1. /\ thread[t].at = "remove" /\ c \in Chunks
      /\ flight[c].owner = t /\ flight[c].complete
      /\ flight' = [flight EXCEPT ![c] = [owner |-> NoFlight, complete |-> FALSE]]
      /\ thread' = [thread EXCEPT ![t] = NoRead(thread[t].value)]
      /\ UNCHANGED <<cache, zeroFill, aborted, reported>>
  BY DEF RemoveFlight, ReturnValue, Placed, Led, Leading
<1>2. NoRead(thread[t].value) \in ThreadType
  BY DEF NoRead, ThreadType, States, TypeOK
<1>3. /\ thread' \in [Threads -> ThreadType] /\ thread'[t].at = "idle"
      /\ \A u \in Threads : u # t => thread'[u] = thread[u]
  BY <1>1, <1>2, ThreadUpdate DEF NoRead
<1>4. TypeOK'
  BY <1>1, <1>3 DEF TypeOK, ThreadType
<1>5. Led'
  <2> SUFFICES ASSUME NEW u \in Threads, thread'[u].at \in Leading
               PROVE  /\ flight'[thread'[u].chunk].owner = u
                      /\ flight'[thread'[u].chunk].complete <=> thread'[u].at = "remove"
    BY DEF Led
  <2>1. u # t /\ thread'[u] = thread[u]
    BY <1>3 DEF Leading
  <2>2. thread[u].chunk # c
    BY <1>1, <2>1, OneLeader DEF Leading
  <2> QED
    BY <1>1, <2>1, <2>2 DEF Led, Placed, Leading, TypeOK
<1>6. Owned'
  BY <1>1, <1>3 DEF Owned, Leading, TypeOK
<1>7. Asleep'
  <2> SUFFICES ASSUME NEW u \in Threads, thread'[u].at = "wait", ~thread'[u].woken
               PROVE  /\ flight'[thread'[u].chunk].owner # NoFlight
                      /\ ~flight'[thread'[u].chunk].complete
    BY DEF Asleep
  <2>1. u # t /\ thread'[u] = thread[u]
    BY <1>3
  <2>2. thread[u].chunk # c
    BY <1>1, <2>1 DEF Asleep
  <2> QED
    BY <1>1, <2>1, <2>2 DEF Asleep, Placed, TypeOK
<1>8. Placed' /\ Earned' /\ Cached'
  BY <1>1, <1>3 DEF Placed, Earned, Cached, Yields
<1> QED
  BY <1>4, <1>5, <1>6, <1>7, <1>8

----------------------------------------------------------------------------
(* Invariance                                                              *)

\* At first nothing is cached and nobody reads.
LEMMA InitIInv == Init => IInv
<1> SUFFICES ASSUME Init PROVE IInv
  OBVIOUS
<1>1. TypeOK
  <2>1. <<>> \in Seq(Chunks) /\ Len(<<>>) <= Capacity
    BY ChunkReadsAssumption
  <2>2. NoRead("error") \in ThreadType
    BY DEF NoRead, ThreadType, States, Values
  <2> QED
    BY <2>1, <2>2 DEF Init, TypeOK, ThreadType, Values
<1>2. Placed /\ Led /\ Owned /\ Asleep /\ Earned
  BY DEF Init, NoRead, Placed, Led, Owned, Asleep, Earned, Leading
<1>3. Cached
  BY DEF Init, Cached, Range
<1> QED
  BY <1>1, <1>2, <1>3 DEF IInv

\* Every step of every thread, a change of policy and an abort keep the
\* invariant.
LEMMA NextIInv == IInv /\ [Next]_vars => IInv'
<1> SUFFICES ASSUME IInv, [Next]_vars PROVE IInv'
  OBVIOUS
<1>1. ASSUME NEW t \in Threads, Serve(t) PROVE IInv'
  BY <1>1, LookInCacheKeeps, JoinOrLeadKeeps, FollowerLoopsKeeps, DecodeKeeps,
     DecodeFailsKeeps, PutKeeps, CompleteKeeps, RemoveFlightKeeps DEF Serve
<1>2. ASSUME NEW t \in Threads, NEW c \in Chunks, Read(t, c) PROVE IInv'
  BY <1>2, ReadKeeps
<1>3. ASSUME UNCHANGED <<cache, flight, thread, reported>>,
             zeroFill' \in BOOLEAN, aborted' \in BOOLEAN
      PROVE  IInv'
  BY <1>3 DEF IInv, TypeOK, Placed, Led, Owned, Asleep, Earned, Cached, Yields
<1>4. ASSUME NEW on \in BOOLEAN, SetZeroFill(on) PROVE IInv'
  BY <1>3, <1>4 DEF SetZeroFill, IInv, TypeOK
<1>5. CASE SignalAbort
  BY <1>3, <1>5 DEF SignalAbort, IInv, TypeOK
<1>6. CASE UNCHANGED vars
  BY <1>3, <1>6 DEF vars, IInv, TypeOK
<1> QED
  BY <1>1, <1>2, <1>4, <1>5, <1>6 DEF Next

\* The invariant holds throughout.
LEMMA Invariance == Spec => []IInv
<1> QED
  BY InitIInv, NextIInv, PTL DEF Spec

\* docs/architecture.md, "Concurrent misses for one chunk share its decode":
\* however the threads interleave, one at most decodes a chunk (read_chunk).
THEOREM DecodesAreShared == Spec => []OneDecoder
<1>1. IInv => OneDecoder
  BY OneLeader DEF OneDecoder, Leading
<1> QED
  BY Invariance, <1>1, PTL

\* The cache serves what decoding would have yielded under the policy, and
\* zeroes only for chunks that checksum_errors() reports, though the policy is
\* changed and reads are aborted at any time (decode_chunk_with_policy).
THEOREM CacheIsHonest == Spec => []CacheHonest
<1>1. IInv => CacheHonest
  BY DEF IInv, Cached, Yields, CacheHonest
<1> QED
  BY Invariance, <1>1, PTL

\* A follower asleep has a leader who will complete its flight: no order of
\* joining, completing and removing a flight loses the wakeup (ChunkFlight).
THEOREM FollowersHaveLeaders == Spec => []FollowersAreLed
<1>1. ASSUME IInv PROVE FollowersAreLed
  <2> USE <1>1 DEF IInv
  <2> SUFFICES ASSUME NEW u \in Threads, thread[u].at = "wait", ~thread[u].woken
               PROVE  LET t == flight[thread[u].chunk].owner
                      IN  /\ t # NoFlight
                          /\ thread[t].chunk = thread[u].chunk
                          /\ thread[t].at \in {"decode", "put", "complete"}
    BY DEF FollowersAreLed
  <2>1. thread[u].chunk \in Chunks
    BY DEF Placed
  <2>2. PICK t \in Threads : t = flight[thread[u].chunk].owner
    BY <2>1 DEF Asleep, TypeOK
  <2>3. /\ t # NoFlight /\ ~flight[thread[u].chunk].complete
        /\ thread[t].chunk = thread[u].chunk /\ thread[t].at \in Leading
    BY <2>1, <2>2 DEF Asleep, Owned
  <2>4. thread[t].at # "remove"
    BY <2>3 DEF Led
  <2> QED
    BY <2>2, <2>3, <2>4 DEF Leading
<1> QED
  BY Invariance, <1>1, PTL
=============================================================================
