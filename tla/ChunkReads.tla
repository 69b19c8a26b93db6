----------------------------- MODULE ChunkReads -----------------------------
(***************************************************************************)
(* src/image.rs, Image::read_chunk and decode_chunk_with_policy: threads   *)
(* read chunks through an LRU cache, and the first one to miss decodes on  *)
(* behalf of those that miss while it does (a ChunkFlight).  Each action   *)
(* is one critical section, of the cache, of the map of flights or of one  *)
(* flight, or the decoding between them.                                   *)
(***************************************************************************)
EXTENDS LruOrder, Integers, Functions

CONSTANTS Threads, Chunks,
          Damaged,   \* the chunks whose stored checksum does not match
          Capacity,  \* chunks the cache can hold
          NoFlight   \* no flight for a chunk

ASSUME ChunkReadsAssumption ==
    /\ Damaged \subseteq Chunks
    /\ Capacity \in Nat
    /\ NoFlight \notin Threads

VARIABLES cache,    \* chunk_cache: the chunks, least recently used first,
                    \* and what is cached for each
          flight,   \* chunk_in_flight: who decodes a chunk, and `complete'
          thread,   \* per thread, where its read stands
          zeroFill, \* read_zero_chunk_on_error
          aborted,  \* abort_signaled
          reported  \* checksum_errors

vars == <<cache, flight, thread, zeroFill, aborted, reported>>

\* What a read returns: the decoded chunk, its zero-filled stand-in, an error.
Values == {"data", "zeros", "error"}
States == {"idle", "cache", "flight", "wait", "decode", "put", "complete", "remove"}

NoRead(value) == [at |-> "idle", chunk |-> NoFlight, value |-> value, woken |-> FALSE]

Goto(t, state) == thread' = [thread EXCEPT ![t].at = state]
ReturnValue(t, value) == thread' = [thread EXCEPT ![t] = NoRead(value)]

\* LruCache::get and LruCache::put move the chunk to the end of the order; put
\* then makes room.
Evict(order) == IF Len(order) > Capacity THEN Tail(order) ELSE order

----------------------------------------------------------------------------
(* read_chunk                                                              *)

\* ensure_not_aborted() refuses new reads once an abort is signalled.
Read(t, c) ==
    /\ thread[t].at = "idle" /\ ~aborted
    /\ thread' = [thread EXCEPT ![t] = [at |-> "cache", chunk |-> c, value |-> "error", woken |-> FALSE]]
    /\ UNCHANGED <<cache, flight, zeroFill, aborted, reported>>

LookInCache(t) ==
    LET c == thread[t].chunk
    IN  /\ thread[t].at = "cache"
        /\ IF c \in Range(cache.order)
           THEN /\ cache' = [cache EXCEPT !.order = MoveToEnd(@, c)]
                /\ ReturnValue(t, cache.value[c])
           ELSE Goto(t, "flight") /\ UNCHANGED cache
        /\ UNCHANGED <<flight, zeroFill, aborted, reported>>

\* Faulty variant: a flight in progress is not joined.
LeadAlways(t) ==
    /\ thread[t].at = "flight"
    /\ flight' = [flight EXCEPT ![thread[t].chunk] = [owner |-> t, complete |-> FALSE]]
    /\ Goto(t, "decode")
    /\ UNCHANGED <<cache, zeroFill, aborted, reported>>
\* Join the flight for the chunk, which may be complete already, or start one.
JoinOrLead(t) ==
    LET c == thread[t].chunk
    IN  /\ thread[t].at = "flight"
        /\ IF flight[c].owner = NoFlight
           THEN /\ flight' = [flight EXCEPT ![c] = [owner |-> t, complete |-> FALSE]]
                /\ Goto(t, "decode")
           ELSE /\ thread' = [thread EXCEPT ![t].at = "wait", ![t].woken = flight[c].complete]
                /\ UNCHANGED flight
        /\ UNCHANGED <<cache, zeroFill, aborted, reported>>

\* A follower starts over when its flight is complete.
FollowerLoops(t) ==
    /\ thread[t].at = "wait" /\ thread[t].woken
    /\ thread' = [thread EXCEPT ![t].at = "cache", ![t].woken = FALSE]
    /\ UNCHANGED <<cache, flight, zeroFill, aborted, reported>>

\* Faulty variant: zeroes are handed on unconditionally and unreported.
DecodeUnreported(t) ==
    LET c == thread[t].chunk
    IN  /\ thread[t].at = "decode"
        /\ ~aborted
        /\ thread' = [thread EXCEPT ![t].at = "put",
                                    ![t].value = IF c \in Damaged THEN "zeros" ELSE "data"]
        /\ UNCHANGED <<cache, flight, zeroFill, aborted, reported>>
\* decode_chunk_with_policy(): the policy is read when the checksum fails, and
\* the range is reported before the zeroes are handed on.
Decode(t) ==
    LET c == thread[t].chunk
    IN  /\ thread[t].at = "decode"
        /\ ~aborted
        /\ c \in Damaged => zeroFill
        /\ thread' = [thread EXCEPT ![t].at = "put",
                                    ![t].value = IF c \in Damaged THEN "zeros" ELSE "data"]
        /\ reported' = IF c \in Damaged THEN reported \cup {c} ELSE reported
        /\ UNCHANGED <<cache, flight, zeroFill, aborted>>

\* Faulty variant: the error returns before the flight completes.
DecodeFailsEarly(t) ==
    /\ thread[t].at = "decode"
    /\ ReturnValue(t, "error")
    /\ UNCHANGED <<cache, flight, zeroFill, aborted, reported>>
\* A damaged chunk under the strict policy, a failed segment read, an abort:
\* the error skips the cache but not the completion of the flight.
DecodeFails(t) ==
    /\ thread[t].at = "decode"
    /\ thread' = [thread EXCEPT ![t].at = "complete", ![t].value = "error"]
    /\ UNCHANGED <<cache, flight, zeroFill, aborted, reported>>

Put(t) ==
    LET c == thread[t].chunk
    IN  /\ thread[t].at = "put"
        /\ cache' = [order |-> Evict(MoveToEnd(cache.order, c)),
                     value |-> [cache.value EXCEPT ![c] = thread[t].value]]
        /\ Goto(t, "complete")
        /\ UNCHANGED <<flight, zeroFill, aborted, reported>>

\* complete = true and notify_all() under the flight's lock.
Followers(t) == {u \in Threads : thread[u].at = "wait" /\ flight[thread[t].chunk].owner = t
                                 /\ thread[u].chunk = thread[t].chunk}
Complete(t) ==
    /\ thread[t].at = "complete"
    /\ flight' = [flight EXCEPT ![thread[t].chunk].complete = TRUE]
    /\ thread' = [u \in Threads |->
                    IF u = t THEN [thread[t] EXCEPT !.at = "remove"]
                    ELSE IF u \in Followers(t) THEN [thread[u] EXCEPT !.woken = TRUE]
                    ELSE thread[u]]
    /\ UNCHANGED <<cache, zeroFill, aborted, reported>>

RemoveFlight(t) ==
    /\ thread[t].at = "remove"
    /\ flight' = [flight EXCEPT ![thread[t].chunk] = [owner |-> NoFlight, complete |-> FALSE]]
    /\ ReturnValue(t, thread[t].value)
    /\ UNCHANGED <<cache, zeroFill, aborted, reported>>

----------------------------------------------------------------------------
(* Settings, changed by any thread at any time                             *)

SetZeroFill(on) ==
    /\ zeroFill' = on
    /\ UNCHANGED <<cache, flight, thread, aborted, reported>>

SignalAbort ==
    /\ aborted' = TRUE
    /\ UNCHANGED <<cache, flight, thread, zeroFill, reported>>

Init ==
    /\ cache = [order |-> <<>>, value |-> [c \in Chunks |-> "error"]]
    /\ flight = [c \in Chunks |-> [owner |-> NoFlight, complete |-> FALSE]]
    /\ thread = [t \in Threads |-> NoRead("error")]
    /\ zeroFill \in BOOLEAN
    /\ aborted = FALSE
    /\ reported = {}

Serve(t) ==
    \/ LookInCache(t) \/ JoinOrLead(t) \/ FollowerLoops(t)
    \/ Decode(t) \/ DecodeFails(t) \/ Put(t) \/ Complete(t) \/ RemoveFlight(t)

Next ==
    \/ \E t \in Threads : Serve(t) \/ \E c \in Chunks : Read(t, c)
    \/ \E on \in BOOLEAN : SetZeroFill(on)
    \/ SignalAbort

Spec == Init /\ [][Next]_vars
FairSpec == Spec /\ \A t \in Threads : WF_vars(Serve(t))

----------------------------------------------------------------------------
(* Properties                                                              *)

\* The cache never holds more chunks than its capacity.
TypeOK ==
    /\ cache \in [order : Seq(Chunks), value : [Chunks -> Values]]
    /\ Len(cache.order) <= Capacity
    /\ flight \in [Chunks -> [owner : Threads \cup {NoFlight}, complete : BOOLEAN]]
    /\ thread \in [Threads -> [at : States, chunk : Chunks \cup {NoFlight},
                               value : Values, woken : BOOLEAN]]
    /\ zeroFill \in BOOLEAN /\ aborted \in BOOLEAN
    /\ reported \subseteq Chunks

\* docs/architecture.md:33, "Concurrent misses for one chunk share its decode":
\* no two threads decode a chunk at the same time.
OneDecoder ==
    \A t, u \in Threads :
        (t # u /\ {thread[t].at, thread[u].at} \subseteq {"decode", "put"})
            => thread[t].chunk # thread[u].chunk

\* Whatever the cache serves is what decoding would have yielded: no error is
\* ever cached, and zeroes stand only for a damaged chunk whose range
\* checksum_errors() reports.
CacheHonest ==
    \A c \in Range(cache.order) :
        cache.value[c] = IF c \in Damaged /\ c \in reported THEN "zeros" ELSE "data"

\* A follower asleep follows a flight whose leader is still there to wake it.
FollowersAreLed ==
    /\ TypeOK
    /\ \A u \in Threads : (thread[u].at = "wait" /\ ~thread[u].woken) =>
           LET t == flight[thread[u].chunk].owner
           IN  /\ t # NoFlight
               /\ thread[t].chunk = thread[u].chunk
               /\ thread[t].at \in {"decode", "put", "complete"}

\* Once no thread asks for more, every read returns, also those that followed
\* a decode that failed or was aborted.
ReadsReturn ==
    <>[][\A t \in Threads, c \in Chunks : ~Read(t, c)]_vars =>
        \A t \in Threads : thread[t].at # "idle" ~> thread[t].at = "idle"
=============================================================================
