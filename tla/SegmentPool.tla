---------------------------- MODULE SegmentPool ----------------------------
(***************************************************************************)
(* src/image.rs, SegmentFilePool and PositionedSegmentLease: readers of a  *)
(* path-backed image share a bounded pool of open segment files.  A read   *)
(* leases a handle, reads outside the lock and gives the handle back; when *)
(* every handle is leased it waits on the condition variable               *)
(* segment_handle_available, and each returned lease notifies one waiter.  *)
(*                                                                         *)
(* Each action is one critical section of the pool's mutex, except Return, *)
(* which drops the lease's reference to the file without it.               *)
(***************************************************************************)
EXTENDS LruOrder, Integers, Functions

CONSTANTS Threads,   \* threads reading the image
          Count,     \* segments of the image
          Limits     \* values of maximum_open_handles in use, 0 for None

ASSUME PoolAssumption ==
    /\ Count \in Nat \ {0}
    /\ Limits # {} /\ Limits \subseteq Nat

VARIABLES pool,    \* files: the open segments; order: open_order; max
          thread,  \* per thread, where its read stands and on which segment
          failed   \* history: opening a segment has failed for some read

vars == <<pool, thread, failed>>

Segs == 1..Count
NoSeg == 0

\* "wait" is asleep on the condition variable, "try" awake and about to look
\* at the pool, "lease" reading, "notify" done but yet to notify.
States == {"idle", "try", "wait", "lease", "notify"}

At(state) == {t \in Threads : thread[t].at = state}
Busy(s) == \E t \in At("lease") : thread[t].seg = s
Goto(t, state) == thread' = [thread EXCEPT ![t].at = state]
GoIdle(t) == thread' = [thread EXCEPT ![t] = [at |-> "idle", seg |-> NoSeg]]

----------------------------------------------------------------------------
(* SegmentFilePool: what its methods make of a pool p                      *)

\* close_least_recently_used(), n times or as often as it finds an idle handle:
\* the busy ones it passes over move to the back of the order.
IdleAt(p) == {i \in DOMAIN p.order : ~Busy(p.order[i])}
\* Faulty variant: leases are not looked at.
CloseAnyLRU(p, n) ==
    [p EXCEPT !.files = @ \ {p.order[i] : i \in 1..n}, !.order = SubSeq(@, n + 1, Len(@))]
CloseLRU(p, n) ==
    LET last == Nth(IdleAt(p), n)
        closed == {i \in IdleAt(p) : i <= last}
        passed == (1..last) \ closed
    IN  [p EXCEPT !.files = @ \ {p.order[i] : i \in closed},
                  !.order = SubSeq(@, last + 1, Len(@)) \o Keep(@, passed)]

Excess(p, limit) == IF p.max = 0 \/ Cardinality(p.files) <= limit THEN 0
                    ELSE Cardinality(p.files) - limit
Shrinkable(p, limit) == Excess(p, limit) <= Cardinality(IdleAt(p))
ShrinkTo(p, limit) ==
    LET n == Excess(p, limit)
        idle == Cardinality(IdleAt(p))
        closed == IF n <= idle THEN n ELSE idle
    IN  IF closed = 0 THEN p ELSE CloseLRU(p, closed)

\* Faulty variant: the old entry stays in the order.
MarkUsedAgain(p, s) == [p EXCEPT !.order = Append(@, s)]
MarkUsed(p, s) == [p EXCEPT !.order = MoveToEnd(@, s)]

\* A free slot for segment s, unless it is open already.
Room(p, s) == s \in p.files \/ Shrinkable(p, p.max - 1)
MakeRoom(p, s) == IF s \in p.files THEN p ELSE ShrinkTo(p, p.max - 1)
Opened(p, s) == MarkUsed([p EXCEPT !.files = @ \cup {s}], s)

----------------------------------------------------------------------------
(* Image::read_segment_range                                               *)

Request(t, s) ==
    /\ thread[t].at = "idle"
    /\ thread' = [thread EXCEPT ![t] = [at |-> "try", seg |-> s]]
    /\ UNCHANGED <<pool, failed>>

\* acquire_path_file() and its caller's loop: lease, or go to sleep.
Acquire(t) ==
    /\ thread[t].at = "try"
    /\ IF Room(pool, thread[t].seg)
       THEN /\ pool' = Opened(MakeRoom(pool, thread[t].seg), thread[t].seg)
            /\ Goto(t, "lease")
       ELSE /\ pool' = ShrinkTo(pool, pool.max - 1)
            /\ Goto(t, "wait")
    /\ UNCHANGED failed

\* File::open fails after room was made, or metadata() on the open file: the
\* read returns the error, having no lease whose drop would notify.
AcquireFails(t) ==
    /\ thread[t].at = "try" /\ Room(pool, thread[t].seg)
    /\ \/ thread[t].seg \notin pool.files /\ pool' = MakeRoom(pool, thread[t].seg)
       \/ pool' = Opened(MakeRoom(pool, thread[t].seg), thread[t].seg)
    /\ GoIdle(t)
    /\ failed' = TRUE

\* PositionedSegmentLease::drop: first the file reference, then, with the
\* mutex held, notify_one.
Return(t) ==
    /\ thread[t].at = "lease"
    /\ Goto(t, "notify")
    /\ UNCHANGED <<pool, failed>>

\* Faulty variant: the notification is forgotten.
NotifyNone(t) ==
    /\ thread[t].at = "notify"
    /\ GoIdle(t)
    /\ UNCHANGED <<pool, failed>>
NotifyOne(t) ==
    /\ thread[t].at = "notify"
    /\ \/ At("wait") = {} /\ GoIdle(t)
       \/ \E u \in At("wait") :
             thread' = [thread EXCEPT ![t] = [at |-> "idle", seg |-> NoSeg], ![u].at = "try"]
    /\ UNCHANGED <<pool, failed>>

\* Condvar::wait may return without a notification.
WakeSpuriously(t) ==
    /\ thread[t].at = "wait"
    /\ Goto(t, "try")
    /\ UNCHANGED <<pool, failed>>

----------------------------------------------------------------------------
(* Other users of the pool                                                 *)

\* Faulty variant: the limit is set without closing handles.
SetMaximumAnyway(limit) ==
    /\ limit # pool.max
    /\ pool' = [pool EXCEPT !.max = limit]
    /\ UNCHANGED <<thread, failed>>
\* set_maximum_open_handles(); when too many handles are leased the old limit
\* is put back, after the idle ones were closed.
SetMaximum(limit) ==
    LET next == [pool EXCEPT !.max = limit]
    IN  /\ limit # pool.max
        /\ pool' = IF Shrinkable(next, limit) THEN ShrinkTo(next, limit)
                   ELSE [ShrinkTo(next, limit) EXCEPT !.max = pool.max]
        /\ UNCHANGED <<thread, failed>>

\* segment_set_size(): file_mut() on every segment in turn, until one finds no
\* handle it may close.
Visit(state, s) ==
    IF ~state.ok THEN state
    ELSE IF Room(state.pool, s)
    THEN [state EXCEPT !.pool = Opened(MakeRoom(state.pool, s), s)]
    ELSE [ok |-> FALSE, pool |-> ShrinkTo(state.pool, state.pool.max - 1)]
Visited[s \in 0..Count] ==
    IF s = 0 THEN [ok |-> TRUE, pool |-> pool] ELSE Visit(Visited[s - 1], s)
SegmentSetSize ==
    /\ pool' = Visited[Count].pool
    /\ UNCHANGED <<thread, failed>>

Init ==
    /\ \E limit \in Limits : pool = [files |-> {}, order |-> <<>>, max |-> limit]
    /\ thread = [t \in Threads |-> [at |-> "idle", seg |-> NoSeg]]
    /\ failed = FALSE

Serve(t) == Acquire(t) \/ AcquireFails(t) \/ Return(t) \/ NotifyOne(t)

Next ==
    \/ \E t \in Threads : \/ \E s \in Segs : Request(t, s)
                          \/ Serve(t)
                          \/ WakeSpuriously(t)
    \/ \E limit \in Limits : SetMaximum(limit)
    \/ SegmentSetSize

Spec == Init /\ [][Next]_vars

\* Threads that are awake run; nothing promises a spurious wakeup or another
\* request.
FairSpec == Spec /\ \A t \in Threads : WF_vars(Serve(t))

----------------------------------------------------------------------------
(* Properties                                                              *)

\* Handles and requests are of segments of the image, the limit one that was set.
TypeOK ==
    /\ pool \in [files : SUBSET Segs, order : Seq(Segs), max : Limits]
    /\ thread \in [Threads -> [at : States, seg : Segs \cup {NoSeg}]]
    /\ failed \in BOOLEAN

\* Every open handle is in the order once, so that it can be found and closed.
OrderTracksFiles ==
    /\ TypeOK
    /\ Range(pool.order) = pool.files
    /\ Len(pool.order) = Cardinality(pool.files)

\* No more files are open than the limit allows, however reads, other users
\* and changes of the limit interleave.
WithinLimit == pool.max = 0 \/ Cardinality(pool.files) <= pool.max

\* A file is not closed under a read.
LeasedStaysOpen == \A t \in At("lease") : thread[t].seg \in pool.files

\* src/image.rs:215, "A waiter cannot slip between checking the pool and going
\* to sleep": somebody who will notify, or is about to look, is left for every
\* thread asleep.
NobodyStranded == At("wait") # {} => At("lease") \cup At("notify") \cup At("try") # {}

\* As long as opening succeeds, and once no thread asks for more, every read
\* that was asked for returns.
ReadsReturn ==
    <>[][\A t \in Threads, s \in Segs : ~Request(t, s)]_vars =>
        \A t \in Threads : thread[t].at # "idle" ~> (thread[t].at = "idle" \/ failed)
=============================================================================
