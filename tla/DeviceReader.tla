---------------------------- MODULE DeviceReader ----------------------------
(***************************************************************************)
(* crates/ewf-cli/src/ewf/source/reader.rs and the part of source.rs that  *)
(* uses it: the acquisition reads a device through a worker thread with    *)
(* one outstanding request, so that a driver that never answers cannot     *)
(* block it.  The caller and the worker exchange one buffer through two    *)
(* channels of capacity one.  A read that is stopped or late is given up   *)
(* together with its worker, never retried on it.                          *)
(***************************************************************************)
EXTENDS Integers, Sequences

CONSTANTS Size,     \* blocks of the device
          Hanging,  \* offsets whose read may never return from the driver
          Timed     \* whether a read deadline is configured: the cases

ASSUME DeviceAssumption ==
    /\ Size \in Nat \ {0}
    /\ Hanging \subseteq 0..Size
    /\ Timed # {} /\ Timed \subseteq BOOLEAN

VARIABLES position, \* Source.position
          call,     \* where read_at() stands, its offset and the reply it got
          reader,   \* the fields failure, requests (is the sender there) and
                    \* buffer (is it there) of Reader, and whether Reader lives
          requests, \* the request channel: offsets
          replies,  \* the reply channel: results
          worker,   \* where the worker stands, its offset and result
          halt, stop, expired,
          timed,    \* a read deadline is configured
          outcome   \* what the last read_at() asked for and returned

vars == <<position, call, reader, requests, replies, worker, halt, stop, expired, timed, outcome>>

Offsets == 0..Size
NoOffset == -1

\* What reading offset o yields: its data, or nothing past the end.
Failed == [kind |-> "error", data |-> NoOffset]
ReadOk(o) == [kind |-> "ok", data |-> IF o = Size THEN NoOffset ELSE o]
Results == {Failed} \cup {ReadOk(o) : o \in Offsets}

Failures == {"none", "Interrupted", "TimedOut", "BrokenPipe"}

CallLabels == {"idle", "start", "loop", "recv", "got"}
WorkerLabels == {"recv", "seek", "read", "send", "ended"}

NoCall == [at |-> "idle", off |-> NoOffset, reply |-> Failed]

----------------------------------------------------------------------------
(* The caller: Source::seek, Source::read and Reader::read_at              *)

Seek(o) ==
    /\ call.at = "idle"
    /\ position' = o
    /\ UNCHANGED <<call, reader, requests, replies, worker, halt, stop, expired, outcome, timed>>

ReturnWith(result) ==
    /\ call' = NoCall
    /\ outcome' = [off |-> call.off, result |-> result]

\* A failed reader refuses at once; otherwise the deadline starts to run.
ReadAt ==
    /\ call.at = "idle" /\ reader.alive
    /\ IF reader.failure # "none"
       THEN outcome' = [off |-> position, result |-> Failed] /\ UNCHANGED <<call, expired>>
       ELSE /\ call' = [NoCall EXCEPT !.at = "start", !.off = position]
            /\ expired' = FALSE
            /\ UNCHANGED outcome
    /\ UNCHANGED <<position, reader, requests, replies, worker, halt, stop, timed>>

Stopped == stop \/ expired
Reason == IF stop THEN "Interrupted" ELSE "TimedOut"

\* Faulty variants: a deadline after which the reader stays in use, and a
\* shutdown() that keeps the sender.
GiveUpRetryable ==
    /\ call.at \in {"start", "loop", "got"} /\ Stopped
    /\ reader' = [reader EXCEPT !.buffer = TRUE]
    /\ ReturnWith(Failed)
    /\ UNCHANGED <<position, requests, replies, worker, halt, stop, expired, timed>>
GiveUpWithSender ==
    /\ call.at \in {"start", "loop", "got"} /\ Stopped
    /\ reader' = [reader EXCEPT !.failure = Reason]
    /\ halt' = TRUE
    /\ ReturnWith(Failed)
    /\ UNCHANGED <<position, requests, replies, worker, stop, expired, timed>>
\* check_stop() finds a reason: the reader fails for good and shutdown() leaves
\* the worker to itself, with the buffer wherever it is.
GiveUp ==
    /\ call.at \in {"start", "loop", "got"} /\ Stopped
    /\ reader' = [reader EXCEPT !.failure = Reason, !.sender = FALSE]
    /\ halt' = TRUE
    /\ ReturnWith(Failed)
    /\ UNCHANGED <<position, requests, replies, worker, stop, expired, timed>>

SendRequest ==
    /\ call.at = "start" /\ ~Stopped
    /\ IF worker.at = "ended"
       THEN /\ reader' = [reader EXCEPT !.buffer = FALSE, !.failure = "BrokenPipe"]
            /\ ReturnWith(Failed)
            /\ UNCHANGED requests
       ELSE /\ reader' = [reader EXCEPT !.buffer = FALSE]
            /\ requests' = Append(requests, call.off)
            /\ call' = [call EXCEPT !.at = "loop"]
            /\ UNCHANGED outcome
    /\ UNCHANGED <<position, replies, worker, halt, stop, expired, timed>>

\* The loop of read_at(): check_stop(), then recv_timeout().
CheckAndWait ==
    /\ call.at = "loop" /\ ~Stopped
    /\ call' = [call EXCEPT !.at = "recv"]
    /\ UNCHANGED <<position, reader, requests, replies, worker, halt, stop, expired, outcome, timed>>

\* Faulty variant: recv() without a timeout.
RecvForever ==
    /\ call.at = "recv"
    /\ replies # <<>>
    /\ call' = [call EXCEPT !.at = "got", !.reply = Head(replies)]
    /\ replies' = Tail(replies)
    /\ UNCHANGED <<position, reader, requests, worker, halt, stop, expired, outcome, timed>>
RecvTimeout ==
    /\ call.at = "recv"
    /\ \/ /\ replies # <<>>
          /\ call' = [call EXCEPT !.at = "got", !.reply = Head(replies)]
          /\ replies' = Tail(replies)
          /\ UNCHANGED <<reader, outcome>>
       \/ /\ replies = <<>> /\ worker.at = "ended"
          /\ reader' = [reader EXCEPT !.failure = "BrokenPipe"]
          /\ ReturnWith(Failed)
          /\ UNCHANGED replies
       \/ /\ replies = <<>> /\ worker.at # "ended"
          /\ call' = [call EXCEPT !.at = "loop"]
          /\ UNCHANGED <<reader, replies, outcome>>
    /\ UNCHANGED <<position, requests, worker, halt, stop, expired, timed>>

\* Source::read moves the position past what was read.
Advance(result) == IF result.data = NoOffset THEN position ELSE position + 1

\* Faulty variant: `result?' before the buffer is put back.
DeliverOkOnly ==
    /\ call.at = "got" /\ ~Stopped
    /\ reader' = [reader EXCEPT !.buffer = call.reply.kind = "ok"]
    /\ position' = Advance(call.reply)
    /\ ReturnWith(call.reply)
    /\ UNCHANGED <<requests, replies, worker, halt, stop, expired, timed>>
\* The buffer comes back with the result, also when that is an error.
Deliver ==
    /\ call.at = "got" /\ ~Stopped
    /\ reader' = [reader EXCEPT !.buffer = TRUE]
    /\ position' = Advance(call.reply)
    /\ ReturnWith(call.reply)
    /\ UNCHANGED <<requests, replies, worker, halt, stop, expired, timed>>

\* Drop for Reader: shutdown(), and the reply channel closes.
DropReader ==
    /\ call.at = "idle" /\ reader.alive
    /\ reader' = [reader EXCEPT !.alive = FALSE, !.sender = FALSE]
    /\ halt' = TRUE
    /\ UNCHANGED <<position, call, requests, replies, worker, stop, expired, outcome, timed>>

----------------------------------------------------------------------------
(* The worker                                                              *)

WorkerOnly == UNCHANGED <<position, call, reader, halt, stop, expired, outcome, timed>>

WorkerRecv ==
    /\ worker.at = "recv"
    /\ \/ /\ requests # <<>>
          /\ worker' = [worker EXCEPT !.at = IF halt THEN "ended" ELSE "seek", !.off = Head(requests)]
          /\ requests' = Tail(requests)
       \/ /\ requests = <<>> /\ ~reader.sender
          /\ worker' = [worker EXCEPT !.at = "ended"]
          /\ UNCHANGED requests
    /\ UNCHANGED replies
    /\ WorkerOnly

\* A failed seek, or a halt noticed after it, answers with an error.
WorkerSeek ==
    /\ worker.at = "seek"
    /\ \/ worker' = [worker EXCEPT !.at = "send", !.result = Failed]
       \/ ~halt /\ worker' = [worker EXCEPT !.at = "read"]
    /\ UNCHANGED <<requests, replies>>
    /\ WorkerOnly

WorkerRead ==
    /\ worker.at = "read"
    /\ \E result \in {Failed, ReadOk(worker.off)} :
          worker' = [worker EXCEPT !.at = "send", !.result = result]
    /\ UNCHANGED <<requests, replies>>
    /\ WorkerOnly

WorkerSend ==
    /\ worker.at = "send"
    /\ IF halt \/ ~reader.alive
       THEN worker' = [worker EXCEPT !.at = "ended"] /\ UNCHANGED replies
       ELSE /\ replies = <<>>
            /\ replies' = Append(replies, worker.result)
            /\ worker' = [worker EXCEPT !.at = "recv"]
    /\ UNCHANGED requests
    /\ WorkerOnly

\* The source panics under the worker, whose ends of the channels close.
WorkerPanics ==
    /\ worker.at \in {"seek", "read"}
    /\ worker' = [worker EXCEPT !.at = "ended"]
    /\ UNCHANGED <<requests, replies>>
    /\ WorkerOnly

----------------------------------------------------------------------------
(* The environment: the operator's stop and the clock                      *)

Stop ==
    /\ ~stop
    /\ stop' = TRUE
    /\ UNCHANGED <<position, call, reader, requests, replies, worker, halt, expired, outcome, timed>>

Expire ==
    /\ timed /\ call.at # "idle" /\ ~expired
    /\ expired' = TRUE
    /\ UNCHANGED <<position, call, reader, requests, replies, worker, halt, stop, outcome, timed>>

Init ==
    /\ position = 0
    /\ call = NoCall
    /\ reader = [failure |-> "none", sender |-> TRUE, buffer |-> TRUE, alive |-> TRUE]
    /\ requests = <<>> /\ replies = <<>>
    /\ worker = [at |-> "recv", off |-> NoOffset, result |-> Failed]
    /\ halt = FALSE /\ stop = FALSE /\ expired = FALSE /\ timed \in Timed
    /\ outcome = [off |-> NoOffset, result |-> Failed]

CallerStep == GiveUp \/ SendRequest \/ CheckAndWait \/ RecvTimeout \/ Deliver
WorkerStep == WorkerRecv \/ WorkerSeek \/ WorkerRead \/ WorkerSend

Next ==
    \/ \E o \in Offsets : Seek(o)
    \/ ReadAt \/ DropReader
    \/ CallerStep
    \/ WorkerStep \/ WorkerPanics
    \/ Stop \/ Expire

Spec == Init /\ [][Next]_vars

\* Both threads run, except in a driver that hangs, and time passes.
Fairness ==
    /\ WF_vars(CallerStep)
    /\ WF_vars(WorkerStep /\ ~(worker.at = "read" /\ worker.off \in Hanging))
    /\ WF_vars(Expire)
FairSpec == Spec /\ Fairness

----------------------------------------------------------------------------
(* Properties                                                              *)

\* Positions stay within the device and the channels within their capacity.
TypeOK ==
    /\ position \in Offsets
    /\ call \in [at : CallLabels, off : Offsets \cup {NoOffset}, reply : Results]
    /\ reader \in [failure : Failures, sender : BOOLEAN, buffer : BOOLEAN, alive : BOOLEAN]
    /\ requests \in Seq(Offsets) /\ Len(requests) <= 1
    /\ replies \in Seq(Results) /\ Len(replies) <= 1
    /\ worker \in [at : WorkerLabels, off : Offsets \cup {NoOffset}, result : Results]
    /\ halt \in BOOLEAN /\ stop \in BOOLEAN /\ expired \in BOOLEAN /\ timed \in Timed
    /\ outcome \in [off : Offsets \cup {NoOffset}, result : Results]

\* A read that succeeds returns the data of its own offset: the answer to a
\* request that was given up never reaches a later one.
FreshData ==
    outcome.result.kind = "ok" => outcome.result = ReadOk(outcome.off)

\* read_at(), "healthy reader owns its buffer": between calls a reader that has
\* not failed has its buffer back and both channels are empty, after an error
\* of the device as well.
HealthyOwnsBuffer ==
    /\ TypeOK
    /\ (call.at = "idle" /\ reader.failure = "none") =>
           /\ reader.buffer
           /\ requests = <<>> /\ replies = <<>>
           /\ worker.at # "ended" => worker.at = "recv" \/ ~reader.alive

\* With a deadline, or once it is stopped, every read returns, also one that the
\* driver never answers.
CallsReturn == (call.at # "idle" /\ (timed \/ stop)) ~> call.at = "idle"

\* A worker that was shut down ends, unless the driver still holds it.
WorkerEnds ==
    halt ~> (worker.at = "ended" \/ (worker.at = "read" /\ worker.off \in Hanging))
=============================================================================
