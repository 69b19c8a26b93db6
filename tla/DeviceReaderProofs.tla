------------------------- MODULE DeviceReaderProofs -------------------------
(***************************************************************************)
(* Proofs about DeviceReader, for every device size, every set of offsets  *)
(* at which the driver may hang, with and without a read deadline.         *)
(*                                                                         *)
(* A read that is given up leaves its request, its worker and its answer   *)
(* where they are, so "the next answer belongs to this call" does not hold *)
(* of the channels alone.  The invariant follows the one request there is: *)
(* while a call waits, it is in the request channel, with the worker, in   *)
(* the reply channel or lost with the worker, and everywhere it carries    *)
(* the offset of the call; a reader that may have left one behind has      *)
(* failed, and a failed reader starts no call.                             *)
(***************************************************************************)
EXTENDS DeviceReader, TLAPS

\* The answers the worker may give to a read at offset o.
AnswersTo(o) == {Failed, ReadOk(o)}

Healthy == reader.failure = "none"

\* read_at() runs only on a healthy reader that nobody dropped, and the source
\* stays where it was when the call began.
CallsAreHealthy ==
    /\ Healthy /\ reader.alive => reader.sender /\ ~halt
    /\ call.at # "idle" =>
           /\ Healthy /\ reader.alive
           /\ call.off \in Offsets
           /\ position = call.off

\* A healthy reader between two requests: everything is back where it started.
AtRest ==
    Healthy /\ call.at \in {"idle", "start"} =>
        /\ reader.buffer
        /\ requests = <<>> /\ replies = <<>>
        /\ worker.at \in {"recv", "ended"}

\* A call that waits has one request, somewhere.
Requested == requests = <<call.off>> /\ replies = <<>> /\ worker.at = "recv"
Served ==
    /\ requests = <<>> /\ replies = <<>>
    /\ worker.at \in {"seek", "read", "send"} /\ worker.off = call.off
    /\ worker.at = "send" => worker.result \in AnswersTo(call.off)
Answered ==
    /\ requests = <<>> /\ worker.at = "recv"
    /\ \E answer \in AnswersTo(call.off) : replies = <<answer>>
Lost == requests = <<>> /\ replies = <<>> /\ worker.at = "ended"
InTransit == call.at \in {"loop", "recv"} => Requested \/ Served \/ Answered \/ Lost

\* A call that has its answer left nothing behind.
Received ==
    call.at = "got" =>
        /\ call.reply \in AnswersTo(call.off)
        /\ requests = <<>> /\ replies = <<>> /\ worker.at = "recv"

\* The worker seeks and reads within the device.
WorkerInDevice == worker.at \in {"seek", "read"} => worker.off \in Offsets

\* The inductive invariant.
IInv ==
    /\ TypeOK /\ CallsAreHealthy /\ AtRest /\ InTransit /\ Received
    /\ WorkerInDevice /\ FreshData
----------------------------------------------------------------------------
(* Results                                                                 *)

\* The answers to a read within the device are results of the reader.
LEMMA AnswerTypes ==
    ASSUME NEW o \in Offsets
    PROVE  /\ AnswersTo(o) \subseteq Results
           /\ Failed \in AnswersTo(o) /\ ReadOk(o) \in AnswersTo(o)
BY DEF AnswersTo, Results

\* An answer to a read at o, if it succeeded, is what o holds.
LEMMA AnswerIsFresh ==
    ASSUME NEW o \in Offsets, NEW answer \in AnswersTo(o), answer.kind = "ok"
    PROVE  answer = ReadOk(o)
BY DEF AnswersTo, Failed

\* What is read begins where the source stands and ends within the device.
LEMMA AdvanceInDevice ==
    ASSUME position \in Offsets, NEW answer \in AnswersTo(position)
    PROVE  Advance(answer) \in Offsets
<1>1. Size \in Nat
  BY DeviceAssumption
<1>2. CASE answer.data = NoOffset
  BY <1>2 DEF Advance
<1>3. CASE answer.data # NoOffset
  <2>1. answer = ReadOk(position) /\ position # Size
    BY <1>3 DEF AnswersTo, Failed, ReadOk
  <2> QED
    BY <1>1, <1>3, <2>1 DEF Advance, Offsets
<1> QED
  BY <1>2, <1>3

\* What read_at() returns and leaves behind is typed.
LEMMA ReturnTypes ==
    ASSUME TypeOK, NEW result \in Results, ReturnWith(result)
    PROVE  /\ call' \in [at : CallLabels, off : Offsets \cup {NoOffset}, reply : Results]
           /\ outcome' \in [off : Offsets \cup {NoOffset}, result : Results]
BY DEF TypeOK, ReturnWith, NoCall, CallLabels, Results

----------------------------------------------------------------------------
(* The caller's steps                                                      *)

\* A call begins where the source stands, on a reader at rest; one that has
\* failed answers at once.
LEMMA ReadAtKeeps ==
    ASSUME IInv, ReadAt
    PROVE  IInv'
<1> USE DEF IInv, ReadAt, NoCall
<1>1. TypeOK'
  <2>1. CASE reader.failure # "none"
    BY <2>1 DEF TypeOK, Results
  <2>2. CASE reader.failure = "none"
    <3>1. call' = [at |-> "start", off |-> position, reply |-> Failed]
      BY <2>2
    <3>2. call' \in [at : CallLabels, off : Offsets \cup {NoOffset}, reply : Results]
      BY <3>1 DEF TypeOK, CallLabels, Results
    <3> QED
      BY <2>2, <3>2 DEF TypeOK
  <2> QED
    BY <2>1, <2>2
<1>2. CallsAreHealthy' /\ AtRest'
  BY DEF CallsAreHealthy, AtRest, Healthy, TypeOK
<1>3. call'.at \in {"idle", "start"} /\ (outcome' = outcome \/ outcome'.result = Failed)
  <2>1. CASE reader.failure # "none"
    BY <2>1
  <2>2. CASE reader.failure = "none"
    BY <2>2
  <2> QED
    BY <2>1, <2>2
<1>4. InTransit' /\ Received' /\ WorkerInDevice' /\ FreshData'
  BY <1>3 DEF InTransit, Received, WorkerInDevice, FreshData, Failed
<1> QED
  BY <1>1, <1>2, <1>4

\* A call that is given up takes the reader with it: whatever it leaves in a
\* channel or with the worker, no call will follow.
LEMMA GiveUpKeeps ==
    ASSUME IInv, GiveUp
    PROVE  IInv'
<1> USE DEF IInv, GiveUp
<1>1. TypeOK'
  <2>1. Reason \in Failures /\ Failed \in Results
    BY DEF Reason, Failures, Results
  <2> QED
    BY <2>1, ReturnTypes DEF TypeOK
<1>2. ~Healthy' /\ call'.at = "idle" /\ outcome'.result = Failed
  BY DEF Healthy, Reason, ReturnWith, NoCall, TypeOK
<1>3. CallsAreHealthy' /\ AtRest' /\ InTransit' /\ Received' /\ FreshData'
  BY <1>2 DEF CallsAreHealthy, AtRest, InTransit, Received, FreshData, Failed
<1>4. WorkerInDevice'
  BY DEF WorkerInDevice
<1> QED
  BY <1>1, <1>3, <1>4

\* The request goes out with the offset of the call, or the reader fails
\* because its worker is gone.
LEMMA SendRequestKeeps ==
    ASSUME IInv, SendRequest
    PROVE  IInv'
<1> USE DEF IInv, SendRequest
<1>0. /\ call.off \in Offsets /\ requests = <<>> /\ replies = <<>>
      /\ worker.at \in {"recv", "ended"}
  BY DEF CallsAreHealthy, AtRest
<1>1. CASE worker.at = "ended"
  <2>1. reader' = [reader EXCEPT !.buffer = FALSE, !.failure = "BrokenPipe"] /\ ReturnWith(Failed)
    BY <1>1
  <2>2. ~Healthy' /\ call'.at = "idle" /\ outcome'.result = Failed
    BY <2>1 DEF Healthy, ReturnWith, NoCall, TypeOK
  <2>3. TypeOK'
    <3>1. reader' \in [failure : Failures, sender : BOOLEAN, buffer : BOOLEAN, alive : BOOLEAN]
      BY <2>1 DEF TypeOK, Failures
    <3>2. Failed \in Results
      BY DEF Results
    <3> QED
      BY <1>1, <2>1, <3>1, <3>2, ReturnTypes DEF TypeOK
  <2>4. CallsAreHealthy' /\ AtRest' /\ InTransit' /\ Received' /\ FreshData'
    BY <2>2 DEF CallsAreHealthy, AtRest, InTransit, Received, FreshData, Failed
  <2>5. WorkerInDevice'
    BY DEF WorkerInDevice
  <2> QED
    BY <2>3, <2>4, <2>5
<1>2. CASE worker.at # "ended"
  <2>1. /\ call' = [call EXCEPT !.at = "loop"]
        /\ reader' = [reader EXCEPT !.buffer = FALSE]
        /\ requests' = <<call.off>> /\ replies' = <<>>
        /\ UNCHANGED <<position, worker, halt, outcome>>
    BY <1>0, <1>2
  <2>2. TypeOK'
    <3>1. requests' \in Seq(Offsets) /\ Len(requests') <= 1
      BY <1>0, <2>1
    <3>2. replies' \in Seq(Results) /\ Len(replies') <= 1
      BY <2>1
    <3>3. /\ call' \in [at : CallLabels, off : Offsets \cup {NoOffset}, reply : Results]
          /\ reader' \in [failure : Failures, sender : BOOLEAN, buffer : BOOLEAN, alive : BOOLEAN]
      BY <2>1 DEF TypeOK, CallLabels
    <3> QED
      BY <2>1, <3>1, <3>2, <3>3 DEF TypeOK
  <2>3. CallsAreHealthy'
    BY <2>1 DEF CallsAreHealthy, Healthy, TypeOK
  <2>4. InTransit'
    BY <1>0, <1>2, <2>1 DEF InTransit, Requested, TypeOK
  <2>5. AtRest' /\ Received' /\ WorkerInDevice' /\ FreshData'
    BY <2>1 DEF AtRest, Received, WorkerInDevice, FreshData, TypeOK
  <2> QED
    BY <2>2, <2>3, <2>4, <2>5
<1> QED
  BY <1>1, <1>2

\* check_stop() finds nothing, and the call goes on waiting.
LEMMA CheckAndWaitKeeps ==
    ASSUME IInv, CheckAndWait
    PROVE  IInv'
<1> USE DEF IInv, CheckAndWait
<1>1. TypeOK' /\ CallsAreHealthy'
  BY DEF TypeOK, CallLabels, CallsAreHealthy, Healthy
<1>2. InTransit'
  BY DEF TypeOK, InTransit, Requested, Served, Answered, Lost
<1>3. AtRest' /\ Received' /\ WorkerInDevice' /\ FreshData'
  BY DEF TypeOK, AtRest, Received, WorkerInDevice, FreshData
<1> QED
  BY <1>1, <1>2, <1>3

\* recv_timeout(): the answer that arrives is the one to this call; the reader
\* whose worker is gone fails; and after a timeout the request is where it was.
LEMMA RecvTimeoutKeeps ==
    ASSUME IInv, RecvTimeout
    PROVE  IInv'
<1> USE DEF IInv
<1>0. /\ call.at = "recv" /\ call.off \in Offsets
      /\ UNCHANGED <<position, requests, worker, halt, stop, expired, timed>>
  BY DEF RecvTimeout, CallsAreHealthy
<1>1. CASE /\ replies # <<>>
           /\ call' = [call EXCEPT !.at = "got", !.reply = Head(replies)]
           /\ replies' = Tail(replies)
           /\ UNCHANGED <<reader, outcome>>
  <2>1. Answered
    BY <1>0, <1>1 DEF InTransit, Requested, Served, Lost
  <2>2. PICK answer \in AnswersTo(call.off) : replies = <<answer>>
    BY <2>1 DEF Answered
  <2>3. replies' = <<>> /\ call' = [call EXCEPT !.at = "got", !.reply = answer]
    BY <1>1, <2>2
  <2>4. answer \in Results
    BY <1>0, AnswerTypes
  <2>5. TypeOK'
    <3>1. replies' \in Seq(Results) /\ Len(replies') <= 1
      BY <2>3
    <3>2. call' \in [at : CallLabels, off : Offsets \cup {NoOffset}, reply : Results]
      BY <2>3, <2>4 DEF TypeOK, CallLabels
    <3> QED
      BY <1>0, <1>1, <3>1, <3>2 DEF TypeOK
  <2>6. Received'
    BY <1>0, <2>1, <2>3 DEF Received, Answered, TypeOK
  <2>7. CallsAreHealthy' /\ AtRest' /\ InTransit'
    BY <1>0, <1>1, <2>3 DEF CallsAreHealthy, Healthy, AtRest, InTransit, TypeOK
  <2>8. WorkerInDevice' /\ FreshData'
    BY <1>0, <1>1 DEF WorkerInDevice, FreshData
  <2> QED
    BY <2>5, <2>6, <2>7, <2>8
<1>2. CASE /\ replies = <<>> /\ worker.at = "ended"
           /\ reader' = [reader EXCEPT !.failure = "BrokenPipe"]
           /\ ReturnWith(Failed)
           /\ UNCHANGED replies
  <2>1. ~Healthy' /\ call'.at = "idle" /\ outcome'.result = Failed
    BY <1>2 DEF Healthy, ReturnWith, NoCall, TypeOK
  <2>2. TypeOK'
    <3>1. reader' \in [failure : Failures, sender : BOOLEAN, buffer : BOOLEAN, alive : BOOLEAN]
      BY <1>2 DEF TypeOK, Failures
    <3>2. Failed \in Results
      BY DEF Results
    <3> QED
      BY <1>0, <1>2, <3>1, <3>2, ReturnTypes DEF TypeOK
  <2>3. CallsAreHealthy' /\ AtRest' /\ InTransit' /\ Received' /\ FreshData'
    BY <2>1 DEF CallsAreHealthy, AtRest, InTransit, Received, FreshData, Failed
  <2>4. WorkerInDevice'
    BY <1>0 DEF WorkerInDevice
  <2> QED
    BY <2>2, <2>3, <2>4
<1>3. CASE /\ replies = <<>> /\ worker.at # "ended"
           /\ call' = [call EXCEPT !.at = "loop"]
           /\ UNCHANGED <<reader, replies, outcome>>
  <2>1. TypeOK' /\ CallsAreHealthy'
    BY <1>0, <1>3 DEF TypeOK, CallLabels, CallsAreHealthy, Healthy
  <2>2. InTransit'
    BY <1>0, <1>3 DEF TypeOK, InTransit, Requested, Served, Answered, Lost
  <2>3. AtRest' /\ Received' /\ WorkerInDevice' /\ FreshData'
    BY <1>0, <1>3 DEF TypeOK, AtRest, Received, WorkerInDevice, FreshData
  <2> QED
    BY <2>1, <2>2, <2>3
<1> QED
  BY <1>1, <1>2, <1>3 DEF RecvTimeout

\* The answer is returned for the offset it was asked for, the source moves past
\* it, and the reader is at rest again.
LEMMA DeliverKeeps ==
    ASSUME IInv, Deliver
    PROVE  IInv'
<1> USE DEF IInv, Deliver
<1>1. /\ call.off \in Offsets /\ position = call.off
      /\ call.reply \in AnswersTo(call.off)
      /\ requests = <<>> /\ replies = <<>> /\ worker.at = "recv"
  BY DEF CallsAreHealthy, Received
<1>2. TypeOK'
  <2>1. position' \in Offsets /\ call.reply \in Results
    BY <1>1, AdvanceInDevice, AnswerTypes
  <2> QED
    BY <2>1, ReturnTypes DEF TypeOK
<1>3. CallsAreHealthy' /\ AtRest'
  BY <1>1 DEF CallsAreHealthy, AtRest, Healthy, ReturnWith, NoCall, TypeOK
<1>4. InTransit' /\ Received' /\ WorkerInDevice'
  BY <1>1 DEF InTransit, Received, WorkerInDevice, ReturnWith, NoCall
<1>5. FreshData'
  BY <1>1, AnswerIsFresh DEF FreshData, ReturnWith
<1> QED
  BY <1>2, <1>3, <1>4, <1>5

\* A reader is dropped between calls.
LEMMA DropReaderKeeps ==
    ASSUME IInv, DropReader
    PROVE  IInv'
<1> USE DEF IInv, DropReader
<1>1. TypeOK'
  BY DEF TypeOK
<1>2. CallsAreHealthy' /\ AtRest'
  BY DEF CallsAreHealthy, AtRest, Healthy, TypeOK
<1>3. InTransit' /\ Received' /\ WorkerInDevice' /\ FreshData'
  BY DEF InTransit, Received, WorkerInDevice, FreshData
<1> QED
  BY <1>1, <1>2, <1>3

----------------------------------------------------------------------------
(* The worker's steps                                                      *)

\* A step of the worker that keeps the request where the call expects it is
\* all it takes: the rest of the invariant is about the caller.
LEMMA WorkerStepKeeps ==
    ASSUME IInv, WorkerOnly, TypeOK', AtRest', InTransit', Received', WorkerInDevice'
    PROVE  IInv'
BY DEF IInv, WorkerOnly, CallsAreHealthy, Healthy, FreshData

\* The worker takes the request, or ends with the sender.
LEMMA WorkerRecvKeeps ==
    ASSUME IInv, WorkerRecv
    PROVE  IInv'
<1> USE DEF IInv, WorkerRecv
<1>1. CASE requests # <<>>
  <2>1. /\ requests' = Tail(requests) /\ UNCHANGED replies
        /\ worker' = [worker EXCEPT !.at = IF halt THEN "ended" ELSE "seek", !.off = Head(requests)]
    BY <1>1
  <2>2. requests' = <<>> /\ Head(requests) \in Offsets
    BY <1>1, <2>1 DEF TypeOK
  <2>3. TypeOK' /\ WorkerInDevice'
    <3>1. requests' \in Seq(Offsets) /\ Len(requests') <= 1
      BY <2>2
    <3> QED
      BY <2>1, <2>2, <3>1 DEF TypeOK, WorkerInDevice, WorkerLabels, WorkerOnly
  <2>4. InTransit'
    <3> SUFFICES ASSUME call.at \in {"loop", "recv"} PROVE Served'
      BY DEF InTransit, WorkerOnly
    <3>1. requests = <<call.off>> /\ replies = <<>> /\ ~halt
      BY <1>1 DEF InTransit, Requested, Served, Answered, Lost, CallsAreHealthy
    <3> QED
      BY <2>1, <2>2, <3>1 DEF Served, WorkerOnly, TypeOK
  <2>5. AtRest' /\ Received'
    BY <1>1 DEF AtRest, Healthy, Received, WorkerOnly
  <2> QED
    BY <2>3, <2>4, <2>5, WorkerStepKeeps
<1>2. CASE requests = <<>> /\ ~reader.sender
  <2>1. worker' = [worker EXCEPT !.at = "ended"] /\ UNCHANGED <<requests, replies>>
    BY <1>2
  <2>2. call.at = "idle"
    BY <1>2 DEF CallsAreHealthy
  <2>3. TypeOK' /\ WorkerInDevice'
    BY <2>1 DEF TypeOK, WorkerInDevice, WorkerLabels, WorkerOnly
  <2>4. AtRest' /\ InTransit' /\ Received'
    BY <2>1, <2>2 DEF AtRest, Healthy, InTransit, Received, WorkerOnly, TypeOK
  <2> QED
    BY <2>3, <2>4, WorkerStepKeeps
<1> QED
  BY <1>1, <1>2

\* Between its receipt and its answer the worker has the request of a call that
\* waits, unless the reader failed or was dropped meanwhile.
LEMMA ServedCall ==
    ASSUME IInv, worker.at \in {"seek", "read", "send"}
    PROVE  /\ call.at \in {"loop", "recv"} => Served
           /\ call.at # "got"
           /\ call.at \in {"idle", "start"} => ~Healthy
BY DEF IInv, InTransit, Requested, Answered, Lost, AtRest, Received

\* The seek fails or is overtaken by a halt, or the read is next.
LEMMA WorkerSeekKeeps ==
    ASSUME IInv, WorkerSeek
    PROVE  IInv'
<1> USE DEF IInv, WorkerSeek
<1>1. /\ UNCHANGED <<requests, replies>>
      /\ \/ worker' = [worker EXCEPT !.at = "send", !.result = Failed]
         \/ worker' = [worker EXCEPT !.at = "read"]
  OBVIOUS
<1>2. TypeOK' /\ WorkerInDevice'
  <2>1. Failed \in Results
    BY DEF Results
  <2> QED
    BY ZenonT(30), <1>1, <2>1 DEF TypeOK, WorkerInDevice, WorkerLabels, WorkerOnly
<1>3. InTransit'
  <2> SUFFICES ASSUME call.at \in {"loop", "recv"} PROVE Served'
    BY DEF InTransit, WorkerOnly
  <2>1. Served
    BY ServedCall
  <2> QED
    BY <1>1, <2>1 DEF Served, WorkerOnly, TypeOK, AnswersTo
<1>4. AtRest' /\ Received'
  BY ServedCall DEF AtRest, Healthy, Received, WorkerOnly, TypeOK, CallLabels
<1> QED
  BY <1>2, <1>3, <1>4, WorkerStepKeeps

\* The read yields an error or what its own offset holds.
LEMMA WorkerReadKeeps ==
    ASSUME IInv, WorkerRead
    PROVE  IInv'
<1> USE DEF IInv, WorkerRead
<1>1. PICK result \in AnswersTo(worker.off) :
         worker' = [worker EXCEPT !.at = "send", !.result = result]
  BY DEF AnswersTo
<1>2. result \in Results
  BY <1>1, AnswerTypes DEF WorkerInDevice
<1>3. TypeOK' /\ WorkerInDevice'
  BY <1>1, <1>2 DEF TypeOK, WorkerInDevice, WorkerLabels, WorkerOnly
<1>4. InTransit'
  <2> SUFFICES ASSUME call.at \in {"loop", "recv"} PROVE Served'
    BY DEF InTransit, WorkerOnly
  <2>1. Served
    BY ServedCall
  <2> QED
    BY <1>1, <2>1 DEF Served, WorkerOnly, TypeOK
<1>5. AtRest' /\ Received'
  BY ServedCall DEF AtRest, Healthy, Received, WorkerOnly, TypeOK, CallLabels
<1> QED
  BY <1>3, <1>4, <1>5, WorkerStepKeeps

\* The answer goes to the call that waits for it; a worker that was shut down
\* keeps it and ends.
LEMMA WorkerSendKeeps ==
    ASSUME IInv, WorkerSend
    PROVE  IInv'
<1> USE DEF IInv, WorkerSend
<1>1. CASE halt \/ ~reader.alive
  <2>1. worker' = [worker EXCEPT !.at = "ended"] /\ UNCHANGED <<requests, replies>>
    BY <1>1
  <2>2. call.at = "idle"
    BY <1>1 DEF CallsAreHealthy
  <2>3. TypeOK' /\ WorkerInDevice'
    BY <2>1 DEF TypeOK, WorkerInDevice, WorkerLabels, WorkerOnly
  <2>4. AtRest' /\ InTransit' /\ Received'
    BY <2>1, <2>2, ServedCall DEF AtRest, Healthy, InTransit, Received, WorkerOnly, TypeOK
  <2> QED
    BY <2>3, <2>4, WorkerStepKeeps
<1>2. CASE ~(halt \/ ~reader.alive)
  <2>1. /\ replies = <<>> /\ replies' = <<worker.result>>
        /\ worker' = [worker EXCEPT !.at = "recv"] /\ UNCHANGED requests
    BY <1>2
  <2>2. TypeOK' /\ WorkerInDevice'
    <3>1. replies' \in Seq(Results) /\ Len(replies') <= 1
      BY <2>1 DEF TypeOK
    <3> QED
      BY <2>1, <3>1 DEF TypeOK, WorkerInDevice, WorkerLabels, WorkerOnly
  <2>3. InTransit'
    <3> SUFFICES ASSUME call.at \in {"loop", "recv"} PROVE Answered'
      BY DEF InTransit, WorkerOnly
    <3>1. worker.result \in AnswersTo(call.off) /\ requests = <<>>
      BY ServedCall DEF Served
    <3>2. replies' = <<worker.result>> /\ requests' = <<>> /\ worker'.at = "recv"
      BY <2>1, <3>1 DEF TypeOK
    <3> QED
      BY <3>1, <3>2 DEF Answered, WorkerOnly, AnswersTo
  <2>4. AtRest' /\ Received'
    BY ServedCall DEF AtRest, Healthy, Received, WorkerOnly, TypeOK, CallLabels
  <2> QED
    BY <2>2, <2>3, <2>4, WorkerStepKeeps
<1> QED
  BY <1>1, <1>2

\* A worker that panics takes the request with it.
LEMMA WorkerPanicsKeeps ==
    ASSUME IInv, WorkerPanics
    PROVE  IInv'
<1> USE DEF IInv, WorkerPanics
<1>1. TypeOK' /\ WorkerInDevice'
  BY DEF TypeOK, WorkerInDevice, WorkerLabels, WorkerOnly
<1>2. InTransit'
  <2> SUFFICES ASSUME call.at \in {"loop", "recv"} PROVE Lost'
    BY DEF InTransit, WorkerOnly
  <2> QED
    BY ServedCall DEF Served, Lost, TypeOK
<1>3. AtRest' /\ Received'
  BY ServedCall DEF AtRest, Healthy, Received, WorkerOnly, TypeOK, CallLabels
<1> QED
  BY <1>1, <1>2, <1>3, WorkerStepKeeps

----------------------------------------------------------------------------
(* Invariance                                                              *)

\* A reader starts at rest.
LEMMA InitIInv == Init => IInv
<1> SUFFICES ASSUME Init PROVE IInv
  OBVIOUS
<1>1. TypeOK
  <2>1. 0 \in Offsets
    BY DeviceAssumption DEF Offsets
  <2>2. Failed \in Results
    BY DEF Results
  <2>3. /\ <<>> \in Seq(Offsets) /\ Len(<<>>) <= 1
        /\ <<>> \in Seq(Results)
    OBVIOUS
  <2>4. /\ requests \in Seq(Offsets) /\ Len(requests) <= 1
        /\ replies \in Seq(Results) /\ Len(replies) <= 1
    BY <2>3 DEF Init
  <2>5. /\ call \in [at : CallLabels, off : Offsets \cup {NoOffset}, reply : Results]
        /\ worker \in [at : WorkerLabels, off : Offsets \cup {NoOffset}, result : Results]
        /\ outcome \in [off : Offsets \cup {NoOffset}, result : Results]
    BY <2>2 DEF Init, NoCall, CallLabels, WorkerLabels
  <2>6. reader \in [failure : Failures, sender : BOOLEAN, buffer : BOOLEAN, alive : BOOLEAN]
    BY DEF Init, Failures
  <2> QED
    BY <2>1, <2>4, <2>5, <2>6 DEF Init, TypeOK
<1>2. CallsAreHealthy /\ AtRest /\ InTransit /\ Received /\ WorkerInDevice /\ FreshData
  BY DEF Init, NoCall, CallsAreHealthy, Healthy, AtRest, InTransit, Received,
         WorkerInDevice, FreshData, Failed
<1> QED
  BY <1>1, <1>2 DEF IInv

\* Every step of the caller, the worker, the operator and the clock keeps the
\* invariant.
LEMMA NextIInv == IInv /\ [Next]_vars => IInv'
<1> SUFFICES ASSUME IInv, [Next]_vars PROVE IInv'
  OBVIOUS
<1> USE DEF CallsAreHealthy, Healthy, AtRest, InTransit, Requested, Served, Answered, Lost,
            Received, WorkerInDevice, FreshData
<1>1. ASSUME NEW o \in Offsets, Seek(o) PROVE IInv'
  BY <1>1 DEF IInv, Seek, TypeOK
<1>2. CASE Stop
  BY <1>2 DEF IInv, Stop, TypeOK
<1>3. CASE Expire
  BY ZenonT(30), <1>3 DEF IInv, Expire, TypeOK
<1>4. CASE ReadAt \/ DropReader
  BY <1>4, ReadAtKeeps, DropReaderKeeps
<1>5. CASE CallerStep
  BY <1>5, GiveUpKeeps, SendRequestKeeps, CheckAndWaitKeeps, RecvTimeoutKeeps, DeliverKeeps
     DEF CallerStep
<1>6. CASE WorkerStep \/ WorkerPanics
  BY <1>6, WorkerRecvKeeps, WorkerSeekKeeps, WorkerReadKeeps, WorkerSendKeeps, WorkerPanicsKeeps
     DEF WorkerStep
<1>7. CASE UNCHANGED vars
  BY <1>7 DEF IInv, vars, TypeOK
<1> QED
  BY <1>1, <1>2, <1>3, <1>4, <1>5, <1>6, <1>7 DEF Next

\* The invariant holds throughout.
LEMMA Invariance == Spec => []IInv
<1> QED
  BY InitIInv, NextIInv, PTL DEF Spec

\* Whatever a read returns as data is the data of the offset it asked for:
\* Reader::read_at never takes the answer to a request it gave up for the answer
\* to a later one.
THEOREM ReadsAreFresh == Spec => []FreshData
<1>1. IInv => FreshData
  BY DEF IInv
<1> QED
  BY Invariance, <1>1, PTL

\* read_at(), "healthy reader owns its buffer": between calls a reader that has
\* not failed has its buffer back, and nothing is under way with its worker.
THEOREM BufferCorrect == Spec => []HealthyOwnsBuffer
<1>1. IInv => HealthyOwnsBuffer
  BY DEF IInv, AtRest, Healthy, HealthyOwnsBuffer
<1> QED
  BY Invariance, <1>1, PTL
=============================================================================
