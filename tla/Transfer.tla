------------------------------ MODULE Transfer ------------------------------
(***************************************************************************)
(* crates/ewf-cli/src/transfer.rs with prefetch.rs, and what main.rs makes *)
(* of their result: `convert' and `acquire' copy one source to a new EWF,  *)
(* AFF4 or raw output, `verify' hashes a raw file.  A device or an EWF     *)
(* image is read ahead by a thread that exchanges two buffers with the     *)
(* copying thread.  The copy is hashed as it is taken, compared with what  *)
(* is known of the source, and read back from the output.                  *)
(*                                                                         *)
(* The writers are those of SequentialWriter.tla and Aff4Volume.tla, the   *)
(* publication of an EWF output is Publication.tla's, and a device read    *)
(* is DeviceReader.tla's call; here each is the outcomes it may have.      *)
(* Commands.tla runs it with the other commands.                           *)
(***************************************************************************)
EXTENDS Cli, Integers, Sequences, SequencesExt

CONSTANTS Size,        \* pieces of the source
          BufferSize,  \* pieces in a buffer, BUFFER_BYTES
          Buffers,     \* BUFFERS
          Hanging,     \* device offsets whose read may only return when stopped
          Transfers    \* the transfers that are run

ASSUME TransferAssumption ==
    /\ Size \in Nat \ {0} /\ BufferSize \in Nat \ {0} /\ Buffers \in Nat \ {0}
    /\ Hanging \subseteq 0..Size
    /\ Transfers \subseteq [kind : {"device", "ewf", "aff4", "raw"}, \* of the source
                            target : {"ewf", "aff4", "raw", "none"},
                            reference : {"none", "match", "differ"}] \* its digest

VARIABLES changed,  \* the piece of the source that was changed under the transfer, or 0
          touched,  \* the metadata or device identity is not the one of the open
          expected, \* the pieces the verification of an AFF4 source found
          taken,    \* the pieces hashed, Reading.done of them
          staged,   \* the pieces of the output so far, as they will be read back
          ahead,    \* prefetch::Reader and its channels
          producer  \* the read-ahead thread

sourceVars == <<changed, touched>>
copyVars == <<expected, taken, staged>>
readerVars == <<ahead, producer>>
transferVars == <<sourceVars, copyVars, readerVars>>

IsTransfer == job.kind \in {"device", "ewf", "aff4", "raw"}

\* Piece i of the source as it was, as it is after a change, and one that was
\* not stored as written.
Piece(i) == IF i = changed THEN Size + i ELSE i
Bad == 0
Pieces(from, n) == [i \in 1..n |-> Piece(from + i)]
Whole == [i \in 1..Size |-> i]
Least(a, b) == IF a <= b THEN a ELSE b

\* Does a digest of these pieces equal the source's reference, if it has one?
Agrees(pieces) ==
    CASE job.reference = "none"   -> TRUE
      [] job.reference = "match"  -> pieces = Whole
      [] job.reference = "differ" -> FALSE

ReadAhead == job.kind \in {"device", "ewf"}

OnlyMain == UNCHANGED <<jobVars, output, transferVars>>

----------------------------------------------------------------------------
(* prefetch.rs: the read-ahead thread                                      *)

\* A result: pieces, none of them at the end, or an error.
Error == [ok |-> FALSE, data |-> <<>>]
Ok(pieces) == [ok |-> TRUE, data |-> pieces]
Terminal(result) == ~result.ok \/ result.data = <<>>

NoThread == [at |-> "ended", offset |-> 0, result |-> Error]
NoReader == [free |-> 0, filled |-> <<>>, current |-> <<>>, held |-> FALSE]
NewReader == [NoReader EXCEPT !.free = Buffers]

OnlyProducer == UNCHANGED <<cliVars, sourceVars, copyVars>>
Dropped == Over

ProducerRecv ==
    /\ producer.at = "recv"
    /\ \/ /\ ahead.free > 0
          /\ ahead' = [ahead EXCEPT !.free = @ - 1]
          /\ producer' = [producer EXCEPT !.at = "read"]
       \/ /\ ahead.free = 0 /\ Dropped
          /\ producer' = [producer EXCEPT !.at = "ended"]
          /\ UNCHANGED ahead
    /\ OnlyProducer

\* acquire(), struct Checked: the read that reaches the size of the device also
\* checks its identity, and no read past it reaches the device.
CheckedRead(from, n) ==
    IF job.kind = "device" /\ n > 0 /\ from + n = Size /\ touched
    THEN Error ELSE Ok(Pieces(from, n))

\* Is the thread in the driver, with the device locked?
\* Faulty variant: it also reads past the end.
InDriverAtEnd == job.kind = "device" /\ producer.at = "read"
InDriver == job.kind = "device" /\ producer.at = "read" /\ producer.offset < Size

\* source.read(): some pieces, none at the end, which may come early, or an
\* error; a device read that was stopped is an error too.
ProducerRead ==
    LET left == Size - producer.offset
        full == IF left < BufferSize THEN left ELSE BufferSize
    IN  /\ producer.at = "read"
        /\ \/ \E n \in 0..full :
                producer' = [producer EXCEPT !.at = "send", !.offset = @ + n,
                                             !.result = CheckedRead(producer.offset, n)]
           \/ producer' = [producer EXCEPT !.at = "send", !.result = Error]
        /\ UNCHANGED ahead
        /\ OnlyProducer

ProducerSend ==
    /\ producer.at = "send"
    /\ IF Dropped THEN UNCHANGED ahead
       ELSE Len(ahead.filled) < Buffers
            /\ ahead' = [ahead EXCEPT !.filled = Append(@, producer.result)]
    /\ producer' = [producer EXCEPT !.at = IF Dropped \/ Terminal(producer.result)
                                            THEN "ended" ELSE "recv"]
    /\ OnlyProducer

ProducerStep == ProducerRecv \/ ProducerRead \/ ProducerSend

----------------------------------------------------------------------------
(* read_source() and the start of transfer()                               *)

\* Opening the source fails, or the command goes on from `at'; sources that are
\* slow to read are read ahead.
Open(at) ==
    /\ main.at = "start"
    /\ \/ Failing(1) /\ UNCHANGED readerVars
       \/ /\ output = "absent"
          /\ Goto(IF job.target = "none" THEN "copy" ELSE at)
          /\ ahead' = IF ReadAhead THEN NewReader ELSE NoReader
          /\ producer' = IF ReadAhead THEN [NoThread EXCEPT !.at = "recv"] ELSE NoThread
    /\ UNCHANGED <<jobVars, output, sourceVars, copyVars>>

StartAcquire == job.kind = "device" /\ Open("preflight")
StartRaw == job.kind = "raw" /\ Open("preflight")
StartEwf == job.kind = "ewf" /\ Open("preflight")
StartAff4 == job.kind = "aff4" /\ Open("preverify")
Start == StartAcquire \/ StartRaw \/ StartEwf \/ StartAff4

\* An AFF4 source is verified first; its digest is what the copy has to give.
Preverify ==
    /\ main.at = "preverify"
    /\ IF stop THEN Failing(1) /\ UNCHANGED expected
       ELSE IF ~Agrees(Pieces(0, Size)) THEN Failing(3) /\ UNCHANGED expected
       ELSE \/ Goto("preflight") /\ expected' = Pieces(0, Size)
            \/ Failing(1) /\ UNCHANGED expected
    /\ UNCHANGED <<jobVars, output, sourceVars, taken, staged, readerVars>>

\* ctx.check("preflight"), then the writer is created.
Preflight ==
    /\ main.at = "preflight"
    /\ IF stop \/ (output # "absent" /\ job.target = "aff4") THEN Failing(1) ELSE Goto("copy")
    /\ OnlyMain

----------------------------------------------------------------------------
(* Reading::read() and copy()                                              *)

\* What is written may not be what is read back later.
Stored(pieces) == {pieces} \cup {[pieces EXCEPT ![i] = Bad] : i \in DOMAIN pieces}

Take(pieces) ==
    /\ taken' = taken \o pieces
    /\ \E stored \in (IF Bad \in ToSet(staged) THEN {pieces} ELSE Stored(pieces)) :
          staged' = staged \o stored

\* The AFF4 writer asks for a chunk at a time, copy() for a buffer.
Wanted == IF job.target = "aff4" THEN 1 ELSE Least(BufferSize, Size - Len(taken))

CopyEnds ==
    /\ main.at = "copy"
    /\ \/ stop /\ Failing(1)
       \/ ~stop /\ Len(taken) = Size /\ Goto("check")
    /\ OnlyMain

Copying == main.at = "copy" /\ ~stop /\ Len(taken) < Size

\* Raw files and AFF4 disks are read by the copying thread.
CopyDirect ==
    /\ Copying /\ ~ReadAhead
    /\ \/ /\ \E n \in 1..Wanted : Take(Pieces(Len(taken), n))
          /\ UNCHANGED main
       \/ Failing(1) /\ UNCHANGED <<taken, staged>>
    /\ UNCHANGED <<jobVars, output, sourceVars, expected, readerVars>>

\* prefetch::Reader::read() on a buffer not used up yet
CopyBuffered ==
    LET n == Least(Wanted, Len(ahead.current))
    IN  /\ Copying /\ ReadAhead /\ ahead.current # <<>>
        /\ \/ /\ Take(SubSeq(ahead.current, 1, n))
              /\ ahead' = [ahead EXCEPT !.current = SubSeq(@, n + 1, Len(@))]
              /\ UNCHANGED main
           \/ Failing(1) /\ UNCHANGED <<taken, staged, ahead>> \* the write fails
        /\ UNCHANGED <<jobVars, output, sourceVars, expected, producer>>

\* Faulty variant: the buffer is given back before it is used up.
CopyRecycleEarly ==
    /\ Copying /\ ReadAhead
    /\ ahead' = [ahead EXCEPT !.held = FALSE,
                              !.free = IF ahead.held /\ producer.at # "ended" THEN @ + 1 ELSE @]
    /\ Goto("wait")
    /\ UNCHANGED <<jobVars, output, sourceVars, copyVars, producer>>
\* Otherwise the buffer goes back, unless the thread is gone, and the next
\* completion is waited for.
CopyRecycle ==
    /\ Copying /\ ReadAhead /\ ahead.current = <<>>
    /\ ahead' = [ahead EXCEPT !.held = FALSE,
                              !.free = IF ahead.held /\ producer.at # "ended" THEN @ + 1 ELSE @]
    /\ Goto("wait")
    /\ UNCHANGED <<jobVars, output, sourceVars, copyVars, producer>>

\* An error, and also an end: the source has fewer pieces than its size.
CopyRecv ==
    /\ main.at = "wait"
    /\ \/ /\ ahead.filled # <<>>
          /\ LET next == Head(ahead.filled)
             IN  /\ ahead' = [ahead EXCEPT !.filled = Tail(@), !.current = next.data,
                                           !.held = ~Terminal(next)]
                 /\ IF Terminal(next) THEN Failing(1) ELSE Goto("copy")
       \/ /\ ahead.filled = <<>> /\ producer.at = "ended"
          /\ Failing(1) /\ UNCHANGED ahead
    /\ UNCHANGED <<jobVars, output, sourceVars, copyVars, producer>>

----------------------------------------------------------------------------
(* before_finish(), and the end of each kind of output                      *)

\* Faulty variant: the source is not looked at again.
BeforeFinishWithoutIdentity ==
    /\ main.at = "check" /\ job.target # "none"
    /\ IF ~Agrees(taken) THEN Failing(3)
       ELSE IF job.kind = "aff4" /\ taken # expected THEN Failing(1)
       ELSE IF stop THEN Failing(1)
       ELSE main' = [main EXCEPT !.at = IF job.target = "ewf" THEN "finish" ELSE "verify",
                                 !.published = IF job.target = "ewf" THEN "unknown" ELSE @]
    /\ OnlyMain
BeforeFinish ==
    /\ main.at = "check" /\ job.target # "none"
    /\ ~InDriver \* source.check_unchanged() locks the device
    /\ IF touched THEN Failing(1)
       ELSE IF ~Agrees(taken) THEN Failing(3)
       ELSE IF job.kind = "aff4" /\ taken # expected THEN Failing(1)
       ELSE IF stop THEN Failing(1)
       ELSE main' = [main EXCEPT !.at = IF job.target = "ewf" THEN "finish" ELSE "verify",
                                 !.published = IF job.target = "ewf" THEN "unknown" ELSE @]
    /\ OnlyMain

OnlyOutput == UNCHANGED <<jobVars, transferVars>>

\* writer.finish(): the publication commits, or fails on either side of it.
FinishEwf ==
    /\ main.at = "finish"
    /\ \/ /\ output = "absent" /\ output' = "ours"
          /\ main' = [main EXCEPT !.at = "readback", !.published = "yes"]
       \/ /\ output' \in {output} \cup IF output = "absent" THEN {"ours"} ELSE {}
          /\ Failing(1)
    /\ OnlyOutput

\* The end of transfer(): the exit code of a copy, 4 if the output does not hold all
\* the metadata of the source, or there were sectors that could not be acquired.
CopyCodes ==
    IF job.kind = "aff4" \/ (job.kind = "ewf" /\ job.target # "ewf") THEN {4}
    ELSE IF job.kind = "ewf" \/ (job.kind = "device" /\ job.target = "raw") THEN {0, 4} ELSE {0}

\* verify_written_ewf(): the published image is read back.
ReadBack ==
    /\ main.at = "readback"
    /\ IF stop THEN Failing(1)
       ELSE IF staged # taken THEN Failing(3)
       ELSE Failing(1) \/ \E code \in CopyCodes : Exit(code)
    /\ OnlyMain

\* Faulty variant: no check for a stop before the publication.
VerifyStagedUnstopped ==
    /\ main.at = "verify"
    /\ IF staged # taken THEN Failing(3) ELSE Goto("publish") \/ Failing(1)
    /\ OnlyMain
\* finish_verified() of the AFF4 writer, hash_reader() of the raw file: the
\* staged output is read back, with a check for a stop after it.
VerifyStaged ==
    /\ main.at = "verify"
    /\ IF stop THEN Failing(1)
       ELSE IF staged # taken THEN Failing(3)
       ELSE Goto("publish") \/ Failing(1)
    /\ OnlyMain

\* persist_noclobber(), finish_checked() after its check
Persist ==
    /\ main.at = "publish"
    /\ \E code \in CopyCodes : Publish(<<"exit", code>>, <<"failing", 1>>)
    /\ OnlyOutput

\* verify_raw()
VerifyRaw ==
    /\ main.at = "check" /\ job.target = "none"
    /\ IF touched THEN Failing(1)
       ELSE Exit(IF job.reference = "none" THEN 4 ELSE IF Agrees(taken) THEN 0 ELSE 3)
    /\ OnlyMain

CopyStep ==
    \/ Start \/ Preverify \/ Preflight
    \/ CopyEnds \/ CopyDirect \/ CopyBuffered \/ CopyRecycle \/ CopyRecv
    \/ BeforeFinish \/ FinishEwf \/ ReadBack \/ VerifyStaged \/ Persist \/ VerifyRaw

----------------------------------------------------------------------------
(* The environment                                                         *)

Transferring == IsTransfer /\ main.at # "start" /\ ~Over

\* Somebody writes to the source: its metadata show it, a device's do not.
Change(i) ==
    /\ Transferring /\ changed = 0
    /\ changed' = i
    /\ touched' = (touched \/ job.kind # "device")
    /\ UNCHANGED <<cliVars, copyVars, readerVars>>

\* Another device takes the place of the source.
Replaced ==
    /\ Transferring /\ job.kind = "device" /\ ~touched
    /\ touched' = TRUE
    /\ UNCHANGED <<cliVars, changed, copyVars, readerVars>>

BeforeLastTransferCheck ==
    \/ main.at \in {"start", "preverify", "preflight", "copy", "wait"}
    \/ main.at = "check" /\ job.target # "none"
    \/ main.at = "verify"

TransferInit ==
    /\ changed = 0 /\ touched = FALSE
    /\ expected = <<>> /\ taken = <<>> /\ staged = <<>>
    /\ ahead = NoReader /\ producer = NoThread

TransferNext ==
    \/ CopyStep \/ ProducerStep
    \/ \E i \in 1..Size : Change(i)
    \/ Replaced

\* A read of the device returns unless the driver hangs, and then once it is
\* stopped (DeviceReader!CallsReturn).
ProducerRuns == ProducerStep /\ ~(InDriver /\ producer.offset \in Hanging /\ ~stop)

----------------------------------------------------------------------------
(* Properties                                                              *)

\* The copy and the buffers have the types of transfer() and Reader, and the two
\* buffers stay the only ones (prefetch.rs, "Two reusable buffers bound
\* read-ahead").
TransferTypeOK ==
    /\ changed \in 0..Size /\ touched \in BOOLEAN
    /\ taken \in Seq(1..(2 * Size)) /\ Len(taken) <= Size
    /\ staged \in Seq(0..(2 * Size)) /\ Len(staged) = Len(taken)
    /\ ahead.free + Len(ahead.filled) + (IF ahead.held THEN 1 ELSE 0)
         + (IF producer.at \in {"read", "send"} THEN 1 ELSE 0) <= Buffers

\* What is hashed and written are the pieces of the source in order, none left
\* out, repeated or taken from a buffer whose read failed (Reader::read, copy).
CopyInOrder ==
    /\ CliTypeOK /\ TransferTypeOK
    /\ \A i \in DOMAIN taken : taken[i] \in {i, Size + i}

\* docs/ewf-cli.md:97, "Conversion checks the available source integrity
\* references, hashes the transferred bytes, checks source consistency, and
\* verifies the destination": after exit code 0, and after 4 for what could not be
\* preserved or compared, the output is there and reads as the source did when it
\* was opened, whatever changed meanwhile.
CleanExitMeansCopied ==
    IsTransfer /\ Over /\ main.exit \in {0, 4} =>
        /\ Len(taken) = Size /\ Agrees(taken)
        /\ job.kind # "device" => taken = Whole
        /\ job.target # "none" => output = "ours" /\ staged = taken
=============================================================================
