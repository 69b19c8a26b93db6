---------------------------- MODULE Acquisition ----------------------------
(***************************************************************************)
(* src/writer/acquisition.rs with acquisition/source.rs and                *)
(* acquisition/checkpoint.rs: the append-only E01 writer whose segments    *)
(* are sealed one by one in the directory `.ewf-acquisition', so that an   *)
(* acquisition can be stopped or killed anywhere and resumed.              *)
(*                                                                         *)
(* Offsets count sectors.  Sector s of the source (from 1) holds the value *)
(* s and a substituted sector holds Zero, so a value out of place shows.   *)
(* A segment file is a record of what it stores; its SHA256 in a           *)
(* checkpoint record is that record itself, and a media hash is the        *)
(* sequence that was hashed.                                               *)
(***************************************************************************)
EXTENDS Integers, Sequences, SequencesExt, LruOrder

CONSTANTS Size,        \* sectors of the source, source_size
          ChunkSectors,\* sectors_per_chunk
          SegChunks,   \* chunks_per_segment
          BulkChunks,  \* chunks in one bulk read
          MaxSegs,     \* segment names E01 can express
          MaxRanges,   \* maximum_error_ranges
          Intervals,   \* values of checkpoint_interval, 0 for none
          WriteSizes,  \* sectors in one low-level write
          Faults       \* TRUE when writing to the destination may fail

ASSUME AcquisitionAssumption ==
    /\ {Size, ChunkSectors, SegChunks, BulkChunks, MaxSegs, MaxRanges} \subseteq Nat \ {0}
    /\ \A i \in Intervals : i \in Nat /\ i % ChunkSectors = 0
    /\ WriteSizes \subseteq 1..Size
    /\ Faults \in BOOLEAN

VARIABLES w,      \* AcquisitionWriter, the fields that survive a call
          call,   \* the call in progress and its local variables
          dir,    \* the state directory
          out     \* out[k]: the file at the output path of segment k

vars == <<w, call, dir, out>>

Zero == 0
NoFile == [kind |-> "none"]
Foreign == [kind |-> "foreign"]
SegNames == 1..MaxSegs

\* A sealed segment: its part of the media, its table of substituted ranges,
\* and, in the last one, the hash of the whole media.
Segment(media, errors, final, hash) ==
    [kind |-> "segment", media |-> media, errors |-> errors, final |-> final, hash |-> hash]

Closed == [open |-> FALSE, offset |-> 0, pending |-> <<>>, spool |-> <<>>, chunks |-> 0,
           hashed |-> <<>>, sealed |-> <<>>, errors |-> <<>>, failed |-> FALSE]
Idle == [pc |-> "idle", back |-> "idle", mode |-> "loop", left |-> 0,
         policy |-> "stop", interval |-> 0, final |-> FALSE, result |-> "ok"]
NoDir == [exists |-> FALSE, staged |-> <<>>, records |-> <<>>, publishing |-> FALSE]

CeilDiv(a, b) == (a + b - 1) \div b
Least(a, b) == IF a <= b THEN a ELSE b

EndOf(seals) == IF seals = <<>> THEN 0 ELSE Last(seals).end
checkpoint_offset == EndOf(w.sealed)

----------------------------------------------------------------------------
(* Ranges of substituted sectors, [first, count] from sector 0.            *)

RangeEnd(r) == r.first + r.count
Covered(errors) == UNION {r.first + 1 .. RangeEnd(r) : r \in Range(errors)}

\* record_substitution: extend the last range or open a new one.
Extends(errors, sector) == errors # <<>> /\ RangeEnd(Last(errors)) = sector
RecordSubstitution(errors, sector) ==
    IF Extends(errors, sector)
    THEN [errors EXCEPT ![Len(errors)].count = @ + 1]
    ELSE Append(errors, [first |-> sector, count |-> 1])

\* Faulty variant: the table also names sectors behind the seal.
ClipNothing(errors, end) == errors
\* The ranges a segment that ends at sector `end' may speak of.
Clip(errors, end) ==
    LET kept == Keep(errors, {i \in DOMAIN errors : errors[i].first < end})
    IN  [i \in DOMAIN kept |->
            [first |-> kept[i].first, count |-> Least(RangeEnd(kept[i]), end) - kept[i].first]]

\* normalize_errors, on a table that is sorted as every table written here is:
\* merge each range with the one before it when they touch.
Merge(done, r) ==
    IF done # <<>> /\ r.first <= RangeEnd(Last(done))
    THEN LET end == IF RangeEnd(r) >= RangeEnd(Last(done)) THEN RangeEnd(r) ELSE RangeEnd(Last(done))
         IN  [done EXCEPT ![Len(done)].count = end - Last(done).first]
    ELSE Append(done, r)
Normalize(errors) ==
    LET merged[n \in 0..Len(errors)] ==
            IF n = 0 THEN <<>> ELSE Merge(merged[n-1], errors[n])
    IN  merged[Len(errors)]

----------------------------------------------------------------------------
(* create, resume and the end of a writer                                  *)

\* ensure_output_absent()
OutputAbsent == \A k \in SegNames : out[k] = NoFile

\* The directory appears by one rename, complete.
Create ==
    /\ ~w.open /\ ~dir.exists /\ OutputAbsent
    /\ dir' = [NoDir EXCEPT !.exists = TRUE]
    /\ w' = [Closed EXCEPT !.open = TRUE]
    /\ call' = Idle
    /\ UNCHANGED out

\* load_checkpoint(): the conditions under which it accepts the directory.
Geometry(seals) ==
    \A k \in DOMAIN seals :
        LET end == seals[k].end
            previous == IF k = 1 THEN 0 ELSE seals[k-1].end
        IN  /\ previous < end /\ end <= Size
            /\ end < Size => end % ChunkSectors = 0
            /\ CeilDiv(end - previous, ChunkSectors) <= SegChunks

Loadable ==
    LET seals == dir.records
    IN  /\ Geometry(seals)
        /\ Len(seals) <= Len(dir.staged)
        /\ \A k \in DOMAIN seals : dir.staged[k] = seals[k].digest
        /\ dir.publishing => EndOf(seals) = Size
        /\ seals # <<>> =>
              /\ Last(seals).digest.final = (EndOf(seals) = Size)
              /\ \A r \in Range(Last(seals).digest.errors) : RangeEnd(r) <= EndOf(seals)

\* The media that decoding the sealed prefix yields.
Media(seals) ==
    LET decoded[n \in 0..Len(seals)] ==
            IF n = 0 THEN <<>> ELSE decoded[n-1] \o seals[n].digest.media
    IN  decoded[Len(seals)]

\* Faulty variant: the media hash starts over.
ResumedUnhashed(seals) ==
    [Closed EXCEPT !.open = TRUE, !.offset = EndOf(seals), !.sealed = seals,
                   !.errors = IF seals = <<>> THEN <<>> ELSE Normalize(Last(seals).digest.errors)]
\* resume(): the state of a writer that has accepted the sealed prefix only.
Resumed(seals) ==
    [Closed EXCEPT !.open = TRUE, !.offset = EndOf(seals), !.hashed = Media(seals),
                   !.sealed = seals,
                   !.errors = IF seals = <<>> THEN <<>> ELSE Normalize(Last(seals).digest.errors)]

\* Faulty variant: off by one, an acknowledged segment goes.
DiscardLast(d) ==
    IF EndOf(d.records) < Size
    THEN [d EXCEPT !.staged = SubSeq(@, 1, Len(d.records) - 1)] ELSE d
\* The segment behind it, if any, was never acknowledged and is removed.
DiscardUnsealed(d) ==
    IF EndOf(d.records) < Size
    THEN [d EXCEPT !.staged = SubSeq(@, 1, Len(d.records))] ELSE d

Resume ==
    /\ ~w.open /\ dir.exists /\ Loadable
    /\ dir.publishing \/ OutputAbsent
    /\ w' = Resumed(dir.records)
    /\ dir' = DiscardUnsealed(dir)
    /\ call' = Idle
    /\ UNCHANGED out

\* The writer is dropped, or its process killed in the middle of a call.
Drop ==
    /\ w.open
    /\ w' = Closed /\ call' = Idle
    /\ UNCHANGED <<dir, out>>

----------------------------------------------------------------------------
(* append and seal                                                         *)

\* The chunk being filled, with `sectors' behind it, becomes a chunk of the
\* spool once it is full or the source ends.
ChunkComplete(pending, offset) == Len(pending) = ChunkSectors \/ offset = Size
Appended(sectors) ==
    LET pending == w.pending \o sectors
        offset == w.offset + Len(sectors)
    IN  IF ChunkComplete(pending, offset)
        THEN [w EXCEPT !.offset = offset, !.pending = <<>>, !.spool = @ \o pending,
                       !.chunks = @ + 1, !.hashed = @ \o pending]
        ELSE [w EXCEPT !.offset = offset, !.pending = pending]

\* After accepting sectors: seal a full segment, then go on at `back'.
SealOr(writer, back, label) ==
    IF writer.pending = <<>> /\ (writer.chunks = SegChunks \/ writer.offset = Size)
    THEN [call EXCEPT !.pc = "seal", !.final = (writer.offset = Size), !.back = back]
    ELSE [call EXCEPT !.pc = label]

\* Write::write of n sectors by the caller; input behind the declared end is
\* an error that poisons the writer.
Write(n) ==
    /\ w.open /\ call.pc = "idle" /\ ~w.failed
    /\ IF w.offset = Size
       THEN w' = [w EXCEPT !.failed = TRUE] /\ UNCHANGED call
       ELSE LET take == Least(n, Least(ChunkSectors - Len(w.pending), Size - w.offset))
                sectors == [i \in 1..take |-> w.offset + i]
            IN  /\ w' = Appended(sectors)
                /\ call' = SealOr(Appended(sectors), "idle", "idle")
    /\ UNCHANGED <<dir, out>>

\* checkpoint(), called for itself or at `label': seals what is spooled.
SealSpooled(label) ==
    call' = IF w.chunks > 0
            THEN [call EXCEPT !.pc = "seal", !.final = FALSE, !.back = label]
            ELSE [call EXCEPT !.pc = label]

Checkpoint ==
    /\ w.open /\ call.pc = "idle" /\ ~w.failed
    /\ w.chunks > 0
    /\ SealSpooled("idle")
    /\ UNCHANGED <<w, dir, out>>

SealedEnd == w.offset - Len(w.pending)

\* seal(), first half: the segment file is persisted under its name.
SealSegment ==
    /\ call.pc = "seal"
    /\ Len(w.sealed) < MaxSegs /\ Len(dir.staged) = Len(w.sealed)
    /\ dir' = [dir EXCEPT !.staged = Append(@,
                  Segment(w.spool, Clip(w.errors, SealedEnd), call.final,
                          IF call.final THEN w.hashed ELSE <<>>))]
    /\ call' = [call EXCEPT !.pc = "record"]
    /\ UNCHANGED <<w, out>>

\* Faulty variant: the record counts the pending sectors.
SealRecordPosition ==
    /\ call.pc = "record"
    /\ dir' = [dir EXCEPT !.records = Append(@, [end |-> w.offset, digest |-> Last(dir.staged)])]
    /\ call' = [call EXCEPT !.pc = "sealed"]
    /\ UNCHANGED <<w, out>>
\* Second half: the checkpoint record, and with it the acknowledgement.
SealRecord ==
    /\ call.pc = "record"
    /\ dir' = [dir EXCEPT !.records = Append(@, [end |-> SealedEnd, digest |-> Last(dir.staged)])]
    /\ call' = [call EXCEPT !.pc = "sealed"]
    /\ UNCHANGED <<w, out>>

Sealed ==
    /\ call.pc = "sealed"
    /\ w' = [w EXCEPT !.sealed = Append(@, Last(dir.records)), !.spool = <<>>, !.chunks = 0]
    /\ call' = [call EXCEPT !.pc = call.back]
    /\ UNCHANGED <<dir, out>>

\* No segment name left, or the spool, the segment file or its record cannot
\* be written: the writer is poisoned.
DestinationFails ==
    /\ w.open /\ ~w.failed
    /\ \/ Faults /\ call.pc \in {"idle", "batch", "sectors", "seal", "record", "sealed"}
       \/ call.pc = "seal" /\ Len(w.sealed) = MaxSegs
    /\ w' = [w EXCEPT !.failed = TRUE]
    /\ call' = [Idle EXCEPT !.result = "error"]
    /\ UNCHANGED <<dir, out>>

----------------------------------------------------------------------------
(* acquire_with_progress                                                   *)

\* A call is refused when the remaining segments could not be named.
Acquire(policy, interval) ==
    /\ w.open /\ call.pc = "idle" /\ ~w.failed
    /\ Len(w.errors) <= MaxRanges
    /\ LET most == ChunkSectors * SegChunks
           step == IF interval = 0 THEN most ELSE Least(interval, most)
       IN  Len(w.sealed) + CeilDiv(Size - checkpoint_offset, step) <= MaxSegs
    /\ call' = [Idle EXCEPT !.pc = "loop", !.policy = policy, !.interval = interval]
    /\ UNCHANGED <<w, dir, out>>

Returns(result) == call' = [call EXCEPT !.pc = "end", !.result = result]

BulkSize ==
    Least(IF w.pending = <<>> THEN ChunkSectors * BulkChunks ELSE ChunkSectors - Len(w.pending),
          Size - w.offset)

AcquireDone ==
    /\ call.pc = "loop" /\ w.offset = Size
    /\ Returns("complete")
    /\ UNCHANGED <<w, dir, out>>

\* A bulk read succeeds; append_healthy_batch() takes it only at a chunk
\* boundary.
BulkRead ==
    /\ call.pc = "loop" /\ w.offset < Size /\ BulkSize > 1
    /\ IF w.pending = <<>>
       THEN call' = [call EXCEPT !.pc = "batch", !.mode = "batch", !.left = BulkSize]
       ELSE Returns("rejected")
    /\ UNCHANGED <<w, dir, out>>

\* It fails, or is not worth trying: the same range sector by sector.
BulkFails ==
    /\ call.pc = "loop" /\ w.offset < Size
    /\ call' = [call EXCEPT !.pc = "sectors", !.mode = "sectors", !.left = BulkSize]
    /\ UNCHANGED <<w, dir, out>>

AppendChunk ==
    /\ call.pc = "batch"
    /\ LET sectors == [i \in 1..Least(ChunkSectors, call.left) |-> w.offset + i]
           next == SealOr(Appended(sectors), "after", "after")
       IN  /\ w' = Appended(sectors)
           /\ call' = [next EXCEPT !.left = @ - Len(sectors)]
    /\ UNCHANGED <<dir, out>>

AppendSector(value) ==
    LET next == SealOr(Appended(<<value>>), "after", "after")
    IN  call' = [next EXCEPT !.left = @ - 1]

SectorRead ==
    /\ call.pc = "sectors"
    /\ w' = Appended(<<w.offset + 1>>)
    /\ AppendSector(w.offset + 1)
    /\ UNCHANGED <<dir, out>>

\* Unreadable after every retry: stop, or substitute zeroes and say so, unless
\* the table of ranges is full.
SectorUnreadable ==
    /\ call.pc = "sectors"
    /\ \/ /\ call.policy = "stop" \/ (Len(w.errors) >= MaxRanges /\ ~Extends(w.errors, w.offset))
          /\ Returns("error")
          /\ UNCHANGED w
       \/ /\ call.policy = "zero"
          /\ Extends(w.errors, w.offset) \/ Len(w.errors) < MaxRanges
          /\ w' = [Appended(<<Zero>>) EXCEPT !.errors = RecordSubstitution(w.errors, w.offset)]
          /\ AppendSector(Zero)
    /\ UNCHANGED <<dir, out>>

\* after_source_write(): an early checkpoint when the interval is reached.
AfterSourceWrite ==
    /\ call.pc = "after"
    /\ IF call.interval > 0 /\ w.offset - checkpoint_offset >= call.interval
       THEN SealSpooled("notify")
       ELSE call' = [call EXCEPT !.pc = "notify"]
    /\ UNCHANGED <<w, dir, out>>

Continue ==
    /\ call.pc = "notify"
    /\ call' = [call EXCEPT !.pc = IF call.left > 0 THEN call.mode ELSE "loop"]
    /\ UNCHANGED <<w, dir, out>>

\* The callback breaks at any report, or a read fails for good.
Cancel ==
    /\ call.pc \in {"loop", "sectors", "notify"}
    /\ \/ Returns("cancelled")
       \/ call.pc # "notify" /\ w.offset < Size /\ Returns("error")
    /\ UNCHANGED <<w, dir, out>>

\* Whatever the outcome, full chunks are checkpointed before the call returns.
AcquireReturns ==
    /\ call.pc = "end"
    /\ SealSpooled("idle")
    /\ UNCHANGED <<w, dir, out>>

----------------------------------------------------------------------------
(* finish                                                                  *)

\* The writer is consumed: from here every error or cancellation is a Drop.
Finish ==
    /\ w.open /\ call.pc = "idle" /\ ~w.failed
    /\ checkpoint_offset = Size
    /\ \A k \in DOMAIN w.sealed : dir.staged[k] = w.sealed[k].digest
    /\ dir.publishing \/ OutputAbsent
    /\ dir' = [dir EXCEPT !.publishing = TRUE]
    /\ call' = [Idle EXCEPT !.pc = "check"]
    /\ UNCHANGED <<w, out>>

NoUnexpectedOutput ==
    /\ call.pc = "check"
    /\ \A k \in SegNames : k > Len(w.sealed) => out[k] = NoFile
    /\ call' = [call EXCEPT !.pc = "link", !.left = 1]
    /\ UNCHANGED <<w, dir, out>>

\* Faulty variant: an existing file is taken for the segment.
LinkOverExisting ==
    /\ call.pc = "link" /\ call.left <= Len(w.sealed)
    /\ out' = [out EXCEPT ![call.left] = IF @ = NoFile THEN dir.staged[call.left] ELSE @]
    /\ call' = [call EXCEPT !.left = @ + 1]
    /\ UNCHANGED <<w, dir>>
\* hard_link never replaces; what is there already must be the same segment.
Link ==
    /\ call.pc = "link" /\ call.left <= Len(w.sealed)
    /\ out[call.left] \in {NoFile, w.sealed[call.left].digest}
    /\ out' = [out EXCEPT ![call.left] = dir.staged[call.left]]
    /\ call' = [call EXCEPT !.left = @ + 1]
    /\ UNCHANGED <<w, dir>>

Retire ==
    /\ call.pc = "link" /\ call.left > Len(w.sealed)
    /\ dir' = NoDir
    /\ w' = Closed /\ call' = [Idle EXCEPT !.result = "published"]
    /\ UNCHANGED out

\* Somebody else creates a file where an output segment would go.
Intrude(k) ==
    /\ out[k] = NoFile
    /\ out' = [out EXCEPT ![k] = Foreign]
    /\ UNCHANGED <<w, call, dir>>

Init ==
    /\ w = Closed /\ call = Idle /\ dir = NoDir
    /\ out = [k \in SegNames |-> NoFile]

AcquireNext ==
    \/ \E policy \in {"stop", "zero"}, interval \in Intervals : Acquire(policy, interval)
    \/ AcquireDone \/ BulkRead \/ BulkFails \/ AppendChunk \/ SectorRead \/ SectorUnreadable
    \/ AfterSourceWrite \/ Continue \/ Cancel \/ AcquireReturns

Next ==
    \/ Create \/ Resume \/ Drop
    \/ \E n \in WriteSizes : Write(n)
    \/ Checkpoint \/ SealSegment \/ SealRecord \/ Sealed \/ DestinationFails
    \/ AcquireNext
    \/ Finish \/ NoUnexpectedOutput \/ Link \/ Retire
    \/ \E k \in SegNames : Intrude(k)

Spec == Init /\ [][Next]_vars

----------------------------------------------------------------------------
(* Properties                                                              *)

MediaType == Seq(0..Size)
ErrorsType == Seq([first : 0..Size, count : 1..Size])
SegmentType == [kind : {"segment"}, media : MediaType, errors : ErrorsType,
                final : BOOLEAN, hash : MediaType]
SealType == [end : 1..Size, digest : SegmentType]

\* Offsets stay within the source and every file is one the writer can produce.
TypeOK ==
    /\ w \in [open : BOOLEAN, offset : 0..Size, pending : MediaType, spool : MediaType,
              chunks : 0..SegChunks, hashed : MediaType, sealed : Seq(SealType),
              errors : ErrorsType, failed : BOOLEAN]
    /\ call \in [pc : {"idle", "seal", "record", "sealed", "loop", "batch", "sectors", "after",
                       "notify", "end", "check", "link"},
                 back : {"idle", "after", "notify"}, mode : {"loop", "batch", "sectors"},
                 left : 0..(Size + 1), policy : {"stop", "zero"}, interval : Intervals \cup {0},
                 final : BOOLEAN,
                 result : {"ok", "error", "complete", "cancelled", "rejected", "published"}]
    /\ dir \in [exists : BOOLEAN, staged : Seq(SegmentType), records : Seq(SealType),
                publishing : BOOLEAN]
    /\ out \in [SegNames -> SegmentType \cup {NoFile, Foreign}]

\* Every value where the source has it, and zeroes only where the table says.
Exact(media, errors) ==
    /\ \A i \in DOMAIN media : media[i] = IF i \in Covered(errors) THEN Zero ELSE i
    /\ Covered(errors) \subseteq DOMAIN media

\* Killed at any instant, an acquisition leaves a directory that resume()
\* accepts.
AlwaysResumable == dir.exists => Loadable

\* The sealed prefix holds the source's sectors in place, up to the recorded
\* offset, and the table in its last segment names exactly the sectors that
\* were substituted; the state has its types.
SealedPrefixExact ==
    /\ TypeOK
    /\ dir.exists =>
          /\ Len(Media(dir.records)) = EndOf(dir.records)
          /\ dir.records # <<>> => Exact(Media(dir.records), Last(dir.records).digest.errors)

\* An offset the writer has acknowledged survives it: checkpoints on disk only
\* grow, and no step touches a segment behind one.
SealedImmutable ==
    [][dir.exists /\ dir'.exists =>
         /\ IsPrefix(w.sealed, dir.records)
         /\ IsPrefix(dir.records, dir'.records)
         /\ IsPrefix(SubSeq(dir.staged, 1, Len(dir.records)), dir'.staged)]_vars

\* Without a state directory, a first segment written here stands for a whole
\* image: each segment up to the final one is in place, together they hold the
\* source, and the stored hash and error table are those of that media.
PublishedExact ==
    (~dir.exists /\ out[1].kind = "segment") =>
        \E n \in SegNames :
            /\ \A k \in 1..n : out[k].kind = "segment" /\ (out[k].final <=> k = n)
            /\ LET media == Media([k \in 1..n |-> [digest |-> out[k]]])
               IN  /\ Len(media) = Size
                   /\ Exact(media, out[n].errors)
                   /\ out[n].hash = media

\* docs/acquisition.md:133-136: after a cancellation "a partial chunk remains in
\* the open writer. Either continue writing, or drop the writer and resume",
\* and source failures "leave the writer usable": no acquire call on a healthy
\* writer ends by rejecting its own batch of good data.
ContinuesAfterPartialChunk == call.result # "rejected"
=============================================================================
