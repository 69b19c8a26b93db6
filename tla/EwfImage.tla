------------------------------ MODULE EwfImage ------------------------------
(***************************************************************************)
(* Images, from the bytes a caller writes to the bytes a reader gets back: *)
(* one of the two writers makes a set of segment files, image.rs opens     *)
(* them, and EwfWriter::resume() may start a new writer from them.         *)
(*                                                                         *)
(* Publishing the files is Publication.tla's; here they appear at once.    *)
(***************************************************************************)
EXTENDS EwfSpool, SequentialWriter, EwfReader

VARIABLES phase,   \* who has the image: "spool", "sequential", "closed"
          disk,    \* the segment files, in order, if no writer has the image
          written, \* the media and the options the image on disk is made from
          outcome  \* of the last finish: "none", "done", "next", "failed", or the
                   \* check that refused it, "refused" or "overlong"

Nothing == [media |-> <<>>, options |-> None]

imageVars == <<phase, disk, written, outcome>>
vars == <<imageVars, spoolVars, seqVars>>

\* The ranges of sessions have to end where the media does; they are left out.
ASSUME ImageAssumption ==
    \A c \in Configs : c.sections \cap {"session", "sessions"} = {}

----------------------------------------------------------------------------
(* EwfWriter::finish_with_terminal_section()                               *)

Contexts(groups, terminal) ==
    [i \in DOMAIN groups |->
        [number |-> i, first |-> i = 1,
         firstChunk |-> TotalOf([j \in 1..(i - 1) |-> Len(groups[j])]),
         total |-> ChunkCount, sectors |-> LogicalSize \div SectorGrains,
         digests |-> i = Len(groups) /\ terminal = "done",
         terminal |-> IF i = Len(groups) THEN terminal
                      ELSE IF IsEwf2(options.format) THEN "next" ELSE "done"]]

FileOf(chunks, context) ==
    IF IsEwf2(options.format) THEN Ewf2Segment(chunks, options, context)
    ELSE Ewf1Segment(chunks, options, context)
SpoolFiles(groups, contexts) == [i \in DOMAIN groups |-> FileOf(groups[i], contexts[i])]

TablesFit(groups) ==
    IsEwf2(options.format) \/
        \A chunks \in ToSet(groups) : \A table \in ToSet(TableGroups(chunks)) :
            EntriesFit(table)

Publish(terminal, files, media, o) ==
    /\ outcome' = terminal
    /\ disk' = files
    /\ written' = [media |-> media, options |-> o]
Fail(why) == outcome' = why /\ UNCHANGED <<disk, written>>

\* A finish consumes its writer.
SpoolGone == raw' = [g \in Grains |-> Zero] /\ remembered' = [c \in Chunks |-> None]
             /\ position' = 0 /\ inputSize' = 0 /\ aborted' = FALSE
             /\ UNCHANGED <<options, calls>>
SequentialGone == taken' = <<>> /\ pending' = <<>> /\ group' = <<>> /\ staged' = <<>>
                  /\ poisoned' = "no" /\ UNCHANGED <<settings, perSegment>>

\* finish() and finish_incomplete(), once the chunks are in groups
Write(groups, terminal) ==
    IF aborted THEN Fail("failed")
    ELSE IF ~TablesFit(groups) THEN Fail("refused")
    ELSE Publish(terminal, SpoolFiles(groups, Contexts(groups, terminal)),
                 [i \in 1..LogicalSize |-> raw[i - 1]], options)
FinishSpool(terminal) ==
    /\ phase = "spool" /\ phase' = "closed"
    /\ Write(SegmentGroups(EncodedChunks, options), terminal)
    /\ SpoolGone
    /\ UNCHANGED seqVars

\* SequentialWriter::finish(): the last segment is staged and all are published,
\* unless an operation on a file fails.
WriteSequential(segments) ==
    IF poisoned # "no" \/ Len(taken) # settings.source THEN Fail("failed")
    ELSE \/ Fail("failed")
         \/ IF Stageable(Last(segments), Len(segments), TRUE)
            THEN Publish("done", SeqFiles(segments), taken \o Padding, opts)
            ELSE Fail(StageRefusal(Last(segments)))
FinishSequential ==
    /\ phase = "sequential" /\ phase' = "closed"
    /\ WriteSequential(SeqSegments)
    /\ SequentialGone
    /\ UNCHANGED spoolVars

----------------------------------------------------------------------------
(* EwfWriter::resume()                                                     *)

\* rewrite_options_from_image_info(): what the image does not say is gone.
ResumedOptions(image) ==
    [format |-> image.profile, chunk |-> image.chunk, compression |-> image.method,
     emptyBlock |-> TRUE, limit |-> 0, media |-> 0, sections |-> written.options.sections]

\* The chunks of the image are written, encoded, to a new writer.
ResumeFrom(image, chunks, o) ==
    /\ options' = o
    /\ raw' = [g \in Grains |->
                 IF g >= image.size THEN Zero
                 ELSE chunks[(g \div o.chunk) + 1].data[(g % o.chunk) + 1]]
    /\ remembered' = [c \in Chunks |->
                        IF c < Len(chunks) THEN Remembered(chunks[c + 1], c * o.chunk, o)
                        ELSE None]
    /\ position' = image.size /\ inputSize' = image.size
    /\ aborted' = FALSE

ResumeImage(image) ==
    image.ok /\ ResumeFrom(image, ChunksIn(disk, image), ResumedOptions(image))
Resume ==
    /\ phase = "closed" /\ outcome \in {"done", "next"}
    /\ phase' = "spool" /\ outcome' = "none"
    /\ ResumeImage(Open(disk))
    /\ disk' = <<>> /\ written' = Nothing
    /\ UNCHANGED <<calls, seqVars>>

----------------------------------------------------------------------------

SpoolStep == phase = "spool" /\ SpoolNext /\ UNCHANGED <<imageVars, seqVars>>
SequentialStep == phase = "sequential" /\ SeqNext /\ UNCHANGED <<imageVars, spoolVars>>

Init ==
    /\ disk = <<>> /\ outcome = "none"
    /\ written = Nothing
    /\ \/ /\ phase = "spool"
          /\ \E c \in Configs : SpoolInit(c)
          /\ SeqInit(CHOOSE s \in Settings : TRUE)
       \/ /\ phase = "sequential"
          /\ \E s \in Settings : SeqInit(s)
          /\ SpoolInit(CHOOSE c \in Configs : TRUE)

Next ==
    \/ SpoolStep
    \/ SequentialStep
    \/ \E terminal \in {"done", "next"} : FinishSpool(terminal)
    \/ FinishSequential
    \/ Resume

Spec == Init /\ [][Next]_vars

----------------------------------------------------------------------------
(* Properties                                                              *)

\* The image a finish leaves opens, has the size of what was written, rounded
\* up to a sector, reads as what was written, and is complete exactly if it was
\* finished so (finish_with_terminal_section, SequentialWriter::finish,
\* Image::open_segment_sources, Image::read_chunk), and no image is refused for
\* a chunk too far behind the base of its table (append_ewf1_table_data).
ReadsAs(image, media) ==
    /\ image.ok
    /\ image.size = Len(media)
    /\ image.complete = (outcome = "done")
    /\ MediaOf(ChunksIn(disk, image)) = media
RoundTrip ==
    /\ outcome \in {"done", "next"} => ReadsAs(Open(disk), written.media)
    /\ outcome # "refused" /\ poisoned # "refused"

\* sequential.rs:383-385 of the estimate that fixes how many chunks a segment
\* gets: it uses "the largest encoded EWF1 chunk", "include[s] final digest
\* sections" and "leaves room for all first/last metadata".  So no segment that
\* gets no more chunks than that is refused for its length.
LeavesRoom == poisoned # "overlong" /\ outcome # "overlong"

\* Fewer segment files than were written do not open, whichever they are and in
\* whatever order: they are never taken for a shorter image
\* (Image::open_segment_sources, LazyChunkIndex::new).
MissingSegmentRefused ==
    \A n \in 0..(Len(disk) - 1) : \A from \in [1..n -> DOMAIN disk] :
        ~Open([i \in 1..n |-> disk[from[i]]]).ok

\* No segment of more than one chunk is longer than the configured maximum
\* (segment_groups, SequentialWriter::stage_group).
SegmentsWithinLimit ==
    LET limit == written.options.limit
        data(file) == {at \in DOMAIN file.at : file.at[at].is = "chunk"}
    IN  outcome \in {"done", "next"} /\ limit # 0 =>
            \A i \in DOMAIN disk :
                Cardinality(data(disk[i])) > 1 => disk[i].length <= limit
=============================================================================
