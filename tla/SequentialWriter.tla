-------------------------- MODULE SequentialWriter --------------------------
(***************************************************************************)
(* src/writer/sequential.rs: a writer that is told the size of the media   *)
(* beforehand, takes it in order, and stages a segment file as soon as its *)
(* chunks are there.  Where segments end is decided before any data comes, *)
(* so a size limit on them is kept by what chunks could come to at worst.  *)
(*                                                                         *)
(* What is staged is kept as the chunks of each segment; StagedFile is the *)
(* file they were written to.                                              *)
(***************************************************************************)
EXTENDS EwfLayout

CONSTANTS Settings,    \* SequentialOptions: [options, source, requested]
          Pieces,      \* what one write_all() brings
          SizingXHash  \* payload bytes of an xhash section of zero digests

VARIABLES settings, \* what the writer was created with
          perSegment, \* chunks of a segment
          taken,    \* the media accepted so far; its length is the position
          pending,  \* the grains of a chunk not complete yet
          group,    \* the encoded chunks of the current segment: the scratch
          staged,   \* the segments staged, as their chunks
          poisoned  \* "no", or by what: "input", "io", or a check of stage_group()

seqVars == <<settings, perSegment, taken, pending, group, staged, poisoned>>

ASSUME SequentialAssumption ==
    /\ SizingXHash \in Nat
    /\ Pieces \subseteq Seq(Values)
    /\ \A s \in Settings :
          /\ s.source \in Nat /\ s.requested \in Nat \ {0}
          /\ s.options.format \in {"ewf1", "ewf2"} /\ s.options.chunk \in Nat \ {0}
          /\ IsEwf2(s.options.format) => s.options.limit = 0

opts == settings.options
Sectors == (settings.source + SectorGrains - 1) \div SectorGrains
Total == (Sectors * SectorGrains + opts.chunk - 1) \div opts.chunk

\* The estimate segment_chunk_limit() makes for count chunks of size bytes
SizedSegment(count, size, o) ==
    EstimateEwf1(count, count * size, 1, o, [SectionSize EXCEPT !["xhash"] = SizingXHash])

\* segment_chunk_limit().  The search finds the last count whose estimate is
\* within the limit: the estimate grows with the count.
SegmentChunkLimit(s) ==
    LET fitting == {n \in 2..s.requested :
                      SizedSegment(n, s.options.chunk * Grain + 4, s.options)
                          <= s.options.limit}
    IN  IF s.options.limit = 0 THEN s.requested ELSE Max(fitting \cup {1})

----------------------------------------------------------------------------
(* stage_group()                                                           *)

StagedFile(chunks, number, last) ==
    IF IsEwf2(opts.format)
    THEN Ewf2Segment(chunks, opts, [number |-> number,
                                 firstChunk |-> (number - 1) * perSegment,
                                 sectors |-> Sectors,
                                 terminal |-> IF last THEN "done" ELSE "next"])
    ELSE Ewf1Segment(chunks, opts, [number |-> number, total |-> Total, sectors |-> Sectors,
                                 first |-> number = 1, digests |-> last,
                                 terminal |-> "done"])

\* The checks of stage_group(): no table entry overflows, and the limit is kept.
TableEntriesFit(chunks) == \A table \in ToSet(TableGroups(chunks)) : EntriesFit(table)
Stageable(chunks, number, last) ==
    ~IsEwf2(opts.format) =>
        /\ TableEntriesFit(chunks)
        /\ \/ opts.limit = 0 \/ Len(chunks) <= 1
           \/ StagedFile(chunks, number, last).length <= opts.limit
\* Which of them refuses these chunks
StageRefusal(chunks) == IF TableEntriesFit(chunks) THEN "overlong" ELSE "refused"

----------------------------------------------------------------------------
(* The writer.  What a call leaves is [pending, group, staged, ok], if every *)
(* segment it completes can be written; ok says that none was refused.      *)

Current == [pending |-> pending, group |-> group, staged |-> staged, ok |-> TRUE]

\* encode_batch(), of one chunk: a full segment is staged, unless it is the last.
Push(state, chunks) ==
    IF Len(chunks) = perSegment /\ Len(state.staged) * perSegment + Len(chunks) < Total
    THEN [state EXCEPT !.group = <<>>, !.staged = Append(@, chunks),
                       !.ok = @ /\ Stageable(chunks, Len(state.staged) + 1, FALSE)]
    ELSE [state EXCEPT !.group = chunks]
Encode(state, data) == Push(state, Append(state.group, EncodeChunk(data, opts)))

\* the grains of one write, cut into chunks
Take(state, grain) ==
    LET held == Append(state.pending, grain)
    IN  IF Len(held) = opts.chunk THEN Encode([state EXCEPT !.pending = <<>>], held)
        ELSE [state EXCEPT !.pending = held]

TakeAll(data) ==
    LET upTo[n \in 0..Len(data)] == IF n = 0 THEN Current ELSE Take(upTo[n - 1], data[n])
    IN  upTo[Len(data)]

SeqInit(s) ==
    /\ settings = s /\ perSegment = SegmentChunkLimit(s)
    /\ taken = <<>> /\ pending = <<>> /\ group = <<>> /\ staged = <<>>
    /\ poisoned = "no"

\* The n-th segment is the first that is not staged: publication.stage(),
\* Group::new() or the writing in stage_group() fails, before the group is
\* replaced or after, or one of the checks does.
StagingFails(state, n) ==
    /\ \A i \in (Len(staged) + 1)..(n - 1) : Stageable(state.staged[i], i, FALSE)
    /\ staged' = SubSeq(state.staged, 1, n - 1)
    /\ \/ poisoned' = "io" /\ group' \in {state.staged[n], <<>>}
       \/ /\ ~Stageable(state.staged[n], n, FALSE)
          /\ poisoned' = StageRefusal(state.staged[n]) /\ group' = <<>>

\* write_all(): whatever fails leaves the writer poisoned.
Become(state) ==
    /\ pending' = state.pending
    /\ \/ /\ state.ok /\ poisoned' = "no"
          /\ group' = state.group /\ staged' = state.staged
       \/ \E n \in (Len(staged) + 1)..Len(state.staged) : StagingFails(state, n)
SeqWriteAll(data) ==
    /\ poisoned = "no"
    /\ UNCHANGED <<settings, perSegment>>
    /\ IF Len(taken) + Len(data) > settings.source
       THEN poisoned' = "input" /\ UNCHANGED <<taken, pending, group, staged>>
       ELSE taken' = taken \o data /\ Become(TakeAll(data))

SeqNext == \E data \in Pieces : SeqWriteAll(data)

\* finish(): the last sector is filled with zeroes.  The chunk this makes is the
\* last of the image, so encode_batch() stages nothing.
Padding == [i \in 1..(Sectors * SectorGrains - Len(taken)) |-> Zero]
LastChunk(padded) == IF padded = <<>> THEN <<>> ELSE <<EncodeChunk(padded, opts)>>
SeqSegments == Append(staged, group \o LastChunk(pending \o Padding))
SeqFiles(segments) ==
    [i \in DOMAIN segments |-> StagedFile(segments[i], i, i = Len(segments))]
=============================================================================
