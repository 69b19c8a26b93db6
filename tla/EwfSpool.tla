------------------------------ MODULE EwfSpool ------------------------------
(***************************************************************************)
(* src/writer.rs, EwfWriter while it is being written: a spool of the raw  *)
(* media that writes may fill in any order, and beside it the chunks that  *)
(* came already encoded, kept so that finishing copies them instead of     *)
(* encoding their media again.  A remembered chunk is only right as long   *)
(* as nothing has been written over its media, and as long as the chunks   *)
(* of the image have the size they had when it came.                       *)
(***************************************************************************)
EXTENDS ChunkCodec

CONSTANTS Configs,  \* the options a writer is created with
          Infos,    \* the media values of images, for calls that copy them
          Runs,     \* the media one call brings
          Offsets,  \* where calls seek to or write at
          Limit,    \* grains of media at most: a bound
          MaxCalls, \* calls at most: a bound
          None      \* no remembered chunk

VARIABLES options,    \* WriteOptions
          raw,        \* RawSpool; what was never written reads as zeroes
          remembered, \* encoded_chunks
          position,   \* current_offset
          inputSize,  \* logical_input_size
          aborted,    \* abort_signaled
          calls       \* calls made

spoolVars == <<options, raw, remembered, position, inputSize, aborted, calls>>

Grains == 0..(Limit - 1)
Chunks == 0..Limit

\* WriteOptions, as far as it is modelled
Formats == {"ewf1", "smart", "ewf2"}
Options == [format : Formats, chunk : Nat \ {0}, compression : STRING, emptyBlock : BOOLEAN,
            media : 0..Limit, limit : Nat, sections : SUBSET STRING]

ASSUME SpoolAssumption ==
    /\ Limit \in Nat /\ MaxCalls \in Nat
    /\ Limit % SectorGrains = 0
    /\ Offsets \subseteq Nat
    /\ Configs \subseteq Options
    /\ \A info \in Infos : /\ info.format \in Formats /\ info.compression \in STRING
                           /\ info.chunk \in Nat \ {0} /\ info.media \in 1..Limit
    /\ Runs \subseteq Seq(Values)
    /\ None \notin [encoding : STRING, size : Nat, trailer : STRING, flagged : BOOLEAN,
                    data : Seq(Values)]

\* media_size of 0 stands for none, as normalize_media_size() has it.
Bounded(o) == o.media # 0

SpoolInit(o) ==
    /\ options = o
    /\ raw = [g \in Grains |-> Zero]
    /\ remembered = [c \in Chunks |-> None]
    /\ position = 0
    /\ inputSize = 0
    /\ aborted = FALSE
    /\ calls = 0

Called == calls < MaxCalls /\ calls' = calls + 1

----------------------------------------------------------------------------
(* write_to_current()                                                      *)

\* Faulty variant: the chunk the write ends in is forgotten only if it is the
\* one the write begins in.
OverlapsFirst(c, at, data) == Len(data) > 0 /\ c = at \div options.chunk
\* forget_encoded_chunks_in_range()
Overlaps(c, at, data) ==
    /\ Len(data) > 0
    /\ c >= at \div options.chunk /\ c <= (at + Len(data) - 1) \div options.chunk

Accepts(at, data) ==
    /\ ~aborted
    /\ at + Len(data) <= Limit
    /\ Bounded(options) => at + Len(data) <= options.media

\* What a write of data at grain at leaves, with chunk kept for the media it
\* came from, or None.
Put(at, data, chunk) ==
    /\ raw' = [g \in Grains |-> IF g >= at /\ g < at + Len(data) THEN data[g - at + 1]
                                ELSE raw[g]]
    /\ remembered' = [c \in Chunks |->
                        IF chunk # None /\ c = at \div options.chunk THEN chunk
                        ELSE IF Overlaps(c, at, data) THEN None ELSE remembered[c]]
    /\ position' = at + Len(data)
    /\ inputSize' = IF at + Len(data) > inputSize THEN at + Len(data) ELSE inputSize
    /\ UNCHANGED <<options, aborted>>

\* write_all(), write_buffer() and write_data_chunk()
WriteAll(data) == Called /\ Accepts(position, data) /\ Put(position, data, None)

\* write_at(): the position moves even if the write is then refused.
WriteAt(data, at) ==
    /\ Called /\ ~aborted
    /\ \/ Accepts(at, data) /\ Put(at, data, None)
       \/ /\ Bounded(options) /\ at + Len(data) > options.media
          /\ position' = at
          /\ UNCHANGED <<options, raw, remembered, inputSize, aborted>>

----------------------------------------------------------------------------
(* write_encoded_data_chunk()                                              *)

\* encoded_data_chunk_encoding_compatible()
Compatible(chunk, o) ==
    CASE chunk.encoding = "raw" -> TRUE
      [] chunk.encoding = "zlib" -> o.compression # "bzip2"
      [] chunk.encoding = "bzip2" -> IsEwf2(o.format) /\ o.compression = "bzip2"
      [] chunk.encoding = "pattern" -> IsEwf2(o.format)

\* remembered_encoded_data_chunk()
Remembered(chunk, at, o) ==
    IF /\ at % o.chunk = 0
       /\ Len(chunk.data) <= o.chunk
       /\ Compatible(chunk, o)
       /\ ValidEncodedSize(chunk.size, chunk.encoding, o.chunk)
       /\ chunk.encoding = "raw" /\ chunk.flagged => chunk.trailer = "adler"
    THEN chunk ELSE None

\* The encoded chunks callers have: what an image hands out for a run of media.
\* A flagged raw chunk may have a checksum that is not its data's; one that is
\* not flagged has no trailer.
EncodedInputs ==
    {Raw(data) : data \in Runs}
    \cup {[Raw(data) EXCEPT !.trailer = "junk"] : data \in Runs}
    \cup {[Raw(data) EXCEPT !.trailer = "none", !.flagged = FALSE, !.size = Bytes(data)] :
            data \in Runs}
    \cup {Zlib(data) : data \in Runs}
    \cup {Bzip2(data) : data \in Runs}
    \cup {Pattern(data) : data \in {d \in Runs : Repeats(d)}}

WriteEncoded(chunk) ==
    Called /\ Accepts(position, chunk.data)
    /\ Put(position, chunk.data, Remembered(chunk, position, options))

WriteEncodedAt(chunk, at) ==
    /\ Called /\ ~aborted
    /\ \/ Accepts(at, chunk.data) /\ Put(at, chunk.data, Remembered(chunk, at, options))
       \/ /\ Bounded(options) /\ at + Len(chunk.data) > options.media
          /\ position' = at
          /\ UNCHANGED <<options, raw, remembered, inputSize, aborted>>

\* seek_position() to an offset, or to the end of the media
Seek(at) ==
    /\ Called
    /\ position' = at
    /\ UNCHANGED <<options, raw, remembered, inputSize, aborted>>
MediaEnd == IF Bounded(options) THEN options.media ELSE inputSize

\* set_sectors_per_chunk(), set_bytes_per_sector()
SetChunk(grains) ==
    /\ Called
    /\ inputSize = 0
    /\ options' = [options EXCEPT !.chunk = grains]
    /\ remembered' = [c \in Chunks |-> None]
    /\ UNCHANGED <<raw, position, inputSize, aborted>>

\* copy_media_values_from_info(), of an image that is not empty
CopyMediaValues(info) ==
    /\ Called
    /\ inputSize <= info.media
    /\ options' = [options EXCEPT !.format = info.format, !.chunk = info.chunk,
                                  !.media = info.media, !.compression = info.compression,
                                  !.emptyBlock = TRUE]
    /\ UNCHANGED <<raw, remembered, position, inputSize, aborted>>

\* signal_abort()
SignalAbort ==
    /\ aborted' = TRUE
    /\ UNCHANGED <<options, raw, remembered, position, inputSize, calls>>

SpoolNext ==
    \/ \E data \in Runs : WriteAll(data) \/ \E at \in Offsets : WriteAt(data, at)
    \/ \E chunk \in EncodedInputs :
          WriteEncoded(chunk) \/ \E at \in Offsets : WriteEncodedAt(chunk, at)
    \/ \E at \in Offsets \cup {MediaEnd} : Seek(at)
    \/ \E o \in Configs : SetChunk(o.chunk)
    \/ \E info \in Infos : CopyMediaValues(info)
    \/ SignalAbort

\* The writer as its documentation has it used: the size of a chunk is settled
\* before media is written.
GeometryKept == inputSize > 0 => options'.chunk = options.chunk
SpoolSpec ==
    (\E o \in Configs : SpoolInit(o)) /\ [][SpoolNext /\ GeometryKept]_spoolVars

----------------------------------------------------------------------------
(* prepare_write() and encode_raw_spool()                                  *)

\* padded_logical_size() of target_media_input_size()
LogicalSize == ((MediaEnd + SectorGrains - 1) \div SectorGrains) * SectorGrains
ChunkCount == (LogicalSize + options.chunk - 1) \div options.chunk
ChunkLen(c) == IF LogicalSize - c * options.chunk < options.chunk
               THEN LogicalSize - c * options.chunk ELSE options.chunk
MediaOfChunk(c) == [i \in 1..ChunkLen(c) |-> raw[c * options.chunk + i - 1]]

\* Faulty variant: a chunk that was the last when it came is copied too.
CopyAnyLength(c) ==
    IF remembered[c] # None /\ Compatible(remembered[c], options) THEN remembered[c]
    ELSE EncodeChunk(MediaOfChunk(c), options)
ChunkToWrite(c) ==
    IF /\ remembered[c] # None
       /\ Len(remembered[c].data) = ChunkLen(c)
       /\ Compatible(remembered[c], options)
    THEN remembered[c]
    ELSE EncodeChunk(MediaOfChunk(c), options)
EncodedChunks == [i \in 1..ChunkCount |-> ChunkToWrite(i - 1)]

----------------------------------------------------------------------------
(* Properties                                                              *)

\* The state has its type (EwfWriter).
SpoolTypeOK ==
    /\ options \in Options
    /\ raw \in [Grains -> Values]
    /\ position \in Nat /\ inputSize \in 0..Limit
    /\ aborted \in BOOLEAN /\ calls \in 0..MaxCalls

\* A chunk kept encoded decodes to the media the spool has in its place,
\* whatever was written before it, after it and over it (EwfWriter,
\* forget_encoded_chunks_in_range).
RememberedFaithful ==
    \A c \in Chunks :
        remembered[c] # None =>
            \A i \in DOMAIN remembered[c].data :
                remembered[c].data[i] = raw[c * options.chunk + i - 1]
=============================================================================
