--------------------------- MODULE EwfSpoolProofs ---------------------------
(***************************************************************************)
(* What the EWF writers promise for media, chunks and limits of any size.  *)
(*                                                                         *)
(* First the spool (EwfSpool.tla): for any order of calls, as long as the  *)
(* size of a chunk is settled before media is written, what it keeps of a  *)
(* chunk is what was written to it.                                        *)
(*                                                                         *)
(* Then the segments (EwfLayout.tla, SequentialWriter.tla): no published   *)
(* segment of more than one chunk is longer than the limit. The pieces of  *)
(* a segment are measured, its groups of chunks are shown to hold all of   *)
(* them in as many tables as are counted, and the estimate to be no less   *)
(* than what is laid out; segment_groups() keeps the estimate within the   *)
(* limit and stage_group() refuses what is not.                            *)
(*                                                                         *)
(* Then what opening finds in them (EwfImage.tla): fewer segment files     *)
(* than were written never open. The two section chains of a file as it    *)
(* is laid out are followed; the tables found on them count no more        *)
(* chunks than the segment has, its media section counts all of the        *)
(* image's, and the chunks of the segments add up to those: with one of    *)
(* them gone the ranges end too soon.                                      *)
(***************************************************************************)
EXTENDS EwfDamage, LruOrderFacts, TLAPS

\* A remembered chunk is no longer than a chunk and lies in the media written.
Fits(c) ==
    /\ remembered[c].data \in Seq(Values)
    /\ Len(remembered[c].data) <= options.chunk
    /\ c * options.chunk + Len(remembered[c].data) <= inputSize

Extents == \A c \in Chunks : remembered[c] # None => Fits(c)

SpoolInv == SpoolTypeOK /\ Extents /\ RememberedFaithful

----------------------------------------------------------------------------
(* Arithmetic of chunks                                                    *)

\* A later grain is in the same chunk or a later one.
LEMMA DivMonotone ==
    ASSUME NEW k \in Nat \ {0}, NEW a \in Nat, NEW b \in Nat, a <= b
    PROVE  a \div k <= b \div k
OBVIOUS

\* Chunk c holds the grains c * k and on, k of them.
LEMMA DivOfChunk ==
    ASSUME NEW k \in Nat \ {0}, NEW c \in Nat, NEW j \in Nat, j < k
    PROVE  (c * k + j) \div k = c
OBVIOUS

\* A grain that begins a chunk is where that chunk is.
LEMMA ExactDivision ==
    ASSUME NEW k \in Nat \ {0}, NEW a \in Nat, a % k = 0
    PROVE  a = (a \div k) * k
OBVIOUS

\* Where a chunk begins.
LEMMA ChunkStart ==
    ASSUME NEW k \in Nat \ {0}, NEW c \in Nat
    PROVE  c * k \in Nat
OBVIOUS

----------------------------------------------------------------------------
(* Writes                                                                  *)

\* A write leaves the state of its type (write_to_current).
LEMMA PutType ==
    ASSUME SpoolTypeOK, NEW at \in Nat, NEW data \in Seq(Values), NEW chunk,
           Accepts(at, data), Put(at, data, chunk), Called
    PROVE  SpoolTypeOK'
<1> USE SpoolAssumption
<1>1. Len(data) \in Nat /\ at + Len(data) \in 0..Limit
  BY DEF Accepts
<1>2. raw' \in [Grains -> Values]
  <2>1. \A g \in Grains : g >= at /\ g < at + Len(data) => data[g - at + 1] \in Values
    BY DEF Grains
  <2> QED
    BY <2>1 DEF Put, SpoolTypeOK
<1>3. position' \in Nat /\ inputSize' \in 0..Limit
  BY <1>1 DEF Put, SpoolTypeOK
<1> QED
  BY <1>2, <1>3 DEF Put, SpoolTypeOK, Called

\* A chunk written where it belongs is remembered for the media it came
\* with; every other chunk a write touches is forgotten, and the rest keep
\* their media (write_to_current, forget_encoded_chunks_in_range).
LEMMA PutFaithful ==
    ASSUME SpoolInv, NEW at \in Nat, NEW data \in Seq(Values), NEW chunk,
           chunk # None => /\ chunk.data = data
                           /\ at % options.chunk = 0
                           /\ Len(data) <= options.chunk,
           Accepts(at, data), Put(at, data, chunk)
    PROVE  Extents' /\ RememberedFaithful'
<1> DEFINE k == options.chunk
           end == at + Len(data)
<1> USE SpoolAssumption
<1>1. /\ k \in Nat \ {0} /\ options' = options
      /\ Len(data) \in Nat /\ end \in Nat /\ end <= Limit
      /\ inputSize \in Nat /\ inputSize' \in Nat
      /\ inputSize <= Limit /\ inputSize <= inputSize' /\ end <= inputSize'
  BY DEF SpoolInv, SpoolTypeOK, Accepts, Put, Options
<1>2. \A g \in Grains : raw'[g] = IF g >= at /\ g < end THEN data[g - at + 1] ELSE raw[g]
  BY DEF Put
<1> SUFFICES ASSUME NEW c \in Chunks, remembered'[c] # None
             PROVE  /\ Fits(c)'
                    /\ \A i \in DOMAIN remembered'[c].data :
                          remembered'[c].data[i] = raw'[c * k + i - 1]
  BY <1>1 DEF Extents, RememberedFaithful
<1>3. CASE chunk # None /\ c = at \div k
  <2>1. remembered'[c] = chunk /\ chunk.data = data
    BY <1>3 DEF Put
  <2>2. at = c * k
    BY <1>1, <1>3, ExactDivision
  <2>3. \A i \in 1..Len(data) : raw'[c * k + i - 1] = data[i]
    <3> SUFFICES ASSUME NEW i \in 1..Len(data) PROVE raw'[at + i - 1] = data[i]
      BY <2>2
    <3>1. at + i - 1 \in Grains /\ at + i - 1 >= at /\ at + i - 1 < end
      BY <1>1 DEF Grains
    <3>2. at + i - 1 - at + 1 = i
      OBVIOUS
    <3> QED
      BY <1>2, <3>1, <3>2
  <2>4. DOMAIN remembered'[c].data = 1..Len(data)
    BY <2>1
  <2>5. Fits(c)'
    BY <1>1, <1>3, <2>1, <2>2 DEF Fits
  <2> QED
    BY <2>1, <2>3, <2>4, <2>5
<1>4. CASE ~(chunk # None /\ c = at \div k)
  <2>1. remembered'[c] = remembered[c] /\ ~Overlaps(c, at, data)
    BY <1>4 DEF Put
  <2>2. /\ Fits(c)
        /\ \A i \in DOMAIN remembered[c].data :
              remembered[c].data[i] = raw[c * k + i - 1]
    BY <2>1 DEF SpoolInv, Extents, RememberedFaithful
  <2> DEFINE kept == remembered[c].data
  <2>3. kept \in Seq(Values) /\ Len(kept) <= k /\ c * k + Len(kept) <= inputSize
    BY <2>2 DEF Fits
  <2>4. ASSUME NEW i \in 1..Len(kept) PROVE raw'[c * k + i - 1] = raw[c * k + i - 1]
    <3> DEFINE g == c * k + (i - 1)
    <3>a. c \in Nat /\ c * k \in Nat
      BY <1>1, ChunkStart DEF Chunks
    <3>b. Len(kept) \in Nat /\ i - 1 \in Nat /\ i - 1 < Len(kept) /\ i - 1 < k
      <4> HIDE DEF kept, k
      <4> QED BY <1>1, <2>3
    <3>0. /\ c \in Nat /\ c * k \in Nat
          /\ Len(kept) \in Nat /\ i - 1 \in Nat /\ i - 1 < Len(kept) /\ i - 1 < k
      BY <3>a, <3>b
    <3>1. g \in Grains /\ g \in Nat
      <4> DEFINE first == c * k
      <4>1. first \in Nat /\ first + Len(kept) <= inputSize
        BY <2>3, <3>0
      <4> HIDE DEF first, kept
      <4>2. first + (i - 1) \in 0..(Limit - 1)
        BY <1>1, <3>0, <4>1
      <4> QED
        BY <4>2 DEF first, Grains
    <3>2. g \div k = c
      BY <1>1, <3>0, DivOfChunk
    <3>3. ~(g >= at /\ g < end)
      <4> SUFFICES ASSUME g >= at, g < end PROVE FALSE
        OBVIOUS
      <4>1. Len(data) > 0 /\ end - 1 \in Nat /\ g <= end - 1
        BY <1>1, <3>1
      <4>2. at \div k <= c
        BY <1>1, <3>1, <3>2, DivMonotone
      <4>3. c <= (end - 1) \div k
        BY <1>1, <3>1, <3>2, <4>1, DivMonotone
      <4> QED
        BY <2>1, <4>1, <4>2, <4>3 DEF Overlaps
    <3>4. raw'[g] = raw[g]
      BY <1>2, <3>1, <3>3
    <3> QED
      BY <3>0, <3>4
  <2>5. Fits(c)'
    BY SMTT(30), <1>1, <2>1, <2>3 DEF Fits, Chunks
  <2>6. DOMAIN kept = 1..Len(kept)
    BY <2>3
  <2> QED
    BY <2>1, <2>2, <2>4, <2>5, <2>6
<1> QED
  BY <1>3, <1>4

----------------------------------------------------------------------------
(* The other calls                                                         *)

\* The chunks callers hand over decode to media they may write.
LEMMA InputsDecode == \A chunk \in EncodedInputs : chunk.data \in Seq(Values)
<1> SUFFICES ASSUME NEW chunk \in EncodedInputs PROVE chunk.data \in Seq(Values)
  OBVIOUS
<1>1. PICK data \in Runs :
         \/ chunk = Raw(data) \/ chunk = Zlib(data)
         \/ chunk = Bzip2(data) \/ chunk = Pattern(data)
         \/ chunk = [Raw(data) EXCEPT !.trailer = "junk"]
         \/ chunk = [Raw(data) EXCEPT !.trailer = "none", !.flagged = FALSE,
                                      !.size = Bytes(data)]
  BY Zenon DEF EncodedInputs
<1>2. CASE chunk \in {Raw(data), Zlib(data), Bzip2(data), Pattern(data)}
  BY <1>2, SpoolAssumption DEF Raw, Zlib, Bzip2, Pattern, Encoded
<1>3. CASE chunk = [Raw(data) EXCEPT !.trailer = "junk"]
  BY <1>3, SpoolAssumption DEF Raw, Encoded
<1>4. CASE chunk = [Raw(data) EXCEPT !.trailer = "none", !.flagged = FALSE,
                                     !.size = Bytes(data)]
  BY <1>4, SpoolAssumption DEF Raw, Encoded
<1> QED
  BY <1>1, <1>2, <1>3, <1>4

\* What is remembered of a chunk (remembered_encoded_data_chunk).
LEMMA RememberedWhere ==
    ASSUME NEW chunk, NEW at, NEW o, Remembered(chunk, at, o) # None
    PROVE  /\ Remembered(chunk, at, o) = chunk
           /\ at % o.chunk = 0 /\ Len(chunk.data) <= o.chunk
BY DEF Remembered

\* With nothing written the remembered chunks are all empty, and agree with
\* any media and any size of chunk.
LEMMA NothingWritten ==
    ASSUME SpoolInv, inputSize = 0, NEW c \in Chunks, remembered[c] # None
    PROVE  remembered[c].data \in Seq(Values) /\ Len(remembered[c].data) = 0 /\ c = 0
<1> DEFINE k == options.chunk
           kept == remembered[c].data
           first == c * k
<1>1. k \in Nat \ {0} /\ c \in Nat
  BY SpoolAssumption DEF SpoolInv, SpoolTypeOK, Options, Chunks
<1>2. first \in Nat
  BY <1>1, ChunkStart
<1>3. kept \in Seq(Values) /\ first + Len(kept) <= 0
  BY DEF SpoolInv, Extents, Fits
<1>4. Len(kept) = 0 /\ first = 0
  <2> HIDE DEF kept, first
  <2> QED
    BY <1>2, <1>3
<1>5. c = 0
  <2>1. (c * k + 0) \div k = c
    BY <1>1, DivOfChunk
  <2> QED
    BY <1>1, <1>4, <2>1
<1> QED
  BY <1>3, <1>4, <1>5

\* A write keeps the invariant.
LEMMA PutInv ==
    ASSUME SpoolInv, NEW at \in Nat, NEW data \in Seq(Values), NEW chunk,
           chunk # None => /\ chunk.data = data
                           /\ at % options.chunk = 0
                           /\ Len(data) <= options.chunk,
           Accepts(at, data), Put(at, data, chunk), Called
    PROVE  SpoolInv'
BY PutType, PutFaithful DEF SpoolInv

\* An encoded chunk written keeps the invariant.
LEMMA EncodedInv ==
    ASSUME SpoolInv, NEW at \in Nat, NEW chunk \in EncodedInputs,
           Accepts(at, chunk.data),
           Put(at, chunk.data, Remembered(chunk, at, options)), Called
    PROVE  SpoolInv'
<1>1. chunk.data \in Seq(Values)
  BY InputsDecode
<1>2. Remembered(chunk, at, options) # None =>
        /\ Remembered(chunk, at, options).data = chunk.data
        /\ at % options.chunk = 0
        /\ Len(chunk.data) <= options.chunk
  BY RememberedWhere
<1> QED
  BY <1>1, <1>2, PutInv

\* Moving the position keeps the invariant.
LEMMA MoveInv ==
    ASSUME SpoolInv, NEW at \in Nat, Called, position' = at,
           UNCHANGED <<options, raw, remembered, inputSize, aborted>>
    PROVE  SpoolInv'
BY SpoolAssumption
DEF SpoolInv, SpoolTypeOK, Extents, Fits, RememberedFaithful, Called

----------------------------------------------------------------------------

\* A writer begins with nothing remembered.
LEMMA SpoolInvInit == (\E o \in Configs : SpoolInit(o)) => SpoolInv
<1> SUFFICES ASSUME NEW o \in Configs, SpoolInit(o) PROVE SpoolInv
  OBVIOUS
<1>1. SpoolTypeOK
  <2>1. options \in Options
    BY SpoolAssumption DEF SpoolInit
  <2>2. raw \in [Grains -> Values]
    BY CodecAssumption DEF SpoolInit
  <2>3. position \in Nat /\ inputSize \in 0..Limit /\ calls \in 0..MaxCalls
    BY SpoolAssumption DEF SpoolInit
  <2>4. aborted \in BOOLEAN
    BY Zenon DEF SpoolInit
  <2> QED
    BY <2>1, <2>2, <2>3, <2>4 DEF SpoolTypeOK
<1>2. \A c \in Chunks : remembered[c] = None
  BY DEF SpoolInit
<1> QED
  BY <1>1, <1>2 DEF SpoolInv, Extents, RememberedFaithful

\* Every call keeps the invariant.
LEMMA SpoolInvNext ==
    ASSUME SpoolInv, [SpoolNext /\ GeometryKept]_spoolVars
    PROVE  SpoolInv'
<1> USE SpoolAssumption
<1>0. position \in Nat
  BY DEF SpoolInv, SpoolTypeOK
<1>1. ASSUME NEW data \in Runs, WriteAll(data) PROVE SpoolInv'
  BY <1>0, <1>1, PutInv DEF WriteAll
<1>2. ASSUME NEW data \in Runs, NEW at \in Offsets, WriteAt(data, at) PROVE SpoolInv'
  BY <1>2, PutInv, MoveInv DEF WriteAt
<1>3. ASSUME NEW chunk \in EncodedInputs, WriteEncoded(chunk) PROVE SpoolInv'
  BY <1>0, <1>3, EncodedInv DEF WriteEncoded
<1>4. ASSUME NEW chunk \in EncodedInputs, NEW at \in Offsets, WriteEncodedAt(chunk, at)
      PROVE SpoolInv'
  BY <1>4, EncodedInv, MoveInv DEF WriteEncodedAt
<1>5. ASSUME NEW at \in Offsets \cup {MediaEnd}, Seek(at) PROVE SpoolInv'
  <2>1. MediaEnd \in Nat
    BY DEF MediaEnd, SpoolInv, SpoolTypeOK, Options
  <2> QED
    BY <1>5, <2>1, MoveInv DEF Seek
<1>6. ASSUME NEW o \in Configs, SetChunk(o.chunk) PROVE SpoolInv'
  <2>1. options' \in Options
    BY <1>6 DEF SetChunk, SpoolInv, SpoolTypeOK, Options
  <2>2. SpoolTypeOK'
    BY <1>6, <2>1 DEF SetChunk, SpoolInv, SpoolTypeOK, Called
  <2>3. \A c \in Chunks : remembered'[c] = None
    BY <1>6 DEF SetChunk
  <2> QED
    BY <2>2, <2>3 DEF SpoolInv, Extents, RememberedFaithful
<1>7. ASSUME NEW info \in Infos, CopyMediaValues(info), GeometryKept PROVE SpoolInv'
  <2>1. options' \in Options
    <3>1. /\ info.format \in Formats /\ info.compression \in STRING
          /\ info.chunk \in Nat \ {0} /\ info.media \in 0..Limit
      OBVIOUS
    <3>2. options \in Options
      BY DEF SpoolInv, SpoolTypeOK
    <3>3. options' = [options EXCEPT !.format = info.format, !.chunk = info.chunk,
                                     !.media = info.media,
                                     !.compression = info.compression,
                                     !.emptyBlock = TRUE]
      BY <1>7 DEF CopyMediaValues
    <3> QED
      BY <3>1, <3>2, <3>3 DEF Options
  <2>2. SpoolTypeOK'
    BY <1>7, <2>1 DEF CopyMediaValues, SpoolInv, SpoolTypeOK, Called
  <2>3. CASE inputSize > 0
    <3>1. options'.chunk = options.chunk
      BY <1>7, <2>3 DEF GeometryKept
    <3> QED
      BY <1>7, <2>2, <3>1
      DEF CopyMediaValues, SpoolInv, Extents, Fits, RememberedFaithful
  <2>4. CASE inputSize = 0
    <3>1. options'.chunk \in Nat \ {0} /\ 0 * options'.chunk = 0
      BY <2>1 DEF Options
    <3>2. ASSUME NEW c \in Chunks, remembered'[c] # None
          PROVE  Fits(c)' /\ remembered'[c].data \in Seq(Values)
                 /\ DOMAIN remembered'[c].data = {}
      <4>1. remembered[c].data \in Seq(Values) /\ Len(remembered[c].data) = 0 /\ c = 0
        BY <1>7, <2>4, <3>2, NothingWritten DEF CopyMediaValues
      <4>2. remembered' = remembered /\ inputSize' = 0
        BY <1>7, <2>4 DEF CopyMediaValues
      <4> QED
        BY <3>1, <4>1, <4>2 DEF Fits
    <3> QED
      BY <2>2, <3>2 DEF SpoolInv, Extents, RememberedFaithful
  <2> QED
    BY <2>3, <2>4 DEF SpoolInv, SpoolTypeOK
<1>8. CASE SignalAbort
  BY <1>8
  DEF SignalAbort, SpoolInv, SpoolTypeOK, Extents, Fits, RememberedFaithful
<1>9. CASE UNCHANGED spoolVars
  BY <1>9
  DEF spoolVars, SpoolInv, SpoolTypeOK, Extents, Fits, RememberedFaithful
<1> QED
  BY <1>1, <1>2, <1>3, <1>4, <1>5, <1>6, <1>7, <1>8, <1>9 DEF SpoolNext

\* A chunk kept encoded decodes to the media the spool has in its place, for
\* media and chunks of any size, writes of any length at any offset and in
\* any order, while the size of a chunk is settled before media is written
\* (EwfWriter: write_encoded_data_chunk, forget_encoded_chunks_in_range).
THEOREM KeptChunksAreFaithful == SpoolSpec => []RememberedFaithful
<1>1. SpoolInv => RememberedFaithful
  BY DEF SpoolInv
<1> QED
  BY <1>1, SpoolInvInit, SpoolInvNext, PTL DEF SpoolSpec

\* Were the image finished now, each chunk of it, copied or encoded, would
\* decode to the spool's media.
ChunksDecode == \A c \in Chunks : ChunkToWrite(c).data = MediaOfChunk(c)

\* Whenever the image is finished, the chunks encode_raw_spool gives decode to
\* the media of the spool: those it encodes, and those it copies because they
\* were kept and are as long as the chunk now is.
THEOREM WrittenChunksDecode == SpoolSpec => []ChunksDecode
<1>1. SpoolInv => ChunksDecode
  <2> SUFFICES ASSUME SpoolInv, NEW c \in Chunks
               PROVE  ChunkToWrite(c).data = MediaOfChunk(c)
    BY DEF ChunksDecode
  <2> DEFINE media == MediaOfChunk(c)
             kept == remembered[c].data
  <2>1. CASE remembered[c] # None /\ Len(kept) = ChunkLen(c)
             /\ Compatible(remembered[c], options)
    <3>1. kept \in Seq(Values) /\ DOMAIN kept = 1..ChunkLen(c)
      BY <2>1 DEF SpoolInv, Extents, Fits
    <3>2. \A i \in 1..ChunkLen(c) : kept[i] = raw[c * options.chunk + i - 1]
      BY <2>1, <3>1 DEF SpoolInv, RememberedFaithful
    <3>3. kept = media
      <4> HIDE DEF kept
      <4>1. kept \in [1..Len(kept) -> Values]
        BY <3>1
      <4>2. kept = [i \in 1..Len(kept) |-> kept[i]] /\ DOMAIN kept = 1..Len(kept)
        BY <4>1, Zenon
      <4> QED
        BY <3>1, <3>2, <4>2, Zenon DEF MediaOfChunk
    <3> QED
      BY <2>1, <3>3 DEF ChunkToWrite
  <2>2. CASE ~(remembered[c] # None /\ Len(kept) = ChunkLen(c)
               /\ Compatible(remembered[c], options))
    <3>1. ChunkToWrite(c) = EncodeChunk(media, options)
      BY <2>2 DEF ChunkToWrite
    <3> HIDE DEF media
    <3>2. EncodeChunk(media, options).data = media
      BY DEF EncodeChunk, Pattern, Zlib, Bzip2, Raw, Encoded
    <3> QED
      BY <3>1, <3>2 DEF media
  <2> QED
    BY <2>1, <2>2
<1> QED
  BY <1>1, SpoolInvInit, SpoolInvNext, PTL DEF SpoolSpec

----------------------------------------------------------------------------
(* Pieces of files                                                         *)

\* A sequence of pieces, each with a length.
IsPieces(s) ==
    /\ s \in Seq(Range(s))
    /\ \A p \in Range(s) : p.len \in Nat

\* How long they are together, and how many are chunks.
Lengths(P) == [p \in P |-> p.len]
ChunkMarks(P) == [p \in P |-> IF p.is = "chunk" THEN 1 ELSE 0]
Measured(s, bytes, count) ==
    /\ IsPieces(s)
    /\ bytes = TotalOf([i \in DOMAIN s |-> s[i].len])
    /\ count = TotalOf([i \in DOMAIN s |-> IF s[i].is = "chunk" THEN 1 ELSE 0])

\* Whatever set of pieces they are taken from.
LEMMA MeasuredIn ==
    ASSUME NEW P, \A p \in P : p.len \in Nat, NEW s \in Seq(P)
    PROVE  /\ IsPieces(s)
           /\ Measured(s, Weight(Lengths(P), s), Weight(ChunkMarks(P), s))
           /\ Lengths(P) \in Weights(P) /\ ChunkMarks(P) \in Weights(P)
<1>1. IsPieces(s)
  BY DEF IsPieces, Range
<1>2. \A i \in DOMAIN s : s[i] \in P
  OBVIOUS
<1>3. Weighed(Lengths(P), s) = [i \in DOMAIN s |-> s[i].len]
  BY <1>2 DEF Weighed, Lengths
<1>4. Weighed(ChunkMarks(P), s) = [i \in DOMAIN s |-> IF s[i].is = "chunk" THEN 1 ELSE 0]
  BY <1>2 DEF Weighed, ChunkMarks
<1>5. Lengths(P) \in Weights(P)
  BY DEF Lengths, Weights
<1>6. ChunkMarks(P) \in Weights(P)
  BY DEF ChunkMarks, Weights
<1> QED
  BY <1>1, <1>3, <1>4, <1>5, <1>6 DEF Measured, Weight

\* Measures are numbers.
LEMMA MeasuredNat ==
    ASSUME NEW s, NEW n, NEW m, Measured(s, n, m)
    PROVE  n \in Nat /\ m \in Nat
<1> DEFINE P == Range(s)
<1>1. s \in Seq(P) /\ \A p \in P : p.len \in Nat
  BY DEF Measured, IsPieces
<1> HIDE DEF P
<1>2. /\ Measured(s, Weight(Lengths(P), s), Weight(ChunkMarks(P), s))
      /\ Lengths(P) \in Weights(P) /\ ChunkMarks(P) \in Weights(P)
  BY <1>1, MeasuredIn
<1>3. Weight(Lengths(P), s) \in Nat /\ Weight(ChunkMarks(P), s) \in Nat
  BY <1>1, <1>2, WeighedSeq
<1> QED
  BY <1>2, <1>3 DEF Measured

\* No pieces have no length.
LEMMA MeasuredEmpty == Measured(<<>>, 0, 0)
<1>1. IsPieces(<<>>)
  BY DEF IsPieces, Range
<1>2. /\ [i \in DOMAIN <<>> |-> <<>>[i].len] = <<>>
      /\ [i \in DOMAIN <<>> |-> IF <<>>[i].is = "chunk" THEN 1 ELSE 0] = <<>>
  OBVIOUS
<1> QED
  BY <1>1, <1>2, TotalEmpty DEF Measured

\* One piece has its own.
LEMMA MeasuredOne ==
    ASSUME NEW p, p.len \in Nat
    PROVE  Measured(<<p>>, p.len, IF p.is = "chunk" THEN 1 ELSE 0)
<1> DEFINE P == {p}
<1>1. <<p>> \in Seq(P) /\ \A q \in P : q.len \in Nat
  OBVIOUS
<1>2. p \in P
  OBVIOUS
<1> HIDE DEF P
<1>3. PICK s \in Seq(P) : s = <<p>>
  BY <1>1
<1>4. /\ Measured(s, Weight(Lengths(P), s), Weight(ChunkMarks(P), s))
      /\ Lengths(P) \in Weights(P) /\ ChunkMarks(P) \in Weights(P)
  BY <1>1, MeasuredIn
<1>5. /\ Weight(Lengths(P), <<p>>) = Lengths(P)[p]
      /\ Weight(ChunkMarks(P), <<p>>) = ChunkMarks(P)[p]
  BY <1>2, <1>4, WeightOne
<1> QED
  BY <1>2, <1>3, <1>4, <1>5 DEF Lengths, ChunkMarks

\* Pieces after pieces.
LEMMA MeasuredConcat ==
    ASSUME NEW a, NEW b, NEW n, NEW m, NEW k, NEW l,
           Measured(a, n, m), Measured(b, k, l)
    PROVE  Measured(a \o b, n + k, m + l)
<1> DEFINE P == Range(a) \cup Range(b)
<1>1. a \in Seq(P) /\ b \in Seq(P) /\ \A p \in P : p.len \in Nat
  BY DEF Measured, IsPieces
<1> HIDE DEF P
<1>2. /\ Measured(a, Weight(Lengths(P), a), Weight(ChunkMarks(P), a))
      /\ Measured(b, Weight(Lengths(P), b), Weight(ChunkMarks(P), b))
      /\ Lengths(P) \in Weights(P) /\ ChunkMarks(P) \in Weights(P)
  BY <1>1, MeasuredIn
<1>3. /\ n = Weight(Lengths(P), a) /\ m = Weight(ChunkMarks(P), a)
      /\ k = Weight(Lengths(P), b) /\ l = Weight(ChunkMarks(P), b)
  BY <1>2 DEF Measured
<1>4. a \o b \in Seq(P)
  BY <1>1
<1>5. PICK c \in Seq(P) : c = a \o b
  BY <1>4
<1>6. Measured(c, Weight(Lengths(P), c), Weight(ChunkMarks(P), c))
  BY <1>1, MeasuredIn
<1>7. /\ Weight(Lengths(P), a \o b) = Weight(Lengths(P), a) + Weight(Lengths(P), b)
      /\ Weight(ChunkMarks(P), a \o b) = Weight(ChunkMarks(P), a) + Weight(ChunkMarks(P), b)
  BY <1>1, <1>2, WeightConcat
<1> QED
  BY <1>3, <1>5, <1>6, <1>7

\* FlattenSeq takes sequences one after the other.
LEMMA FlattenRuns ==
    ASSUME NEW P, NEW gs \in Seq(Seq(P))
    PROVE  \E f \in [0..Len(gs) -> Seq(P)] :
              /\ f[0] = <<>> /\ \A k \in 1..Len(gs) : f[k] = f[k - 1] \o gs[k]
              /\ FlattenSeq(gs) = f[Len(gs)]
<1> DEFINE step == [p \in Seq(P) \X Seq(P) |-> p[1] \o p[2]]
<1>a. PICK n \in Nat : n = Len(gs)
  OBVIOUS
<1>1. \A k \in 1..n : gs[k] \in Seq(P)
  BY <1>a
<1>2. step \in Steps(Seq(P), Seq(P)) /\ <<>> \in Seq(P)
  BY DEF Steps
<1>3. PICK f \in [0..n -> Seq(P)] : RunsOver(Seq(P), <<>>, step, gs, f)
  <2> HIDE DEF step
  <2>a. PICK V : V = Seq(P)
    OBVIOUS
  <2>1. PICK a \in V, take \in Steps(V, V) : a = <<>> /\ take = step
    BY <1>2, <2>a
  <2>b. \A s \in Seq(V) : \E f \in [0..Len(s) -> V] : RunsOver(V, a, take, s, f)
    BY <2>1, RunExists
  <2>c. gs \in Seq(V)
    BY <2>a
  <2>2. \E f \in [0..Len(gs) -> V] : RunsOver(V, a, take, gs, f)
    BY <2>b, <2>c
  <2> QED
    BY <1>a, <2>a, <2>1, <2>2
<1>4. f[0] = <<>> /\ \A k \in 1..n : f[k] = f[k - 1] \o gs[k]
  <2>1. ASSUME NEW k \in 1..n PROVE f[k] = f[k - 1] \o gs[k]
    <3>1. k - 1 \in 0..n /\ f[k - 1] \in Seq(P) /\ gs[k] \in Seq(P)
      BY <1>1
    <3>2. f[k] = step[<<f[k - 1], gs[k]>>]
      BY <1>3, <1>a, <3>1 DEF RunsOver
    <3> QED
      BY <3>1, <3>2
  <2> QED
    BY <1>3, <2>1 DEF RunsOver
<1> HIDE DEF step
<1>5. CASE n = 0
  <2>1. FlattenSeq(gs) = gs /\ gs = <<>>
    BY <1>5, <1>a DEF FlattenSeq
  <2> QED
    BY <1>3, <1>4, <1>5, <1>a, <2>1
<1>6. CASE n # 0
  <2> DEFINE flatten[i \in 1..n] == IF i = 1 THEN gs[i] ELSE flatten[i - 1] \o gs[i]
  <2>1. FlattenSeq(gs) = flatten[n]
    BY <1>6, <1>a DEF FlattenSeq
  <2>2. \A i \in 1..n : f[i] = IF i = 1 THEN gs[i] ELSE f[i - 1] \o gs[i]
    <3> SUFFICES ASSUME NEW i \in 1..n, i = 1 PROVE f[i] = gs[i]
      BY <1>4
    <3>a. f[i] = f[i - 1] \o gs[i]
      BY <1>4
    <3>b. f[i - 1] = <<>>
      BY <1>4
    <3>1. f[i] = <<>> \o gs[i] /\ gs[i] \in Seq(P)
      BY <1>1, <3>a, <3>b
    <3> QED
      BY <3>1
  <2> DEFINE h == [i \in 1..n |-> f[i]]
  <2>3. h = [i \in 1..n |-> IF i = 1 THEN gs[i] ELSE h[i - 1] \o gs[i]]
    <3>1. \A i \in 1..n : h[i] = IF i = 1 THEN gs[i] ELSE h[i - 1] \o gs[i]
      <4> SUFFICES ASSUME NEW i \in 1..n PROVE h[i] = IF i = 1 THEN gs[i] ELSE h[i - 1] \o gs[i]
        OBVIOUS
      <4>1. i # 1 => i - 1 \in 1..n
        OBVIOUS
      <4>2. h[i] = f[i] /\ (i # 1 => h[i - 1] = f[i - 1])
        BY <4>1
      <4> HIDE DEF h
      <4> QED
        BY <2>2, <4>2
    <3>2. h = [i \in 1..n |-> h[i]]
      OBVIOUS
    <3> HIDE DEF h
    <3> QED
      BY <3>1, <3>2, Zenon
  <2>4. \E g : g = [i \in 1..n |-> IF i = 1 THEN gs[i] ELSE g[i - 1] \o gs[i]]
    <3> HIDE DEF h
    <3> QED
      BY <2>3, Zenon
  <2>5. flatten = [i \in 1..n |-> IF i = 1 THEN gs[i] ELSE flatten[i - 1] \o gs[i]]
    BY <2>4
  <2> HIDE DEF flatten, h
  <2>6. \A i \in 1..n : flatten[i] = IF i = 1 THEN gs[i] ELSE flatten[i - 1] \o gs[i]
    BY <2>5, Zenon
  <2> DEFINE T == {k \in Nat : k \in 1..n => flatten[k] = f[k]}
  <2>7. 0 \in T
    OBVIOUS
  <2>8. ASSUME NEW k \in Nat, k \in T PROVE k + 1 \in T
    <3> SUFFICES ASSUME k + 1 \in 1..n PROVE flatten[k + 1] = f[k + 1]
      OBVIOUS
    <3>1. CASE k = 0
      <4>1. k + 1 = 1
        BY <3>1
      <4> QED
        BY <2>2, <2>6, <4>1
    <3>2. CASE k # 0
      <4>1. k \in 1..n /\ k + 1 # 1 /\ (k + 1) - 1 = k
        BY <1>1, <3>2
      <4>2. flatten[k] = f[k]
        BY <2>8, <4>1
      <4>3. flatten[k + 1] = flatten[k] \o gs[k + 1] /\ f[k + 1] = f[k] \o gs[k + 1]
        <5> DEFINE j == k + 1
        <5>1. j \in 1..n /\ j # 1 /\ j - 1 = k
          BY <4>1
        <5> HIDE DEF j
        <5>2. flatten[j] = flatten[j - 1] \o gs[j] /\ f[j] = f[j - 1] \o gs[j]
          BY <2>2, <2>6, <5>1
        <5>3. flatten[j] = flatten[k] \o gs[j] /\ f[j] = f[k] \o gs[j]
          BY <5>1, <5>2
        <5> QED
          BY <5>3 DEF j
      <4> QED
        BY <4>2, <4>3
    <3> QED
      BY <3>1, <3>2
  <2> HIDE DEF T
  <2>9. Nat \subseteq T
    BY <2>7, <2>8, SetInduction
  <2>10. flatten[n] = f[n]
    <3>1. n \in T /\ n \in 1..n
      BY <1>6, <2>9
    <3> QED
      BY <3>1 DEF T
  <2> QED
    BY <1>3, <1>4, <1>a, <2>1, <2>10
<1> QED
  BY <1>5, <1>6

\* A function on 1..n is a sequence of n elements.
LEMMA ListFrom ==
    ASSUME NEW n \in Nat, NEW S, NEW g \in [1..n -> S]
    PROVE  g \in Seq(S) /\ Len(g) = n
OBVIOUS

\* So their weights are added up.
LEMMA WeightFlatten ==
    ASSUME NEW P, NEW w \in Weights(P), NEW gs \in Seq(Seq(P)),
           NEW ws \in Seq(Nat), Len(ws) = Len(gs),
           \A k \in 1..Len(gs) : ws[k] = Weight(w, gs[k])
    PROVE  FlattenSeq(gs) \in Seq(P) /\ Weight(w, FlattenSeq(gs)) = TotalOf(ws)
<1>1. PICK f \in [0..Len(gs) -> Seq(P)] :
              /\ f[0] = <<>> /\ \A k \in 1..Len(gs) : f[k] = f[k - 1] \o gs[k]
              /\ FlattenSeq(gs) = f[Len(gs)]
  BY FlattenRuns
<1>2. Len(gs) \in Nat /\ \A k \in 1..Len(gs) : gs[k] \in Seq(P)
  OBVIOUS
<1> DEFINE h == [k \in 0..Len(gs) |-> Weight(w, f[k])]
<1>3. \A k \in 0..Len(gs) : h[k] = Weight(w, f[k])
  OBVIOUS
<1> HIDE DEF h
<1>4. h[0] = 0
  BY <1>1, <1>2, <1>3, WeightEmpty
<1>5. ASSUME NEW k \in 1..Len(ws) PROVE h[k] = h[k - 1] + ws[k]
  <2>1. k \in 1..Len(gs) /\ k \in 0..Len(gs) /\ k - 1 \in 0..Len(gs)
    BY <1>2
  <2>2. f[k - 1] \in Seq(P) /\ gs[k] \in Seq(P) /\ f[k] = f[k - 1] \o gs[k]
    BY <1>1, <1>2, <2>1
  <2>3. Weight(w, f[k - 1] \o gs[k]) = Weight(w, f[k - 1]) + Weight(w, gs[k])
    BY <2>2, WeightConcat
  <2> QED
    BY <1>3, <2>1, <2>2, <2>3
<1>6. TotalOf(ws) = h[Len(ws)]
  BY <1>4, <1>5, TotalUnique
<1>7. Len(gs) \in 0..Len(gs)
  BY <1>2
<1> QED
  BY <1>1, <1>3, <1>6, <1>7

\* ws weighs the sequences of gs.
Weighable(P, w, gs, ws) ==
    /\ w \in Weights(P) /\ gs \in Seq(Seq(P)) /\ ws \in Seq(Nat) /\ Len(ws) = Len(gs)
    /\ \A k \in 1..Len(gs) : ws[k] = Weight(w, gs[k])

\* The same, of sequences known to be weighed.
LEMMA FlattenWeighs ==
    ASSUME NEW P, NEW w, NEW gs, NEW ws, Weighable(P, w, gs, ws)
    PROVE  FlattenSeq(gs) \in Seq(P) /\ Weight(w, FlattenSeq(gs)) = TotalOf(ws)
<1>1. PICK v \in Weights(P), g \in Seq(Seq(P)), s \in Seq(Nat) : v = w /\ g = gs /\ s = ws
  BY DEF Weighable
<1>2. Len(s) = Len(g) /\ \A k \in 1..Len(g) : s[k] = Weight(v, g[k])
  BY <1>1 DEF Weighable
<1>3. FlattenSeq(g) \in Seq(P) /\ Weight(v, FlattenSeq(g)) = TotalOf(s)
  BY <1>2, WeightFlatten
<1> QED
  BY <1>1, <1>3

\* And so are the lengths of pieces.
LEMMA MeasuredFlatten ==
    ASSUME NEW S, NEW gs \in Seq(S), NEW ls \in Seq(Nat), NEW ms \in Seq(Nat),
           Len(ls) = Len(gs), Len(ms) = Len(gs),
           \A k \in 1..Len(gs) : Measured(gs[k], ls[k], ms[k])
    PROVE  Measured(FlattenSeq(gs), TotalOf(ls), TotalOf(ms))
<1> DEFINE P == UNION {Range(gs[k]) : k \in 1..Len(gs)}
<1>1. ASSUME NEW k \in 1..Len(gs) PROVE gs[k] \in Seq(P)
  <2>1. gs[k] \in Seq(Range(gs[k])) /\ Range(gs[k]) \subseteq P
    BY DEF Measured, IsPieces
  <2> HIDE DEF P
  <2> QED
    BY <2>1
<1>2. \A p \in P : p.len \in Nat
  BY DEF Measured, IsPieces
<1> HIDE DEF P
<1>3. gs \in Seq(Seq(P))
  <2>1. gs \in [1..Len(gs) -> Seq(P)] /\ Len(gs) \in Nat
    BY <1>1
  <2>2. PICK n \in Nat : n = Len(gs)
    BY <2>1
  <2>3. gs \in [1..n -> Seq(P)]
    BY <2>1, <2>2
  <2> QED
    BY <2>3, ListFrom
<1>4. Lengths(P) \in Weights(P) /\ ChunkMarks(P) \in Weights(P)
  BY <1>2 DEF Lengths, ChunkMarks, Weights
<1>5. \A k \in 1..Len(gs) : ls[k] = Weight(Lengths(P), gs[k]) /\ ms[k] = Weight(ChunkMarks(P), gs[k])
  <2> SUFFICES ASSUME NEW k \in 1..Len(gs)
               PROVE  ls[k] = Weight(Lengths(P), gs[k]) /\ ms[k] = Weight(ChunkMarks(P), gs[k])
    OBVIOUS
  <2>1. Measured(gs[k], Weight(Lengths(P), gs[k]), Weight(ChunkMarks(P), gs[k]))
    BY <1>1, <1>2, MeasuredIn
  <2> QED
    BY <2>1 DEF Measured
<1>6. FlattenSeq(gs) \in Seq(P) /\ Weight(Lengths(P), FlattenSeq(gs)) = TotalOf(ls)
  <2>1. PICK w \in Weights(P) : w = Lengths(P)
    BY <1>4
  <2>2. \A k \in 1..Len(gs) : ls[k] = Weight(w, gs[k])
    BY <1>5, <2>1
  <2>3. Weighable(P, w, gs, ls)
    BY <1>3, <2>1, <2>2 DEF Weighable
  <2>4. FlattenSeq(gs) \in Seq(P) /\ Weight(w, FlattenSeq(gs)) = TotalOf(ls)
    BY <2>3, FlattenWeighs
  <2> QED
    BY <2>1, <2>4
<1>7. Weight(ChunkMarks(P), FlattenSeq(gs)) = TotalOf(ms)
  <2>1. PICK w \in Weights(P) : w = ChunkMarks(P)
    BY <1>4
  <2>2. \A k \in 1..Len(gs) : ms[k] = Weight(w, gs[k])
    BY <1>5, <2>1
  <2>3. Weighable(P, w, gs, ms)
    BY <1>3, <2>1, <2>2 DEF Weighable
  <2>4. FlattenSeq(gs) \in Seq(P) /\ Weight(w, FlattenSeq(gs)) = TotalOf(ms)
    BY <2>3, FlattenWeighs
  <2> QED
    BY <2>1, <2>4
<1> QED
  BY <1>2, <1>6, <1>7, MeasuredIn

\* A file is as long as its pieces.
LEMMA AssembledLength ==
    ASSUME NEW s, NEW n, NEW m, Measured(s, n, m)
    PROVE  Assemble(s).length = n
BY DEF Assemble, Measured

\* And has no more chunks.
ChunksAt(file) == {at \in DOMAIN file.at : file.at[at].is = "chunk"}

\* Its chunks are among the pieces that count.
LEMMA AssembledChunks ==
    ASSUME NEW s, NEW n, NEW m, Measured(s, n, m), m <= 1
    PROVE  Cardinality(ChunksAt(Assemble(s))) \in {0, 1}
<1> DEFINE file == Assemble(s)
           lens == [i \in DOMAIN s |-> s[i].len]
           starts == [i \in DOMAIN s |-> TotalOf(SubSeq(lens, 1, i - 1))]
           full == {i \in DOMAIN s : s[i].len > 0}
           one(offset) == CHOOSE i \in full : starts[i] = offset
           marks == [i \in DOMAIN s |-> IF s[i].is = "chunk" THEN 1 ELSE 0]
<1>1. /\ DOMAIN file.at = {starts[i] : i \in full}
      /\ \A offset \in {starts[i] : i \in full} : file.at[offset] = s[one(offset)]
  BY DEF Assemble
<1> HIDE DEF file
<1> HIDE DEF starts
<1>2. ASSUME NEW a \in ChunksAt(file), NEW b \in ChunksAt(file) PROVE a = b
  <2>1. ASSUME NEW at \in ChunksAt(file)
        PROVE  one(at) \in full /\ starts[one(at)] = at /\ s[one(at)].is = "chunk"
    <3>1. at \in {starts[i] : i \in full} /\ file.at[at].is = "chunk"
      BY <1>1 DEF ChunksAt
    <3>2. PICK i \in full : starts[i] = at
      BY <3>1
    <3>3. one(at) \in full /\ starts[one(at)] = at
      BY <3>2, Zenon
    <3>4. file.at[at] = s[one(at)]
      BY <1>1, <3>1
    <3> HIDE DEF one
    <3> QED
      BY <3>1, <3>3, <3>4
  <2>2. PICK i \in DOMAIN s, j \in DOMAIN s : /\ starts[i] = a /\ s[i].is = "chunk"
                                             /\ starts[j] = b /\ s[j].is = "chunk"
    BY <2>1
  <2>3. marks \in Seq(Nat) /\ DOMAIN marks = DOMAIN s
    BY DEF Measured, IsPieces
  <2>4. marks[i] = 1 /\ marks[j] = 1 /\ TotalOf(marks) <= 1
    BY <2>2 DEF Measured
  <2>5. i \in Nat /\ j \in Nat /\ TotalOf(marks) \in Nat
    <3>1. TotalOf(marks) \in Nat
      BY MeasuredNat DEF Measured
    <3> QED
      BY <2>3, <3>1
  <2> HIDE DEF marks
  <2>6. ~(i < j) /\ ~(j < i)
    BY <2>3, <2>4, <2>5, TotalOfTwo
  <2> QED
    BY <2>2, <2>5, <2>6
<1>3. CASE ChunksAt(file) = {}
  BY <1>3, FS_EmptySet DEF file
<1>4. CASE ChunksAt(file) # {}
  <2>1. PICK a : ChunksAt(file) = {a}
    BY <1>2, <1>4
  <2> QED
    BY <2>1, FS_Singleton DEF file
<1> QED
  BY <1>3, <1>4

----------------------------------------------------------------------------
(* Groups of chunks, one for a table                                       *)

\* Chunks that have a size.
HaveSizes(C) == \A c \in C : c.size \in Nat

\* The bytes of chunks, chunk by chunk (ChunkSpool).
LEMMA PayloadOfChunks ==
    ASSUME NEW C, HaveSizes(C)
    PROVE  /\ Payload(<<>>) = 0
           /\ \A s \in Seq(C) : Payload(s) \in Nat
           /\ \A s \in Seq(C), c \in C : Payload(Append(s, c)) = Payload(s) + c.size
<1> DEFINE w == [c \in C |-> c.size]
<1>1. w \in Weights(C)
  BY DEF Weights, HaveSizes
<1>2. \A s \in Seq(C) : Payload(s) = Weight(w, s)
  <2> SUFFICES ASSUME NEW s \in Seq(C) PROVE Payload(s) = Weight(w, s)
    OBVIOUS
  <2>1. \A i \in DOMAIN s : s[i] \in C
    OBVIOUS
  <2>2. Weighed(w, s) = [i \in DOMAIN s |-> s[i].size]
    BY <2>1 DEF Weighed
  <2> QED
    BY <2>2 DEF Weight, Payload
<1>3. \A c \in C : w[c] = c.size
  OBVIOUS
<1> HIDE DEF w
<1>4. <<>> \in Seq(C)
  OBVIOUS
<1>5. Payload(<<>>) = 0
  BY <1>2, <1>4, WeightEmpty
<1>6. \A s \in Seq(C) : Payload(s) \in Nat
  BY <1>1, <1>2, WeighedSeq
<1>7. ASSUME NEW s \in Seq(C), NEW c \in C PROVE Payload(Append(s, c)) = Payload(s) + c.size
  <2>1. Append(s, c) \in Seq(C)
    OBVIOUS
  <2>2. Weight(w, Append(s, c)) = Weight(w, s) + w[c]
    BY <1>1, WeightAppend
  <2> QED
    BY <1>2, <1>3, <2>1, <2>2
<1> QED
  BY <1>5, <1>6, <1>7

GroupStates(C) ==
    [state : [count : Nat, entries : Nat, payload : Nat], closed : Seq(Seq(C)), open : Seq(C)]

\* A chunk more leaves groups of chunks.
LEMMA GroupedType ==
    ASSUME NEW C, HaveSizes(C), NEW acc \in GroupStates(C), NEW c \in C
    PROVE  Grouped(acc, c) \in GroupStates(C)
<1>1. c.size \in Nat /\ acc.state \in [count : Nat, entries : Nat, payload : Nat]
  BY DEF HaveSizes, GroupStates
<1>2. AddChunk(acc.state, c.size) \in [count : Nat, entries : Nat, payload : Nat]
  BY <1>1 DEF AddChunk
<1>3. /\ acc.closed \in Seq(Seq(C)) /\ acc.open \in Seq(C)
      /\ Append(acc.closed, acc.open) \in Seq(Seq(C))
      /\ <<c>> \in Seq(C) /\ Append(acc.open, c) \in Seq(C)
  BY DEF GroupStates
<1> QED
  BY <1>2, <1>3 DEF Grouped, GroupStates

\* The groups of more chunks follow from those of fewer (ewf1_table_groups).
LEMMA GroupedSteps ==
    ASSUME NEW C, HaveSizes(C)
    PROVE  /\ GroupedAll(<<>>) = NoGroups
           /\ \A s \in Seq(C) : GroupedAll(s) \in GroupStates(C)
           /\ \A s \in Seq(C), c \in C : GroupedAll(Append(s, c)) = Grouped(GroupedAll(s), c)
<1> DEFINE step == [p \in GroupStates(C) \X C |-> Grouped(p[1], p[2])]
<1>1. PICK V : V = GroupStates(C)
  OBVIOUS
<1>2. NoGroups \in V
  BY <1>1 DEF NoGroups, NoTables, GroupStates
<1>3. step \in Steps(V, C) /\ \A v \in V, c \in C : step[<<v, c>>] = Grouped(v, c)
  BY <1>1, GroupedType DEF Steps
<1> HIDE DEF step
<1>4. PICK take \in Steps(V, C) : take = step
  BY <1>3
<1>5. PICK fold \in [Seq(C) -> V] :
         /\ fold[<<>>] = NoGroups
         /\ \A s \in Seq(C), c \in C : fold[Append(s, c)] = take[<<fold[s], c>>]
         /\ \A s \in Seq(C) : \A f : RunsOver(V, NoGroups, take, s, f) => f[Len(s)] = fold[s]
  BY <1>2, <1>4, FoldExists
<1>6. ASSUME NEW s \in Seq(C) PROVE GroupedAll(s) = fold[s]
  <2> DEFINE upTo[n \in 0..Len(s)] == IF n = 0 THEN NoGroups ELSE Grouped(upTo[n - 1], s[n])
  <2>0. Len(s) \in Nat /\ \A n \in 1..Len(s) : s[n] \in C /\ n # 0 /\ n \in 0..Len(s) /\ n - 1 \in 0..Len(s)
    OBVIOUS
  <2>1. GroupedAll(s) = upTo[Len(s)]
    BY DEF GroupedAll
  <2>2. PICK f \in [0..Len(s) -> V] : RunsOver(V, NoGroups, take, s, f)
    BY <1>2, <1>4, RunExists
  <2>3. \A n \in 0..Len(s) : f[n] = IF n = 0 THEN NoGroups ELSE Grouped(f[n - 1], s[n])
    <3> SUFFICES ASSUME NEW n \in 1..Len(s) PROVE f[n] = Grouped(f[n - 1], s[n])
      BY <2>0, <2>2 DEF RunsOver
    <3>1. f[n - 1] \in V /\ s[n] \in C
      BY <2>0
    <3>2. f[n] = take[<<f[n - 1], s[n]>>]
      BY <2>2, <3>1 DEF RunsOver
    <3> QED
      BY <1>3, <1>4, <3>1, <3>2
  <2>4. \E h : h = [n \in 0..Len(s) |-> IF n = 0 THEN NoGroups ELSE Grouped(h[n - 1], s[n])]
    <3>1. f = [n \in 0..Len(s) |-> f[n]]
      OBVIOUS
    <3>2. f = [n \in 0..Len(s) |-> IF n = 0 THEN NoGroups ELSE Grouped(f[n - 1], s[n])]
      BY <2>3, <3>1, Zenon
    <3> QED
      BY <3>2
  <2>5. upTo = [n \in 0..Len(s) |-> IF n = 0 THEN NoGroups ELSE Grouped(upTo[n - 1], s[n])]
    BY <2>4
  <2> HIDE DEF upTo
  <2>6. \A n \in 0..Len(s) : upTo[n] = IF n = 0 THEN NoGroups ELSE Grouped(upTo[n - 1], s[n])
    BY <2>5, Zenon
  <2>7. RunsOver(V, NoGroups, take, s, upTo)
    <3>1. upTo[0] = NoGroups
      BY <2>0, <2>6
    <3>2. ASSUME NEW k \in 1..Len(s), upTo[k - 1] \in V PROVE upTo[k] = take[<<upTo[k - 1], s[k]>>]
      <4>1. upTo[k] = Grouped(upTo[k - 1], s[k])
        BY <2>0, <2>6
      <4> QED
        BY <1>3, <1>4, <2>0, <3>2, <4>1
    <3> QED
      BY <3>1, <3>2 DEF RunsOver
  <2> QED
    BY <1>5, <2>1, <2>7
<1>7. <<>> \in Seq(C)
  OBVIOUS
<1>8. ASSUME NEW s \in Seq(C), NEW c \in C PROVE GroupedAll(Append(s, c)) = Grouped(GroupedAll(s), c)
  <2>1. Append(s, c) \in Seq(C)
    OBVIOUS
  <2>2. fold[Append(s, c)] = Grouped(fold[s], c)
    BY <1>3, <1>4, <1>5
  <2>3. PICK t \in Seq(C) : t = Append(s, c)
    BY <2>1
  <2>4. GroupedAll(t) = fold[t]
    BY <1>6
  <2> QED
    BY <1>6, <2>2, <2>3, <2>4
<1> QED
  BY <1>1, <1>5, <1>6, <1>7, <1>8

\* The bytes of a segment for each group of chunks in it, and for each entry.
PerTable(format) ==
    Desc1 + Desc1 + 24 + FooterSize(format)
    + IF WritesTable2(format) THEN Desc1 + 24 + FooterSize(format) ELSE 0
PerEntry(format) == IF WritesTable2(format) THEN 8 ELSE 4
GroupBytes(C, format) ==
    [g \in Seq(C) |-> PerTable(format) + Payload(g) + PerEntry(format) * Len(g)]
GroupCounts(C) == [g \in Seq(C) |-> Len(g)]

\* Both are weights of groups.
LEMMA GroupWeights ==
    ASSUME NEW C, HaveSizes(C), NEW format
    PROVE  /\ GroupBytes(C, format) \in Weights(Seq(C)) /\ GroupCounts(C) \in Weights(Seq(C))
           /\ PerTable(format) \in Nat /\ PerEntry(format) \in {4, 8}
           /\ \A g \in Seq(C) :
                 /\ GroupCounts(C)[g] = Len(g)
                 /\ GroupBytes(C, format)[g] = PerTable(format) + Payload(g) + PerEntry(format) * Len(g)
<1>1. PerTable(format) \in Nat
  BY DEF PerTable, FooterSize, Desc1
<1>2. PerEntry(format) \in {4, 8}
  BY DEF PerEntry
<1>3. \A g \in Seq(C) : Payload(g) \in Nat /\ Len(g) \in Nat
  BY PayloadOfChunks
<1>4. \A g \in Seq(C) : PerTable(format) + Payload(g) + PerEntry(format) * Len(g) \in Nat
  BY <1>1, <1>2, <1>3
<1> QED
  BY <1>1, <1>2, <1>3, <1>4 DEF GroupBytes, GroupCounts, Weights

\* The groups of chunks have all of them, and count their tables.
Covering(C, format, s) ==
    LET acc == GroupedAll(s)
        groups == Append(acc.closed, acc.open)
    IN  /\ acc.state.entries = Len(acc.open)
        /\ acc.state.count = IF s = <<>> THEN 0 ELSE Len(acc.closed) + 1
        /\ s = <<>> <=> acc.open = <<>>
        /\ s = <<>> => acc.closed = <<>>
        /\ Weight(GroupCounts(C), groups) = Len(s)
        /\ Weight(GroupBytes(C, format), groups)
             = (Len(acc.closed) + 1) * PerTable(format) + Payload(s) + PerEntry(format) * Len(s)

\* Another group, and another entry.
LEMMA OneMore ==
    ASSUME NEW n \in Nat, NEW k \in Nat
    PROVE  (n + 1) * k = n * k + k /\ n * k \in Nat
OBVIOUS

\* A chunk more is in the groups.
LEMMA CoveringStep ==
    ASSUME NEW C, HaveSizes(C), NEW format, NEW s \in Seq(C), Covering(C, format, s), NEW c \in C
    PROVE  Covering(C, format, Append(s, c))
<1> DEFINE w == GroupBytes(C, format)
           l == GroupCounts(C)
<1>1. PICK acc \in GroupStates(C) : acc = GroupedAll(s)
  BY GroupedSteps
<1>2. PICK t \in Seq(C) : t = Append(s, c)
  <2>1. Append(s, c) \in Seq(C)
    OBVIOUS
  <2> QED
    BY <2>1
<1>3. PICK next : next = Grouped(acc, c)
  OBVIOUS
<1>4. GroupedAll(t) = next
  BY <1>1, <1>2, <1>3, GroupedSteps
<1>5. /\ acc.closed \in Seq(Seq(C)) /\ acc.open \in Seq(C)
      /\ acc.state.count \in Nat /\ acc.state.entries \in Nat
  BY DEF GroupStates
<1>6. PICK closed \in Seq(Seq(C)), open \in Seq(C), K \in Nat, m \in {4, 8} :
         closed = acc.closed /\ open = acc.open /\ K = PerTable(format) /\ m = PerEntry(format)
  BY <1>5, GroupWeights
<1>7. w \in Weights(Seq(C)) /\ l \in Weights(Seq(C))
  BY GroupWeights
<1>8. \A g \in Seq(C) : l[g] = Len(g) /\ w[g] = K + Payload(g) + m * Len(g)
  BY <1>6, GroupWeights
<1> HIDE DEF w, l
<1>9. \A gs \in Seq(Seq(C)), g \in Seq(C) :
         /\ Weight(w, gs) \in Nat /\ Weight(l, gs) \in Nat
         /\ Weight(w, Append(gs, g)) = Weight(w, gs) + w[g]
         /\ Weight(l, Append(gs, g)) = Weight(l, gs) + l[g]
  BY <1>7, WeightAppend, WeighedSeq
<1>10. /\ Payload(<<>>) = 0 /\ c.size \in Nat
       /\ \A r \in Seq(C) : Payload(r) \in Nat
       /\ \A r \in Seq(C) : Payload(Append(r, c)) = Payload(r) + c.size
  BY PayloadOfChunks DEF HaveSizes
<1>11. PICK N \in Nat, E \in Nat, M \in Nat, p \in Nat, q \in Nat, x \in Nat, y \in Nat :
          /\ N = Len(closed) /\ E = Len(open) /\ M = Len(s)
          /\ p = Payload(open) /\ q = Payload(s)
          /\ x = Weight(w, closed) /\ y = Weight(l, closed)
  <2>1. /\ Len(closed) \in Nat /\ Len(open) \in Nat /\ Len(s) \in Nat
        /\ Payload(open) \in Nat /\ Payload(s) \in Nat
        /\ Weight(w, closed) \in Nat /\ Weight(l, closed) \in Nat
    <3>1. Len(closed) \in Nat /\ Len(open) \in Nat /\ Len(s) \in Nat
      BY <1>6
    <3>2. Payload(open) \in Nat /\ Payload(s) \in Nat
      BY <1>6, <1>10
    <3>3. Weight(w, closed) \in Nat /\ Weight(l, closed) \in Nat
      BY <1>6, <1>9
    <3> QED
      BY <3>1, <3>2, <3>3
  <2> QED
    BY <2>1
<1>12. /\ acc.state.entries = E
       /\ acc.state.count = IF s = <<>> THEN 0 ELSE N + 1
       /\ s = <<>> <=> open = <<>>
       /\ s = <<>> => closed = <<>>
       /\ Weight(l, Append(closed, open)) = M
       /\ Weight(w, Append(closed, open)) = (N + 1) * K + q + m * M
  BY <1>1, <1>6, <1>11 DEF Covering, w, l
<1>13. y + E = M /\ x + (K + p + m * E) = (N + 1) * K + q + m * M
  <2>1. l[open] = E /\ w[open] = K + p + m * E
    BY <1>6, <1>8, <1>11
  <2>2. /\ Weight(w, Append(closed, open)) = Weight(w, closed) + w[open]
        /\ Weight(l, Append(closed, open)) = Weight(l, closed) + l[open]
    BY <1>6, <1>9
  <2> QED
    BY <1>11, <1>12, <2>1, <2>2
<1>14. Len(t) = M + 1 /\ t # <<>> /\ Payload(t) = q + c.size
  <2>1. Payload(Append(s, c)) = Payload(s) + c.size
    BY <1>10, Zenon
  <2>2. Len(t) = M + 1 /\ t # <<>>
    BY <1>2, <1>11, AppendProperties
  <2> QED
    BY <1>2, <1>11, <2>1, <2>2
<1>15. PICK more : more = Append(open, c)
  OBVIOUS
<1>16. /\ more \in Seq(C) /\ Len(more) = E + 1 /\ more # <<>> /\ Payload(more) = p + c.size
  <2>1. Payload(Append(open, c)) = Payload(open) + c.size
    BY <1>6, <1>10
  <2>2. more \in Seq(C) /\ Len(more) = E + 1 /\ more # <<>>
    <3>1. open \in Seq(C) /\ E = Len(open)
      BY <1>6, <1>11
    <3> QED
      BY <1>15, <3>1, AppendProperties
  <2> QED
    BY <1>11, <1>15, <2>1, <2>2
<1>17. PICK one : one = <<c>>
  OBVIOUS
<1>18. one \in Seq(C) /\ Len(one) = 1 /\ one # <<>> /\ Payload(one) = c.size
  <2>a. <<>> \in Seq(C)
    OBVIOUS
  <2>1. PICK e \in Seq(C) : e = <<>>
    BY <2>a
  <2>2. Payload(Append(e, c)) = Payload(e) + c.size
    BY <1>10, <2>1
  <2>3. Append(e, c) = one
    BY <1>17, <2>1
  <2>4. Payload(e) = 0
    BY <1>10, <2>1
  <2>5. one \in Seq(C) /\ Len(one) = 1 /\ one # <<>>
    BY <1>17
  <2> QED
    BY <1>10, <2>2, <2>3, <2>4, <2>5
<1>19. PICK put : put = Append(closed, open)
  OBVIOUS
<1>20. put \in Seq(Seq(C)) /\ Len(put) = N + 1
  BY <1>11, <1>19
<1>21. CASE next.state.count > acc.state.count /\ acc.state.entries # 0
  <2>1. next.closed = put /\ next.open = one
    BY <1>3, <1>6, <1>17, <1>19, <1>21 DEF Grouped
  <2>2. next.state = AddChunk(acc.state, c.size)
    BY <1>3 DEF Grouped
  <2>4. s # <<>> /\ acc.state.count = N + 1
    <3>1. s # <<>>
      BY <1>11, <1>12, <1>21
    <3> QED
      BY <1>12, <3>1
  <2>a. StartsTable(acc.state, c.size)
    <3> SUFFICES ASSUME ~StartsTable(acc.state, c.size) PROVE FALSE
      OBVIOUS
    <3>1. next.state.count = acc.state.count
      BY <2>2, <2>4 DEF AddChunk
    <3> QED
      BY <1>5, <1>21, <3>1
  <2>3. next.state.count = acc.state.count + 1 /\ next.state.entries = 1
    BY <2>2, <2>a DEF AddChunk
  <2>5. Weight(l, Append(put, one)) = M + 1
    <3>1. Weight(l, Append(put, one)) = Weight(l, put) + l[one]
      BY <1>9, <1>18, <1>20
    <3> QED
      BY <1>8, <1>12, <1>18, <1>19, <3>1
  <2>6. Weight(w, Append(put, one)) = (N + 2) * K + (q + c.size) + m * (M + 1)
    <3>1. Weight(w, Append(put, one)) = Weight(w, put) + w[one]
      BY <1>9, <1>18, <1>20
    <3>2. w[one] = K + c.size + m
      <4>1. w[one] = K + Payload(one) + m * Len(one)
        BY <1>8, <1>18
      <4> QED
        BY <1>18, <4>1
    <3>3. Weight(w, put) = (N + 1) * K + q + m * M
      BY <1>12, <1>19
    <3>4. (N + 2) * K = (N + 1) * K + K /\ (N + 1) * K \in Nat
      <4>1. PICK n \in Nat : n = N + 1
        OBVIOUS
      <4>2. (n + 1) * K = n * K + K /\ n * K \in Nat
        BY OneMore
      <4>3. n + 1 = N + 2
        BY <4>1
      <4> QED
        BY <4>1, <4>2, <4>3
    <3>5. m * (M + 1) = m * M + m /\ m * M \in Nat
      OBVIOUS
    <3>6. PICK z \in Nat, v \in Nat : z = (N + 1) * K /\ v = m * M
      BY <3>4, <3>5
    <3>7. Weight(w, Append(put, one)) = (z + q + v) + (K + c.size + m)
      BY <3>1, <3>2, <3>3, <3>6
    <3>8. (z + q + v) + (K + c.size + m) = (z + K) + (q + c.size) + (v + m)
      <4>1. z \in Nat /\ v \in Nat
        BY <3>6
      <4>2. q \in Nat
        BY <1>11
      <4>3. K \in Nat /\ m \in Nat
        BY <1>6
      <4>4. PICK r \in Nat : r = c.size
        BY <1>10
      <4>5. (z + q + v) + (K + r + m) = (z + K) + (q + r) + (v + m)
        BY <4>3
      <4> QED
        BY <4>4, <4>5
    <3> QED
      BY <3>4, <3>5, <3>6, <3>7, <3>8
  <2> QED
    <3>1. next.state.entries = Len(next.open) /\ next.state.count = Len(next.closed) + 1
      BY <1>18, <1>20, <2>1, <2>3, <2>4
    <3>2. t # <<>> /\ next.open # <<>>
      BY <1>14, <1>18, <2>1
    <3>3. Weight(l, Append(next.closed, next.open)) = Len(t)
      BY <1>14, <2>1, <2>5
    <3>4. Weight(w, Append(next.closed, next.open))
            = (Len(next.closed) + 1) * K + Payload(t) + m * Len(t)
      <4>1. Len(next.closed) + 1 = N + 2
        BY <1>20, <2>1
      <4> QED
        BY <1>14, <2>1, <2>6, <4>1
    <3> QED
      BY <1>2, <1>4, <1>6, <3>1, <3>2, <3>3, <3>4 DEF Covering, w, l
<1>22. CASE ~(next.state.count > acc.state.count /\ acc.state.entries # 0)
  <2>1. next.closed = closed /\ next.open = more
    BY <1>3, <1>6, <1>15, <1>22 DEF Grouped
  <2>2. next.state = AddChunk(acc.state, c.size)
    BY <1>3 DEF Grouped
  <2>3. ~StartsTable(acc.state, c.size)
    <3> SUFFICES ASSUME StartsTable(acc.state, c.size) PROVE FALSE
      OBVIOUS
    <3>1. acc.state.entries # 0 /\ next.state.count = acc.state.count + 1
      BY <2>2 DEF AddChunk, StartsTable
    <3> QED
      BY <1>5, <1>22, <3>1
  <2>4. /\ next.state.count = IF acc.state.count = 0 THEN 1 ELSE acc.state.count
        /\ next.state.entries = E + 1
    BY <1>12, <2>2, <2>3 DEF AddChunk
  <2>5. next.state.count = N + 1
    <3>1. CASE s = <<>>
      <4>1. N = 0
        BY <1>11, <1>12, <3>1
      <4> QED
        BY <1>12, <2>4, <3>1, <4>1
    <3>2. CASE s # <<>>
      <4>1. acc.state.count = N + 1
        BY <1>12, <3>2
      <4>2. N + 1 # 0
        BY <1>11
      <4> QED
        BY <2>4, <4>1, <4>2
    <3> QED
      BY <3>1, <3>2
  <2>6. Weight(l, Append(closed, more)) = M + 1
    <3>1. Weight(l, Append(closed, more)) = y + l[more] /\ l[more] = E + 1
      <4>1. l[more] = Len(more) /\ Len(more) = E + 1
        BY <1>8, <1>16
      <4> QED
        BY <1>9, <1>11, <1>16, <4>1
    <3> QED
      BY <1>13, <3>1
  <2>7. Weight(w, Append(closed, more)) = (N + 1) * K + (q + c.size) + m * (M + 1)
    <3>1. Weight(w, Append(closed, more)) = x + w[more]
      BY <1>9, <1>11, <1>16
    <3>2. w[more] = K + (p + c.size) + m * (E + 1)
      BY <1>8, <1>16
    <3>3. (N + 1) * K \in Nat
      BY OneMore
    <3>4. PICK z \in Nat : z = (N + 1) * K
      BY <3>3
    <3>5. m * (E + 1) = m * E + m /\ m * (M + 1) = m * M + m /\ m * E \in Nat /\ m * M \in Nat
      OBVIOUS
    <3>6. PICK u \in Nat, v \in Nat : u = m * E /\ v = m * M
      BY <3>5
    <3>7. x + (K + p + u) = z + q + v
      BY <1>13, <3>4, <3>6
    <3>8. Weight(w, Append(closed, more)) = x + (K + (p + c.size) + (u + m))
      BY <3>1, <3>2, <3>5, <3>6
    <3>9. x + (K + (p + c.size) + (u + m)) = z + (q + c.size) + (v + m)
      <4>1. z \in Nat /\ v \in Nat /\ u \in Nat
        BY <3>4, <3>6
      <4>2. q \in Nat /\ x \in Nat /\ p \in Nat
        BY <1>11
      <4>3. K \in Nat /\ m \in Nat
        BY <1>6
      <4>4. PICK r \in Nat : r = c.size
        BY <1>10
      <4>0. x + (K + p + u) = z + q + v
        BY <3>7
      <4>a. x + (K + p + u) + r + m = z + q + v + r + m
        BY <4>0
      <4>b. x + (K + p + u) + r + m = x + (K + (p + r) + (u + m))
        BY <4>3
      <4>c. z + q + v + r + m = z + (q + r) + (v + m)
        BY <4>3
      <4>5. x + (K + (p + r) + (u + m)) = z + (q + r) + (v + m)
        BY <4>a, <4>b, <4>c
      <4> QED
        BY <4>4, <4>5
    <3> QED
      BY <3>4, <3>5, <3>6, <3>8, <3>9
  <2> QED
    <3>1. next.state.entries = Len(next.open) /\ next.state.count = Len(next.closed) + 1
      BY <1>11, <1>16, <2>1, <2>4, <2>5
    <3>2. t # <<>> /\ next.open # <<>>
      BY <1>14, <1>16, <2>1
    <3>3. Weight(l, Append(next.closed, next.open)) = Len(t)
      BY <1>14, <2>1, <2>6
    <3>4. Weight(w, Append(next.closed, next.open))
            = (Len(next.closed) + 1) * K + Payload(t) + m * Len(t)
      BY <1>11, <1>14, <2>1, <2>7
    <3> QED
      BY <1>2, <1>4, <1>6, <3>1, <3>2, <3>3, <3>4 DEF Covering, w, l
<1> QED
  BY <1>21, <1>22

\* No chunks are one empty group.
LEMMA CoveringNone ==
    ASSUME NEW C, HaveSizes(C), NEW format
    PROVE  Covering(C, format, <<>>)
<1> DEFINE w == GroupBytes(C, format)
           l == GroupCounts(C)
<1>1. w \in Weights(Seq(C)) /\ l \in Weights(Seq(C)) /\ <<>> \in Seq(C) /\ <<>> \in Seq(Seq(C))
  BY GroupWeights
<1>2. GroupedAll(<<>>) = NoGroups
  BY GroupedSteps
<1>3. l[<<>>] = 0 /\ w[<<>>] = PerTable(format) /\ PerTable(format) \in Nat
  <2>1. PICK e \in Seq(C) : e = <<>>
    BY <1>1
  <2>2. /\ l[e] = Len(e) /\ w[e] = PerTable(format) + Payload(e) + PerEntry(format) * Len(e)
        /\ PerTable(format) \in Nat /\ PerEntry(format) \in {4, 8}
    BY GroupWeights
  <2>3. Len(e) = 0 /\ Payload(e) = 0
    BY <2>1, PayloadOfChunks
  <2> HIDE DEF w, l
  <2> QED
    BY <2>1, <2>2, <2>3
<1> HIDE DEF w, l
<1>4. Weight(w, Append(<<>>, <<>>)) = Weight(w, <<>>) + w[<<>>]
  <2>1. PICK gs \in Seq(Seq(C)), g \in Seq(C) : gs = <<>> /\ g = <<>>
    BY <1>1
  <2>2. Weight(w, Append(gs, g)) = Weight(w, gs) + w[g]
    BY <1>1, WeightAppend
  <2> QED
    BY <2>1, <2>2
<1>5. Weight(l, Append(<<>>, <<>>)) = Weight(l, <<>>) + l[<<>>]
  <2>1. PICK gs \in Seq(Seq(C)), g \in Seq(C) : gs = <<>> /\ g = <<>>
    BY <1>1
  <2>2. Weight(l, Append(gs, g)) = Weight(l, gs) + l[g]
    BY <1>1, WeightAppend
  <2> QED
    BY <2>1, <2>2
<1>6. Weight(w, <<>>) = 0 /\ Weight(l, <<>>) = 0 /\ Payload(<<>>) = 0 /\ Len(<<>>) = 0
  BY WeightEmpty, PayloadOfChunks
<1>7. /\ NoGroups.closed = <<>> /\ NoGroups.open = <<>>
      /\ NoGroups.state.count = 0 /\ NoGroups.state.entries = 0
  BY DEF NoGroups, NoTables
<1>8. (0 + 1) * PerTable(format) + 0 + PerEntry(format) * 0 = PerTable(format)
  BY <1>3, GroupWeights
<1>9. Weight(w, Append(<<>>, <<>>)) = PerTable(format) /\ Weight(l, Append(<<>>, <<>>)) = 0
  BY <1>3, <1>4, <1>5, <1>6
<1>10. Len(<<>>) = 0 /\ Payload(<<>>) = 0
  BY <1>6
<1>11. PICK acc, e : acc = GroupedAll(<<>>) /\ e = <<>>
  OBVIOUS
<1>12. /\ acc.closed = e /\ acc.open = e
       /\ acc.state.count = 0 /\ acc.state.entries = 0
  BY <1>2, <1>7, <1>11
<1>13. /\ Weight(w, Append(e, e)) = PerTable(format) /\ Weight(l, Append(e, e)) = 0
       /\ Len(e) = 0 /\ Payload(e) = 0
  BY <1>9, <1>10, <1>11
<1> HIDE <1>9
<1>14. Weight(w, Append(acc.closed, acc.open))
          = (Len(acc.closed) + 1) * PerTable(format) + Payload(e) + PerEntry(format) * Len(e)
  BY <1>8, <1>12, <1>13
<1>15. Covering(C, format, e)
  BY <1>11, <1>12, <1>13, <1>14 DEF Covering, w, l
<1> QED
  BY <1>11, <1>15

\* Any chunks are covered by their groups.
LEMMA GroupsCover ==
    ASSUME NEW C, HaveSizes(C), NEW format
    PROVE  \A s \in Seq(C) : Covering(C, format, s)
<1> DEFINE T == {s \in Seq(C) : Covering(C, format, s)}
<1>1. <<>> \in T
  BY CoveringNone
<1>2. ASSUME NEW s \in Seq(C), s \in T, NEW c \in C PROVE Append(s, c) \in T
  <2>1. Append(s, c) \in Seq(C)
    OBVIOUS
  <2> QED
    BY <1>2, <2>1, CoveringStep
<1> HIDE DEF T
<1>3. Seq(C) \subseteq T
  BY <1>1, <1>2, AppendInduction
<1> QED
  BY <1>3 DEF T

\* As many ones as elements.
LEMMA TotalOfOnes ==
    ASSUME NEW C
    PROVE  \A s \in Seq(C) : TotalOf([i \in DOMAIN s |-> 1]) = Len(s)
<1> DEFINE w == [c \in C |-> 1]
           T == {s \in Seq(C) : Weight(w, s) = Len(s)}
<1>1. w \in Weights(C) /\ \A c \in C : w[c] = 1
  BY DEF Weights
<1> HIDE DEF w
<1>2. <<>> \in T
  <2>1. <<>> \in Seq(C) /\ Len(<<>>) = 0
    OBVIOUS
  <2> QED
    BY <2>1, WeightEmpty
<1>3. ASSUME NEW s \in Seq(C), s \in T, NEW c \in C PROVE Append(s, c) \in T
  <2>1. Append(s, c) \in Seq(C) /\ Len(Append(s, c)) = Len(s) + 1
    OBVIOUS
  <2>2. Weight(w, Append(s, c)) = Weight(w, s) + w[c]
    BY <1>1, WeightAppend
  <2>3. Weight(w, s) = Len(s)
    BY <1>3
  <2>4. Weight(w, Append(s, c)) = Len(Append(s, c))
    BY <1>1, <2>1, <2>2, <2>3
  <2> QED
    BY <2>1, <2>4
<1> HIDE DEF T
<1>4. Seq(C) \subseteq T
  BY <1>2, <1>3, AppendInduction
<1>5. ASSUME NEW s \in Seq(C) PROVE TotalOf([i \in DOMAIN s |-> 1]) = Len(s)
  <2>1. Weight(w, s) = Len(s)
    BY <1>4 DEF T
  <2>2. Weighed(w, s) = [i \in DOMAIN s |-> 1]
    <3>1. \A i \in DOMAIN s : w[s[i]] = 1
      BY <1>1
    <3> QED
      BY <3>1 DEF Weighed
  <2> QED
    BY <2>1, <2>2 DEF Weight
<1> QED
  BY <1>5

\* Chunks are as long as their data, and count.
LEMMA MeasuredChunks ==
    ASSUME NEW C, HaveSizes(C), NEW s \in Seq(C)
    PROVE  Measured(ChunkPieces(s), Payload(s), Len(s))
<1> DEFINE t == ChunkPieces(s)
<1>1. /\ DOMAIN t = DOMAIN s
      /\ \A i \in DOMAIN s : t[i].is = "chunk" /\ t[i].len = s[i].size /\ s[i].size \in Nat
  <2>1. \A i \in DOMAIN s : s[i] \in C
    OBVIOUS
  <2> QED
    BY <2>1 DEF ChunkPieces, HaveSizes
<1>2. IsPieces(t)
  <2>1. \A p \in Range(t) : p.len \in Nat
    BY <1>1 DEF Range
  <2>2. t \in Seq(Range(t))
    <3>1. PICK n \in Nat : n = Len(s)
      OBVIOUS
    <3>2. DOMAIN t = 1..n
      BY <1>1, <3>1
    <3>3. t = [i \in DOMAIN t |-> t[i]]
      BY DEF ChunkPieces
    <3> HIDE DEF t
    <3>4. t \in [1..n -> Range(t)]
      BY <3>2, <3>3 DEF Range
    <3> QED
      BY <3>4
  <2> QED
    BY <2>1, <2>2 DEF IsPieces
<1> HIDE DEF t
<1>3. [i \in DOMAIN t |-> t[i].len] = [i \in DOMAIN s |-> s[i].size]
  BY <1>1
<1>4. [i \in DOMAIN t |-> IF t[i].is = "chunk" THEN 1 ELSE 0] = [i \in DOMAIN s |-> 1]
  BY <1>1
<1>5. TotalOf([i \in DOMAIN s |-> 1]) = Len(s)
  BY TotalOfOnes
<1>6. Measured(t, Payload(s), Len(s))
  BY <1>2, <1>3, <1>4, <1>5 DEF Measured, Payload
<1> QED
  BY <1>6 DEF t

\* Two sequences of one, one after the other.
LEMMA TwoOnes ==
    ASSUME NEW p, NEW q
    PROVE  <<p>> \o <<q>> = <<p, q>>
<1>0. PICK P : P = {p, q}
  OBVIOUS
<1>1. <<p>> \in Seq(P) /\ <<q>> \in Seq(P) /\ <<p, q>> \in Seq(P)
  BY <1>0
<1>2. PICK a \in Seq(P), b \in Seq(P), c \in Seq(P) : a = <<p>> /\ b = <<q>> /\ c = <<p, q>>
  BY <1>1
<1>3. Len(a) = 1 /\ Len(b) = 1 /\ Len(c) = 2 /\ a[1] = p /\ b[1] = q /\ c[1] = p /\ c[2] = q
  BY <1>2
<1>4. a \in Seq(P) /\ b \in Seq(P) /\ c \in Seq(P)
  BY <1>2
<1>5. a \o b \in Seq(P)
  BY <1>4
<1>6. PICK d \in Seq(P) : d = a \o b
  BY <1>5
<1>7. Len(d) = 2 /\ d[1] = p /\ d[2] = q
  <2>1. /\ Len(a \o b) = Len(a) + Len(b)
        /\ \A i \in 1..Len(a) + Len(b) :
              (a \o b)[i] = IF i <= Len(a) THEN a[i] ELSE b[i - Len(a)]
    BY <1>4, ConcatProperties
  <2>2. 1 \in 1..1 + 1 /\ 2 \in 1..1 + 1 /\ 2 - 1 = 1 /\ 1 + 1 = 2 /\ 1 <= 1 /\ ~(2 <= 1)
    OBVIOUS
  <2> QED
    BY <1>3, <1>6, <2>1, <2>2
<1>8. \A i \in 1..2 : d[i] = c[i]
  BY <1>3, <1>7
<1>9. d = c
  BY <1>4, <1>3, <1>6, <1>7, <1>8
<1> QED
  BY <1>2, <1>6, <1>9

\* Two pieces that are no chunks.
LEMMA MeasuredTwo ==
    ASSUME NEW p, NEW q, p.len \in Nat, q.len \in Nat, p.is # "chunk", q.is # "chunk"
    PROVE  Measured(<<p, q>>, p.len + q.len, 0)
<1>1. Measured(<<p>>, p.len, 0) /\ Measured(<<q>>, q.len, 0)
  BY MeasuredOne
<1>2. Measured(<<p>> \o <<q>>, p.len + q.len, 0 + 0)
  BY <1>1, MeasuredConcat
<1>3. <<p>> \o <<q>> = <<p, q>>
  BY TwoOnes
<1>4. 0 + 0 = 0
  OBVIOUS
<1> QED
  BY <1>2, <1>3, <1>4

----------------------------------------------------------------------------
(* EWF1 segments                                                           *)

\* What a group takes, with and without a second table.
LEMMA GroupSums ==
    ASSUME NEW n \in Nat, NEW p \in Nat, NEW f \in {0, 4}, NEW k \in Nat, k = 24 + 4 * n + f
    PROVE  /\ ((76 + p) + (76 + k)) + 0 = (76 + (76 + 24 + f)) + p + 4 * n
           /\ ((76 + p) + (76 + k)) + (76 + k)
                = (76 + (76 + 24 + f) + (76 + 24 + f)) + p + 8 * n
OBVIOUS

\* The sections of a group.
LEMMA GroupMeasured ==
    ASSUME NEW C, HaveSizes(C), NEW groups, NEW i, NEW next, NEW format,
           groups[i].chunks \in Seq(C),
           groups[i].tableSize = 24 + 4 * Len(groups[i].chunks) + FooterSize(format)
    PROVE  Measured(GroupPieces(groups, i, next, format),
                    GroupBytes(C, format)[groups[i].chunks],
                    GroupCounts(C)[groups[i].chunks])
<1> DEFINE g == groups[i]
           table == Table1(g.chunks, g.sectors + Desc1, g.tableSize)
           a == <<Desc("sectors", g.table, Payload(g.chunks))>>
           b == ChunkPieces(g.chunks)
           c == <<Desc("table", IF WritesTable2(format) THEN g.table2 ELSE next, g.tableSize),
                  table>>
           d == IF WritesTable2(format) THEN <<Desc("table2", next, g.tableSize), table>>
                ELSE <<>>
<1>1. GroupPieces(groups, i, next, format) = a \o b \o c \o d
  BY DEF GroupPieces
<1>2. PICK n \in Nat, p \in Nat, k \in Nat :
         n = Len(g.chunks) /\ p = Payload(g.chunks) /\ k = 24 + 4 * n + FooterSize(format)
  <2>1. Len(g.chunks) \in Nat /\ Payload(g.chunks) \in Nat
    BY PayloadOfChunks
  <2>2. PICK n \in Nat, p \in Nat : n = Len(g.chunks) /\ p = Payload(g.chunks)
    BY <2>1
  <2>3. PICK f \in Nat : f = FooterSize(format)
    BY DEF FooterSize
  <2>4. 24 + 4 * n + f \in Nat
    OBVIOUS
  <2> QED
    BY <2>2, <2>3, <2>4
<1>3. table.len = k /\ table.is # "chunk"
  BY <1>2 DEF Table1
<1>4. Measured(a, Desc1, 0)
  <2>1. /\ Desc("sectors", g.table, Payload(g.chunks)).len = Desc1
        /\ Desc("sectors", g.table, Payload(g.chunks)).is # "chunk"
        /\ Desc1 \in Nat
    BY DEF Desc, Desc1
  <2> QED
    BY <2>1, MeasuredOne
<1>5. Measured(b, p, n)
  BY <1>2, MeasuredChunks
<1> HIDE DEF table
<1>6. ASSUME NEW type, NEW to PROVE Measured(<<Desc(type, to, g.tableSize), table>>, Desc1 + k, 0)
  <2>1. /\ Desc(type, to, g.tableSize).len = Desc1
        /\ Desc(type, to, g.tableSize).is # "chunk"
        /\ Desc1 \in Nat
    BY DEF Desc, Desc1
  <2> QED
    BY <1>2, <1>3, <2>1, MeasuredTwo
<1>7. Measured(c, Desc1 + k, 0)
  BY <1>6
<1>8. Measured(d, IF WritesTable2(format) THEN Desc1 + k ELSE 0, 0)
  BY <1>6, MeasuredEmpty
<1> HIDE DEF a, b, c, d
<1>9. Measured(a \o b, Desc1 + p, 0 + n)
  BY <1>4, <1>5, MeasuredConcat
<1>10. Measured(a \o b \o c, (Desc1 + p) + (Desc1 + k), (0 + n) + 0)
  BY <1>7, <1>9, MeasuredConcat
<1>11. Measured(a \o b \o c \o d,
                ((Desc1 + p) + (Desc1 + k)) + (IF WritesTable2(format) THEN Desc1 + k ELSE 0),
                ((0 + n) + 0) + 0)
  BY <1>8, <1>10, MeasuredConcat
<1>12. /\ GroupBytes(C, format)[g.chunks] = PerTable(format) + p + PerEntry(format) * n
       /\ GroupCounts(C)[g.chunks] = n
  <2>1. PICK s \in Seq(C) : s = g.chunks
    OBVIOUS
  <2>2. /\ GroupCounts(C)[s] = Len(s)
        /\ GroupBytes(C, format)[s] = PerTable(format) + Payload(s) + PerEntry(format) * Len(s)
    BY GroupWeights
  <2>3. n = Len(s) /\ p = Payload(s)
    BY <1>2, <2>1
  <2> QED
    BY <2>1, <2>2, <2>3
<1>13. ((Desc1 + p) + (Desc1 + k)) + (IF WritesTable2(format) THEN Desc1 + k ELSE 0)
         = PerTable(format) + p + PerEntry(format) * n
  <2>1. PICK f \in {0, 4} : f = FooterSize(format)
    BY DEF FooterSize
  <2>2. k = 24 + 4 * n + f
    BY <1>2, <2>1
  <2>3. CASE WritesTable2(format)
    <3>1. PerEntry(format) = 8 /\ PerTable(format) = 76 + (76 + 24 + f) + (76 + 24 + f)
      BY <2>1, <2>3 DEF PerTable, PerEntry, Desc1
    <3>2. ((76 + p) + (76 + k)) + (76 + k) = (76 + (76 + 24 + f) + (76 + 24 + f)) + p + 8 * n
      BY <2>2, GroupSums
    <3> QED
      BY <2>3, <3>1, <3>2 DEF Desc1
  <2>4. CASE ~WritesTable2(format)
    <3>1. PerEntry(format) = 4 /\ PerTable(format) = 76 + (76 + 24 + f)
      BY <2>1, <2>4 DEF PerTable, PerEntry, Desc1
    <3>2. ((76 + p) + (76 + k)) + 0 = (76 + (76 + 24 + f)) + p + 4 * n
      BY <2>2, GroupSums
    <3> QED
      BY <2>4, <3>1, <3>2 DEF Desc1
  <2> QED
    BY <2>3, <2>4
<1>14. ((0 + n) + 0) + 0 = n
  OBVIOUS
<1> QED
  BY <1>1, <1>11, <1>12, <1>13, <1>14

\* The groups laid out are those of the chunks, with the tables they need.
LEMMA LayoutsAre ==
    ASSUME NEW chunks, NEW at, NEW format
    PROVE  /\ TableLayouts(chunks, at, format)
                = [i \in DOMAIN TableGroups(chunks) |-> TableLayouts(chunks, at, format)[i]]
           /\ \A i \in DOMAIN TableGroups(chunks) :
              LET layout == TableLayouts(chunks, at, format)[i]
              IN  /\ layout.chunks = TableGroups(chunks)[i]
                  /\ layout.tableSize
                       = 24 + 4 * Len(TableGroups(chunks)[i]) + FooterSize(format)
<1> DEFINE groups == TableGroups(chunks)
<1> HIDE DEF groups
<1>1. PICK g : g = groups
  OBVIOUS
<1> QED
  BY DEF TableLayouts, LayGroups, groups

\* An optional section.
Bytes1(s, o, context) == IF Size1(s, o, context) = 0 THEN 0 ELSE Desc1 + Size1(s, o, context)

\* It is one piece of that length or none, and no chunk.
LEMMA SectionMeasured ==
    ASSUME NEW s \in Optional, NEW next, NEW o, NEW context
    PROVE  /\ Measured(Section1(s, next, o, context), Bytes1(s, o, context), 0)
           /\ Bytes1(s, o, context) \in Nat
           /\ Bytes1(s, o, context) <= IF s \in Configured(o) THEN Desc1 + SectionSize[s] ELSE 0
<1>1. SectionSize[s] \in Nat \ {0}
  BY LayoutAssumption
<1>2. PICK k \in Nat : k = Size1(s, o, context)
  BY <1>1 DEF Size1, PayloadOf
<1>3. k # 0 => s \in Configured(o) /\ k = SectionSize[s]
  BY <1>2 DEF Size1, PayloadOf
<1>4. /\ Desc(s, next, k).len = Desc1 /\ Desc(s, next, k).is # "chunk" /\ Desc1 \in Nat
      /\ Opaque(s, k).len = k /\ Opaque(s, k).is # "chunk"
  BY DEF Desc, Opaque, Desc1
<1>5. Measured(<<Desc(s, next, k), Opaque(s, k)>>, Desc1 + k, 0)
  BY <1>4, MeasuredTwo
<1>6. Measured(Section1(s, next, o, context), Bytes1(s, o, context), 0)
  BY <1>2, <1>5, MeasuredEmpty DEF Section1, Bytes1
<1>7. Bytes1(s, o, context) \in Nat
      /\ Bytes1(s, o, context) <= IF s \in Configured(o) THEN Desc1 + SectionSize[s] ELSE 0
  BY <1>1, <1>2, <1>3 DEF Bytes1, Desc1
<1> QED
  BY <1>6, <1>7

\* The groups of the chunks are sequences of them.
LEMMA GroupsOf ==
    ASSUME NEW C, HaveSizes(C), NEW chunks \in Seq(C)
    PROVE  /\ TableGroups(chunks) \in Seq(Seq(C))
           /\ Weight(GroupCounts(C), TableGroups(chunks)) = Len(chunks)
<1>1. GroupedAll(chunks) \in GroupStates(C)
  BY GroupedSteps
<1>2. PICK all \in GroupStates(C) : all = GroupedAll(chunks)
  BY <1>1
<1>3. Append(all.closed, all.open) \in Seq(Seq(C))
  BY <1>2 DEF GroupStates
<1>4. Covering(C, "ewf1", chunks)
  BY GroupsCover
<1> QED
  BY <1>2, <1>3, <1>4 DEF Covering, TableGroups

\* The sections of the groups of the chunks, whatever they are linked to.
LEMMA GroupsMeasured ==
    ASSUME NEW C, HaveSizes(C), NEW chunks \in Seq(C), NEW at, NEW format, NEW layouts,
           layouts = TableLayouts(chunks, at, format), NEW gs,
           gs = [i \in DOMAIN layouts |-> gs[i]],
           \A i \in DOMAIN layouts : \E next : gs[i] = GroupPieces(layouts, i, next, format)
    PROVE  Measured(FlattenSeq(gs), Weight(GroupBytes(C, format), TableGroups(chunks)),
                    Len(chunks))
<1>1. PICK groups \in Seq(Seq(C)) : groups = TableGroups(chunks)
  BY GroupsOf
<1>2. PICK n \in Nat : n = Len(groups)
  BY <1>1
<1>3. DOMAIN groups = 1..n /\ \A i \in 1..n : groups[i] \in Seq(C)
  BY <1>1, <1>2
<1>4. /\ DOMAIN layouts = 1..n
      /\ \A i \in 1..n : /\ layouts[i].chunks = groups[i]
                         /\ layouts[i].tableSize = 24 + 4 * Len(groups[i]) + FooterSize(format)
  <2>1. /\ layouts = [i \in DOMAIN groups |-> layouts[i]]
        /\ \A i \in DOMAIN groups :
              /\ layouts[i].chunks = groups[i]
              /\ layouts[i].tableSize = 24 + 4 * Len(groups[i]) + FooterSize(format)
    <3>1. /\ TableLayouts(chunks, at, format)
               = [i \in DOMAIN TableGroups(chunks) |-> TableLayouts(chunks, at, format)[i]]
          /\ \A i \in DOMAIN TableGroups(chunks) :
                /\ TableLayouts(chunks, at, format)[i].chunks = TableGroups(chunks)[i]
                /\ TableLayouts(chunks, at, format)[i].tableSize
                     = 24 + 4 * Len(TableGroups(chunks)[i]) + FooterSize(format)
      BY LayoutsAre
    <3> QED
      BY <1>1, <3>1
  <2> QED
    BY <1>3, <2>1
<1> DEFINE ls == Weighed(GroupBytes(C, format), groups)
           ms == Weighed(GroupCounts(C), groups)
<1>5. GroupBytes(C, format) \in Weights(Seq(C)) /\ GroupCounts(C) \in Weights(Seq(C))
  BY GroupWeights
<1>6. /\ ls \in Seq(Nat) /\ ms \in Seq(Nat) /\ Len(ls) = n /\ Len(ms) = n
      /\ \A i \in 1..n : /\ ls[i] = GroupBytes(C, format)[groups[i]]
                         /\ ms[i] = GroupCounts(C)[groups[i]]
  <2>1. PICK v \in Weights(Seq(C)), w \in Weights(Seq(C)) :
           v = GroupBytes(C, format) /\ w = GroupCounts(C)
    BY <1>5
  <2>2. /\ Weighed(v, groups) \in Seq(Nat) /\ Len(Weighed(v, groups)) = Len(groups)
        /\ \A i \in DOMAIN groups : Weighed(v, groups)[i] = v[groups[i]]
    BY WeighedSeq
  <2>3. /\ Weighed(w, groups) \in Seq(Nat) /\ Len(Weighed(w, groups)) = Len(groups)
        /\ \A i \in DOMAIN groups : Weighed(w, groups)[i] = w[groups[i]]
    BY WeighedSeq
  <2>4. ls = Weighed(v, groups) /\ ms = Weighed(w, groups)
    BY <2>1
  <2> HIDE DEF ls, ms
  <2> QED
    BY <1>2, <1>3, <2>1, <2>2, <2>3, <2>4
<1> HIDE DEF ls, ms
<1>7. ASSUME NEW i \in 1..n PROVE Measured(gs[i], ls[i], ms[i])
  <2>1. PICK next : gs[i] = GroupPieces(layouts, i, next, format)
    BY <1>4
  <2>2. layouts[i].chunks \in Seq(C)
        /\ layouts[i].tableSize = 24 + 4 * Len(layouts[i].chunks) + FooterSize(format)
    BY <1>3, <1>4
  <2>3. Measured(GroupPieces(layouts, i, next, format),
                 GroupBytes(C, format)[layouts[i].chunks], GroupCounts(C)[layouts[i].chunks])
    BY <2>2, GroupMeasured
  <2>4. /\ ls[i] = GroupBytes(C, format)[layouts[i].chunks]
        /\ ms[i] = GroupCounts(C)[layouts[i].chunks]
    BY <1>4, <1>6
  <2> QED
    BY <2>1, <2>3, <2>4
<1>8. PICK S : gs \in Seq(S) /\ Len(gs) = n
  <2>1. gs = [i \in 1..n |-> gs[i]]
    BY <1>4
  <2>2. PICK S : S = {gs[i] : i \in 1..n}
    OBVIOUS
  <2>3. gs \in [1..n -> S]
    BY <2>1, <2>2
  <2>4. gs \in Seq(S) /\ Len(gs) = n
    BY <1>2, <2>3
  <2> QED
    BY <2>4
<1>9. Measured(FlattenSeq(gs), TotalOf(ls), TotalOf(ms))
  BY <1>6, <1>7, <1>8, MeasuredFlatten
<1>10. TotalOf(ms) = Len(chunks)
  BY <1>1, GroupsOf DEF Weight, ms
<1>11. TotalOf(ls) = Weight(GroupBytes(C, format), TableGroups(chunks))
  BY <1>1 DEF Weight, ls
<1> QED
  BY <1>9, <1>10, <1>11

\* The sums behind an estimate.
LEMMA TablesTwice ==
    ASSUME NEW t \in Nat, NEW n \in Nat, NEW p \in Nat
    PROVE  t * 284 + p + 8 * n = (t * 104 + 4 * n) + (t * 104 + 4 * n) + t * 76 + p
OBVIOUS

\* One table a group, without footers.
LEMMA TablesOnce ==
    ASSUME NEW t \in Nat, NEW n \in Nat, NEW p \in Nat
    PROVE  t * 176 + p + 4 * n = (t * 100 + 4 * n) + 0 + t * 76 + p
OBVIOUS

\* One table a group, with footers.
LEMMA TablesWithFooters ==
    ASSUME NEW t \in Nat, NEW n \in Nat, NEW p \in Nat
    PROVE  t * 180 + p + 4 * n = (t * 104 + 4 * n) + 0 + t * 76 + p
OBVIOUS

\* What tables take is a number.
LEMMA TablesNat ==
    ASSUME NEW t \in Nat, NEW n \in Nat
    PROVE  t * 104 + 4 * n \in Nat /\ t * 100 + 4 * n \in Nat
OBVIOUS

\* The bytes of the groups are what the code estimates for them.
LEMMA GroupsEstimated ==
    ASSUME NEW C, HaveSizes(C), NEW chunks \in Seq(C), chunks # <<>>, NEW format,
           NEW t, t = GroupedAll(chunks).state.count,
           NEW tableBytes,
           tableBytes = t * (Desc1 + 24 + FooterSize(format)) + 4 * Len(chunks)
    PROVE  /\ Weight(GroupBytes(C, format), TableGroups(chunks))
                = tableBytes + (IF WritesTable2(format) THEN tableBytes ELSE 0)
                  + t * Desc1 + Payload(chunks)
           /\ t \in Nat /\ tableBytes \in Nat
<1>1. GroupedAll(chunks) \in GroupStates(C)
  BY GroupedSteps
<1>2. PICK all \in GroupStates(C) : all = GroupedAll(chunks)
  BY <1>1
<1>3. Covering(C, format, chunks)
  BY GroupsCover
<1>4. PICK n \in Nat, p \in Nat : n = Len(chunks) /\ p = Payload(chunks)
  <2>1. Len(chunks) \in Nat /\ Payload(chunks) \in Nat
    BY PayloadOfChunks
  <2> QED
    BY <2>1
<1>5. t \in Nat /\ t = Len(all.closed) + 1
  <2>1. Len(all.closed) \in Nat
    BY <1>2 DEF GroupStates
  <2>2. all.state.count = Len(all.closed) + 1
    BY <1>2, <1>3 DEF Covering
  <2> QED
    BY <1>2, <2>1, <2>2
<1>a. PICK u \in Nat : u = t
  BY <1>5
<1>b. u \in Nat /\ n \in Nat /\ p \in Nat
  BY <1>4, <1>a
<1>6. Weight(GroupBytes(C, format), TableGroups(chunks))
        = t * PerTable(format) + p + PerEntry(format) * n
  BY <1>2, <1>3, <1>4, <1>5 DEF Covering, TableGroups
<1>7. PICK f \in {0, 4} : f = FooterSize(format)
  BY DEF FooterSize
<1>8. tableBytes = t * (76 + 24 + f) + 4 * n
  BY <1>4, <1>7 DEF Desc1
<1>9. CASE WritesTable2(format)
  <2>1. f = 4
    BY <1>7, <1>9 DEF WritesTable2, FooterSize
  <2>2. PerEntry(format) = 8 /\ PerTable(format) = 284
    <3>1. FooterSize(format) = 4
      BY <1>7, <2>1
    <3>2. PerTable(format) = 76 + 76 + 24 + 4 + (76 + 24 + 4)
      BY <1>9, <3>1 DEF PerTable, Desc1
    <3>3. 76 + 76 + 24 + 4 + (76 + 24 + 4) = 284
      OBVIOUS
    <3> QED
      BY <1>9, <3>2, <3>3 DEF PerEntry
  <2>3. tableBytes = t * 104 + 4 * n
    <3>1. 76 + 24 + 4 = 104
      OBVIOUS
    <3> QED
      BY <1>8, <2>1, <3>1
  <2>4. u * 284 + p + 8 * n = (u * 104 + 4 * n) + (u * 104 + 4 * n) + u * 76 + p
    BY <1>b, TablesTwice
  <2>5. Weight(GroupBytes(C, format), TableGroups(chunks)) = tableBytes + tableBytes + t * 76 + p
    BY <1>6, <1>a, <2>2, <2>3, <2>4
  <2>6. tableBytes \in Nat
    <3>1. t * 104 + 4 * n \in Nat
      BY <1>4, <1>5, TablesNat
    <3> QED
      BY <2>3, <3>1
  <2> QED
    BY <1>4, <1>5, <1>9, <2>5, <2>6 DEF Desc1
<1>10. CASE ~WritesTable2(format)
  <2>1. PerEntry(format) = 4 /\ PerTable(format) = 176 + f
    BY <1>7, <1>10 DEF PerTable, PerEntry, Desc1
  <2>2. t * (176 + f) + p + 4 * n = (t * (76 + 24 + f) + 4 * n) + 0 + t * 76 + p
        /\ t * (76 + 24 + f) + 4 * n \in Nat
    <3>1. CASE f = 0
      <4>1. 176 + 0 = 176 /\ 76 + 24 + 0 = 100
        OBVIOUS
      <4>2. /\ u * 176 + p + 4 * n = (u * 100 + 4 * n) + 0 + u * 76 + p
            /\ u * 100 + 4 * n \in Nat
        BY <1>b, TablesOnce, TablesNat
      <4> QED
        BY <1>a, <3>1, <4>1, <4>2
    <3>2. CASE f = 4
      <4>1. 176 + 4 = 180 /\ 76 + 24 + 4 = 104
        OBVIOUS
      <4>2. /\ u * 180 + p + 4 * n = (u * 104 + 4 * n) + 0 + u * 76 + p
            /\ u * 104 + 4 * n \in Nat
        BY <1>b, TablesWithFooters, TablesNat
      <4> QED
        BY <1>a, <3>2, <4>1, <4>2
    <3> QED
      BY <1>7, <3>1, <3>2
  <2>3. Weight(GroupBytes(C, format), TableGroups(chunks)) = tableBytes + 0 + t * 76 + p
    BY <1>6, <1>8, <2>1, <2>2
  <2> QED
    BY <1>4, <1>5, <1>8, <1>10, <2>2, <2>3 DEF Desc1
<1> QED
  BY <1>9, <1>10

\* A segment's pieces: the sections asked for that it has, the volume, the
\* groups of chunks and the descriptor at its end.
Ewf1Bytes(C, chunks, o, context) ==
    FileHeader1 + Bytes1("header", o, context) + Bytes1("header2", o, context)
    + Bytes1("xheader", o, context) + (Desc1 + VolumeSize(o.format))
    + Bytes1("session", o, context) + Weight(GroupBytes(C, o.format), TableGroups(chunks))
    + Bytes1("error2", o, context) + Bytes1("digest", o, context)
    + Bytes1("xhash", o, context) + Desc1

\* The pieces of an EWF1 segment have these bytes and no chunks but its own.
LEMMA Ewf1Measured ==
    ASSUME NEW C, HaveSizes(C), NEW chunks \in Seq(C), NEW o, NEW context
    PROVE  Measured(Ewf1Pieces(chunks, o, context), Ewf1Bytes(C, chunks, o, context), Len(chunks))
<1>1. PICK plan : plan = PlanEwf1(chunks, o, context)
  OBVIOUS
<1>2. PICK groups : groups = plan.groups
  OBVIOUS
<1>3. PICK at : groups = TableLayouts(chunks, at, o.format)
  BY <1>1, <1>2 DEF PlanEwf1
<1> DEFINE part(s, next) == Section1(s, next, o, context)
           bytes(s) == Bytes1(s, o, context)
           first == <<[is |-> "header", len |-> FileHeader1, format |-> "ewf1",
                       number |-> context.number]>>
           header == part("header", plan.header2)
           header2 == part("header2", plan.xheader)
           xheader == part("xheader", plan.volume)
           volume == <<Desc("volume", plan.session, VolumeSize(o.format)), Volume(o, context)>>
           session == part("session", groups[1].sectors)
           gs == [i \in DOMAIN groups |->
                    GroupPieces(groups, i, IF i = Len(groups) THEN plan.error2
                                           ELSE groups[i + 1].sectors, o.format)]
           middle == FlattenSeq(gs)
           error2 == part("error2", plan.digest)
           digest == part("digest", plan.xhash)
           xhash == part("xhash", plan.done)
           last == <<Desc(context.terminal, plan.done, 0)>>
           table == Weight(GroupBytes(C, o.format), TableGroups(chunks))
<1>4. Ewf1Pieces(chunks, o, context)
        = first \o header \o header2 \o xheader \o volume \o session \o middle
          \o error2 \o digest \o xhash \o last
  BY <1>1, <1>2 DEF Ewf1Pieces, PlannedPieces
<1>5. Measured(first, FileHeader1, 0)
  <2> DEFINE p == [is |-> "header", len |-> FileHeader1, format |-> "ewf1",
                   number |-> context.number]
  <2>1. p.len = FileHeader1 /\ p.is # "chunk" /\ FileHeader1 \in Nat
    BY DEF FileHeader1
  <2> HIDE DEF p
  <2>2. Measured(<<p>>, FileHeader1, 0)
    BY <2>1, MeasuredOne
  <2> QED
    BY <2>2 DEF p
<1>6. Measured(volume, Desc1 + VolumeSize(o.format), 0)
  <2>1. VolumeSize(o.format) \in Nat /\ Desc1 \in Nat
    BY DEF VolumeSize, Desc1
  <2>2. /\ Desc("volume", plan.session, VolumeSize(o.format)).len = Desc1
        /\ Desc("volume", plan.session, VolumeSize(o.format)).is # "chunk"
        /\ Volume(o, context).len = VolumeSize(o.format) /\ Volume(o, context).is # "chunk"
    BY DEF Desc, Volume
  <2> QED
    BY <2>1, <2>2, MeasuredTwo
<1>7. Measured(last, Desc1, 0)
  <2>1. /\ Desc(context.terminal, plan.done, 0).len = Desc1 /\ Desc1 \in Nat
        /\ Desc(context.terminal, plan.done, 0).is # "chunk"
    BY DEF Desc, Desc1
  <2> QED
    BY <2>1, MeasuredOne
<1>8. Measured(middle, table, Len(chunks))
  <2>1. gs = [i \in DOMAIN groups |-> gs[i]]
        /\ \A i \in DOMAIN groups : \E next : gs[i] = GroupPieces(groups, i, next, o.format)
    OBVIOUS
  <2> HIDE DEF gs
  <2>2. Measured(FlattenSeq(gs), Weight(GroupBytes(C, o.format), TableGroups(chunks)), Len(chunks))
    BY <1>3, <2>1, GroupsMeasured
  <2> QED
    BY <2>2
<1>9. \A s \in Optional : \A next : Measured(part(s, next), bytes(s), 0)
  BY SectionMeasured
<1>10. {"header", "header2", "xheader", "session", "error2", "digest", "xhash"} \subseteq Optional
  BY DEF Optional, FirstOnly1, LastOnly1
<1>11. /\ Measured(header, bytes("header"), 0) /\ Measured(header2, bytes("header2"), 0)
       /\ Measured(xheader, bytes("xheader"), 0) /\ Measured(session, bytes("session"), 0)
       /\ Measured(error2, bytes("error2"), 0) /\ Measured(digest, bytes("digest"), 0)
       /\ Measured(xhash, bytes("xhash"), 0)
  BY <1>9, <1>10
<1>12. PICK n \in Nat : n = Len(chunks)
  OBVIOUS
<1>13. 0 + 0 = 0 /\ 0 + n = n /\ n + 0 = n
  BY <1>12
<1> DEFINE b1 == FileHeader1 + bytes("header")
           b2 == b1 + bytes("header2")
           b3 == b2 + bytes("xheader")
           b4 == b3 + (Desc1 + VolumeSize(o.format))
           b5 == b4 + bytes("session")
           b6 == b5 + table
           b7 == b6 + bytes("error2")
           b8 == b7 + bytes("digest")
           b9 == b8 + bytes("xhash")
<1>14. Ewf1Bytes(C, chunks, o, context) = b9 + Desc1
  BY DEF Ewf1Bytes
<1> HIDE DEF first, header, header2, xheader, volume, session, middle, error2, digest, xhash,
             last, table, bytes, b1, b2, b3, b4, b5, b6, b7, b8, b9
<1> DEFINE s1 == first \o header
           s2 == s1 \o header2
           s3 == s2 \o xheader
           s4 == s3 \o volume
           s5 == s4 \o session
           s6 == s5 \o middle
           s7 == s6 \o error2
           s8 == s7 \o digest
           s9 == s8 \o xhash
<1>15. Ewf1Pieces(chunks, o, context) = s9 \o last
  BY <1>4
<1> HIDE DEF s1, s2, s3, s4, s5, s6, s7, s8, s9
<1>21. Measured(s1, b1, 0)
  <2>1. Measured(first \o header, FileHeader1 + bytes("header"), 0 + 0)
    BY <1>5, <1>11, MeasuredConcat
  <2> QED
    BY <1>13, <2>1 DEF s1, b1
<1>22. Measured(s2, b2, 0)
  <2>1. Measured(s1 \o header2, b1 + bytes("header2"), 0 + 0)
    BY <1>11, <1>21, MeasuredConcat
  <2> QED
    BY <1>13, <2>1 DEF s2, b2
<1>23. Measured(s3, b3, 0)
  <2>1. Measured(s2 \o xheader, b2 + bytes("xheader"), 0 + 0)
    BY <1>11, <1>22, MeasuredConcat
  <2> QED
    BY <1>13, <2>1 DEF s3, b3
<1>24. Measured(s4, b4, 0)
  <2>1. Measured(s3 \o volume, b3 + (Desc1 + VolumeSize(o.format)), 0 + 0)
    BY <1>6, <1>23, MeasuredConcat
  <2> QED
    BY <1>13, <2>1 DEF s4, b4
<1>25. Measured(s5, b5, 0)
  <2>1. Measured(s4 \o session, b4 + bytes("session"), 0 + 0)
    BY <1>11, <1>24, MeasuredConcat
  <2> QED
    BY <1>13, <2>1 DEF s5, b5
<1>26. Measured(s6, b6, n)
  <2>1. Measured(s5 \o middle, b5 + table, 0 + Len(chunks))
    BY <1>8, <1>25, MeasuredConcat
  <2> QED
    BY <1>12, <1>13, <2>1 DEF s6, b6
<1>27. Measured(s7, b7, n)
  <2>1. Measured(s6 \o error2, b6 + bytes("error2"), n + 0)
    BY <1>11, <1>26, MeasuredConcat
  <2> QED
    BY <1>13, <2>1 DEF s7, b7
<1>28. Measured(s8, b8, n)
  <2>1. Measured(s7 \o digest, b7 + bytes("digest"), n + 0)
    BY <1>11, <1>27, MeasuredConcat
  <2> QED
    BY <1>13, <2>1 DEF s8, b8
<1>29. Measured(s9, b9, n)
  <2>1. Measured(s8 \o xhash, b8 + bytes("xhash"), n + 0)
    BY <1>11, <1>28, MeasuredConcat
  <2> QED
    BY <1>13, <2>1 DEF s9, b9
<1>30. Measured(s9 \o last, b9 + Desc1, n + 0)
  BY <1>7, <1>29, MeasuredConcat
<1> QED
  BY <1>12, <1>13, <1>14, <1>15, <1>30

\* The bytes of an EWF1 segment against its estimate.
LEMMA Ewf1Sums ==
    ASSUME NEW h \in Nat, NEW d \in Nat, NEW v \in Nat, NEW b \in Nat, NEW e \in Nat,
           NEW f \in Nat, NEW p \in Nat,
           NEW a1 \in Nat, NEW a2 \in Nat, NEW a3 \in Nat, NEW a4 \in Nat, NEW a5 \in Nat,
           NEW a6 \in Nat, NEW a7 \in Nat,
           NEW c1 \in Nat, NEW c2 \in Nat, NEW c3 \in Nat, NEW c4 \in Nat, NEW c5 \in Nat,
           NEW c6 \in Nat, NEW c7 \in Nat,
           a1 <= c1, a2 <= c2, a3 <= c3, a4 <= c4, a5 <= c5, a6 <= c6, a7 <= c7
    PROVE  h + a1 + a2 + a3 + (d + v) + a4 + (b + e + f + p) + a5 + a6 + a7 + d
             <= h + c1 + c2 + c3 + d + v + c4 + b + e + f + p + c5 + c6 + c7 + d
OBVIOUS

\* What an optional section is estimated to take.
Allowed1(s, o) == IF s \in Configured(o) THEN Desc1 + SectionSize[s] ELSE 0

\* No EWF1 segment is longer than it was estimated.
LEMMA Ewf1Estimated ==
    ASSUME NEW C, HaveSizes(C), NEW chunks \in Seq(C), chunks # <<>>, NEW o, NEW context
    PROVE  Ewf1Segment(chunks, o, context).length
             <= EstimateEwf1(Len(chunks), Payload(chunks), GroupedAll(chunks).state.count,
                             o, SectionSize)
<1>1. Ewf1Segment(chunks, o, context).length = Ewf1Bytes(C, chunks, o, context)
  <2>1. Measured(Ewf1Pieces(chunks, o, context), Ewf1Bytes(C, chunks, o, context), Len(chunks))
    BY Ewf1Measured
  <2> QED
    BY <2>1, AssembledLength DEF Ewf1Segment
<1>2. PICK t, tableBytes, second :
         /\ t = GroupedAll(chunks).state.count
         /\ tableBytes = t * (Desc1 + 24 + FooterSize(o.format)) + 4 * Len(chunks)
         /\ second = IF WritesTable2(o.format) THEN tableBytes ELSE 0
  OBVIOUS
<1>3. PICK p \in Nat : p = Payload(chunks)
  BY PayloadOfChunks
<1>4. PICK f : f = t * Desc1
  OBVIOUS
<1>5. PICK w : w = Weight(GroupBytes(C, o.format), TableGroups(chunks))
  OBVIOUS
<1>6. /\ w = tableBytes + second + f + p
      /\ tableBytes \in Nat /\ t \in Nat
  BY <1>2, <1>3, <1>4, <1>5, GroupsEstimated
<1>7. second \in Nat /\ f \in Nat
  <2>1. Desc1 = 76
    BY DEF Desc1
  <2>2. f \in Nat
    BY <1>4, <1>6, <2>1
  <2> QED
    BY <1>2, <1>6, <2>2
<1>8. PICK h \in Nat, d \in Nat, v \in Nat :
         h = FileHeader1 /\ d = Desc1 /\ v = VolumeSize(o.format)
  BY DEF FileHeader1, Desc1, VolumeSize
<1>9. ASSUME NEW s \in Optional
      PROVE  /\ Bytes1(s, o, context) \in Nat /\ Allowed1(s, o) \in Nat
             /\ Bytes1(s, o, context) <= Allowed1(s, o)
  <2>1. SectionSize[s] \in Nat
    BY LayoutAssumption
  <2> QED
    BY <2>1, SectionMeasured DEF Allowed1, Desc1
<1>10. {"header", "header2", "xheader", "session", "error2", "digest", "xhash"} \subseteq Optional
  BY DEF Optional, FirstOnly1, LastOnly1
<1>11. PICK a1 \in Nat, a2 \in Nat, a3 \in Nat, a4 \in Nat, a5 \in Nat, a6 \in Nat, a7 \in Nat :
          /\ a1 = Bytes1("header", o, context) /\ a2 = Bytes1("header2", o, context)
          /\ a3 = Bytes1("xheader", o, context) /\ a4 = Bytes1("session", o, context)
          /\ a5 = Bytes1("error2", o, context) /\ a6 = Bytes1("digest", o, context)
          /\ a7 = Bytes1("xhash", o, context)
  BY <1>9, <1>10
<1>12. PICK c1 \in Nat, c2 \in Nat, c3 \in Nat, c4 \in Nat, c5 \in Nat, c6 \in Nat, c7 \in Nat :
          /\ c1 = Allowed1("header", o) /\ c2 = Allowed1("header2", o)
          /\ c3 = Allowed1("xheader", o) /\ c4 = Allowed1("session", o)
          /\ c5 = Allowed1("error2", o) /\ c6 = Allowed1("digest", o)
          /\ c7 = Allowed1("xhash", o)
  BY <1>9, <1>10
<1>13. a1 <= c1 /\ a2 <= c2 /\ a3 <= c3 /\ a4 <= c4 /\ a5 <= c5 /\ a6 <= c6 /\ a7 <= c7
  BY <1>9, <1>10, <1>11, <1>12
<1>14. Ewf1Bytes(C, chunks, o, context)
         = h + a1 + a2 + a3 + (d + v) + a4 + (tableBytes + second + f + p) + a5 + a6 + a7 + d
  BY <1>5, <1>6, <1>8, <1>11 DEF Ewf1Bytes
<1>15. EstimateEwf1(Len(chunks), Payload(chunks), GroupedAll(chunks).state.count, o, SectionSize)
         = h + c1 + c2 + c3 + d + v + c4 + tableBytes + second + f + p + c5 + c6 + c7 + d
  BY <1>2, <1>3, <1>4, <1>8, <1>12 DEF EstimateEwf1, Allowed1
<1>16. h + a1 + a2 + a3 + (d + v) + a4 + (tableBytes + second + f + p) + a5 + a6 + a7 + d
         <= h + c1 + c2 + c3 + d + v + c4 + tableBytes + second + f + p + c5 + c6 + c7 + d
  <2>1. tableBytes \in Nat /\ second \in Nat /\ f \in Nat
    BY <1>6, <1>7
  <2>2. PICK x \in Nat, y \in Nat, z \in Nat : x = tableBytes /\ y = second /\ z = f
    BY <2>1
  <2>3. h + a1 + a2 + a3 + (d + v) + a4 + (x + y + z + p) + a5 + a6 + a7 + d
          <= h + c1 + c2 + c3 + d + v + c4 + x + y + z + p + c5 + c6 + c7 + d
    <3>1. /\ h \in Nat /\ d \in Nat /\ v \in Nat /\ x \in Nat /\ y \in Nat /\ z \in Nat /\ p \in Nat
          /\ a1 \in Nat /\ a2 \in Nat /\ a3 \in Nat /\ a4 \in Nat /\ a5 \in Nat /\ a6 \in Nat
          /\ a7 \in Nat /\ c1 \in Nat /\ c2 \in Nat /\ c3 \in Nat /\ c4 \in Nat /\ c5 \in Nat
          /\ c6 \in Nat /\ c7 \in Nat
      BY <1>3, <1>8, <1>11, <1>12, <2>2
    <3> QED
      BY <1>13, <3>1, Ewf1Sums
  <2> QED
    BY <2>2, <2>3
<1> QED
  BY <1>1, <1>14, <1>15, <1>16

----------------------------------------------------------------------------
(* EWF2 segments                                                           *)

\* The sections a segment of the chunks may have.
SectionsFor(chunks) ==
    {s \in [type : {"sectors", "device", "case", "table", "done", "next"} \cup Optional,
            size : Nat] :
        /\ s.type = "sectors" => s.size = Payload(chunks)
        /\ s.type = "device" => s.size = DeviceSize}
SectionBytes(S) == [s \in S |-> s.size + Desc2]
SectionCounts(S, n) == [s \in S |-> IF s.type = "sectors" THEN n ELSE 0]

\* Sections, with their bytes and chunks.
Summed(S, v, w, s, n, m) == s \in Seq(S) /\ Weight(v, s) = n /\ Weight(w, s) = m

\* Sections after sections.
LEMMA SummedConcat ==
    ASSUME NEW S, NEW v \in Weights(S), NEW w \in Weights(S),
           NEW a, NEW b, NEW n, NEW m, NEW k, NEW l,
           Summed(S, v, w, a, n, m), Summed(S, v, w, b, k, l)
    PROVE  Summed(S, v, w, a \o b, n + k, m + l)
<1>1. a \in Seq(S) /\ b \in Seq(S)
  BY DEF Summed
<1>2. a \o b \in Seq(S)
  BY <1>1
<1>3. Weight(v, a \o b) = Weight(v, a) + Weight(v, b)
  BY <1>1, WeightConcat
<1>4. Weight(w, a \o b) = Weight(w, a) + Weight(w, b)
  BY <1>1, WeightConcat
<1> QED
  BY <1>2, <1>3, <1>4 DEF Summed

\* One section.
LEMMA SummedOne ==
    ASSUME NEW S, NEW v \in Weights(S), NEW w \in Weights(S), NEW s \in S
    PROVE  Summed(S, v, w, <<s>>, v[s], w[s])
<1>1. <<s>> \in Seq(S)
  OBVIOUS
<1>2. Weight(v, <<s>>) = v[s] /\ Weight(w, <<s>>) = w[s]
  BY WeightOne
<1> QED
  BY <1>1, <1>2 DEF Summed

\* No section.
LEMMA SummedNone ==
    ASSUME NEW S, NEW v \in Weights(S), NEW w \in Weights(S)
    PROVE  Summed(S, v, w, <<>>, 0, 0)
<1>1. <<>> \in Seq(S)
  OBVIOUS
<1>2. Weight(v, <<>>) = 0 /\ Weight(w, <<>>) = 0
  BY WeightEmpty
<1> QED
  BY <1>1, <1>2 DEF Summed

\* Two sections together.
LEMMA SummedTwo ==
    ASSUME NEW S, NEW v \in Weights(S), NEW w \in Weights(S), NEW s \in S, NEW t \in S
    PROVE  Summed(S, v, w, <<s, t>>, v[s] + v[t], w[s] + w[t])
<1>1. Summed(S, v, w, <<s>>, v[s], w[s]) /\ Summed(S, v, w, <<t>>, v[t], w[t])
  BY SummedOne
<1>2. Summed(S, v, w, <<s>> \o <<t>>, v[s] + v[t], w[s] + w[t])
  BY <1>1, SummedConcat
<1>3. <<s>> \o <<t>> = <<s, t>>
  BY TwoOnes
<1> QED
  BY <1>2, <1>3

\* A section's data and descriptor.
LEMMA Section2Measured ==
    ASSUME NEW C, HaveSizes(C), NEW chunks \in Seq(C), NEW s \in SectionsFor(chunks),
           NEW base, NEW o, NEW context, NEW previous
    PROVE  Measured(Data2(s, base, chunks, o, context)
                      \o <<[is |-> "descriptor", len |-> Desc2, type |-> s.type,
                            size |-> s.size, previous |-> previous]>>,
                    SectionBytes(SectionsFor(chunks))[s],
                    SectionCounts(SectionsFor(chunks), Len(chunks))[s])
<1> DEFINE d == [is |-> "descriptor", len |-> Desc2, type |-> s.type,
                 size |-> s.size, previous |-> previous]
           data == Data2(s, base, chunks, o, context)
           count == IF s.type = "sectors" THEN Len(chunks) ELSE 0
<1>1. s.size \in Nat
  BY DEF SectionsFor
<1>2. Measured(data, s.size, count)
  <2>1. CASE s.type = "sectors"
    <3>1. data = ChunkPieces(chunks) /\ s.size = Payload(chunks)
      BY <2>1 DEF Data2, SectionsFor
    <3> QED
      BY <2>1, <3>1, MeasuredChunks
  <2>2. ASSUME s.type # "sectors", NEW p, p.len = s.size, p.is # "chunk", data = <<p>>
        PROVE Measured(data, s.size, count)
    <3>1. Measured(<<p>>, p.len, IF p.is = "chunk" THEN 1 ELSE 0)
      BY <1>1, <2>2, MeasuredOne
    <3> QED
      BY <2>2, <3>1
  <2>3. CASE s.type = "table"
    <3>1. data = <<Table2(chunks, context, base, s.size)>>
      BY <2>3 DEF Data2
    <3>2. Table2(chunks, context, base, s.size).len = s.size
          /\ Table2(chunks, context, base, s.size).is # "chunk"
      BY DEF Table2
    <3> HIDE DEF data
    <3> QED
      BY <2>2, <2>3, <3>1, <3>2
  <2>4. CASE s.type = "device"
    <3> DEFINE p == [is |-> "device", len |-> DeviceSize, chunk |-> o.chunk,
                     sectors |-> context.sectors]
    <3>1. data = <<p>>
      BY <2>4 DEF Data2
    <3>2. p.len = s.size /\ p.is # "chunk"
      BY <2>4 DEF SectionsFor
    <3> HIDE DEF data, p
    <3> QED
      BY <2>2, <2>4, <3>1, <3>2
  <2>5. CASE s.type \notin {"sectors", "table", "device"}
    <3>1. data = <<Opaque(s.type, s.size)>>
      BY <2>5 DEF Data2
    <3>2. Opaque(s.type, s.size).len = s.size /\ Opaque(s.type, s.size).is # "chunk"
      BY DEF Opaque
    <3> HIDE DEF data
    <3> QED
      BY <2>2, <2>5, <3>1, <3>2
  <2> QED
    BY <2>1, <2>3, <2>4, <2>5
<1>3. Measured(<<d>>, Desc2, 0)
  <2>1. d.len = Desc2 /\ d.is # "chunk" /\ Desc2 \in Nat
    BY DEF Desc2
  <2> HIDE DEF d
  <2> QED
    BY <2>1, MeasuredOne
<1> HIDE DEF d, data
<1>4. Measured(data \o <<d>>, s.size + Desc2, count + 0)
  BY <1>2, <1>3, MeasuredConcat
<1>5. count \in Nat
  OBVIOUS
<1>6. count + 0 = count
  BY <1>5
<1>7. SectionBytes(SectionsFor(chunks))[s] = s.size + Desc2
      /\ SectionCounts(SectionsFor(chunks), Len(chunks))[s] = count
  BY DEF SectionBytes, SectionCounts
<1> QED
  BY <1>4, <1>6, <1>7 DEF d, data

\* An optional section of a segment.
Bytes2(s, o, context) ==
    LET size == PayloadOf(s, o, IF s \in FirstOnly2 THEN context.number = 1
                                ELSE context.terminal = "done")
    IN  IF size = 0 THEN 0 ELSE Desc2 + size
Allowed2(s, o) == IF s \in Configured(o) THEN Desc2 + SectionSize[s] ELSE 0

\* It has that many bytes or is left out.
LEMMA SectionSummed ==
    ASSUME NEW chunks, NEW S, S = SectionsFor(chunks), NEW n \in Nat,
           NEW s \in Optional, NEW o, NEW context
    PROVE  /\ Summed(S, SectionBytes(S), SectionCounts(S, n), Section2(s, o, context),
                     Bytes2(s, o, context), 0)
           /\ Bytes2(s, o, context) \in Nat /\ Allowed2(s, o) \in Nat
           /\ Bytes2(s, o, context) <= Allowed2(s, o)
<1>1. SectionSize[s] \in Nat \ {0}
  BY LayoutAssumption
<1>2. PICK k : k = PayloadOf(s, o, IF s \in FirstOnly2 THEN context.number = 1
                                   ELSE context.terminal = "done")
  OBVIOUS
<1>3. k \in Nat /\ (k # 0 => s \in Configured(o) /\ k = SectionSize[s])
  BY <1>1, <1>2 DEF PayloadOf
<1>4. Bytes2(s, o, context) = IF k = 0 THEN 0 ELSE Desc2 + k
  BY <1>2 DEF Bytes2
<1>5. Section2(s, o, context) = IF k = 0 THEN <<>> ELSE <<SectionOf(s, k)>>
  BY <1>2 DEF Section2
<1>6. SectionBytes(S) \in Weights(S) /\ SectionCounts(S, n) \in Weights(S)
  <2>1. \A x \in S : x.size + Desc2 \in Nat
    BY DEF SectionsFor, Desc2
  <2> QED
    BY <2>1 DEF SectionBytes, SectionCounts, Weights
<1>a. /\ Bytes2(s, o, context) \in Nat /\ Allowed2(s, o) \in Nat
      /\ Bytes2(s, o, context) <= Allowed2(s, o)
  BY <1>1, <1>3, <1>4 DEF Allowed2, Desc2
<1>7. CASE k = 0
  BY <1>4, <1>5, <1>6, <1>7, <1>a, SummedNone
<1>8. CASE k # 0
  <2>1. s \notin {"sectors", "device"}
    BY DEF Optional, FirstOnly1, LastOnly1, FirstOnly2, LastOnly2
  <2>2. SectionOf(s, k) \in S
    BY <1>3, <2>1 DEF SectionOf, SectionsFor
  <2>3. PICK x \in S : x = SectionOf(s, k)
    BY <2>2
  <2>4. x.size = k /\ x.type = s
    BY <2>3 DEF SectionOf
  <2>5. SectionBytes(S)[x] = Desc2 + k /\ SectionCounts(S, n)[x] = 0
    BY <1>3, <2>1, <2>4 DEF SectionBytes, SectionCounts, Desc2
  <2>6. Summed(S, SectionBytes(S), SectionCounts(S, n), <<x>>,
               SectionBytes(S)[x], SectionCounts(S, n)[x])
    BY <1>6, SummedOne
  <2> QED
    BY <1>4, <1>5, <1>8, <1>a, <2>3, <2>5, <2>6
<1> QED
  BY <1>7, <1>8

\* The bytes of the sections of a segment.
Sections2Bytes(chunks, o, context) ==
    (DeviceSize + Desc2) + (CaseSize + Desc2)
    + Bytes2("errors", o, context) + Bytes2("sessions", o, context)
    + Bytes2("extents", o, context) + Bytes2("increment", o, context)
    + ((Payload(chunks) + Desc2) + (32 + 16 * Len(chunks) + 16 + Desc2))
    + Bytes2("md5", o, context) + Bytes2("sha1", o, context) + Bytes2("final", o, context)
    + Bytes2("analytical", o, context) + Bytes2("restart", o, context) + Desc2

\* The sections of a segment, in their order, have these bytes.
LEMMA Sections2Summed ==
    ASSUME NEW C, HaveSizes(C), NEW chunks \in Seq(C), NEW S, S = SectionsFor(chunks),
           NEW n \in Nat, NEW o, NEW context, context.terminal \in {"done", "next"}
    PROVE  /\ SectionBytes(S) \in Weights(S) /\ SectionCounts(S, n) \in Weights(S)
           /\ Summed(S, SectionBytes(S), SectionCounts(S, n), Sections2(chunks, o, context),
                     Sections2Bytes(chunks, o, context), n)
<1> DEFINE v == SectionBytes(S)
           w == SectionCounts(S, n)
           part(s) == Section2(s, o, context)
           bytes(s) == Bytes2(s, o, context)
           device == SectionOf("device", DeviceSize)
           case == SectionOf("case", CaseSize)
           sectors == SectionOf("sectors", Payload(chunks))
           table == SectionOf("table", 32 + 16 * Len(chunks) + 16)
           end == SectionOf(context.terminal, 0)
           first == <<device, case>>
           middle == <<sectors, table>>
           last == <<end>>
           firstBytes == (DeviceSize + Desc2) + (CaseSize + Desc2)
           middleBytes == (Payload(chunks) + Desc2) + (32 + 16 * Len(chunks) + 16 + Desc2)
<1>1. v \in Weights(S) /\ w \in Weights(S)
  <2>1. \A x \in S : x.size + Desc2 \in Nat
    BY DEF SectionsFor, Desc2
  <2> QED
    BY <2>1 DEF SectionBytes, SectionCounts, Weights
<1>2. PICK p \in Nat, l \in Nat : p = Payload(chunks) /\ l = Len(chunks)
  <2>1. Payload(chunks) \in Nat /\ Len(chunks) \in Nat
    BY PayloadOfChunks
  <2> QED
    BY <2>1
<1>3. /\ device \in S /\ case \in S /\ sectors \in S /\ table \in S /\ end \in S
  <2>1. device \in S /\ case \in S
    BY DEF SectionOf, SectionsFor, DeviceSize, CaseSize
  <2>2. sectors \in S
    BY <1>2 DEF SectionOf, SectionsFor
  <2>3. table \in S
    BY <1>2 DEF SectionOf, SectionsFor
  <2>4. end \in S
    BY DEF SectionOf, SectionsFor
  <2> QED
    BY <2>1, <2>2, <2>3, <2>4
<1>4. ASSUME NEW x \in S PROVE v[x] = x.size + Desc2 /\ w[x] = IF x.type = "sectors" THEN n ELSE 0
  BY DEF SectionBytes, SectionCounts
<1>5. Summed(S, v, w, first, firstBytes, 0)
  <2>1. v[device] = DeviceSize + Desc2 /\ v[case] = CaseSize + Desc2 /\ w[device] = 0 /\ w[case] = 0
    BY <1>3, <1>4 DEF SectionOf
  <2> HIDE DEF v, w, device, case
  <2>2. Summed(S, v, w, <<device, case>>, v[device] + v[case], w[device] + w[case])
    BY <1>1, <1>3, SummedTwo
  <2>3. 0 + 0 = 0
    OBVIOUS
  <2> QED
    BY <2>1, <2>2, <2>3
<1>6. Summed(S, v, w, middle, middleBytes, n)
  <2>1. /\ v[sectors] = Payload(chunks) + Desc2 /\ w[sectors] = n
        /\ v[table] = 32 + 16 * Len(chunks) + 16 + Desc2 /\ w[table] = 0
    BY <1>3, <1>4 DEF SectionOf
  <2> HIDE DEF v, w, sectors, table
  <2>2. Summed(S, v, w, <<sectors, table>>, v[sectors] + v[table], w[sectors] + w[table])
    BY <1>1, <1>3, SummedTwo
  <2>3. n + 0 = n
    OBVIOUS
  <2> QED
    BY <2>1, <2>2, <2>3
<1>7. Summed(S, v, w, last, Desc2, 0)
  <2>1. v[end] = 0 + Desc2 /\ w[end] = 0
    BY <1>3, <1>4 DEF SectionOf
  <2>2. 0 + Desc2 = Desc2
    BY DEF Desc2
  <2> HIDE DEF v, w, end
  <2>3. Summed(S, v, w, <<end>>, v[end], w[end])
    BY <1>1, <1>3, SummedOne
  <2> QED
    BY <2>1, <2>2, <2>3
<1>8. \A s \in Optional : Summed(S, v, w, part(s), bytes(s), 0)
  BY SectionSummed
<1>9. {"errors", "sessions", "extents", "increment", "md5", "sha1", "final", "analytical",
       "restart"} \subseteq Optional
  BY DEF Optional, FirstOnly2, LastOnly2
<1>10. 0 + 0 = 0 /\ 0 + n = n /\ n + 0 = n
  OBVIOUS
<1> DEFINE s1 == first \o part("errors")      b1 == firstBytes + bytes("errors")
           s2 == s1 \o part("sessions")       b2 == b1 + bytes("sessions")
           s3 == s2 \o part("extents")        b3 == b2 + bytes("extents")
           s4 == s3 \o part("increment")      b4 == b3 + bytes("increment")
           s5 == s4 \o middle                 b5 == b4 + middleBytes
           s6 == s5 \o part("md5")            b6 == b5 + bytes("md5")
           s7 == s6 \o part("sha1")           b7 == b6 + bytes("sha1")
           s8 == s7 \o part("final")          b8 == b7 + bytes("final")
           s9 == s8 \o part("analytical")     b9 == b8 + bytes("analytical")
           s10 == s9 \o part("restart")       b10 == b9 + bytes("restart")
<1>11. Sections2(chunks, o, context) = s10 \o last
  BY DEF Sections2
<1>12. Sections2Bytes(chunks, o, context) = b10 + Desc2
  BY DEF Sections2Bytes
<1> HIDE DEF v, w, part, bytes, first, middle, last, firstBytes, middleBytes,
             s1, s2, s3, s4, s5, s6, s7, s8, s9, s10, b1, b2, b3, b4, b5, b6, b7, b8, b9, b10
<1>13. ASSUME NEW a, NEW b, NEW m, Summed(S, v, w, a, b, m), m + 0 = m, NEW s \in Optional
       PROVE  Summed(S, v, w, a \o part(s), b + bytes(s), m)
  <2>1. Summed(S, v, w, a \o part(s), b + bytes(s), m + 0)
    BY <1>1, <1>8, <1>13, SummedConcat
  <2> QED
    BY <1>13, <2>1
<1>21. Summed(S, v, w, s1, b1, 0)
  BY <1>5, <1>9, <1>10, <1>13 DEF s1, b1
<1>22. Summed(S, v, w, s2, b2, 0)
  BY <1>9, <1>10, <1>13, <1>21 DEF s2, b2
<1>23. Summed(S, v, w, s3, b3, 0)
  BY <1>9, <1>10, <1>13, <1>22 DEF s3, b3
<1>24. Summed(S, v, w, s4, b4, 0)
  BY <1>9, <1>10, <1>13, <1>23 DEF s4, b4
<1>25. Summed(S, v, w, s5, b5, n)
  <2>1. Summed(S, v, w, s4 \o middle, b4 + middleBytes, 0 + n)
    BY <1>1, <1>6, <1>24, SummedConcat
  <2> QED
    BY <1>10, <2>1 DEF s5, b5
<1>26. Summed(S, v, w, s6, b6, n)
  BY <1>9, <1>10, <1>13, <1>25 DEF s6, b6
<1>27. Summed(S, v, w, s7, b7, n)
  BY <1>9, <1>10, <1>13, <1>26 DEF s7, b7
<1>28. Summed(S, v, w, s8, b8, n)
  BY <1>9, <1>10, <1>13, <1>27 DEF s8, b8
<1>29. Summed(S, v, w, s9, b9, n)
  BY <1>9, <1>10, <1>13, <1>28 DEF s9, b9
<1>30. Summed(S, v, w, s10, b10, n)
  BY <1>9, <1>10, <1>13, <1>29 DEF s10, b10
<1>31. Summed(S, v, w, s10 \o last, b10 + Desc2, n + 0)
  BY <1>1, <1>7, <1>30, SummedConcat
<1>32. Summed(S, v, w, Sections2(chunks, o, context), Sections2Bytes(chunks, o, context), n)
  BY <1>10, <1>11, <1>12, <1>31
<1> QED
  BY <1>1, <1>32 DEF v, w

\* An EWF2 segment is its header and the sections and their descriptors.
LEMMA Ewf2Measured ==
    ASSUME NEW C, HaveSizes(C), NEW chunks \in Seq(C), NEW o, NEW context,
           context.terminal \in {"done", "next"}
    PROVE  Measured(Ewf2Pieces(chunks, o, context),
                    FileHeader2 + Sections2Bytes(chunks, o, context), Len(chunks))
<1>1. PICK S, sections : S = SectionsFor(chunks) /\ sections = Sections2(chunks, o, context)
  OBVIOUS
<1>2. PICK n \in Nat : n = Len(chunks)
  OBVIOUS
<1> DEFINE v == SectionBytes(S)
           w == SectionCounts(S, n)
<1>3. /\ v \in Weights(S) /\ w \in Weights(S)
      /\ Summed(S, v, w, sections, Sections2Bytes(chunks, o, context), n)
  BY <1>1, Sections2Summed
<1>4. /\ sections \in Seq(S)
      /\ Weight(v, sections) = Sections2Bytes(chunks, o, context) /\ Weight(w, sections) = n
  BY <1>3 DEF Summed
<1> DEFINE sizes == [i \in DOMAIN sections |-> sections[i].size + Desc2]
           planned(i) == FileHeader2 + TotalOf(SubSeq(sizes, 1, i - 1))
           previous(i) == IF i = 1 THEN 0 ELSE planned(i) - Desc2
           base == planned(CHOOSE i \in DOMAIN sections : sections[i].type = "sectors")
           head == [is |-> "header", len |-> FileHeader2, format |-> "ewf2",
                    number |-> context.number,
                    method |-> IF o.compression = "bzip2" THEN "bzip2" ELSE "zlib"]
           gs == [i \in DOMAIN sections |->
                    Data2(sections[i], base, chunks, o, context)
                    \o <<[is |-> "descriptor", len |-> Desc2, type |-> sections[i].type,
                          size |-> sections[i].size, previous |-> previous(i)]>>]
           ls == Weighed(v, sections)
           ms == Weighed(w, sections)
<1>5. Ewf2Pieces(chunks, o, context) = <<head>> \o FlattenSeq(gs)
  BY <1>1 DEF Ewf2Pieces, SectionPieces
<1>6. PICK k \in Nat : k = Len(sections)
  BY <1>4
<1>7. DOMAIN sections = 1..k /\ \A i \in 1..k : sections[i] \in S
  BY <1>4, <1>6
<1>8. /\ ls \in Seq(Nat) /\ ms \in Seq(Nat) /\ Len(ls) = k /\ Len(ms) = k
      /\ \A i \in 1..k : ls[i] = v[sections[i]] /\ ms[i] = w[sections[i]]
  <2> HIDE DEF v, w, ls, ms
  <2>1. /\ Weighed(v, sections) \in Seq(Nat) /\ Len(Weighed(v, sections)) = Len(sections)
        /\ \A i \in DOMAIN sections : Weighed(v, sections)[i] = v[sections[i]]
    BY <1>3, <1>4, WeighedSeq
  <2>2. /\ Weighed(w, sections) \in Seq(Nat) /\ Len(Weighed(w, sections)) = Len(sections)
        /\ \A i \in DOMAIN sections : Weighed(w, sections)[i] = w[sections[i]]
    BY <1>3, <1>4, WeighedSeq
  <2> QED
    BY <1>6, <1>7, <2>1, <2>2 DEF ls, ms
<1>9. ASSUME NEW i \in 1..k PROVE Measured(gs[i], ls[i], ms[i])
  <2>1. PICK s \in SectionsFor(chunks) : s = sections[i]
    BY <1>1, <1>7
  <2>2. PICK b, p : b = base /\ p = previous(i)
    OBVIOUS
  <2>3. gs[i] = Data2(s, b, chunks, o, context)
                  \o <<[is |-> "descriptor", len |-> Desc2, type |-> s.type,
                        size |-> s.size, previous |-> p]>>
    BY <1>7, <2>1, <2>2
  <2>4. Measured(Data2(s, b, chunks, o, context)
                   \o <<[is |-> "descriptor", len |-> Desc2, type |-> s.type,
                         size |-> s.size, previous |-> p]>>,
                 SectionBytes(SectionsFor(chunks))[s],
                 SectionCounts(SectionsFor(chunks), Len(chunks))[s])
    BY <2>1, Section2Measured
  <2>5. ls[i] = SectionBytes(SectionsFor(chunks))[s]
        /\ ms[i] = SectionCounts(SectionsFor(chunks), Len(chunks))[s]
    BY <1>1, <1>2, <1>8, <2>1
  <2> HIDE DEF gs, ls, ms
  <2> QED
    BY <2>3, <2>4, <2>5
<1>10. PICK V : gs \in Seq(V) /\ Len(gs) = k
  <2>1. gs = [i \in 1..k |-> gs[i]]
    BY <1>7
  <2> HIDE DEF gs
  <2>2. PICK V : V = {gs[i] : i \in 1..k}
    OBVIOUS
  <2>3. gs \in [1..k -> V]
    BY <2>1, <2>2
  <2>4. gs \in Seq(V) /\ Len(gs) = k
    BY <1>6, <2>3
  <2> QED
    BY <2>4
<1>11. Measured(<<head>>, FileHeader2, 0)
  <2>1. head.len = FileHeader2 /\ head.is # "chunk" /\ FileHeader2 \in Nat
    BY DEF FileHeader2
  <2> HIDE DEF head
  <2> QED
    BY <2>1, MeasuredOne
<1> HIDE DEF v, w, gs, ls, ms, head
<1>12. Measured(FlattenSeq(gs), TotalOf(ls), TotalOf(ms))
  BY <1>8, <1>9, <1>10, MeasuredFlatten
<1>13. TotalOf(ls) = Sections2Bytes(chunks, o, context) /\ TotalOf(ms) = n
  BY <1>4 DEF Weight, ls, ms
<1>14. Measured(FlattenSeq(gs), Sections2Bytes(chunks, o, context), n)
  BY <1>12, <1>13
<1>15. Measured(<<head>> \o FlattenSeq(gs),
                FileHeader2 + Sections2Bytes(chunks, o, context), 0 + n)
  BY <1>11, <1>14, MeasuredConcat
<1>16. 0 + n = n
  OBVIOUS
<1> QED
  BY <1>2, <1>5, <1>15, <1>16

\* The bytes of an EWF2 segment against its estimate.
LEMMA Ewf2Sums ==
    ASSUME NEW h \in Nat, NEW d \in Nat, NEW v \in Nat, NEW b \in Nat, NEW e \in Nat, NEW p \in Nat,
           NEW a1 \in Nat, NEW a2 \in Nat, NEW a3 \in Nat, NEW a4 \in Nat, NEW a5 \in Nat,
           NEW a6 \in Nat, NEW a7 \in Nat, NEW a8 \in Nat, NEW a9 \in Nat,
           NEW c1 \in Nat, NEW c2 \in Nat, NEW c3 \in Nat, NEW c4 \in Nat, NEW c5 \in Nat,
           NEW c6 \in Nat, NEW c7 \in Nat, NEW c8 \in Nat, NEW c9 \in Nat,
           a1 <= c1, a2 <= c2, a3 <= c3, a4 <= c4, a5 <= c5, a6 <= c6, a7 <= c7, a8 <= c8,
           a9 <= c9
    PROVE  h + ((v + d) + (b + d) + a1 + a2 + a3 + a4 + ((p + d) + (32 + e + 16 + d))
                + a5 + a6 + a7 + a8 + a9 + d)
             <= h + (d + v) + (d + b) + c1 + c2 + c3 + c4 + (d + 32 + e + 16) + (d + p)
                + c5 + c6 + c7 + c8 + c9 + d
OBVIOUS

\* No EWF2 segment is longer than it was estimated.
LEMMA Ewf2Estimated ==
    ASSUME NEW C, HaveSizes(C), NEW chunks \in Seq(C), NEW o, NEW context,
           context.terminal \in {"done", "next"}
    PROVE  Ewf2Segment(chunks, o, context).length
             <= EstimateEwf2(Len(chunks), Payload(chunks), o)
<1>1. Ewf2Segment(chunks, o, context).length = FileHeader2 + Sections2Bytes(chunks, o, context)
  <2>1. Measured(Ewf2Pieces(chunks, o, context),
                 FileHeader2 + Sections2Bytes(chunks, o, context), Len(chunks))
    BY Ewf2Measured
  <2> QED
    BY <2>1, AssembledLength DEF Ewf2Segment
<1>2. PICK p \in Nat, e \in Nat : p = Payload(chunks) /\ e = 16 * Len(chunks)
  <2>1. Payload(chunks) \in Nat /\ Len(chunks) \in Nat
    BY PayloadOfChunks
  <2>2. 16 * Len(chunks) \in Nat
    BY <2>1
  <2> QED
    BY <2>1, <2>2
<1>3. PICK h \in Nat, d \in Nat, v \in Nat, b \in Nat :
         h = FileHeader2 /\ d = Desc2 /\ v = DeviceSize /\ b = CaseSize
  BY DEF FileHeader2, Desc2, DeviceSize, CaseSize
<1>4. ASSUME NEW s \in Optional
      PROVE  /\ Bytes2(s, o, context) \in Nat /\ Allowed2(s, o) \in Nat
             /\ Bytes2(s, o, context) <= Allowed2(s, o)
  <2>1. 0 \in Nat
    OBVIOUS
  <2> QED
    BY <2>1, SectionSummed
<1>5. {"errors", "sessions", "extents", "increment", "md5", "sha1", "final", "analytical",
       "restart"} \subseteq Optional
  BY DEF Optional, FirstOnly2, LastOnly2
<1>6. PICK a1 \in Nat, a2 \in Nat, a3 \in Nat, a4 \in Nat, a5 \in Nat, a6 \in Nat, a7 \in Nat,
           a8 \in Nat, a9 \in Nat :
          /\ a1 = Bytes2("errors", o, context) /\ a2 = Bytes2("sessions", o, context)
          /\ a3 = Bytes2("extents", o, context) /\ a4 = Bytes2("increment", o, context)
          /\ a5 = Bytes2("md5", o, context) /\ a6 = Bytes2("sha1", o, context)
          /\ a7 = Bytes2("final", o, context) /\ a8 = Bytes2("analytical", o, context)
          /\ a9 = Bytes2("restart", o, context)
  BY <1>4, <1>5
<1>7. PICK c1 \in Nat, c2 \in Nat, c3 \in Nat, c4 \in Nat, c5 \in Nat, c6 \in Nat, c7 \in Nat,
           c8 \in Nat, c9 \in Nat :
          /\ c1 = Allowed2("errors", o) /\ c2 = Allowed2("sessions", o)
          /\ c3 = Allowed2("extents", o) /\ c4 = Allowed2("increment", o)
          /\ c5 = Allowed2("md5", o) /\ c6 = Allowed2("sha1", o)
          /\ c7 = Allowed2("final", o) /\ c8 = Allowed2("analytical", o)
          /\ c9 = Allowed2("restart", o)
  BY <1>4, <1>5
<1>8. /\ a1 <= c1 /\ a2 <= c2 /\ a3 <= c3 /\ a4 <= c4 /\ a5 <= c5 /\ a6 <= c6 /\ a7 <= c7
      /\ a8 <= c8 /\ a9 <= c9
  BY <1>4, <1>5, <1>6, <1>7
<1>9. FileHeader2 + Sections2Bytes(chunks, o, context)
        = h + ((v + d) + (b + d) + a1 + a2 + a3 + a4 + ((p + d) + (32 + e + 16 + d))
               + a5 + a6 + a7 + a8 + a9 + d)
  BY <1>2, <1>3, <1>6 DEF Sections2Bytes
<1>10. EstimateEwf2(Len(chunks), Payload(chunks), o)
         = h + (d + v) + (d + b) + c1 + c2 + c3 + c4 + (d + 32 + e + 16) + (d + p)
           + c5 + c6 + c7 + c8 + c9 + d
  BY <1>2, <1>3, <1>7 DEF EstimateEwf2, Allowed2
<1>11. /\ h \in Nat /\ d \in Nat /\ v \in Nat /\ b \in Nat /\ e \in Nat /\ p \in Nat
       /\ a1 \in Nat /\ a2 \in Nat /\ a3 \in Nat /\ a4 \in Nat /\ a5 \in Nat /\ a6 \in Nat
       /\ a7 \in Nat /\ a8 \in Nat /\ a9 \in Nat /\ c1 \in Nat /\ c2 \in Nat /\ c3 \in Nat
       /\ c4 \in Nat /\ c5 \in Nat /\ c6 \in Nat /\ c7 \in Nat /\ c8 \in Nat /\ c9 \in Nat
  BY <1>2, <1>3, <1>6, <1>7
<1>12. h + ((v + d) + (b + d) + a1 + a2 + a3 + a4 + ((p + d) + (32 + e + 16 + d))
               + a5 + a6 + a7 + a8 + a9 + d)
         <= h + (d + v) + (d + b) + c1 + c2 + c3 + c4 + (d + 32 + e + 16) + (d + p)
            + c5 + c6 + c7 + c8 + c9 + d
  BY <1>8, <1>11, Ewf2Sums
<1> QED
  BY <1>1, <1>9, <1>10, <1>12

\* A segment of one chunk at most has one at most.
LEMMA FewChunks ==
    ASSUME NEW C, HaveSizes(C), NEW chunks \in Seq(C), Len(chunks) <= 1, NEW o, NEW context
    PROVE  /\ Cardinality(ChunksAt(Ewf1Segment(chunks, o, context))) \in {0, 1}
           /\ context.terminal \in {"done", "next"} =>
                Cardinality(ChunksAt(Ewf2Segment(chunks, o, context))) \in {0, 1}
<1>1. Measured(Ewf1Pieces(chunks, o, context), Ewf1Bytes(C, chunks, o, context), Len(chunks))
  BY Ewf1Measured
<1>2. context.terminal \in {"done", "next"} =>
        Measured(Ewf2Pieces(chunks, o, context),
                 FileHeader2 + Sections2Bytes(chunks, o, context), Len(chunks))
  BY Ewf2Measured
<1> QED
  BY <1>1, <1>2, AssembledChunks DEF Ewf1Segment, Ewf2Segment

----------------------------------------------------------------------------
(* Which chunks go into which segment                                      *)

SegmentStates(C) ==
    [closed : Seq(Seq(C)), open : Seq(C), tables : [count : Nat, entries : Nat, payload : Nat]]

\* A chunk more leaves segments of chunks.
LEMMA SegmentedType ==
    ASSUME NEW C, HaveSizes(C), NEW acc \in SegmentStates(C), NEW c \in C, NEW o
    PROVE  Segmented(acc, c, o) \in SegmentStates(C)
<1>1. c.size \in Nat /\ acc.tables \in [count : Nat, entries : Nat, payload : Nat]
  BY DEF HaveSizes, SegmentStates
<1>2. AddChunk(acc.tables, c.size) \in [count : Nat, entries : Nat, payload : Nat]
      /\ AddChunk(NoTables, c.size) \in [count : Nat, entries : Nat, payload : Nat]
  BY <1>1 DEF AddChunk, NoTables
<1>3. /\ acc.closed \in Seq(Seq(C)) /\ acc.open \in Seq(C)
      /\ Append(acc.closed, acc.open) \in Seq(Seq(C))
      /\ <<c>> \in Seq(C) /\ Append(acc.open, c) \in Seq(C)
  BY DEF SegmentStates
<1> QED
  BY <1>2, <1>3 DEF Segmented, SegmentStates

\* The segments of more chunks follow from those of fewer (segment_groups).
LEMMA SegmentedSteps ==
    ASSUME NEW C, HaveSizes(C), NEW o
    PROVE  /\ SegmentedAll(<<>>, o) = NoSegments
           /\ \A s \in Seq(C) : SegmentedAll(s, o) \in SegmentStates(C)
           /\ \A s \in Seq(C), c \in C :
                 SegmentedAll(Append(s, c), o) = Segmented(SegmentedAll(s, o), c, o)
<1> DEFINE step == [p \in SegmentStates(C) \X C |-> Segmented(p[1], p[2], o)]
<1>1. PICK V : V = SegmentStates(C)
  OBVIOUS
<1>2. NoSegments \in V
  BY <1>1 DEF NoSegments, NoTables, SegmentStates
<1>3. step \in Steps(V, C) /\ \A v \in V, c \in C : step[<<v, c>>] = Segmented(v, c, o)
  BY <1>1, SegmentedType DEF Steps
<1> HIDE DEF step
<1>4. PICK take \in Steps(V, C) : take = step
  BY <1>3
<1>5. PICK fold \in [Seq(C) -> V] :
         /\ fold[<<>>] = NoSegments
         /\ \A s \in Seq(C), c \in C : fold[Append(s, c)] = take[<<fold[s], c>>]
         /\ \A s \in Seq(C) : \A f : RunsOver(V, NoSegments, take, s, f) => f[Len(s)] = fold[s]
  BY <1>2, <1>4, FoldExists
<1>6. ASSUME NEW s \in Seq(C) PROVE SegmentedAll(s, o) = fold[s]
  <2> DEFINE upTo[n \in 0..Len(s)] == IF n = 0 THEN NoSegments ELSE Segmented(upTo[n - 1], s[n], o)
  <2>0. Len(s) \in Nat /\ \A n \in 1..Len(s) : s[n] \in C /\ n # 0 /\ n \in 0..Len(s) /\ n - 1 \in 0..Len(s)
    OBVIOUS
  <2>1. SegmentedAll(s, o) = upTo[Len(s)]
    BY DEF SegmentedAll
  <2>2. PICK f \in [0..Len(s) -> V] : RunsOver(V, NoSegments, take, s, f)
    BY <1>2, <1>4, RunExists
  <2>3. \A n \in 0..Len(s) : f[n] = IF n = 0 THEN NoSegments ELSE Segmented(f[n - 1], s[n], o)
    <3> SUFFICES ASSUME NEW n \in 1..Len(s) PROVE f[n] = Segmented(f[n - 1], s[n], o)
      BY <2>0, <2>2 DEF RunsOver
    <3>1. f[n - 1] \in V /\ s[n] \in C
      BY <2>0
    <3>2. f[n] = take[<<f[n - 1], s[n]>>]
      BY <2>2, <3>1 DEF RunsOver
    <3> QED
      BY <1>3, <1>4, <3>1, <3>2
  <2>4. \E h : h = [n \in 0..Len(s) |-> IF n = 0 THEN NoSegments ELSE Segmented(h[n - 1], s[n], o)]
    <3>1. f = [n \in 0..Len(s) |-> f[n]]
      OBVIOUS
    <3>2. f = [n \in 0..Len(s) |-> IF n = 0 THEN NoSegments ELSE Segmented(f[n - 1], s[n], o)]
      BY <2>3, <3>1, Zenon
    <3> QED
      BY <3>2
  <2>5. upTo = [n \in 0..Len(s) |-> IF n = 0 THEN NoSegments ELSE Segmented(upTo[n - 1], s[n], o)]
    BY <2>4
  <2> HIDE DEF upTo
  <2>6. \A n \in 0..Len(s) : upTo[n] = IF n = 0 THEN NoSegments ELSE Segmented(upTo[n - 1], s[n], o)
    BY <2>5, Zenon
  <2>7. RunsOver(V, NoSegments, take, s, upTo)
    <3>1. upTo[0] = NoSegments
      BY <2>0, <2>6
    <3>2. ASSUME NEW k \in 1..Len(s), upTo[k - 1] \in V PROVE upTo[k] = take[<<upTo[k - 1], s[k]>>]
      <4>1. upTo[k] = Segmented(upTo[k - 1], s[k], o)
        BY <2>0, <2>6
      <4> QED
        BY <1>3, <1>4, <2>0, <3>2, <4>1
    <3> QED
      BY <3>1, <3>2 DEF RunsOver
  <2> QED
    BY <1>5, <2>1, <2>7
<1>7. <<>> \in Seq(C)
  OBVIOUS
<1>8. ASSUME NEW s \in Seq(C), NEW c \in C PROVE SegmentedAll(Append(s, c), o) = Segmented(SegmentedAll(s, o), c, o)
  <2>1. Append(s, c) \in Seq(C)
    OBVIOUS
  <2>2. fold[Append(s, c)] = Segmented(fold[s], c, o)
    BY <1>3, <1>4, <1>5
  <2>3. PICK t \in Seq(C) : t = Append(s, c)
    BY <2>1
  <2>4. SegmentedAll(t, o) = fold[t]
    BY <1>6
  <2> QED
    BY <1>6, <2>2, <2>3, <2>4
<1> QED
  BY <1>1, <1>5, <1>6, <1>7, <1>8

\* Estimates are numbers.
LEMMA EstimateNat ==
    ASSUME NEW count \in Nat, NEW payload \in Nat, NEW tables \in Nat, NEW o
    PROVE  EstimatedSize(count, payload, tables, o) \in Nat
<1>1. ASSUME NEW s \in Optional PROVE Allowed1(s, o) \in Nat /\ Allowed2(s, o) \in Nat
  <2>1. SectionSize[s] \in Nat
    BY LayoutAssumption
  <2> QED
    BY <2>1 DEF Allowed1, Allowed2, Desc1, Desc2
<1>2. EstimateEwf2(count, payload, o) \in Nat
  <2>1. {"errors", "sessions", "extents", "increment", "md5", "sha1", "final", "analytical",
         "restart"} \subseteq Optional
    BY DEF Optional, FirstOnly2, LastOnly2
  <2>2. PICK c1 \in Nat, c2 \in Nat, c3 \in Nat, c4 \in Nat, c5 \in Nat, c6 \in Nat, c7 \in Nat,
             c8 \in Nat, c9 \in Nat :
            /\ c1 = Allowed2("errors", o) /\ c2 = Allowed2("sessions", o)
            /\ c3 = Allowed2("extents", o) /\ c4 = Allowed2("increment", o)
            /\ c5 = Allowed2("md5", o) /\ c6 = Allowed2("sha1", o)
            /\ c7 = Allowed2("final", o) /\ c8 = Allowed2("analytical", o)
            /\ c9 = Allowed2("restart", o)
    BY <1>1, <2>1
  <2>3. PICK h \in Nat, d \in Nat, v \in Nat, b \in Nat, e \in Nat :
           h = FileHeader2 /\ d = Desc2 /\ v = DeviceSize /\ b = CaseSize /\ e = 16 * count
    BY DEF FileHeader2, Desc2, DeviceSize, CaseSize
  <2>4. EstimateEwf2(count, payload, o)
          = h + (d + v) + (d + b) + c1 + c2 + c3 + c4 + (d + 32 + e + 16) + (d + payload)
            + c5 + c6 + c7 + c8 + c9 + d
    BY <2>2, <2>3 DEF EstimateEwf2, Allowed2
  <2>5. h + (d + v) + (d + b) + c1 + c2 + c3 + c4 + (d + 32 + e + 16) + (d + payload)
            + c5 + c6 + c7 + c8 + c9 + d \in Nat
    <3>1. /\ h \in Nat /\ d \in Nat /\ v \in Nat /\ b \in Nat /\ e \in Nat
          /\ c1 \in Nat /\ c2 \in Nat /\ c3 \in Nat /\ c4 \in Nat /\ c5 \in Nat /\ c6 \in Nat
          /\ c7 \in Nat /\ c8 \in Nat /\ c9 \in Nat
      BY <2>2, <2>3
    <3> QED
      BY <3>1
  <2> QED
    BY <2>4, <2>5
<1>3. EstimateEwf1(count, payload, tables, o, SectionSize) \in Nat
  <2>1. {"header", "header2", "xheader", "session", "error2", "digest", "xhash"} \subseteq Optional
    BY DEF Optional, FirstOnly1, LastOnly1
  <2>2. PICK c1 \in Nat, c2 \in Nat, c3 \in Nat, c4 \in Nat, c5 \in Nat, c6 \in Nat, c7 \in Nat :
          /\ c1 = Allowed1("header", o) /\ c2 = Allowed1("header2", o)
          /\ c3 = Allowed1("xheader", o) /\ c4 = Allowed1("session", o)
          /\ c5 = Allowed1("error2", o) /\ c6 = Allowed1("digest", o)
          /\ c7 = Allowed1("xhash", o)
    BY <1>1, <2>1
  <2>3. PICK h \in Nat, d \in Nat, v \in Nat :
           h = FileHeader1 /\ d = Desc1 /\ v = VolumeSize(o.format)
    BY DEF FileHeader1, Desc1, VolumeSize
  <2>4. PICK f \in Nat : f = Desc1 + 24 + FooterSize(o.format)
    BY DEF FooterSize, Desc1
  <2>5. PICK x \in Nat, y \in Nat : x = tables * f + 4 * count /\ y = tables * Desc1
    BY <2>3, <2>4
  <2>6. PICK z \in Nat : z = IF WritesTable2(o.format) THEN x ELSE 0
    BY <2>5
  <2>7. EstimateEwf1(count, payload, tables, o, SectionSize)
         = h + c1 + c2 + c3 + d + v + c4 + x + z + y + payload + c5 + c6 + c7 + d
    BY <2>2, <2>3, <2>4, <2>5, <2>6 DEF EstimateEwf1, Allowed1
  <2>8. h + c1 + c2 + c3 + d + v + c4 + x + z + y + payload + c5 + c6 + c7 + d \in Nat
    <3>1. /\ h \in Nat /\ d \in Nat /\ v \in Nat /\ x \in Nat /\ y \in Nat /\ z \in Nat
          /\ c1 \in Nat /\ c2 \in Nat /\ c3 \in Nat /\ c4 \in Nat /\ c5 \in Nat /\ c6 \in Nat
          /\ c7 \in Nat
      BY <2>2, <2>3, <2>5, <2>6
    <3> QED
      BY <3>1
  <2> QED
    BY <2>7, <2>8
<1> QED
  BY <1>2, <1>3 DEF EstimatedSize

\* What a segment of more than one chunk is estimated to take is within the limit.
EstimatedWithin(chunks, o) ==
    Len(chunks) <= 1 \/
        EstimatedSize(Len(chunks), Payload(chunks), GroupedAll(chunks).state.count, o) <= o.limit

\* The segments so far are within it, and the tables of the open one are counted.
Segmentation(s, o) ==
    LET acc == SegmentedAll(s, o)
    IN  /\ acc.tables = GroupedAll(acc.open).state
        /\ EstimatedWithin(acc.open, o)
        /\ \A i \in DOMAIN acc.closed : EstimatedWithin(acc.closed[i], o)

\* One more chunk is put where it is within it.
LEMMA SegmentationStep ==
    ASSUME NEW C, HaveSizes(C), NEW o, o.limit \in Nat, NEW s \in Seq(C), NEW c \in C,
           Segmentation(s, o)
    PROVE  Segmentation(Append(s, c), o)
<1>1. PICK acc \in SegmentStates(C) : acc = SegmentedAll(s, o)
  BY SegmentedSteps
<1>2. PICK after : after = SegmentedAll(Append(s, c), o) /\ after = Segmented(acc, c, o)
  BY <1>1, SegmentedSteps
<1>3. /\ acc.tables = GroupedAll(acc.open).state /\ EstimatedWithin(acc.open, o)
      /\ \A i \in DOMAIN acc.closed : EstimatedWithin(acc.closed[i], o)
  BY <1>1 DEF Segmentation
<1>4. PICK open \in Seq(C), closed \in Seq(Seq(C)) : open = acc.open /\ closed = acc.closed
  BY <1>1 DEF SegmentStates
<1>5. PICK tables : tables = AddChunk(acc.tables, c.size)
  OBVIOUS
<1>6. PICK size : size = EstimatedSize(Len(open) + 1, Payload(open) + c.size, tables.count, o)
  OBVIOUS
<1>7. GroupedAll(Append(open, c)).state = tables
  <2>1. GroupedAll(Append(open, c)) = Grouped(GroupedAll(open), c)
    BY <1>4, GroupedSteps
  <2>2. Grouped(GroupedAll(open), c).state = AddChunk(GroupedAll(open).state, c.size)
    BY DEF Grouped
  <2> QED
    BY <1>3, <1>4, <1>5, <2>1, <2>2
<1>8. CASE open # <<>> /\ size > o.limit
  <2>1. /\ after.closed = Append(closed, open) /\ after.open = <<c>>
        /\ after.tables = AddChunk(NoTables, c.size)
    BY <1>2, <1>4, <1>5, <1>6, <1>8 DEF Segmented
  <2>2. GroupedAll(<<c>>).state = AddChunk(NoTables, c.size)
    <3>1. <<>> \in Seq(C) /\ <<c>> = Append(<<>>, c)
      OBVIOUS
    <3>2. GroupedAll(Append(<<>>, c)) = Grouped(GroupedAll(<<>>), c) /\ GroupedAll(<<>>) = NoGroups
      BY <3>1, GroupedSteps
    <3>3. Grouped(NoGroups, c).state = AddChunk(NoTables, c.size)
      BY DEF Grouped, NoGroups
    <3> QED
      BY <3>1, <3>2, <3>3
  <2>3. EstimatedWithin(<<c>>, o)
    <3>1. Len(<<c>>) <= 1
      OBVIOUS
    <3> QED
      BY <3>1 DEF EstimatedWithin
  <2>4. \A i \in DOMAIN Append(closed, open) : EstimatedWithin(Append(closed, open)[i], o)
    <3>1. PICK n \in Nat : n = Len(closed)
      BY <1>4
    <3>2. /\ DOMAIN Append(closed, open) = 1..(n + 1)
          /\ \A i \in 1..n : Append(closed, open)[i] = closed[i] /\ i \in DOMAIN closed
          /\ Append(closed, open)[n + 1] = open
      <4>1. closed \in Seq(Seq(C)) /\ open \in Seq(C)
        BY <1>4
      <4> QED
        BY <3>1, <4>1
    <3> SUFFICES ASSUME NEW i \in 1..(n + 1) PROVE EstimatedWithin(Append(closed, open)[i], o)
      BY <3>2
    <3>3. i \in 1..n \/ i = n + 1
      BY <3>1
    <3> QED
      BY <1>3, <1>4, <3>2, <3>3
  <2> QED
    BY <1>2, <2>1, <2>2, <2>3, <2>4 DEF Segmentation
<1>9. CASE ~(open # <<>> /\ size > o.limit)
  <2>1. /\ after.closed = closed /\ after.open = Append(open, c) /\ after.tables = tables
    BY <1>2, <1>4, <1>5, <1>6, <1>9 DEF Segmented
  <2>2. EstimatedWithin(Append(open, c), o)
    <3>1. open \in Seq(C)
      BY <1>4
    <3>2. CASE open = <<>>
      <4>1. Len(Append(open, c)) = 1
        BY <3>2
      <4> QED
        BY <4>1 DEF EstimatedWithin
    <3>3. CASE ~(size > o.limit)
      <4>1. Len(Append(open, c)) = Len(open) + 1 /\ Len(open) + 1 \in Nat
        BY <3>1
      <4>2. Payload(Append(open, c)) = Payload(open) + c.size /\ Payload(open) \in Nat
        BY <3>1, PayloadOfChunks
      <4>3. Payload(open) + c.size \in Nat
        BY <4>2 DEF HaveSizes
      <4>4. tables.count \in Nat
        <5>1. acc.tables \in [count : Nat, entries : Nat, payload : Nat] /\ c.size \in Nat
          BY <1>1 DEF SegmentStates, HaveSizes
        <5>2. PICK t \in [count : Nat, entries : Nat, payload : Nat], x \in Nat :
                 t = acc.tables /\ x = c.size
          BY <5>1
        <5>3. AddChunk(t, x).count \in Nat
          BY DEF AddChunk
        <5> QED
          BY <1>5, <5>2, <5>3
      <4>5. size \in Nat
        BY <1>6, <4>1, <4>3, <4>4, EstimateNat
      <4>6. size <= o.limit
        BY <3>3, <4>5
      <4> QED
        BY <1>6, <1>7, <4>1, <4>2, <4>6 DEF EstimatedWithin
    <3> QED
      BY <1>9, <3>2, <3>3
  <2> QED
    BY <1>2, <1>3, <1>4, <1>7, <2>1, <2>2 DEF Segmentation
<1> QED
  BY <1>8, <1>9

\* The segments of chunks are of them, each within the limit if there is one.
LEMMA SegmentsEstimated ==
    ASSUME NEW C, HaveSizes(C), NEW o, o.limit \in Nat \ {0}, NEW s \in Seq(C)
    PROVE  /\ SegmentGroups(s, o) \in Seq(Seq(C))
           /\ \A i \in DOMAIN SegmentGroups(s, o) : EstimatedWithin(SegmentGroups(s, o)[i], o)
<1> DEFINE T == {t \in Seq(C) : Segmentation(t, o)}
<1>1. <<>> \in T
  <2>1. <<>> \in Seq(C) /\ SegmentedAll(<<>>, o) = NoSegments
    BY SegmentedSteps
  <2>2. GroupedAll(<<>>) = NoGroups
    BY GroupedSteps
  <2>3. Len(<<>>) <= 1 /\ DOMAIN <<>> = {}
    OBVIOUS
  <2> QED
    BY <2>1, <2>2, <2>3 DEF Segmentation, NoSegments, NoGroups, EstimatedWithin
<1>2. ASSUME NEW t \in Seq(C), t \in T, NEW c \in C PROVE Append(t, c) \in T
  <2>1. Append(t, c) \in Seq(C)
    OBVIOUS
  <2> QED
    BY <1>2, <2>1, SegmentationStep
<1> HIDE DEF T
<1>3. Seq(C) \subseteq T
  BY <1>1, <1>2, AppendInduction
<1>4. Segmentation(s, o)
  BY <1>3 DEF T
<1>5. PICK acc \in SegmentStates(C) : acc = SegmentedAll(s, o)
  BY SegmentedSteps
<1>6. PICK open \in Seq(C), closed \in Seq(Seq(C)) : open = acc.open /\ closed = acc.closed
  BY <1>5 DEF SegmentStates
<1>7. SegmentGroups(s, o) = Append(closed, open)
  BY <1>5, <1>6 DEF SegmentGroups
<1>8. EstimatedWithin(open, o) /\ \A i \in DOMAIN closed : EstimatedWithin(closed[i], o)
  BY <1>4, <1>5, <1>6 DEF Segmentation
<1>a. closed \in Seq(Seq(C)) /\ open \in Seq(C)
  BY <1>6
<1>9. Append(closed, open) \in Seq(Seq(C))
  BY <1>a
<1>10. \A i \in DOMAIN Append(closed, open) : EstimatedWithin(Append(closed, open)[i], o)
  <2>1. PICK n \in Nat : n = Len(closed)
    BY <1>a
  <2>2. /\ DOMAIN Append(closed, open) = 1..(n + 1)
        /\ \A i \in 1..n : Append(closed, open)[i] = closed[i] /\ i \in DOMAIN closed
        /\ Append(closed, open)[n + 1] = open
    BY <1>a, <2>1
  <2> SUFFICES ASSUME NEW i \in 1..(n + 1) PROVE EstimatedWithin(Append(closed, open)[i], o)
    BY <2>2
  <2>3. i \in 1..n \/ i = n + 1
    BY <2>1
  <2> QED
    BY <1>8, <2>2, <2>3
<1> QED
  BY <1>7, <1>9, <1>10

----------------------------------------------------------------------------
(* Chunks of a spool                                                       *)

\* Remembered chunks have a size.
RememberedSizes == \A c \in Chunks : remembered[c] # None => remembered[c].size \in Nat
Spooling == SpoolTypeOK /\ RememberedSizes

\* The options have no limit, as those of a writer resumed from an image.
Unlimited == options = [x \in DOMAIN options |-> options[x]]
             /\ "limit" \in DOMAIN options /\ options.limit = 0

\* What is encoded has a size.
LEMMA EncodedSize ==
    ASSUME NEW V, NEW data \in Seq(V), NEW o
    PROVE  EncodeChunk(data, o).size \in Nat
<1>1. Len(data) \in Nat /\ Grain \in Nat
  BY CodecAssumption
<1>2. Bytes(data) \in Nat
  BY <1>1 DEF Bytes
<1>3. /\ Raw(data).size \in Nat /\ Zlib(data).size \in Nat /\ Bzip2(data).size \in Nat
      /\ Pattern(data).size \in Nat
  BY <1>1, <1>2 DEF Raw, Zlib, Bzip2, Pattern, Encoded, Deflated, Bzipped
<1> QED
  BY <1>3 DEF EncodeChunk

\* So has what comes encoded.
LEMMA InputSizes ==
    ASSUME NEW chunk \in EncodedInputs
    PROVE  chunk.size \in Nat
<1>1. PICK data \in Runs :
         \/ chunk = Raw(data) \/ chunk = [Raw(data) EXCEPT !.trailer = "junk"]
         \/ chunk = Zlib(data) \/ chunk = Bzip2(data) \/ chunk = Pattern(data)
         \/ chunk = [Raw(data) EXCEPT !.trailer = "none", !.flagged = FALSE,
                                      !.size = Bytes(data)]
  BY Zenon DEF EncodedInputs
<1>2. data \in Seq(Values)
  BY <1>1, SpoolAssumption
<1>3. Len(data) \in Nat /\ Grain \in Nat
  BY <1>2, CodecAssumption
<1>4. Bytes(data) \in Nat
  BY <1>3 DEF Bytes
<1>5. /\ Raw(data).size \in Nat /\ Zlib(data).size \in Nat /\ Bzip2(data).size \in Nat
      /\ Pattern(data).size \in Nat
  BY <1>3, <1>4 DEF Raw, Zlib, Bzip2, Pattern, Encoded, Deflated, Bzipped
<1>6. [Raw(data) EXCEPT !.trailer = "junk"].size \in Nat
  BY <1>3, <1>4 DEF Raw, Encoded
<1>7. [Raw(data) EXCEPT !.trailer = "none", !.flagged = FALSE, !.size = Bytes(data)].size \in Nat
  BY <1>4 DEF Raw, Encoded
<1> QED
  BY <1>1, <1>5, <1>6, <1>7

\* A write leaves what is spooled so.
LEMMA PutSpooled ==
    ASSUME Spooling, NEW at \in Nat, NEW data \in Seq(Values), NEW chunk,
           chunk # None => chunk.size \in Nat,
           Accepts(at, data), Put(at, data, chunk), Called
    PROVE  Spooling'
<1>1. SpoolTypeOK'
  BY PutType DEF Spooling
<1>2. RememberedSizes'
  BY DEF Put, RememberedSizes, Spooling
<1> QED
  BY <1>1, <1>2 DEF Spooling

\* A seek does.
LEMMA MoveSpooled ==
    ASSUME Spooling, NEW at \in Nat, Called, position' = at,
           UNCHANGED <<options, raw, remembered, inputSize, aborted>>
    PROVE  Spooling'
BY SpoolAssumption DEF Spooling, SpoolTypeOK, RememberedSizes, Called

\* An encoded chunk does.
LEMMA EncodedSpooled ==
    ASSUME Spooling, NEW at \in Nat, NEW chunk \in EncodedInputs,
           Accepts(at, chunk.data),
           Put(at, chunk.data, Remembered(chunk, at, options)), Called
    PROVE  Spooling'
<1>1. chunk.data \in Seq(Values) /\ chunk.size \in Nat
  BY InputsDecode, InputSizes
<1>2. Remembered(chunk, at, options) # None => Remembered(chunk, at, options).size \in Nat
  BY <1>1, RememberedWhere
<1> QED
  BY <1>1, <1>2, PutSpooled

\* Every call does, whether or not the size of a chunk is settled.
LEMMA SpoolingNext ==
    ASSUME Spooling, SpoolNext
    PROVE  Spooling'
<1> USE SpoolAssumption
<1>0. position \in Nat
  BY DEF Spooling, SpoolTypeOK
<1>1. ASSUME NEW data \in Runs, WriteAll(data) PROVE Spooling'
  BY <1>0, <1>1, PutSpooled DEF WriteAll
<1>2. ASSUME NEW data \in Runs, NEW at \in Offsets, WriteAt(data, at) PROVE Spooling'
  BY <1>2, PutSpooled, MoveSpooled DEF WriteAt
<1>3. ASSUME NEW chunk \in EncodedInputs, WriteEncoded(chunk) PROVE Spooling'
  BY <1>0, <1>3, EncodedSpooled DEF WriteEncoded
<1>4. ASSUME NEW chunk \in EncodedInputs, NEW at \in Offsets, WriteEncodedAt(chunk, at)
      PROVE Spooling'
  BY <1>4, EncodedSpooled, MoveSpooled DEF WriteEncodedAt
<1>5. ASSUME NEW at \in Offsets \cup {MediaEnd}, Seek(at) PROVE Spooling'
  <2>1. MediaEnd \in Nat
    BY DEF MediaEnd, Spooling, SpoolTypeOK, Options
  <2> QED
    BY <1>5, <2>1, MoveSpooled DEF Seek
<1>6. ASSUME NEW o \in Configs, SetChunk(o.chunk) PROVE Spooling'
  <2>1. options' \in Options
    BY <1>6 DEF SetChunk, Spooling, SpoolTypeOK, Options
  <2>2. SpoolTypeOK'
    BY <1>6, <2>1 DEF SetChunk, Spooling, SpoolTypeOK, Called
  <2>3. \A c \in Chunks : remembered'[c] = None
    BY <1>6 DEF SetChunk
  <2> QED
    BY <2>2, <2>3 DEF Spooling, RememberedSizes
<1>7. ASSUME NEW info \in Infos, CopyMediaValues(info) PROVE Spooling'
  <2>1. options' \in Options
    <3>1. /\ info.format \in Formats /\ info.compression \in STRING
          /\ info.chunk \in Nat \ {0} /\ info.media \in 0..Limit
      OBVIOUS
    <3>2. options \in Options
      BY DEF Spooling, SpoolTypeOK
    <3>3. options' = [options EXCEPT !.format = info.format, !.chunk = info.chunk,
                                     !.media = info.media,
                                     !.compression = info.compression,
                                     !.emptyBlock = TRUE]
      BY <1>7 DEF CopyMediaValues
    <3> QED
      BY <3>1, <3>2, <3>3 DEF Options
  <2> QED
    BY <1>7, <2>1 DEF CopyMediaValues, Spooling, SpoolTypeOK, RememberedSizes, Called
<1>8. CASE SignalAbort
  BY <1>8 DEF SignalAbort, Spooling, SpoolTypeOK, RememberedSizes
<1> QED
  BY <1>1, <1>2, <1>3, <1>4, <1>5, <1>6, <1>7, <1>8 DEF SpoolNext

\* A writer without a limit has none later.
LEMMA UnlimitedNext ==
    ASSUME Unlimited, SpoolNext
    PROVE  Unlimited'
<1>1. CASE options' = options
  BY <1>1 DEF Unlimited
<1>2. ASSUME NEW grains, SetChunk(grains) PROVE Unlimited'
  BY <1>2 DEF SetChunk, Unlimited
<1>3. ASSUME NEW info, CopyMediaValues(info) PROVE Unlimited'
  BY <1>3 DEF CopyMediaValues, Unlimited
<1> QED
  BY <1>1, <1>2, <1>3
  DEF SpoolNext, WriteAll, WriteAt, WriteEncoded, WriteEncodedAt, Put, Seek, SignalAbort

\* What is in so many chunks is in the number.
LEMMA DivLower ==
    ASSUME NEW k \in Nat \ {0}, NEW a \in Nat, NEW m \in Nat, m <= a \div k
    PROVE  m * k <= a
<1>1. PICK q \in Nat, r \in Nat : a = q * k + r /\ q = a \div k
  OBVIOUS
<1>2. PICK d \in Nat : q = m + d
  <2>1. q - m \in Nat /\ q = m + (q - m)
    BY <1>1
  <2> QED
    BY <2>1
<1>3. q * k = m * k + d * k
  BY <1>2
<1>4. m * k \in Nat /\ d * k \in Nat
  BY <1>2
<1> QED
  BY <1>1, <1>3, <1>4

\* Rounded up to whole ks, a number is not above one that is whole.
LEMMA RoundedUp ==
    ASSUME NEW k \in Nat \ {0}, NEW a \in Nat, NEW b \in Nat, a <= b, b % k = 0
    PROVE  /\ ((a + k - 1) \div k) * k \in Nat
           /\ ((a + k - 1) \div k) * k <= b
<1>1. b = (b \div k) * k /\ b \div k \in Nat
  BY ExactDivision
<1>2. PICK q \in Nat : q = b \div k
  BY <1>1
<1>3. a + k - 1 \in Nat /\ q * k + (k - 1) \in Nat /\ a + k - 1 <= q * k + (k - 1)
  <2>1. PICK p \in Nat : p = q * k
    OBVIOUS
  <2>2. b = p
    BY <1>1, <1>2, <2>1
  <2>3. a + k - 1 \in Nat /\ p + (k - 1) \in Nat /\ a + k - 1 <= p + (k - 1)
    BY <2>2
  <2> QED
    BY <2>1, <2>3
<1>4. (a + k - 1) \div k <= (q * k + (k - 1)) \div k
  BY <1>3, DivMonotone
<1>5. (q * k + (k - 1)) \div k = q
  <2>1. k - 1 \in Nat /\ k - 1 < k
    OBVIOUS
  <2> QED
    BY <2>1, DivOfChunk
<1>6. PICK m \in Nat : m = (a + k - 1) \div k
  BY <1>3
<1>7. m <= q
  BY <1>4, <1>5, <1>6
<1>8. PICK d \in Nat : q = m + d
  <2>1. q - m \in Nat /\ q = m + (q - m)
    BY <1>7
  <2> QED
    BY <2>1
<1>9. q * k = m * k + d * k /\ m * k \in Nat /\ d * k \in Nat
  BY <1>8
<1>10. m * k <= b
  <2>1. PICK x \in Nat, y \in Nat : x = m * k /\ y = d * k
    BY <1>9
  <2> QED
    BY <1>1, <1>2, <1>9, <2>1
<1> QED
  BY <1>6, <1>9, <1>10

\* A chunk to write lies in the media.
LEMMA ChunksInMedia ==
    ASSUME Spooling
    PROVE  /\ LogicalSize \in Nat /\ ChunkCount \in Nat
           /\ \A c \in 0..(ChunkCount - 1) : c \in Chunks /\ ChunkLen(c) \in Nat
<1>1. MediaEnd \in Nat /\ MediaEnd <= Limit
  BY SpoolAssumption DEF MediaEnd, Spooling, SpoolTypeOK, Options
<1>2. LogicalSize \in Nat /\ LogicalSize <= Limit
  <2>1. SectorGrains \in Nat \ {0} /\ Limit \in Nat /\ Limit % SectorGrains = 0
    BY CodecAssumption, SpoolAssumption
  <2>2. PICK m \in Nat : m = MediaEnd
    BY <1>1
  <2>3. /\ ((m + SectorGrains - 1) \div SectorGrains) * SectorGrains \in Nat
        /\ ((m + SectorGrains - 1) \div SectorGrains) * SectorGrains <= Limit
    BY <1>1, <2>1, <2>2, RoundedUp
  <2> QED
    BY <2>2, <2>3 DEF LogicalSize
<1>3. PICK k \in Nat \ {0} : k = options.chunk
  BY DEF Spooling, SpoolTypeOK, Options
<1>4. PICK l \in Nat : l = LogicalSize
  BY <1>2
<1>5. l + k - 1 \in Nat /\ (l + k - 1) \div k \in Nat
  BY <1>3, <1>4
<1>6. PICK n \in Nat : n = (l + k - 1) \div k
  BY <1>5
<1>7. ChunkCount = n
  BY <1>3, <1>4, <1>6 DEF ChunkCount
<1>8. ASSUME NEW c \in 0..(n - 1) PROVE c \in Chunks /\ ChunkLen(c) \in Nat
  <2>1. c \in Nat /\ c + 1 \in Nat /\ c + 1 <= n
    BY <1>6
  <2>2. (c + 1) * k <= l + k - 1
    BY <1>3, <1>5, <1>6, <2>1, DivLower
  <2>3. PICK x \in Nat : x = c * k
    BY <1>3, <2>1
  <2>4. (c + 1) * k = x + k
    BY <1>3, <2>1, <2>3
  <2>5. x <= l - 1
    BY <1>3, <1>4, <2>2, <2>3, <2>4
  <2>6. c <= x
    <3>1. PICK e \in Nat : k = e + 1
      <4>1. k - 1 \in Nat /\ k = (k - 1) + 1
        BY <1>3
      <4> QED
        BY <4>1
    <3>2. c * k = c * e + c /\ c * e \in Nat
      BY <2>1, <3>1
    <3> QED
      BY <2>1, <2>3, <3>2
  <2>7. c \in Chunks
    <3>1. c <= Limit
      BY <1>2, <1>4, <2>1, <2>3, <2>5, <2>6, SpoolAssumption
    <3> QED
      BY <2>1, <3>1, SpoolAssumption DEF Chunks
  <2>8. ChunkLen(c) = IF l - x < k THEN l - x ELSE k
    BY <1>3, <1>4, <2>3 DEF ChunkLen
  <2>9. l - x \in Nat
    BY <1>4, <2>3, <2>5
  <2> QED
    BY <1>3, <2>7, <2>8, <2>9
<1> QED
  BY <1>2, <1>6, <1>7, <1>8

\* The chunks of the image have a size.
LEMMA SpooledChunks ==
    ASSUME Spooling
    PROVE  \E C : HaveSizes(C) /\ EncodedChunks \in Seq(C)
<1>1. PICK n \in Nat : n = ChunkCount
  BY ChunksInMedia
<1>2. PICK C : C = {ChunkToWrite(i - 1) : i \in 1..n}
  OBVIOUS
<1>3. EncodedChunks \in [1..n -> C]
  BY <1>1, <1>2 DEF EncodedChunks
<1>4. EncodedChunks \in Seq(C)
  BY <1>1, <1>3
<1>5. ASSUME NEW i \in 1..n PROVE ChunkToWrite(i - 1).size \in Nat
  <2>1. PICK c \in 0..(n - 1) : c = i - 1
    BY <1>1
  <2>2. c \in Chunks /\ ChunkLen(c) \in Nat
    BY <1>1, <2>1, ChunksInMedia
  <2>3. CASE ChunkToWrite(c) = remembered[c] /\ remembered[c] # None
    BY <2>1, <2>2, <2>3 DEF Spooling, RememberedSizes
  <2>4. CASE ChunkToWrite(c) = EncodeChunk(MediaOfChunk(c), options)
    <3>1. PICK V : V = {raw[c * options.chunk + j - 1] : j \in 1..ChunkLen(c)}
      OBVIOUS
    <3>2. MediaOfChunk(c) \in [1..ChunkLen(c) -> V]
      BY <3>1 DEF MediaOfChunk
    <3>3. MediaOfChunk(c) \in Seq(V)
      BY <2>2, <3>2
    <3>4. PICK data \in Seq(V) : data = MediaOfChunk(c)
      BY <3>3
    <3>5. EncodeChunk(data, options).size \in Nat
      BY EncodedSize
    <3> QED
      BY <2>1, <2>4, <3>4, <3>5
  <2> QED
    BY <2>3, <2>4 DEF ChunkToWrite
<1>6. HaveSizes(C)
  BY <1>2, <1>5 DEF HaveSizes
<1> QED
  BY <1>4, <1>6

----------------------------------------------------------------------------
(* Files within the limit                                                  *)

FileWithin(file, limit) == Cardinality(ChunksAt(file)) > 1 => file.length <= limit

\* A segment estimated within the limit is.
LEMMA SegmentFileWithin ==
    ASSUME NEW C, HaveSizes(C), NEW chunks \in Seq(C), NEW o, o.limit \in Nat,
           EstimatedWithin(chunks, o), NEW context, context.terminal \in {"done", "next"},
           NEW file, file = IF IsEwf2(o.format) THEN Ewf2Segment(chunks, o, context)
                            ELSE Ewf1Segment(chunks, o, context)
    PROVE  FileWithin(file, o.limit)
<1>1. CASE Len(chunks) <= 1
  <2>1. Cardinality(ChunksAt(file)) \in {0, 1}
    BY <1>1, FewChunks
  <2> QED
    BY <2>1 DEF FileWithin
<1>2. CASE ~(Len(chunks) <= 1)
  <2>1. PICK p, t : p = Payload(chunks) /\ t = GroupedAll(chunks).state.count
    OBVIOUS
  <2>2. p \in Nat /\ Len(chunks) \in Nat
    BY <2>1, PayloadOfChunks
  <2>3. t \in Nat
    <3>1. GroupedAll(chunks) \in GroupStates(C)
      BY GroupedSteps
    <3> QED
      BY <2>1, <3>1 DEF GroupStates
  <2>4. EstimatedSize(Len(chunks), p, t, o) \in Nat
    BY <2>2, <2>3, EstimateNat
  <2>5. EstimatedSize(Len(chunks), p, t, o) <= o.limit
    BY <1>2, <2>1 DEF EstimatedWithin
  <2>6. file.length <= EstimatedSize(Len(chunks), p, t, o) /\ file.length \in Nat
    <3>1. CASE IsEwf2(o.format)
      <4>1. file = Ewf2Segment(chunks, o, context)
        BY <3>1
      <4>2. EstimatedSize(Len(chunks), p, t, o) = EstimateEwf2(Len(chunks), p, o)
        BY <3>1 DEF EstimatedSize
      <4>3. Measured(Ewf2Pieces(chunks, o, context),
                     FileHeader2 + Sections2Bytes(chunks, o, context), Len(chunks))
        BY Ewf2Measured
      <4>4. file.length \in Nat
        BY <4>1, <4>3, AssembledLength, MeasuredNat DEF Ewf2Segment
      <4> QED
        BY <2>1, <4>1, <4>2, <4>4, Ewf2Estimated
    <3>2. CASE ~IsEwf2(o.format)
      <4>1. file = Ewf1Segment(chunks, o, context)
        BY <3>2
      <4>2. EstimatedSize(Len(chunks), p, t, o)
              = EstimateEwf1(Len(chunks), p, t, o, SectionSize)
        BY <3>2 DEF EstimatedSize
      <4>3. Measured(Ewf1Pieces(chunks, o, context), Ewf1Bytes(C, chunks, o, context),
                     Len(chunks))
        BY Ewf1Measured
      <4>4. file.length \in Nat
        BY <4>1, <4>3, AssembledLength, MeasuredNat DEF Ewf1Segment
      <4>5. chunks # <<>>
        <5>1. Len(<<>>) = 0
          OBVIOUS
        <5> QED
          BY <1>2, <5>1
      <4> QED
        BY <2>1, <4>1, <4>2, <4>4, <4>5, Ewf1Estimated
    <3> QED
      BY <3>1, <3>2
  <2> QED
    BY <2>4, <2>5, <2>6 DEF FileWithin
<1> QED
  BY <1>1, <1>2

\* The segments of a spool are within the limit of its options.
LEMMA SpoolFilesWithin ==
    ASSUME Spooling, options.limit # 0, NEW terminal \in {"done", "next"},
           NEW groups, groups = SegmentGroups(EncodedChunks, options),
           NEW files, files = SpoolFiles(groups, Contexts(groups, terminal))
    PROVE  \A i \in DOMAIN files : FileWithin(files[i], options.limit)
<1>1. options.limit \in Nat \ {0}
  BY DEF Spooling, SpoolTypeOK, Options
<1>2. PICK C : HaveSizes(C) /\ EncodedChunks \in Seq(C)
  BY SpooledChunks
<1>a. PICK o : o = options
  OBVIOUS
<1>b. PICK s \in Seq(C) : s = EncodedChunks
  BY <1>2
<1>3. o = options /\ s = EncodedChunks
  BY <1>a, <1>b
<1>4. /\ groups \in Seq(Seq(C))
      /\ \A i \in DOMAIN groups : EstimatedWithin(groups[i], o)
  BY <1>1, <1>2, <1>3, <1>b, SegmentsEstimated
<1> SUFFICES ASSUME NEW i \in DOMAIN files PROVE FileWithin(files[i], options.limit)
  OBVIOUS
<1>5. DOMAIN files = DOMAIN groups
      /\ files[i] = FileOf(groups[i], Contexts(groups, terminal)[i])
  BY DEF SpoolFiles
<1>6. PICK chunks \in Seq(C) : chunks = groups[i]
  BY <1>4, <1>5
<1>7. PICK context : context = Contexts(groups, terminal)[i]
  OBVIOUS
<1>8. context.terminal \in {"done", "next"}
  BY <1>5, <1>7 DEF Contexts
<1>9. files[i] = IF IsEwf2(o.format) THEN Ewf2Segment(chunks, o, context)
                 ELSE Ewf1Segment(chunks, o, context)
  BY <1>3, <1>5, <1>6, <1>7 DEF FileOf
<1>10. EstimatedWithin(chunks, o) /\ o.limit \in Nat
  BY <1>1, <1>3, <1>4, <1>5, <1>6
<1>11. FileWithin(files[i], o.limit)
  BY <1>2, <1>8, <1>9, <1>10, SegmentFileWithin
<1> QED
  BY <1>3, <1>11

----------------------------------------------------------------------------
(* The sequential writer                                                   *)

SeqChunks == [encoding : {"raw", "zlib", "bzip2", "pattern"}, size : Nat,
              trailer : {"none", "adler"}, flagged : BOOLEAN, data : Seq(Values)]
SeqStates == [pending : Seq(Values), group : Seq(SeqChunks), staged : Seq(Seq(SeqChunks)),
              ok : BOOLEAN]

\* What is staged was found to fit.
StagedFit(segments) == \A i \in DOMAIN segments : Stageable(segments[i], i, FALSE)
FitStates == {state \in SeqStates : state.ok => StagedFit(state.staged)}

\* The chunks of the sequential writer have a size.
LEMMA SeqChunksHaveSizes == HaveSizes(SeqChunks)
BY DEF SeqChunks, HaveSizes

\* What the writer encodes.
LEMMA EncodedTyped ==
    ASSUME NEW data \in Seq(Values), NEW o
    PROVE  EncodeChunk(data, o) \in SeqChunks
<1>1. Len(data) \in Nat /\ Grain \in Nat
  BY CodecAssumption
<1>2. Bytes(data) \in Nat
  BY <1>1 DEF Bytes
<1>3. Deflated(data) \in Nat /\ Bzipped(data) \in Nat
  BY <1>1, <1>2 DEF Deflated, Bzipped
<1>4. Raw(data) \in SeqChunks
  BY <1>2 DEF Raw, Encoded, SeqChunks
<1>5. Zlib(data) \in SeqChunks
  BY <1>3 DEF Zlib, Encoded, SeqChunks
<1>6. Bzip2(data) \in SeqChunks
  BY <1>3 DEF Bzip2, Encoded, SeqChunks
<1>7. Pattern(data) \in SeqChunks
  BY DEF Pattern, Encoded, SeqChunks
<1> QED
  BY <1>4, <1>5, <1>6, <1>7 DEF EncodeChunk

\* One segment more fits if it was found to.
LEMMA StagedOneMore ==
    ASSUME NEW segments \in Seq(Seq(SeqChunks)), StagedFit(segments),
           NEW chunks \in Seq(SeqChunks), Stageable(chunks, Len(segments) + 1, FALSE)
    PROVE  StagedFit(Append(segments, chunks))
<1>1. PICK n \in Nat : n = Len(segments)
  OBVIOUS
<1>2. /\ DOMAIN Append(segments, chunks) = 1..(n + 1)
      /\ \A i \in 1..n : Append(segments, chunks)[i] = segments[i] /\ i \in DOMAIN segments
      /\ Append(segments, chunks)[n + 1] = chunks
  BY <1>1
<1> SUFFICES ASSUME NEW i \in 1..(n + 1) PROVE Stageable(Append(segments, chunks)[i], i, FALSE)
  BY <1>2 DEF StagedFit
<1>3. i \in 1..n \/ i = n + 1
  BY <1>1
<1> QED
  BY <1>1, <1>2, <1>3 DEF StagedFit

\* A chunk pushed leaves what is staged fitting (encode_batch, stage_group).
LEMMA PushFits ==
    ASSUME NEW state \in FitStates, NEW chunks \in Seq(SeqChunks)
    PROVE  Push(state, chunks) \in FitStates
<1>1. state \in SeqStates /\ (state.ok => StagedFit(state.staged))
  BY DEF FitStates
<1>2. PICK segments \in Seq(Seq(SeqChunks)) : segments = state.staged
  BY <1>1 DEF SeqStates
<1>3. PICK fits \in BOOLEAN : fits <=> Stageable(chunks, Len(segments) + 1, FALSE)
  OBVIOUS
<1>4. PICK staged1 : staged1 = Append(segments, chunks)
  OBVIOUS
<1>5. staged1 \in Seq(Seq(SeqChunks))
  <2>1. segments \in Seq(Seq(SeqChunks))
    BY <1>2
  <2>2. Append(segments, chunks) \in Seq(Seq(SeqChunks))
    BY <2>1
  <2> QED
    BY <1>4, <2>2
<1>6. CASE Push(state, chunks) = [state EXCEPT !.group = chunks]
  <2>1. Push(state, chunks) \in SeqStates
    BY <1>1, <1>6 DEF SeqStates
  <2>2. Push(state, chunks).ok = state.ok /\ Push(state, chunks).staged = state.staged
    BY <1>1, <1>6 DEF SeqStates
  <2> QED
    BY <1>1, <2>1, <2>2 DEF FitStates
<1>7. CASE Push(state, chunks)
             = [state EXCEPT !.group = <<>>, !.staged = Append(@, chunks),
                             !.ok = @ /\ Stageable(chunks, Len(state.staged) + 1, FALSE)]
  <2>1. Push(state, chunks)
          = [pending |-> state.pending, group |-> <<>>, staged |-> staged1,
             ok |-> state.ok /\ Stageable(chunks, Len(state.staged) + 1, FALSE)]
    <3>1. state = [pending |-> state.pending, group |-> state.group, staged |-> state.staged,
                   ok |-> state.ok]
      BY <1>1 DEF SeqStates
    <3> QED
      BY <1>2, <1>4, <1>7, <3>1
  <2>2. <<>> \in Seq(SeqChunks) /\ state.pending \in Seq(Values)
    BY <1>1 DEF SeqStates
  <2>3. Push(state, chunks).ok \in BOOLEAN
    BY <2>1
  <2>4. Push(state, chunks).ok => state.ok /\ Stageable(chunks, Len(segments) + 1, FALSE)
    <3>1. Push(state, chunks).ok
            = (state.ok /\ Stageable(chunks, Len(state.staged) + 1, FALSE))
      BY <2>1
    <3>2. state.staged = segments
      BY <1>2
    <3>3. Push(state, chunks).ok => state.ok /\ Stageable(chunks, Len(state.staged) + 1, FALSE)
      BY <3>1, Zenon
    <3> QED
      BY <3>2, <3>3, Zenon
  <2>5. Push(state, chunks).staged = staged1
    BY <2>1
  <2>6. Push(state, chunks) \in SeqStates
    BY <1>5, <2>1, <2>2, <2>3 DEF SeqStates
  <2>7. Push(state, chunks).ok => StagedFit(staged1)
    <3>1. SUFFICES ASSUME Push(state, chunks).ok PROVE StagedFit(staged1)
      OBVIOUS
    <3>2. StagedFit(segments) /\ Stageable(chunks, Len(segments) + 1, FALSE)
      BY <1>1, <1>2, <2>4, <3>1
    <3>3. StagedFit(Append(segments, chunks))
      BY <1>2, <3>2, StagedOneMore
    <3> QED
      BY <1>4, <3>3
  <2> QED
    BY <2>5, <2>6, <2>7 DEF FitStates
<1> QED
  BY <1>6, <1>7 DEF Push

\* A grain more does.
LEMMA TakeFits ==
    ASSUME NEW state \in FitStates, NEW grain \in Values
    PROVE  Take(state, grain) \in FitStates
<1>1. state \in SeqStates /\ (state.ok => StagedFit(state.staged))
  BY DEF FitStates
<1>2. PICK before \in Seq(Values) : before = state.pending
  BY <1>1 DEF SeqStates
<1>a. before \in Seq(Values)
  BY <1>2
<1>b. Append(before, grain) \in Seq(Values)
  BY <1>a
<1>3. PICK held \in Seq(Values) : held = Append(before, grain)
  BY <1>b
<1>4. CASE Take(state, grain) = [state EXCEPT !.pending = held]
  <2>1. Take(state, grain) \in SeqStates
    BY <1>1, <1>3, <1>4 DEF SeqStates
  <2>2. Take(state, grain).ok = state.ok /\ Take(state, grain).staged = state.staged
    BY <1>1, <1>4 DEF SeqStates
  <2> QED
    BY <1>1, <2>1, <2>2 DEF FitStates
<1>5. CASE Take(state, grain) = Encode([state EXCEPT !.pending = <<>>], held)
  <2>1. PICK next : next = [state EXCEPT !.pending = <<>>]
    OBVIOUS
  <2>2. next \in FitStates
    <3>1. <<>> \in Seq(Values)
      OBVIOUS
    <3>2. next \in SeqStates
      BY <1>1, <2>1, <3>1 DEF SeqStates
    <3>3. next.ok = state.ok /\ next.staged = state.staged
      BY <1>1, <2>1 DEF SeqStates
    <3> QED
      BY <1>1, <3>2, <3>3 DEF FitStates
  <2>3. PICK earlier \in Seq(SeqChunks) : earlier = next.group
    BY <2>2 DEF FitStates, SeqStates
  <2>4. PICK chunk \in SeqChunks : chunk = EncodeChunk(held, opts)
    BY <1>3, EncodedTyped
  <2>5. earlier \in Seq(SeqChunks) /\ chunk \in SeqChunks
    BY <2>3, <2>4
  <2>6. Append(earlier, chunk) \in Seq(SeqChunks)
    BY <2>5
  <2>7. PICK chunks \in Seq(SeqChunks) : chunks = Append(earlier, chunk)
    BY <2>6
  <2>8. Take(state, grain) = Push(next, chunks)
    BY <1>5, <2>1, <2>3, <2>4, <2>7 DEF Encode
  <2> QED
    BY <2>2, <2>7, <2>8, PushFits
<1> QED
  BY <1>2, <1>3, <1>4, <1>5 DEF Take

\* A whole write is its grains in turn.
LEMMA TakeAllRuns ==
    ASSUME Current \in FitStates, NEW data \in Seq(Values)
    PROVE  \E f : /\ f[0] = Current /\ \A n \in 1..Len(data) : f[n] = Take(f[n - 1], data[n])
                  /\ TakeAll(data) = f[Len(data)]
<1> DEFINE step == [p \in FitStates \X Values |-> Take(p[1], p[2])]
<1>1. PICK V, first : V = FitStates /\ first = Current
  OBVIOUS
<1>2. first \in V
  BY <1>1
<1>3. /\ step \in [V \X Values -> V]
      /\ \A v \in V, x \in Values : step[<<v, x>>] = Take(v, x)
  BY <1>1, TakeFits
<1> HIDE DEF step
<1>4. PICK take : take = step
  OBVIOUS
<1>5. take \in Steps(V, Values) /\ \A v \in V, x \in Values : take[<<v, x>>] = Take(v, x)
  BY <1>3, <1>4 DEF Steps
<1>6. PICK f \in [0..Len(data) -> V] : RunsOver(V, first, take, data, f)
  BY <1>2, <1>5, RunExists
<1> DEFINE upTo[n \in 0..Len(data)] == IF n = 0 THEN Current ELSE Take(upTo[n - 1], data[n])
<1>7. /\ Len(data) \in Nat
      /\ \A n \in 1..Len(data) : /\ data[n] \in Values /\ n # 0
                                 /\ n \in 0..Len(data) /\ n - 1 \in 0..Len(data)
  OBVIOUS
<1>8. TakeAll(data) = upTo[Len(data)]
  BY DEF TakeAll
<1>9. \A n \in 0..Len(data) : f[n] = IF n = 0 THEN Current ELSE Take(f[n - 1], data[n])
  <2> SUFFICES ASSUME NEW n \in 1..Len(data) PROVE f[n] = Take(f[n - 1], data[n])
    BY <1>1, <1>6, <1>7 DEF RunsOver
  <2>1. f[n - 1] \in V /\ data[n] \in Values
    BY <1>6, <1>7
  <2>2. f[n] = take[<<f[n - 1], data[n]>>]
    BY <1>6, <2>1 DEF RunsOver
  <2> QED
    BY <1>5, <2>1, <2>2
<1>10. \E h : h = [n \in 0..Len(data) |-> IF n = 0 THEN Current ELSE Take(h[n - 1], data[n])]
  <2>1. f = [n \in 0..Len(data) |-> f[n]]
    BY <1>6
  <2>2. f = [n \in 0..Len(data) |-> IF n = 0 THEN Current ELSE Take(f[n - 1], data[n])]
    BY <1>9, <2>1, Zenon
  <2> QED
    BY <2>2
<1>11. upTo = [n \in 0..Len(data) |-> IF n = 0 THEN Current ELSE Take(upTo[n - 1], data[n])]
  BY <1>10
<1> HIDE DEF upTo
<1>12. \A n \in 0..Len(data) : upTo[n] = IF n = 0 THEN Current ELSE Take(upTo[n - 1], data[n])
  BY <1>11, Zenon
<1>13. upTo[0] = Current /\ \A n \in 1..Len(data) : upTo[n] = Take(upTo[n - 1], data[n])
  <2>1. 0 \in 0..Len(data)
    BY <1>7
  <2> QED
    BY <1>7, <1>12, <2>1
<1> QED
  BY <1>8, <1>13

\* So it leaves what is staged fitting.
LEMMA TakeAllFits ==
    ASSUME Current \in FitStates, NEW data \in Seq(Values)
    PROVE  TakeAll(data) \in FitStates
<1>1. PICK f : /\ f[0] = Current /\ \A n \in 1..Len(data) : f[n] = Take(f[n - 1], data[n])
               /\ TakeAll(data) = f[Len(data)]
  BY TakeAllRuns
<1>2. PICK N \in Nat : N = Len(data)
  OBVIOUS
<1>3. \A n \in 1..N : data[n] \in Values /\ f[n] = Take(f[n - 1], data[n])
  BY <1>1, <1>2
<1> DEFINE T == {n \in Nat : n <= N => f[n] \in FitStates}
<1>4. 0 \in T
  BY <1>1
<1>5. ASSUME NEW n \in Nat, n \in T PROVE n + 1 \in T
  <2> SUFFICES ASSUME n + 1 <= N PROVE f[n + 1] \in FitStates
    OBVIOUS
  <2>1. n + 1 \in 1..N /\ (n + 1) - 1 = n /\ n <= N
    OBVIOUS
  <2>2. PICK state : state = f[n] /\ state \in FitStates
    BY <1>5, <2>1
  <2>3. f[n + 1] = Take(state, data[n + 1]) /\ data[n + 1] \in Values
    BY <1>3, <2>1, <2>2
  <2> QED
    BY <2>2, <2>3, TakeFits
<1> HIDE DEF T
<1>6. Nat \subseteq T
  BY <1>4, <1>5, SetInduction
<1>7. N \in T /\ N <= N
  BY <1>6
<1> QED
  BY <1>1, <1>2, <1>7 DEF T

\* The writer's state, as long as it can be finished.
Sequencing ==
    /\ settings \in Settings
    /\ taken \in Seq(Values) /\ pending \in Seq(Values)
    /\ group \in Seq(SeqChunks) /\ staged \in Seq(Seq(SeqChunks))
    /\ poisoned = "no" => StagedFit(staged)

\* A writer that could not stage a segment is not used again.
LEMMA FailurePoisons ==
    ASSUME NEW state, NEW n, StagingFails(state, n)
    PROVE  poisoned' # "no"
<1>1. poisoned' = "io" \/ poisoned' = StageRefusal(state.staged[n])
  BY DEF StagingFails
<1>2. StageRefusal(state.staged[n]) \in {"overlong", "refused"}
  BY DEF StageRefusal
<1> QED
  BY <1>1, <1>2

\* Every call of the sequential writer leaves it so, or ends it.
LEMMA SequencingNext ==
    ASSUME Sequencing, SeqNext
    PROVE  Sequencing'
<1>1. PICK data \in Pieces : SeqWriteAll(data)
  BY DEF SeqNext
<1>2. data \in Seq(Values)
  BY SequentialAssumption
<1>3. settings' = settings /\ perSegment' = perSegment /\ poisoned = "no"
  BY <1>1 DEF SeqWriteAll
<1>4. CASE Len(taken) + Len(data) > settings.source
  BY <1>1, <1>3, <1>4 DEF SeqWriteAll, Sequencing
<1>5. CASE ~(Len(taken) + Len(data) > settings.source)
  <2>1. taken' = taken \o data /\ Become(TakeAll(data))
    BY <1>1, <1>5 DEF SeqWriteAll
  <2>2. Current \in FitStates
    BY <1>3 DEF Current, FitStates, SeqStates, Sequencing
  <2>3. PICK state : state = TakeAll(data)
    OBVIOUS
  <2>4. state \in SeqStates /\ (state.ok => StagedFit(state.staged))
    BY <1>2, <2>2, <2>3, TakeAllFits DEF FitStates
  <2>5. /\ pending' = state.pending
        /\ \/ /\ state.ok /\ poisoned' = "no"
              /\ group' = state.group /\ staged' = state.staged
           \/ \E n \in (Len(staged) + 1)..Len(state.staged) : StagingFails(state, n)
    BY <2>1, <2>3 DEF Become
  <2>a. Len(staged) \in Nat
    BY DEF Sequencing
  <2>b. ASSUME NEW n \in (Len(staged) + 1)..Len(state.staged), StagingFails(state, n)
        PROVE  poisoned' # "no" /\ group' \in Seq(SeqChunks) /\ staged' \in Seq(Seq(SeqChunks))
    <3>1. PICK segments \in Seq(Seq(SeqChunks)) : segments = state.staged
      BY <2>4 DEF SeqStates
    <3>2. n \in 1..Len(segments) /\ n \in Nat
      BY <2>a, <2>b, <3>1
    <3>3. segments[n] \in Seq(SeqChunks) /\ <<>> \in Seq(SeqChunks)
      BY <3>1, <3>2
    <3>4. SubSeq(segments, 1, n - 1) \in Seq(Seq(SeqChunks))
      BY <3>1, <3>2
    <3>5. staged' = SubSeq(segments, 1, n - 1)
      BY <2>b, <3>1 DEF StagingFails
    <3>6. group' \in {segments[n], <<>>}
      BY <2>b, <3>1 DEF StagingFails
    <3> QED
      BY <2>b, <3>3, <3>4, <3>5, <3>6, FailurePoisons
  <2>6. /\ pending' \in Seq(Values) /\ group' \in Seq(SeqChunks)
        /\ staged' \in Seq(Seq(SeqChunks))
    BY <2>4, <2>5, <2>b DEF SeqStates
  <2>7. taken' \in Seq(Values)
    BY <1>2, <2>1 DEF Sequencing
  <2>8. ASSUME poisoned' = "no" PROVE StagedFit(staged)'
    <3>1. StagedFit(state.staged) /\ staged' = state.staged
      BY <2>4, <2>5, <2>8, <2>b
    <3>2. ASSUME NEW i \in DOMAIN staged' PROVE Stageable(staged[i], i, FALSE)'
      <4>1. Stageable(state.staged[i], i, FALSE)
        BY <3>1, <3>2 DEF StagedFit
      <4> QED
        BY <1>3, <3>1, <4>1 DEF Stageable, StagedFile, opts, Total, Sectors
    <3> QED
      BY <3>2 DEF StagedFit
  <2> QED
    BY <1>3, <2>6, <2>7, <2>8 DEF Sequencing
<1> QED
  BY <1>4, <1>5

\* What was found to fit is within the limit.
LEMMA StageableWithin ==
    ASSUME settings \in Settings, opts.limit # 0, NEW chunks \in Seq(SeqChunks),
           NEW number, NEW last, Stageable(chunks, number, last)
    PROVE  FileWithin(StagedFile(chunks, number, last), opts.limit)
<1>1. ~IsEwf2(opts.format)
  BY SequentialAssumption DEF opts
<1>2. Len(chunks) <= 1 \/ StagedFile(chunks, number, last).length <= opts.limit
  BY <1>1 DEF Stageable
<1>3. CASE Len(chunks) <= 1
  <2>1. PICK context : StagedFile(chunks, number, last) = Ewf1Segment(chunks, opts, context)
    BY <1>1 DEF StagedFile
  <2>2. PICK o : o = opts
    OBVIOUS
  <2>3. Cardinality(ChunksAt(Ewf1Segment(chunks, o, context))) \in {0, 1}
    BY <1>3, SeqChunksHaveSizes, FewChunks
  <2> QED
    BY <2>1, <2>2, <2>3 DEF FileWithin
<1> QED
  BY <1>2, <1>3 DEF FileWithin

\* The segments of a finished writer.
LEMMA SegmentsOfChunks ==
    ASSUME Sequencing
    PROVE  SeqSegments = Append(staged, group \o LastChunk(pending \o Padding))
           /\ group \o LastChunk(pending \o Padding) \in Seq(SeqChunks)
<1>1. PICK k \in Int : k = Sectors * SectorGrains - Len(taken)
  <2>1. SectorGrains \in Nat \ {0} /\ settings.source \in Nat /\ Len(taken) \in Nat
    BY CodecAssumption, SequentialAssumption DEF Sequencing
  <2>2. Sectors \in Nat
    BY <2>1 DEF Sectors
  <2>3. Sectors * SectorGrains \in Nat
    BY <2>1, <2>2
  <2> QED
    BY <2>1, <2>3
<1>2. Padding \in Seq(Values)
  <2>1. PICK n \in Nat : 1..k = 1..n
    <3>1. CASE k >= 0
      BY <3>1
    <3>2. CASE ~(k >= 0)
      <4>1. 1..k = 1..0
        BY <3>2
      <4> QED
        BY <4>1
    <3> QED
      BY <3>1, <3>2
  <2>2. Padding \in [1..n -> Values]
    BY <1>1, <2>1, CodecAssumption DEF Padding
  <2> QED
    BY <2>2
<1>3. PICK padding \in Seq(Values), rest \in Seq(Values), earlier \in Seq(SeqChunks) :
         padding = Padding /\ rest = pending /\ earlier = group
  BY <1>2 DEF Sequencing
<1>a. padding \in Seq(Values) /\ rest \in Seq(Values)
  BY <1>3
<1>b. rest \o padding \in Seq(Values)
  BY <1>a
<1>4. PICK padded \in Seq(Values) : padded = rest \o padding
  BY <1>b
<1>5. PICK chunk \in SeqChunks : chunk = EncodeChunk(padded, opts)
  BY <1>4, EncodedTyped
<1>6. LastChunk(padded) \in Seq(SeqChunks)
  BY <1>5 DEF LastChunk
<1>c. earlier \in Seq(SeqChunks)
  BY <1>3
<1>7. PICK lastOf \in Seq(SeqChunks) : lastOf = LastChunk(padded)
  BY <1>6
<1>8. earlier \o lastOf \in Seq(SeqChunks)
  BY <1>c, <1>7
<1> QED
  BY <1>3, <1>4, <1>7, <1>8 DEF SeqSegments

\* Each file a finished sequential writer stages is within the limit.
LEMMA SeqFilesWithin ==
    ASSUME Sequencing, poisoned = "no", opts.limit # 0, NEW segments, segments = SeqSegments,
           Stageable(Last(segments), Len(segments), TRUE),
           NEW files, files = SeqFiles(segments)
    PROVE  \A i \in DOMAIN files : FileWithin(files[i], opts.limit)
<1>1. PICK before \in Seq(Seq(SeqChunks)) : before = staged
  BY DEF Sequencing
<1>2. PICK final \in Seq(SeqChunks) : final = group \o LastChunk(pending \o Padding)
  BY SegmentsOfChunks
<1>3. segments = Append(before, final)
  BY <1>1, <1>2, SegmentsOfChunks
<1>4. before \in Seq(Seq(SeqChunks)) /\ final \in Seq(SeqChunks)
  BY <1>1, <1>2
<1>5. PICK n \in Nat : n = Len(before)
  BY <1>4
<1>6. /\ DOMAIN segments = 1..(n + 1) /\ Len(segments) = n + 1
      /\ \A i \in 1..n : segments[i] = before[i] /\ i \in DOMAIN before
      /\ segments[n + 1] = final
  BY <1>3, <1>4, <1>5
<1>7. \A i \in 1..n : Stageable(segments[i], i, FALSE) /\ segments[i] \in Seq(SeqChunks)
  <2> SUFFICES ASSUME NEW i \in 1..n PROVE Stageable(segments[i], i, FALSE) /\ segments[i] \in Seq(SeqChunks)
    OBVIOUS
  <2>1. StagedFit(before)
    BY <1>1 DEF Sequencing
  <2>2. i \in DOMAIN before /\ segments[i] = before[i]
    BY <1>6
  <2>3. before[i] \in Seq(SeqChunks)
    BY <1>4, <2>2
  <2> QED
    BY <2>1, <2>2, <2>3 DEF StagedFit
<1>8. Last(segments) = final
  BY <1>6 DEF Last
<1>9. Stageable(final, n + 1, TRUE)
  BY <1>6, <1>8
<1>10. /\ DOMAIN files = 1..(n + 1)
       /\ \A i \in 1..(n + 1) : files[i] = StagedFile(segments[i], i, i = n + 1)
  BY <1>6 DEF SeqFiles
<1> SUFFICES ASSUME NEW i \in 1..(n + 1) PROVE FileWithin(files[i], opts.limit)
  BY <1>10
<1>11. CASE i = n + 1
  <2>1. files[i] = StagedFile(final, n + 1, TRUE)
    <3>1. files[i] = StagedFile(segments[i], i, i = n + 1)
      BY <1>10
    <3>2. (i = n + 1) = TRUE
      BY <1>11
    <3> QED
      BY <1>6, <1>11, <3>1, <3>2
  <2> QED
    BY <1>4, <1>9, <2>1, StageableWithin DEF Sequencing
<1>12. CASE i \in 1..n
  <2>1. files[i] = StagedFile(segments[i], i, FALSE)
    <3>1. files[i] = StagedFile(segments[i], i, i = n + 1)
      BY <1>10
    <3>2. (i = n + 1) = FALSE
      BY <1>5, <1>12
    <3> QED
      BY <3>1, <3>2
  <2> QED
    BY <1>7, <1>12, <2>1, StageableWithin DEF Sequencing
<1> QED
  BY <1>5, <1>11, <1>12

----------------------------------------------------------------------------

\* What the writer that is open holds can be laid out within the limit. (A writer
\* resumed from an image has no limit, and what it holds is not constrained.)
LimitInv ==
    /\ phase = "spool" => Unlimited \/ Spooling
    /\ phase = "sequential" => Sequencing
    /\ SegmentsWithinLimit

\* A set of files published, each within the limit.
LEMMA PublishedWithin ==
    ASSUME NEW limit, outcome' \in {"done", "next"}, written'.options.limit = limit,
           limit # 0 => \A i \in DOMAIN disk' : FileWithin(disk'[i], limit)
    PROVE  SegmentsWithinLimit'
BY DEF SegmentsWithinLimit, FileWithin, ChunksAt

\* At first there is no file and a writer that is empty.
LEMMA LimitInit == Init => LimitInv
<1> SUFFICES ASSUME Init PROVE LimitInv
  OBVIOUS
<1>1. SegmentsWithinLimit
  BY DEF Init, SegmentsWithinLimit
<1>2. ASSUME phase = "spool" PROVE Spooling
  <2>1. PICK c \in Configs : SpoolInit(c)
    BY <1>2 DEF Init
  <2>2. SpoolTypeOK
    BY <2>1, SpoolInvInit DEF SpoolInv
  <2>3. RememberedSizes
    BY <2>1 DEF SpoolInit, RememberedSizes
  <2> QED
    BY <2>2, <2>3 DEF Spooling
<1>3. ASSUME phase = "sequential" PROVE Sequencing
  <2>1. PICK s \in Settings : SeqInit(s)
    BY <1>3 DEF Init
  <2>2. StagedFit(<<>>)
    BY DEF StagedFit
  <2> QED
    BY <2>1, <2>2 DEF SeqInit, Sequencing
<1> QED
  BY <1>1, <1>2, <1>3 DEF LimitInv

\* Every step of the writers, a finish and a resume included, keeps it.
LEMMA LimitNext ==
    ASSUME LimitInv, [Next]_vars
    PROVE  LimitInv'
<1>1. CASE SpoolStep
  <2>1. phase = "spool" /\ phase' = "spool" /\ SpoolNext /\ UNCHANGED <<disk, written, outcome>>
    BY <1>1 DEF SpoolStep, imageVars
  <2>2. (Unlimited \/ Spooling)'
    BY <2>1, SpoolingNext, UnlimitedNext DEF LimitInv
  <2> QED
    BY <2>1, <2>2 DEF LimitInv, SegmentsWithinLimit
<1>2. CASE SequentialStep
  <2>1. /\ phase = "sequential" /\ phase' = "sequential" /\ SeqNext
        /\ UNCHANGED <<disk, written, outcome>>
    BY <1>2 DEF SequentialStep, imageVars
  <2>2. Sequencing'
    BY <2>1, SequencingNext DEF LimitInv
  <2> QED
    BY <2>1, <2>2 DEF LimitInv, SegmentsWithinLimit
<1>3. ASSUME NEW terminal \in {"done", "next"}, FinishSpool(terminal) PROVE LimitInv'
  <2>1. /\ phase = "spool" /\ phase' = "closed"
        /\ Write(SegmentGroups(EncodedChunks, options), terminal)
    BY <1>3 DEF FinishSpool
  <2>2. PICK groups : groups = SegmentGroups(EncodedChunks, options)
    OBVIOUS
  <2>3. PICK files : files = SpoolFiles(groups, Contexts(groups, terminal))
    OBVIOUS
  <2>4. SegmentsWithinLimit'
    <3>1. CASE outcome' \in {"failed", "refused"}
      BY <3>1 DEF SegmentsWithinLimit
    <3>2. CASE outcome' = terminal /\ disk' = files /\ written'.options = options
      <4>1. ASSUME options.limit # 0
            PROVE  \A i \in DOMAIN files : FileWithin(files[i], options.limit)
        <5>1. Spooling
          BY <2>1, <4>1 DEF LimitInv, Unlimited
        <5> QED
          BY <2>2, <2>3, <4>1, <5>1, SpoolFilesWithin
      <4>2. outcome' \in {"done", "next"} /\ written'.options.limit = options.limit
        BY <3>2
      <4> QED
        BY <3>2, <4>1, <4>2, PublishedWithin
    <3> QED
      BY <2>1, <2>2, <2>3, <3>1, <3>2 DEF Write, Fail, Publish
  <2> QED
    BY <2>1, <2>4 DEF LimitInv
<1>4. CASE FinishSequential
  <2>1. /\ phase = "sequential" /\ phase' = "closed" /\ WriteSequential(SeqSegments)
    BY <1>4 DEF FinishSequential
  <2>2. Sequencing
    BY <2>1 DEF LimitInv
  <2>3. PICK segments : segments = SeqSegments
    OBVIOUS
  <2>4. PICK files : files = SeqFiles(segments)
    OBVIOUS
  <2>5. SegmentsWithinLimit'
    <3>1. CASE outcome' \in {"failed", "refused", "overlong"}
      BY <3>1 DEF SegmentsWithinLimit
    <3>2. CASE /\ poisoned = "no" /\ Stageable(Last(segments), Len(segments), TRUE)
               /\ outcome' = "done" /\ disk' = files /\ written'.options = opts
      <4>1. ASSUME opts.limit # 0
            PROVE  \A i \in DOMAIN files : FileWithin(files[i], opts.limit)
        BY <2>2, <2>3, <2>4, <3>2, <4>1, SeqFilesWithin
      <4>2. outcome' \in {"done", "next"} /\ written'.options.limit = opts.limit
        BY <3>2
      <4> QED
        BY <3>2, <4>1, <4>2, PublishedWithin
    <3>3. WriteSequential(segments)
      BY <2>1, <2>3
    <3>4. CASE poisoned # "no" \/ Len(taken) # settings.source
      BY <3>1, <3>3, <3>4 DEF WriteSequential, Fail
    <3>5. CASE ~(poisoned # "no" \/ Len(taken) # settings.source)
      <4>1. CASE Fail("failed") \/ Fail(StageRefusal(Last(segments)))
        BY <3>1, <4>1 DEF Fail, StageRefusal
      <4>2. CASE ~(Fail("failed") \/ Fail(StageRefusal(Last(segments))))
        <5>0. /\ Stageable(Last(segments), Len(segments), TRUE)
              /\ Publish("done", SeqFiles(segments), taken \o Padding, opts)
          BY <3>3, <3>5, <4>2 DEF WriteSequential
        <5>1. PICK media : media = taken \o Padding
          OBVIOUS
        <5>2. Publish("done", files, media, opts)
          BY <2>4, <5>0, <5>1
        <5>3. outcome' = "done" /\ disk' = files /\ written'.options = opts
          BY <5>2 DEF Publish
        <5>4. poisoned = "no"
          BY <3>5
        <5> QED
          BY <3>2, <5>0, <5>3, <5>4
      <4> QED
        BY <4>1, <4>2
    <3> QED
      BY <3>4, <3>5
  <2> QED
    BY <2>1, <2>5 DEF LimitInv
<1>5. CASE Resume
  <2>1. /\ phase' = "spool" /\ outcome' = "none"
        /\ options' = ResumedOptions(Open(disk))
    BY <1>5 DEF Resume, ResumeImage, ResumeFrom
  <2>2. Unlimited'
    BY <2>1 DEF Unlimited, ResumedOptions
  <2> QED
    BY <2>1, <2>2 DEF LimitInv, SegmentsWithinLimit
<1>6. CASE UNCHANGED vars
  <2>1. UNCHANGED <<phase, disk, written, outcome>> /\ UNCHANGED spoolVars /\ UNCHANGED seqVars
    BY <1>6 DEF vars, imageVars
  <2>2. phase = "spool" => (Unlimited \/ Spooling)'
    BY <2>1 DEF LimitInv, spoolVars, Unlimited, Spooling, SpoolTypeOK, RememberedSizes
  <2>3. phase = "sequential" => Sequencing'
    <3>1. ASSUME Sequencing PROVE Sequencing'
      BY <2>1, <3>1
      DEF seqVars, Sequencing, StagedFit, Stageable, StagedFile, opts, Total, Sectors
    <3> QED
      BY <3>1 DEF LimitInv
  <2> QED
    BY <2>1, <2>2, <2>3 DEF LimitInv, SegmentsWithinLimit
<1> QED
  BY <1>1, <1>2, <1>3, <1>4, <1>5, <1>6 DEF Next

\* A published segment of more than one chunk is no longer than the segment size
\* asked for, whichever writer published it and whatever the order of the calls:
\* segment_groups() opens a new segment before the estimate of the open one goes
\* over the limit, SequentialWriter::stage_group() refuses what does not fit, and
\* estimated_segment_file_size() is no less than what is then laid out, for EWF1
\* and EWF2, with and without second tables, footers and the optional sections.
THEOREM SegmentsKeepTheLimit == Spec => []SegmentsWithinLimit
<1>1. LimitInv => SegmentsWithinLimit
  BY DEF LimitInv
<1> QED
  BY <1>1, LimitInit, LimitNext, PTL DEF Spec

\* The same while the published files are damaged and read: what is said of the
\* segments is said of what was written, and nothing that reads them writes.
THEOREM DamagedSegmentsToo == DamageSpec => []SegmentsWithinLimit
<1>1. DamageInit => LimitInv
  BY LimitInit DEF DamageInit
<1>2. LimitInv /\ [DamageNext]_damageVars => LimitInv'
  <2> SUFFICES ASSUME LimitInv, [DamageNext]_damageVars PROVE LimitInv'
    OBVIOUS
  <2>1. [Next]_vars
    BY DEF DamageNext, Damage, damageVars
  <2> QED
    BY <2>1, LimitNext
<1>3. LimitInv => SegmentsWithinLimit
  BY DEF LimitInv
<1> QED
  BY <1>1, <1>2, <1>3, PTL DEF DamageSpec

----------------------------------------------------------------------------
(* Functions that are defined by their value further on                   *)

\* Parts of definitions by recursion: values, what becomes of the value further on,
\* and that it is further on.
ValuesOn(D, V) == [D -> V]
StepsOn(D, V) == [D -> [V -> V]]
Onward(D, B, ends, succ, m) ==
    /\ m \in [D -> 0..B] /\ ends \subseteq D
    /\ \A d \in D \ ends : succ[d] \in D /\ m[succ[d]] < m[d]

\* A function that is defined by its value further on, where "further on" is
\* measured and comes to an end.
LEMMA RecursionOn ==
    ASSUME NEW D, NEW B \in Nat, NEW V, NEW ends, NEW m, NEW succ,
           NEW base \in ValuesOn(D, V), NEW step \in StepsOn(D, V), Onward(D, B, ends, succ, m)
    PROVE  \E f \in [D -> V] : f = [d \in D |-> IF d \in ends THEN base[d] ELSE step[d][f[succ[d]]]]
<1> DEFINE Again(f) == [d \in D |-> IF d \in ends THEN base[d] ELSE step[d][f[succ[d]]]]
           Up(n, f) == \A d \in D : m[d] < n => f[d] = Again(f)[d]
           T == {n \in Nat : \E f \in [D -> V] : Up(n, f)}
<1> USE DEF ValuesOn, StepsOn, Onward
<1>1. 0 \in T
  <2>1. Up(0, base)
    OBVIOUS
  <2> QED
    BY <2>1
<1>2. ASSUME NEW n \in Nat, n \in T PROVE n + 1 \in T
  <2>1. PICK f \in [D -> V] : Up(n, f)
    BY <1>2
  <2>2. ASSUME NEW d \in D PROVE Again(f)[d] \in V
    <3>1. CASE d \in ends
      BY <3>1
    <3>2. CASE d \notin ends
      <4>1. f[succ[d]] \in V
        BY <3>2
      <4> QED
        BY <3>2, <4>1
    <3> QED
      BY <3>1, <3>2
  <2>3. PICK g \in [D -> V] : g = Again(f)
    BY <2>2
  <2>4. ASSUME NEW d \in D, m[d] < n PROVE g[d] = f[d]
    BY <2>1, <2>3, <2>4
  <2>5. ASSUME NEW d \in D, m[d] < n + 1 PROVE g[d] = Again(g)[d]
    <3>1. CASE d \in ends
      BY <2>3, <3>1
    <3>2. CASE d \notin ends
      <4>1. succ[d] \in D /\ m[succ[d]] < n
        BY <2>5, <3>2
      <4>2. g[succ[d]] = f[succ[d]]
        BY <2>4, <4>1
      <4> QED
        BY <2>3, <3>2, <4>2
    <3> QED
      BY <3>1, <3>2
  <2>6. Up(n + 1, g)
    BY <2>5
  <2> QED
    BY <2>6
<1> HIDE DEF T
<1>3. Nat \subseteq T
  BY <1>1, <1>2, SetInduction
<1>4. PICK f \in [D -> V] : Up(B + 1, f)
  BY <1>3 DEF T
<1>5. \A d \in D : f[d] = Again(f)[d]
  BY <1>4
<1>6. f = Again(f)
  <2>1. f = [d \in D |-> f[d]]
    OBVIOUS
  <2>2. PICK h : h = Again(f)
    OBVIOUS
  <2>3. h = [d \in D |-> h[d]] /\ \A d \in D : f[d] = h[d]
    BY <1>5, <2>2
  <2> QED
    BY <2>1, <2>2, <2>3
<1> QED
  BY <1>6

----------------------------------------------------------------------------
----------------------------------------------------------------------------
(* Where the pieces of a file are                                          *)

\* idx says which of the pieces s each of the offsets of a file begins.
Indexed(s, file, idx) ==
    /\ file.length \in Nat /\ DOMAIN file.at \subseteq 0..file.length
    /\ idx \in [DOMAIN file.at -> DOMAIN s]
    /\ \A at \in DOMAIN file.at : file.at[at] = s[idx[at]]
    /\ \A at \in DOMAIN file.at : \A next \in DOMAIN file.at : at < next => idx[at] < idx[next]
    /\ \A at \in DOMAIN file.at : idx[at] + 1 \in DOMAIN s /\ s[idx[at] + 1].len > 0 =>
          /\ at + s[idx[at]].len \in DOMAIN file.at
          /\ idx[at + s[idx[at]].len] = idx[at] + 1
    /\ 1 \in DOMAIN s /\ s[1].len > 0 =>
          /\ 0 \in DOMAIN file.at /\ file.at[0] = s[1]
          /\ s[1].len \in DOMAIN file.at \cup {file.length}

\* Offsets of the pieces.
LEMMA StartsGrow ==
    ASSUME NEW s, NEW N \in Nat, NEW start,
           \A i \in 1..N : s[i].len \in Nat, start[1] = 0,
           \A i \in 1..N : start[i + 1] = start[i] + s[i].len
    PROVE  /\ \A i \in 1..(N + 1) : start[i] \in Nat
           /\ \A i \in 1..(N + 1), j \in 1..(N + 1) : i < j => start[i] + s[i].len <= start[j]
<1> DEFINE T == {n \in Nat : n + 1 <= N + 1 =>
                    /\ start[n + 1] \in Nat
                    /\ \A i \in 1..(n + 1) : i < n + 1 => start[i] + s[i].len <= start[n + 1]
                    /\ \A i \in 1..(n + 1) : start[i] \in Nat}
<1>1. 0 \in T
  OBVIOUS
<1>2. ASSUME NEW n \in Nat, n \in T PROVE n + 1 \in T
  <2> SUFFICES ASSUME n + 2 <= N + 1
               PROVE /\ start[n + 2] \in Nat
                     /\ \A i \in 1..(n + 2) : i < n + 2 => start[i] + s[i].len <= start[n + 2]
                     /\ \A i \in 1..(n + 2) : start[i] \in Nat
    OBVIOUS
  <2>1. n + 1 \in 1..N /\ (n + 1) + 1 = n + 2
    OBVIOUS
  <2>2. start[n + 2] = start[n + 1] + s[n + 1].len /\ start[n + 1] \in Nat /\ s[n + 1].len \in Nat
    BY <1>2, <2>1
  <2>3. \A i \in 1..(n + 2) : i = n + 2 \/ i = n + 1 \/ (i \in 1..(n + 1) /\ i < n + 1 /\ i \in 1..N)
    OBVIOUS
  <2>4. ASSUME NEW i \in 1..(n + 2), i < n + 2 PROVE start[i] + s[i].len <= start[n + 2]
    <3>1. CASE i = n + 1
      BY <2>2, <3>1
    <3>2. CASE i # n + 1
      <4>1. start[i] + s[i].len <= start[n + 1] /\ start[i] \in Nat /\ s[i].len \in Nat
        BY <1>2, <2>3, <2>4, <3>2
      <4> QED
        BY <2>2, <4>1
    <3> QED
      BY <3>1, <3>2
  <2>5. \A i \in 1..(n + 2) : start[i] \in Nat
    BY <1>2, <2>2, <2>3
  <2> QED
    BY <2>2, <2>4, <2>5
<1> HIDE DEF T
<1>3. Nat \subseteq T
  BY <1>1, <1>2, SetInduction
<1>4. ASSUME NEW i \in 1..(N + 1) PROVE start[i] \in Nat
  <2>1. i - 1 \in T /\ (i - 1) + 1 = i /\ i - 1 \in Nat
    BY <1>3
  <2> QED
    BY <2>1 DEF T
<1>5. ASSUME NEW i \in 1..(N + 1), NEW j \in 1..(N + 1), i < j
      PROVE  start[i] + s[i].len <= start[j]
  <2>1. j - 1 \in T /\ (j - 1) + 1 = j /\ j - 1 \in Nat /\ i \in 1..j
    BY <1>3, <1>5
  <2> QED
    BY <1>5, <2>1 DEF T
<1> QED
  BY <1>4, <1>5

\* Every offset of an assembled file begins a piece, in the order of the pieces.
LEMMA AssembledIndexed ==
    ASSUME NEW s, IsPieces(s)
    PROVE  \E idx : Indexed(s, Assemble(s), idx)
<1> DEFINE file == Assemble(s)
           lens == [i \in DOMAIN s |-> s[i].len]
           starts == [i \in DOMAIN s |-> TotalOf(SubSeq(lens, 1, i - 1))]
           full == {i \in DOMAIN s : s[i].len > 0}
           one(offset) == CHOOSE i \in full : starts[i] = offset
<1>1. /\ DOMAIN file.at = {starts[i] : i \in full} /\ file.length = TotalOf(lens)
      /\ \A offset \in {starts[i] : i \in full} : file.at[offset] = s[one(offset)]
  BY DEF Assemble
<1>2. PICK N \in Nat : N = Len(s) /\ DOMAIN s = 1..N
  BY DEF IsPieces
<1>3. \A i \in 1..N : s[i].len \in Nat
  BY <1>2 DEF IsPieces, Range
<1>4. lens \in Seq(Nat) /\ Len(lens) = N /\ DOMAIN lens = 1..N /\ \A i \in 1..N : lens[i] = s[i].len
  <2>1. lens \in [1..N -> Nat]
    BY <1>2, <1>3
  <2> QED
    BY <1>2, <2>1
<1> HIDE DEF file, lens
<1> DEFINE start == [i \in 1..(N + 1) |-> TotalOf(SubSeq(lens, 1, i - 1))]
<1>5. /\ \A i \in 1..N : starts[i] = start[i]
      /\ start[N + 1] = TotalOf(lens)
  <2>1. SubSeq(lens, 1, N) = lens
    BY <1>4
  <2>2. N + 1 - 1 = N /\ N + 1 \in 1..(N + 1) /\ \A i \in 1..N : i \in 1..(N + 1)
    OBVIOUS
  <2>3. start[N + 1] = TotalOf(SubSeq(lens, 1, N))
    BY <2>2
  <2> QED
    BY <1>2, <2>1, <2>2, <2>3
<1>6. start[1] = 0
  <2>1. SubSeq(lens, 1, 0) = <<>> /\ 1 - 1 = 0 /\ 1 \in 1..(N + 1)
    BY <1>4
  <2> QED
    BY <2>1, TotalEmpty
<1>7. ASSUME NEW i \in 1..N PROVE start[i + 1] = start[i] + s[i].len
  <2>0. SubSeq(lens, 1, i - 1) \in Seq(Nat)
    BY <1>4, SubSeqProperties
  <2>1. PICK h \in Seq(Nat) : h = SubSeq(lens, 1, i - 1)
    BY <2>0
  <2>2. SubSeq(lens, 1, i) = Append(h, lens[i]) /\ lens[i] \in Nat
    BY <1>4, <2>1
  <2>3. i + 1 \in 1..(N + 1) /\ i \in 1..(N + 1) /\ (i + 1) - 1 = i
    OBVIOUS
  <2>4. start[i + 1] = TotalOf(SubSeq(lens, 1, i)) /\ start[i] = TotalOf(h)
    BY <2>1, <2>3
  <2> HIDE DEF start
  <2>5. TotalOf(Append(h, lens[i])) = TotalOf(h) + lens[i]
    BY <2>2, TotalAppend
  <2> QED
    BY <1>4, <2>2, <2>4, <2>5
<1> HIDE DEF start
<1> HIDE DEF starts
<1>8. /\ \A i \in 1..(N + 1) : start[i] \in Nat
      /\ \A i \in 1..(N + 1), j \in 1..(N + 1) : i < j => start[i] + s[i].len <= start[j]
  BY <1>3, <1>6, <1>7, StartsGrow
<1>9. \A i \in full, j \in full : start[i] = start[j] => i = j
  <2> SUFFICES ASSUME NEW i \in full, NEW j \in full, start[i] = start[j], i < j PROVE FALSE
    BY <1>2
  <2>1. i \in 1..(N + 1) /\ j \in 1..(N + 1) /\ s[i].len > 0 /\ s[i].len \in Nat
    BY <1>2, <1>3
  <2> QED
    BY <1>8, <2>1
<1> DEFINE idx == [at \in DOMAIN file.at |-> one(at)]
<1>10. ASSUME NEW at \in DOMAIN file.at
       PROVE  /\ idx[at] \in full /\ idx[at] \in 1..N /\ start[idx[at]] = at /\ s[idx[at]].len > 0
              /\ file.at[at] = s[idx[at]] /\ at \in 0..file.length
  <2>1. PICK i \in full : at = starts[i]
    BY <1>1
  <2>2. one(at) \in full /\ starts[one(at)] = at
    BY <2>1
  <2>3. idx[at] = one(at)
    OBVIOUS
  <2>4. idx[at] \in full /\ starts[idx[at]] = at /\ file.at[at] = s[idx[at]]
    BY <1>1, <2>2, <2>3
  <2> HIDE DEF idx
  <2>5. idx[at] \in 1..N /\ s[idx[at]].len > 0 /\ s[idx[at]].len \in Nat
    BY <1>2, <1>3, <2>4
  <2>6. start[idx[at]] = at /\ start[idx[at]] \in Nat /\ start[N + 1] \in Nat
    BY <1>5, <1>8, <2>4, <2>5
  <2>7. start[idx[at]] + s[idx[at]].len <= start[N + 1]
    BY <1>8, <2>5
  <2> QED
    BY <1>1, <1>5, <2>4, <2>5, <2>6, <2>7
<1>11. ASSUME NEW i \in full PROVE start[i] \in DOMAIN file.at /\ idx[start[i]] = i
  <2>1. start[i] \in DOMAIN file.at
    BY <1>1, <1>2, <1>5
  <2> HIDE DEF idx
  <2> QED
    BY <1>9, <1>10, <2>1
<1>a. idx \in [DOMAIN file.at -> DOMAIN s]
  <2>1. idx = [at \in DOMAIN file.at |-> idx[at]]
    OBVIOUS
  <2> HIDE DEF idx
  <2> QED
    BY <1>2, <1>10, <2>1
<1> HIDE DEF idx
<1>12. ASSUME NEW at \in DOMAIN file.at, NEW next \in DOMAIN file.at, at < next
       PROVE  idx[at] < idx[next]
  <2>1. /\ idx[at] \in 1..(N + 1) /\ idx[next] \in 1..(N + 1)
        /\ start[idx[at]] = at /\ start[idx[next]] = next
        /\ s[idx[next]].len \in Nat
    BY <1>3, <1>10
  <2>2. CASE idx[next] < idx[at]
    <3>1. next + s[idx[next]].len <= at /\ at \in Nat /\ next \in Nat
      BY <1>8, <2>1, <2>2
    <3> QED
      BY <1>12, <2>1, <3>1
  <2>3. CASE idx[next] = idx[at]
    <3>1. at = next
      BY <2>1, <2>3
    <3> QED
      BY <1>8, <1>12, <2>1, <3>1
  <2> QED
    BY <2>1, <2>2, <2>3
<1>13. ASSUME NEW at \in DOMAIN file.at, idx[at] + 1 \in DOMAIN s, s[idx[at] + 1].len > 0
       PROVE  /\ at + s[idx[at]].len \in DOMAIN file.at
              /\ idx[at + s[idx[at]].len] = idx[at] + 1
  <2>1. idx[at] + 1 \in full /\ idx[at] \in 1..N /\ start[idx[at]] = at
    BY <1>10, <1>13
  <2>2. start[idx[at] + 1] = at + s[idx[at]].len
    BY <1>7, <2>1
  <2> QED
    BY <1>11, <2>1, <2>2
<1>14. ASSUME 1 \in DOMAIN s, s[1].len > 0 PROVE 0 \in DOMAIN file.at /\ file.at[0] = s[1]
  <2>1. 1 \in full
    BY <1>14
  <2>2. 0 \in DOMAIN file.at /\ idx[0] = 1
    BY <1>6, <1>11, <2>1
  <2> QED
    BY <1>10, <2>2
<1>b. ASSUME 1 \in DOMAIN s, s[1].len > 0
      PROVE  s[1].len \in DOMAIN file.at \cup {file.length}
  <2>1. 1 \in 1..N /\ N >= 1 /\ 1 + 1 = 2 /\ s[1].len \in Nat
    BY <1>2, <1>3, <1>b
  <2>2. start[2] = s[1].len
    BY <1>6, <1>7, <2>1
  <2> DEFINE T == {k \in Nat : k + 2 <= N + 1 =>
                                  start[k + 2] = start[2] \/ start[2] \in DOMAIN file.at}
  <2>3. 0 \in T
    OBVIOUS
  <2>4. ASSUME NEW k \in Nat, k \in T PROVE k + 1 \in T
    <3> SUFFICES ASSUME (k + 1) + 2 <= N + 1, start[2] \notin DOMAIN file.at
                 PROVE  start[(k + 1) + 2] = start[2]
      OBVIOUS
    <3>1. k + 2 \in 1..N /\ (k + 2) + 1 = (k + 1) + 2 /\ k + 2 <= N + 1
      OBVIOUS
    <3>2. start[k + 2] = start[2]
      BY <2>4, <3>1
    <3>3. k + 2 \notin full
      BY <1>11, <3>2
    <3>4. s[k + 2].len = 0
      BY <1>2, <1>3, <3>1, <3>3
    <3>5. start[(k + 2) + 1] = start[k + 2] + 0
      BY <1>7, <3>1, <3>4
    <3> QED
      BY <2>1, <2>2, <3>1, <3>2, <3>5
  <2> HIDE DEF T
  <2>5. Nat \subseteq T
    BY <2>3, <2>4, SetInduction
  <2>6. N - 1 \in Nat /\ (N - 1) + 2 = N + 1
    BY <2>1
  <2>7. start[N + 1] = start[2] \/ start[2] \in DOMAIN file.at
    BY <2>5, <2>6 DEF T
  <2> QED
    BY <1>1, <1>5, <2>2, <2>7
<1>15. file.length \in Nat /\ DOMAIN file.at \subseteq 0..file.length
  BY <1>1, <1>5, <1>8, <1>10
<1> QED
  BY <1>a, <1>b, <1>10, <1>12, <1>13, <1>14, <1>15 DEF Indexed, file

----------------------------------------------------------------------------
(* The section chains                                                      *)

\* The sections a scan of a file can come to, forward and backward.
Descriptors(file) == {at \in DOMAIN file.at : file.at[at].is = "descriptor"}
Leading(file) == {Broken} \cup {LeadingSection(file, at) : at \in Descriptors(file)}
Trailing(file) == {Broken} \cup {TrailingSection(file, at) : at \in Descriptors(file)}

\* They stand at descriptors, each behind the one before.
Rising(t) == \A k \in DOMAIN t, l \in DOMAIN t :
                k < l /\ t[k].type # "broken" /\ t[l].type # "broken" => t[k].at < t[l].at
From(t, at) == \A k \in DOMAIN t : t[k].type # "broken" => t[k].at >= at
UpTo(t, at) == \A k \in DOMAIN t : t[k].type # "broken" => t[k].at <= at

\* A section before sections further on.
LEMMA RisingBefore ==
    ASSUME NEW S, NEW t \in Seq(S), NEW s \in S, NEW at \in Nat, NEW next \in Nat,
           s.type # "broken" => s.at = at, at < next, Rising(t), From(t, next),
           \A r \in S : r.type # "broken" => r.at \in Nat
    PROVE  <<s>> \o t \in Seq(S) /\ Rising(<<s>> \o t) /\ From(<<s>> \o t, at)
<1>1. PICK n \in Nat : n = Len(t) /\ DOMAIN t = 1..n
  OBVIOUS
<1>b. <<s>> \o t \in Seq(S)
  OBVIOUS
<1>2. PICK u \in Seq(S) : u = <<s>> \o t
  BY <1>b
<1>3. /\ DOMAIN u = 1..(n + 1) /\ u[1] = s
      /\ \A k \in 1..(n + 1) : k # 1 => k - 1 \in 1..n /\ u[k] = t[k - 1] /\ t[k - 1] \in S
  BY <1>1, <1>2
<1>4. ASSUME NEW k \in 1..(n + 1), u[k].type # "broken" PROVE u[k].at >= at
  <2>1. CASE k = 1
    BY <1>3, <1>4, <2>1
  <2>2. CASE k # 1
    <3>1. t[k - 1].at >= next /\ t[k - 1].at \in Nat /\ u[k] = t[k - 1]
      BY <1>1, <1>3, <1>4, <2>2 DEF From
    <3> QED
      BY <3>1
  <2> QED
    BY <2>1, <2>2
<1>5. ASSUME NEW k \in 1..(n + 1), NEW l \in 1..(n + 1), k < l,
             u[k].type # "broken", u[l].type # "broken"
      PROVE  u[k].at < u[l].at
  <2>1. l # 1 /\ l - 1 \in 1..n /\ u[l] = t[l - 1] /\ t[l - 1] \in S
    BY <1>3, <1>5
  <2>2. CASE k = 1
    <3>1. u[k].at = at /\ u[l].at >= next /\ u[l].at \in Nat
      BY <1>1, <1>3, <1>5, <2>1, <2>2 DEF From
    <3> QED
      BY <3>1
  <2>3. CASE k # 1
    <3>1. k - 1 \in 1..n /\ u[k] = t[k - 1] /\ k - 1 < l - 1
      BY <1>3, <1>5, <2>3
    <3> QED
      BY <1>1, <1>5, <2>1, <3>1 DEF Rising
  <2> QED
    BY <2>2, <2>3
<1> QED
  BY <1>2, <1>3, <1>4, <1>5 DEF Rising, From

\* A section behind sections further back.
LEMMA RisingBehind ==
    ASSUME NEW S, NEW t \in Seq(S), NEW s \in S, NEW at \in Nat, NEW previous \in Nat,
           s.type # "broken" => s.at = at, previous < at, Rising(t), UpTo(t, previous),
           \A r \in S : r.type # "broken" => r.at \in Nat
    PROVE  Append(t, s) \in Seq(S) /\ Rising(Append(t, s)) /\ UpTo(Append(t, s), at)
<1>1. PICK n \in Nat : n = Len(t) /\ DOMAIN t = 1..n
  OBVIOUS
<1>b. Append(t, s) \in Seq(S)
  OBVIOUS
<1>2. PICK u \in Seq(S) : u = Append(t, s)
  BY <1>b
<1>3. /\ DOMAIN u = 1..(n + 1) /\ u[n + 1] = s
      /\ \A k \in 1..(n + 1) : k # n + 1 => k \in 1..n /\ u[k] = t[k] /\ t[k] \in S
  BY <1>1, <1>2
<1>a. ASSUME NEW k \in 1..n, t[k].type # "broken"
      PROVE  t[k].at \in Nat /\ t[k].at <= previous /\ t[k].at < at
  <2>1. t[k].at \in Nat /\ t[k].at <= previous
    BY <1>1, <1>a DEF UpTo
  <2> QED
    BY <2>1
<1>4. ASSUME NEW k \in 1..(n + 1), u[k].type # "broken" PROVE u[k].at <= at
  BY <1>3, <1>4, <1>a
<1>5. ASSUME NEW k \in 1..(n + 1), NEW l \in 1..(n + 1), k < l,
             u[k].type # "broken", u[l].type # "broken"
      PROVE  u[k].at < u[l].at
  <2>1. k # n + 1 /\ k \in 1..n /\ u[k] = t[k]
    BY <1>3, <1>5
  <2>2. CASE l = n + 1
    BY <1>3, <1>5, <1>a, <2>1, <2>2
  <2>3. CASE l # n + 1
    <3>1. l \in 1..n /\ u[l] = t[l]
      BY <1>3, <2>3
    <3> QED
      BY <1>1, <1>5, <2>1, <3>1 DEF Rising
  <2> QED
    BY <2>2, <2>3
<1> QED
  BY <1>2, <1>3, <1>4, <1>5 DEF Rising, UpTo

\* scan_ewf1_sections() goes from section to section, forward.
LEMMA ScanForward ==
    ASSUME NEW file, file.length \in Nat, DOMAIN file.at \subseteq 0..file.length,
           \A at \in Descriptors(file) : file.at[at].size \in Nat \ {0},
           FileHeader1 \in DOMAIN file.at \cup {file.length}
    PROVE  ScanEwf1(file) \in Seq(Leading(file)) /\ Rising(ScanEwf1(file))
<1> DEFINE L == file.length
           D == DOMAIN file.at \cup {L}
           S == Leading(file)
           V == Seq(S)
           lost(at) == ~Found(file, at, "descriptor") \/ at + file.at[at].size > L
           sec(at) == LeadingSection(file, at)
           last(at) == sec(at).type \in {"done", "next"} \/ sec(at).next = 0
           astray(at) == sec(at).next < sec(at).data + sec(at).size \/ sec(at).next \notin DOMAIN file.at
           scan[at \in D] ==
            IF ~Found(file, at, "descriptor") \/ at + file.at[at].size > file.length
            THEN <<Broken>>
            ELSE LET s == LeadingSection(file, at)
                 IN  IF s.type \in {"done", "next"} \/ s.next = 0 THEN <<s>>
                     ELSE IF s.next < s.data + s.size \/ s.next \notin DOMAIN file.at
                     THEN <<s, Broken>>
                     ELSE <<s>> \o scan[s.next]
           Body(f, at) == IF lost(at) THEN <<Broken>> ELSE IF last(at) THEN <<sec(at)>>
                          ELSE IF astray(at) THEN <<sec(at), Broken>> ELSE <<sec(at)>> \o f[sec(at).next]
<1>1. ScanEwf1(file) = scan[FileHeader1]
  BY DEF ScanEwf1
<1>2. D \subseteq 0..L /\ L \in Nat
  OBVIOUS
<1>3. ASSUME NEW at \in D, ~lost(at), ~last(at), ~astray(at)
      PROVE  sec(at).next \in D /\ sec(at).next > at /\ sec(at).next \in 0..L
  <2>1. at \in Descriptors(file) /\ file.at[at].size \in Nat \ {0} /\ at \in Nat
    BY <1>2, <1>3 DEF Found, Descriptors
  <2>2. sec(at).next \in DOMAIN file.at /\ sec(at).data = at + Desc1
        /\ sec(at).size = file.at[at].size - Desc1
    BY <1>3 DEF LeadingSection
  <2>3. sec(at).next \in 0..L
    BY <1>2, <2>2
  <2>4. ~(sec(at).next < sec(at).data + sec(at).size)
    BY <1>3
  <2> QED
    BY <2>1, <2>2, <2>3, <2>4 DEF Desc1
<1>4. ASSUME NEW at \in D, ~lost(at) PROVE sec(at) \in S /\ at \in Descriptors(file)
  BY <1>4 DEF Leading, Found, Descriptors
<1>5. Broken \in S
  BY DEF Leading
<1> HIDE DEF sec
<1>6. \E f \in [D -> V] : f = [at \in D |-> Body(f, at)]
  <2> DEFINE ends == {at \in D : lost(at) \/ last(at) \/ astray(at)}
             base == [at \in D |-> IF lost(at) THEN <<Broken>> ELSE IF last(at) THEN <<sec(at)>>
                                   ELSE IF astray(at) THEN <<sec(at), Broken>> ELSE <<>>]
             succ == [at \in D |-> sec(at).next]
             step == [at \in D |-> [t \in V |-> IF at \in ends THEN t ELSE <<sec(at)>> \o t]]
             m == [at \in D |-> L - at]
  <2>1. base \in [D -> V]
    <3>1. ASSUME NEW at \in D PROVE base[at] \in V
      <4>1. base[at] = IF lost(at) THEN <<Broken>> ELSE IF last(at) THEN <<sec(at)>>
                                   ELSE IF astray(at) THEN <<sec(at), Broken>> ELSE <<>>
        OBVIOUS
      <4>2. <<Broken>> \in V /\ <<>> \in V
        BY <1>5
      <4>3. ~lost(at) => <<sec(at)>> \in V /\ <<sec(at), Broken>> \in V
        <5> SUFFICES ASSUME ~lost(at) PROVE <<sec(at)>> \in V /\ <<sec(at), Broken>> \in V
          OBVIOUS
        <5>1. sec(at) \in S
          BY <1>4
        <5> HIDE DEF S
        <5> QED
          BY <1>5, <5>1
      <4> HIDE DEF base, V, lost, last, astray
      <4> QED
        BY <4>1, <4>2, <4>3
    <3>2. base = [at \in D |-> base[at]]
      OBVIOUS
    <3> HIDE DEF base
    <3> QED
      BY <3>1, <3>2
  <2>2. m \in [D -> 0..L]
    BY <1>2
  <2>3. step \in [D -> [V -> V]]
    <3>1. ASSUME NEW at \in D, NEW t \in V PROVE (IF at \in ends THEN t ELSE <<sec(at)>> \o t) \in V
      <4>1. CASE at \in ends
        BY <4>1
      <4>2. CASE at \notin ends
        <5>1. sec(at) \in S
          BY <1>4, <4>2
        <5>2. <<sec(at)>> \in V
          BY <5>1
        <5> HIDE DEF S
        <5> QED
          BY <4>2, <5>2
      <4> QED
        BY <4>1, <4>2
    <3> HIDE DEF ends, V
    <3> QED
      BY <3>1
  <2>4. \A at \in D \ ends : succ[at] \in D /\ m[succ[at]] < m[at]
    <3> SUFFICES ASSUME NEW at \in D \ ends PROVE succ[at] \in D /\ m[succ[at]] < m[at]
      OBVIOUS
    <3>1. succ[at] \in D /\ succ[at] > at /\ succ[at] \in 0..L
      BY <1>3
    <3>2. at \in 0..L /\ m[at] = L - at /\ m[succ[at]] = L - succ[at]
      BY <1>2, <3>1
    <3> QED
      BY <1>2, <3>1, <3>2
  <2>5. ends \in SUBSET D
    OBVIOUS
  <2>6. \A at \in D \ ends : ~lost(at) /\ ~last(at) /\ ~astray(at)
    OBVIOUS
  <2>7. \A at \in ends : lost(at) \/ last(at) \/ astray(at)
    OBVIOUS
  <2>8. /\ \A at \in D : base[at] = IF lost(at) THEN <<Broken>> ELSE IF last(at) THEN <<sec(at)>>
                                   ELSE IF astray(at) THEN <<sec(at), Broken>> ELSE <<>>
        /\ \A at \in D \ ends : succ[at] = sec(at).next
        /\ \A at \in D \ ends : \A t \in V : step[at][t] = <<sec(at)>> \o t
    OBVIOUS
  <2> HIDE DEF ends, base, succ, step, m, V, D, L
  <2>b. /\ base \in ValuesOn(D, V) /\ step \in StepsOn(D, V) /\ L \in Nat
        /\ Onward(D, L, ends, succ, m)
    BY <1>2, <2>1, <2>2, <2>3, <2>4, <2>5 DEF ValuesOn, StepsOn, Onward
  <2>9. PICK f \in [D -> V] : f = [d \in D |-> IF d \in ends THEN base[d] ELSE step[d][f[succ[d]]]]
    BY <2>b, RecursionOn
  <2>10. ASSUME NEW at \in D PROVE f[at] = Body(f, at)
    <3>1. f[at] = IF at \in ends THEN base[at] ELSE step[at][f[succ[at]]]
      BY <2>9
    <3>2. CASE at \in ends
      <4>1. f[at] = base[at] /\ (lost(at) \/ last(at) \/ astray(at))
        BY <2>7, <3>1, <3>2
      <4>2. base[at] = IF lost(at) THEN <<Broken>> ELSE IF last(at) THEN <<sec(at)>>
                                   ELSE IF astray(at) THEN <<sec(at), Broken>> ELSE <<>>
        BY <2>8
      <4> HIDE DEF lost, last, astray
      <4> QED
        BY <4>1, <4>2
    <3>3. CASE at \notin ends
      <4>1. ~lost(at) /\ ~last(at) /\ ~astray(at)
        BY <2>6, <3>3
      <4>2. succ[at] \in D /\ f[succ[at]] \in V
        BY <2>4, <3>3
      <4>3. f[at] = <<sec(at)>> \o f[sec(at).next]
        <5>1. at \in D \ ends
          BY <3>3
        <5>2. succ[at] = sec(at).next
          BY <2>8, <5>1
        <5>3. step[at][f[succ[at]]] = <<sec(at)>> \o f[succ[at]]
          BY <2>8, <4>2, <5>1
        <5> QED
          BY <3>1, <3>3, <5>2, <5>3
      <4> HIDE DEF lost, last, astray
      <4> QED
        BY <4>1, <4>3
    <3> QED
      BY <3>2, <3>3
  <2>11. f = [at \in D |-> f[at]]
    BY <2>9
  <2> HIDE DEF Body
  <2>12. f = [at \in D |-> Body(f, at)]
    BY <2>10, <2>11, Zenon
  <2> QED
    BY <2>12
<1>7. \A at \in D : scan[at] = Body(scan, at)
  <2>1. \E f : f = [at \in D |-> Body(f, at)]
    <3> HIDE DEF Body, V
    <3> QED
      BY <1>6, Zenon
  <2>2. scan = [at \in D |-> Body(scan, at)]
    BY <2>1 DEF sec
  <2> HIDE DEF scan, Body
  <2> QED
    BY <2>2, Zenon
<1> HIDE DEF scan
<1>8. \A r \in S : r.type # "broken" => r.at \in Nat
  <2> SUFFICES ASSUME NEW r \in S, r.type # "broken" PROVE r.at \in Nat
    OBVIOUS
  <2>1. PICK at \in Descriptors(file) : r = LeadingSection(file, at)
    BY DEF Leading, Broken
  <2>2. at \in Nat
    BY <1>2 DEF Descriptors
  <2> QED
    BY <2>1, <2>2 DEF LeadingSection
<1> DEFINE Ok(t, at) == t \in Seq(S) /\ Rising(t) /\ From(t, at)
           T == {n \in Nat : \A at \in D : L - at < n => Ok(scan[at], at)}
<1>9. 0 \in T
  BY <1>2
<1>10. ASSUME NEW n \in Nat, n \in T PROVE n + 1 \in T
  <2> SUFFICES ASSUME NEW at \in D, L - at < n + 1 PROVE Ok(scan[at], at)
    OBVIOUS
  <2>0. at \in Nat
    BY <1>2
  <2>a. ~lost(at) => sec(at).at = at /\ sec(at) \in S
    BY <1>4 DEF sec, LeadingSection
  <2>1. CASE lost(at)
    <3>1. scan[at] = <<Broken>>
      BY <1>7, <2>1
    <3>2. Ok(<<Broken>>, at)
      BY <1>5 DEF Rising, From, Broken
    <3> QED
      BY <3>1, <3>2
  <2>2. CASE ~lost(at) /\ last(at)
    <3>1. scan[at] = <<sec(at)>>
      BY <1>7, <2>2
    <3> HIDE DEF S
    <3>2. Ok(<<sec(at)>>, at)
      BY <2>0, <2>a, <2>2 DEF Rising, From
    <3> QED
      BY <3>1, <3>2
  <2>3. CASE ~lost(at) /\ ~last(at) /\ astray(at)
    <3>1. scan[at] = <<sec(at), Broken>>
      BY <1>7, <2>3
    <3>2. PICK s \in S : s = sec(at)
      BY <2>a, <2>3
    <3>3. s.at = at
      BY <2>a, <2>3, <3>2
    <3> HIDE DEF S
    <3>4. Ok(<<s, Broken>>, at)
      <4>1. <<s, Broken>> \in Seq(S)
        BY <1>5
      <4>2. PICK t : t = <<s, Broken>>
        OBVIOUS
      <4>3. DOMAIN t = {1, 2} /\ t[1] = s /\ t[2] = Broken /\ Broken.type = "broken"
        BY <4>2 DEF Broken
      <4> QED
        BY <2>0, <3>3, <4>1, <4>2, <4>3 DEF Rising, From
    <3> QED
      BY <3>1, <3>2, <3>4
  <2>4. CASE ~lost(at) /\ ~last(at) /\ ~astray(at)
    <3>1. scan[at] = <<sec(at)>> \o scan[sec(at).next]
      BY <1>7, <2>4
    <3>2. PICK next \in D : next = sec(at).next /\ next > at /\ next \in 0..L
      BY <1>3, <2>4
    <3>3. L - next < n
      BY <1>2, <2>0, <3>2
    <3>4. Ok(scan[next], next)
      BY <1>10, <3>3
    <3>5. PICK t \in Seq(S) : t = scan[next]
      BY <3>4
    <3>6. PICK s \in S : s = sec(at) /\ s.at = at
      BY <2>a, <2>4
    <3>7. next \in Nat /\ Rising(t) /\ From(t, next)
      BY <1>2, <3>2, <3>4, <3>5
    <3> HIDE DEF S
    <3>8. <<s>> \o t \in Seq(S) /\ Rising(<<s>> \o t) /\ From(<<s>> \o t, at)
      BY <1>8, <2>0, <3>2, <3>6, <3>7, RisingBefore
    <3> QED
      BY <3>1, <3>2, <3>5, <3>6, <3>8
  <2> QED
    BY <2>1, <2>2, <2>3, <2>4
<1> HIDE DEF T
<1>11. Nat \subseteq T
  BY <1>9, <1>10, SetInduction
<1>12. Ok(scan[FileHeader1], FileHeader1)
  <2>1. FileHeader1 \in D /\ FileHeader1 \in Nat /\ L - FileHeader1 < L + 1 /\ L + 1 \in Nat
    BY <1>2 DEF FileHeader1
  <2>2. L + 1 \in T
    BY <1>11, <2>1
  <2> QED
    BY <2>1, <2>2 DEF T
<1> QED
  BY <1>1, <1>12

\* scan_ewf2_trailing_sections() goes from section to section, backward.
LEMMA ScanBackward ==
    ASSUME NEW file, file.length \in Nat, DOMAIN file.at \subseteq 0..file.length
    PROVE  ScanEwf2(file) \in Seq(Trailing(file)) /\ Rising(ScanEwf2(file))
<1> DEFINE L == file.length
           D == DOMAIN file.at \cup {0}
           S == Trailing(file)
           V == Seq(S)
           section(at) == TrailingSection(file, at)
           lost(at) == ~Found(file, at, "descriptor") \/ section(at).data + file.at[at].size > at
           first(at) == file.at[at].previous = 0
           astray(at) == file.at[at].previous \notin DOMAIN file.at \/ file.at[at].previous + Desc2 > at
           scan[at \in D] ==
            IF ~Found(file, at, "descriptor") \/ section(at).data + file.at[at].size > at
            THEN <<Broken>>
            ELSE IF file.at[at].previous = 0 THEN <<section(at)>>
            ELSE IF file.at[at].previous \notin DOMAIN file.at
                    \/ file.at[at].previous + Desc2 > at
            THEN <<Broken>>
            ELSE Append(scan[file.at[at].previous], section(at))
           Body(f, at) == IF lost(at) THEN <<Broken>> ELSE IF first(at) THEN <<section(at)>>
                          ELSE IF astray(at) THEN <<Broken>>
                          ELSE Append(f[file.at[at].previous], section(at))
           end == L - Desc2
<1>1. ScanEwf2(file) = IF end \in DOMAIN file.at THEN scan[end] ELSE <<Broken>>
  BY DEF ScanEwf2
<1>2. D \subseteq 0..L /\ L \in Nat
  OBVIOUS
<1>3. ASSUME NEW at \in D, ~lost(at), ~first(at), ~astray(at)
      PROVE  /\ file.at[at].previous \in D /\ file.at[at].previous < at
             /\ file.at[at].previous \in 0..L
  <2>1. file.at[at].previous \in DOMAIN file.at /\ ~(file.at[at].previous + Desc2 > at)
    BY <1>3
  <2>2. file.at[at].previous \in 0..L /\ at \in 0..L
    BY <1>2, <2>1
  <2> QED
    BY <2>1, <2>2 DEF Desc2
<1>4. ASSUME NEW at \in D, ~lost(at) PROVE section(at) \in S /\ at \in Descriptors(file)
  BY <1>4 DEF Trailing, Found, Descriptors
<1>5. Broken \in S
  BY DEF Trailing
<1> HIDE DEF section
<1>6. \E f \in [D -> V] : f = [at \in D |-> Body(f, at)]
  <2> DEFINE ends == {at \in D : lost(at) \/ first(at) \/ astray(at)}
             base == [at \in D |-> IF lost(at) THEN <<Broken>> ELSE IF first(at) THEN <<section(at)>>
                                   ELSE <<Broken>>]
             succ == [at \in D |-> file.at[at].previous]
             step == [at \in D |-> [t \in V |-> IF at \in ends THEN t ELSE Append(t, section(at))]]
             m == [at \in D |-> at]
  <2>1. base \in [D -> V]
    <3>1. ASSUME NEW at \in D PROVE base[at] \in V
      <4>1. base[at] = IF lost(at) THEN <<Broken>> ELSE IF first(at) THEN <<section(at)>>
                                   ELSE <<Broken>>
        OBVIOUS
      <4>2. <<Broken>> \in V
        BY <1>5
      <4>3. ~lost(at) => <<section(at)>> \in V
        <5> SUFFICES ASSUME ~lost(at) PROVE <<section(at)>> \in V
          OBVIOUS
        <5>1. section(at) \in S
          BY <1>4
        <5> HIDE DEF S
        <5> QED
          BY <5>1
      <4> HIDE DEF base, V, lost, first
      <4> QED
        BY <4>1, <4>2, <4>3
    <3>2. base = [at \in D |-> base[at]]
      OBVIOUS
    <3> HIDE DEF base
    <3> QED
      BY <3>1, <3>2
  <2>2. m \in [D -> 0..L]
    BY <1>2
  <2>3. step \in [D -> [V -> V]]
    <3>1. ASSUME NEW at \in D, NEW t \in V
          PROVE (IF at \in ends THEN t ELSE Append(t, section(at))) \in V
      <4>1. CASE at \in ends
        BY <4>1
      <4>2. CASE at \notin ends
        <5>1. section(at) \in S
          BY <1>4, <4>2
        <5> HIDE DEF S
        <5> QED
          BY <4>2, <5>1
      <4> QED
        BY <4>1, <4>2
    <3> HIDE DEF ends, V
    <3> QED
      BY <3>1
  <2>4. \A at \in D \ ends : succ[at] \in D /\ m[succ[at]] < m[at]
    <3> SUFFICES ASSUME NEW at \in D \ ends PROVE succ[at] \in D /\ m[succ[at]] < m[at]
      OBVIOUS
    <3>1. succ[at] \in D /\ succ[at] < at
      BY <1>3
    <3> QED
      BY <3>1
  <2>5. ends \subseteq D
    OBVIOUS
  <2>6. \A at \in D \ ends : ~lost(at) /\ ~first(at) /\ ~astray(at)
    OBVIOUS
  <2>7. \A at \in ends : lost(at) \/ first(at) \/ astray(at)
    OBVIOUS
  <2>8. /\ \A at \in D : base[at] = IF lost(at) THEN <<Broken>> ELSE IF first(at) THEN <<section(at)>>
                                   ELSE <<Broken>>
        /\ \A at \in D \ ends : succ[at] = file.at[at].previous
        /\ \A at \in D \ ends : \A t \in V : step[at][t] = Append(t, section(at))
    OBVIOUS
  <2> HIDE DEF ends, base, succ, step, m, V, D, L
  <2>b. /\ base \in ValuesOn(D, V) /\ step \in StepsOn(D, V) /\ L \in Nat
        /\ Onward(D, L, ends, succ, m)
    BY <1>2, <2>1, <2>2, <2>3, <2>4, <2>5 DEF ValuesOn, StepsOn, Onward
  <2>9. PICK f \in [D -> V] : f = [d \in D |-> IF d \in ends THEN base[d] ELSE step[d][f[succ[d]]]]
    BY <2>b, RecursionOn
  <2>10. ASSUME NEW at \in D PROVE f[at] = Body(f, at)
    <3>1. f[at] = IF at \in ends THEN base[at] ELSE step[at][f[succ[at]]]
      BY <2>9
    <3>2. CASE at \in ends
      <4>1. f[at] = base[at] /\ (lost(at) \/ first(at) \/ astray(at))
        BY <2>7, <3>1, <3>2
      <4>2. base[at] = IF lost(at) THEN <<Broken>> ELSE IF first(at) THEN <<section(at)>>
                                   ELSE <<Broken>>
        BY <2>8
      <4> HIDE DEF lost, first, astray
      <4> QED
        BY <4>1, <4>2
    <3>3. CASE at \notin ends
      <4>1. ~lost(at) /\ ~first(at) /\ ~astray(at)
        BY <2>6, <3>3
      <4>2. succ[at] \in D /\ f[succ[at]] \in V
        BY <2>4, <3>3
      <4>3. f[at] = Append(f[file.at[at].previous], section(at))
        BY <2>8, <3>1, <3>3, <4>2
      <4> HIDE DEF lost, first, astray
      <4> QED
        BY <4>1, <4>3
    <3> QED
      BY <3>2, <3>3
  <2>11. f = [at \in D |-> f[at]]
    BY <2>9
  <2> HIDE DEF Body
  <2>12. f = [at \in D |-> Body(f, at)]
    BY <2>10, <2>11, Zenon
  <2> QED
    BY <2>12
<1>7. \A at \in D : scan[at] = Body(scan, at)
  <2>1. \E f : f = [at \in D |-> Body(f, at)]
    <3> HIDE DEF Body, V
    <3> QED
      BY <1>6, Zenon
  <2>2. scan = [at \in D |-> Body(scan, at)]
    BY <2>1 DEF section
  <2> HIDE DEF scan, Body
  <2> QED
    BY <2>2, Zenon
<1> HIDE DEF scan
<1>8. \A r \in S : r.type # "broken" => r.at \in Nat
  <2> SUFFICES ASSUME NEW r \in S, r.type # "broken" PROVE r.at \in Nat
    OBVIOUS
  <2>1. PICK at \in Descriptors(file) : r = TrailingSection(file, at)
    BY DEF Trailing, Broken
  <2>2. at \in Nat
    BY <1>2 DEF Descriptors
  <2> QED
    BY <2>1, <2>2 DEF TrailingSection
<1> DEFINE Ok(t, at) == t \in Seq(S) /\ Rising(t) /\ UpTo(t, at)
           T == {n \in Nat : \A at \in D : at < n => Ok(scan[at], at)}
<1>9. 0 \in T
  BY <1>2
<1>a. ASSUME NEW at PROVE Ok(<<Broken>>, at)
  BY <1>5 DEF Rising, UpTo, Broken
<1>10. ASSUME NEW n \in Nat, n \in T PROVE n + 1 \in T
  <2> SUFFICES ASSUME NEW at \in D, at < n + 1 PROVE Ok(scan[at], at)
    OBVIOUS
  <2>0. at \in Nat
    BY <1>2
  <2>a. ~lost(at) => section(at).at = at /\ section(at) \in S
    BY <1>4 DEF section, TrailingSection
  <2>1. CASE lost(at)
    <3>1. scan[at] = <<Broken>>
      BY <1>7, <2>1
    <3> QED
      BY <1>a, <3>1
  <2>2. CASE ~lost(at) /\ first(at)
    <3>1. scan[at] = <<section(at)>>
      BY <1>7, <2>2
    <3> HIDE DEF S
    <3>2. Ok(<<section(at)>>, at)
      BY <2>0, <2>a, <2>2 DEF Rising, UpTo
    <3> QED
      BY <3>1, <3>2
  <2>3. CASE ~lost(at) /\ ~first(at) /\ astray(at)
    <3>1. scan[at] = <<Broken>>
      BY <1>7, <2>3
    <3> QED
      BY <1>a, <3>1
  <2>4. CASE ~lost(at) /\ ~first(at) /\ ~astray(at)
    <3>1. scan[at] = Append(scan[file.at[at].previous], section(at))
      BY <1>7, <2>4
    <3>2. PICK previous \in D : previous = file.at[at].previous /\ previous < at /\ previous \in 0..L
      BY <1>3, <2>4
    <3>3. previous < n
      BY <1>2, <2>0, <3>2
    <3>4. Ok(scan[previous], previous)
      BY <1>10, <3>3
    <3>5. PICK t \in Seq(S) : t = scan[previous]
      BY <3>4
    <3>6. PICK s \in S : s = section(at) /\ s.at = at
      BY <2>a, <2>4
    <3>7. previous \in Nat /\ Rising(t) /\ UpTo(t, previous)
      BY <1>2, <3>2, <3>4, <3>5
    <3> HIDE DEF S
    <3>8. Append(t, s) \in Seq(S) /\ Rising(Append(t, s)) /\ UpTo(Append(t, s), at)
      BY <1>8, <2>0, <3>2, <3>6, <3>7, RisingBehind
    <3> QED
      BY <3>1, <3>2, <3>5, <3>6, <3>8
  <2> QED
    BY <2>1, <2>2, <2>3, <2>4
<1> HIDE DEF T
<1>11. Nat \subseteq T
  BY <1>9, <1>10, SetInduction
<1>12. ASSUME end \in DOMAIN file.at PROVE Ok(scan[end], end)
  <2>1. end \in D /\ end \in Nat
    BY <1>2, <1>12
  <2>2. end + 1 \in T
    BY <1>11, <2>1
  <2> QED
    BY <2>1, <2>2 DEF T
<1> QED
  BY <1>1, <1>12, <1>a

----------------------------------------------------------------------------
(* Tables and the chunks before them                                       *)

\* A piece that is the descriptor of a section of this type
IsDescriptor(p, type) == p.is = "descriptor" /\ p.type = type

\* c chunks right before piece i
ChunkRun(s, i, c) == c \in Nat /\ c < i /\ \A k \in (i - c)..(i - 1) : s[k].is = "chunk"

\* The chunks among the first i pieces, and in all of them
ChunkIndices(s, i) == {k \in 1..i : s[k].is = "chunk"}
ChunksUpTo(s, i) == Cardinality(ChunkIndices(s, i))

\* In an EWF1 segment the table behind its descriptor is of as many chunks as stand
\* before it; that behind the descriptor of a second table is the same once more.
Tabled1(s) ==
    /\ \A i \in DOMAIN s : s[i].is = "descriptor" => s[i].len = Desc1 /\ s[i].size \in Nat \ {0}
    /\ \A i \in DOMAIN s : IsDescriptor(s[i], "table") =>
          /\ i + 1 \in DOMAIN s /\ s[i + 1].is = "table" /\ s[i + 1].len \in Nat \ {0}
          /\ ChunkRun(s, i, s[i + 1].count)
    /\ \A i \in DOMAIN s : IsDescriptor(s[i], "table2") =>
          /\ i - 2 \in DOMAIN s /\ i + 1 \in DOMAIN s
          /\ IsDescriptor(s[i - 2], "table") /\ s[i + 1] = s[i - 1]

\* In an EWF2 segment there are n chunks before a table.
Tabled2(s, n) ==
    /\ \A i \in DOMAIN s : s[i].is = "table" => s[i].count = n
    /\ \A i \in DOMAIN s : IsDescriptor(s[i], "table") =>
          /\ i - 2 \in DOMAIN s /\ s[i - 1].is = "table" /\ IsDescriptor(s[i - 2], "sectors")
          /\ ChunkRun(s, i - 2, n)

\* More pieces have no fewer chunks, and a run of chunks counts as many.
LEMMA ChunksCounted ==
    ASSUME NEW s, NEW i \in Nat
    PROVE  /\ ChunksUpTo(s, i) \in Nat
           /\ \A p \in 0..i : ChunksUpTo(s, p) \in Nat /\ ChunksUpTo(s, p) <= ChunksUpTo(s, i)
           /\ \A p \in 0..i, c \in Nat :
                 ChunkRun(s, i, c) /\ p < i - c => ChunksUpTo(s, p) + c <= ChunksUpTo(s, i)
<1>1. ASSUME NEW p \in Nat PROVE IsFiniteSet(ChunkIndices(s, p)) /\ ChunksUpTo(s, p) \in Nat
  <2>1. IsFiniteSet(1..p) /\ ChunkIndices(s, p) \subseteq 1..p
    BY FS_Interval DEF ChunkIndices
  <2> QED
    BY <2>1, FS_Subset, FS_CardinalityType DEF ChunksUpTo
<1>2. ASSUME NEW p \in 0..i PROVE ChunksUpTo(s, p) \in Nat /\ ChunksUpTo(s, p) <= ChunksUpTo(s, i)
  <2>1. ChunkIndices(s, p) \subseteq ChunkIndices(s, i)
    BY DEF ChunkIndices
  <2> QED
    BY <1>1, <2>1, FS_Subset DEF ChunksUpTo
<1>3. ASSUME NEW p \in 0..i, NEW c \in Nat, ChunkRun(s, i, c), p < i - c
      PROVE  ChunksUpTo(s, p) + c <= ChunksUpTo(s, i)
  <2> DEFINE run == (i - c)..(i - 1)
  <2>1. run \cup ChunkIndices(s, p) \subseteq ChunkIndices(s, i)
    BY <1>3 DEF ChunkIndices, ChunkRun
  <2>2. run \cap ChunkIndices(s, p) = {}
    BY <1>3 DEF ChunkIndices
  <2>3. IsFiniteSet(run) /\ Cardinality(run) = c
    <3>1. i - c \in Int /\ i - 1 \in Int
      OBVIOUS
    <3>2. IsFiniteSet(run)
      BY <3>1, FS_Interval
    <3>3. Cardinality(run) = IF i - c > i - 1 THEN 0 ELSE (i - 1) - (i - c) + 1
      BY <3>1, FS_Interval
    <3> QED
      BY <3>2, <3>3
  <2> HIDE DEF run
  <2>4. Cardinality(run \cup ChunkIndices(s, p)) = c + ChunksUpTo(s, p)
    <3>1. Cardinality(run \cup ChunkIndices(s, p))
            = Cardinality(run) + Cardinality(ChunkIndices(s, p))
              - Cardinality(run \cap ChunkIndices(s, p))
      BY <1>1, <2>3, FS_Union
    <3>2. Cardinality(run \cap ChunkIndices(s, p)) = 0
      BY <2>2, FS_EmptySet
    <3>3. Cardinality(ChunkIndices(s, p)) = ChunksUpTo(s, p) /\ ChunksUpTo(s, p) \in Nat
      BY <1>1 DEF ChunksUpTo
    <3> QED
      BY <2>3, <3>1, <3>2, <3>3
  <2>5. Cardinality(run \cup ChunkIndices(s, p)) <= ChunksUpTo(s, i)
    BY <1>1, <2>1, FS_Subset DEF ChunksUpTo
  <2> QED
    BY <1>1, <2>4, <2>5
<1> QED
  BY <1>1, <1>2, <1>3

\* A table whose descriptor is read counts chunks behind a descriptor read before;
\* only a second table may not, and then it stands right behind the first.
LEMMA TableCounted1 ==
    ASSUME NEW s, Tabled1(s), DOMAIN s = 1..Len(s), Len(s) \in Nat,
           NEW p \in 0..Len(s), NEW j \in 1..Len(s), p < j, p # 0 => s[p].is = "descriptor"
    PROVE  /\ ChunksUpTo(s, p) \in Nat /\ ChunksUpTo(s, j) \in Nat
           /\ ChunksUpTo(s, p) <= ChunksUpTo(s, j)
           /\ IsDescriptor(s[j], "table") =>
                 ChunksUpTo(s, p) + s[j + 1].count <= ChunksUpTo(s, j)
           /\ IsDescriptor(s[j], "table2") =>
                 p = j - 2 \/ ChunksUpTo(s, p) + s[j + 1].count <= ChunksUpTo(s, j)
<1>1. /\ ChunksUpTo(s, p) \in Nat /\ ChunksUpTo(s, j) \in Nat
      /\ ChunksUpTo(s, p) <= ChunksUpTo(s, j)
  BY ChunksCounted
<1>2. ASSUME NEW i \in 1..Len(s), p < i, IsDescriptor(s[i], "table")
      PROVE  s[i + 1].count \in Nat /\ ChunksUpTo(s, p) + s[i + 1].count <= ChunksUpTo(s, i)
  <2>1. PICK c : c = s[i + 1].count
    OBVIOUS
  <2>2. ChunkRun(s, i, c)
    BY <1>2, <2>1 DEF Tabled1
  <2>3. c \in Nat /\ c < i /\ \A k \in (i - c)..(i - 1) : s[k].is = "chunk"
    BY <2>2 DEF ChunkRun
  <2>4. p < i - c
    BY <1>2, <2>3
  <2>5. \A q \in 0..i, d \in Nat :
           ChunkRun(s, i, d) /\ q < i - d => ChunksUpTo(s, q) + d <= ChunksUpTo(s, i)
    BY ChunksCounted
  <2>6. p \in 0..i
    BY <1>2
  <2> QED
    BY <2>1, <2>2, <2>3, <2>4, <2>5, <2>6
<1>3. ASSUME IsDescriptor(s[j], "table2"), p # j - 2
      PROVE  ChunksUpTo(s, p) + s[j + 1].count <= ChunksUpTo(s, j)
  <2>1. /\ j - 2 \in 1..Len(s) /\ IsDescriptor(s[j - 2], "table") /\ s[j + 1] = s[j - 1]
    BY <1>3 DEF Tabled1
  <2>2. (j - 2) + 1 = j - 1 /\ s[(j - 2) + 1].is = "table"
    BY <2>1 DEF Tabled1
  <2>3. p < j - 2
    BY <1>3, <2>1, <2>2
  <2>4. /\ s[(j - 2) + 1].count \in Nat
        /\ ChunksUpTo(s, p) + s[(j - 2) + 1].count <= ChunksUpTo(s, j - 2)
    BY <1>2, <2>1, <2>3
  <2>5. ChunksUpTo(s, j - 2) \in Nat /\ ChunksUpTo(s, j - 2) <= ChunksUpTo(s, j)
    <3>1. j - 2 \in 0..j
      BY <2>1
    <3> QED
      BY <3>1, ChunksCounted
  <2> QED
    BY <1>1, <2>1, <2>2, <2>4, <2>5
<1> QED
  BY <1>1, <1>2, <1>3

\* The chunks of an EWF2 table are behind the table before it.
LEMMA TableCounted2 ==
    ASSUME NEW s, NEW n \in Nat, Tabled2(s, n), DOMAIN s = 1..Len(s), Len(s) \in Nat,
           NEW p \in 0..Len(s), NEW j \in 1..Len(s), p < j,
           p # 0 => IsDescriptor(s[p], "table"), IsDescriptor(s[j], "table")
    PROVE  /\ ChunksUpTo(s, p) \in Nat /\ ChunksUpTo(s, j) \in Nat
           /\ ChunksUpTo(s, p) + n <= ChunksUpTo(s, j)
<1>1. /\ ChunksUpTo(s, p) \in Nat /\ ChunksUpTo(s, j) \in Nat
      /\ ChunksUpTo(s, p) <= ChunksUpTo(s, j)
  BY ChunksCounted
<1>2. /\ j - 2 \in 1..Len(s) /\ s[j - 1].is = "table" /\ IsDescriptor(s[j - 2], "sectors")
      /\ ChunkRun(s, j - 2, n)
  BY DEF Tabled2
<1>3. n < j - 2 /\ \A k \in (j - 2 - n)..(j - 2 - 1) : s[k].is = "chunk"
  BY <1>2 DEF ChunkRun
<1>4. p # j - 1 /\ p # j - 2
  BY <1>2 DEF IsDescriptor
<1>5. p < (j - 2) - n
  BY <1>2, <1>3, <1>4 DEF IsDescriptor
<1>6. ChunksUpTo(s, p) + n <= ChunksUpTo(s, j - 2)
  BY <1>2, <1>5, ChunksCounted
<1>7. ChunksUpTo(s, j - 2) \in Nat /\ ChunksUpTo(s, j - 2) <= ChunksUpTo(s, j)
  <2>1. j - 2 \in 0..j
    BY <1>2
  <2> QED
    BY <2>1, ChunksCounted
<1> QED
  BY <1>1, <1>6, <1>7

----------------------------------------------------------------------------
(* The ranges of a segment                                                 *)

\* The chunks of ranges together
Counts(R) == [r \in R |-> r.count]
CountsOf(ranges) == TotalOf([i \in DOMAIN ranges |-> ranges[i].count])
AtMost(ranges, n) == /\ \E R : ranges \in Seq(R) /\ \A r \in R : r.count \in Nat
                     /\ CountsOf(ranges) <= n

\* The chunks of ranges together are a weight, which grows range by range.
LEMMA CountsWeigh ==
    ASSUME NEW R, \A r \in R : r.count \in Nat, NEW ranges \in Seq(R)
    PROVE  /\ Counts(R) \in Weights(R) /\ Weight(Counts(R), ranges) = CountsOf(ranges)
           /\ CountsOf(ranges) \in Nat
<1>1. Counts(R) \in Weights(R)
  BY DEF Counts, Weights
<1>2. \A i \in DOMAIN ranges : ranges[i] \in R
  OBVIOUS
<1>3. Weighed(Counts(R), ranges) = [i \in DOMAIN ranges |-> ranges[i].count]
  BY <1>2 DEF Weighed, Counts
<1>4. Weight(Counts(R), ranges) \in Nat
  BY <1>1, WeighedSeq
<1> QED
  BY <1>1, <1>3, <1>4 DEF CountsOf, Weight

\* A range more.
LEMMA RangeCounted ==
    ASSUME NEW R, \A r \in R : r.count \in Nat, NEW ranges \in Seq(R), NEW r \in R
    PROVE  /\ Append(ranges, r) \in Seq(R)
           /\ Weight(Counts(R), Append(ranges, r)) = Weight(Counts(R), ranges) + r.count
           /\ Weight(Counts(R), ranges) \in Nat
<1>1. Counts(R) \in Weights(R)
  BY CountsWeigh
<1>2. Counts(R)[r] = r.count
  BY DEF Counts
<1>3. PICK w \in Weights(R) : w = Counts(R)
  BY <1>1
<1>4. Weight(w, Append(ranges, r)) = Weight(w, ranges) + w[r]
  BY WeightAppend
<1>5. Weight(w, ranges) \in Nat
  BY WeighedSeq
<1> QED
  BY <1>2, <1>3, <1>4, <1>5

\* What the section of a segment is, by the piece it stands at.
LEMMA LeadingAt ==
    ASSUME NEW s, NEW file, NEW idx, Indexed(s, file, idx), Tabled1(s),
           DOMAIN s = 1..Len(s), Len(s) \in Nat,
           NEW sections \in Seq(Leading(file)), Intact(sections), NEW n \in DOMAIN sections
    PROVE  /\ sections[n].at \in DOMAIN file.at /\ idx[sections[n].at] \in DOMAIN s
           /\ IsDescriptor(s[idx[sections[n].at]], sections[n].type)
           /\ sections[n].type \in {"table", "table2"} =>
                 /\ idx[sections[n].at] + 1 \in DOMAIN s
                 /\ sections[n].data \in DOMAIN file.at
                 /\ file.at[sections[n].data] = s[idx[sections[n].at] + 1]
                 /\ s[idx[sections[n].at] + 1].is = "table"
                 /\ s[idx[sections[n].at] + 1].count \in Nat
<1>1. sections[n] \in Leading(file) /\ sections[n].type # "broken"
  BY DEF Intact
<1>2. PICK at \in Descriptors(file) : sections[n] = LeadingSection(file, at)
  BY <1>1 DEF Leading, Broken
<1>3. /\ sections[n].at = at /\ sections[n].type = file.at[at].type /\ sections[n].data = at + Desc1
      /\ at \in DOMAIN file.at /\ file.at[at].is = "descriptor"
  BY <1>2 DEF LeadingSection, Descriptors
<1>4. PICK j \in DOMAIN s : j = idx[at] /\ s[j] = file.at[at]
  BY <1>3 DEF Indexed
<1>5. IsDescriptor(s[j], sections[n].type)
  BY <1>3, <1>4 DEF IsDescriptor
<1>6. ASSUME sections[n].type \in {"table", "table2"}
      PROVE  /\ j + 1 \in DOMAIN s /\ s[j + 1].is = "table" /\ s[j + 1].len \in Nat \ {0}
             /\ s[j + 1].count \in Nat
  <2>1. CASE sections[n].type = "table"
    BY <1>4, <1>5, <2>1 DEF Tabled1, ChunkRun
  <2>2. CASE sections[n].type = "table2"
    <3>1. j - 2 \in DOMAIN s /\ j + 1 \in DOMAIN s /\ IsDescriptor(s[j - 2], "table") /\ s[j + 1] = s[j - 1]
      BY <1>4, <1>5, <2>2 DEF Tabled1
    <3>2. /\ s[(j - 2) + 1].is = "table" /\ s[(j - 2) + 1].len \in Nat \ {0}
          /\ s[(j - 2) + 1].count \in Nat
      BY <3>1 DEF Tabled1, ChunkRun
    <3>3. j \in Int
      BY <1>4
    <3>4. (j - 2) + 1 = j - 1
      BY <3>3
    <3> QED
      BY <3>1, <3>2, <3>4
  <2> QED
    BY <1>6, <2>1, <2>2
<1>7. ASSUME sections[n].type \in {"table", "table2"}
      PROVE  at + Desc1 \in DOMAIN file.at /\ file.at[at + Desc1] = s[j + 1]
  <2>1. s[j].len = Desc1 /\ j + 1 \in DOMAIN s /\ s[j + 1].len > 0
    BY <1>3, <1>4, <1>6, <1>7 DEF Tabled1
  <2>2. at + Desc1 \in DOMAIN file.at /\ idx[at + Desc1] = j + 1
    BY <1>3, <1>4, <2>1 DEF Indexed
  <2> QED
    BY <2>2 DEF Indexed
<1> QED
  BY <1>3, <1>4, <1>5, <1>6, <1>7

\* What a section adds to the ranges before it.
LEMMA RangeAdded ==
    ASSUME NEW acc, NEW file, NEW sections, NEW sec, NEW segment
    PROVE  /\ sec.type \notin {"table", "table2"} =>
                AddRangeEwf1(acc, file, sections, sec, segment) = acc
           /\ sec.type \in {"table", "table2"} /\ HasTable(file, sec.data)
              /\ (file.at[sec.data].count = 0 \/ IsCopy(sec, file.at[sec.data], acc.previous)) =>
                AddRangeEwf1(acc, file, sections, sec, segment) = acc
           /\ sec.type \in {"table", "table2"} /\ HasTable(file, sec.data)
              /\ file.at[sec.data].count # 0 /\ ~IsCopy(sec, file.at[sec.data], acc.previous) =>
                AddRangeEwf1(acc, file, sections, sec, segment)
                  = [ranges |-> Append(acc.ranges,
                        RangeEwf1(file, sec, file.at[sec.data],
                                  MatchingSectors(sections, file.at[sec.data].base), segment, acc.next)),
                     next |-> acc.next + file.at[sec.data].count,
                     previous |-> [type |-> sec.type, count |-> file.at[sec.data].count,
                                   base |-> file.at[sec.data].base]]
BY Zenon DEF AddRangeEwf1

\* parse_ewf1_ranges(): the ranges of a segment are of no more chunks than it has,
\* second tables or not.
LEMMA RangesCounted1 ==
    ASSUME NEW s, NEW file, NEW idx, Indexed(s, file, idx), Tabled1(s),
           DOMAIN s = 1..Len(s), Len(s) \in Nat,
           NEW sections \in Seq(Leading(file)), Intact(sections), Rising(sections),
           NEW segment, NEW first \in Nat
    PROVE  AtMost(RangesEwf1(file, sections, segment, first), ChunksUpTo(s, Len(s)))
<1> DEFINE N == Len(sections)
           type(n) == sections[n].type
           tabled == {n \in 1..N : type(n) \in {"table", "table2"}}
           t(n) == file.at[sections[n].data]
           none == [ranges |-> <<>>, next |-> first,
                    previous |-> [type |-> "none", count |-> 0, base |-> 0]]
           range(n, x) == RangeEwf1(file, sections[n], t(n), MatchingSectors(sections, t(n).base), segment, x)
           R == {range(n, x) : n \in tabled, x \in Nat}
           Previous == {none.previous}
                       \cup {[type |-> type(n), count |-> t(n).count, base |-> t(n).base] : n \in tabled}
           V == [ranges : Seq(R), next : Nat, previous : Previous]
           upTo[n \in 0..Len(sections)] ==
            IF n = 0 THEN none ELSE AddRangeEwf1(upTo[n - 1], file, sections, sections[n], segment)
           Body(f, n) == IF n = 0 THEN none ELSE AddRangeEwf1(f[n - 1], file, sections, sections[n], segment)
           place(n) == idx[sections[n].at]
<1>1. RangesEwf1(file, sections, segment, first) = upTo[N].ranges
  BY DEF RangesEwf1
<1>2. N \in Nat /\ DOMAIN sections = 1..N
  OBVIOUS
<1>3. ASSUME NEW n \in 1..N
      PROVE  /\ sections[n].at \in DOMAIN file.at /\ place(n) \in 1..Len(s)
             /\ IsDescriptor(s[place(n)], type(n))
             /\ n \in tabled =>
                   /\ sections[n].data \in DOMAIN file.at /\ t(n) = s[place(n) + 1]
                   /\ s[place(n) + 1].is = "table" /\ t(n).count \in Nat
  BY <1>2, LeadingAt
<1>4. \A r \in R : r.count \in Nat
  BY <1>3 DEF RangeEwf1
<1>5. ASSUME NEW n \in 1..N, NEW acc \in V
      PROVE  /\ n \notin tabled => AddRangeEwf1(acc, file, sections, sections[n], segment) = acc
             /\ n \in tabled =>
                   \/ /\ t(n).count = 0 \/ IsCopy(sections[n], t(n), acc.previous)
                      /\ AddRangeEwf1(acc, file, sections, sections[n], segment) = acc
                   \/ /\ t(n).count # 0 /\ ~IsCopy(sections[n], t(n), acc.previous)
                      /\ AddRangeEwf1(acc, file, sections, sections[n], segment)
                            = [ranges |-> Append(acc.ranges, range(n, acc.next)),
                               next |-> acc.next + t(n).count,
                               previous |-> [type |-> type(n), count |-> t(n).count, base |-> t(n).base]]
  <2>1. CASE n \notin tabled
    <3>1. sections[n].type \notin {"table", "table2"}
      BY <2>1
    <3> HIDE DEF range, t
    <3> QED
      BY <2>1, <3>1, RangeAdded
  <2>2. CASE n \in tabled
    <3>1. sections[n].type \in {"table", "table2"}
      BY <2>2
    <3>2. HasTable(file, sections[n].data)
      <4>1. sections[n].data \in DOMAIN file.at /\ t(n).is = "table"
        <5> HIDE DEF t, tabled, place, type, range, R, Previous, V
        <5>1. PICK piece : piece = t(n)
          OBVIOUS
        <5>2. sections[n].data \in DOMAIN file.at /\ piece = s[place(n) + 1]
              /\ s[place(n) + 1].is = "table"
          BY <1>3, <2>2, <5>1
        <5> QED
          BY <5>1, <5>2
      <4> QED
        BY <4>1 DEF HasTable, Found
    <3>3. CASE t(n).count = 0 \/ IsCopy(sections[n], t(n), acc.previous)
      <4>1. AddRangeEwf1(acc, file, sections, sections[n], segment) = acc
        BY <3>1, <3>2, <3>3, RangeAdded
      <4> HIDE DEF range, t, tabled
      <4> QED
        BY <2>2, <3>3, <4>1
    <3>4. CASE ~(t(n).count = 0 \/ IsCopy(sections[n], t(n), acc.previous))
      <4>1. AddRangeEwf1(acc, file, sections, sections[n], segment)
                            = [ranges |-> Append(acc.ranges, range(n, acc.next)),
                               next |-> acc.next + t(n).count,
                               previous |-> [type |-> type(n), count |-> t(n).count, base |-> t(n).base]]
        <5>1. t(n).count # 0 /\ ~IsCopy(sections[n], t(n), acc.previous)
          BY <3>4
        <5>2. PICK sec : sec = sections[n]
          OBVIOUS
        <5>3. /\ sec.type \in {"table", "table2"} /\ HasTable(file, sec.data)
              /\ file.at[sec.data].count # 0 /\ ~IsCopy(sec, file.at[sec.data], acc.previous)
          BY <3>1, <3>2, <5>1, <5>2
        <5>4. AddRangeEwf1(acc, file, sections, sec, segment)
                  = [ranges |-> Append(acc.ranges,
                        RangeEwf1(file, sec, file.at[sec.data],
                                  MatchingSectors(sections, file.at[sec.data].base), segment, acc.next)),
                     next |-> acc.next + file.at[sec.data].count,
                     previous |-> [type |-> sec.type, count |-> file.at[sec.data].count,
                                   base |-> file.at[sec.data].base]]
          BY <5>3, RangeAdded
        <5> QED
          BY <5>2, <5>4
      <4> HIDE DEF range, t, tabled, type
      <4> QED
        BY <2>2, <3>4, <4>1
    <3> QED
      BY <3>3, <3>4
  <2> QED
    BY <2>1, <2>2
<1>6. ASSUME NEW n \in 1..N, NEW acc \in V
      PROVE  AddRangeEwf1(acc, file, sections, sections[n], segment) \in V
  <2>1. CASE n \notin tabled
    <3> HIDE DEF V, tabled, range, t, type
    <3> QED
      BY <1>5, <2>1
  <2>2. CASE n \in tabled
    <3>1. acc.next \in Nat /\ acc.ranges \in Seq(R) /\ t(n).count \in Nat
      <4>1. t(n).count \in Nat
        <5> HIDE DEF t
        <5> QED
          BY <1>3, <2>2
      <4> HIDE DEF R, Previous, t, tabled
      <4> QED
        BY <4>1
    <3>2. range(n, acc.next) \in R
      BY <2>2, <3>1
    <3>3. Append(acc.ranges, range(n, acc.next)) \in Seq(R)
      <4> HIDE DEF R
      <4> QED
        BY <3>1, <3>2
    <3>4. [type |-> type(n), count |-> t(n).count, base |-> t(n).base] \in Previous
      BY <2>2
    <3>5. [ranges |-> Append(acc.ranges, range(n, acc.next)), next |-> acc.next + t(n).count,
           previous |-> [type |-> type(n), count |-> t(n).count, base |-> t(n).base]] \in V
      <4> HIDE DEF R, Previous, range, t, type
      <4> QED
        BY <3>1, <3>3, <3>4
    <3> HIDE DEF V, tabled, range, t, type
    <3> QED
      BY <1>5, <2>2, <3>5
  <2> HIDE DEF V, tabled, range, t, type
  <2> QED
    BY <2>1, <2>2
<1>7. none \in V
  <2> HIDE DEF R
  <2> QED
    OBVIOUS
<1> HIDE DEF V
<1>8. PICK f \in [0..N -> V] : f = [n \in 0..N |-> Body(f, n)]
  <2> DEFINE base == [n \in 0..N |-> none]
             succ == [n \in 0..N |-> n - 1]
             step == [n \in 0..N |-> [acc \in V |-> IF n = 0 THEN acc
                                        ELSE AddRangeEwf1(acc, file, sections, sections[n], segment)]]
             m == [n \in 0..N |-> n]
             ends == {0}
             D == 0..N
  <2>1. base \in ValuesOn(D, V)
    BY <1>7 DEF ValuesOn
  <2>2. step \in StepsOn(D, V)
    <3>1. ASSUME NEW n \in D, NEW acc \in V
          PROVE (IF n = 0 THEN acc ELSE AddRangeEwf1(acc, file, sections, sections[n], segment)) \in V
      BY <1>2, <1>6
    <3> QED
      BY <3>1 DEF StepsOn
  <2>3. Onward(D, N, ends, succ, m)
    BY <1>2 DEF Onward
  <2>a. /\ \A n \in D : base[n] = none
        /\ \A n \in D : n # 0 => n - 1 \in D /\ succ[n] = n - 1
        /\ \A n \in D, acc \in V :
              n # 0 => step[n][acc] = AddRangeEwf1(acc, file, sections, sections[n], segment)
    BY <1>2
  <2> HIDE DEF base, succ, step, m, ends, D, none
  <2>4. PICK f \in [D -> V] : f = [d \in D |-> IF d \in ends THEN base[d] ELSE step[d][f[succ[d]]]]
    BY <1>2, <2>1, <2>2, <2>3, RecursionOn
  <2>5. ASSUME NEW n \in D PROVE f[n] = Body(f, n)
    <3>1. f[n] = IF n \in ends THEN base[n] ELSE step[n][f[succ[n]]]
      BY <2>4
    <3>2. CASE n = 0
      BY <2>a, <3>1, <3>2 DEF ends
    <3>3. CASE n # 0
      <4>1. n \notin ends /\ succ[n] = n - 1 /\ f[n - 1] \in V
        BY <2>a, <3>3 DEF ends
      <4> QED
        BY <2>a, <3>1, <3>3, <4>1
    <3> QED
      BY <3>2, <3>3
  <2>6. f = [n \in D |-> f[n]]
    BY <2>4
  <2> HIDE DEF Body
  <2>7. f = [n \in D |-> Body(f, n)]
    BY <2>5, <2>6, Zenon
  <2> QED
    BY <2>4, <2>7 DEF D
<1>9. \A n \in 0..N : upTo[n] = Body(upTo, n)
  <2>1. \E g : g = [n \in 0..N |-> Body(g, n)]
    <3> HIDE DEF Body
    <3> QED
      BY <1>8, Zenon
  <2>2. upTo = [n \in 0..N |-> Body(upTo, n)]
    BY <2>1
  <2> HIDE DEF upTo, Body, none
  <2> QED
    BY <2>2, Zenon
<1> HIDE DEF upTo
<1>10. upTo[0] = none /\ \A n \in 1..N : upTo[n] = AddRangeEwf1(upTo[n - 1], file, sections, sections[n], segment)
  <2> HIDE DEF none
  <2> QED
    BY <1>2, <1>9
<1>11. ASSUME NEW k \in 1..N, NEW l \in 1..N, k < l PROVE place(k) < place(l)
  <2>1. sections[k].at < sections[l].at
    BY <1>2, <1>11 DEF Rising, Intact
  <2> QED
    BY <1>3, <2>1 DEF Indexed
<1> DEFINE w == Counts(R)
           Copied(acc, p) == p # 0 /\ IsDescriptor(s[p], "table") /\ s[p + 1].count # 0 =>
              acc.previous = [type |-> "table", count |-> s[p + 1].count, base |-> s[p + 1].base]
           Behind(n, acc, p) ==
              /\ \A k \in (n + 1)..N : p < place(k)
              /\ Weight(w, acc.ranges) <= ChunksUpTo(s, p)
              /\ p # 0 => s[p].is = "descriptor"
              /\ Copied(acc, p)
           T == {n \in Nat : n <= N =>
                    upTo[n] \in V /\ \E p \in 0..Len(s) : Behind(n, upTo[n], p)}
<1>12. 0 \in T
  <2>1. Behind(0, none, 0)
    <3>1. Weight(w, <<>>) = 0 /\ ChunksUpTo(s, 0) \in Nat
      BY WeightEmpty, ChunksCounted
    <3>2. \A k \in (0 + 1)..N : 0 < place(k)
      BY <1>3
    <3> HIDE DEF w
    <3> QED
      BY <3>1, <3>2
  <2> HIDE DEF Behind, none
  <2> QED
    BY <1>7, <1>10, <2>1
<1>13. ASSUME NEW n \in Nat, n \in T PROVE n + 1 \in T
  <2> HIDE DEF Behind
  <2> SUFFICES ASSUME n + 1 <= N
               PROVE  upTo[n + 1] \in V /\ \E p \in 0..Len(s) : Behind(n + 1, upTo[n + 1], p)
    OBVIOUS
  <2> DEFINE m == n + 1
             j == place(m)
  <2>1. m \in 1..N /\ m - 1 = n
    BY <1>2
  <2>2. PICK acc \in V, p \in 0..Len(s) : acc = upTo[n] /\ Behind(n, acc, p)
    BY <1>2, <1>13
  <2>3. PICK next \in V : next = upTo[m] /\ next = AddRangeEwf1(acc, file, sections, sections[m], segment)
    BY <1>6, <1>10, <2>1, <2>2
  <2>4. \A k \in (m + 1)..N : k \in (n + 1)..N /\ k \in 1..N /\ m < k
    BY <2>1
  <2>b. /\ \A k \in (n + 1)..N : p < place(k)
        /\ Weight(w, acc.ranges) <= ChunksUpTo(s, p)
        /\ p # 0 => s[p].is = "descriptor"
        /\ Copied(acc, p)
    BY <2>2 DEF Behind
  <2>c. j = place(m)
    OBVIOUS
  <2> HIDE DEF j, m, w, Copied, place, tabled, t, type, range, R
  <2>d. m \in (n + 1)..N
    BY <1>2, <2>1
  <2>5. p < j /\ j \in 1..Len(s) /\ IsDescriptor(s[j], type(m))
    BY <1>3, <2>1, <2>b, <2>c, <2>d
  <2>6. \A k \in (m + 1)..N : p < place(k) /\ j < place(k)
    BY <1>11, <2>1, <2>b, <2>c, <2>4
  <2>7. \E q \in 0..Len(s) : Behind(m, next, q)
    <3>1. CASE m \notin tabled
      <4>1. next = acc
        BY <1>5, <2>1, <2>3, <3>1
      <4> QED
        BY <2>b, <2>6, <4>1 DEF Behind
    <3>2. CASE m \in tabled
      <4>0. /\ t(m) = s[j + 1] /\ t(m).count \in Nat
            /\ type(m) = "table" \/ type(m) = "table2"
        BY <1>3, <2>1, <2>c, <3>2 DEF tabled
      <4>1. /\ ChunksUpTo(s, p) \in Nat /\ ChunksUpTo(s, j) \in Nat
            /\ ChunksUpTo(s, p) <= ChunksUpTo(s, j)
            /\ type(m) = "table" => ChunksUpTo(s, p) + t(m).count <= ChunksUpTo(s, j)
            /\ type(m) = "table2" => p = j - 2 \/ ChunksUpTo(s, p) + t(m).count <= ChunksUpTo(s, j)
            /\ t(m) = s[j + 1] /\ t(m).count \in Nat
        BY <2>b, <2>5, <4>0, TableCounted1
      <4>2. /\ acc.ranges \in Seq(R) /\ acc.next \in Nat /\ range(m, acc.next) \in R
            /\ range(m, acc.next).count = t(m).count
        <5>1. acc.ranges \in Seq(R) /\ acc.next \in Nat
          BY DEF V
        <5>2. range(m, acc.next) \in R
          BY <3>2, <5>1 DEF R
        <5> QED
          BY <5>1, <5>2 DEF range, RangeEwf1
      <4>3. /\ Weight(w, acc.ranges) \in Nat
            /\ Weight(w, Append(acc.ranges, range(m, acc.next))) = Weight(w, acc.ranges) + t(m).count
        BY <1>4, <4>2, RangeCounted DEF w
      <4>5. j \in 0..Len(s) /\ s[j].is = "descriptor"
        BY <2>5 DEF IsDescriptor
      <4>6. CASE t(m).count = 0 \/ IsCopy(sections[m], t(m), acc.previous)
        <5>1. next = acc
          BY <1>5, <2>1, <2>3, <3>2, <4>6
        <5>2. Copied(acc, j)
          <6>1. CASE t(m).count = 0
            BY <4>1, <6>1 DEF Copied
          <6>2. CASE IsCopy(sections[m], t(m), acc.previous)
            BY <2>5, <6>2 DEF IsCopy, IsDescriptor, Copied, type
          <6> QED
            BY <4>6, <6>1, <6>2
        <5>3. Weight(w, acc.ranges) <= ChunksUpTo(s, j)
          BY <2>b, <4>1, <4>3
        <5> QED
          BY <2>6, <4>5, <5>1, <5>2, <5>3 DEF Behind
      <4>7. CASE t(m).count # 0 /\ ~IsCopy(sections[m], t(m), acc.previous)
        <5>1. next = [ranges |-> Append(acc.ranges, range(m, acc.next)),
                      next |-> acc.next + t(m).count,
                      previous |-> [type |-> type(m), count |-> t(m).count, base |-> t(m).base]]
          BY <1>5, <2>1, <2>3, <3>2, <4>7 DEF range
        <5>2. Copied(next, j)
          BY <2>5, <4>1, <5>1 DEF IsDescriptor, Copied
        <5>3. ChunksUpTo(s, p) + t(m).count <= ChunksUpTo(s, j)
          <6>1. CASE type(m) = "table"
            BY <4>1, <6>1
          <6>2. CASE type(m) = "table2"
            <7>1. SUFFICES ASSUME p = j - 2 PROVE FALSE
              BY <4>1, <6>2
            <7>2. IsDescriptor(s[p], "table") /\ s[j + 1] = s[p + 1] /\ p # 0
              <8>1. j - 2 \in DOMAIN s /\ IsDescriptor(s[j - 2], "table") /\ s[j + 1] = s[j - 1]
                BY <2>5, <6>2 DEF Tabled1
              <8>2. (j - 2) + 1 = j - 1 /\ j - 2 # 0
                BY <2>5, <8>1
              <8> QED
                BY <7>1, <8>1, <8>2
            <7>3. acc.previous = [type |-> "table", count |-> t(m).count, base |-> t(m).base]
              BY <2>b, <4>1, <4>7, <7>2 DEF Copied
            <7> QED
              BY <4>7, <6>2, <7>3 DEF IsCopy, type
          <6> QED
            BY <4>0, <6>1, <6>2
        <5>4. Weight(w, next.ranges) <= ChunksUpTo(s, j)
          BY <2>b, <4>1, <4>3, <5>1, <5>3
        <5> QED
          BY <2>6, <4>5, <5>2, <5>4 DEF Behind
      <4> QED
        BY <4>6, <4>7
    <3> QED
      BY <3>1, <3>2
  <2> QED
    BY <2>3, <2>7 DEF m
<1> HIDE DEF T
<1>14. Nat \subseteq T
  BY <1>12, <1>13, SetInduction
<1> HIDE DEF Behind
<1>15. PICK acc \in V, p \in 0..Len(s) : acc = upTo[N] /\ Behind(N, acc, p)
  <2>1. N \in T /\ N <= N
    BY <1>2, <1>14
  <2>2. upTo[N] \in V /\ \E p \in 0..Len(s) : Behind(N, upTo[N], p)
    BY <2>1 DEF T
  <2> QED
    BY <2>2, Zenon
<1>16. acc.ranges \in Seq(R) /\ Weight(w, acc.ranges) <= ChunksUpTo(s, p)
  BY <1>15 DEF V, Behind
<1>17. Weight(w, acc.ranges) = CountsOf(acc.ranges) /\ CountsOf(acc.ranges) \in Nat
  <2> HIDE DEF R
  <2> QED
    BY <1>4, <1>16, CountsWeigh
<1>18. ChunksUpTo(s, p) \in Nat /\ ChunksUpTo(s, Len(s)) \in Nat /\ ChunksUpTo(s, p) <= ChunksUpTo(s, Len(s))
  BY ChunksCounted
<1>19. CountsOf(acc.ranges) <= ChunksUpTo(s, Len(s))
  BY <1>16, <1>17, <1>18
<1> HIDE DEF R
<1> QED
  BY <1>1, <1>4, <1>15, <1>16, <1>19 DEF AtMost

\* The same of a section of an EWF2 segment.
LEMMA TrailingAt ==
    ASSUME NEW s, NEW file, NEW idx, Indexed(s, file, idx), NEW chunks, Tabled2(s, chunks),
           NEW sections \in Seq(Trailing(file)), Intact(sections), NEW n \in DOMAIN sections
    PROVE  /\ sections[n].at \in DOMAIN file.at /\ idx[sections[n].at] \in DOMAIN s
           /\ IsDescriptor(s[idx[sections[n].at]], sections[n].type)
           /\ Found(file, sections[n].data, "table") => file.at[sections[n].data].count = chunks
<1>1. sections[n] \in Trailing(file) /\ sections[n].type # "broken"
  BY DEF Intact
<1>2. PICK at \in Descriptors(file) : sections[n] = TrailingSection(file, at)
  BY <1>1 DEF Trailing, Broken
<1>3. /\ sections[n].at = at /\ sections[n].type = file.at[at].type
      /\ at \in DOMAIN file.at /\ file.at[at].is = "descriptor"
  BY <1>2 DEF TrailingSection, Descriptors
<1>4. idx[at] \in DOMAIN s /\ s[idx[at]] = file.at[at]
  BY <1>3 DEF Indexed
<1>5. PICK data : data = sections[n].data
  OBVIOUS
<1>6. ASSUME Found(file, data, "table") PROVE file.at[data].count = chunks
  <2>1. data \in DOMAIN file.at /\ file.at[data].is = "table"
    BY <1>6 DEF Found
  <2>2. idx[data] \in DOMAIN s /\ s[idx[data]] = file.at[data]
    BY <2>1 DEF Indexed
  <2> QED
    BY <2>1, <2>2 DEF Tabled2
<1> QED
  BY <1>3, <1>4, <1>5, <1>6 DEF IsDescriptor

\* A section of an EWF2 segment adds its table's range, a broken one or none.
LEMMA RangeAdded2 ==
    ASSUME NEW ranges, NEW file, NEW sec, NEW segment
    PROVE  /\ sec.type # "table" => AddRangeEwf2(ranges, file, sec, segment) = ranges
           /\ sec.type = "table" =>
                \/ AddRangeEwf2(ranges, file, sec, segment) = ranges
                \/ AddRangeEwf2(ranges, file, sec, segment) = Append(ranges, BadRange)
                \/ /\ Found(file, sec.data, "table")
                   /\ AddRangeEwf2(ranges, file, sec, segment)
                        = Append(ranges, [first |-> file.at[sec.data].first,
                                          count |-> file.at[sec.data].count, broken |-> FALSE,
                                          segment |-> segment, entries |-> sec.data])
BY Zenon DEF AddRangeEwf2

\* parse_ewf2_ranges(): the ranges of a segment are of no more chunks than it has.
LEMMA RangesCounted2 ==
    ASSUME NEW s, NEW file, NEW idx, Indexed(s, file, idx), NEW chunks \in Nat, Tabled2(s, chunks),
           DOMAIN s = 1..Len(s), Len(s) \in Nat,
           NEW sections \in Seq(Trailing(file)), Intact(sections), Rising(sections),
           NEW segment
    PROVE  AtMost(RangesEwf2(file, sections, segment), ChunksUpTo(s, Len(s)))
<1> DEFINE N == Len(sections)
           type(n) == sections[n].type
           range(n) == [first |-> file.at[sections[n].data].first,
                        count |-> file.at[sections[n].data].count, broken |-> FALSE,
                        segment |-> segment, entries |-> sections[n].data]
           R == {BadRange} \cup {range(n) : n \in {k \in 1..N : Found(file, sections[k].data, "table")}}
           V == Seq(R)
           upTo[n \in 0..Len(sections)] ==
            IF n = 0 THEN <<>> ELSE AddRangeEwf2(upTo[n - 1], file, sections[n], segment)
           Body(f, n) == IF n = 0 THEN <<>> ELSE AddRangeEwf2(f[n - 1], file, sections[n], segment)
           place(n) == idx[sections[n].at]
<1>1. RangesEwf2(file, sections, segment) = upTo[N]
  BY DEF RangesEwf2
<1>2. N \in Nat /\ DOMAIN sections = 1..N
  OBVIOUS
<1>3. ASSUME NEW n \in 1..N
      PROVE  /\ sections[n].at \in DOMAIN file.at /\ place(n) \in 1..Len(s)
             /\ IsDescriptor(s[place(n)], type(n))
             /\ Found(file, sections[n].data, "table") => range(n).count = chunks
  <2>1. n \in DOMAIN sections
    BY <1>2
  <2> QED
    BY <2>1, TrailingAt
<1>4. \A r \in R : r.count = 0 \/ r.count = chunks
  BY <1>3 DEF BadRange
<1>5. \A r \in R : r.count \in Nat
  <2> HIDE DEF R
  <2> QED
    BY <1>4
<1>6. ASSUME NEW n \in 1..N, NEW acc
      PROVE  /\ type(n) # "table" => AddRangeEwf2(acc, file, sections[n], segment) = acc
             /\ type(n) = "table" =>
                  \/ AddRangeEwf2(acc, file, sections[n], segment) = acc
                  \/ \E r \in R : AddRangeEwf2(acc, file, sections[n], segment) = Append(acc, r)
  <2>1. PICK sec : sec = sections[n]
    OBVIOUS
  <2>2. sec.type # "table" => AddRangeEwf2(acc, file, sec, segment) = acc
    BY RangeAdded2
  <2>3. ASSUME sec.type = "table"
        PROVE  \/ AddRangeEwf2(acc, file, sec, segment) = acc
               \/ \E r \in R : AddRangeEwf2(acc, file, sec, segment) = Append(acc, r)
    <3>1. BadRange \in R
      OBVIOUS
    <3>2. Found(file, sec.data, "table") => range(n) \in R
      BY <2>1
    <3>3. \/ AddRangeEwf2(acc, file, sec, segment) = acc
          \/ AddRangeEwf2(acc, file, sec, segment) = Append(acc, BadRange)
          \/ /\ Found(file, sec.data, "table")
             /\ AddRangeEwf2(acc, file, sec, segment)
                        = Append(acc, [first |-> file.at[sec.data].first,
                                          count |-> file.at[sec.data].count, broken |-> FALSE,
                                          segment |-> segment, entries |-> sec.data])
      BY <2>3, RangeAdded2
    <3>4. range(n) = [first |-> file.at[sec.data].first,
                                          count |-> file.at[sec.data].count, broken |-> FALSE,
                                          segment |-> segment, entries |-> sec.data]
      BY <2>1
    <3> HIDE DEF R, range
    <3> QED
      BY <3>1, <3>2, <3>3, <3>4
  <2> HIDE DEF R
  <2> QED
    BY <2>1, <2>2, <2>3
<1> HIDE DEF R
<1>7. ASSUME NEW n \in 1..N, NEW acc \in V PROVE AddRangeEwf2(acc, file, sections[n], segment) \in V
  <2>1. acc \in Seq(R)
    OBVIOUS
  <2>2. \A r \in R : Append(acc, r) \in Seq(R)
    BY <2>1
  <2>3. PICK next : next = AddRangeEwf2(acc, file, sections[n], segment)
    OBVIOUS
  <2>4. next = acc \/ \E r \in R : next = Append(acc, r)
    BY <1>6, <2>3
  <2>5. next \in Seq(R)
    BY <2>1, <2>2, <2>4
  <2> QED
    BY <2>3, <2>5
<1>8. \E f : f = [n \in 0..N |-> Body(f, n)]
  <2> DEFINE base == [n \in 0..N |-> <<>>]
             succ == [n \in 0..N |-> n - 1]
             step == [n \in 0..N |-> [acc \in V |-> IF n = 0 THEN acc
                                        ELSE AddRangeEwf2(acc, file, sections[n], segment)]]
             m == [n \in 0..N |-> n]
             ends == {0}
             D == 0..N
  <2>1. base \in ValuesOn(D, V)
    <3>1. <<>> \in V
      OBVIOUS
    <3> QED
    BY <3>1 DEF ValuesOn
  <2>2. step \in StepsOn(D, V)
    <3>1. ASSUME NEW n \in D, NEW acc \in V
          PROVE (IF n = 0 THEN acc ELSE AddRangeEwf2(acc, file, sections[n], segment)) \in V
      BY <1>2, <1>7
    <3> HIDE DEF V
    <3> QED
      BY <3>1 DEF StepsOn
  <2>3. Onward(D, N, ends, succ, m)
    BY <1>2 DEF Onward
  <2>a. /\ \A n \in D : base[n] = <<>>
        /\ \A n \in D : n # 0 => n - 1 \in D /\ succ[n] = n - 1
        /\ \A n \in D, acc \in V :
              n # 0 => step[n][acc] = AddRangeEwf2(acc, file, sections[n], segment)
    BY <1>2
  <2> HIDE DEF base, succ, step, m, ends, D, V
  <2>4. PICK f \in [D -> V] : f = [d \in D |-> IF d \in ends THEN base[d] ELSE step[d][f[succ[d]]]]
    BY <1>2, <2>1, <2>2, <2>3, RecursionOn
  <2>5. ASSUME NEW n \in D PROVE f[n] = Body(f, n)
    <3>1. f[n] = IF n \in ends THEN base[n] ELSE step[n][f[succ[n]]]
      BY <2>4
    <3>2. CASE n = 0
      BY <2>a, <3>1, <3>2 DEF ends
    <3>3. CASE n # 0
      <4>1. n \notin ends /\ succ[n] = n - 1 /\ f[n - 1] \in V
        BY <2>a, <3>3 DEF ends
      <4> QED
        BY <2>a, <3>1, <3>3, <4>1
    <3> QED
      BY <3>2, <3>3
  <2>6. f = [n \in D |-> f[n]]
    BY <2>4
  <2> HIDE DEF Body
  <2>7. f = [n \in D |-> Body(f, n)]
    BY <2>5, <2>6, Zenon
  <2> QED
    BY <2>7 DEF D
<1>9. \A n \in 0..N : upTo[n] = Body(upTo, n)
  <2>1. \E g : g = [n \in 0..N |-> Body(g, n)]
    <3> HIDE DEF Body
    <3> QED
      BY <1>8, Zenon
  <2>2. upTo = [n \in 0..N |-> Body(upTo, n)]
    BY <2>1
  <2> HIDE DEF upTo, Body
  <2> QED
    BY <2>2, Zenon
<1> HIDE DEF upTo
<1>10. upTo[0] = <<>> /\ \A n \in 1..N : upTo[n] = AddRangeEwf2(upTo[n - 1], file, sections[n], segment)
  BY <1>2, <1>9
<1>11. ASSUME NEW k \in 1..N, NEW l \in 1..N, k < l PROVE place(k) < place(l)
  <2>1. sections[k].at < sections[l].at
    BY <1>2, <1>11 DEF Rising, Intact
  <2> QED
    BY <1>3, <2>1 DEF Indexed
<1> DEFINE w == Counts(R)
           Behind(n, acc, p) ==
              /\ \A k \in (n + 1)..N : p < place(k)
              /\ Weight(w, acc) <= ChunksUpTo(s, p)
              /\ p # 0 => IsDescriptor(s[p], "table")
           T == {n \in Nat : n <= N =>
                    upTo[n] \in V /\ \E p \in 0..Len(s) : Behind(n, upTo[n], p)}
<1>12. 0 \in T
  <2>1. Behind(0, <<>>, 0)
    <3>1. Weight(w, <<>>) = 0 /\ ChunksUpTo(s, 0) \in Nat
      BY WeightEmpty, ChunksCounted
    <3>2. \A k \in (0 + 1)..N : 0 < place(k)
      BY <1>3
    <3> HIDE DEF w
    <3> QED
      BY <3>1, <3>2
  <2> HIDE DEF Behind
  <2>2. <<>> \in V /\ 0 \in 0..Len(s)
    OBVIOUS
  <2>3. upTo[0] = <<>>
    BY <1>10
  <2> HIDE DEF V
  <2>4. \E p \in 0..Len(s) : Behind(0, upTo[0], p)
    BY <2>1, <2>2, <2>3
  <2> QED
    BY <2>2, <2>3, <2>4
<1>13. ASSUME NEW n \in Nat, n \in T PROVE n + 1 \in T
  <2> HIDE DEF Behind
  <2> SUFFICES ASSUME n + 1 <= N
               PROVE  upTo[n + 1] \in V /\ \E p \in 0..Len(s) : Behind(n + 1, upTo[n + 1], p)
    OBVIOUS
  <2> DEFINE m == n + 1
             j == place(m)
  <2>1. m \in 1..N /\ m - 1 = n
    BY <1>2
  <2>2. PICK acc \in V, p \in 0..Len(s) : acc = upTo[n] /\ Behind(n, acc, p)
    BY <1>2, <1>13
  <2>3. PICK next \in V : next = upTo[m] /\ next = AddRangeEwf2(acc, file, sections[m], segment)
    BY <1>7, <1>10, <2>1, <2>2
  <2>4. \A k \in (m + 1)..N : k \in (n + 1)..N /\ k \in 1..N /\ m < k
    BY <2>1
  <2>b. /\ \A k \in (n + 1)..N : p < place(k)
        /\ Weight(w, acc) <= ChunksUpTo(s, p)
        /\ p # 0 => IsDescriptor(s[p], "table")
    BY <2>2 DEF Behind
  <2>c. j = place(m)
    OBVIOUS
  <2> HIDE DEF j, m, w, place, type, range
  <2>d. m \in (n + 1)..N
    BY <1>2, <2>1
  <2>5. p < j /\ j \in 1..Len(s) /\ IsDescriptor(s[j], type(m))
    BY <1>3, <2>1, <2>b, <2>c, <2>d
  <2>6. \A k \in (m + 1)..N : p < place(k) /\ j < place(k)
    BY <1>11, <2>1, <2>b, <2>c, <2>4
  <2>7. \E q \in 0..Len(s) : Behind(m, next, q)
    <3>1. CASE next = acc
      BY <2>b, <2>6, <3>1 DEF Behind
    <3>2. CASE next # acc
      <4>1. type(m) = "table"
        BY <1>6, <2>1, <2>3, <3>2
      <4>2. PICK r \in R : next = Append(acc, r)
        BY <1>6, <2>1, <2>3, <3>2
      <4>3. /\ ChunksUpTo(s, p) \in Nat /\ ChunksUpTo(s, j) \in Nat
            /\ ChunksUpTo(s, p) + chunks <= ChunksUpTo(s, j)
        BY <2>b, <2>5, <4>1, TableCounted2
      <4>4. Weight(w, acc) \in Nat /\ Weight(w, next) = Weight(w, acc) + r.count
        BY <1>5, <4>2, RangeCounted DEF w
      <4>5. r.count = 0 \/ r.count = chunks
        BY <1>4
      <4>6. Weight(w, next) <= ChunksUpTo(s, j)
        BY <2>b, <4>3, <4>4, <4>5
      <4> QED
        BY <2>5, <2>6, <4>1, <4>6 DEF Behind
    <3> QED
      BY <3>1, <3>2
  <2> QED
    BY <2>3, <2>7 DEF m
<1> HIDE DEF T, Behind
<1>14. Nat \subseteq T
  BY <1>12, <1>13, SetInduction
<1>15. PICK acc \in V, p \in 0..Len(s) : acc = upTo[N] /\ Behind(N, acc, p)
  <2>1. N \in T /\ N <= N
    BY <1>2, <1>14
  <2>2. upTo[N] \in V /\ \E p \in 0..Len(s) : Behind(N, upTo[N], p)
    BY <2>1 DEF T
  <2> QED
    BY <2>2, Zenon
<1>16. Weight(w, acc) <= ChunksUpTo(s, p)
  BY <1>15 DEF Behind
<1>17. Weight(w, acc) = CountsOf(acc) /\ CountsOf(acc) \in Nat
  BY <1>5, CountsWeigh
<1>18. ChunksUpTo(s, p) \in Nat /\ ChunksUpTo(s, Len(s)) \in Nat /\ ChunksUpTo(s, p) <= ChunksUpTo(s, Len(s))
  BY ChunksCounted
<1>19. CountsOf(acc) <= ChunksUpTo(s, Len(s))
  BY <1>16, <1>17, <1>18
<1> QED
  BY <1>1, <1>5, <1>15, <1>19 DEF AtMost

----------------------------------------------------------------------------
(* The segments the writers lay out                                        *)

\* What a media section says.
SameMedia(s, sectors, chunk) ==
    \A i \in DOMAIN s : s[i].is \in {"volume", "device"} =>
        s[i].sectors = sectors /\ s[i].chunk = chunk

\* A sequence, of whatever.
Listed(s) == s \in Seq(Range(s))

\* A run of EWF1 pieces whose tables count the chunks before them.
Laid1(s, sectors, chunk) == Listed(s) /\ Tabled1(s) /\ SameMedia(s, sectors, chunk)

\* A sequence is one over what is in it.
LEMMA OwnRange ==
    ASSUME NEW P, NEW t \in Seq(P)
    PROVE  Listed(t) /\ DOMAIN t = 1..Len(t) /\ Len(t) \in Nat
<1>1. DOMAIN t = 1..Len(t) /\ t \in [1..Len(t) -> P] /\ Len(t) \in Nat
  OBVIOUS
<1>2. t \in [1..Len(t) -> Range(t)]
  BY <1>1 DEF Range
<1> QED
  BY <1>1, <1>2 DEF Listed

\* The pieces of one sequence behind those of another.
After(s, a, b) ==
    /\ Len(a) \in Nat /\ Len(b) \in Nat /\ Len(s) = Len(a) + Len(b)
    /\ DOMAIN a = 1..Len(a) /\ DOMAIN b = 1..Len(b) /\ DOMAIN s = 1..Len(s)
    /\ \A i \in 1..Len(a) : s[i] = a[i]
    /\ \A i \in 1..Len(b) : s[i + Len(a)] = b[i]
    /\ \A i \in 1..Len(s) : i \in 1..Len(a) \/ i - Len(a) \in 1..Len(b)
    /\ Listed(s)

\* Where the pieces of a concatenation are.
LEMMA PiecesBehind ==
    ASSUME NEW a, NEW b, Listed(a), Listed(b), NEW s, s = a \o b
    PROVE  After(s, a, b)
<1>1. PICK P : P = Range(a) \cup Range(b)
  OBVIOUS
<1>2. a \in Seq(P) /\ b \in Seq(P)
  BY <1>1 DEF Listed
<1>3. s \in Seq(P)
  BY <1>2
<1>4. Len(a) \in Nat /\ Len(b) \in Nat /\ DOMAIN a = 1..Len(a) /\ DOMAIN b = 1..Len(b)
  BY <1>2
<1>5. /\ Len(s) = Len(a) + Len(b)
      /\ \A i \in 1..Len(a) + Len(b) : s[i] = IF i <= Len(a) THEN a[i] ELSE b[i - Len(a)]
  BY <1>2, ConcatProperties
<1>b. PICK t \in Seq(P) : t = s
  BY <1>3
<1>8. Listed(s) /\ DOMAIN s = 1..Len(s)
  BY <1>b, OwnRange
<1>9. \A i \in 1..Len(b) : s[i + Len(a)] = b[i]
  <2> SUFFICES ASSUME NEW i \in 1..Len(b) PROVE s[i + Len(a)] = b[i]
    OBVIOUS
  <2>1. i + Len(a) \in 1..Len(a) + Len(b) /\ ~(i + Len(a) <= Len(a)) /\ (i + Len(a)) - Len(a) = i
    BY <1>4
  <2>2. s[i + Len(a)] = b[(i + Len(a)) - Len(a)]
    BY <1>5, <2>1
  <2> QED
    BY <2>1, <2>2
<1>10. \A i \in 1..Len(a) : s[i] = a[i]
  BY <1>4, <1>5
<1>11. \A i \in 1..Len(s) : i \in 1..Len(a) \/ i - Len(a) \in 1..Len(b)
  BY <1>4, <1>5
<1> QED
  BY <1>4, <1>5, <1>8, <1>9, <1>10, <1>11 DEF After

\* A run of chunks stays one.
LEMMA RunBehind ==
    ASSUME NEW a, NEW b, Listed(a), Listed(b), NEW s, s = a \o b, NEW c
    PROVE  /\ \A i \in 1..Len(a) : ChunkRun(a, i, c) => ChunkRun(s, i, c)
           /\ \A i \in 1..Len(b) : ChunkRun(b, i, c) => ChunkRun(s, i + Len(a), c)
<1>1. /\ Len(a) \in Nat /\ Len(b) \in Nat /\ Len(s) = Len(a) + Len(b)
      /\ \A i \in 1..Len(a) : s[i] = a[i]
      /\ \A i \in 1..Len(b) : s[i + Len(a)] = b[i]
  BY PiecesBehind DEF After
<1>2. ASSUME NEW i \in 1..Len(a), ChunkRun(a, i, c) PROVE ChunkRun(s, i, c)
  <2>1. c \in Nat /\ c < i /\ \A k \in (i - c)..(i - 1) : a[k].is = "chunk"
    BY <1>2 DEF ChunkRun
  <2>2. \A k \in (i - c)..(i - 1) : k \in 1..Len(a)
    BY <1>1, <2>1
  <2> QED
    BY <1>1, <2>1, <2>2 DEF ChunkRun
<1>3. ASSUME NEW i \in 1..Len(b), ChunkRun(b, i, c) PROVE ChunkRun(s, i + Len(a), c)
  <2>1. c \in Nat /\ c < i /\ \A k \in (i - c)..(i - 1) : b[k].is = "chunk"
    BY <1>3 DEF ChunkRun
  <2>2. ASSUME NEW k \in ((i + Len(a)) - c)..((i + Len(a)) - 1) PROVE s[k].is = "chunk"
    <3>1. PICK j \in (i - c)..(i - 1) : k = j + Len(a)
      <4>1. k - Len(a) \in (i - c)..(i - 1) /\ k = (k - Len(a)) + Len(a)
        BY <1>1, <2>1
      <4> QED
        BY <4>1
    <3>2. j \in 1..Len(b)
      BY <1>1, <2>1
    <3> QED
      BY <1>1, <2>1, <3>1, <3>2
  <2>3. c < i + Len(a)
    BY <1>1, <2>1
  <2> QED
    BY <2>1, <2>2, <2>3 DEF ChunkRun
<1> QED
  BY <1>2, <1>3

\* Media sections that say the same in both parts say it in all.
LEMMA MediaBehind ==
    ASSUME NEW a, NEW b, Listed(a), Listed(b), NEW s, s = a \o b,
           NEW sectors, NEW chunk, SameMedia(a, sectors, chunk), SameMedia(b, sectors, chunk)
    PROVE  SameMedia(s, sectors, chunk)
<1>1. /\ Len(a) \in Nat /\ Len(b) \in Nat /\ Len(s) = Len(a) + Len(b)
      /\ DOMAIN a = 1..Len(a) /\ DOMAIN b = 1..Len(b) /\ DOMAIN s = 1..Len(s)
      /\ \A i \in 1..Len(a) : s[i] = a[i]
      /\ \A i \in 1..Len(b) : s[i + Len(a)] = b[i]
      /\ \A i \in 1..Len(s) : i \in 1..Len(a) \/ i - Len(a) \in 1..Len(b)
  BY PiecesBehind DEF After
<1> SUFFICES ASSUME NEW i \in 1..Len(s), s[i].is \in {"volume", "device"}
             PROVE  s[i].sectors = sectors /\ s[i].chunk = chunk
  BY <1>1 DEF SameMedia
<1>2. CASE i \in 1..Len(a)
  BY <1>1, <1>2 DEF SameMedia
<1>3. CASE i - Len(a) \in 1..Len(b)
  <2>1. PICK j \in 1..Len(b) : i = j + Len(a)
    <3>1. i = (i - Len(a)) + Len(a)
      BY <1>1
    <3> QED
      BY <1>3, <3>1
  <2>2. s[i] = b[j] /\ j \in DOMAIN b
    BY <1>1, <2>1
  <2> QED
    BY <2>2 DEF SameMedia
<1> QED
  BY <1>1, <1>2, <1>3

\* Pieces of an EWF1 segment behind others.
LEMMA Laid1Concat ==
    ASSUME NEW a, NEW b, NEW sectors, NEW chunk,
           Laid1(a, sectors, chunk), Laid1(b, sectors, chunk)
    PROVE  Laid1(a \o b, sectors, chunk)
<1>1. PICK s : s = a \o b
  OBVIOUS
<1>a. Listed(a) /\ Listed(b) /\ Tabled1(a) /\ Tabled1(b)
  BY DEF Laid1
<1>2. /\ Len(a) \in Nat /\ Len(b) \in Nat /\ Len(s) = Len(a) + Len(b)
      /\ DOMAIN a = 1..Len(a) /\ DOMAIN b = 1..Len(b) /\ DOMAIN s = 1..Len(s)
      /\ \A i \in 1..Len(a) : s[i] = a[i]
      /\ \A i \in 1..Len(b) : s[i + Len(a)] = b[i]
      /\ \A i \in 1..Len(s) : i \in 1..Len(a) \/ i - Len(a) \in 1..Len(b)
  BY <1>1, <1>a, PiecesBehind DEF After
<1>b. Listed(s)
  BY <1>1, <1>a, PiecesBehind DEF After
<1>3. SameMedia(s, sectors, chunk)
  BY <1>1, <1>a, MediaBehind DEF Laid1
<1>4. \A c : /\ \A i \in 1..Len(a) : ChunkRun(a, i, c) => ChunkRun(s, i, c)
             /\ \A i \in 1..Len(b) : ChunkRun(b, i, c) => ChunkRun(s, i + Len(a), c)
  BY <1>1, <1>a, RunBehind
<1>5. ASSUME NEW i \in 1..Len(s)
      PROVE  /\ s[i].is = "descriptor" => s[i].len = Desc1 /\ s[i].size \in Nat \ {0}
             /\ IsDescriptor(s[i], "table") =>
                  /\ i + 1 \in DOMAIN s /\ s[i + 1].is = "table" /\ s[i + 1].len \in Nat \ {0}
                  /\ ChunkRun(s, i, s[i + 1].count)
             /\ IsDescriptor(s[i], "table2") =>
                  /\ i - 2 \in DOMAIN s /\ i + 1 \in DOMAIN s
                  /\ IsDescriptor(s[i - 2], "table") /\ s[i + 1] = s[i - 1]
  <2>1. CASE i \in 1..Len(a)
    <3>1. s[i] = a[i]
      BY <1>2, <2>1
    <3>2. a[i].is = "descriptor" => a[i].len = Desc1 /\ a[i].size \in Nat \ {0}
      BY <1>2, <1>a, <2>1 DEF Tabled1
    <3>3. ASSUME IsDescriptor(a[i], "table")
          PROVE  /\ i + 1 \in DOMAIN s /\ s[i + 1].is = "table" /\ s[i + 1].len \in Nat \ {0}
                 /\ ChunkRun(s, i, s[i + 1].count)
      <4>1. /\ i + 1 \in 1..Len(a) /\ a[i + 1].is = "table" /\ a[i + 1].len \in Nat \ {0}
            /\ ChunkRun(a, i, a[i + 1].count)
        BY <1>2, <1>a, <2>1, <3>3 DEF Tabled1
      <4>2. i + 1 \in 1..Len(s) /\ s[i + 1] = a[i + 1]
        BY <1>2, <4>1
      <4> QED
        BY <1>2, <1>4, <2>1, <4>1, <4>2
    <3>4. ASSUME IsDescriptor(a[i], "table2")
          PROVE  /\ i - 2 \in DOMAIN s /\ i + 1 \in DOMAIN s
                 /\ IsDescriptor(s[i - 2], "table") /\ s[i + 1] = s[i - 1]
      <4>1. /\ i - 2 \in 1..Len(a) /\ i + 1 \in 1..Len(a)
            /\ IsDescriptor(a[i - 2], "table") /\ a[i + 1] = a[i - 1]
        BY <1>2, <1>a, <2>1, <3>4 DEF Tabled1
      <4>2. i - 1 \in 1..Len(a) /\ i - 2 \in 1..Len(s) /\ i + 1 \in 1..Len(s)
        BY <1>2, <2>1, <4>1
      <4> QED
        BY <1>2, <4>1, <4>2
    <3> QED
      BY <3>1, <3>2, <3>3, <3>4
  <2>2. CASE i - Len(a) \in 1..Len(b)
    <3>1. PICK j \in 1..Len(b) : i = j + Len(a)
      <4>1. i = (i - Len(a)) + Len(a)
        BY <1>2
      <4> QED
        BY <2>2, <4>1
    <3>2. s[i] = b[j]
      BY <1>2, <3>1
    <3>3. b[j].is = "descriptor" => b[j].len = Desc1 /\ b[j].size \in Nat \ {0}
      BY <1>2, <1>a DEF Tabled1
    <3>4. ASSUME IsDescriptor(b[j], "table")
          PROVE  /\ i + 1 \in DOMAIN s /\ s[i + 1].is = "table" /\ s[i + 1].len \in Nat \ {0}
                 /\ ChunkRun(s, i, s[i + 1].count)
      <4>1. /\ j + 1 \in 1..Len(b) /\ b[j + 1].is = "table" /\ b[j + 1].len \in Nat \ {0}
            /\ ChunkRun(b, j, b[j + 1].count)
        BY <1>2, <1>a, <3>4 DEF Tabled1
      <4>2. i + 1 \in 1..Len(s) /\ i + 1 = (j + 1) + Len(a)
        BY <1>2, <3>1, <4>1
      <4>3. s[i + 1] = b[j + 1]
        BY <1>2, <4>1, <4>2
      <4> QED
        BY <1>2, <1>4, <3>1, <4>1, <4>2, <4>3
    <3>5. ASSUME IsDescriptor(b[j], "table2")
          PROVE  /\ i - 2 \in DOMAIN s /\ i + 1 \in DOMAIN s
                 /\ IsDescriptor(s[i - 2], "table") /\ s[i + 1] = s[i - 1]
      <4>1. /\ j - 2 \in 1..Len(b) /\ j + 1 \in 1..Len(b)
            /\ IsDescriptor(b[j - 2], "table") /\ b[j + 1] = b[j - 1]
        BY <1>2, <1>a, <3>5 DEF Tabled1
      <4>2. /\ j - 1 \in 1..Len(b) /\ i - 2 \in 1..Len(s) /\ i + 1 \in 1..Len(s)
            /\ i + 1 = (j + 1) + Len(a) /\ i - 2 = (j - 2) + Len(a) /\ i - 1 = (j - 1) + Len(a)
        BY <1>2, <3>1, <4>1
      <4>3. s[i + 1] = b[j + 1] /\ s[i - 2] = b[j - 2] /\ s[i - 1] = b[j - 1]
        BY <1>2, <4>1, <4>2
      <4> QED
        BY <1>2, <4>1, <4>2, <4>3
    <3> QED
      BY <3>2, <3>3, <3>4, <3>5
  <2> QED
    BY <1>2, <2>1, <2>2
<1>6. Tabled1(s)
  BY <1>2, <1>5 DEF Tabled1
<1> QED
  BY <1>1, <1>b, <1>3, <1>6 DEF Laid1

\* Pieces that are no tables.
Plain1(p, sectors, chunk) ==
    /\ p.is = "descriptor" =>
          p.len = Desc1 /\ p.size \in Nat \ {0} /\ p.type \notin {"table", "table2"}
    /\ p.is \in {"volume", "device"} => p.sectors = sectors /\ p.chunk = chunk

\* Pieces that are neither chunks nor tables are laid out by themselves.
LEMMA Laid1Plain ==
    ASSUME NEW s, NEW sectors, NEW chunk, Listed(s),
           \A i \in DOMAIN s : Plain1(s[i], sectors, chunk)
    PROVE  Laid1(s, sectors, chunk)
BY DEF Laid1, Plain1, Tabled1, SameMedia, IsDescriptor

\* One such piece
LEMMA Laid1One ==
    ASSUME NEW p, NEW sectors, NEW chunk, Plain1(p, sectors, chunk)
    PROVE  Laid1(<<p>>, sectors, chunk)
<1>1. Listed(<<p>>) /\ \A i \in DOMAIN <<p>> : <<p>>[i] = p
  BY DEF Range, Listed
<1> QED
  BY <1>1, Laid1Plain

\* Two such pieces
LEMMA Laid1Two ==
    ASSUME NEW p, NEW q, NEW sectors, NEW chunk,
           Plain1(p, sectors, chunk), Plain1(q, sectors, chunk)
    PROVE  Laid1(<<p, q>>, sectors, chunk)
<1>1. Laid1(<<p>>, sectors, chunk) /\ Laid1(<<q>>, sectors, chunk)
  BY Laid1One
<1> QED
  BY <1>1, Laid1Concat, TwoOnes

\* No piece
LEMMA Laid1None ==
    ASSUME NEW sectors, NEW chunk
    PROVE  Laid1(<<>>, sectors, chunk)
<1>1. Listed(<<>>) /\ DOMAIN <<>> = {}
  BY DEF Range, Listed
<1> QED
  BY <1>1, Laid1Plain

\* The pieces of a group: sectors, chunks, the table and, maybe, it again.
Shaped(s, n, l, sectors, chunk) ==
    /\ Listed(s) /\ l \in {n + 3, n + 5} /\ DOMAIN s = 1..l
    /\ Plain1(s[1], sectors, chunk)
    /\ \A k \in 1..n : s[k + 1].is = "chunk"
    /\ IsDescriptor(s[n + 2], "table") /\ s[n + 2].len = Desc1 /\ s[n + 2].size \in Nat \ {0}
    /\ s[n + 3].is = "table" /\ s[n + 3].count = n /\ s[n + 3].len \in Nat \ {0}
    /\ l = n + 5 =>
          /\ IsDescriptor(s[n + 4], "table2") /\ s[n + 4].len = Desc1
          /\ s[n + 4].size \in Nat \ {0} /\ s[n + 5] = s[n + 3]

\* Which piece of a group's run a place is.
LEMMA ShapedPlaces ==
    ASSUME NEW n \in Nat, NEW l \in Nat, l \in {n + 3, n + 5}, NEW i \in 1..l
    PROVE  \/ i = 1 \/ i - 1 \in 1..n \/ i = n + 2 \/ i = n + 3
           \/ l = n + 5 /\ (i = n + 4 \/ i = n + 5)
OBVIOUS

\* The pieces of a group: its chunks, then a table of them, and maybe a second.
LEMMA LaidTables ==
    ASSUME NEW s, NEW n \in Nat, NEW l \in Nat, NEW sectors, NEW chunk,
           Shaped(s, n, l, sectors, chunk)
    PROVE  Laid1(s, sectors, chunk)
<1> USE DEF Shaped
<1>0. l \in {n + 3, n + 5}
  OBVIOUS
<1>1. \A i \in 1..l :
         \/ i = 1 \/ i - 1 \in 1..n \/ i = n + 2 \/ i = n + 3
         \/ l = n + 5 /\ (i = n + 4 \/ i = n + 5)
  <2> HIDE DEF Shaped
  <2> QED
    BY <1>0, ShapedPlaces
<1>2. \A i \in 1..l : i - 1 \in 1..n => s[i].is = "chunk"
  <2> SUFFICES ASSUME NEW i \in 1..l, i - 1 \in 1..n PROVE s[i].is = "chunk"
    OBVIOUS
  <2>1. (i - 1) + 1 = i
    OBVIOUS
  <2> QED
    BY <2>1
<1>3. ChunkRun(s, n + 2, n)
  <2> SUFFICES ASSUME NEW k \in ((n + 2) - n)..((n + 2) - 1) PROVE s[k].is = "chunk"
    BY DEF ChunkRun
  <2>1. k \in 1..l /\ k - 1 \in 1..n
    OBVIOUS
  <2> QED
    BY <1>2, <2>1
<1>4. ASSUME NEW i \in 1..l
      PROVE  /\ s[i].is = "descriptor" => s[i].len = Desc1 /\ s[i].size \in Nat \ {0}
             /\ IsDescriptor(s[i], "table") => i = n + 2
             /\ IsDescriptor(s[i], "table2") => l = n + 5 /\ i = n + 4
             /\ s[i].is \in {"volume", "device"} => s[i].sectors = sectors /\ s[i].chunk = chunk
  <2>1. CASE i = 1
    BY <2>1 DEF Plain1, IsDescriptor
  <2>2. CASE i - 1 \in 1..n
    BY <1>2, <2>2 DEF IsDescriptor
  <2>3. CASE i = n + 2
    BY <2>3 DEF IsDescriptor
  <2>4. CASE i = n + 3
    BY <2>4 DEF IsDescriptor
  <2>5. CASE l = n + 5 /\ i = n + 4
    BY <2>5 DEF IsDescriptor
  <2>6. CASE l = n + 5 /\ i = n + 5
    BY <2>6 DEF IsDescriptor
  <2> QED
    BY <1>1, <2>1, <2>2, <2>3, <2>4, <2>5, <2>6
<1>5. SameMedia(s, sectors, chunk)
  BY <1>4 DEF SameMedia
<1>a. \A i \in 1..l : i = n + 2 => i + 1 = n + 3 /\ n + 3 \in 1..l
  OBVIOUS
<1>6. ASSUME NEW i \in 1..l
      PROVE  /\ IsDescriptor(s[i], "table") =>
                  /\ i + 1 \in DOMAIN s /\ s[i + 1].is = "table" /\ s[i + 1].len \in Nat \ {0}
                  /\ ChunkRun(s, i, s[i + 1].count)
             /\ IsDescriptor(s[i], "table2") =>
                  /\ i - 2 \in DOMAIN s /\ i + 1 \in DOMAIN s
                  /\ IsDescriptor(s[i - 2], "table") /\ s[i + 1] = s[i - 1]
  <2>1. ASSUME IsDescriptor(s[i], "table")
        PROVE  /\ i + 1 \in DOMAIN s /\ s[i + 1].is = "table" /\ s[i + 1].len \in Nat \ {0}
               /\ ChunkRun(s, i, s[i + 1].count)
    <3>1. i = n + 2 /\ i + 1 = n + 3 /\ n + 3 \in 1..l
      BY <1>4, <1>a, <2>1
    <3> QED
      BY <1>3, <3>1
  <2>2. ASSUME IsDescriptor(s[i], "table2")
        PROVE  /\ i - 2 \in DOMAIN s /\ i + 1 \in DOMAIN s
               /\ IsDescriptor(s[i - 2], "table") /\ s[i + 1] = s[i - 1]
    <3>1. l = n + 5 /\ i = n + 4
      BY <1>4, <2>2
    <3>2. i - 2 = n + 2 /\ i + 1 = n + 5 /\ i - 1 = n + 3 /\ n + 2 \in 1..l /\ n + 5 \in 1..l
      BY <3>1
    <3> QED
      BY <3>1, <3>2
  <2> QED
    BY <2>1, <2>2
<1>7. Tabled1(s)
  BY <1>4, <1>6 DEF Tabled1
<1> QED
  BY <1>5, <1>7 DEF Laid1

\* The chunks as pieces.
LEMMA ChunksArePieces ==
    ASSUME NEW C, HaveSizes(C), NEW chunks \in Seq(C)
    PROVE  /\ Listed(ChunkPieces(chunks))
           /\ Len(ChunkPieces(chunks)) = Len(chunks) /\ DOMAIN ChunkPieces(chunks) = 1..Len(chunks)
           /\ \A k \in 1..Len(chunks) : ChunkPieces(chunks)[k].is = "chunk"
<1>1. Listed(ChunkPieces(chunks))
  BY MeasuredChunks DEF Measured, IsPieces, Listed
<1>2. DOMAIN chunks = 1..Len(chunks) /\ Len(chunks) \in Nat
  OBVIOUS
<1>3. DOMAIN ChunkPieces(chunks) = 1..Len(chunks)
      /\ \A k \in 1..Len(chunks) : ChunkPieces(chunks)[k].is = "chunk"
  BY <1>2 DEF ChunkPieces
<1>4. PICK t \in Seq(Range(ChunkPieces(chunks))) : t = ChunkPieces(chunks)
  BY <1>1 DEF Listed
<1>5. Len(t) = Len(chunks)
  <2>1. DOMAIN t = 1..Len(t) /\ Len(t) \in Nat
    BY <1>4, OwnRange
  <2>2. PICK x \in Nat, y \in Nat : x = Len(t) /\ y = Len(chunks)
    BY <1>2, <2>1
  <2>3. 1..x = 1..y
    BY <1>3, <1>4, <2>1, <2>2
  <2>4. x <= y
    <3>1. x \in 1..x \/ x = 0
      OBVIOUS
    <3> QED
      BY <2>3, <3>1
  <2>5. y <= x
    <3>1. y \in 1..y \/ y = 0
      OBVIOUS
    <3> QED
      BY <2>3, <3>1
  <2> QED
    BY <2>2, <2>4, <2>5
<1> QED
  BY <1>1, <1>3, <1>4, <1>5

\* s is the n pieces of a and the m of b behind them.
Joint(s, a, b, n, m) ==
    /\ Listed(s) /\ Len(s) = n + m /\ DOMAIN s = 1..(n + m)
    /\ \A k \in 1..n : s[k] = a[k]
    /\ \A k \in 1..m : s[k + n] = b[k]

\* A concatenation is.
LEMMA Joined ==
    ASSUME NEW a, NEW b, Listed(a), Listed(b), NEW n \in Nat, NEW m \in Nat,
           Len(a) = n, Len(b) = m
    PROVE  Joint(a \o b, a, b, n, m)
<1>1. PICK s : s = a \o b
  OBVIOUS
<1>2. /\ Len(a) \in Nat /\ Len(b) \in Nat /\ Len(s) = Len(a) + Len(b)
      /\ DOMAIN a = 1..Len(a) /\ DOMAIN b = 1..Len(b) /\ DOMAIN s = 1..Len(s)
      /\ \A i \in 1..Len(a) : s[i] = a[i]
      /\ \A i \in 1..Len(b) : s[i + Len(a)] = b[i]
      /\ \A i \in 1..Len(s) : i \in 1..Len(a) \/ i - Len(a) \in 1..Len(b)
      /\ Listed(s)
  <2>1. After(s, a, b)
    BY <1>1, PiecesBehind
  <2> QED
    BY <2>1 DEF After
<1>3. Len(s) = n + m /\ Listed(s)
  BY <1>2
<1>4. DOMAIN s = 1..(n + m)
  BY <1>2, <1>3
<1>5. \A k \in 1..n : s[k] = a[k]
  BY <1>2
<1>6. \A k \in 1..m : s[k + n] = b[k]
  BY <1>2
<1>7. Joint(s, a, b, n, m)
  BY <1>3, <1>4, <1>5, <1>6 DEF Joint
<1> QED
  BY <1>1, <1>7

\* One piece and two, as sequences.
LEMMA PairOfPieces ==
    ASSUME NEW p, NEW q
    PROVE  /\ Listed(<<p>>) /\ Len(<<p>>) = 1 /\ <<p>>[1] = p
           /\ Listed(<<p, q>>) /\ Len(<<p, q>>) = 2
           /\ <<p, q>>[1] = p /\ <<p, q>>[2] = q
<1>1. PICK P : P = {p, q}
  OBVIOUS
<1>2. <<p>> \in Seq(P) /\ <<p, q>> \in Seq(P)
  BY <1>1
<1> QED
  BY <1>2, OwnRange

\* The sections of a group of an EWF1 segment.
LEMMA GroupLaid ==
    ASSUME NEW C, HaveSizes(C), NEW groups, NEW i, NEW next, NEW format,
           groups[i].chunks \in Seq(C),
           groups[i].tableSize = 24 + 4 * Len(groups[i].chunks) + FooterSize(format),
           NEW sectors, NEW chunk
    PROVE  Laid1(GroupPieces(groups, i, next, format), sectors, chunk)
<1> DEFINE g == groups[i]
           table == Table1(g.chunks, g.sectors + Desc1, g.tableSize)
           D == Desc("sectors", g.table, Payload(g.chunks))
           D1 == Desc("table", IF WritesTable2(format) THEN g.table2 ELSE next, g.tableSize)
           D2 == Desc("table2", next, g.tableSize)
           a == <<D>>
           b == ChunkPieces(g.chunks)
           c == <<D1, table>>
           d == <<D2, table>>
<1>1. GroupPieces(groups, i, next, format)
        = a \o b \o c \o IF WritesTable2(format) THEN d ELSE <<>>
  BY DEF GroupPieces
<1>2. PICK n \in Nat : n = Len(g.chunks)
  OBVIOUS
<1>3. Payload(g.chunks) \in Nat
  BY PayloadOfChunks
<1>4. g.tableSize \in Nat \ {0}
  <2>1. FooterSize(format) \in {0, 4}
    BY DEF FooterSize
  <2>2. 24 + 4 * n + 0 \in Nat \ {0} /\ 24 + 4 * n + 4 \in Nat \ {0}
    OBVIOUS
  <2> QED
    BY <1>2, <2>1, <2>2
<1>5. table.is = "table" /\ table.len = g.tableSize /\ table.count = n
  BY <1>2 DEF Table1
<1>6. Plain1(D, sectors, chunk)
  BY <1>3 DEF Desc, Plain1, Desc1
<1>7. /\ IsDescriptor(D1, "table") /\ D1.len = Desc1 /\ D1.size \in Nat \ {0}
      /\ IsDescriptor(D2, "table2") /\ D2.len = Desc1 /\ D2.size \in Nat \ {0}
  <2>1. PICK size \in Nat : size = g.tableSize
    BY <1>4
  <2>2. Desc1 + size \in Nat \ {0}
    BY DEF Desc1
  <2> QED
    BY <2>1, <2>2 DEF Desc, IsDescriptor
<1>8. /\ Listed(b) /\ Len(b) = n /\ \A k \in 1..n : b[k].is = "chunk"
  BY <1>2, ChunksArePieces
<1> HIDE DEF D, D1, D2, table, b
<1>9. Listed(a) /\ Len(a) = 1 /\ a[1] = D
  BY PairOfPieces
<1>10. Listed(c) /\ Len(c) = 2 /\ c[1] = D1 /\ c[2] = table
  BY PairOfPieces
<1>11. Listed(d) /\ Len(d) = 2 /\ d[1] = D2 /\ d[2] = table
  BY PairOfPieces
<1> HIDE DEF a, c, d
<1> DEFINE ab == a \o b
           s == ab \o c
           t == s \o d
<1>12. Joint(ab, a, b, 1, n)
  BY <1>8, <1>9, Joined
<1> HIDE DEF ab
<1>a. Listed(ab) /\ Len(ab) = 1 + n
  BY <1>12 DEF Joint
<1>13. Joint(s, ab, c, 1 + n, 2)
  <2>1. 1 + n \in Nat /\ 2 \in Nat
    OBVIOUS
  <2> QED
    BY <1>10, <1>a, <2>1, Joined DEF s
<1> HIDE DEF s
<1>b. Listed(s) /\ Len(s) = (1 + n) + 2
  BY <1>13 DEF Joint
<1>14. Joint(t, s, d, (1 + n) + 2, 2)
  <2>1. (1 + n) + 2 \in Nat /\ 2 \in Nat
    OBVIOUS
  <2> QED
    BY <1>11, <1>b, <2>1, Joined DEF t
<1> HIDE DEF t
<1>15. s[1] = D /\ (\A k \in 1..n : s[k + 1] = b[k]) /\ s[n + 2] = D1 /\ s[n + 3] = table
  <2>1. /\ 1 + (1 + n) = n + 2 /\ 2 + (1 + n) = n + 3 /\ 1 \in 1..(1 + n)
        /\ \A k \in 1..n : k + 1 \in 1..(1 + n)
    OBVIOUS
  <2>2. s[n + 2] = D1 /\ s[n + 3] = table
    BY <1>10, <1>13, <2>1 DEF Joint
  <2>3. s[1] = ab[1] /\ ab[1] = D
    BY <1>9, <1>12, <1>13, <2>1 DEF Joint
  <2>4. \A k \in 1..n : s[k + 1] = b[k]
    BY <1>12, <1>13, <2>1 DEF Joint
  <2> QED
    BY <2>2, <2>3, <2>4
<1>16. CASE ~WritesTable2(format)
  <2>1. GroupPieces(groups, i, next, format) = s \o <<>>
    BY <1>1, <1>16 DEF s, ab
  <2>2. s \o <<>> = s
    BY <1>b DEF Listed
  <2>3. (1 + n) + 2 = n + 3 /\ n + 3 # n + 5 /\ n + 3 \in Nat
    OBVIOUS
  <2>4. Shaped(s, n, n + 3, sectors, chunk)
    <3>1. Listed(s) /\ DOMAIN s = 1..(n + 3)
      BY <1>13, <2>3 DEF Joint
    <3>2. \A k \in 1..n : s[k + 1].is = "chunk"
      BY <1>8, <1>15
    <3> QED
      BY <1>4, <1>5, <1>6, <1>7, <1>15, <2>3, <3>1, <3>2 DEF Shaped
  <2>5. Laid1(s, sectors, chunk)
    BY <2>3, <2>4, LaidTables
  <2> QED
    BY <2>1, <2>2, <2>5
<1>17. CASE WritesTable2(format)
  <2>1. GroupPieces(groups, i, next, format) = t
    BY <1>1, <1>17 DEF t, s, ab
  <2>2. ((1 + n) + 2) + 2 = n + 5 /\ n + 5 \in Nat /\ (1 + n) + 2 = n + 3
    OBVIOUS
  <2>3. /\ Listed(t) /\ DOMAIN t = 1..(n + 5)
        /\ \A k \in 1..(n + 3) : t[k] = s[k]
        /\ \A k \in 1..2 : t[k + (n + 3)] = d[k]
    BY <1>14, <2>2 DEF Joint
  <2>4. /\ 1 \in 1..(n + 3) /\ n + 2 \in 1..(n + 3) /\ n + 3 \in 1..(n + 3)
        /\ \A k \in 1..n : k + 1 \in 1..(n + 3)
        /\ 1 + (n + 3) = n + 4 /\ 2 + (n + 3) = n + 5
    OBVIOUS
  <2>5. t[1] = D /\ t[n + 2] = D1 /\ t[n + 3] = table
    BY <1>15, <2>3, <2>4
  <2>6. \A k \in 1..n : t[k + 1].is = "chunk"
    <3> SUFFICES ASSUME NEW k \in 1..n PROVE t[k + 1].is = "chunk"
      OBVIOUS
    <3>1. t[k + 1] = s[k + 1]
      BY <2>3, <2>4
    <3>2. s[k + 1] = b[k]
      BY <1>15
    <3>3. b[k].is = "chunk"
      BY <1>8
    <3> QED
      BY <3>1, <3>2, <3>3
  <2>7. t[n + 4] = D2 /\ t[n + 5] = table
    BY <1>11, <2>3, <2>4
  <2>8. Shaped(t, n, n + 5, sectors, chunk)
    BY <1>4, <1>5, <1>6, <1>7, <2>3, <2>5, <2>6, <2>7 DEF Shaped
  <2>9. Laid1(t, sectors, chunk)
    BY <2>2, <2>8, LaidTables
  <2> QED
    BY <2>1, <2>9
<1> QED
  BY <1>16, <1>17

\* One sequence after the other.
LEMMA Laid1Flatten ==
    ASSUME NEW S, NEW gs \in Seq(S), NEW sectors, NEW chunk,
           \A k \in 1..Len(gs) : Laid1(gs[k], sectors, chunk)
    PROVE  Laid1(FlattenSeq(gs), sectors, chunk)
<1> DEFINE P == UNION {Range(gs[k]) : k \in 1..Len(gs)}
<1>1. ASSUME NEW k \in 1..Len(gs) PROVE gs[k] \in Seq(P)
  <2>1. gs[k] \in Seq(Range(gs[k])) /\ Range(gs[k]) \subseteq P
    BY DEF Laid1, Listed
  <2> HIDE DEF P
  <2> QED
    BY <2>1
<1> HIDE DEF P
<1>2. gs \in Seq(Seq(P))
  <2>1. gs \in [1..Len(gs) -> Seq(P)] /\ Len(gs) \in Nat
    BY <1>1
  <2> QED
    BY <2>1
<1>3. PICK f \in [0..Len(gs) -> Seq(P)] :
              /\ f[0] = <<>> /\ \A k \in 1..Len(gs) : f[k] = f[k - 1] \o gs[k]
              /\ FlattenSeq(gs) = f[Len(gs)]
  BY <1>2, FlattenRuns
<1>4. Len(gs) \in Nat
  OBVIOUS
<1> DEFINE T == {k \in Nat : k <= Len(gs) => Laid1(f[k], sectors, chunk)}
<1>5. 0 \in T
  BY <1>3, Laid1None
<1>6. ASSUME NEW k \in Nat, k \in T PROVE k + 1 \in T
  <2> SUFFICES ASSUME k + 1 <= Len(gs) PROVE Laid1(f[k + 1], sectors, chunk)
    OBVIOUS
  <2>1. k + 1 \in 1..Len(gs) /\ (k + 1) - 1 = k
    BY <1>4
  <2>2. Laid1(f[k], sectors, chunk)
    BY <1>4, <1>6
  <2>3. f[k + 1] = f[k] \o gs[k + 1]
    BY <1>3, <2>1
  <2> QED
    BY <2>1, <2>2, <2>3, Laid1Concat
<1> HIDE DEF T
<1>7. Nat \subseteq T
  BY <1>5, <1>6, SetInduction
<1>8. Laid1(f[Len(gs)], sectors, chunk)
  <2>1. Len(gs) \in T /\ Len(gs) <= Len(gs)
    BY <1>4, <1>7
  <2> QED
    BY <2>1 DEF T
<1> QED
  BY <1>3, <1>8

\* Pieces that begin with a header.
Begun1(s, h, sectors, chunk) ==
    Laid1(s, sectors, chunk) /\ Len(s) \in Nat \ {0} /\ s[1] = h

\* More pieces behind a file's first ones.
LEMMA Begun1Concat ==
    ASSUME NEW a, NEW b, NEW h, NEW sectors, NEW chunk,
           Begun1(a, h, sectors, chunk), Laid1(b, sectors, chunk)
    PROVE  Begun1(a \o b, h, sectors, chunk)
<1>1. Laid1(a \o b, sectors, chunk)
  BY Laid1Concat DEF Begun1
<1>2. PICK s : s = a \o b
  OBVIOUS
<1>3. After(s, a, b)
  BY <1>2, PiecesBehind DEF Begun1, Laid1
<1>4. Len(a) \in Nat \ {0} /\ a[1] = h
  BY DEF Begun1
<1>5. 1 \in 1..Len(a)
  BY <1>4
<1>6. s[1] = h /\ Len(s) \in Nat \ {0}
  BY <1>3, <1>4, <1>5 DEF After
<1> QED
  BY <1>1, <1>2, <1>6 DEF Begun1

\* An optional section.
LEMMA SectionLaid ==
    ASSUME NEW s \in Optional, NEW next, NEW o, NEW context, NEW sectors, NEW chunk
    PROVE  Laid1(Section1(s, next, o, context), sectors, chunk)
<1>1. SectionSize[s] \in Nat \ {0}
  BY LayoutAssumption
<1>2. PICK k \in Nat : k = Size1(s, o, context)
  BY <1>1 DEF Size1, PayloadOf
<1>3. s \notin {"table", "table2"}
  BY DEF Optional, FirstOnly1, LastOnly1, FirstOnly2, LastOnly2
<1>4. Desc1 + k \in Nat \ {0}
  BY DEF Desc1
<1>5. Plain1(Desc(s, next, k), sectors, chunk) /\ Plain1(Opaque(s, k), sectors, chunk)
  BY <1>3, <1>4 DEF Desc, Opaque, Plain1
<1>6. Laid1(<<Desc(s, next, k), Opaque(s, k)>>, sectors, chunk)
  BY <1>5, Laid1Two
<1> QED
  BY <1>2, <1>6, Laid1None DEF Section1

\* The header of an EWF1 segment file
Head1(context) ==
    [is |-> "header", len |-> FileHeader1, format |-> "ewf1", number |-> context.number]

\* An EWF1 segment.
LEMMA Ewf1Laid ==
    ASSUME NEW C, HaveSizes(C), NEW chunks \in Seq(C), NEW o, NEW context,
           context.terminal \in {"done", "next"}
    PROVE  Begun1(Ewf1Pieces(chunks, o, context), Head1(context), context.sectors, o.chunk)
<1>1. PICK plan : plan = PlanEwf1(chunks, o, context)
  OBVIOUS
<1>2. PICK groups : groups = plan.groups
  OBVIOUS
<1>3. PICK at : groups = TableLayouts(chunks, at, o.format)
  BY <1>1, <1>2 DEF PlanEwf1
<1> DEFINE v == context.sectors
           w == o.chunk
           head == Head1(context)
           part(s, next) == Section1(s, next, o, context)
           first == <<head>>
           header == part("header", plan.header2)
           header2 == part("header2", plan.xheader)
           xheader == part("xheader", plan.volume)
           volume == <<Desc("volume", plan.session, VolumeSize(o.format)), Volume(o, context)>>
           session == part("session", groups[1].sectors)
           gs == [i \in DOMAIN groups |->
                    GroupPieces(groups, i, IF i = Len(groups) THEN plan.error2
                                           ELSE groups[i + 1].sectors, o.format)]
           middle == FlattenSeq(gs)
           error2 == part("error2", plan.digest)
           digest == part("digest", plan.xhash)
           xhash == part("xhash", plan.done)
           last == <<Desc(context.terminal, plan.done, 0)>>
<1>4. Ewf1Pieces(chunks, o, context)
        = first \o header \o header2 \o xheader \o volume \o session \o middle
          \o error2 \o digest \o xhash \o last
  BY <1>1, <1>2 DEF Ewf1Pieces, PlannedPieces, Head1
<1>5. Begun1(first, head, v, w)
  <2>1. Plain1(head, v, w)
    BY DEF Head1, Plain1
  <2> HIDE DEF head
  <2>2. Laid1(<<head>>, v, w)
    BY <2>1, Laid1One
  <2>3. Len(<<head>>) = 1 /\ <<head>>[1] = head
    BY PairOfPieces
  <2>4. 1 \in Nat \ {0}
    OBVIOUS
  <2> QED
    BY <2>2, <2>3, <2>4 DEF Begun1
<1>6. Laid1(volume, v, w)
  <2>1. Desc1 + VolumeSize(o.format) \in Nat \ {0}
    BY DEF VolumeSize, Desc1
  <2>2. Plain1(Desc("volume", plan.session, VolumeSize(o.format)), v, w)
    BY <2>1 DEF Desc, Plain1
  <2>3. Plain1(Volume(o, context), v, w)
    BY DEF Volume, Plain1
  <2> QED
    BY <2>2, <2>3, Laid1Two
<1>7. Laid1(last, v, w)
  <2>1. Plain1(Desc(context.terminal, plan.done, 0), v, w)
    BY DEF Desc, Desc1, Plain1
  <2> QED
    BY <2>1, Laid1One
<1>8. Laid1(middle, v, w)
  <2>1. PICK tables \in Seq(Seq(C)) : tables = TableGroups(chunks)
    BY GroupsOf
  <2>2. PICK n \in Nat : n = Len(tables)
    BY <2>1
  <2>3. DOMAIN tables = 1..n /\ \A i \in 1..n : tables[i] \in Seq(C)
    BY <2>1, <2>2
  <2>4. /\ groups = [i \in DOMAIN tables |-> groups[i]]
        /\ \A i \in DOMAIN tables :
              /\ groups[i].chunks = tables[i]
              /\ groups[i].tableSize = 24 + 4 * Len(tables[i]) + FooterSize(o.format)
    <3>1. /\ TableLayouts(chunks, at, o.format)
                = [i \in DOMAIN TableGroups(chunks) |-> TableLayouts(chunks, at, o.format)[i]]
          /\ \A i \in DOMAIN TableGroups(chunks) :
                /\ TableLayouts(chunks, at, o.format)[i].chunks = TableGroups(chunks)[i]
                /\ TableLayouts(chunks, at, o.format)[i].tableSize
                     = 24 + 4 * Len(TableGroups(chunks)[i]) + FooterSize(o.format)
      BY LayoutsAre
    <3> QED
      BY <1>3, <2>1, <3>1
  <2>5. DOMAIN groups = 1..n
    BY <2>3, <2>4
  <2>6. ASSUME NEW i \in 1..n PROVE Laid1(gs[i], v, w)
    <3>1. /\ groups[i].chunks \in Seq(C)
          /\ groups[i].tableSize = 24 + 4 * Len(groups[i].chunks) + FooterSize(o.format)
      BY <2>3, <2>4
    <3>2. PICK next : gs[i] = GroupPieces(groups, i, next, o.format)
      BY <2>5
    <3>3. Laid1(GroupPieces(groups, i, next, o.format), v, w)
      BY <3>1, GroupLaid
    <3> QED
      BY <3>2, <3>3
  <2>7. PICK S : gs \in Seq(S) /\ Len(gs) = n
    <3>1. gs = [i \in 1..n |-> gs[i]]
      BY <2>5
    <3> HIDE DEF gs
    <3>2. PICK S : S = {gs[i] : i \in 1..n}
      OBVIOUS
    <3>3. gs \in [1..n -> S]
      BY <3>1, <3>2
    <3>4. gs \in Seq(S) /\ Len(gs) = n
      BY <3>3, ListFrom
    <3> QED
      BY <3>4
  <2> HIDE DEF gs
  <2>8. \A i \in 1..Len(gs) : Laid1(gs[i], v, w)
    BY <2>6, <2>7
  <2>9. Laid1(FlattenSeq(gs), v, w)
    BY <2>7, <2>8, Laid1Flatten
  <2> QED
    BY <2>9
<1>9. \A s \in Optional : \A next : Laid1(part(s, next), v, w)
  BY SectionLaid
<1>10. {"header", "header2", "xheader", "session", "error2", "digest", "xhash"} \subseteq Optional
  BY DEF Optional, FirstOnly1, LastOnly1
<1>11. /\ Laid1(header, v, w) /\ Laid1(header2, v, w) /\ Laid1(xheader, v, w)
       /\ Laid1(session, v, w) /\ Laid1(error2, v, w) /\ Laid1(digest, v, w)
       /\ Laid1(xhash, v, w)
  BY <1>9, <1>10
<1> HIDE DEF first, header, header2, xheader, volume, session, middle, error2, digest, xhash,
             last, head, v, w
<1> DEFINE s1 == first \o header
           s2 == s1 \o header2
           s3 == s2 \o xheader
           s4 == s3 \o volume
           s5 == s4 \o session
           s6 == s5 \o middle
           s7 == s6 \o error2
           s8 == s7 \o digest
           s9 == s8 \o xhash
<1>15. Ewf1Pieces(chunks, o, context) = s9 \o last
  BY <1>4
<1> HIDE DEF s1, s2, s3, s4, s5, s6, s7, s8, s9
<1>21. Begun1(s1, head, v, w)
  BY <1>5, <1>11, Begun1Concat DEF s1
<1>22. Begun1(s2, head, v, w)
  BY <1>11, <1>21, Begun1Concat DEF s2
<1>23. Begun1(s3, head, v, w)
  BY <1>11, <1>22, Begun1Concat DEF s3
<1>24. Begun1(s4, head, v, w)
  BY <1>6, <1>23, Begun1Concat DEF s4
<1>25. Begun1(s5, head, v, w)
  BY <1>11, <1>24, Begun1Concat DEF s5
<1>26. Begun1(s6, head, v, w)
  BY <1>8, <1>25, Begun1Concat DEF s6
<1>27. Begun1(s7, head, v, w)
  BY <1>11, <1>26, Begun1Concat DEF s7
<1>28. Begun1(s8, head, v, w)
  BY <1>11, <1>27, Begun1Concat DEF s8
<1>29. Begun1(s9, head, v, w)
  BY <1>11, <1>28, Begun1Concat DEF s9
<1>30. Begun1(s9 \o last, head, v, w)
  BY <1>7, <1>29, Begun1Concat
<1> QED
  BY <1>15, <1>30 DEF head, v, w

\* The pieces that count are the chunks.
LEMMA ChunksMeasured ==
    ASSUME NEW s, NEW bytes, NEW n, Measured(s, bytes, n)
    PROVE  ChunksUpTo(s, Len(s)) = n
<1> DEFINE marks == [i \in DOMAIN s |-> IF s[i].is = "chunk" THEN 1 ELSE 0]
<1>1. PICK l \in Nat : l = Len(s) /\ DOMAIN s = 1..l
  BY OwnRange DEF Measured, IsPieces
<1>2. marks \in Seq(Nat) /\ Len(marks) = l
  <2>1. marks \in [1..l -> Nat]
    BY <1>1
  <2> HIDE DEF marks
  <2> QED
    BY <2>1
<1> DEFINE h == [k \in 0..l |-> ChunksUpTo(s, k)]
<1>3. \A k \in 0..l : h[k] = ChunksUpTo(s, k)
  OBVIOUS
<1>4. h[0] = 0
  <2>1. ChunkIndices(s, 0) = {}
    BY DEF ChunkIndices
  <2> QED
    BY <1>3, <2>1, FS_EmptySet DEF ChunksUpTo
<1>5. ASSUME NEW k \in 1..l PROVE h[k] = h[k - 1] + marks[k]
  <2>1. k - 1 \in Nat /\ k - 1 \in 0..l /\ k \in 0..l
    BY <1>1
  <2>2. IsFiniteSet(ChunkIndices(s, k - 1)) /\ k \notin ChunkIndices(s, k - 1)
    <3>1. IsFiniteSet(1..(k - 1)) /\ ChunkIndices(s, k - 1) \subseteq 1..(k - 1)
      BY <2>1, FS_Interval DEF ChunkIndices
    <3>2. k \notin 1..(k - 1)
      BY <1>1
    <3> QED
      BY <3>1, <3>2, FS_Subset
  <2>3. CASE s[k].is = "chunk"
    <3>1. ChunkIndices(s, k) = ChunkIndices(s, k - 1) \cup {k}
      BY <1>1, <2>3 DEF ChunkIndices
    <3>2. ChunksUpTo(s, k) = ChunksUpTo(s, k - 1) + 1
      BY <2>2, <3>1, FS_AddElement DEF ChunksUpTo
    <3>3. marks[k] = 1
      BY <1>1, <2>3
    <3> HIDE DEF h, marks
    <3> QED
      BY <1>3, <2>1, <3>2, <3>3
  <2>4. CASE s[k].is # "chunk"
    <3>1. ChunkIndices(s, k) = ChunkIndices(s, k - 1)
      <4>1. \A i \in 1..k : i # k => i \in 1..(k - 1)
        BY <1>1
      <4>2. \A i \in 1..(k - 1) : i \in 1..k
        BY <1>1
      <4> QED
        BY <2>4, <4>1, <4>2 DEF ChunkIndices
    <3>2. marks[k] = 0
      BY <1>1, <2>4
    <3>3. ChunksUpTo(s, k - 1) \in Nat
      BY <2>1, ChunksCounted
    <3> HIDE DEF h, marks
    <3> QED
      BY <1>3, <2>1, <3>1, <3>2, <3>3 DEF ChunksUpTo
  <2> QED
    BY <2>3, <2>4
<1> HIDE DEF h
<1>6. n = TotalOf(marks)
  BY DEF Measured
<1> HIDE DEF marks
<1>7. \A k \in 1..Len(marks) : h[k] = h[k - 1] + marks[k]
  BY <1>2, <1>5
<1>8. TotalOf(marks) = h[Len(marks)]
  BY <1>2, <1>4, <1>7, TotalUnique
<1> QED
  BY <1>1, <1>2, <1>3, <1>6, <1>8

\* A run of EWF2 pieces whose tables are of the chunks since the table before.
Laid2(s, n, sectors, chunk) == Listed(s) /\ Tabled2(s, n) /\ SameMedia(s, sectors, chunk)

\* Pieces of an EWF2 segment behind others.
LEMMA Laid2Concat ==
    ASSUME NEW a, NEW b, NEW n, NEW sectors, NEW chunk,
           Laid2(a, n, sectors, chunk), Laid2(b, n, sectors, chunk)
    PROVE  Laid2(a \o b, n, sectors, chunk)
<1>1. PICK s : s = a \o b
  OBVIOUS
<1>a. Listed(a) /\ Listed(b) /\ Tabled2(a, n) /\ Tabled2(b, n)
  BY DEF Laid2
<1>b. After(s, a, b)
  BY <1>1, <1>a, PiecesBehind
<1>2. /\ Len(a) \in Nat /\ Len(b) \in Nat /\ Len(s) = Len(a) + Len(b)
      /\ DOMAIN a = 1..Len(a) /\ DOMAIN b = 1..Len(b) /\ DOMAIN s = 1..Len(s)
      /\ \A i \in 1..Len(a) : s[i] = a[i]
      /\ \A i \in 1..Len(b) : s[i + Len(a)] = b[i]
      /\ \A i \in 1..Len(s) : i \in 1..Len(a) \/ i - Len(a) \in 1..Len(b)
  BY <1>b DEF After
<1>3. SameMedia(s, sectors, chunk)
  BY <1>1, <1>a, MediaBehind DEF Laid2
<1>4. \A c : /\ \A i \in 1..Len(a) : ChunkRun(a, i, c) => ChunkRun(s, i, c)
             /\ \A i \in 1..Len(b) : ChunkRun(b, i, c) => ChunkRun(s, i + Len(a), c)
  BY <1>1, <1>a, RunBehind
<1>5. ASSUME NEW i \in 1..Len(s)
      PROVE  /\ s[i].is = "table" => s[i].count = n
             /\ IsDescriptor(s[i], "table") =>
                  /\ i - 2 \in DOMAIN s /\ s[i - 1].is = "table" /\ IsDescriptor(s[i - 2], "sectors")
                  /\ ChunkRun(s, i - 2, n)
  <2>1. CASE i \in 1..Len(a)
    <3>1. s[i] = a[i]
      BY <1>2, <2>1
    <3>2. a[i].is = "table" => a[i].count = n
      BY <1>2, <1>a, <2>1 DEF Tabled2
    <3>3. ASSUME IsDescriptor(a[i], "table")
          PROVE  /\ i - 2 \in DOMAIN s /\ s[i - 1].is = "table" /\ IsDescriptor(s[i - 2], "sectors")
                 /\ ChunkRun(s, i - 2, n)
      <4>1. /\ i - 2 \in 1..Len(a) /\ a[i - 1].is = "table" /\ IsDescriptor(a[i - 2], "sectors")
            /\ ChunkRun(a, i - 2, n)
        BY <1>2, <1>a, <2>1, <3>3 DEF Tabled2
      <4>2. i - 1 \in 1..Len(a) /\ i - 2 \in 1..Len(s)
        BY <1>2, <2>1, <4>1
      <4> QED
        BY <1>2, <1>4, <4>1, <4>2
    <3> QED
      BY <3>1, <3>2, <3>3
  <2>2. CASE i - Len(a) \in 1..Len(b)
    <3>1. PICK j \in 1..Len(b) : i = j + Len(a)
      <4>1. i = (i - Len(a)) + Len(a)
        BY <1>2
      <4> QED
        BY <2>2, <4>1
    <3>2. s[i] = b[j]
      BY <1>2, <3>1
    <3>3. b[j].is = "table" => b[j].count = n
      BY <1>2, <1>a DEF Tabled2
    <3>4. ASSUME IsDescriptor(b[j], "table")
          PROVE  /\ i - 2 \in DOMAIN s /\ s[i - 1].is = "table" /\ IsDescriptor(s[i - 2], "sectors")
                 /\ ChunkRun(s, i - 2, n)
      <4>1. /\ j - 2 \in 1..Len(b) /\ b[j - 1].is = "table" /\ IsDescriptor(b[j - 2], "sectors")
            /\ ChunkRun(b, j - 2, n)
        BY <1>2, <1>a, <3>4 DEF Tabled2
      <4>2. /\ j - 1 \in 1..Len(b) /\ i - 2 \in 1..Len(s)
            /\ i - 2 = (j - 2) + Len(a) /\ i - 1 = (j - 1) + Len(a)
        BY <1>2, <3>1, <4>1
      <4>3. s[i - 2] = b[j - 2] /\ s[i - 1] = b[j - 1]
        BY <1>2, <4>1, <4>2
      <4> QED
        BY <1>2, <1>4, <4>1, <4>2, <4>3
    <3> QED
      BY <3>2, <3>3, <3>4
  <2> QED
    BY <1>2, <2>1, <2>2
<1>6. Tabled2(s, n)
  BY <1>2, <1>5 DEF Tabled2
<1>7. Listed(s)
  BY <1>b DEF After
<1> QED
  BY <1>1, <1>3, <1>6, <1>7 DEF Laid2

\* Pieces that are no tables.
Plain2(p, sectors, chunk) ==
    /\ p.is # "table" /\ ~IsDescriptor(p, "table")
    /\ p.is \in {"volume", "device"} => p.sectors = sectors /\ p.chunk = chunk

\* Pieces that are neither chunks nor tables are laid out by themselves.
LEMMA Laid2Plain ==
    ASSUME NEW s, NEW n, NEW sectors, NEW chunk, Listed(s),
           \A i \in DOMAIN s : Plain2(s[i], sectors, chunk)
    PROVE  Laid2(s, n, sectors, chunk)
BY DEF Laid2, Plain2, Tabled2, SameMedia

\* One such piece
LEMMA Laid2One ==
    ASSUME NEW p, NEW n, NEW sectors, NEW chunk, Plain2(p, sectors, chunk)
    PROVE  Laid2(<<p>>, n, sectors, chunk)
<1>1. Listed(<<p>>) /\ \A i \in DOMAIN <<p>> : <<p>>[i] = p
  BY DEF Range, Listed
<1> QED
  BY <1>1, Laid2Plain

\* No piece
LEMMA Laid2None ==
    ASSUME NEW n, NEW sectors, NEW chunk
    PROVE  Laid2(<<>>, n, sectors, chunk)
<1>1. Listed(<<>>) /\ DOMAIN <<>> = {}
  BY DEF Range, Listed
<1> QED
  BY <1>1, Laid2Plain

\* A sequence that ends in the descriptor of n chunks, and what comes behind one.
Ends2(s, n) ==
    Len(s) \in Nat \ {0} /\ IsDescriptor(s[Len(s)], "sectors") /\ ChunkRun(s, Len(s), n)

\* Where the last part of a file ends, the file does.
LEMMA Ends2Behind ==
    ASSUME NEW a, NEW b, Listed(a), Listed(b), NEW n, Ends2(b, n)
    PROVE  Ends2(a \o b, n)
<1>1. PICK s : s = a \o b
  OBVIOUS
<1>2. After(s, a, b)
  BY <1>1, PiecesBehind
<1>3. ChunkRun(s, Len(b) + Len(a), n)
  <2>1. Len(b) \in 1..Len(b)
    BY DEF Ends2
  <2>2. ChunkRun(b, Len(b), n)
    BY DEF Ends2
  <2> QED
    BY <1>1, <2>1, <2>2, RunBehind
<1>4. Len(s) = Len(b) + Len(a) /\ Len(s) \in Nat \ {0} /\ s[Len(b) + Len(a)] = b[Len(b)]
  BY <1>2 DEF After, Ends2
<1>5. Ends2(s, n)
  BY <1>3, <1>4 DEF Ends2
<1> QED
  BY <1>1, <1>5

\* A table and its descriptor behind the chunks.
LEMMA TableBehind ==
    ASSUME NEW a, NEW n, NEW sectors, NEW chunk, Laid2(a, n, sectors, chunk), Ends2(a, n),
           NEW t, t.is = "table", t.count = n, NEW d, IsDescriptor(d, "table")
    PROVE  Laid2(a \o (<<t>> \o <<d>>), n, sectors, chunk)
<1>1. PICK b : b = <<t, d>>
  OBVIOUS
<1>2. PICK s : s = a \o b
  OBVIOUS
<1>3. Listed(b) /\ Len(b) = 2 /\ b[1] = t /\ b[2] = d
  BY <1>1, PairOfPieces
<1>a. Listed(a) /\ Tabled2(a, n) /\ SameMedia(a, sectors, chunk)
  BY DEF Laid2
<1>4. After(s, a, b)
  BY <1>2, <1>3, <1>a, PiecesBehind
<1>5. PICK l \in Nat \ {0} : l = Len(a)
  BY DEF Ends2
<1>6. /\ DOMAIN a = 1..l /\ DOMAIN s = 1..(l + 2)
      /\ \A i \in 1..l : s[i] = a[i]
      /\ s[l + 1] = t /\ s[l + 2] = d /\ Listed(s)
  <2>1. 1 \in 1..2 /\ 2 \in 1..2 /\ 1 + l = l + 1 /\ 2 + l = l + 2
    OBVIOUS
  <2> QED
    BY <1>3, <1>4, <1>5, <2>1 DEF After
<1>7. \A i \in 1..(l + 2) : i \in 1..l \/ i = l + 1 \/ i = l + 2
  OBVIOUS
<1>8. \A i \in 1..l : ChunkRun(a, i, n) => ChunkRun(s, i, n)
  BY <1>2, <1>3, <1>5, <1>a, RunBehind
<1>9. SameMedia(s, sectors, chunk)
  <2>1. SameMedia(b, sectors, chunk)
    <3>1. DOMAIN b = {1, 2}
      BY <1>1
    <3> QED
      BY <1>3, <3>1 DEF SameMedia, IsDescriptor
  <2> QED
    BY <1>2, <1>3, <1>a, <2>1, MediaBehind
<1>10. ASSUME NEW i \in 1..(l + 2)
       PROVE  /\ s[i].is = "table" => s[i].count = n
              /\ IsDescriptor(s[i], "table") =>
                   /\ i - 2 \in DOMAIN s /\ s[i - 1].is = "table" /\ IsDescriptor(s[i - 2], "sectors")
                   /\ ChunkRun(s, i - 2, n)
  <2>1. CASE i \in 1..l
    <3>1. s[i] = a[i]
      BY <1>6, <2>1
    <3>2. a[i].is = "table" => a[i].count = n
      BY <1>6, <1>a, <2>1 DEF Tabled2
    <3>3. ASSUME IsDescriptor(a[i], "table")
          PROVE  /\ i - 2 \in DOMAIN s /\ s[i - 1].is = "table" /\ IsDescriptor(s[i - 2], "sectors")
                 /\ ChunkRun(s, i - 2, n)
      <4>1. /\ i - 2 \in 1..l /\ a[i - 1].is = "table" /\ IsDescriptor(a[i - 2], "sectors")
            /\ ChunkRun(a, i - 2, n)
        BY <1>6, <1>a, <2>1, <3>3 DEF Tabled2
      <4>2. i - 1 \in 1..l /\ i - 2 \in 1..(l + 2)
        BY <2>1, <4>1
      <4> QED
        BY <1>6, <1>8, <4>1, <4>2
    <3> QED
      BY <3>1, <3>2, <3>3
  <2>2. CASE i = l + 1
    BY <1>6, <2>2 DEF IsDescriptor
  <2>3. CASE i = l + 2
    <3>1. i - 2 = l /\ i - 1 = l + 1 /\ l \in 1..l /\ l \in 1..(l + 2)
      BY <2>3
    <3>2. IsDescriptor(a[l], "sectors") /\ ChunkRun(a, l, n)
      BY <1>5 DEF Ends2
    <3> QED
      BY <1>6, <1>8, <2>3, <3>1, <3>2 DEF IsDescriptor
  <2> QED
    BY <1>7, <2>1, <2>2, <2>3
<1>11. Tabled2(s, n)
  BY <1>6, <1>10 DEF Tabled2
<1>12. Laid2(s, n, sectors, chunk)
  BY <1>6, <1>9, <1>11 DEF Laid2
<1> QED
  BY <1>1, <1>2, <1>12, TwoOnes

----------------------------------------------------------------------------
(* EWF2 segments                                                           *)

\* The section of a table comes behind that of the chunks.
Ordered(s) ==
    /\ Listed(s)
    /\ \A i \in DOMAIN s : s[i].type = "table" =>
          i - 1 \in DOMAIN s /\ s[i - 1].type = "sectors"

\* Sections in order, and more of them behind.
LEMMA OrderedConcat ==
    ASSUME NEW a, NEW b, Ordered(a), Ordered(b)
    PROVE  Ordered(a \o b)
<1>1. PICK s : s = a \o b
  OBVIOUS
<1>a. Listed(a) /\ Listed(b)
  BY DEF Ordered
<1>b. After(s, a, b)
  BY <1>1, <1>a, PiecesBehind
<1>2. /\ Len(a) \in Nat /\ Len(b) \in Nat /\ Len(s) = Len(a) + Len(b)
      /\ DOMAIN a = 1..Len(a) /\ DOMAIN b = 1..Len(b) /\ DOMAIN s = 1..Len(s)
      /\ \A i \in 1..Len(a) : s[i] = a[i]
      /\ \A i \in 1..Len(b) : s[i + Len(a)] = b[i]
      /\ \A i \in 1..Len(s) : i \in 1..Len(a) \/ i - Len(a) \in 1..Len(b)
  BY <1>b DEF After
<1>3. ASSUME NEW i \in 1..Len(s), s[i].type = "table"
      PROVE  i - 1 \in 1..Len(s) /\ s[i - 1].type = "sectors"
  <2>1. CASE i \in 1..Len(a)
    <3>1. a[i].type = "table"
      BY <1>2, <1>3, <2>1
    <3>2. i - 1 \in 1..Len(a) /\ a[i - 1].type = "sectors"
      BY <1>2, <2>1, <3>1 DEF Ordered
    <3>3. i - 1 \in 1..Len(s)
      BY <1>2, <3>2
    <3> QED
      BY <1>2, <3>2, <3>3
  <2>2. CASE i - Len(a) \in 1..Len(b)
    <3>1. PICK j \in 1..Len(b) : i = j + Len(a)
      <4>1. i = (i - Len(a)) + Len(a)
        BY <1>2
      <4> QED
        BY <2>2, <4>1
    <3>2. b[j].type = "table"
      BY <1>2, <1>3, <3>1
    <3>3. j - 1 \in 1..Len(b) /\ b[j - 1].type = "sectors"
      BY <1>2, <3>1, <3>2 DEF Ordered
    <3>4. i - 1 = (j - 1) + Len(a) /\ i - 1 \in 1..Len(s)
      BY <1>2, <3>1, <3>3
    <3> QED
      BY <1>2, <3>3, <3>4
  <2> QED
    BY <1>2, <2>1, <2>2
<1>4. Ordered(s)
  BY <1>2, <1>3, <1>b DEF Ordered, After
<1> QED
  BY <1>1, <1>4

\* One section that is no table is in order.
LEMMA OrderedOne ==
    ASSUME NEW s, s.type # "table"
    PROVE  Ordered(<<s>>)
<1>1. PICK u : u = <<s>>
  OBVIOUS
<1>2. Listed(u) /\ DOMAIN u = {1} /\ u[1] = s
  <2>1. Listed(u) /\ Len(u) = 1 /\ u[1] = s
    BY <1>1, PairOfPieces
  <2>2. DOMAIN u = 1..1
    BY <2>1 DEF Listed
  <2> QED
    BY <2>1, <2>2
<1>3. Ordered(u)
  BY <1>2 DEF Ordered
<1> QED
  BY <1>1, <1>3

\* So are two, when a table is behind its chunks.
LEMMA OrderedTwo ==
    ASSUME NEW s, NEW t, s.type # "table", t.type = "table" => s.type = "sectors"
    PROVE  Ordered(<<s, t>>)
<1>1. PICK u : u = <<s, t>>
  OBVIOUS
<1>2. Listed(u) /\ DOMAIN u = {1, 2} /\ u[1] = s /\ u[2] = t
  <2>1. Listed(u) /\ Len(u) = 2 /\ u[1] = s /\ u[2] = t
    BY <1>1, PairOfPieces
  <2>2. DOMAIN u = 1..2
    BY <2>1 DEF Listed
  <2> QED
    BY <2>1, <2>2
<1>3. 2 - 1 = 1
  OBVIOUS
<1>4. Ordered(u)
  BY <1>2, <1>3 DEF Ordered
<1> QED
  BY <1>1, <1>4

\* The sections of a segment.
LEMMA SectionsOrdered ==
    ASSUME NEW chunks, NEW o, NEW context, context.terminal \in {"done", "next"}
    PROVE  Ordered(Sections2(chunks, o, context))
<1> DEFINE part(s) == Section2(s, o, context)
           first == <<SectionOf("device", DeviceSize), SectionOf("case", CaseSize)>>
           middle == <<SectionOf("sectors", Payload(chunks)),
                       SectionOf("table", 32 + 16 * Len(chunks) + 16)>>
           last == <<SectionOf(context.terminal, 0)>>
<1>1. Ordered(first)
  <2>1. SectionOf("device", DeviceSize).type # "table" /\ SectionOf("case", CaseSize).type # "table"
    BY DEF SectionOf
  <2> QED
    BY <2>1, OrderedTwo
<1>2. Ordered(middle)
  <2>1. /\ SectionOf("sectors", Payload(chunks)).type = "sectors"
        /\ SectionOf("sectors", Payload(chunks)).type # "table"
    BY DEF SectionOf
  <2> QED
    BY <2>1, OrderedTwo
<1>3. Ordered(last)
  <2>1. SectionOf(context.terminal, 0).type # "table"
    BY DEF SectionOf
  <2> QED
    BY <2>1, OrderedOne
<1>4. ASSUME NEW s \in Optional PROVE Ordered(part(s))
  <2>1. PICK k : part(s) = IF k = 0 THEN <<>> ELSE <<SectionOf(s, k)>>
    BY DEF Section2
  <2>2. s # "table"
    BY DEF Optional, FirstOnly1, LastOnly1, FirstOnly2, LastOnly2
  <2>3. SectionOf(s, k).type # "table"
    BY <2>2 DEF SectionOf
  <2>4. Ordered(<<SectionOf(s, k)>>)
    BY <2>3, OrderedOne
  <2>5. Ordered(<<>>)
    BY DEF Ordered, Listed, Range
  <2> QED
    BY <2>1, <2>4, <2>5
<1>5. {"errors", "sessions", "extents", "increment", "md5", "sha1", "final", "analytical",
       "restart"} \subseteq Optional
  BY DEF Optional, FirstOnly2, LastOnly2
<1>6. ASSUME NEW a, Ordered(a), NEW s \in Optional PROVE Ordered(a \o part(s))
  BY <1>4, <1>6, OrderedConcat
<1> DEFINE s1 == first \o part("errors")
           s2 == s1 \o part("sessions")
           s3 == s2 \o part("extents")
           s4 == s3 \o part("increment")
           s5 == s4 \o middle
           s6 == s5 \o part("md5")
           s7 == s6 \o part("sha1")
           s8 == s7 \o part("final")
           s9 == s8 \o part("analytical")
           s10 == s9 \o part("restart")
<1>7. Sections2(chunks, o, context) = s10 \o last
  BY DEF Sections2
<1> HIDE DEF part, first, middle, last, s1, s2, s3, s4, s5, s6, s7, s8, s9, s10
<1>11. Ordered(s1)
  BY <1>1, <1>5, <1>6 DEF s1
<1>12. Ordered(s2)
  BY <1>5, <1>6, <1>11 DEF s2
<1>13. Ordered(s3)
  BY <1>5, <1>6, <1>12 DEF s3
<1>14. Ordered(s4)
  BY <1>5, <1>6, <1>13 DEF s4
<1>15. Ordered(s5)
  BY <1>2, <1>14, OrderedConcat DEF s5
<1>16. Ordered(s6)
  BY <1>5, <1>6, <1>15 DEF s6
<1>17. Ordered(s7)
  BY <1>5, <1>6, <1>16 DEF s7
<1>18. Ordered(s8)
  BY <1>5, <1>6, <1>17 DEF s8
<1>19. Ordered(s9)
  BY <1>5, <1>6, <1>18 DEF s9
<1>20. Ordered(s10)
  BY <1>5, <1>6, <1>19 DEF s10
<1> QED
  BY <1>3, <1>7, <1>20, OrderedConcat

\* The header of an EWF2 segment file
Head2(o, context) ==
    [is |-> "header", len |-> FileHeader2, format |-> "ewf2", number |-> context.number,
     method |-> IF o.compression = "bzip2" THEN "bzip2" ELSE "zlib"]

\* A section's data and descriptor behind those before it: chunks are followed by
\* their descriptor, and a table comes behind that.
LEMMA Section2Laid ==
    ASSUME NEW C, HaveSizes(C), NEW chunks \in Seq(C), NEW n, n = Len(chunks),
           NEW s, NEW base, NEW o, NEW context, NEW previous,
           NEW sectors, NEW chunk, sectors = context.sectors, chunk = o.chunk,
           NEW d, d = [is |-> "descriptor", len |-> Desc2, type |-> s.type,
                       size |-> s.size, previous |-> previous],
           NEW a, Laid2(a, n, sectors, chunk), s.type = "table" => Ends2(a, n)
    PROVE  /\ Laid2(a \o (Data2(s, base, chunks, o, context) \o <<d>>), n, sectors, chunk)
           /\ s.type = "sectors" => Ends2(a \o (Data2(s, base, chunks, o, context) \o <<d>>), n)
<1>1. PICK data : data = Data2(s, base, chunks, o, context)
  OBVIOUS
<1>2. IsDescriptor(d, s.type) /\ d.is = "descriptor" /\ d.type = s.type
  BY DEF IsDescriptor
<1>3. CASE s.type = "table"
  <2>1. PICK t : t = Table2(chunks, context, base, s.size)
    OBVIOUS
  <2>2. data = <<t>> /\ t.is = "table" /\ t.count = n
    BY <1>1, <1>3, <2>1 DEF Data2, Table2
  <2>3. Laid2(a \o (<<t>> \o <<d>>), n, sectors, chunk)
    <3>1. IsDescriptor(d, "table") /\ Ends2(a, n)
      BY <1>2, <1>3
    <3> QED
      BY <2>2, <3>1, TableBehind
  <2> QED
    BY <1>1, <1>3, <2>2, <2>3
<1>4. CASE s.type # "table"
  <2>1. Plain2(d, sectors, chunk)
    BY <1>2, <1>4 DEF Plain2, IsDescriptor
  <2>2. Laid2(<<d>>, n, sectors, chunk)
    BY <2>1, Laid2One
  <2>3. CASE s.type = "sectors"
    <3>1. data = ChunkPieces(chunks)
      BY <1>1, <2>3 DEF Data2
    <3>2. /\ Listed(data) /\ Len(data) = n /\ DOMAIN data = 1..n
          /\ \A k \in 1..n : data[k].is = "chunk"
      BY <3>1, ChunksArePieces
    <3>3. Laid2(data, n, sectors, chunk)
      <4>1. \A k \in DOMAIN data : Plain2(data[k], sectors, chunk)
        BY <3>2 DEF Plain2, IsDescriptor
      <4> QED
        BY <3>2, <4>1, Laid2Plain
    <3>4. Laid2(data \o <<d>>, n, sectors, chunk)
      BY <2>2, <3>3, Laid2Concat
    <3>5. Ends2(data \o <<d>>, n)
      <4>1. PICK b : b = data \o <<d>>
        OBVIOUS
      <4>2. Listed(<<d>>) /\ Len(<<d>>) = 1 /\ <<d>>[1] = d
        BY PairOfPieces
      <4>3. n \in Nat /\ 1 \in Nat
        OBVIOUS
      <4>4. Joint(data \o <<d>>, data, <<d>>, n, 1)
        BY <3>2, <4>2, <4>3, Joined
      <4>5. Joint(b, data, <<d>>, n, 1)
        BY <4>1, <4>4
      <4>6. /\ Len(b) = n + 1 /\ n + 1 \in Nat \ {0} /\ b[n + 1] = d
            /\ \A k \in 1..n : b[k].is = "chunk"
        <5>1. 1 + n = n + 1 /\ 1 \in 1..1
          BY <4>3
        <5> QED
          BY <3>2, <4>2, <4>3, <4>5, <5>1 DEF Joint
      <4>7. ChunkRun(b, n + 1, n)
        <5>1. \A k \in ((n + 1) - n)..((n + 1) - 1) : k \in 1..n
          BY <4>3
        <5>2. n < n + 1
          BY <4>3
        <5> QED
          BY <4>3, <4>6, <5>1, <5>2 DEF ChunkRun
      <4>8. Ends2(b, n)
        BY <1>2, <2>3, <4>6, <4>7 DEF Ends2, IsDescriptor
      <4> QED
        BY <4>1, <4>8
    <3>6. Laid2(a \o (data \o <<d>>), n, sectors, chunk)
      BY <3>4, Laid2Concat
    <3>7. Ends2(a \o (data \o <<d>>), n)
      <4>1. Listed(a) /\ Listed(data \o <<d>>)
        BY <3>4 DEF Laid2
      <4> QED
        BY <3>5, <4>1, Ends2Behind
    <3> QED
      BY <1>1, <3>6, <3>7
  <2>4. CASE s.type # "sectors"
    <3>1. PICK p : data = <<p>> /\ Plain2(p, sectors, chunk)
      <4>1. CASE s.type = "device"
        <5> DEFINE p == [is |-> "device", len |-> DeviceSize, chunk |-> o.chunk,
                         sectors |-> context.sectors]
        <5>1. data = <<p>>
          BY <1>1, <4>1 DEF Data2
        <5>2. Plain2(p, sectors, chunk)
          BY DEF Plain2, IsDescriptor
        <5> QED
          BY <5>1, <5>2
      <4>2. CASE s.type # "device"
        <5>1. data = <<Opaque(s.type, s.size)>>
          BY <1>1, <1>4, <2>4, <4>2 DEF Data2
        <5>2. Plain2(Opaque(s.type, s.size), sectors, chunk)
          BY DEF Plain2, IsDescriptor, Opaque
        <5> QED
          BY <5>1, <5>2
      <4> QED
        BY <4>1, <4>2
    <3>2. Laid2(<<p>>, n, sectors, chunk)
      BY <3>1, Laid2One
    <3>3. Laid2(<<p>> \o <<d>>, n, sectors, chunk)
      BY <2>2, <3>2, Laid2Concat
    <3>4. Laid2(a \o (<<p>> \o <<d>>), n, sectors, chunk)
      BY <3>3, Laid2Concat
    <3> QED
      BY <1>1, <2>4, <3>1, <3>4
  <2> QED
    BY <2>3, <2>4
<1> QED
  BY <1>3, <1>4

\* An EWF2 segment begins with its header, and so on.
Begun2(s, h, n, sectors, chunk) ==
    Laid2(s, n, sectors, chunk) /\ Len(s) \in Nat \ {0} /\ s[1] = h

\* The pieces of a section.
OfSection(g, s, base, chunks, o, context) ==
    \E previous : g = Data2(s, base, chunks, o, context)
                       \o <<[is |-> "descriptor", len |-> Desc2, type |-> s.type,
                             size |-> s.size, previous |-> previous]>>

\* A sequence is one over any set that holds what is in it.
LEMMA ListedIn ==
    ASSUME NEW t, Listed(t), NEW P, Range(t) \subseteq P
    PROVE  t \in Seq(P)
BY DEF Listed

\* The sections, one after the other.
LEMMA SectionsLaid ==
    ASSUME NEW C, HaveSizes(C), NEW chunks \in Seq(C), NEW n, n = Len(chunks),
           NEW sections, Ordered(sections), NEW base, NEW o, NEW context,
           NEW sectors, NEW chunk, sectors = context.sectors, chunk = o.chunk,
           NEW gs, gs = [i \in DOMAIN sections |-> gs[i]],
           \A i \in DOMAIN sections : OfSection(gs[i], sections[i], base, chunks, o, context)
    PROVE  Laid2(FlattenSeq(gs), n, sectors, chunk)
<1>1. PICK l \in Nat : l = Len(sections) /\ DOMAIN sections = 1..l
  BY DEF Ordered, Listed
<1>2. ASSUME NEW i \in 1..l, NEW a, Laid2(a, n, sectors, chunk),
             sections[i].type = "table" => Ends2(a, n)
      PROVE  /\ Laid2(a \o gs[i], n, sectors, chunk)
             /\ sections[i].type = "sectors" => Ends2(a \o gs[i], n)
  <2>1. PICK s, g : s = sections[i] /\ g = gs[i]
    OBVIOUS
  <2>a. OfSection(g, s, base, chunks, o, context)
    BY <1>1, <2>1
  <2>b. PICK p : g = Data2(s, base, chunks, o, context)
                       \o <<[is |-> "descriptor", len |-> Desc2, type |-> s.type,
                             size |-> s.size, previous |-> p]>>
    BY <2>a DEF OfSection
  <2>2. PICK e : e = [is |-> "descriptor", len |-> Desc2, type |-> s.type,
                      size |-> s.size, previous |-> p]
    OBVIOUS
  <2>3. gs[i] = Data2(s, base, chunks, o, context) \o <<e>>
    BY <2>1, <2>2, <2>b
  <2>4. s.type = "table" => Ends2(a, n)
    BY <1>2, <2>1
  <2>5. /\ Laid2(a \o (Data2(s, base, chunks, o, context) \o <<e>>), n, sectors, chunk)
        /\ s.type = "sectors" => Ends2(a \o (Data2(s, base, chunks, o, context) \o <<e>>), n)
    BY <1>2, <2>2, <2>4, Section2Laid
  <2> QED
    BY <2>1, <2>3, <2>5
<1>3. ASSUME NEW i \in 1..l PROVE Listed(gs[i])
  <2>1. PICK s, g : s = sections[i] /\ g = gs[i]
    OBVIOUS
  <2>a. OfSection(g, s, base, chunks, o, context)
    BY <1>1, <2>1
  <2>b. PICK p : g = Data2(s, base, chunks, o, context)
                       \o <<[is |-> "descriptor", len |-> Desc2, type |-> s.type,
                             size |-> s.size, previous |-> p]>>
    BY <2>a DEF OfSection
  <2>2. PICK e : e = [is |-> "descriptor", len |-> Desc2, type |-> s.type,
                      size |-> s.size, previous |-> p]
    OBVIOUS
  <2>3. gs[i] = Data2(s, base, chunks, o, context) \o <<e>>
    BY <2>1, <2>2, <2>b
  <2>4. Listed(Data2(s, base, chunks, o, context))
    <3>1. CASE s.type = "sectors"
      <4>1. Data2(s, base, chunks, o, context) = ChunkPieces(chunks)
        BY <3>1 DEF Data2
      <4> QED
        BY <4>1, ChunksArePieces
    <3>2. CASE s.type # "sectors"
      <4>1. PICK p2 : Data2(s, base, chunks, o, context) = <<p2>>
        BY <3>2 DEF Data2
      <4> QED
        BY <4>1, PairOfPieces
    <3> QED
      BY <3>1, <3>2
  <2>5. Listed(<<e>>)
    BY PairOfPieces
  <2>6. PICK t : t = Data2(s, base, chunks, o, context) \o <<e>>
    OBVIOUS
  <2>7. Listed(t)
    BY <2>4, <2>5, <2>6, PiecesBehind DEF After
  <2> QED
    BY <2>3, <2>6, <2>7
<1>4. PICK V : gs \in Seq(V) /\ Len(gs) = l
  <2>1. gs = [i \in 1..l |-> gs[i]]
    BY <1>1
  <2>2. PICK V : V = {gs[i] : i \in 1..l}
    OBVIOUS
  <2>3. gs \in [1..l -> V]
    BY <2>1, <2>2
  <2>4. gs \in Seq(V) /\ Len(gs) = l
    BY <2>3, ListFrom
  <2> QED
    BY <2>4
<1> DEFINE P == UNION {Range(gs[k]) : k \in 1..l}
<1>5. ASSUME NEW k \in 1..l PROVE gs[k] \in Seq(P)
  <2>1. Listed(gs[k]) /\ Range(gs[k]) \subseteq P
    BY <1>3
  <2> HIDE DEF P
  <2> QED
    BY <2>1, ListedIn
<1> HIDE DEF P
<1>6. gs \in Seq(Seq(P))
  <2>1. gs = [i \in 1..l |-> gs[i]]
    BY <1>1
  <2>2. gs \in [1..l -> Seq(P)]
    BY <1>5, <2>1
  <2> QED
    BY <2>2, ListFrom
<1>7. PICK f \in [0..l -> Seq(P)] :
              /\ f[0] = <<>> /\ \A k \in 1..l : f[k] = f[k - 1] \o gs[k]
              /\ FlattenSeq(gs) = f[l]
  BY <1>4, <1>6, FlattenRuns
<1> DEFINE Good(k) == /\ Laid2(f[k], n, sectors, chunk)
                      /\ k > 0 /\ sections[k].type = "sectors" => Ends2(f[k], n)
           T == {k \in Nat : k <= l => Good(k)}
<1>8. 0 \in T
  <2>1. Laid2(f[0], n, sectors, chunk)
    BY <1>7, Laid2None
  <2> QED
    BY <2>1
<1>9. ASSUME NEW k \in Nat, k \in T PROVE k + 1 \in T
  <2> SUFFICES ASSUME k + 1 <= l PROVE Good(k + 1)
    OBVIOUS
  <2>1. k + 1 \in 1..l /\ (k + 1) - 1 = k /\ k <= l
    BY <1>1
  <2>2. Good(k)
    BY <1>9, <2>1
  <2>3. f[k + 1] = f[k] \o gs[k + 1]
    BY <1>7, <2>1
  <2>4. sections[k + 1].type = "table" => Ends2(f[k], n)
    <3> SUFFICES ASSUME sections[k + 1].type = "table" PROVE Ends2(f[k], n)
      OBVIOUS
    <3>1. (k + 1) - 1 \in DOMAIN sections /\ sections[(k + 1) - 1].type = "sectors"
      BY <1>1, <2>1 DEF Ordered
    <3>2. k > 0 /\ sections[k].type = "sectors"
      BY <1>1, <2>1, <3>1
    <3> QED
      BY <2>2, <3>2
  <2>5. Laid2(f[k], n, sectors, chunk)
    BY <2>2
  <2> HIDE DEF Good
  <2>6. /\ Laid2(f[k] \o gs[k + 1], n, sectors, chunk)
        /\ sections[k + 1].type = "sectors" => Ends2(f[k] \o gs[k + 1], n)
    BY <1>2, <2>1, <2>4, <2>5
  <2> QED
    BY <2>3, <2>6 DEF Good
<1> HIDE DEF T
<1>10. Nat \subseteq T
  BY <1>8, <1>9, SetInduction
<1>11. Laid2(f[l], n, sectors, chunk)
  <2>1. l \in T /\ l <= l
    BY <1>1, <1>10
  <2> QED
    BY <2>1 DEF T
<1> QED
  BY <1>7, <1>11

\* An EWF2 segment.
LEMMA Ewf2Laid ==
    ASSUME NEW C, HaveSizes(C), NEW chunks \in Seq(C), NEW o, NEW context,
           context.terminal \in {"done", "next"}
    PROVE  Begun2(Ewf2Pieces(chunks, o, context), Head2(o, context), Len(chunks),
                  context.sectors, o.chunk)
<1>1. PICK sections : sections = Sections2(chunks, o, context)
  OBVIOUS
<1>2. Ordered(sections)
  BY <1>1, SectionsOrdered
<1> DEFINE sizes == [i \in DOMAIN sections |-> sections[i].size + Desc2]
           planned(i) == FileHeader2 + TotalOf(SubSeq(sizes, 1, i - 1))
           previous(i) == IF i = 1 THEN 0 ELSE planned(i) - Desc2
           base == planned(CHOOSE i \in DOMAIN sections : sections[i].type = "sectors")
           gs == [i \in DOMAIN sections |->
                    Data2(sections[i], base, chunks, o, context)
                    \o <<[is |-> "descriptor", len |-> Desc2, type |-> sections[i].type,
                          size |-> sections[i].size, previous |-> previous(i)]>>]
           head == Head2(o, context)
<1>3. Ewf2Pieces(chunks, o, context) = <<head>> \o FlattenSeq(gs)
  BY <1>1 DEF Ewf2Pieces, SectionPieces, Head2
<1>4. Laid2(FlattenSeq(gs), Len(chunks), context.sectors, o.chunk)
  <2>1. PICK n, v, w : n = Len(chunks) /\ v = context.sectors /\ w = o.chunk
    OBVIOUS
  <2>2. PICK b, g : b = base /\ g = gs
    OBVIOUS
  <2>3. \A i \in DOMAIN sections : OfSection(g[i], sections[i], b, chunks, o, context)
    <3> SUFFICES ASSUME NEW i \in DOMAIN sections
                 PROVE  OfSection(g[i], sections[i], b, chunks, o, context)
      OBVIOUS
    <3>1. PICK p : p = previous(i)
      OBVIOUS
    <3>2. g[i] = Data2(sections[i], b, chunks, o, context)
                   \o <<[is |-> "descriptor", len |-> Desc2, type |-> sections[i].type,
                         size |-> sections[i].size, previous |-> p]>>
      BY <2>2, <3>1
    <3> HIDE DEF base, gs
    <3> QED
      BY <3>2 DEF OfSection
  <2>4. g = [i \in DOMAIN sections |-> g[i]]
    BY <2>2
  <2> HIDE DEF base, gs
  <2>5. Laid2(FlattenSeq(g), n, v, w)
    BY <1>2, <2>1, <2>3, <2>4, SectionsLaid
  <2> QED
    BY <2>1, <2>2, <2>5
<1> HIDE DEF gs
<1>5. Laid2(<<head>>, Len(chunks), context.sectors, o.chunk)
  <2>1. Plain2(head, context.sectors, o.chunk)
    BY DEF Head2, Plain2, IsDescriptor
  <2> HIDE DEF head
  <2> QED
    BY <2>1, Laid2One
<1> HIDE DEF head
<1>6. Laid2(<<head>> \o FlattenSeq(gs), Len(chunks), context.sectors, o.chunk)
  BY <1>4, <1>5, Laid2Concat
<1>7. PICK s : s = <<head>> \o FlattenSeq(gs)
  OBVIOUS
<1>8. Listed(<<head>>) /\ Len(<<head>>) = 1 /\ <<head>>[1] = head
  BY PairOfPieces
<1>9. After(s, <<head>>, FlattenSeq(gs))
  BY <1>4, <1>7, <1>8, PiecesBehind DEF Laid2
<1>10. Len(s) \in Nat \ {0} /\ s[1] = head
  BY <1>8, <1>9 DEF After
<1> QED
  BY <1>3, <1>6, <1>7, <1>10 DEF Begun2, head

----------------------------------------------------------------------------
(* What the segments say that the writers laid out                         *)

\* The least of a set of numbers is in it.
LEMMA LeastIn ==
    ASSUME NEW S, S \subseteq Nat, S # {}
    PROVE  Min(S) \in S
<1>1. \E x \in S : \A y \in S : x <= y
  BY LeastExists
<1> QED
  BY <1>1 DEF Min

\* The section of a type that comes first.
LEMMA FirstSection ==
    ASSUME NEW S, NEW sections \in Seq(S), NEW types, NEW media,
           media = FirstOf(sections, types), media # <<>>
    PROVE  \E i \in DOMAIN sections : media[1] = sections[i] /\ sections[i].type \in types
<1>1. PICK all : all = {i \in DOMAIN sections : sections[i].type \in types}
  OBVIOUS
<1>2. all # {} /\ media = <<sections[Min(all)]>>
  BY <1>1 DEF FirstOf
<1>3. all \subseteq Nat
  BY <1>1
<1>4. Min(all) \in all
  BY <1>2, <1>3, LeastIn
<1>5. PICK k \in DOMAIN sections : k = Min(all) /\ sections[k].type \in types
  BY <1>1, <1>4
<1>6. media[1] = sections[k]
  BY <1>2, <1>5
<1> QED
  BY <1>5, <1>6

\* A segment that is taken says its number and the geometry, and has ranges of no
\* more than n chunks.
Says(p, number, sectors, chunk, n) ==
    p.ok =>
        /\ p.number = number /\ p.geometry.sectors = sectors /\ p.geometry.chunk = chunk
        /\ p.chunks = CountsOf(p.ranges) /\ AtMost(p.ranges, n)
\* So does a file, whatever number and first chunk it is taken to have.
Parses(file, number, sectors, chunk, n) ==
    \A segment : \A first \in Nat :
        Says(ParseSegment(file, Scan(file), segment, first), number, sectors, chunk, n)

\* What the summary of a segment says of it (segment_summary).
LEMMA SummarySays ==
    ASSUME NEW header, NEW geometry, NEW sections, NEW ranges, NEW n, AtMost(ranges, n)
    PROVE  Says(Summary(header, geometry, sections, ranges), header.number, geometry.sectors,
                geometry.chunk, n)
<1>1. PICK p : p = Summary(header, geometry, sections, ranges)
  OBVIOUS
<1>2. CASE \E i \in DOMAIN ranges : ranges[i].broken
  <2>1. p = BadSegment
    BY <1>1, <1>2 DEF Summary
  <2>2. ~p.ok
    BY <2>1 DEF BadSegment
  <2> QED
    BY <1>1, <2>2 DEF Says
<1>3. CASE ~\E i \in DOMAIN ranges : ranges[i].broken
  <2>1. PICK ok, profile, method, complete :
           p = [ok |-> ok, number |-> header.number, geometry |-> geometry,
                profile |-> profile, method |-> method, complete |-> complete,
                chunks |-> CountsOf(ranges), ranges |-> ranges]
    BY <1>1, <1>3 DEF Summary, CountsOf
  <2>2. p.number = header.number /\ p.geometry = geometry /\ p.ranges = ranges
        /\ p.chunks = CountsOf(ranges)
    BY <2>1
  <2> QED
    BY <1>1, <2>2 DEF Says
<1> QED
  BY <1>2, <1>3

\* So it does if its sections' ranges do.
LEMMA SectionsSay ==
    ASSUME NEW s, NEW file, NEW idx, Indexed(s, file, idx), NEW sectors, NEW chunk,
           SameMedia(s, sectors, chunk), NEW number, file.at[0].number = number, NEW n,
           NEW S, NEW sections \in Seq(S), NEW segment, NEW first,
           Intact(sections) =>
               AtMost(IF file.at[0].format = "ewf1"
                      THEN RangesEwf1(file, sections, segment, first)
                      ELSE RangesEwf2(file, sections, segment), n)
    PROVE  Says(ParseSegment(file, sections, segment, first), number, sectors, chunk, n)
<1>1. PICK media : media = FirstOf(sections, {"volume", "device"})
  OBVIOUS
<1>2. PICK p : p = ParseSections(file, sections, media, segment, first)
  OBVIOUS
<1>3. p = ParseSegment(file, sections, segment, first)
  BY <1>1, <1>2 DEF ParseSegment
<1> SUFFICES ASSUME p.ok PROVE Says(p, number, sectors, chunk, n)
  BY <1>3 DEF Says
<1>4. p # BadSegment
  BY DEF BadSegment
<1>5. /\ Intact(sections) /\ media # <<>> /\ Found(file, media[1].data, media[1].type)
      /\ p = Summary(file.at[0], file.at[media[1].data], sections,
                     IF file.at[0].format = "ewf1"
                     THEN RangesEwf1(file, sections, segment, first)
                     ELSE RangesEwf2(file, sections, segment))
  BY <1>2, <1>4 DEF ParseSections
<1>6. media[1].type \in {"volume", "device"}
  BY <1>1, <1>5, FirstSection
<1>7. PICK g : g = file.at[media[1].data]
  OBVIOUS
<1>8. g.sectors = sectors /\ g.chunk = chunk
  <2>1. media[1].data \in DOMAIN file.at /\ g.is = media[1].type
    BY <1>5, <1>7 DEF Found
  <2>2. PICK k \in DOMAIN s : g = s[k]
    BY <1>7, <2>1 DEF Indexed
  <2> QED
    BY <1>6, <2>1, <2>2 DEF SameMedia
<1>9. PICK ranges : ranges = IF file.at[0].format = "ewf1"
                             THEN RangesEwf1(file, sections, segment, first)
                             ELSE RangesEwf2(file, sections, segment)
  OBVIOUS
<1>10. AtMost(ranges, n)
  BY <1>5, <1>9
<1>11. Says(Summary(file.at[0], g, sections, ranges), file.at[0].number, g.sectors, g.chunk, n)
  BY <1>10, SummarySays
<1> QED
  BY <1>5, <1>7, <1>8, <1>9, <1>11

\* parse_ewf1_segment(), of a segment as it was written.
LEMMA Ewf1Parses ==
    ASSUME NEW C, HaveSizes(C), NEW chunks \in Seq(C), NEW o, NEW context,
           context.terminal \in {"done", "next"}
    PROVE  Parses(Ewf1Segment(chunks, o, context), context.number, context.sectors, o.chunk,
                  Len(chunks))
<1>1. PICK s, file : s = Ewf1Pieces(chunks, o, context) /\ file = Assemble(s)
  OBVIOUS
<1>2. file = Ewf1Segment(chunks, o, context)
  BY <1>1 DEF Ewf1Segment
<1>3. PICK bytes : Measured(s, bytes, Len(chunks))
  BY <1>1, Ewf1Measured
<1>4. IsPieces(s) /\ ChunksUpTo(s, Len(s)) = Len(chunks)
  BY <1>3, ChunksMeasured DEF Measured
<1>5. PICK idx : Indexed(s, file, idx)
  BY <1>1, <1>4, AssembledIndexed
<1>6. Begun1(s, Head1(context), context.sectors, o.chunk)
  BY <1>1, Ewf1Laid
<1>7. /\ Tabled1(s) /\ SameMedia(s, context.sectors, o.chunk) /\ s[1] = Head1(context)
      /\ Len(s) \in Nat \ {0} /\ DOMAIN s = 1..Len(s)
  BY <1>6 DEF Begun1, Laid1, Listed
<1>8. 1 \in DOMAIN s /\ s[1].len = FileHeader1 /\ s[1].len > 0
  BY <1>7 DEF Head1, FileHeader1
<1>9. /\ file.at[0] = s[1] /\ FileHeader1 \in DOMAIN file.at \cup {file.length}
      /\ file.length \in Nat /\ DOMAIN file.at \subseteq 0..file.length
  BY <1>5, <1>8 DEF Indexed
<1>10. file.at[0].format = "ewf1" /\ file.at[0].number = context.number
  BY <1>7, <1>9 DEF Head1
<1>11. \A at \in Descriptors(file) : file.at[at].size \in Nat \ {0}
  BY <1>5, <1>7 DEF Descriptors, Indexed, Tabled1
<1>12. PICK sections : sections = Scan(file)
  OBVIOUS
<1>13. sections \in Seq(Leading(file)) /\ Rising(sections)
  BY <1>9, <1>10, <1>11, <1>12, ScanForward DEF Scan
<1>14. ASSUME NEW segment, NEW first \in Nat
       PROVE  Says(ParseSegment(file, sections, segment, first), context.number,
                   context.sectors, o.chunk, Len(chunks))
  <2>1. Intact(sections) => AtMost(RangesEwf1(file, sections, segment, first), Len(chunks))
    <3> SUFFICES ASSUME Intact(sections)
                 PROVE  AtMost(RangesEwf1(file, sections, segment, first), Len(chunks))
      OBVIOUS
    <3>1. Len(s) \in Nat
      BY <1>7
    <3>2. AtMost(RangesEwf1(file, sections, segment, first), ChunksUpTo(s, Len(s)))
      BY <1>5, <1>7, <1>13, <3>1, RangesCounted1
    <3> QED
      BY <1>4, <3>2
  <2>2. PICK n, v, w : n = Len(chunks) /\ v = context.sectors /\ w = o.chunk
    OBVIOUS
  <2>3. Intact(sections) =>
            AtMost(IF file.at[0].format = "ewf1"
                   THEN RangesEwf1(file, sections, segment, first)
                   ELSE RangesEwf2(file, sections, segment), n)
    BY <1>10, <2>1, <2>2
  <2>4. SameMedia(s, v, w)
    BY <1>7, <2>2
  <2>5. Says(ParseSegment(file, sections, segment, first), context.number, v, w, n)
    BY <1>5, <1>10, <1>13, <2>3, <2>4, SectionsSay
  <2> QED
    BY <2>2, <2>5
<1> QED
  BY <1>2, <1>12, <1>14 DEF Parses

\* parse_ewf2_segment(), of a segment as it was written.
LEMMA Ewf2Parses ==
    ASSUME NEW C, HaveSizes(C), NEW chunks \in Seq(C), NEW o, NEW context,
           context.terminal \in {"done", "next"}
    PROVE  Parses(Ewf2Segment(chunks, o, context), context.number, context.sectors, o.chunk,
                  Len(chunks))
<1>1. PICK s, file : s = Ewf2Pieces(chunks, o, context) /\ file = Assemble(s)
  OBVIOUS
<1>2. file = Ewf2Segment(chunks, o, context)
  BY <1>1 DEF Ewf2Segment
<1>3. PICK bytes : Measured(s, bytes, Len(chunks))
  BY <1>1, Ewf2Measured
<1>4. IsPieces(s) /\ ChunksUpTo(s, Len(s)) = Len(chunks)
  BY <1>3, ChunksMeasured DEF Measured
<1>5. PICK idx : Indexed(s, file, idx)
  BY <1>1, <1>4, AssembledIndexed
<1>6. Begun2(s, Head2(o, context), Len(chunks), context.sectors, o.chunk)
  BY <1>1, Ewf2Laid
<1>7. /\ Tabled2(s, Len(chunks)) /\ SameMedia(s, context.sectors, o.chunk) /\ s[1] = Head2(o, context)
      /\ Len(s) \in Nat \ {0} /\ DOMAIN s = 1..Len(s)
  BY <1>6 DEF Begun2, Laid2, Listed
<1>8. 1 \in DOMAIN s /\ s[1].len = FileHeader2 /\ s[1].len > 0
  BY <1>7 DEF Head2, FileHeader2
<1>9. /\ file.at[0] = s[1]
      /\ file.length \in Nat /\ DOMAIN file.at \subseteq 0..file.length
  BY <1>5, <1>8 DEF Indexed
<1>10. file.at[0].format = "ewf2" /\ file.at[0].number = context.number
  BY <1>7, <1>9 DEF Head2
<1>12. PICK sections : sections = Scan(file)
  OBVIOUS
<1>13. sections \in Seq(Trailing(file)) /\ Rising(sections)
  BY <1>9, <1>10, <1>12, ScanBackward DEF Scan
<1>14. ASSUME NEW segment, NEW first \in Nat
       PROVE  Says(ParseSegment(file, sections, segment, first), context.number,
                   context.sectors, o.chunk, Len(chunks))
  <2>1. Intact(sections) => AtMost(RangesEwf2(file, sections, segment), Len(chunks))
    <3> SUFFICES ASSUME Intact(sections)
                 PROVE  AtMost(RangesEwf2(file, sections, segment), Len(chunks))
      OBVIOUS
    <3>1. Len(s) \in Nat
      BY <1>7
    <3>2. PICK n \in Nat : n = Len(chunks)
      OBVIOUS
    <3>3. Tabled2(s, n)
      BY <1>7, <3>2
    <3>4. AtMost(RangesEwf2(file, sections, segment), ChunksUpTo(s, Len(s)))
      BY <1>5, <1>7, <1>13, <3>1, <3>3, RangesCounted2
    <3> QED
      BY <1>4, <3>4
  <2>2. PICK n, v, w : n = Len(chunks) /\ v = context.sectors /\ w = o.chunk
    OBVIOUS
  <2>3. Intact(sections) =>
            AtMost(IF file.at[0].format = "ewf1"
                   THEN RangesEwf1(file, sections, segment, first)
                   ELSE RangesEwf2(file, sections, segment), n)
    BY <1>10, <2>1, <2>2
  <2>4. SameMedia(s, v, w)
    BY <1>7, <2>2
  <2>5. Says(ParseSegment(file, sections, segment, first), context.number, v, w, n)
    BY <1>5, <1>10, <1>13, <2>3, <2>4, SectionsSay
  <2> QED
    BY <2>2, <2>5
<1> QED
  BY <1>2, <1>12, <1>14 DEF Parses

----------------------------------------------------------------------------
(* Opening segments                                                        *)

\* The ranges of an open image are of all its chunks.
LEMMA CoversSum ==
    ASSUME NEW R, \A r \in R : r.count \in Nat, NEW ranges \in Seq(R), NEW n, Covers(ranges, n)
    PROVE  CountsOf(ranges) = n
<1>1. PICK N \in Nat : N = Len(ranges) /\ DOMAIN ranges = 1..N
  OBVIOUS
<1> DEFINE end(i) == IF i = 0 THEN 0 ELSE ranges[i].first + ranges[i].count
           h == [k \in 0..N |-> end(k)]
           g == [i \in DOMAIN ranges |-> ranges[i].count]
<1>2. g \in Seq(Nat) /\ Len(g) = N /\ \A i \in 1..N : g[i] = ranges[i].count /\ ranges[i] \in R
  <2>1. \A i \in 1..N : ranges[i] \in R /\ ranges[i].count \in Nat
    BY <1>1
  <2>2. g \in [1..N -> Nat]
    BY <1>1, <2>1
  <2> HIDE DEF g
  <2>3. g \in Seq(Nat) /\ Len(g) = N
    BY <2>2, ListFrom
  <2> QED
    BY <1>1, <2>1, <2>3 DEF g
<1>3. (\A i \in DOMAIN ranges : ranges[i].first = end(i - 1)) /\ end(N) = n
  BY <1>1 DEF Covers
<1>4. \A k \in 0..N : h[k] = end(k)
  OBVIOUS
<1> HIDE DEF h, g
<1>5. h[0] = 0
  BY <1>1, <1>4
<1>6. ASSUME NEW k \in 1..Len(g) PROVE h[k] = h[k - 1] + g[k]
  <2>1. k \in 1..N /\ k \in 0..N /\ k - 1 \in 0..N /\ k # 0
    BY <1>1, <1>2
  <2>2. ranges[k].first = end(k - 1) /\ end(k) = ranges[k].first + ranges[k].count
    BY <1>1, <1>3, <2>1
  <2> HIDE DEF end
  <2>3. h[k] = end(k) /\ h[k - 1] = end(k - 1) /\ g[k] = ranges[k].count
    BY <1>2, <1>4, <2>1
  <2> QED
    BY <2>2, <2>3
<1>7. TotalOf(g) = h[N]
  BY <1>2, <1>5, <1>6, TotalUnique
<1> QED
  BY <1>1, <1>3, <1>4, <1>7 DEF CountsOf, g

\* Fewer numbers than all, and none of them greater, sum to less.
LEMMA PartLess ==
    ASSUME NEW g \in Seq(Nat), \A k \in DOMAIN g : g[k] > 0,
           NEW e \in Seq(Nat), Len(e) < Len(g), \A k \in DOMAIN e : e[k] <= g[k]
    PROVE  TotalOf(e) < TotalOf(g)
<1>1. PICK n \in Nat, m \in Nat : n = Len(e) /\ m = Len(g)
  OBVIOUS
<1>2. DOMAIN e = 1..n /\ DOMAIN g = 1..m /\ n < m
  BY <1>1
<1>3. (\A k \in 1..n : e[k] \in Nat) /\ \A k \in 1..m : g[k] \in Nat
  BY <1>2
<1>4. PICK f \in [0..m -> Nat] :
            f[0] = 0 /\ (\A k \in 1..m : f[k] = f[k - 1] + g[k]) /\ TotalOf(g) = f[m]
  BY <1>1, TotalGrows
<1>5. PICK h \in [0..n -> Nat] :
            h[0] = 0 /\ (\A k \in 1..n : h[k] = h[k - 1] + e[k]) /\ TotalOf(e) = h[n]
  BY <1>1, TotalGrows
<1>6. \A k \in 0..m : f[k] \in Nat
  OBVIOUS
<1>7. \A k \in 0..n : h[k] \in Nat
  OBVIOUS
<1> DEFINE A(k) == k <= n => h[k] <= f[k]
           B(k) == k > n /\ k <= m => h[n] < f[k]
           T == {k \in Nat : A(k) /\ B(k)}
<1>8. 0 \in T
  BY <1>1, <1>4, <1>5
<1>9. ASSUME NEW k \in Nat, k \in T PROVE k + 1 \in T
  <2>1. A(k) /\ B(k)
    BY <1>9
  <2>2. ASSUME k + 1 <= n PROVE h[k + 1] <= f[k + 1]
    <3>1. k + 1 \in 1..n /\ k + 1 \in 1..m /\ (k + 1) - 1 = k /\ k \in 0..n /\ k \in 0..m
      BY <1>2, <2>2
    <3>2. h[k + 1] = h[k] + e[k + 1] /\ f[k + 1] = f[k] + g[k + 1]
      BY <1>4, <1>5, <3>1
    <3>3. h[k] <= f[k] /\ e[k + 1] <= g[k + 1]
      <4>1. k <= n /\ k + 1 \in DOMAIN e
        BY <1>2, <2>2, <3>1
      <4> QED
        BY <2>1, <4>1
    <3>4. h[k] \in Nat /\ f[k] \in Nat /\ e[k + 1] \in Nat /\ g[k + 1] \in Nat
      BY <1>3, <1>6, <1>7, <3>1
    <3>5. PICK a \in Nat, b \in Nat, x \in Nat, y \in Nat :
             a = h[k] /\ b = f[k] /\ x = e[k + 1] /\ y = g[k + 1]
      BY <3>4
    <3>a. a <= b /\ x <= y
      BY <3>3, <3>5
    <3>6. a + x <= b + y
      BY <3>a
    <3> QED
      BY <3>2, <3>5, <3>6
  <2>3. ASSUME k + 1 > n, k + 1 <= m PROVE h[n] < f[k + 1]
    <3>1. k + 1 \in 1..m /\ (k + 1) - 1 = k /\ k \in 0..m /\ n \in 0..n
      BY <1>2, <2>3
    <3>2. f[k + 1] = f[k] + g[k + 1] /\ g[k + 1] > 0
      BY <1>2, <1>4, <3>1
    <3>3. h[n] <= f[k]
      <4>1. CASE k = n
        BY <2>1, <4>1
      <4>2. CASE k > n
        <5>1. h[n] < f[k]
          BY <2>1, <3>1, <4>2
        <5>2. PICK a \in Nat, b \in Nat : a = h[n] /\ b = f[k]
          BY <1>6, <1>7, <3>1
        <5>3. a < b
          BY <5>1, <5>2
        <5>4. a <= b
          BY <5>3
        <5> QED
          BY <5>2, <5>4
      <4> QED
        BY <2>3, <4>1, <4>2
    <3>4. PICK a \in Nat, b \in Nat, x \in Nat : a = h[n] /\ b = f[k] /\ x = g[k + 1]
      BY <1>3, <1>6, <1>7, <3>1
    <3>5. a <= b /\ x > 0
      BY <3>2, <3>3, <3>4
    <3>6. a < b + x
      BY <3>5
    <3> QED
      BY <3>2, <3>4, <3>6
  <2> QED
    BY <2>2, <2>3
<1> HIDE DEF A, B
<1>10. m \in T
  BY <1>8, <1>9, SetInduction
<1>11. B(m)
  BY <1>10
<1> QED
  BY <1>1, <1>2, <1>4, <1>5, <1>11 DEF B

\* What ParseNext adds for a segment that parses.
LEMMA ParsesNext ==
    ASSUME NEW X, NEW acc, acc.parsed \in Seq(X), acc.next \in Nat,
           NEW file, NEW number, NEW sectors, NEW chunk, NEW n,
           Parses(file, number, sectors, chunk, n)
    PROVE  \E s : /\ ParseNext(acc, file).parsed = Append(acc.parsed, s)
                  /\ ParseNext(acc, file).next \in Nat
                  /\ s = ParseSegment(file, Scan(file), Len(acc.parsed) + 1, acc.next)
                  /\ Says(s, number, sectors, chunk, n)
                  /\ ParseNext(acc, file) = [parsed |-> ParseNext(acc, file).parsed,
                                             next |-> ParseNext(acc, file).next]
<1>1. PICK s : s = ParseSegment(file, Scan(file), Len(acc.parsed) + 1, acc.next)
  OBVIOUS
<1>2. Says(s, number, sectors, chunk, n)
  BY <1>1 DEF Parses
<1>3. PICK next : next = acc.next + IF s.ok THEN s.chunks ELSE 0
  OBVIOUS
<1>4. ParseNext(acc, file) = [parsed |-> Append(acc.parsed, s), next |-> next]
  BY <1>1, <1>3 DEF ParseNext
<1>5. next \in Nat
  <2>1. CASE s.ok
    <3>1. s.chunks = CountsOf(s.ranges) /\ AtMost(s.ranges, n)
      BY <1>2, <2>1 DEF Says
    <3>2. PICK R : s.ranges \in Seq(R) /\ \A r \in R : r.count \in Nat
      BY <3>1 DEF AtMost
    <3>3. CountsOf(s.ranges) \in Nat
      BY <3>2, CountsWeigh
    <3> QED
      BY <1>3, <2>1, <3>1, <3>3
  <2>2. CASE ~s.ok
    BY <1>3, <2>2
  <2> QED
    BY <2>1, <2>2
<1> QED
  BY <1>1, <1>2, <1>4, <1>5

\* Every segment is parsed in turn, as the segment it is given as.
LEMMA AllParse ==
    ASSUME NEW N \in Nat, NEW files, Len(files) = N, NEW number, NEW sectors, NEW chunk, NEW count,
           \A i \in 1..N : Parses(files[i], number[i], sectors, chunk, count[i])
    PROVE  \E X : /\ ParseAll(files) \in Seq(X) /\ Len(ParseAll(files)) = N
                  /\ \A i \in 1..N : Says(ParseAll(files)[i], number[i], sectors, chunk, count[i])
<1> DEFINE X == {ParseSegment(files[i], Scan(files[i]), j, k) : i \in 1..N, j \in Nat, k \in Nat}
           V == [parsed : Seq(X), next : Nat]
           none == [parsed |-> <<>>, next |-> 0]
           upTo[n \in 0..Len(files)] ==
             IF n = 0 THEN [parsed |-> <<>>, next |-> 0] ELSE ParseNext(upTo[n - 1], files[n])
           Body(f, n) == IF n = 0 THEN none ELSE ParseNext(f[n - 1], files[n])
<1>1. ParseAll(files) = upTo[N].parsed
  BY DEF ParseAll
<1>2. ASSUME NEW n \in 1..N, NEW acc \in V
      PROVE  /\ ParseNext(acc, files[n]) \in V
             /\ \E s \in X : /\ ParseNext(acc, files[n]).parsed = Append(acc.parsed, s)
                            /\ Says(s, number[n], sectors, chunk, count[n])
  <2>1. PICK file : file = files[n]
    OBVIOUS
  <2>2. acc.parsed \in Seq(X) /\ acc.next \in Nat
    OBVIOUS
  <2>3. Len(acc.parsed) + 1 \in Nat
    BY <2>2
  <2>a. PICK j \in Nat, k \in Nat : j = Len(acc.parsed) + 1 /\ k = acc.next
    BY <2>2, <2>3
  <2>b. ParseSegment(files[n], Scan(files[n]), j, k) \in X
    OBVIOUS
  <2>4. ParseSegment(file, Scan(file), Len(acc.parsed) + 1, acc.next) \in X
    BY <2>1, <2>a, <2>b
  <2> HIDE DEF X
  <2>5. Parses(file, number[n], sectors, chunk, count[n])
    BY <2>1
  <2>6. PICK s : /\ ParseNext(acc, file).parsed = Append(acc.parsed, s)
                 /\ ParseNext(acc, file).next \in Nat
                 /\ s = ParseSegment(file, Scan(file), Len(acc.parsed) + 1, acc.next)
                 /\ Says(s, number[n], sectors, chunk, count[n])
                 /\ ParseNext(acc, file) = [parsed |-> ParseNext(acc, file).parsed,
                                            next |-> ParseNext(acc, file).next]
    BY <2>2, <2>5, ParsesNext
  <2>7. s \in X
    BY <2>4, <2>6
  <2>8. Append(acc.parsed, s) \in Seq(X)
    BY <2>2, <2>7
  <2> QED
    BY <2>1, <2>6, <2>7, <2>8
<1>3. none \in V
  OBVIOUS
<1> HIDE DEF X
<1>4. \E f \in [0..N -> V] : f = [n \in 0..N |-> Body(f, n)]
  <2> DEFINE step == [n \in 1..N |-> [acc \in V |-> ParseNext(acc, files[n])]]
  <2>1. step \in [1..N -> [V -> V]]
    <3> HIDE DEF V
    <3> QED
      BY <1>2
  <2>2. \A n \in 1..N, acc \in V : step[n][acc] = ParseNext(acc, files[n])
    OBVIOUS
  <2> HIDE DEF step, V, none
  <2>3. PICK f \in [0..N -> V] : f = [n \in 0..N |-> IF n = 0 THEN none ELSE step[n][f[n - 1]]]
    BY <1>3, <2>1, Recursion
  <2>4. ASSUME NEW n \in 0..N PROVE f[n] = Body(f, n)
    <3>1. f[n] = IF n = 0 THEN none ELSE step[n][f[n - 1]]
      BY <2>3
    <3>2. n # 0 => n \in 1..N /\ n - 1 \in 0..N
      OBVIOUS
    <3>3. n # 0 => f[n - 1] \in V
      BY <3>2
    <3> QED
      BY <2>2, <3>1, <3>2, <3>3
  <2>5. f = [n \in 0..N |-> f[n]]
    OBVIOUS
  <2> HIDE DEF Body
  <2>6. f = [n \in 0..N |-> Body(f, n)]
    BY <2>4, <2>5, Zenon
  <2> QED
    BY <2>6
<1>5. \A n \in 0..N : upTo[n] = Body(upTo, n)
  <2>1. \E g : g = [n \in 0..N |-> Body(g, n)]
    <3> HIDE DEF Body
    <3> QED
      BY <1>4, Zenon
  <2>2. upTo = [n \in 0..N |-> Body(upTo, n)]
    BY <2>1
  <2> HIDE DEF upTo, Body
  <2> QED
    BY <2>2, Zenon
<1> HIDE DEF upTo
<1>6. upTo[0] = none /\ \A n \in 1..N : upTo[n] = ParseNext(upTo[n - 1], files[n])
  <2>1. 0 \in 0..N /\ \A n \in 1..N : n \in 0..N /\ n # 0
    OBVIOUS
  <2> QED
    BY <1>5, <2>1
<1> DEFINE Good(n, acc) ==
              /\ acc \in V /\ Len(acc.parsed) = n
              /\ \A i \in 1..n : Says(acc.parsed[i], number[i], sectors, chunk, count[i])
           T == {n \in Nat : n <= N => Good(n, upTo[n])}
<1>7. 0 \in T
  <2>1. none.parsed = <<>> /\ Len(<<>>) = 0
    OBVIOUS
  <2> HIDE DEF none, V
  <2> QED
    BY <1>3, <1>6, <2>1
<1>8. ASSUME NEW n \in Nat, n \in T PROVE n + 1 \in T
  <2> SUFFICES ASSUME n + 1 <= N PROVE Good(n + 1, upTo[n + 1])
    OBVIOUS
  <2>1. n + 1 \in 1..N /\ (n + 1) - 1 = n /\ n <= N
    OBVIOUS
  <2>2. PICK acc : acc = upTo[n] /\ Good(n, acc)
    BY <1>8, <2>1
  <2>3. PICK next : next = upTo[n + 1] /\ next = ParseNext(acc, files[n + 1])
    BY <1>6, <2>1, <2>2
  <2>4. acc \in V
    BY <2>2
  <2>5. /\ next \in V
        /\ \E s \in X : /\ next.parsed = Append(acc.parsed, s)
                        /\ Says(s, number[n + 1], sectors, chunk, count[n + 1])
    BY <1>2, <2>1, <2>3, <2>4
  <2>6. PICK s \in X : /\ next.parsed = Append(acc.parsed, s)
                       /\ Says(s, number[n + 1], sectors, chunk, count[n + 1])
    BY <2>5
  <2>7. PICK u \in Seq(X) : u = acc.parsed
    BY <2>4
  <2>c. Append(u, s) \in Seq(X)
    BY <2>6, <2>7
  <2>8. PICK w \in Seq(X) : w = Append(u, s)
    BY <2>c
  <2>9. Len(u) = n /\ \A i \in 1..n : Says(u[i], number[i], sectors, chunk, count[i])
    BY <2>2, <2>7
  <2>10. Len(w) = n + 1 /\ w[n + 1] = s /\ \A i \in 1..n : w[i] = u[i]
    BY <2>8, <2>9
  <2>11. \A i \in 1..(n + 1) : i \in 1..n \/ i = n + 1
    OBVIOUS
  <2>12. \A i \in 1..(n + 1) : Says(w[i], number[i], sectors, chunk, count[i])
    BY <2>6, <2>9, <2>10, <2>11
  <2>13. next.parsed = w
    BY <2>6, <2>7, <2>8
  <2> QED
    BY <2>3, <2>5, <2>10, <2>12, <2>13
<1> HIDE DEF T, Good
<1>9. Nat \subseteq T
  BY <1>7, <1>8, SetInduction
<1>10. Good(N, upTo[N])
  <2>1. N \in T /\ N <= N
    BY <1>9
  <2> QED
    BY <2>1 DEF T
<1>11. upTo[N].parsed \in Seq(X)
  BY <1>10 DEF Good
<1> QED
  BY <1>1, <1>10, <1>11 DEF Good

\* Ranges after ranges have the chunks of all.
LEMMA CountsFlatten ==
    ASSUME NEW n \in Nat, NEW gs, gs = [i \in 1..n |-> gs[i]],
           NEW count \in Seq(Nat), n <= Len(count),
           \A i \in 1..n : AtMost(gs[i], count[i])
    PROVE  \E P : \E e \in Seq(Nat) :
              /\ \A r \in P : r.count \in Nat
              /\ FlattenSeq(gs) \in Seq(P) /\ CountsOf(FlattenSeq(gs)) = TotalOf(e)
              /\ Len(e) = n /\ \A i \in DOMAIN e : e[i] <= count[i]
<1> DEFINE P == UNION {Range(gs[k]) : k \in 1..n}
           w == Counts(P)
           e == [i \in 1..n |-> Weight(w, gs[i])]
<1>1. ASSUME NEW k \in 1..n PROVE gs[k] \in Seq(P) /\ \A r \in Range(gs[k]) : r.count \in Nat
  <2>1. PICK R : gs[k] \in Seq(R) /\ \A r \in R : r.count \in Nat
    BY DEF AtMost
  <2>2. Listed(gs[k]) /\ Range(gs[k]) \subseteq R
    <3>1. PICK t \in Seq(R) : t = gs[k]
      BY <2>1
    <3>2. Listed(t)
      BY OwnRange
    <3>3. Range(t) \subseteq R
      BY DEF Range
    <3> QED
      BY <3>1, <3>2, <3>3
  <2>3. Range(gs[k]) \subseteq P
    OBVIOUS
  <2> HIDE DEF P
  <2>4. gs[k] \in Seq(P)
    BY <2>2, <2>3, ListedIn
  <2> QED
    BY <2>1, <2>2, <2>4
<1>2. \A r \in P : r.count \in Nat
  BY <1>1
<1> HIDE DEF P
<1>3. gs \in Seq(Seq(P)) /\ Len(gs) = n
  <2>1. gs \in [1..n -> Seq(P)]
    BY <1>1
  <2> QED
    BY <2>1, ListFrom
<1>4. w \in Weights(P)
  <2>1. <<>> \in Seq(P)
    OBVIOUS
  <2> QED
    BY <1>2, <2>1, CountsWeigh
<1>5. ASSUME NEW k \in 1..n
      PROVE  e[k] \in Nat /\ e[k] <= count[k] /\ e[k] = Weight(w, gs[k])
  <2>1. PICK t \in Seq(P) : t = gs[k]
    BY <1>1
  <2>2. Weight(w, t) = CountsOf(t) /\ CountsOf(t) \in Nat
    BY <1>2, CountsWeigh
  <2>3. e[k] = Weight(w, t)
    BY <2>1
  <2>4. CountsOf(t) <= count[k]
    BY <2>1 DEF AtMost
  <2> HIDE DEF e
  <2> QED
    BY <2>1, <2>2, <2>3, <2>4
<1>6. e \in Seq(Nat) /\ Len(e) = n
  <2>1. e = [k \in 1..n |-> e[k]]
    OBVIOUS
  <2> HIDE DEF e
  <2>2. e \in [1..n -> Nat]
    BY <1>5, <2>1
  <2> QED
    BY <2>2, ListFrom
<1> HIDE DEF e, w
<1>7. FlattenSeq(gs) \in Seq(P) /\ Weight(w, FlattenSeq(gs)) = TotalOf(e)
  <2>1. \A k \in 1..Len(gs) : e[k] = Weight(w, gs[k])
    BY <1>3, <1>5
  <2>v. PICK v \in Weights(P) : v = w
    BY <1>4
  <2>g. PICK g \in Seq(Seq(P)) : g = gs
    BY <1>3
  <2>w. PICK ws \in Seq(Nat) : ws = e
    BY <1>6
  <2>2. v = w /\ g = gs /\ ws = e
    BY <2>v, <2>g, <2>w
  <2>a. Len(ws) = Len(g)
    BY <1>3, <1>6, <2>2
  <2>3. \A k \in 1..Len(g) : ws[k] = Weight(v, g[k])
    BY <2>1, <2>2
  <2>4. FlattenSeq(g) \in Seq(P) /\ Weight(v, FlattenSeq(g)) = TotalOf(ws)
    <3>1. Weighable(P, v, g, ws)
      BY <2>a, <2>3 DEF Weighable
    <3> QED
      BY <3>1, FlattenWeighs
  <2> QED
    BY <2>2, <2>4
<1>8. Weight(w, FlattenSeq(gs)) = CountsOf(FlattenSeq(gs))
  BY <1>2, <1>7, CountsWeigh DEF w
<1>9. \A i \in DOMAIN e : e[i] <= count[i]
  BY <1>5, <1>6
<1> QED
  BY <1>2, <1>6, <1>7, <1>8, <1>9

\* Segments that are numbered, as they are opened, cannot be fewer: what the ranges
\* of fewer come to is not what the media section of each of them says.
LEMMA FewerRefused ==
    ASSUME NEW N \in Nat, NEW files, DOMAIN files = 1..N, NEW sectors, NEW chunk,
           NEW count \in Seq(Nat), Len(count) = N,
           N > 1 => /\ \A i \in 1..N : count[i] > 0
                    /\ TotalOf(count) <= ChunksOf(sectors * SectorGrains, chunk),
           \A i \in 1..N : Parses(files[i], i, sectors, chunk, count[i]),
           NEW n \in 0..(N - 1), NEW from \in [1..n -> DOMAIN files]
    PROVE  ~Open([i \in 1..n |-> files[from[i]]]).ok
<1> DEFINE given == [i \in 1..n |-> files[from[i]]]
<1>1. CASE n = 0
  <2>1. given = <<>>
    BY <1>1
  <2> QED
    BY <2>1 DEF Open, NoImage
<1>2. CASE n # 0
  <2>1. n \in Nat \ {0} /\ N > 1 /\ n < N /\ n <= N
    BY <1>2
  <2>2. Len(given) = n /\ given # <<>> /\ \A i \in 1..n : given[i] = files[from[i]] /\ from[i] \in 1..N
    <3>1. given \in [1..n -> {files[j] : j \in 1..N}]
      OBVIOUS
    <3>2. Len(given) = n
      BY <2>1, <3>1, ListFrom
    <3>3. 1 \in DOMAIN given
      BY <2>1
    <3> QED
      BY <2>1, <3>2, <3>3
  <2> HIDE DEF given
  <2> DEFINE number == [i \in 1..n |-> from[i]]
             held == [i \in 1..n |-> count[from[i]]]
  <2>3. \A i \in 1..n : Parses(given[i], number[i], sectors, chunk, held[i])
    BY <2>2
  <2>a. \A i \in 1..n : number[i] = from[i] /\ held[i] = count[from[i]]
    OBVIOUS
  <2> HIDE DEF number, held
  <2>b. PICK X : /\ ParseAll(given) \in Seq(X) /\ Len(ParseAll(given)) = n
                 /\ \A i \in 1..n : Says(ParseAll(given)[i], number[i], sectors, chunk, held[i])
    BY <2>1, <2>2, <2>3, AllParse
  <2>4. PICK parsed \in Seq(X) :
           /\ parsed = ParseAll(given) /\ Len(parsed) = n
           /\ \A i \in 1..n : Says(parsed[i], number[i], sectors, chunk, held[i])
    BY <2>b
  <2>5. DOMAIN parsed = 1..n
    BY <2>4
  <2> SUFFICES ASSUME Open(given).ok PROVE FALSE
    BY DEF given
  <2>6. PICK format : Open(given) = Join(format, parsed)
    BY <2>2, <2>4 DEF Open
  <2> DEFINE gs == [i \in 1..n |-> parsed[i].ranges]
             flat == FlattenSeq(gs)
  <2>d. flat = FlattenSeq([i \in DOMAIN parsed |-> parsed[i].ranges])
    BY <2>5
  <2> HIDE DEF flat
  <2>e. PICK image : image = ImageOf(format, parsed, flat)
    OBVIOUS
  <2>f. ~NoImage.ok
    BY DEF NoImage
  <2>7. /\ \A i \in 1..n : parsed[i].ok /\ parsed[i].number = i
        /\ ImageOf(format, parsed, flat).ok
    BY <2>5, <2>6, <2>d, <2>e, <2>f DEF Join
  <2>8. ASSUME NEW i \in 1..n PROVE AtMost(gs[i], count[i])
    <3>1. Says(parsed[i], from[i], sectors, chunk, count[from[i]])
      BY <2>4, <2>a
    <3>2. parsed[i].number = from[i] /\ AtMost(parsed[i].ranges, count[from[i]])
      BY <2>7, <3>1 DEF Says
    <3>3. from[i] = i
      BY <2>7, <3>2
    <3> QED
      BY <3>2, <3>3
  <2>9. gs = [i \in 1..n |-> gs[i]]
    OBVIOUS
  <2> HIDE DEF gs
  <2>c. PICK P : \E e \in Seq(Nat) :
              /\ \A r \in P : r.count \in Nat
              /\ flat \in Seq(P) /\ CountsOf(flat) = TotalOf(e)
              /\ Len(e) = n /\ \A i \in DOMAIN e : e[i] <= count[i]
    <3>1. n \in Nat /\ n <= Len(count)
      BY <2>1
    <3>2. \A i \in 1..n : AtMost(gs[i], count[i])
      BY <2>8
    <3>3. flat = FlattenSeq(gs)
      BY DEF flat
    <3>4. \E P : \E e \in Seq(Nat) :
              /\ \A r \in P : r.count \in Nat
              /\ FlattenSeq(gs) \in Seq(P) /\ CountsOf(FlattenSeq(gs)) = TotalOf(e)
              /\ Len(e) = n /\ \A i \in DOMAIN e : e[i] <= count[i]
      BY <3>1, <3>2, <2>9, CountsFlatten, Zenon
    <3> QED
      BY <3>3, <3>4
  <2>10. PICK e \in Seq(Nat) :
              /\ \A r \in P : r.count \in Nat
              /\ flat \in Seq(P) /\ CountsOf(flat) = TotalOf(e)
              /\ Len(e) = n /\ \A i \in DOMAIN e : e[i] <= count[i]
    BY <2>c
  <2> HIDE DEF flat
  <2>11. parsed[1].geometry.sectors = sectors /\ parsed[1].geometry.chunk = chunk
    <3>1. 1 \in 1..n
      BY <2>1
    <3>2. Says(parsed[1], number[1], sectors, chunk, held[1]) /\ parsed[1].ok
      BY <2>4, <2>7, <3>1
    <3> QED
      BY <3>2 DEF Says
  <2>12. Covers(flat, ChunksOf(sectors * SectorGrains, chunk))
    BY <2>7, <2>11 DEF ImageOf, NoImage
  <2>13. CountsOf(flat) = ChunksOf(sectors * SectorGrains, chunk)
    BY <2>10, <2>12, CoversSum
  <2>14. TotalOf(e) < TotalOf(count)
    <3>1. Len(e) < Len(count) /\ \A k \in DOMAIN count : count[k] > 0
      BY <2>1, <2>10
    <3> QED
      BY <2>10, <3>1, PartLess
  <2>15. TotalOf(e) \in Nat /\ TotalOf(count) \in Nat
    BY <2>10, TotalAppend
  <2>16. TotalOf(count) <= TotalOf(e)
    BY <2>1, <2>10, <2>13
  <2> QED
    BY <2>14, <2>15, <2>16
<1> QED
  BY <1>1, <1>2

----------------------------------------------------------------------------
(* Segments that come to the media                                         *)

\* How many chunks segments have.
LensOf(segments) == [i \in DOMAIN segments |-> Len(segments[i])]
Filled(segments) == \A i \in DOMAIN segments : Len(segments[i]) > 0

\* A segment more has its chunks.
LEMMA LensAppend ==
    ASSUME NEW C, NEW segments \in Seq(Seq(C)), NEW chunks \in Seq(C)
    PROVE  /\ LensOf(segments) \in Seq(Nat) /\ Len(LensOf(segments)) = Len(segments)
           /\ LensOf(Append(segments, chunks)) = Append(LensOf(segments), Len(chunks))
           /\ TotalOf(LensOf(segments)) \in Nat
           /\ TotalOf(LensOf(Append(segments, chunks))) = TotalOf(LensOf(segments)) + Len(chunks)
<1>1. PICK n \in Nat : n = Len(segments)
  OBVIOUS
<1>2. LensOf(segments) \in Seq(Nat) /\ Len(LensOf(segments)) = n
  <2>1. LensOf(segments) \in [1..n -> Nat]
    BY <1>1 DEF LensOf
  <2> QED
    BY <2>1, ListFrom
<1>3. PICK lens \in Seq(Nat) : lens = LensOf(segments)
  BY <1>2
<1>4. Len(chunks) \in Nat
  OBVIOUS
<1>5. LensOf(Append(segments, chunks)) = Append(lens, Len(chunks))
  <2>a. Append(segments, chunks) \in Seq(Seq(C))
    OBVIOUS
  <2>1. /\ DOMAIN Append(segments, chunks) = 1..(n + 1)
        /\ \A i \in 1..n : Append(segments, chunks)[i] = segments[i] /\ i \in DOMAIN segments
        /\ Append(segments, chunks)[n + 1] = chunks
    BY <1>1
  <2>2. PICK next : next = Append(lens, Len(chunks))
    OBVIOUS
  <2>3. /\ next \in Seq(Nat) /\ DOMAIN next = 1..(n + 1) /\ next[n + 1] = Len(chunks)
        /\ \A i \in 1..n : next[i] = lens[i]
    BY <1>2, <1>3, <1>4, <2>2
  <2>4. \A i \in 1..n : lens[i] = Len(segments[i])
    BY <1>1, <1>3 DEF LensOf
  <2>5. \A i \in 1..(n + 1) : i \in 1..n \/ i = n + 1
    OBVIOUS
  <2>6. \A i \in 1..(n + 1) : next[i] = Len(Append(segments, chunks)[i])
    BY <2>1, <2>3, <2>4, <2>5
  <2>7. next = [i \in 1..(n + 1) |-> next[i]]
    BY <2>3
  <2>8. next = [i \in 1..(n + 1) |-> Len(Append(segments, chunks)[i])]
    BY <2>6, <2>7, Zenon
  <2> QED
    BY <2>1, <2>2, <2>8 DEF LensOf
<1>6. TotalOf(Append(lens, Len(chunks))) = TotalOf(lens) + Len(chunks) /\ TotalOf(lens) \in Nat
  BY <1>3, <1>4, TotalAppend
<1> QED
  BY <1>1, <1>2, <1>3, <1>5, <1>6

\* A segment more that has chunks.
LEMMA FilledAppend ==
    ASSUME NEW C, NEW segments \in Seq(Seq(C)), Filled(segments),
           NEW chunks \in Seq(C), Len(chunks) > 0
    PROVE  Filled(Append(segments, chunks))
<1>1. PICK n \in Nat : n = Len(segments)
  OBVIOUS
<1>2. /\ DOMAIN Append(segments, chunks) = 1..(n + 1)
      /\ \A i \in 1..n : Append(segments, chunks)[i] = segments[i] /\ i \in DOMAIN segments
      /\ Append(segments, chunks)[n + 1] = chunks
  BY <1>1
<1> SUFFICES ASSUME NEW i \in 1..(n + 1) PROVE Len(Append(segments, chunks)[i]) > 0
  BY <1>2 DEF Filled
<1>3. i \in 1..n \/ i = n + 1
  BY <1>1
<1> QED
  BY <1>1, <1>2, <1>3 DEF Filled

\* The segments so far have all chunks so far, and none is without one.
Partition(s, o) ==
    LET acc == SegmentedAll(s, o)
    IN  /\ TotalOf(LensOf(acc.closed)) + Len(acc.open) = Len(s)
        /\ Filled(acc.closed)
        /\ acc.closed # <<>> => Len(acc.open) > 0

\* One more chunk is in one more place.
LEMMA PartitionStep ==
    ASSUME NEW C, HaveSizes(C), NEW o, NEW s \in Seq(C), NEW c \in C, Partition(s, o)
    PROVE  Partition(Append(s, c), o)
<1>1. PICK acc \in SegmentStates(C) : acc = SegmentedAll(s, o)
  BY SegmentedSteps
<1>2. PICK after : after = SegmentedAll(Append(s, c), o) /\ after = Segmented(acc, c, o)
  BY <1>1, SegmentedSteps
<1>3. /\ TotalOf(LensOf(acc.closed)) + Len(acc.open) = Len(s)
      /\ Filled(acc.closed)
      /\ acc.closed # <<>> => Len(acc.open) > 0
  BY <1>1 DEF Partition
<1>4. PICK open \in Seq(C), closed \in Seq(Seq(C)) : open = acc.open /\ closed = acc.closed
  BY <1>1 DEF SegmentStates
<1>a. open \in Seq(C) /\ closed \in Seq(Seq(C))
  BY <1>4
<1>5. Len(Append(s, c)) = Len(s) + 1 /\ Len(s) \in Nat /\ Len(open) \in Nat
  BY <1>a
<1>6. /\ TotalOf(LensOf(closed)) \in Nat
      /\ TotalOf(LensOf(Append(closed, open))) = TotalOf(LensOf(closed)) + Len(open)
  BY <1>a, LensAppend
<1>7. CASE after.closed = Append(closed, open) /\ after.open = <<c>> /\ open # <<>>
  <2>1. Len(<<c>>) = 1 /\ Len(open) > 0
    BY <1>a, <1>7
  <2>2. Filled(Append(closed, open))
    BY <1>a, <1>3, <1>4, <2>1, FilledAppend
  <2>3. TotalOf(LensOf(after.closed)) + Len(after.open) = Len(Append(s, c))
    BY <1>3, <1>4, <1>5, <1>6, <1>7, <2>1
  <2>4. Len(after.open) > 0
    BY <1>7, <2>1
  <2> QED
    BY <1>2, <1>7, <2>2, <2>3, <2>4 DEF Partition
<1>8. CASE after.closed = closed /\ after.open = Append(open, c)
  <2>1. Len(Append(open, c)) = Len(open) + 1
    BY <1>a
  <2>2. TotalOf(LensOf(after.closed)) + Len(after.open) = Len(Append(s, c))
    <3>1. PICK t \in Nat, l \in Nat : t = TotalOf(LensOf(closed)) /\ l = Len(open)
      BY <1>5, <1>6
    <3>2. t + l = Len(s)
      BY <1>3, <1>4, <3>1
    <3>3. Len(after.open) = l + 1 /\ TotalOf(LensOf(after.closed)) = t
      BY <1>8, <2>1, <3>1
    <3> QED
      BY <1>5, <3>1, <3>2, <3>3
  <2>3. Len(after.open) > 0
    BY <1>5, <1>8, <2>1
  <2>4. Filled(after.closed)
    BY <1>3, <1>4, <1>8
  <2> QED
    BY <1>2, <2>2, <2>3, <2>4 DEF Partition
<1>9. \/ after.closed = Append(closed, open) /\ after.open = <<c>> /\ open # <<>>
      \/ after.closed = closed /\ after.open = Append(open, c)
  BY <1>2, <1>4 DEF Segmented
<1> QED
  BY <1>7, <1>8, <1>9

\* The segments of chunks have them all, and one that is not alone has some.
LEMMA SegmentsPartition ==
    ASSUME NEW C, HaveSizes(C), NEW o, NEW s \in Seq(C), NEW groups, groups = SegmentGroups(s, o)
    PROVE  /\ groups \in Seq(Seq(C)) /\ Len(groups) > 0
           /\ Len(groups) > 1 => Filled(groups) /\ TotalOf(LensOf(groups)) = Len(s)
<1>1. CASE o.limit = 0
  <2>1. groups = <<s>>
    BY <1>1 DEF SegmentGroups
  <2> QED
    BY <2>1
<1>2. CASE o.limit # 0
  <2> DEFINE T == {t \in Seq(C) : Partition(t, o)}
  <2>1. <<>> \in T
    <3>1. <<>> \in Seq(C) /\ SegmentedAll(<<>>, o) = NoSegments
      BY SegmentedSteps
    <3>2. Len(<<>>) = 0 /\ DOMAIN <<>> = {}
      OBVIOUS
    <3>3. LensOf(<<>>) = <<>>
      BY DEF LensOf
    <3>4. TotalOf(LensOf(<<>>)) + Len(<<>>) = Len(<<>>)
      BY <3>2, <3>3, TotalEmpty
    <3>5. NoSegments.closed = <<>> /\ NoSegments.open = <<>>
      BY DEF NoSegments
    <3>6. Partition(<<>>, o)
      BY <3>1, <3>2, <3>4, <3>5 DEF Partition, Filled
    <3> QED
      BY <3>1, <3>6
  <2>2. ASSUME NEW t \in Seq(C), t \in T, NEW c \in C PROVE Append(t, c) \in T
    <3>1. Append(t, c) \in Seq(C)
      OBVIOUS
    <3> QED
      BY <2>2, <3>1, PartitionStep
  <2> HIDE DEF T
  <2>3. Seq(C) \subseteq T
    BY <2>1, <2>2, AppendInduction
  <2>4. Partition(s, o)
    BY <2>3 DEF T
  <2>5. PICK acc \in SegmentStates(C) : acc = SegmentedAll(s, o)
    BY SegmentedSteps
  <2>6. PICK open \in Seq(C), closed \in Seq(Seq(C)) : open = acc.open /\ closed = acc.closed
    BY <2>5 DEF SegmentStates
  <2>a. closed \in Seq(Seq(C)) /\ open \in Seq(C)
    BY <2>6
  <2>7. groups = Append(closed, open)
    BY <1>2, <2>5, <2>6 DEF SegmentGroups
  <2>8. /\ TotalOf(LensOf(closed)) + Len(open) = Len(s)
        /\ Filled(closed)
        /\ closed # <<>> => Len(open) > 0
    BY <2>4, <2>5, <2>6 DEF Partition
  <2>9. groups \in Seq(Seq(C)) /\ Len(groups) = Len(closed) + 1 /\ Len(closed) \in Nat
    BY <2>a, <2>7
  <2>10. TotalOf(LensOf(groups)) = Len(s)
    BY <2>a, <2>7, <2>8, LensAppend
  <2>11. ASSUME Len(groups) > 1 PROVE Filled(groups)
    <3>1. closed # <<>>
      BY <2>9, <2>11
    <3> QED
      BY <2>a, <2>7, <2>8, <3>1, FilledAppend
  <2> QED
    BY <2>9, <2>10, <2>11
<1> QED
  BY <1>1, <1>2

\* Fewer files than there are do not open.
Refused(files) ==
    \A n \in 0..(Len(files) - 1) : \A from \in [1..n -> DOMAIN files] :
        ~Open([i \in 1..n |-> files[from[i]]]).ok

\* None of one is none.
LEMMA OneFileRefused ==
    ASSUME NEW files, Len(files) \in {0, 1}
    PROVE  Refused(files)
<1> SUFFICES ASSUME NEW n \in 0..(Len(files) - 1), NEW from \in [1..n -> DOMAIN files]
             PROVE  ~Open([i \in 1..n |-> files[from[i]]]).ok
  BY DEF Refused
<1>1. n = 0
  OBVIOUS
<1>2. [i \in 1..n |-> files[from[i]]] = <<>>
  BY <1>1
<1> QED
  BY <1>2 DEF Open, NoImage

\* Files of segments that are numbered, with so many chunks each as count says.
Numbered(N, files, sectors, chunk, count) ==
    /\ DOMAIN files = 1..N /\ Len(files) = N
    /\ count \in Seq(Nat) /\ Len(count) = N
    /\ N > 1 => /\ \A i \in 1..N : count[i] > 0
                /\ TotalOf(count) <= ChunksOf(sectors * SectorGrains, chunk)
    /\ \A i \in 1..N : Parses(files[i], i, sectors, chunk, count[i])

\* Of such files none can be missing.
LEMMA SegmentsRefused ==
    ASSUME NEW N \in Nat, NEW files, NEW sectors, NEW chunk, NEW count,
           Numbered(N, files, sectors, chunk, count)
    PROVE  Refused(files)
<1> SUFFICES ASSUME NEW n \in 0..(N - 1), NEW from \in [1..n -> DOMAIN files]
             PROVE  ~Open([i \in 1..n |-> files[from[i]]]).ok
  BY DEF Refused, Numbered
<1>1. PICK amount \in Seq(Nat) : amount = count
  BY DEF Numbered
<1>2. /\ DOMAIN files = 1..N /\ Len(amount) = N
      /\ N > 1 => /\ \A i \in 1..N : amount[i] > 0
                  /\ TotalOf(amount) <= ChunksOf(sectors * SectorGrains, chunk)
      /\ \A i \in 1..N : Parses(files[i], i, sectors, chunk, amount[i])
  BY <1>1 DEF Numbered
<1> QED
  BY <1>2, FewerRefused

\* The media of a spool is in whole sectors.
LEMMA SpoolSectors ==
    ASSUME Spooling
    PROVE  ChunksOf((LogicalSize \div SectorGrains) * SectorGrains, options.chunk) = ChunkCount
<1>1. PICK k \in Nat \ {0} : k = SectorGrains
  BY CodecAssumption
<1>2. MediaEnd \in Nat
  BY SpoolAssumption DEF MediaEnd, Spooling, SpoolTypeOK, Options
<1>3. (MediaEnd + k - 1) \div k \in Nat
  <2>1. PICK m \in Nat : m = MediaEnd
    BY <1>2
  <2>2. m + k - 1 \in Nat
    BY <1>1
  <2>3. (m + k - 1) \div k \in Nat
    BY <1>1, <2>2
  <2> QED
    BY <2>1, <2>3
<1>4. PICK q \in Nat : q = (MediaEnd + k - 1) \div k
  BY <1>3
<1>5. LogicalSize = q * k
  BY <1>1, <1>4 DEF LogicalSize
<1>6. (q * k) \div k = q
  <2>1. 0 \in Nat /\ 0 < k /\ q * k + 0 = q * k
    BY <1>1, <1>4
  <2>2. (q * k + 0) \div k = q
    BY <1>1, <1>4, <2>1, DivOfChunk
  <2> QED
    BY <2>1, <2>2
<1>7. (LogicalSize \div SectorGrains) * SectorGrains = LogicalSize
  BY <1>1, <1>5, <1>6
<1> QED
  BY <1>7 DEF ChunksOf, ChunkCount

\* Fewer segments than a spool was finished with do not open.
LEMMA SpoolFewer ==
    ASSUME Spooling, NEW terminal \in {"done", "next"},
           NEW groups, groups = SegmentGroups(EncodedChunks, options),
           NEW files, files = SpoolFiles(groups, Contexts(groups, terminal))
    PROVE  Refused(files)
<1>1. PICK C : HaveSizes(C) /\ EncodedChunks \in Seq(C)
  BY SpooledChunks
<1>a. PICK o : o = options
  OBVIOUS
<1>b. PICK s \in Seq(C) : s = EncodedChunks
  BY <1>1
<1>2. o = options /\ s = EncodedChunks
  BY <1>a, <1>b
<1>c. groups = SegmentGroups(s, o)
  BY <1>2
<1>3. /\ groups \in Seq(Seq(C)) /\ Len(groups) > 0
      /\ Len(groups) > 1 => Filled(groups) /\ TotalOf(LensOf(groups)) = Len(s)
  BY <1>1, <1>b, <1>c, SegmentsPartition
<1>4. PICK N \in Nat : N = Len(groups)
  BY <1>3
<1>5. DOMAIN groups = 1..N
  BY <1>3, <1>4
<1>6. PICK sectors : sectors = LogicalSize \div SectorGrains
  OBVIOUS
<1>7. ASSUME NEW i \in 1..N
      PROVE  Parses(files[i], i, sectors, o.chunk, Len(groups[i]))
  <2>1. files[i] = FileOf(groups[i], Contexts(groups, terminal)[i])
    BY <1>5 DEF SpoolFiles
  <2>2. PICK chunks \in Seq(C) : chunks = groups[i]
    BY <1>3, <1>5
  <2>3. PICK context : context = Contexts(groups, terminal)[i]
    OBVIOUS
  <2>4. /\ context.terminal \in {"done", "next"}
        /\ context.number = i /\ context.sectors = sectors
    BY <1>5, <1>6, <2>3 DEF Contexts
  <2>5. CASE IsEwf2(o.format)
    <3>1. files[i] = Ewf2Segment(chunks, o, context)
      BY <1>2, <2>1, <2>2, <2>3, <2>5 DEF FileOf
    <3>2. Parses(Ewf2Segment(chunks, o, context), context.number, context.sectors, o.chunk,
                 Len(chunks))
      BY <1>1, <2>2, <2>4, Ewf2Parses
    <3> QED
      BY <2>2, <2>4, <3>1, <3>2
  <2>6. CASE ~IsEwf2(o.format)
    <3>1. files[i] = Ewf1Segment(chunks, o, context)
      BY <1>2, <2>1, <2>2, <2>3, <2>6 DEF FileOf
    <3>2. Parses(Ewf1Segment(chunks, o, context), context.number, context.sectors, o.chunk,
                 Len(chunks))
      BY <1>1, <2>2, <2>4, Ewf1Parses
    <3> QED
      BY <2>2, <2>4, <3>1, <3>2
  <2> QED
    BY <2>5, <2>6
<1>8. LensOf(groups) \in Seq(Nat) /\ Len(LensOf(groups)) = N
  <2>1. <<>> \in Seq(C)
    OBVIOUS
  <2> QED
    BY <1>3, <1>4, <2>1, LensAppend
<1>9. PICK count \in Seq(Nat) : count = LensOf(groups)
  BY <1>8
<1>10. \A i \in 1..N : count[i] = Len(groups[i])
  BY <1>5, <1>9 DEF LensOf
<1>11. ASSUME N > 1
       PROVE  /\ \A i \in 1..N : count[i] > 0
              /\ TotalOf(count) <= ChunksOf(sectors * SectorGrains, o.chunk)
  <2>1. Filled(groups) /\ TotalOf(count) = Len(s)
    BY <1>3, <1>4, <1>9, <1>11
  <2>2. ChunkCount \in Nat
    BY ChunksInMedia
  <2>3. Len(EncodedChunks) = ChunkCount
    BY <1>1, <2>2 DEF EncodedChunks
  <2>4. ChunksOf(sectors * SectorGrains, o.chunk) = ChunkCount
    BY <1>2, <1>6, SpoolSectors
  <2>5. \A i \in 1..N : count[i] > 0
    BY <1>5, <1>10, <2>1 DEF Filled
  <2> QED
    BY <1>2, <2>1, <2>2, <2>3, <2>4, <2>5
<1>12. DOMAIN files = 1..N /\ Len(files) = N
  <2>1. DOMAIN files = 1..N /\ files = [i \in 1..N |-> FileOf(groups[i], Contexts(groups, terminal)[i])]
    BY <1>5 DEF SpoolFiles
  <2>2. PICK F : F = {files[i] : i \in 1..N}
    OBVIOUS
  <2>3. files \in [1..N -> F]
    BY <2>1, <2>2
  <2> QED
    BY <2>1, <2>3, ListFrom
<1>13. \A i \in 1..N : Parses(files[i], i, sectors, o.chunk, count[i])
  BY <1>7, <1>10
<1>14. Numbered(N, files, sectors, o.chunk, count)
  BY <1>8, <1>9, <1>11, <1>12, <1>13 DEF Numbered
<1> QED
  BY <1>14, SegmentsRefused

----------------------------------------------------------------------------
(* What the sequential writer has taken is in its chunks                   *)

\* The segments staged have as many chunks each, and not all there will be.
Regular(segments) ==
    /\ Filled(segments)
    /\ segments # <<>> =>
          /\ perSegment \in Nat /\ TotalOf(LensOf(segments)) = Len(segments) * perSegment
          /\ TotalOf(LensOf(segments)) < Total
\* The chunks there are
Held(state) == TotalOf(LensOf(state.staged)) + Len(state.group)
\* n grains were taken.
Kept(state, n) ==
    /\ Regular(state.staged)
    /\ n = opts.chunk * Held(state) + Len(state.pending)

\* A chunk more, wherever it is put.
LEMMA PushKept ==
    ASSUME NEW state \in SeqStates, Regular(state.staged),
           NEW chunks \in Seq(SeqChunks), Len(chunks) = Len(state.group) + 1
    PROVE  /\ Regular(Push(state, chunks).staged)
           /\ Held(Push(state, chunks)) = Held(state) + 1 /\ Held(state) \in Nat
           /\ Push(state, chunks).pending = state.pending
<1>1. PICK segments \in Seq(Seq(SeqChunks)) : segments = state.staged
  BY DEF SeqStates
<1>a. PICK earlier \in Seq(SeqChunks) : earlier = state.group
  BY DEF SeqStates
<1>2. segments \in Seq(Seq(SeqChunks)) /\ chunks \in Seq(SeqChunks) /\ earlier \in Seq(SeqChunks)
  BY <1>1, <1>a
<1>3. /\ TotalOf(LensOf(segments)) \in Nat
      /\ TotalOf(LensOf(Append(segments, chunks))) = TotalOf(LensOf(segments)) + Len(chunks)
  BY <1>2, LensAppend
<1>4. PICK t \in Nat, l \in Nat, k \in Nat :
         t = TotalOf(LensOf(segments)) /\ l = Len(earlier) /\ k = Len(segments)
  BY <1>2, <1>3
<1>5. Held(state) = t + l /\ Len(chunks) = l + 1
  BY <1>1, <1>a, <1>4 DEF Held
<1>6. CASE Push(state, chunks) = [state EXCEPT !.group = chunks]
  <2>1. /\ Push(state, chunks).staged = segments /\ Push(state, chunks).group = chunks
        /\ Push(state, chunks).pending = state.pending
    BY <1>1, <1>6 DEF SeqStates
  <2>2. Held(Push(state, chunks)) = t + (l + 1)
    BY <1>4, <1>5, <2>1 DEF Held
  <2> QED
    BY <1>1, <1>4, <1>5, <2>1, <2>2
<1>7. CASE /\ Len(chunks) = perSegment /\ Len(state.staged) * perSegment + Len(chunks) < Total
           /\ Push(state, chunks)
                = [state EXCEPT !.group = <<>>, !.staged = Append(@, chunks),
                       !.ok = @ /\ Stageable(chunks, Len(state.staged) + 1, FALSE)]
  <2>1. PICK next : next = Append(segments, chunks)
    OBVIOUS
  <2>a. PICK fits : fits = (state.ok /\ Stageable(chunks, Len(state.staged) + 1, FALSE))
    OBVIOUS
  <2>2. Push(state, chunks) = [pending |-> state.pending, group |-> <<>>, staged |-> next, ok |-> fits]
    <3>1. state = [pending |-> state.pending, group |-> state.group, staged |-> state.staged,
                   ok |-> state.ok]
      BY DEF SeqStates
    <3> QED
      BY <1>1, <1>7, <2>1, <2>a, <3>1
  <2>3. /\ Push(state, chunks).staged = next /\ Push(state, chunks).group = <<>>
        /\ Push(state, chunks).pending = state.pending
    BY <2>2
  <2>4. perSegment = l + 1 /\ k * perSegment + (l + 1) < Total
    BY <1>1, <1>4, <1>5, <1>7
  <2>5. TotalOf(LensOf(next)) = t + (l + 1)
    BY <1>3, <1>4, <1>5, <2>1
  <2>6. t = k * perSegment
    <3>1. CASE segments = <<>>
      <4>1. LensOf(segments) = <<>> /\ k = 0
        BY <1>4, <3>1 DEF LensOf
      <4>2. t = 0
        BY <1>4, <4>1, TotalEmpty
      <4> QED
        BY <2>4, <4>1, <4>2
    <3>2. CASE segments # <<>>
      BY <1>1, <1>4, <3>2 DEF Regular
    <3> QED
      BY <3>1, <3>2
  <2>7. TotalOf(LensOf(next)) = (k + 1) * perSegment /\ TotalOf(LensOf(next)) < Total
    <3>1. k * perSegment + (l + 1) = (k + 1) * (l + 1)
      BY <2>4
    <3>2. TotalOf(LensOf(next)) = k * perSegment + (l + 1)
      BY <2>5, <2>6
    <3> QED
      BY <2>4, <3>1, <3>2
  <2>8. Len(next) = k + 1
    BY <1>2, <1>4, <2>1
  <2>9. Filled(next)
    BY <1>1, <1>2, <1>4, <1>5, <2>1, FilledAppend DEF Regular
  <2>10. Regular(next)
    BY <2>4, <2>7, <2>8, <2>9 DEF Regular
  <2>11. Held(Push(state, chunks)) = t + (l + 1)
    <3>1. Len(<<>>) = 0
      OBVIOUS
    <3> QED
      BY <2>3, <2>5, <3>1 DEF Held
  <2> QED
    BY <1>4, <1>5, <2>3, <2>10, <2>11
<1> QED
  BY <1>6, <1>7 DEF Push

\* A grain more.
LEMMA TakeKept ==
    ASSUME settings \in Settings, NEW state \in FitStates, NEW n \in Nat, Kept(state, n),
           NEW grain \in Values
    PROVE  Kept(Take(state, grain), n + 1)
<1>1. state \in SeqStates
  BY DEF FitStates
<1>2. PICK before \in Seq(Values) : before = state.pending
  BY <1>1 DEF SeqStates
<1>a. before \in Seq(Values)
  BY <1>2
<1>b. Append(before, grain) \in Seq(Values) /\ Len(Append(before, grain)) = Len(before) + 1
      /\ Len(before) \in Nat
  BY <1>a
<1>3. PICK held \in Seq(Values) : held = Append(before, grain)
  BY <1>b
<1>4. PICK c \in Nat \ {0} : c = opts.chunk
  BY SequentialAssumption DEF opts
<1>5. PICK p \in Nat : p = Len(before) /\ Len(held) = p + 1
  BY <1>b, <1>3
<1>6. Held(state) \in Nat
  <2>1. state.staged \in Seq(Seq(SeqChunks)) /\ state.group \in Seq(SeqChunks)
    BY <1>1 DEF SeqStates
  <2>2. TotalOf(LensOf(state.staged)) \in Nat
    BY <2>1, LensAppend
  <2>3. Len(state.group) \in Nat
    BY <2>1
  <2> QED
    BY <2>2, <2>3 DEF Held
<1>7. PICK h \in Nat : h = Held(state)
  BY <1>6
<1>8. Regular(state.staged) /\ n = c * h + p
  BY <1>2, <1>4, <1>5, <1>7 DEF Kept
<1>9. CASE Take(state, grain) = [state EXCEPT !.pending = held]
  <2>1. /\ Take(state, grain).staged = state.staged /\ Take(state, grain).group = state.group
        /\ Take(state, grain).pending = held
    BY <1>1, <1>9 DEF SeqStates
  <2>2. Held(Take(state, grain)) = h
    BY <1>7, <2>1 DEF Held
  <2>3. PICK m \in Nat : m = c * h
    BY <1>4, <1>7
  <2>4. n + 1 = m + (p + 1)
    BY <1>5, <1>8, <2>3
  <2>5. n + 1 = opts.chunk * Held(Take(state, grain)) + Len(Take(state, grain).pending)
    BY <1>4, <1>5, <2>1, <2>2, <2>3, <2>4
  <2> QED
    BY <1>8, <2>1, <2>5 DEF Kept
<1>10. CASE Len(held) = opts.chunk /\ Take(state, grain) = Encode([state EXCEPT !.pending = <<>>], held)
  <2>1. PICK next : next = [state EXCEPT !.pending = <<>>]
    OBVIOUS
  <2>2. next \in SeqStates /\ next.staged = state.staged /\ next.group = state.group
        /\ next.pending = <<>>
    <3>1. <<>> \in Seq(Values)
      OBVIOUS
    <3> QED
      BY <1>1, <2>1, <3>1 DEF SeqStates
  <2>3. PICK earlier \in Seq(SeqChunks) : earlier = next.group
    BY <2>2 DEF SeqStates
  <2>4. PICK chunk \in SeqChunks : chunk = EncodeChunk(held, opts)
    BY <1>3, EncodedTyped
  <2>5. earlier \in Seq(SeqChunks) /\ chunk \in SeqChunks
    BY <2>3, <2>4
  <2>6. Append(earlier, chunk) \in Seq(SeqChunks)
        /\ Len(Append(earlier, chunk)) = Len(earlier) + 1
    BY <2>5
  <2>7. PICK chunks \in Seq(SeqChunks) : chunks = Append(earlier, chunk)
    BY <2>6
  <2>8. Take(state, grain) = Push(next, chunks)
    BY <1>10, <2>1, <2>3, <2>4, <2>7 DEF Encode
  <2>9. Regular(next.staged) /\ Len(chunks) = Len(next.group) + 1
    BY <1>8, <2>2, <2>3, <2>6, <2>7
  <2>10. /\ Regular(Push(next, chunks).staged)
         /\ Held(Push(next, chunks)) = Held(next) + 1
         /\ Push(next, chunks).pending = next.pending
    BY <2>2, <2>7, <2>9, PushKept
  <2>11. Held(next) = h
    BY <1>7, <2>2 DEF Held
  <2>12. n + 1 = c * (h + 1) + 0
    <3>1. p + 1 = c
      BY <1>4, <1>5, <1>10
    <3>2. PICK m \in Nat : m = c * h
      BY <1>4, <1>7
    <3>a. c \in Nat /\ h \in Nat
      BY <1>4, <1>7
    <3>b. c * (h + 1) = c * h + c
      BY <3>a
    <3>3. c * (h + 1) + 0 = m + c
      BY <3>a, <3>b, <3>2
    <3>4. n = m + p
      BY <1>8, <3>2
    <3>c. m \in Nat /\ p \in Nat
      BY <1>5, <3>2
    <3>5. n + 1 = m + c
      BY <3>a, <3>c, <3>1, <3>4
    <3> QED
      BY <3>3, <3>5
  <2>13. Len(<<>>) = 0
    OBVIOUS
  <2> QED
    BY <1>4, <2>2, <2>8, <2>10, <2>11, <2>12, <2>13 DEF Kept
<1> QED
  BY <1>2, <1>3, <1>9, <1>10 DEF Take

\* So what is held grows by what is written.
LEMMA TakeAllKept ==
    ASSUME settings \in Settings, Current \in FitStates, NEW m \in Nat, Kept(Current, m),
           NEW data \in Seq(Values)
    PROVE  Kept(TakeAll(data), m + Len(data))
<1>1. PICK f : /\ f[0] = Current /\ \A n \in 1..Len(data) : f[n] = Take(f[n - 1], data[n])
               /\ TakeAll(data) = f[Len(data)]
  BY TakeAllRuns
<1>2. PICK N \in Nat : N = Len(data)
  OBVIOUS
<1>3. \A n \in 1..N : data[n] \in Values /\ f[n] = Take(f[n - 1], data[n])
  BY <1>1, <1>2
<1> DEFINE T == {n \in Nat : n <= N => f[n] \in FitStates /\ Kept(f[n], m + n)}
<1>4. 0 \in T
  <2>1. m + 0 = m
    OBVIOUS
  <2> QED
    BY <1>1, <2>1
<1>5. ASSUME NEW n \in Nat, n \in T PROVE n + 1 \in T
  <2> SUFFICES ASSUME n + 1 <= N PROVE f[n + 1] \in FitStates /\ Kept(f[n + 1], m + (n + 1))
    OBVIOUS
  <2>1. n + 1 \in 1..N /\ (n + 1) - 1 = n /\ n <= N
    OBVIOUS
  <2>2. PICK state : state = f[n] /\ state \in FitStates /\ Kept(state, m + n)
    BY <1>5, <2>1
  <2>3. PICK k \in Nat : k = m + n
    OBVIOUS
  <2>4. f[n + 1] = Take(state, data[n + 1]) /\ data[n + 1] \in Values
    BY <1>3, <2>1, <2>2
  <2>5. Kept(Take(state, data[n + 1]), k + 1) /\ Take(state, data[n + 1]) \in FitStates
    BY <2>2, <2>3, <2>4, TakeKept, TakeFits
  <2>6. k + 1 = m + (n + 1)
    BY <2>3
  <2> QED
    BY <2>4, <2>5, <2>6
<1> HIDE DEF T
<1>6. Nat \subseteq T
  BY <1>4, <1>5, SetInduction
<1>7. N \in T /\ N <= N
  BY <1>6
<1> QED
  BY <1>1, <1>2, <1>7 DEF T

\* All that a writer has taken is in what it holds, as long as it can be finished.
Counting == Sequencing /\ (poisoned = "no" => Kept(Current, Len(taken)))

\* Every call of the writer keeps it so.
LEMMA CountingNext ==
    ASSUME Counting, SeqNext
    PROVE  Counting'
<1>1. PICK data \in Pieces : SeqWriteAll(data)
  BY DEF SeqNext
<1>2. data \in Seq(Values)
  BY SequentialAssumption
<1>3. settings' = settings /\ perSegment' = perSegment /\ poisoned = "no"
  BY <1>1 DEF SeqWriteAll
<1>4. Sequencing'
  BY SequencingNext DEF Counting
<1>5. Sequencing /\ Kept(Current, Len(taken))
  BY <1>3 DEF Counting
<1>6. CASE poisoned' # "no"
  BY <1>4, <1>6 DEF Counting
<1>7. CASE poisoned' = "no" /\ taken' = taken \o data /\ Become(TakeAll(data))
  <2>1. Current \in FitStates
    BY <1>3, <1>5 DEF Current, FitStates, SeqStates, Sequencing
  <2>2. Len(taken) \in Nat /\ Len(data) \in Nat /\ Len(taken') = Len(taken) + Len(data)
    <3>1. PICK t \in Seq(Values), u \in Seq(Values) : t = taken /\ u = data
      BY <1>2, <1>5 DEF Sequencing
    <3>2. Len(t \o u) = Len(t) + Len(u) /\ Len(t) \in Nat /\ Len(u) \in Nat
      BY <3>1
    <3> QED
      BY <1>7, <3>1, <3>2
  <2>3. settings \in Settings
    BY <1>5 DEF Sequencing
  <2>4. Kept(TakeAll(data), Len(taken) + Len(data))
    BY <1>2, <1>5, <2>1, <2>2, <2>3, TakeAllKept
  <2>5. PICK state : state = TakeAll(data)
    OBVIOUS
  <2>6. pending' = state.pending /\ group' = state.group /\ staged' = state.staged
    BY <1>7, <2>5, FailurePoisons DEF Become
  <2>7. Regular(state.staged) /\ Len(taken') = opts.chunk * Held(state) + Len(state.pending)
    BY <2>2, <2>4, <2>5 DEF Kept
  <2>8. /\ Current.staged = staged /\ Current.group = group /\ Current.pending = pending
        /\ (Current.staged)' = staged' /\ (Current.group)' = group' /\ (Current.pending)' = pending'
    BY DEF Current
  <2>9. Regular(staged)'
    <3>1. Regular(state.staged) = Regular(staged)'
      BY <1>3, <2>6 DEF Regular, Filled, LensOf, TotalOf, opts, Total, Sectors
    <3> QED
      BY <2>7, <3>1
  <2>10. (TotalOf(LensOf(staged)) + Len(group))' = Held(state)
    BY <2>6 DEF Held, TotalOf, LensOf
  <2>11. opts' = opts
    BY <1>3 DEF opts
  <2>12. Kept(Current, Len(taken))'
    BY <2>6, <2>7, <2>8, <2>9, <2>10, <2>11 DEF Kept, Held
  <2> QED
    BY <1>4, <2>12 DEF Counting
<1> QED
  BY <1>1, <1>3, <1>6, <1>7 DEF SeqWriteAll

\* Rounded up to whole ks, a number is not below what it was.
LEMMA RoundedAbove ==
    ASSUME NEW k \in Nat \ {0}, NEW a \in Nat
    PROVE  /\ (a + k - 1) \div k \in Nat
           /\ ((a + k - 1) \div k) * k \in Nat /\ ((a + k - 1) \div k) * k >= a
<1>1. PICK b \in Nat : b = a + k - 1
  OBVIOUS
<1>2. PICK q \in Nat, r \in Nat : b = q * k + r /\ q = b \div k /\ r < k
  OBVIOUS
<1>3. PICK p \in Nat : p = q * k
  BY <1>2
<1>4. p >= a
  BY <1>1, <1>2, <1>3
<1> QED
  BY <1>1, <1>2, <1>3, <1>4

\* The chunks that media takes which has a rest after so many whole ones.
LEMMA ChunksWithRest ==
    ASSUME NEW c \in Nat \ {0}, NEW h \in Nat, NEW rest \in Nat
    PROVE  /\ rest = 0 => ChunksOf(c * h + rest, c) = h
           /\ rest > 0 => ChunksOf(c * h + rest, c) >= h + 1
           /\ ChunksOf(c * h + rest, c) \in Nat
<1>1. PICK p \in Nat : p = h * c /\ c * h = p
  <2>1. h * c \in Nat /\ c * h = h * c
    OBVIOUS
  <2> QED
    BY <2>1
<1>2. c - 1 \in Nat /\ c - 1 < c
  OBVIOUS
<1>3. p + rest + c - 1 \in Nat
  BY <1>1, <1>2
<1>4. PICK d \in Nat : d = p + rest + c - 1
  BY <1>3
<1>5. ChunksOf(c * h + rest, c) = d \div c
  BY <1>1, <1>4 DEF ChunksOf
<1>6. d \div c \in Nat
  BY <1>4
<1>7. ASSUME rest = 0 PROVE d \div c = h
  <2>1. d = h * c + (c - 1)
    BY <1>1, <1>4, <1>7
  <2> QED
    BY <1>2, <2>1, DivOfChunk
<1>8. ASSUME rest > 0 PROVE d \div c >= h + 1
  <2>1. h + 1 \in Nat /\ (h + 1) * c = p + c /\ (h + 1) * c + 0 = p + c /\ 0 < c
    BY <1>1
  <2>2. p + c <= d /\ p + c \in Nat
    BY <1>1, <1>4, <1>8
  <2>3. (p + c) \div c <= d \div c
    BY <1>4, <2>2, DivMonotone
  <2>4. ((h + 1) * c + 0) \div c = h + 1
    BY <2>1, DivOfChunk
  <2>5. (p + c) \div c = h + 1
    BY <2>1, <2>4
  <2> QED
    BY <1>6, <2>1, <2>3, <2>5
<1> QED
  BY <1>5, <1>6, <1>7, <1>8

\* What is left to write when the media is all there.
LEMMA RestOfMedia ==
    ASSUME Counting, poisoned = "no", Len(taken) = settings.source
    PROVE  \E h \in Nat, rest \in Nat, c \in Nat \ {0} :
              /\ c = opts.chunk /\ h = Held(Current)
              /\ Sectors * SectorGrains = c * h + rest
              /\ Len(pending \o Padding) = rest /\ pending \o Padding \in Seq(Values)
<1>0. Sequencing /\ Kept(Current, Len(taken))
  BY DEF Counting
<1>1. PICK k \in Nat \ {0} : k = SectorGrains
  BY CodecAssumption
<1>2. PICK t \in Nat : t = settings.source
  BY <1>0, SequentialAssumption DEF Sequencing
<1>3. Sectors * k \in Nat /\ Sectors * k >= t
  BY <1>1, <1>2, RoundedAbove DEF Sectors
<1>4. PICK m \in Nat : m = Sectors * SectorGrains
  BY <1>1, <1>3
<1>5. PICK d \in Nat : d = m - t
  BY <1>1, <1>3, <1>4
<1>6. Padding = [i \in 1..d |-> Zero]
  BY <1>2, <1>4, <1>5 DEF Padding
<1>7. Padding \in Seq(Values) /\ Len(Padding) = d
  <2>1. Padding \in [1..d -> Values]
    BY <1>6, CodecAssumption
  <2> QED
    BY <2>1, ListFrom
<1>8. PICK padding \in Seq(Values), held \in Seq(Values) : padding = Padding /\ held = pending
  BY <1>0, <1>7 DEF Sequencing
<1>a. padding \in Seq(Values) /\ held \in Seq(Values)
  BY <1>8
<1>9. held \o padding \in Seq(Values) /\ Len(held \o padding) = Len(held) + d /\ Len(held) \in Nat
  <2>1. Len(padding) = d
    BY <1>7, <1>8
  <2>2. Len(held \o padding) = Len(held) + Len(padding)
    BY <1>a
  <2> QED
    BY <1>a, <2>1, <2>2
<1>10. PICK p \in Nat : p = Len(held)
  BY <1>9
<1>11. PICK c \in Nat \ {0} : c = opts.chunk
  BY <1>0, SequentialAssumption DEF opts, Sequencing
<1>12. PICK h \in Nat : h = Held(Current)
  <2>1. TotalOf(LensOf(staged)) \in Nat
    BY <1>0, LensAppend DEF Sequencing
  <2>2. Len(group) \in Nat
    BY <1>0 DEF Sequencing
  <2> QED
    BY <2>1, <2>2 DEF Held, Current
<1>13. t = c * h + p
  BY <1>0, <1>2, <1>8, <1>10, <1>11, <1>12 DEF Kept, Current
<1>14. PICK rest \in Nat : rest = p + d
  OBVIOUS
<1>15. m = c * h + rest
  <2>1. PICK x \in Nat : x = c * h
    BY <1>11, <1>12
  <2>2. t = x + p
    BY <1>13, <2>1
  <2>a. t \in Nat /\ d \in Nat /\ p \in Nat /\ m = t + d
    BY <1>2, <1>4, <1>5, <1>10
  <2>b. x \in Nat
    BY <2>1
  <2>3. m = x + rest
    BY <1>14, <2>a, <2>b, <2>2
  <2> QED
    BY <2>1, <2>3
<1>16. Len(pending \o Padding) = rest /\ pending \o Padding \in Seq(Values)
  BY <1>8, <1>9, <1>10, <1>14
<1> QED
  BY <1>4, <1>11, <1>12, <1>15, <1>16

\* Fewer segments than a sequential writer was finished with do not open.
LEMMA SequentialFewer ==
    ASSUME Counting, poisoned = "no", Len(taken) = settings.source, NEW segments, segments = SeqSegments,
           NEW files, files = SeqFiles(segments)
    PROVE  Refused(files)
<1>0. Sequencing /\ Kept(Current, Len(taken))
  BY DEF Counting
<1>1. PICK before \in Seq(Seq(SeqChunks)) : before = staged
  BY <1>0 DEF Sequencing
<1>2. PICK final \in Seq(SeqChunks) : final = group \o LastChunk(pending \o Padding)
  BY <1>0, SegmentsOfChunks
<1>3. segments = Append(before, final)
  BY <1>0, <1>1, <1>2, SegmentsOfChunks
<1>4. before \in Seq(Seq(SeqChunks)) /\ final \in Seq(SeqChunks)
  BY <1>1, <1>2
<1>5. PICK n \in Nat : n = Len(before)
  BY <1>4
<1>6. segments \in Seq(Seq(SeqChunks)) /\ DOMAIN segments = 1..(n + 1) /\ Len(segments) = n + 1
  BY <1>3, <1>4, <1>5
<1>7. PICK o, sectors : o = opts /\ sectors = Sectors
  OBVIOUS
<1>8. DOMAIN files = 1..(n + 1) /\ Len(files) = n + 1
      /\ \A i \in 1..(n + 1) : files[i] = StagedFile(segments[i], i, i = n + 1)
  <2>1. files = [i \in 1..(n + 1) |-> StagedFile(segments[i], i, i = n + 1)]
    BY <1>6 DEF SeqFiles
  <2>2. PICK F : F = {files[i] : i \in 1..(n + 1)}
    OBVIOUS
  <2>3. files \in [1..(n + 1) -> F]
    BY <2>1, <2>2
  <2>4. n + 1 \in Nat
    OBVIOUS
  <2>5. Len(files) = n + 1
    BY <2>3, <2>4, ListFrom
  <2> QED
    BY <2>1, <2>5
<1>9. ASSUME NEW i \in 1..(n + 1)
      PROVE  Parses(files[i], i, sectors, o.chunk, Len(segments[i]))
  <2>1. PICK chunks \in Seq(SeqChunks) : chunks = segments[i]
    BY <1>6
  <2>2. PICK last \in BOOLEAN : last = (i = n + 1)
    OBVIOUS
  <2>3. files[i] = StagedFile(chunks, i, last)
    BY <1>8, <2>1, <2>2
  <2>4. CASE IsEwf2(o.format)
    <3>0. PICK context : context = [number |-> i, firstChunk |-> (i - 1) * perSegment,
                                    sectors |-> Sectors,
                                    terminal |-> IF last THEN "done" ELSE "next"]
      OBVIOUS
    <3>1. /\ files[i] = Ewf2Segment(chunks, o, context)
          /\ context.number = i /\ context.sectors = sectors
          /\ context.terminal \in {"done", "next"}
      BY <1>7, <2>3, <2>4, <3>0 DEF StagedFile
    <3>2. Parses(Ewf2Segment(chunks, o, context), context.number, context.sectors, o.chunk,
                 Len(chunks))
      BY <2>1, <3>1, SeqChunksHaveSizes, Ewf2Parses
    <3> QED
      BY <2>1, <3>1, <3>2
  <2>5. CASE ~IsEwf2(o.format)
    <3>1. PICK context :
             /\ files[i] = Ewf1Segment(chunks, o, context)
             /\ context.number = i /\ context.sectors = sectors
             /\ context.terminal \in {"done", "next"}
      BY <1>7, <2>3, <2>5 DEF StagedFile
    <3>2. Parses(Ewf1Segment(chunks, o, context), context.number, context.sectors, o.chunk,
                 Len(chunks))
      BY <2>1, <3>1, SeqChunksHaveSizes, Ewf1Parses
    <3> QED
      BY <2>1, <3>1, <3>2
  <2> QED
    BY <2>4, <2>5
<1>10. /\ LensOf(segments) \in Seq(Nat) /\ Len(LensOf(segments)) = n + 1
       /\ TotalOf(LensOf(segments)) = TotalOf(LensOf(before)) + Len(final)
       /\ TotalOf(LensOf(before)) \in Nat
  <2>1. <<>> \in Seq(SeqChunks)
    OBVIOUS
  <2>2. LensOf(segments) \in Seq(Nat) /\ Len(LensOf(segments)) = n + 1
    BY <1>6, <2>1, LensAppend
  <2> QED
    BY <1>3, <1>4, <2>2, LensAppend
<1>11. PICK count \in Seq(Nat) : count = LensOf(segments)
  BY <1>10
<1>12. \A i \in 1..(n + 1) : count[i] = Len(segments[i])
  BY <1>6, <1>11 DEF LensOf
<1>13. PICK h \in Nat, rest \in Nat, c \in Nat \ {0} :
              /\ c = opts.chunk /\ h = Held(Current)
              /\ Sectors * SectorGrains = c * h + rest
              /\ Len(pending \o Padding) = rest /\ pending \o Padding \in Seq(Values)
  BY RestOfMedia
<1>a. c \in Nat \ {0} /\ h \in Nat /\ rest \in Nat
  BY <1>13
<1>b. sectors * SectorGrains = c * h + rest /\ o.chunk = c
  BY <1>7, <1>13
<1>c. PICK total : total = ChunksOf(sectors * SectorGrains, o.chunk)
  OBVIOUS
<1>d. total = ChunksOf(c * h + rest, c)
  BY <1>b, <1>c
<1>e. ChunksOf(c * h + rest, c) \in Nat
  BY <1>a, ChunksWithRest
<1>14. total \in Nat /\ total = ChunksOf(sectors * SectorGrains, o.chunk)
  BY <1>c, <1>d, <1>e
<1>15. (rest = 0 => total = h) /\ (rest > 0 => total >= h + 1)
  BY <1>a, <1>d, ChunksWithRest
<1>16. Total = total
  BY <1>7, <1>14 DEF Total, ChunksOf
<1>17. PICK a \in Nat, g \in Nat : a = TotalOf(LensOf(before)) /\ g = Len(group) /\ h = a + g
  <2>1. Len(group) \in Nat
    BY <1>0 DEF Sequencing
  <2> QED
    BY <1>1, <1>10, <1>13, <2>1 DEF Held, Current
<1>18. Len(final) = IF rest = 0 THEN g ELSE g + 1
  <2>1. PICK padded \in Seq(Values) : padded = pending \o Padding /\ Len(padded) = rest
    BY <1>13
  <2>2. PICK earlier \in Seq(SeqChunks) : earlier = group
    BY <1>0 DEF Sequencing
  <2>a. earlier \in Seq(SeqChunks) /\ Len(earlier) = g
    BY <1>17, <2>2
  <2>3. CASE rest = 0
    <3>1. padded = <<>>
      BY <2>1, <2>3
    <3>2. LastChunk(padded) = <<>>
      BY <3>1 DEF LastChunk
    <3>3. earlier \o <<>> = earlier
      BY <2>a
    <3> QED
      BY <1>2, <2>1, <2>2, <2>a, <2>3, <3>2, <3>3
  <2>4. CASE rest # 0
    <3>1. padded # <<>>
      <4>1. Len(<<>>) = 0
        OBVIOUS
      <4> QED
        BY <2>1, <2>4, <4>1
    <3>2. PICK chunk \in SeqChunks : chunk = EncodeChunk(padded, opts)
      BY <2>1, EncodedTyped
    <3>3. LastChunk(padded) = <<chunk>>
      BY <3>1, <3>2 DEF LastChunk
    <3>4. Len(earlier \o <<chunk>>) = g + 1
      BY <2>a, <3>2
    <3> QED
      BY <1>2, <2>1, <2>2, <2>4, <3>3, <3>4
  <2> QED
    BY <2>3, <2>4
<1>19. TotalOf(count) <= total
  <2>1. PICK f \in Nat : f = Len(final)
    BY <1>17, <1>18
  <2>2. TotalOf(count) = a + f
    BY <1>10, <1>11, <1>17, <2>1
  <2>3. CASE rest = 0
    BY <1>15, <1>17, <1>18, <2>1, <2>2, <2>3
  <2>4. CASE rest > 0
    BY <1>15, <1>17, <1>18, <2>1, <2>2, <2>4
  <2> QED
    BY <1>13, <2>3, <2>4
<1>20. ASSUME n + 1 > 1 PROVE \A i \in 1..(n + 1) : count[i] > 0
  <2>1. before # <<>>
    BY <1>4, <1>5, <1>20
  <2>2. Regular(before)
    BY <1>0, <1>1 DEF Kept, Current
  <2>3. Len(final) > 0
    <3>1. a < total
      BY <1>16, <1>17, <2>1, <2>2 DEF Regular
    <3>2. CASE rest = 0
      BY <1>15, <1>17, <1>18, <3>1, <3>2
    <3>3. CASE rest # 0
      BY <1>17, <1>18, <3>3
    <3> QED
      BY <3>2, <3>3
  <2>4. Filled(segments)
    BY <1>3, <1>4, <2>2, <2>3, FilledAppend DEF Regular
  <2> QED
    BY <1>6, <1>12, <2>4 DEF Filled
<1>21. \A i \in 1..(n + 1) : Parses(files[i], i, sectors, o.chunk, count[i])
  BY <1>9, <1>12
<1>22. n + 1 \in Nat /\ Len(count) = n + 1
  BY <1>10, <1>11
<1>23. PICK k \in Nat : k = n + 1
  BY <1>22
<1>24. Numbered(k, files, sectors, o.chunk, count)
  BY <1>8, <1>14, <1>19, <1>20, <1>21, <1>22, <1>23 DEF Numbered
<1> QED
  BY <1>24, SegmentsRefused

\* What the writer that is open holds comes to the media, and the segments of a
\* finished one cannot be fewer.
MissingInv ==
    /\ phase = "spool" => Unlimited \/ Spooling
    /\ phase = "sequential" => Counting
    /\ MissingSegmentRefused

\* At first there is no file, and a writer that holds nothing.
LEMMA MissingInit == Init => MissingInv
<1> SUFFICES ASSUME Init PROVE MissingInv
  OBVIOUS
<1>1. MissingSegmentRefused
  <2>1. disk = <<>> /\ Len(<<>>) = 0
    BY DEF Init
  <2> QED
    BY <2>1 DEF MissingSegmentRefused
<1>2. LimitInv
  BY LimitInit
<1>3. ASSUME phase = "sequential" PROVE Kept(Current, Len(taken))
  <2>1. PICK s \in Settings : SeqInit(s)
    BY <1>3 DEF Init
  <2>2. taken = <<>> /\ pending = <<>> /\ group = <<>> /\ staged = <<>> /\ opts.chunk \in Nat
    BY <2>1, SequentialAssumption DEF SeqInit, opts
  <2>3. Len(<<>>) = 0 /\ DOMAIN <<>> = {}
    OBVIOUS
  <2>4. Regular(<<>>)
    BY <2>3 DEF Regular, Filled
  <2>5. LensOf(<<>>) = <<>>
    BY DEF LensOf
  <2>6. Held(Current) = 0
    BY <2>2, <2>3, <2>5, TotalEmpty DEF Held, Current
  <2>7. opts.chunk * 0 + 0 = 0
    BY <2>2
  <2>8. Current.pending = <<>> /\ Current.staged = <<>>
    BY <2>2 DEF Current
  <2> QED
    BY <2>2, <2>3, <2>4, <2>6, <2>7, <2>8 DEF Kept
<1> QED
  BY <1>1, <1>2, <1>3 DEF LimitInv, MissingInv, Counting

\* One segment alone is not less than itself.
LEMMA UnlimitedFewer ==
    ASSUME options.limit = 0, NEW groups, groups = SegmentGroups(EncodedChunks, options),
           NEW contexts, NEW files, files = SpoolFiles(groups, contexts)
    PROVE  Refused(files)
<1>1. groups = <<EncodedChunks>>
  BY DEF SegmentGroups
<1>2. DOMAIN groups = {1}
  BY <1>1
<1>3. PICK file : files = [i \in {1} |-> file]
  <2>1. files = [i \in {1} |-> FileOf(groups[i], contexts[i])]
    BY <1>2 DEF SpoolFiles
  <2>2. PICK file : file = FileOf(groups[1], contexts[1])
    OBVIOUS
  <2>3. \A i \in {1} : FileOf(groups[i], contexts[i]) = file
    BY <2>2
  <2> QED
    BY <2>1, <2>3
<1>4. files = <<file>>
  BY <1>3
<1>5. Len(files) \in {0, 1}
  BY <1>4
<1> QED
  BY <1>5, OneFileRefused

\* Every step of the writers, a finish and a resume included, keeps it.
LEMMA MissingNext ==
    ASSUME MissingInv, [Next]_vars
    PROVE  MissingInv'
<1>0. ASSUME Refused(disk') PROVE MissingSegmentRefused'
  BY <1>0 DEF MissingSegmentRefused, Refused
<1>a. ASSUME UNCHANGED disk PROVE MissingSegmentRefused'
  BY <1>a DEF MissingInv, MissingSegmentRefused
<1>1. CASE SpoolStep
  <2>1. phase = "spool" /\ phase' = "spool" /\ SpoolNext /\ UNCHANGED <<disk, written, outcome>>
    BY <1>1 DEF SpoolStep, imageVars
  <2>2. (Unlimited \/ Spooling)'
    BY <2>1, SpoolingNext, UnlimitedNext DEF MissingInv
  <2> QED
    BY <1>a, <2>1, <2>2 DEF MissingInv
<1>2. CASE SequentialStep
  <2>1. /\ phase = "sequential" /\ phase' = "sequential" /\ SeqNext
        /\ UNCHANGED <<disk, written, outcome>>
    BY <1>2 DEF SequentialStep, imageVars
  <2>2. Counting'
    BY <2>1, CountingNext DEF MissingInv
  <2> QED
    BY <1>a, <2>1, <2>2 DEF MissingInv
<1>3. ASSUME NEW terminal \in {"done", "next"}, FinishSpool(terminal) PROVE MissingInv'
  <2>1. /\ phase = "spool" /\ phase' = "closed"
        /\ Write(SegmentGroups(EncodedChunks, options), terminal)
    BY <1>3 DEF FinishSpool
  <2>2. PICK groups : groups = SegmentGroups(EncodedChunks, options)
    OBVIOUS
  <2>3. PICK files : files = SpoolFiles(groups, Contexts(groups, terminal))
    OBVIOUS
  <2>4. UNCHANGED disk \/ disk' = files
    BY <2>1, <2>2, <2>3 DEF Write, Fail, Publish
  <2>5. Refused(files)
    <3>1. CASE Spooling
      BY <2>2, <2>3, <3>1, SpoolFewer
    <3>2. CASE Unlimited
      <4>1. options.limit = 0
        BY <3>2 DEF Unlimited
      <4> QED
        BY <2>2, <2>3, <4>1, UnlimitedFewer
    <3> QED
      BY <2>1, <3>1, <3>2 DEF MissingInv
  <2> QED
    BY <1>0, <1>a, <2>1, <2>4, <2>5 DEF MissingInv
<1>4. CASE FinishSequential
  <2>1. /\ phase = "sequential" /\ phase' = "closed" /\ WriteSequential(SeqSegments)
    BY <1>4 DEF FinishSequential
  <2>2. Counting
    BY <2>1 DEF MissingInv
  <2>3. PICK segments : segments = SeqSegments
    OBVIOUS
  <2>4. PICK files : files = SeqFiles(segments)
    OBVIOUS
  <2>5. \/ UNCHANGED disk
        \/ poisoned = "no" /\ Len(taken) = settings.source /\ disk' = files
    BY <2>1, <2>3, <2>4 DEF WriteSequential, Fail, Publish
  <2>6. ASSUME poisoned = "no", Len(taken) = settings.source PROVE Refused(files)
    BY <2>2, <2>3, <2>4, <2>6, SequentialFewer
  <2> QED
    BY <1>0, <1>a, <2>1, <2>5, <2>6 DEF MissingInv
<1>5. CASE Resume
  <2>1. /\ phase' = "spool" /\ disk' = <<>>
        /\ options' = ResumedOptions(Open(disk))
    BY <1>5 DEF Resume, ResumeImage, ResumeFrom
  <2>2. Unlimited'
    BY <2>1 DEF Unlimited, ResumedOptions
  <2>3. Len(<<>>) \in {0, 1}
    OBVIOUS
  <2>4. Refused(disk')
    BY <2>1, <2>3, OneFileRefused
  <2> QED
    BY <1>0, <2>1, <2>2, <2>4 DEF MissingInv
<1>6. CASE UNCHANGED vars
  <2>1. UNCHANGED <<phase, disk, written, outcome>> /\ UNCHANGED spoolVars /\ UNCHANGED seqVars
    BY <1>6 DEF vars, imageVars
  <2>2. phase = "spool" => (Unlimited \/ Spooling)'
    BY <2>1 DEF MissingInv, spoolVars, Unlimited, Spooling, SpoolTypeOK, RememberedSizes
  <2>3. phase = "sequential" => Counting'
    <3>1. ASSUME Counting PROVE Counting'
      <4>1. Sequencing'
        BY <2>1, <3>1
        DEF Counting, seqVars, Sequencing, StagedFit, Stageable, StagedFile, opts, Total, Sectors
      <4>2. ASSUME poisoned' = "no" PROVE Kept(Current, Len(taken))'
        BY <2>1, <3>1, <4>2
        DEF Counting, seqVars, Kept, Current, Regular, Held, Filled, LensOf, TotalOf, opts,
            Total, Sectors
      <4> QED
        BY <4>1, <4>2 DEF Counting
    <3> QED
      BY <3>1 DEF MissingInv
  <2> QED
    BY <1>a, <2>1, <2>2, <2>3 DEF MissingInv
<1> QED
  BY <1>1, <1>2, <1>3, <1>4, <1>5, <1>6 DEF Next

\* Whichever writer published an image, and whatever the media, the limits and the
\* order of the calls, fewer of its segment files than there are do not open as an
\* image, in any order and with any of them given twice: each segment's tables cover
\* no more than the chunks that encode_batch() or stage_group() put in it, every one
\* of several segments has a chunk, and the media section of each counts all of them,
\* so the numbers are not 1..n (Image::open_segment_sources) or the ranges end before
\* the last chunk (LazyChunkIndex::new, EWF1 and EWF2).
THEOREM NoSegmentCanBeMissing == Spec => []MissingSegmentRefused
<1>1. MissingInv => MissingSegmentRefused
  BY DEF MissingInv
<1> QED
  BY <1>1, MissingInit, MissingNext, PTL DEF Spec

\* The same while the published files are damaged and read: the files that were
\* written stay the ones of which none can be missing.
THEOREM NorOfDamagedImages == DamageSpec => []MissingSegmentRefused
<1>1. DamageInit => MissingInv
  BY MissingInit DEF DamageInit
<1>2. MissingInv /\ [DamageNext]_damageVars => MissingInv'
  <2> SUFFICES ASSUME MissingInv, [DamageNext]_damageVars PROVE MissingInv'
    OBVIOUS
  <2>1. [Next]_vars
    BY DEF DamageNext, Damage, damageVars
  <2> QED
    BY <2>1, MissingNext
<1>3. MissingInv => MissingSegmentRefused
  BY DEF MissingInv
<1> QED
  BY <1>1, <1>2, <1>3, PTL DEF DamageSpec
=============================================================================
