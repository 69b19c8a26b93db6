----------------------------- MODULE ChunkCodec -----------------------------
(***************************************************************************)
(* How one chunk of media is encoded, and decoded again: encode_chunk of   *)
(* src/writer.rs and src/decode.rs.                                        *)
(*                                                                         *)
(* Media is counted in grains: a grain is Grain bytes of one value.  Sizes *)
(* of encoded data and of files are in bytes.  o.chunk of options o is the *)
(* grains of a chunk.  An encoded chunk is                                 *)
(*   encoding  raw, zlib, bzip2 or pattern                                 *)
(*   size      the bytes it takes in a segment file                        *)
(*   trailer   what follows raw data: none, its adler checksum, or junk    *)
(*   flagged   has_checksum                                                *)
(*   data      the grains it decodes to                                    *)
(***************************************************************************)
EXTENDS Integers, Sequences

CONSTANTS Grain,        \* bytes of a grain, a multiple of the 8 of a pattern
          SectorGrains, \* grains of a sector
          Zero,         \* a grain of zero bytes
          Noise,        \* a grain no compressor makes shorter
          Values        \* what a grain may hold

ASSUME CodecAssumption ==
    /\ Grain \in Nat \ {0} /\ SectorGrains \in Nat \ {0}
    /\ Zero \in Values /\ Noise \in Values /\ Zero # Noise

Bytes(data) == Len(data) * Grain
Holds(data, value) == \E i \in DOMAIN data : data[i] = value

IsEwf2(format) == format = "ewf2"

----------------------------------------------------------------------------
(* The sizes compressors reach, as far as the writer tells them apart: less *)
(* than the data unless it holds noise, and then a little more.            *)
Deflated(data) == IF Holds(data, Noise) THEN Bytes(data) + 11 ELSE 20 + 4 * Len(data)
Bzipped(data) == IF Holds(data, Noise) THEN Bytes(data) + 60 ELSE 48 + 4 * Len(data)

Encoded(encoding, size, trailer, data) ==
    [encoding |-> encoding, size |-> size, trailer |-> trailer,
     flagged |-> trailer = "adler", data |-> data]

Raw(data) == Encoded("raw", Bytes(data) + 4, "adler", data)
Zlib(data) == Encoded("zlib", Deflated(data), "none", data)
Bzip2(data) == Encoded("bzip2", Bzipped(data), "none", data)
Pattern(data) == Encoded("pattern", 0, "none", data)

\* repeated_ewf2_pattern(): eight bytes over and over, and is_full_zero_chunk()
Repeats(data) ==
    /\ Len(data) > 0 /\ data[1] # Noise
    /\ \A i \in DOMAIN data : data[i] = data[1]
IsFullZeroChunk(data, o) == Len(data) = o.chunk /\ \A i \in DOMAIN data : data[i] = Zero

\* encode_chunk() under the options o
EncodeChunk(data, o) ==
    IF IsEwf2(o.format) /\ Repeats(data) THEN Pattern(data)
    ELSE IF ~IsEwf2(o.format) /\ o.emptyBlock /\ IsFullZeroChunk(data, o) THEN Zlib(data)
    ELSE IF o.compression = "bzip2" THEN Bzip2(data)
    ELSE IF o.compression = "zlib" /\ Deflated(data) < Bytes(data) THEN Zlib(data)
    ELSE Raw(data)

----------------------------------------------------------------------------
(* src/decode.rs                                                           *)

\* zlib_compressed_chunk_size_cap(), the larger of its two bounds
ZlibCap(chunk) ==
    LET bytes == chunk * Grain
        compressBound == bytes + bytes \div 4096 + bytes \div 16384 + 13
        storedBound == bytes + 5 * ((bytes + 511) \div 512) + 6
    IN  IF compressBound > storedBound THEN compressBound ELSE storedBound

SizeCap(encoding, chunk) ==
    CASE encoding = "raw" -> chunk * Grain + 4
      [] encoding = "zlib" -> ZlibCap(chunk)
      [] encoding = "bzip2" -> chunk * Grain + (chunk * Grain) \div 100 + 4096

\* validate_encoded_size()
ValidEncodedSize(size, encoding, chunk) ==
    encoding = "pattern" \/ (size > 0 /\ size <= SizeCap(encoding, chunk))

Garbage == <<>>

\* decode_chunk(): size bytes of the chunk's payload, read as encoding, for
\* grains of media.  Raw data is a prefix; a compressed stream must be of the
\* kind it is taken for, and complete.
DecodeChunk(chunk, size, encoding, grains) ==
    IF encoding = "raw"
    THEN IF chunk.encoding = "raw" /\ size >= grains * Grain /\ Len(chunk.data) >= grains
         THEN SubSeq(chunk.data, 1, grains) ELSE Garbage
    ELSE IF encoding = chunk.encoding /\ size = chunk.size /\ Len(chunk.data) = grains
         THEN chunk.data ELSE Garbage
=============================================================================
