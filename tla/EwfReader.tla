----------------------------- MODULE EwfReader -----------------------------
(***************************************************************************)
(* How src/image.rs opens a set of segment files and finds a chunk in it.  *)
(* It knows the files only by what begins at an offset: a section, table   *)
(* or chunk that does not begin where a descriptor or a table entry says   *)
(* it does cannot be read.                                                 *)
(*                                                                         *)
(* Sections whose contents are only metadata are scanned but not parsed.   *)
(***************************************************************************)
EXTENDS EwfLayout

Found(file, offset, is) == offset \in DOMAIN file.at /\ file.at[offset].is = is
Broken == [type |-> "broken"]
Intact(sections) == \A i \in DOMAIN sections : sections[i].type # "broken"
OfType(sections, types) == SelectSeq(sections, LAMBDA s : s.type \in types)
FirstOf(sections, types) ==
    LET all == {i \in DOMAIN sections : sections[i].type \in types}
    IN  IF all = {} THEN <<>> ELSE <<sections[Min(all)]>>

----------------------------------------------------------------------------
(* The section chains                                                      *)

\* scan_ewf1_sections(): forward, by the next offset of each descriptor
LeadingSection(file, at) ==
    [type |-> file.at[at].type, at |-> at, data |-> at + Desc1,
     size |-> file.at[at].size - Desc1, next |-> file.at[at].next]
ScanEwf1(file) ==
    LET scan[at \in DOMAIN file.at \cup {file.length}] ==
            IF ~Found(file, at, "descriptor") \/ at + file.at[at].size > file.length
            THEN <<Broken>>
            ELSE LET s == LeadingSection(file, at)
                 IN  IF s.type \in {"done", "next"} \/ s.next = 0 THEN <<s>>
                     ELSE IF s.next < s.data + s.size \/ s.next \notin DOMAIN file.at
                     THEN <<s, Broken>>
                     ELSE <<s>> \o scan[s.next]
    IN  scan[FileHeader1]

\* scan_ewf2_trailing_sections(): backward from the end of the file
TrailingSection(file, at) ==
    [type |-> file.at[at].type, at |-> at, size |-> file.at[at].size,
     data |-> IF file.at[at].previous = 0 THEN FileHeader2 ELSE file.at[at].previous + Desc2]
ScanEwf2(file) ==
    LET section(at) == TrailingSection(file, at)
        scan[at \in DOMAIN file.at \cup {0}] ==
            IF ~Found(file, at, "descriptor") \/ section(at).data + file.at[at].size > at
            THEN <<Broken>>
            ELSE IF file.at[at].previous = 0 THEN <<section(at)>>
            ELSE IF file.at[at].previous \notin DOMAIN file.at
                    \/ file.at[at].previous + Desc2 > at
            THEN <<Broken>>
            ELSE Append(scan[file.at[at].previous], section(at))
        last == file.length - Desc2
    IN  IF last \in DOMAIN file.at THEN scan[last] ELSE <<Broken>>

Scan(file) == IF file.at[0].format = "ewf1" THEN ScanEwf1(file) ELSE ScanEwf2(file)

\* ewf1_acquisition_complete(), ewf2_acquisition_complete()
AcquisitionComplete(sections) == Last(sections).type # "next"

----------------------------------------------------------------------------
(* The chunk tables                                                        *)

BadRange == [first |-> 0, count |-> 0, broken |-> TRUE]

\* matching_sectors_section()
MatchingSectors(sections, base) ==
    LET all == OfType(sections, {"sectors"})
        matches(i) == base = all[i].at \/ (base >= all[i].data /\ base <= all[i].data + all[i].size)
        found == {i \in DOMAIN all : matches(i)}
    IN  IF found = {} THEN <<>> ELSE <<all[Min(found)]>>

\* A table whose header can be read, and whether the checksum behind its entries
\* is there and fails
HasTable(file, at) == Found(file, at, "table") \/ Found(file, at, "suspect")
EntriesFail(file, s) ==
    Found(file, s.data, "suspect") /\ s.size >= 24 + 4 * file.at[s.data].count + 4

\* parse_ewf1_ranges().  A table2 with the count and base of the table before
\* it is its copy, and not looked at.
IsCopy(s, t, previous) ==
    s.type = "table2" /\ previous = [type |-> "table", count |-> t.count, base |-> t.base]
RangeEwf1(file, s, t, sectors, segment, first) ==
    [first |-> first, count |-> t.count,
     broken |-> sectors = <<>> \/ EntriesFail(file, s) \/ s.size < 24 + 4 * t.count,
     segment |-> segment, entries |-> s.data, base |-> t.base,
     end |-> IF sectors = <<>> THEN 0 ELSE sectors[1].data + sectors[1].size]
AddRangeEwf1(acc, file, sections, s, segment) ==
    LET t == file.at[s.data]
    IN  IF s.type \notin {"table", "table2"} THEN acc
        ELSE IF ~HasTable(file, s.data) THEN [acc EXCEPT !.ranges = Append(@, BadRange)]
        ELSE IF t.count = 0 \/ IsCopy(s, t, acc.previous) THEN acc
        ELSE [ranges |-> Append(acc.ranges,
                  RangeEwf1(file, s, t, MatchingSectors(sections, t.base), segment, acc.next)),
              next |-> acc.next + t.count,
              previous |-> [type |-> s.type, count |-> t.count, base |-> t.base]]
RangesEwf1(file, sections, segment, first) ==
    LET none == [ranges |-> <<>>, next |-> first,
                 previous |-> [type |-> "none", count |-> 0, base |-> 0]]
        upTo[n \in 0..Len(sections)] ==
            IF n = 0 THEN none ELSE AddRangeEwf1(upTo[n - 1], file, sections, sections[n], segment)
    IN  upTo[Len(sections)].ranges

\* parse_ewf2_ranges()
AddRangeEwf2(ranges, file, s, segment) ==
    LET t == file.at[s.data]
    IN  IF s.type # "table" THEN ranges
        ELSE IF ~Found(file, s.data, "table") \/ s.size < 32 + 16 * t.count
        THEN Append(ranges, BadRange)
        ELSE IF t.count = 0 THEN ranges
        ELSE Append(ranges, [first |-> t.first, count |-> t.count, broken |-> FALSE,
                             segment |-> segment, entries |-> s.data])
RangesEwf2(file, sections, segment) ==
    LET upTo[n \in 0..Len(sections)] ==
            IF n = 0 THEN <<>> ELSE AddRangeEwf2(upTo[n - 1], file, sections[n], segment)
    IN  upTo[Len(sections)]

----------------------------------------------------------------------------
(* Image::open_segment_sources(): every segment in turn, then the index     *)

BadSegment == [ok |-> FALSE]

\* parse_ewf1_segment(), parse_ewf2_segment(): the tables of an EWF1 segment
\* go on from chunk first.
Summary(header, geometry, sections, ranges) ==
    IF \E i \in DOMAIN ranges : ranges[i].broken THEN BadSegment
    ELSE [ok |-> geometry.sectors = 0 \/ ranges # <<>>,
          number |-> header.number,
          geometry |-> geometry,
          profile |-> IF header.format = "ewf1" THEN geometry.format ELSE "ewf2",
          method |-> IF header.format = "ewf1" THEN "zlib" ELSE header.method,
          complete |-> AcquisitionComplete(sections),
          chunks |-> TotalOf([i \in DOMAIN ranges |-> ranges[i].count]),
          ranges |-> ranges]
ParseSections(file, sections, media, segment, first) ==
    IF ~Intact(sections) \/ media = <<>> THEN BadSegment
    ELSE IF ~Found(file, media[1].data, media[1].type) THEN BadSegment
    ELSE Summary(file.at[0], file.at[media[1].data], sections,
                 IF file.at[0].format = "ewf1"
                 THEN RangesEwf1(file, sections, segment, first)
                 ELSE RangesEwf2(file, sections, segment))
ParseSegment(file, sections, segment, first) ==
    ParseSections(file, sections, FirstOf(sections, {"volume", "device"}), segment, first)

ParseNext(acc, file) ==
    LET s == ParseSegment(file, Scan(file), Len(acc.parsed) + 1, acc.next)
    IN  [parsed |-> Append(acc.parsed, s), next |-> acc.next + IF s.ok THEN s.chunks ELSE 0]
ParseAll(files) ==
    LET upTo[n \in 0..Len(files)] ==
            IF n = 0 THEN [parsed |-> <<>>, next |-> 0] ELSE ParseNext(upTo[n - 1], files[n])
    IN  upTo[Len(files)].parsed

\* Faulty variant: the ranges need not reach the end of the media.
CoversStart(ranges, chunks) ==
    LET end(i) == IF i = 0 THEN 0 ELSE ranges[i].first + ranges[i].count
    IN  /\ \A i \in DOMAIN ranges : ranges[i].count > 0 /\ ranges[i].first = end(i - 1)
        /\ end(Len(ranges)) <= chunks
\* LazyChunkIndex::new(): the ranges cover the media without gap or overlap.
Covers(ranges, chunks) ==
    LET end(i) == IF i = 0 THEN 0 ELSE ranges[i].first + ranges[i].count
    IN  /\ \A i \in DOMAIN ranges : ranges[i].count > 0 /\ ranges[i].first = end(i - 1)
        /\ end(Len(ranges)) = chunks

NoImage == [ok |-> FALSE]

ChunksOf(grains, chunk) == (grains + chunk - 1) \div chunk

\* The image a set of segment files opens as.
ImageOf(format, parsed, ranges) ==
    LET grains == parsed[1].geometry.sectors * SectorGrains
        chunk == parsed[1].geometry.chunk
    IN  IF ~Covers(ranges, ChunksOf(grains, chunk)) THEN NoImage
        ELSE [ok |-> TRUE, size |-> grains, chunk |-> chunk, format |-> format,
              profile |-> parsed[1].profile, method |-> parsed[1].method,
              complete |-> Last(parsed).complete, ranges |-> ranges]
Join(format, parsed) ==
    IF \A i \in DOMAIN parsed :
          parsed[i].ok /\ parsed[i].number = i /\ parsed[i].geometry = parsed[1].geometry
    THEN ImageOf(format, parsed,
                 FlattenSeq([i \in DOMAIN parsed |-> parsed[i].ranges]))
    ELSE NoImage
Open(files) ==
    IF files = <<>> THEN NoImage ELSE Join(files[1].at[0].format, ParseAll(files))

----------------------------------------------------------------------------
(* Image::read_chunk()                                                     *)

NoEntry == -1

\* should_use_full_width_ewf1_offset(): is the high bit of the entry raw part of
\* its offset?  Told by the entry after it, if known, or by the end of the data.
FullWidth(range, raw, next, final, chunk) ==
    LET masked == range.base + (raw % EntryBit)
        full == range.base + raw
        nextMasked == range.base + (next % EntryBit)
        nextFull == range.base + next
    IN  /\ raw >= EntryBit
        /\ range.end - range.base > EntryBit
        /\ full < range.end
        /\ \/ /\ next # NoEntry
              /\ ~(nextMasked > masked /\ nextMasked - masked <= ZlibCap(chunk))
              /\ nextFull > full /\ nextFull - full <= SizeCap("raw", chunk)
           \/ /\ next = NoEntry /\ final
              /\ range.end - masked > ZlibCap(chunk)
              /\ range.end - full <= SizeCap("raw", chunk)

\* decode_ewf1_entry()
DecodeEntry(range, raw, next, final, chunk) ==
    IF FullWidth(range, raw, next, final, chunk)
    THEN [offset |-> range.base + raw, compressed |-> FALSE]
    ELSE [offset |-> range.base + (raw % EntryBit), compressed |-> raw >= EntryBit]

\* lookup_ewf1_chunk() with ewf1_chunk_encoding(): entry i, and entry i + 1 or
\* the end of the data for its size
Sized(entry, size, grains, chunk) ==
    LET tooLong == size > SizeCap("raw", chunk) /\ size <= ZlibCap(chunk)
        encoding == IF entry.compressed \/ tooLong THEN "zlib" ELSE "raw"
    IN  [ok |-> /\ size > 0
                /\ \/ ValidEncodedSize(size, encoding, chunk)
                   \/ encoding = "zlib" /\ size <= 2 * chunk * Grain,
         offset |-> entry.offset, size |-> size, encoding |-> encoding,
         checksum |-> encoding = "raw" /\ size = grains * Grain + 4]
Between(entry, end, grains, chunk) == Sized(entry, end - entry.offset, grains, chunk)
LookupEwf1(entries, range, i, grains, chunk) ==
    LET final == i = Len(entries)
        following == IF final THEN NoEntry ELSE entries[i + 1]
    IN  Between(DecodeEntry(range, entries[i], following, final, chunk),
                IF final THEN range.end
                ELSE DecodeEntry(range, following, NoEntry, i + 1 = Len(entries),
                                 chunk).offset,
                grains, chunk)

\* lookup_ewf2_chunk()
LookupEwf2(entries, i, method, chunk) ==
    LET e == entries[i]
        encoding == IF e.pattern /\ e.compressed THEN "pattern"
                    ELSE IF e.compressed THEN method ELSE "raw"
    IN  [ok |-> ValidEncodedSize(e.size, encoding, chunk), offset |-> e.offset, size |-> e.size,
         encoding |-> encoding, checksum |-> encoding = "raw" /\ e.checksum]

\* lookup_chunk() of chunk c, from zero, of an open image, in the table range
Lookup(entries, image, range, c, grains) ==
    IF image.format = "ewf1"
    THEN LookupEwf1(entries, range, c - range.first + 1, grains, image.chunk)
    ELSE LookupEwf2(entries, c - range.first + 1, image.method, image.chunk)

\* read_encoded_chunk_bytes() and decode_chunk(), of the chunk found
Decoded(file, found, grains) ==
    LET chunk == file.at[found.offset].chunk
    IN  IF ~found.ok THEN Garbage
        ELSE IF found.encoding = "pattern" THEN [j \in 1..grains |-> found.offset]
        ELSE IF ~Found(file, found.offset, "chunk") THEN Garbage
        ELSE IF found.checksum /\ chunk.trailer # "adler" THEN Garbage
        ELSE DecodeChunk(chunk, found.size, found.encoding, grains)

\* read_encoded_data_chunk(), with what it decodes to
EncodedDataChunk(file, found, grains) ==
    [encoding |-> found.encoding, size |-> found.size, flagged |-> found.checksum,
     trailer |-> IF found.checksum THEN "adler" ELSE "none",
     data |-> Decoded(file, found, grains)]
ChunkIn(files, image, range, c, grains) ==
    EncodedDataChunk(files[range.segment],
        Lookup(files[range.segment].at[range.entries].entries, image, range, c, grains), grains)

ChunksIn(files, image) ==
    LET range(c) == CHOOSE r \in ToSet(image.ranges) : c >= r.first /\ c < r.first + r.count
        left(c) == image.size - c * image.chunk
        grains(c) == IF left(c) < image.chunk THEN left(c) ELSE image.chunk
    IN  [i \in 1..ChunksOf(image.size, image.chunk) |->
            ChunkIn(files, image, range(i - 1), i - 1, grains(i - 1))]

\* The media of an open image, chunk after chunk.
MediaOf(chunks) == FlattenSeq([i \in DOMAIN chunks |-> chunks[i].data])
=============================================================================
