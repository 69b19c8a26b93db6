---------------------------- MODULE EwfRecovery ----------------------------
(***************************************************************************)
(* src/image/recovery.rs: what EwfRecovery makes of damaged EWF1 segment   *)
(* files.  It follows the descriptors as far as they can be trusted, pairs *)
(* each table with its copy, and gives every chunk of the media a status.  *)
(*                                                                         *)
(* A file is as in EwfLayout.  A piece whose checksum fails is there as    *)
(* "damaged", a table of which only the entries fail theirs as "suspect".  *)
(* A stored checksum of zero stands for none; no damage leaves one.        *)
(***************************************************************************)
EXTENDS EwfReader

\* RecoveryOptions: [preserve, limit, records]; a limit of 0 stands for none.

----------------------------------------------------------------------------
(* scan_sections(): a prefix of the descriptors, cut at the first doubt     *)

Chain(file, last) ==
    LET room(at) == file.length - (at + Desc1)
        declared(at) == file.at[at].size - Desc1
        section(at) == [type |-> file.at[at].type, at |-> at, data |-> at + Desc1,
                        size |-> IF declared(at) < room(at) THEN declared(at) ELSE room(at),
                        declared |-> declared(at)]
        scan[at \in DOMAIN file.at] ==
            IF ~Found(file, at, "descriptor") \/ room(at) < 0
            THEN [sections |-> <<>>, notices |-> <<at>>]
            ELSE LET s == section(at)
                     next == file.at[at].next
                     stop(notices) == [sections |-> <<s>>, notices |-> notices]
                 IN  IF s.declared > s.size THEN stop(<<at>>)
                     ELSE IF s.type \in {"done", "next"}
                     THEN stop(IF s.type = "next" /\ last THEN <<at>> ELSE <<>>)
                     ELSE IF next < s.data + s.size THEN stop(<<at>>)
                     ELSE IF next \notin DOMAIN file.at THEN stop(<<next>>)
                     ELSE [scan[next] EXCEPT !.sections = <<s>> \o @]
    IN  IF FileHeader1 \in DOMAIN file.at THEN scan[FileHeader1]
        ELSE [sections |-> <<>>, notices |-> <<FileHeader1>>]

----------------------------------------------------------------------------
(* collect_tables()                                                        *)

NoCandidate == [found |-> FALSE]
NoIdentity == <<>>

\* table_identity(): the count and base a table's header gives
Identity(file, s) ==
    IF s.size >= 24 /\ HasTable(file, s.data)
    THEN <<file.at[s.data].count, file.at[s.data].base>> ELSE NoIdentity

\* matching_sectors_section(), or sectors_section_containing_offset()
SectorsFor(sections, base, first) ==
    LET byBase == MatchingSectors(sections, base)
        holding == SelectSeq(OfType(sections, {"sectors"}),
                             LAMBDA s : first >= s.data /\ first <= s.data + s.size)
    IN  IF byBase # <<>> THEN byBase ELSE holding

\* parse_candidate()
Candidate(file, sections, s, segment) ==
    LET t == file.at[s.data]
        sectors == SectorsFor(sections, t.base, t.base + (t.entries[1] % EntryBit))
    IN  IF Identity(file, s) = NoIdentity THEN NoCandidate
        ELSE IF t.count = 0 \/ 4 * t.count > s.size - 24 \/ sectors = <<>> THEN NoCandidate
        ELSE [found |-> TRUE, count |-> t.count, segment |-> segment, entries |-> s.data,
              base |-> t.base, start |-> sectors[1].data,
              end |-> sectors[1].data + sectors[1].declared,
              trusted |-> ~EntriesFail(file, s)]

\* What table_candidate() has to tell of a candidate
CandidateNotices(s, candidate) ==
    IF candidate.found /\ candidate.trusted THEN <<>> ELSE <<s.data>>

\* A table2 is the copy of the table before it unless both can be read and differ.
Pairs(file, table, copy) ==
    /\ table.type = "table" /\ copy.type = "table2"
    /\ \/ NoIdentity \in {Identity(file, table), Identity(file, copy)}
       \/ Identity(file, table) = Identity(file, copy)

\* The groups of the tables from i on, the first of which begins at chunk first.
\* A table without a count stops it, and fails it if anything is to follow.
Groups(file, sections, segment, first, last) ==
    LET tables == OfType(sections, {"table", "table2"})
        candidate(i) == Candidate(file, sections, tables[i], segment)
        paired(i) == i < Len(tables) /\ Pairs(file, tables[i], tables[i + 1])
        group[i \in 1..(Len(tables) + 2), at \in Nat] ==
            IF i > Len(tables) THEN [ok |-> TRUE, groups |-> <<>>, next |-> at, notices |-> <<>>]
            ELSE LET one == candidate(i)
                     two == IF paired(i) THEN candidate(i + 1) ELSE NoCandidate
                     following == IF paired(i) THEN i + 2 ELSE i + 1
                     notices == CandidateNotices(tables[i], one)
                                \o IF paired(i) THEN CandidateNotices(tables[i + 1], two)
                                   ELSE <<>>
                     count == IF one.found THEN one.count ELSE two.count
                     alone == tables[i].type = "table2"
                     made == [first |-> at, count |-> count,
                              primary |-> IF alone THEN NoCandidate ELSE one,
                              redundant |-> IF alone THEN one ELSE two]
                     rest == group[following, at + count]
                 IN  IF ~one.found /\ ~two.found
                     THEN [ok |-> following > Len(tables) /\ last, groups |-> <<>>,
                           next |-> at, notices |-> notices]
                     ELSE [rest EXCEPT !.groups = <<made>> \o @, !.notices = notices \o @]
    IN  group[1, first]

\* Sectors no table leads to are accepted only behind the last chunks placed.
SectorsPlaced(sections, groups, last) ==
    LET candidates == UNION {{g.primary, g.redundant} : g \in ToSet(groups)} \ {NoCandidate}
        loose(s) == s.size > 0 /\ \A c \in candidates : c.start # s.data
    IN  \A s \in ToSet(OfType(sections, {"sectors"})) :
            loose(s) => last /\ \A c \in candidates : c.start < s.data

Placed(collected, sections, last) ==
    LET types == {s.type : s \in ToSet(sections)}
    IN  [collected EXCEPT
            !.ok = /\ @
                   /\ "sectors" \in types \/ types \cap {"table", "table2"} = {}
                   /\ SectorsPlaced(sections, collected.groups, last)]
CollectTables(file, sections, segment, first, last) ==
    Placed(Groups(file, sections, segment, first, last), sections, last)

----------------------------------------------------------------------------
(* open_segments()                                                         *)

Refusal == [ok |-> FALSE]

\* The volume of a segment: of EWF1, unencrypted, zlib, not SMART, consistent
GeometryOk(file, volumes) ==
    \A v \in ToSet(volumes) :
        /\ Found(file, v.data, "volume")
        /\ v.data + VolumeSize("ewf1") <= file.length
        /\ file.at[v.data].format = "ewf1"
        /\ file.at[v.data].chunks
              = ChunksOf(file.at[v.data].sectors * SectorGrains, file.at[v.data].chunk)

\* A segment with these sections and tables, after those in acc
WithTables(acc, file, index, chain, tables, last, o) ==
    LET volumes == SelectSeq(chain.sections, LAMBDA s : s.type = "volume")
        geometry == file.at[volumes[1].data]
        first == index = 1
    IN  IF /\ file.at[0].format = "ewf1" /\ file.at[0].number = index
           /\ last \/ (chain.sections # <<>> /\ Last(chain.sections).type \in {"next", "done"})
           /\ first => volumes # <<>>
           /\ GeometryOk(file, volumes)
           /\ volumes # <<>> /\ ~first => geometry = acc.geometry
           /\ o.limit = 0 \/ (IF first THEN geometry ELSE acc.geometry).sectors
                                 * SectorGrains <= o.limit
           /\ tables.ok
           /\ last \/ tables.next > acc.next
        THEN [ok |-> TRUE, groups |-> acc.groups \o tables.groups, next |-> tables.next,
              geometry |-> IF first THEN geometry ELSE acc.geometry,
              notices |-> acc.notices \o chain.notices \o tables.notices]
        ELSE Refusal
WithChain(acc, file, index, chain, last, o) ==
    WithTables(acc, file, index, chain,
               CollectTables(file, chain.sections, index, acc.next, last), last, o)
AddSegment(acc, file, index, last, o) ==
    WithChain(acc, file, index, Chain(file, last), last, o)

\* EwfRecovery: the plan, or a refusal
WithinMedia(plan) ==
    IF plan.ok THEN [plan EXCEPT !.ok = plan.next <= plan.geometry.chunks] ELSE Refusal
OpenRecovery(files, o) ==
    LET none == [ok |-> files # <<>>, groups |-> <<>>, next |-> 0, geometry |-> <<>>,
                 notices |-> <<>>]
    IN  WithinMedia(FoldLeft(LAMBDA acc, i :
                            IF acc.ok THEN AddSegment(acc, files[i], i, i = Len(files), o)
                            ELSE acc,
                            none, [i \in DOMAIN files |-> i]))

----------------------------------------------------------------------------
(* recover_chunk()                                                         *)

Unreadable == [ok |-> FALSE]

\* read_candidate(): chunk i, from one, of a table.  Raw bytes that are not the
\* beginning of a raw chunk are whatever the file has there.
Scrap(grains) == [j \in 1..grains |-> Noise]
ReadCandidate(file, c, i, grains, chunk) ==
    LET entries == file.at[c.entries].entries
        final == i = c.count
        entry == DecodeEntry(c, entries[i], IF final THEN NoEntry ELSE entries[i + 1],
                             final, chunk)
        end == IF final THEN c.end
               ELSE DecodeEntry(c, entries[i + 1], NoEntry, i + 1 = c.count, chunk).offset
        size == end - entry.offset
        encoding == IF entry.compressed THEN "zlib" ELSE "raw"
        there == Found(file, entry.offset, "chunk")
        piece == file.at[entry.offset].chunk
        isRaw == there /\ piece.encoding = "raw" /\ Len(piece.data) >= grains
        checked == size \in {grains * Grain + 4, chunk * Grain + 4}
        data == IF encoding = "raw"
                THEN IF isRaw THEN SubSeq(piece.data, 1, grains) ELSE Scrap(grains)
                ELSE IF there THEN DecodeChunk(piece, size, "zlib", grains) ELSE Garbage
    IN  IF \/ entry.offset < c.start \/ end > c.end \/ size <= 0
           \/ ~ValidEncodedSize(size, encoding, chunk)
           \/ end > file.length
           \/ encoding = "raw" /\ ~checked /\ size \notin {grains * Grain, chunk * Grain}
           \/ grains > 0 /\ data = Garbage
        THEN Unreadable
        ELSE [ok |-> TRUE, data |-> data,
              sound |-> /\ encoding = "raw" /\ checked =>
                            isRaw /\ piece.size = size /\ piece.trailer = "adler"
                        /\ c.trusted]

ZeroFill(grains) == [status |-> "zeroFilled", data |-> [j \in 1..grains |-> Zero]]

\* Faulty variant: whatever can be read is taken for sound.
FirstRead(readings, o) ==
    LET read == {k \in DOMAIN readings : readings[k].ok}
    IN  IF read = {} THEN <<>>
        ELSE <<[status |-> <<"primary", "redundant">>[Min(read)],
                data |-> readings[Min(read)].data]>>
\* The first sound reading, or the first suspect one if it may be kept.
BestReading(readings, o) ==
    LET sound == {k \in DOMAIN readings : readings[k].ok /\ readings[k].sound}
        read == {k \in DOMAIN readings : readings[k].ok}
        best(among, names) == <<[status |-> names[Min(among)],
                                 data |-> readings[Min(among)].data]>>
    IN  IF sound # {} THEN best(sound, <<"primary", "redundant">>)
        ELSE IF read # {} /\ o.preserve
        THEN best(read, <<"suspectPrimary", "suspectRedundant">>)
        ELSE <<>>

FirstOr(readings, none) == IF readings = <<>> THEN none ELSE readings[1]
RecoverChunk(files, plan, id, grains, o) ==
    LET holds(g) == id >= g.first /\ id < g.first + g.count
        groups == SelectSeq(plan.groups, holds)
        reading(c) ==
            IF c.found THEN ReadCandidate(files[c.segment], c, id - groups[1].first + 1,
                                          grains, plan.geometry.chunk)
            ELSE Unreadable
    IN  IF groups = <<>> THEN ZeroFill(grains)
        ELSE FirstOr(BestReading(<<reading(groups[1].primary), reading(groups[1].redundant)>>, o),
                     ZeroFill(grains))

----------------------------------------------------------------------------
(* recover_with_progress()                                                 *)

\* Coalesced outcome records, of which o.records are kept
Record(report, id, status, o) ==
    LET joins == /\ report.ranges # <<>>
                 /\ Last(report.ranges).status = status
                 /\ Last(report.ranges).first + Last(report.ranges).count = id
    IN  IF joins THEN [report EXCEPT !.ranges[Len(report.ranges)].count = @ + 1]
        ELSE IF Len(report.ranges) < o.records
        THEN [report EXCEPT !.ranges = Append(@, [first |-> id, count |-> 1,
                                                  status |-> status])]
        ELSE [report EXCEPT !.omitted = @ + 1]

\* The report and what is written until the progress event stop stops it; the
\* events are numbered from zero, which comes before the first chunk.
Recover(files, plan, o, stop) ==
    LET size == plan.geometry.sectors * SectorGrains
        chunk == plan.geometry.chunk
        grains(id) == IF size - id * chunk < chunk THEN size - id * chunk ELSE chunk
        written(report, id, recovered) ==
            [Record(report, id, recovered.status, o)
                EXCEPT !.output = @ \o recovered.data,
                       !.status = Append(@, recovered.status),
                       !.aborted = stop = id + 1]
        emit(report, id) ==
            IF report.aborted THEN report
            ELSE written(report, id, RecoverChunk(files, plan, id, grains(id), o))
        kept == IF Len(plan.notices) < o.records THEN Len(plan.notices) ELSE o.records
        opened == [output |-> <<>>, status |-> <<>>, ranges |-> <<>>, omitted |-> 0,
                   notices |-> SubSeq(plan.notices, 1, kept),
                   omittedNotices |-> Len(plan.notices) - kept,
                   aborted |-> stop = 0]
    IN  FoldLeft(emit, opened, [i \in 1..ChunksOf(size, chunk) |-> i - 1])
=============================================================================
