----------------------------- MODULE EwfLayout -----------------------------
(***************************************************************************)
(* How src/writer.rs lays encoded chunks out in segment files: which chunks *)
(* go into which segment, and where the sections of a segment stand.       *)
(*                                                                         *)
(* A file is its length and what begins at which of its offsets.  Offsets  *)
(* written into descriptors and tables are planned before anything is      *)
(* written, as in the code; where a piece really begins follows from the   *)
(* pieces written before it.  Logical images, their catalogs and their     *)
(* tables are left out.                                                    *)
(***************************************************************************)
EXTENDS ChunkCodec, SequencesExt, Totals

CONSTANTS SectionSize,    \* payload bytes of each optional section
          MaxTableEntries, \* EWF1_TABLE_GROUP_MAX_ENTRIES, 16,375
          MaxTablePayload, \* EWF1_TABLE_GROUP_MAX_PAYLOAD, 2^31 - 1
          EntryBit         \* the compressed bit of an EWF1 table entry, 2^31

\* Optional sections
FirstOnly1 == {"header", "header2", "xheader", "session", "error2"}
LastOnly1 == {"digest", "xhash"}
FirstOnly2 == {"errors", "sessions", "extents", "increment"}
LastOnly2 == {"md5", "sha1", "final", "analytical", "restart"}
Computed == {"digest", "xhash", "md5", "sha1"}
Optional == FirstOnly1 \cup LastOnly1 \cup FirstOnly2 \cup LastOnly2

ASSUME LayoutAssumption ==
    /\ SectionSize \in [Optional -> Nat \ {0}]
    /\ MaxTableEntries \in Nat \ {0}
    /\ MaxTablePayload \in Nat /\ EntryBit \in Nat /\ MaxTablePayload < EntryBit

FileHeader1 == 13
Desc1 == 76
FileHeader2 == 32
Desc2 == 64
VolumeSize(format) == IF format = "smart" THEN 94 ELSE 1052
FooterSize(format) == IF format = "smart" THEN 0 ELSE 4
WritesTable2(format) == format = "ewf1"
DeviceSize == 200
CaseSize == 150

Payload(chunks) == TotalOf([i \in DOMAIN chunks |-> chunks[i].size])

\* The sections options o ask for; effective_write_hashes() adds the digests.
Configured(o) == o.sections \cup Computed
PayloadOf(s, o, written) == IF written /\ s \in Configured(o) THEN SectionSize[s] ELSE 0

----------------------------------------------------------------------------
(* Files                                                                   *)

\* pieces, one after the other from offset 0; each has its length len
Assemble(pieces) ==
    LET lens == [i \in DOMAIN pieces |-> pieces[i].len]
        starts == [i \in DOMAIN pieces |-> TotalOf(SubSeq(lens, 1, i - 1))]
        full == {i \in DOMAIN pieces : pieces[i].len > 0}
        begins == {starts[i] : i \in full}
    IN  [length |-> TotalOf(lens),
         at |-> [offset \in begins |-> pieces[CHOOSE i \in full : starts[i] = offset]]]

ChunkPieces(chunks) ==
    [i \in DOMAIN chunks |-> [is |-> "chunk", len |-> chunks[i].size, chunk |-> chunks[i]]]

----------------------------------------------------------------------------
(* Tables of EWF1 segments                                                 *)

\* Ewf1TableGroupState
NoTables == [count |-> 0, entries |-> 0, payload |-> 0]
StartsTable(state, size) ==
    /\ state.entries # 0
    /\ state.entries >= MaxTableEntries \/ state.payload + size > MaxTablePayload
AddChunk(state, size) ==
    IF StartsTable(state, size)
    THEN [count |-> state.count + 1, entries |-> 1, payload |-> size]
    ELSE [count |-> IF state.count = 0 THEN 1 ELSE state.count,
          entries |-> state.entries + 1, payload |-> state.payload + size]

\* ewf1_table_groups(): at least one group, if an empty one
NoGroups == [state |-> NoTables, closed |-> <<>>, open |-> <<>>]
Grouped(acc, chunk) ==
    LET next == AddChunk(acc.state, chunk.size)
        closes == next.count > acc.state.count /\ acc.state.entries # 0
    IN  [state |-> next,
         closed |-> IF closes THEN Append(acc.closed, acc.open) ELSE acc.closed,
         open |-> IF closes THEN <<chunk>> ELSE Append(acc.open, chunk)]
GroupedAll(chunks) ==
    LET upTo[n \in 0..Len(chunks)] ==
            IF n = 0 THEN NoGroups ELSE Grouped(upTo[n - 1], chunks[n])
    IN  upTo[Len(chunks)]
TableGroups(chunks) ==
    LET all == GroupedAll(chunks)
    IN  Append(all.closed, all.open)

\* ewf1_table_group_layouts(), the first group's sectors planned at offset at
LayGroups(groups, at, format) ==
    LET tableSize(i) == 24 + 4 * Len(groups[i]) + FooterSize(format)
        sizes == [i \in DOMAIN groups |->
                    Desc1 + Payload(groups[i]) + Desc1 + tableSize(i)
                    + IF WritesTable2(format) THEN Desc1 + tableSize(i) ELSE 0]
        start(i) == at + TotalOf(SubSeq(sizes, 1, i - 1))
        table(i) == start(i) + Desc1 + Payload(groups[i])
    IN  [i \in DOMAIN groups |->
            [chunks |-> groups[i], sectors |-> start(i), table |-> table(i),
             tableSize |-> tableSize(i), table2 |-> table(i) + Desc1 + tableSize(i),
             end |-> start(i + 1)]]
TableLayouts(chunks, at, format) == LayGroups(TableGroups(chunks), at, format)

\* append_ewf1_table_data(), and where it refuses
RelativeOffsets(chunks) == [i \in DOMAIN chunks |-> Payload(SubSeq(chunks, 1, i - 1))]
EntriesFit(chunks) == \A i \in DOMAIN chunks : RelativeOffsets(chunks)[i] < EntryBit
Table1(chunks, base, size) ==
    [is |-> "table", len |-> size, count |-> Len(chunks), base |-> base,
     entries |-> [i \in DOMAIN chunks |->
                    RelativeOffsets(chunks)[i]
                    + IF chunks[i].encoding = "raw" THEN 0 ELSE EntryBit]]

----------------------------------------------------------------------------
(* write_ewf1_segment()                                                    *)

Desc(type, next, size) ==
    [is |-> "descriptor", len |-> Desc1, type |-> type, next |-> next, size |-> Desc1 + size]
Opaque(type, size) == [is |-> "payload", len |-> size, type |-> type]

Volume(o, context) ==
    [is |-> "volume", len |-> VolumeSize(o.format), format |-> o.format,
     chunk |-> o.chunk, chunks |-> context.total, sectors |-> context.sectors]

Size1(s, o, context) ==
    PayloadOf(s, o, IF s \in FirstOnly1 THEN context.first ELSE context.digests)
Section1(s, next, o, context) ==
    LET size == Size1(s, o, context)
    IN  IF size = 0 THEN <<>> ELSE <<Desc(s, next, size), Opaque(s, size)>>

\* The planned offsets of the descriptors.  An absent section has the offset of
\* what follows it, so that the section before an absent one is linked to the
\* first present after it.
PlanEwf1(chunks, o, context) ==
    LET past(at, s) ==
            at + IF Size1(s, o, context) = 0 THEN 0 ELSE Desc1 + Size1(s, o, context)
        header2 == past(FileHeader1, "header")
        xheader == past(header2, "header2")
        volume == past(xheader, "xheader")
        session == volume + Desc1 + VolumeSize(o.format)
        groups == TableLayouts(chunks, past(session, "session"), o.format)
        error2 == Last(groups).end
        digest == past(error2, "error2")
        xhash == past(digest, "digest")
    IN  [header2 |-> header2, xheader |-> xheader, volume |-> volume, session |-> session,
         groups |-> groups, error2 |-> error2, digest |-> digest, xhash |-> xhash,
         done |-> past(xhash, "xhash")]

\* The sections of group i of the groups laid out, and next behind them
GroupPieces(groups, i, next, format) ==
    LET g == groups[i]
        table == Table1(g.chunks, g.sectors + Desc1, g.tableSize)
    IN  <<Desc("sectors", g.table, Payload(g.chunks))>>
        \o ChunkPieces(g.chunks)
        \o <<Desc("table", IF WritesTable2(format) THEN g.table2 ELSE next, g.tableSize), table>>
        \o IF WritesTable2(format) THEN <<Desc("table2", next, g.tableSize), table>> ELSE <<>>

PlannedPieces(plan, o, context) ==
    LET groups == plan.groups
    IN  <<[is |-> "header", len |-> FileHeader1, format |-> "ewf1", number |-> context.number]>>
        \o Section1("header", plan.header2, o, context)
        \o Section1("header2", plan.xheader, o, context)
        \o Section1("xheader", plan.volume, o, context)
        \o <<Desc("volume", plan.session, VolumeSize(o.format)), Volume(o, context)>>
        \o Section1("session", groups[1].sectors, o, context)
        \o FlattenSeq([i \in DOMAIN groups |->
              GroupPieces(groups, i, IF i = Len(groups) THEN plan.error2
                                     ELSE groups[i + 1].sectors, o.format)])
        \o Section1("error2", plan.digest, o, context)
        \o Section1("digest", plan.xhash, o, context)
        \o Section1("xhash", plan.done, o, context)
        \o <<Desc(context.terminal, plan.done, 0)>>
Ewf1Pieces(chunks, o, context) == PlannedPieces(PlanEwf1(chunks, o, context), o, context)
Ewf1Segment(chunks, o, context) == Assemble(Ewf1Pieces(chunks, o, context))

----------------------------------------------------------------------------
(* write_ewf2_segment(): a section's data, then its descriptor, which links *)
(* back to the previous one                                                *)

Table2(chunks, context, base, size) ==
    [is |-> "table", len |-> size, first |-> context.firstChunk, count |-> Len(chunks),
     entries |-> [i \in DOMAIN chunks |->
         [offset |-> IF chunks[i].encoding = "pattern" THEN chunks[i].data[1]
                     ELSE base + RelativeOffsets(chunks)[i],
          size |-> chunks[i].size,
          compressed |-> chunks[i].encoding # "raw",
          checksum |-> chunks[i].flagged,
          pattern |-> chunks[i].encoding = "pattern"]]]

SectionOf(type, size) == [type |-> type, size |-> size]
Section2(s, o, context) ==
    LET size == PayloadOf(s, o, IF s \in FirstOnly2 THEN context.number = 1
                                ELSE context.terminal = "done")
    IN  IF size = 0 THEN <<>> ELSE <<SectionOf(s, size)>>
Sections2(chunks, o, context) ==
    LET optional(s) == Section2(s, o, context)
    IN  <<SectionOf("device", DeviceSize), SectionOf("case", CaseSize)>>
        \o optional("errors") \o optional("sessions") \o optional("extents")
        \o optional("increment")
        \o <<SectionOf("sectors", Payload(chunks)),
             SectionOf("table", 32 + 16 * Len(chunks) + 16)>>
        \o optional("md5") \o optional("sha1") \o optional("final")
        \o optional("analytical") \o optional("restart")
        \o <<SectionOf(context.terminal, 0)>>

\* The data of section s; base is where the chunks are.
Data2(s, base, chunks, o, context) ==
    CASE s.type = "sectors" -> ChunkPieces(chunks)
      [] s.type = "table" -> <<Table2(chunks, context, base, s.size)>>
      [] s.type = "device" ->
            <<[is |-> "device", len |-> DeviceSize, chunk |-> o.chunk,
               sectors |-> context.sectors]>>
      [] OTHER -> <<Opaque(s.type, s.size)>>

SectionPieces(sections, chunks, o, context) ==
    LET \* plan_ewf2_section(): where the data of section i begins, and the
        \* descriptor before it
        sizes == [i \in DOMAIN sections |-> sections[i].size + Desc2]
        planned(i) == FileHeader2 + TotalOf(SubSeq(sizes, 1, i - 1))
        previous(i) == IF i = 1 THEN 0 ELSE planned(i) - Desc2
        base == planned(CHOOSE i \in DOMAIN sections : sections[i].type = "sectors")
    IN  <<[is |-> "header", len |-> FileHeader2, format |-> "ewf2",
           number |-> context.number,
           method |-> IF o.compression = "bzip2" THEN "bzip2" ELSE "zlib"]>>
        \o FlattenSeq([i \in DOMAIN sections |->
              Data2(sections[i], base, chunks, o, context)
              \o <<[is |-> "descriptor", len |-> Desc2, type |-> sections[i].type,
                    size |-> sections[i].size, previous |-> previous(i)]>>])
Ewf2Pieces(chunks, o, context) ==
    SectionPieces(Sections2(chunks, o, context), chunks, o, context)
Ewf2Segment(chunks, o, context) == Assemble(Ewf2Pieces(chunks, o, context))

----------------------------------------------------------------------------
(* Which chunks go into which segment                                      *)

\* estimated_ewf1_segment_size(), with sections of the sizes given
EstimateEwf1(count, payload, tables, o, sizes) ==
    LET tableBytes == tables * (Desc1 + 24 + FooterSize(o.format)) + 4 * count
        optional(s) == IF s \in Configured(o) THEN Desc1 + sizes[s] ELSE 0
    IN  FileHeader1 + optional("header") + optional("header2") + optional("xheader")
        + Desc1 + VolumeSize(o.format) + optional("session")
        + tableBytes + (IF WritesTable2(o.format) THEN tableBytes ELSE 0)
        + tables * Desc1 + payload
        + optional("error2") + optional("digest") + optional("xhash") + Desc1

\* estimated_ewf2_segment_size()
EstimateEwf2(count, payload, o) ==
    LET optional(s) == IF s \in Configured(o) THEN Desc2 + SectionSize[s] ELSE 0
    IN  FileHeader2 + (Desc2 + DeviceSize) + (Desc2 + CaseSize)
        + optional("errors") + optional("sessions") + optional("extents")
        + optional("increment")
        + (Desc2 + 32 + 16 * count + 16) + (Desc2 + payload)
        + optional("md5") + optional("sha1") + optional("final") + optional("analytical")
        + optional("restart") + Desc2

\* Faulty variant: the tables of a segment are taken for one.
EstimateOneTable(count, payload, tables, o) ==
    IF IsEwf2(o.format) THEN EstimateEwf2(count, payload, o)
    ELSE EstimateEwf1(count, payload, 1, o, SectionSize)
EstimatedSize(count, payload, tables, o) ==
    IF IsEwf2(o.format) THEN EstimateEwf2(count, payload, o)
    ELSE EstimateEwf1(count, payload, tables, o, SectionSize)

\* segment_groups()
NoSegments == [closed |-> <<>>, open |-> <<>>, tables |-> NoTables]
Segmented(acc, chunk, o) ==
    LET tables == AddChunk(acc.tables, chunk.size)
        size == EstimatedSize(Len(acc.open) + 1, Payload(acc.open) + chunk.size,
                              tables.count, o)
    IN  IF acc.open # <<>> /\ size > o.limit
        THEN [closed |-> Append(acc.closed, acc.open), open |-> <<chunk>>,
              tables |-> AddChunk(NoTables, chunk.size)]
        ELSE [closed |-> acc.closed, open |-> Append(acc.open, chunk), tables |-> tables]
SegmentedAll(chunks, o) ==
    LET upTo[n \in 0..Len(chunks)] ==
            IF n = 0 THEN NoSegments ELSE Segmented(upTo[n - 1], chunks[n], o)
    IN  upTo[Len(chunks)]
SegmentGroups(chunks, o) ==
    LET all == SegmentedAll(chunks, o)
    IN  IF o.limit = 0 THEN <<chunks>> ELSE Append(all.closed, all.open)
=============================================================================
