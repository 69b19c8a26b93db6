----------------------------- MODULE EwfDamage -----------------------------
(***************************************************************************)
(* What src/verify.rs and src/image/recovery.rs say of an image that was   *)
(* damaged after it was made: segment files lost or cut short, and pieces  *)
(* of them spoiled.  Only EWF1 files are damaged, and their metadata       *)
(* sections are not.                                                       *)
(***************************************************************************)
EXTENDS EwfImage, EwfRecovery

CONSTANTS MaxTrouble, \* calls of the writer and harms together at most: a bound
          Batch,      \* chunks verification decodes before it hashes them
          Records     \* outcome records and notices recovery keeps

ASSUME DamageAssumption ==
    MaxTrouble \in Nat /\ Batch \in Nat \ {0} /\ Records \in Nat

VARIABLE damage  \* what was done to the files of disk
damageVars == <<vars, damage>>

----------------------------------------------------------------------------
(* Damage                                                                  *)

\* A harm: to which segment, what, and at which offset.
Harm(segment, how, at) == [segment |-> segment, how |-> how, at |-> at]

\* Where a file may end: where a piece begins, and behind the entries of a table.
Cuts(file) ==
    (DOMAIN file.at \cup {at + 24 + 4 * file.at[at].count :
                            at \in {x \in DOMAIN file.at : Found(file, x, "table")}})
    \ {0}
Harms(files) ==
    UNION {LET file == files[i]
               at(is) == {x \in DOMAIN file.at : file.at[x].is = is}
           IN  {Harm(i, "lost", 0)}
               \cup {Harm(i, "cut", x) : x \in Cuts(file)}
               \cup {Harm(i, "spoiled", x) :
                       x \in at("descriptor") \cup at("volume") \cup at("table") \cup at("chunk")}
               \cup {Harm(i, "entries", x) : x \in {y \in at("table") : file.at[y].count > 0}} :
           i \in DOMAIN files}

\* A chunk of other media, under the checksum it had; compressed, no stream.
SpoiledChunk(c) ==
    IF c.encoding # "raw" THEN [c EXCEPT !.encoding = "spoiled"]
    ELSE [c EXCEPT !.data[1] = CHOOSE v \in Values : v # @,
                   !.trailer = IF @ = "adler" THEN "wrong" ELSE @]
\* A table in which each entry is the one behind it.
ShiftedTable(t) ==
    [t EXCEPT !.is = "suspect",
              !.entries = [i \in DOMAIN @ |-> @[IF i < Len(@) THEN i + 1 ELSE i]]]

HarmedPiece(piece, how) ==
    IF "spoiled" \in how
    THEN IF piece.is = "chunk" THEN [piece EXCEPT !.chunk = SpoiledChunk(@)]
         ELSE [is |-> "damaged", len |-> piece.len]
    ELSE IF "entries" \in how THEN ShiftedTable(piece)
    ELSE piece
HarmedFile(file, harms) ==
    LET length == Min({file.length} \cup {h.at : h \in {x \in harms : x.how = "cut"}})
        how(at) == {h.how : h \in {x \in harms : x.at = at}}
    IN  [length |-> length,
         at |-> [at \in {x \in DOMAIN file.at : x < length} |->
                    HarmedPiece(file.at[at], how(at))]]

\* The files that are left, in order
Lost(i) == Harm(i, "lost", 0) \in damage
FilesLeft ==
    LET kept == SetToSortSeq({i \in DOMAIN disk : ~Lost(i)}, <)
    IN  [k \in DOMAIN kept |->
            HarmedFile(disk[kept[k]], {h \in damage : h.segment = kept[k]})]

\* A second harm, or harm to an image of a writer that was called, is to tables and
\* chunks: a bound.
ToContents(h) ==
    h.how \in {"spoiled", "entries"} /\ disk[h.segment].at[h.at].is \in {"table", "chunk"}
Damage ==
    /\ phase = "closed" /\ outcome \in {"done", "next"}
    /\ disk[1].at[0].format = "ewf1"
    /\ calls + Cardinality(damage) < MaxTrouble
    /\ \E h \in Harms(disk) \ damage :
          /\ calls > 0 \/ damage # {} => \A k \in damage \cup {h} : ToContents(k)
          /\ damage' = damage \cup {h}
    /\ UNCHANGED vars

DamageInit == Init /\ damage = {}
\* Nothing else is done with a damaged image.
DamageNext == (damage = {} /\ Next /\ UNCHANGED damage) \/ Damage
DamageSpec == DamageInit /\ [][DamageNext]_damageVars

----------------------------------------------------------------------------
(* Image::scan_media()                                                     *)

\* verification_chunk(), of every chunk: Garbage if it fails
Readings(files, image) ==
    LET chunks == ChunksIn(files, image)
    IN  [i \in DOMAIN chunks |-> chunks[i].data]

\* Faulty variant: a chunk that failed is left out of what is hashed.
HashRegardless(scan, data, size) ==
    IF Len(data) = size /\ size > 0 THEN [scan EXCEPT !.hashed = @ \o data] ELSE scan
\* One chunk of size grains; a failure ends the scan unless it keeps going.
HashChunk(scan, data, size) ==
    IF Len(data) = size /\ size > 0 THEN [scan EXCEPT !.hashed = @ \o data]
    ELSE [scan EXCEPT !.failures = @ + 1, !.outcome = IF scan.keepGoing THEN @ ELSE "failed"]

\* The scan of an open image, a batch after the other, until progress event stop
\* stops it; the events are numbered from zero, which comes before any chunk.
ScanMedia(files, image, keepGoing, stop) ==
    LET readings == Readings(files, image)
        left(c) == image.size - c * image.chunk
        chunk(scan, c) ==
            IF scan.outcome # "ok" THEN scan
            ELSE LET hashed == HashChunk(scan, readings[c + 1],
                                         IF left(c) < image.chunk THEN left(c) ELSE image.chunk)
                 IN  IF hashed.outcome = "ok" /\ stop = c + 1
                     THEN [hashed EXCEPT !.outcome = "aborted"] ELSE hashed
        batch(scan, b) ==
            FoldLeft(chunk, scan, SelectSeq([i \in 1..Batch |-> b * Batch + i - 1],
                                            LAMBDA c : c < Len(readings)))
        scan == FoldLeft(batch, [hashed |-> <<>>, failures |-> 0, keepGoing |-> keepGoing,
                                 outcome |-> IF stop = 0 THEN "aborted" ELSE "ok"],
                         [b \in 1..((Len(readings) + Batch - 1) \div Batch) |-> b - 1])
    IN  [outcome |-> scan.outcome, failures |-> scan.failures,
         hashes |-> IF scan.outcome = "ok" /\ scan.failures = 0 THEN <<scan.hashed>> ELSE <<>>]

SectionsOf(files) == FlattenSeq([i \in DOMAIN files |-> Scan(files[i])])

\* The hashes an image has stored, each as the media it is of: those of the
\* media the writer had, if the image has a section of digests.
StoredHashes(files) ==
    IF OfType(SectionsOf(files), Computed) = <<>> THEN {} ELSE {written.media}

\* compare_hashes(), references_match(): TRUE, FALSE, or neither
Matches(stored, hashes) == {hash = hashes[1] : hash \in stored}

----------------------------------------------------------------------------
(* Image::verify_with_progress() and Image::analyze_with_progress()         *)

Compared(files, scan) ==
    IF scan.outcome # "ok" THEN [outcome |-> scan.outcome, hashes |-> <<>>]
    ELSE [outcome |-> "ok", hashes |-> scan.hashes,
          matches |-> Matches(StoredHashes(files), scan.hashes)]
VerifyImage(files, image, stop) ==
    IF image.ok THEN Compared(files, ScanMedia(files, image, FALSE, stop))
    ELSE [outcome |-> "refused", hashes |-> <<>>]

\* analyze_redundant_tables(), compare_table_entries(): the tables of a file that
\* differ from the copy behind them
TableMismatches(file) ==
    LET tables == OfType(Scan(file), {"table", "table2"})
        at(i) == file.at[tables[i].data]
        isCopy(i) == /\ tables[i].type = "table2" /\ i > 1 /\ tables[i - 1].type = "table"
                     /\ at(i).count = at(i - 1).count /\ at(i).base = at(i - 1).base
    IN  Cardinality({i \in DOMAIN tables : isCopy(i) /\ at(i).entries # at(i - 1).entries})

\* IntegrityReport: how many findings are errors, how many warnings, and how many
\* are kept
Report(status, hashes, errors, warnings) ==
    [outcome |-> status, hashes |-> hashes, errors |-> errors, warnings |-> warnings,
     findings |-> IF errors + warnings < Records THEN errors + warnings ELSE Records,
     suppressed |-> IF errors + warnings < Records THEN 0 ELSE errors + warnings - Records]
Analyzed(files, image, scan, stored) ==
    LET one(condition) == IF condition THEN 1 ELSE 0
        warnings == one(~image.complete) + one(stored = {})
                    + one(OfType(SectionsOf(files), {"error2", "errors"}) # <<>>)
        mismatches == IF image.format # "ewf1" THEN 0
                      ELSE TotalOf([i \in DOMAIN files |-> TableMismatches(files[i])])
        differs == scan.hashes # <<>> /\ FALSE \in Matches(stored, scan.hashes)
    IN  IF scan.outcome = "aborted" THEN Report("aborted", <<>>, 0, 0)
        ELSE Report(IF scan.hashes # <<>> THEN "complete" ELSE "incomplete", scan.hashes,
                    mismatches + scan.failures + one(differs), warnings)
AnalyzeImage(files, image, stop) ==
    IF image.ok
    THEN Analyzed(files, image, ScanMedia(files, image, TRUE, stop), StoredHashes(files))
    ELSE Report("unavailable", <<>>, 1, 0)

----------------------------------------------------------------------------
(* Properties                                                              *)

Finished == outcome \in {"done", "next"}
Never == Limit + 2
Media(c) == SubSeq(written.media, c * written.options.chunk + 1,
                   IF Len(written.media) < (c + 1) * written.options.chunk
                   THEN Len(written.media) ELSE (c + 1) * written.options.chunk)

\* Harm nothing in the format tells: to a raw chunk without a checksum, and to the
\* entries of a table without one.
Unprotected(h) ==
    LET piece == disk[h.segment].at[h.at]
    IN  \/ h.how = "spoiled" /\ piece.is = "chunk"
           /\ piece.chunk.encoding = "raw" /\ piece.chunk.trailer = "none"
        \/ h.how = "entries" /\ piece.len < 24 + 4 * piece.count + 4

HashesHonest(report) ==
    report.hashes # <<>> =>
        /\ \A i \in DOMAIN disk : ~Lost(i)
        /\ report.hashes = <<written.media>> \/ \E h \in damage : Unprotected(h)
Moved(h) == h.how = "entries" /\ disk[h.segment].at[h.at].count > 1
VerificationHonest(report, stop) ==
    /\ HashesHonest(report)
    /\ report.outcome = "ok" =>
          report.matches = IF outcome = "next" THEN {}
                           ELSE {report.hashes = <<written.media>>}
    /\ damage = {} =>
          report.outcome =
              IF stop <= ChunksOf(Len(written.media), written.options.chunk)
              THEN "aborted" ELSE "ok"
AnalysisHonest(report) ==
    LET moved == {h \in damage : Moved(h)}
    IN  /\ HashesHonest(report)
        /\ report.outcome # "aborted" =>
              /\ report.errors = 0 =>
                    /\ report.outcome = "complete"
                    /\ report.hashes = <<written.media>> \/ outcome = "next"
                    /\ written.options.format # "smart" => Cardinality(moved) # 1
              /\ damage = {} => report.errors = 0
              /\ report.findings <= Records
              /\ report.findings + report.suppressed = report.errors + report.warnings
ScansHonest(files, image) ==
    \A stop \in {2, Never} :
        /\ VerificationHonest(VerifyImage(files, image, stop), stop)
        /\ AnalysisHonest(AnalyzeImage(files, image, stop))
FilesHonest(files) == ScansHonest(files, Open(files))
\* What a verification or an analysis has hashed is exactly the media that was
\* written, unless the harm is one the format cannot tell, and then the stored
\* digests of a complete image differ.  A lost file, a stop and a failed chunk
\* leave no hashes, whatever was decoded ahead of them in the same batch.  An
\* analysis without an error says more: each table agrees with its copy
\* (Image::verify_with_progress, scan_media, Image::analyze_with_progress).
VerifiedHonest == Finished => FilesHonest(FilesLeft)

\* Harm that leaves every chunk one table to be reached by
OnlyTables ==
    /\ \A h \in damage : h.how \in {"spoiled", "entries"}
                         /\ disk[h.segment].at[h.at].is = "table"
    /\ \A h, k \in damage : h.segment = k.segment => h.at = k.at

Statuses(report) ==
    \A k \in DOMAIN report.ranges :
        \A c \in report.ranges[k].first..(report.ranges[k].first + report.ranges[k].count - 1) :
            report.status[c + 1] = report.ranges[k].status
ChunkHonest(report, c, o) ==
    LET media == Media(c)
        got == SubSeq(report.output, c * written.options.chunk + 1,
                      c * written.options.chunk + Len(media))
    IN  CASE report.status[c + 1] \in {"primary", "redundant"} ->
                 got = media \/ \E h \in damage : Unprotected(h)
          [] report.status[c + 1] = "zeroFilled" -> got = [i \in DOMAIN media |-> Zero]
          [] OTHER -> o.preserve
ReportHonest(report, o) ==
    /\ Len(report.output) = Len(written.media)
    /\ \A c \in 0..(Len(report.status) - 1) : ChunkHonest(report, c, o)
    /\ Statuses(report)
    /\ TotalOf([k \in DOMAIN report.ranges |-> report.ranges[k].count]) + report.omitted
           = Len(report.status)
    /\ report.omitted > 0 => Len(report.ranges) = Records
RecoveryHonest(plan, report, o) ==
    /\ plan.ok => ReportHonest(report, o)
    /\ written.options.format = "ewf1" /\ OnlyTables =>
           plan.ok /\ ToSet(report.status) \subseteq {"primary", "redundant"}
PlanHonest(files, plan, o) == RecoveryHonest(plan, Recover(files, plan, o, Never), o)
PlansHonest(files, o) == PlanHonest(files, OpenRecovery(files, o), o)
RecoveriesHonest(files) ==
    \A preserve \in BOOLEAN :
        PlansHonest(files, [preserve |-> preserve, limit |-> 0, records |-> Records])
\* Recovery refuses, or gives every chunk of the media in its place: what it says
\* is sound is the media that was written, unless the harm is one the format cannot
\* tell, what it could not recover is zeroes, and it keeps suspect bytes only if
\* asked.  While each chunk can be reached by one table of two, all are recovered.
\* The outcome records agree with the chunks, none left out unless the limit is
\* reached (EwfRecovery::open_segments, recover_with_progress).
RecoveredHonest == Finished => RecoveriesHonest(FilesLeft)
=============================================================================
