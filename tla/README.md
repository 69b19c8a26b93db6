# A TLA+ model of ewf-image

This directory models the parts of `ewf-image` (Expert Witness and AFF4 forensic
images) in which state lives across steps that can be interrupted, fail or
interleave; the path of media through the EWF writers into segment files and back
through the reader, its verification and its recovery; AFF4 containers and sets
of them; and the commands of `ewf-cli` that tie these together. TLC checks small
instances; TLAPS proves, for every instance, that publication implements its abstract
specification, and the safety properties of publication, of the acquisition writer, of
the segment pool, the chunk reads and the device reader, of the writer's spool, and of
the transfers, collections and reports of the commands, of the history of their sessions
and of the page cache of the disks they read. Paths are relative to the repository root.

## 1. Inventory of the system

| part | state it keeps | operations | talks to | what is hard | what makes it correct |
|---|---|---|---|---|---|
| Output publication, `src/publication.rs` | one journal directory per output name (identity, staged files, backups, markers), OS file locks, the output files | begin, stage, publish (prepare, install, commit), rollback, Drop, recover, ensure_no_pending | every writer; `Image::open` refuses a pending output | crash between any two file operations, failing renames, several processes | the pair of outputs changes all at once or not at all; a reader let through finds a whole image; recovery always ends |
| Acquisition writer, `src/writer/acquisition*.rs` | chunk being filled, chunks of the open segment, sealed records, error ranges, a state directory on disk | create, resume, write, checkpoint, acquire, finish | a source (device reader), the file system | kill and resume, unreadable sectors, cancellation inside a chunk, a failing destination | nothing sealed is lost or changed, resume works after any kill, the finished image is the source with exactly the reported gaps |
| Segment file pool, `src/image.rs` | open handles, LRU order, limit, leases, a condition variable | acquire, wait, release, set limit, size of the set | all reads of a path-backed image | lost wakeups, eviction of handles in use, a limit changed at run time | the limit holds, a leased handle stays open, readers return |
| Chunk reads, `src/image.rs` | LRU of decoded chunks, in-flight decodes, error list, policy and abort flags | read_chunk, zero-on-error policy, abort | pool, decoder | leader/follower hand-over, errors, policy changes | one decode at a time per chunk, followers are never abandoned, cached zeroes are reported |
| Device reader, `crates/ewf-cli/src/ewf/source{,/reader}.rs` | a worker thread, two one-place channels, one buffer that travels, a failure that retires the reader | seek, read_at, drop | acquisition (caller), the driver | deadlines, a driver that hangs, late answers | data returned is of the offset asked, the buffer comes back, calls return, the worker ends |
| EWF writer, `src/writer.rs` | a spool of raw media, the chunks that came encoded, options, position | write and write encoded at any offset, seek, change geometry, copy media values, abort, finish, finish incomplete, resume | publication, reader (resume) | encoded chunks gone stale, geometry changed late, segment and table boundaries | what is read back is what was written; segments keep their limit |
| Sequential writer, `src/writer/sequential.rs` | a partial chunk, the group of the open segment, staged segments, a poison flag | create, write, finish | publication | segment boundaries fixed before the data is known, a group that fails to stage | as above |
| Image opening, `src/image.rs`, `src/index.rs`, `src/segment.rs`, `src/format/`, `src/metadata.rs` | section index, table index | open, lookup | publication, pool | damaged and missing segments, both format generations | every chunk found where the writer put it |
| Verification, `src/verify.rs`, `src/integrity.rs` | running hashes, error list, the findings of a report | scan in parallel batches, compare, analyze | chunk reads | order, cancellation, a failed chunk among decoded ones, stored digests that are missing | hashes are over the media in order; what is not proved is not called a match |
| Recovery of damaged images, `src/image/recovery.rs` | a catalogue of usable chunks, statuses, a bounded list of outcomes | scan, pair tables, open, recover | index | torn segments, a table taken for the copy of another, suspect readings | what is called sound is the media; what is missing is zeroes and said so |
| AFF4 volumes, `crates/aff4-image/src/{reader,disk,volume_set,discovery,verify_all,set_verify,integrity}.rs` | graph and members of a container, the owners of a set, a page cache | open, read, discover, verify | CLI | disks over several containers, members missing or exchanged, duplicate and conflicting owners, read-ahead that fails | a disk reads as imaged or is refused; a missing check is not a match |
| AFF4 writer and collection, `crates/aff4-image/src/{writer,collect,collection_budget}.rs` | members and statements so far, issues, a budget, deferred statements | add disk, file and tree, finish, check | CLI, the file system | a tree that changes while it is walked, limits that are only charged | what is missing is reported; what was charged is what is written |
| CLI transfer and read-ahead, `crates/ewf-cli/src/{transfer,prefetch}.rs` | two buffers and two channels, the digest so far | read, copy, finish, publish, verify | sources and writers | end of file or an error racing the return of a buffer, a source that changes, a driver that hangs, ctrl-C | bytes in order, nothing after an error, success only for an identical copy |
| CLI sessions, `crates/ewf-cli/src/ewf/{mod,session,history}.rs` | manifest, history of records, saved report, the writer's state directory | acquire, resume, report | acquisition writer | a kill between a step and its record, a record installed and not synced, a full history | the history can be read and says what happened |
| CLI commands, `crates/ewf-cli/src/{main,aff4}.rs` | the report, the stop flag, the staged output | convert, acquire, verify, collect, extract | all of the above | ctrl-C at any moment, somebody else creating the output | exit code, report and output agree |
| Codecs, hashes, text and date conversion, CLI parsing | none | pure functions | | | |

Interactions: the CLI drives a *source* (device reader, read-ahead, or another
image) into a *writer* (EWF, sequential, logical, acquisition, AFF4). The writers
of `src/writer.rs` hand their files to *publication*; the acquisition writer has
its own state directory and links its segments into place. A *reader* opens what
was published and serves chunks through the *chunk cache*, and those through the
*segment pool*. Publication and acquisition share only the rule that neither
touches an output the other has pending.

`PROJECT.json` lists every component with its status, and under `hazards` the
places where this code can go wrong in ways a test would hardly reach, each
with the properties that watch it.

## 2. Modules

| module | models | kind |
|---|---|---|
| `OutputSets` | what publication promises: a request replaces all files of its outputs in one step, or nothing | abstract specification |
| `Publication` | `src/publication.rs` | component; implements `OutputSets` |
| `MCPublication` | the two scopes of the instance | instance |
| `PublicationProofs` | | theorems, extends `Publication` |
| `Acquisition` | `src/writer/acquisition.rs`, `acquisition/source.rs`, `acquisition/checkpoint.rs` | component |
| `AcquisitionProofs` | | theorems, extends `Acquisition` |
| `LruOrder` | orders of use: what is used goes to the end, what is dropped leaves the rest in order | operators |
| `LruOrderFacts` | | lemmas about `LruOrder`, sums and steps over sequences, and induction over sets of naturals |
| `Totals` | the sum of a sequence of numbers, for sizes and offsets in a file, the counters of a history and the bytes in a cache | operators |
| `SegmentPool`, `MCSegmentPool` | the segment file pool of `src/image.rs` | component, instance; extends `LruOrder` |
| `SegmentPoolProofs` | | theorems, extends `SegmentPool` |
| `ChunkReads` | `read_chunk` and its cache and flights | component; extends `LruOrder` |
| `ChunkReadsProofs` | | theorems, extends `ChunkReads` |
| `DeviceReader` | the timed reader of the CLI | component |
| `DeviceReaderProofs` | | theorems, extends `DeviceReader` |
| `ChunkCodec` | how a chunk is encoded and decoded: `encode_chunk`, `src/decode.rs` | operators |
| `EwfLayout` | which chunks go into which segment and table, and where sections stand, in `src/writer.rs` | operators, extends `ChunkCodec` |
| `EwfReader` | section chains, tables, the chunk index and lookup of `src/image.rs`, `src/index.rs` | operators, extends `EwfLayout` |
| `EwfSpool` | `EwfWriter` while it is written to | component, extends `ChunkCodec` |
| `SequentialWriter` | `src/writer/sequential.rs` | component, extends `EwfLayout` |
| `EwfImage`, `MCEwfImage` | both writers, finish, open and resume | composition, instance |
| `EwfSpoolProofs` | | theorems about `EwfSpool`, `EwfLayout` and `SequentialWriter`, extends `EwfDamage` |
| `EwfRecovery` | `src/image/recovery.rs` | operators, extends `EwfReader` |
| `EwfDamage`, `MCEwfDamage` | damage done to the images of `EwfImage`; `src/verify.rs`, `src/integrity.rs` | composition, instance |
| `Cli` | what the commands of `main.rs` share: the stop, the destination, the report and its exit code | component |
| `Transfer` | `crates/ewf-cli/src/transfer.rs`, `prefetch.rs`; `convert`, `acquire`, `verify` of a raw file | component, extends `Cli` |
| `Aff4Collection` | `collect` and `extract`: `aff4.rs`, `collect.rs`, `collection_budget.rs` | component, extends `Cli` |
| `Aff4Volume` | a container: `writer.rs` and `reader.rs` of `aff4-image` | operators |
| `Aff4Set` | `volume_set.rs`, `discovery.rs` | operators, extends `Aff4Volume`, `LruOrder` |
| `Aff4Verify` | `verify_all.rs`, `set_verify.rs`, `integrity.rs` | operators, extends `Aff4Set` |
| `Aff4Disks` | `verify`, `verify-set` and the readers of discovered disks with their page cache | component, extends `Cli`, `Aff4Verify`, `Totals` |
| `EwfSession` | the session commands of `ewf/mod.rs` with `session.rs`, `history.rs` | component, extends `Cli`, `Totals` |
| `Commands`, `MCCommands`, `MCScenes` | one program run, or one session, of any of the commands | composition, instance, evidence |
| `CommandsProofs` | | theorems, extends `Commands` |

Operators called `...Ignored`, `...Anyway`, `...Again` and so on, each commented
*Faulty variant*, are not part of any specification. They are plausible mistakes
in the code that the properties are known to catch (`mutants` in `PROJECT.json`).

### Publication

`disk[n][s]` is the file of segment `s` of output `n`; `journal[n]` the directory
`.<first>.ewf-publication`. Each process `p` runs `begin`/`publish`/`recover` as a
sequence of labels `pc[p]`; one action is one file-system operation that another
process or a crash can fall between: `BeginSet`, `CreateIdentity`,
`FillIdentity`, `Stage`, `Prepare` (backup or note of absence), `WriteReady`,
`Install`, `WriteCommitted`, `Rollback`, `WriteRolledBack`, `Cleanup`. The loops
visit the outputs and segments in the order of the code. `Crash` may follow any
operation and releases the OS locks; with `Faults`, operations also return
errors, which run Drop before `prepared` (`Abandon`), roll back during install
(`InstallFault`) and leave the journal otherwise (`Leave`). The identity is
modelled by the pair of paths it hashes. `Destinations` covers the segments the
writer wants and the stale ones behind them
(`publication_segment_paths`, `src/writer.rs`).

The refinement mapping to `OutputSets` maps each output to `Settled(n)`: what
its files are once recovery has run. `Atomic` then says that the only step that
changes any output's settled content is the commit marker, which changes the
primary and the mirror together to the image asked for.

### Acquisition

Offsets count sectors and sector `s` holds the value `s`, so that any
displacement, loss or duplication shows in the data itself. `w` holds the fields
of `AcquisitionWriter` that outlive a call; `call` is the call under way; `dir`
the state directory; `out` the final names. Sealing is three steps (segment file,
record, in-memory), since a kill can separate them; `Drop` models both a dropped
writer and a killed process. `BulkRead`, `BulkFails` (the fall-back to chunk, then
sector reads), `SectorRead` and `SectorUnreadable` (stop or zero policy) follow
`acquire_loop`. `Intrude` puts a foreign file at an output name, as another
program could at any time. A torn record or segment is what the code's
write-then-rename makes of it: either absent or whole. What the sealed segments
decode to (`Media`) and the merging of error ranges (`Normalize`) are recursive functions
over the list, the clipping of a table at a seal (`Clip`) keeps the ranges that begin before
it.

### SegmentPool, ChunkReads

An action is one critical section of the mutex named in the code. The pool's
`Return` drops the lease outside the lock, as the code does, and `NotifyOne` is
the later critical section. `WakeSpuriously` is the condition variable's licence.
`SegmentSetSize` is the user that takes handles without waiting. In `ChunkReads`
a thread misses in the cache, then joins or leads a flight, decodes, puts,
completes and removes it in separate sections; the policy and the abort flag
change at any time. The pool's order of open files and the cache's order of chunks are
sequences without repetition, from the least recently used, kept by `LruOrder`.

### DeviceReader

Caller and worker are two threads with two channels of capacity one. `Expire` is
the deadline, `Stop` the operator's flag, `Hanging` the offsets where the driver
may never return, `WorkerPanics` the death of the worker. `GiveUp` retires the
reader: later calls return the recorded failure.

### ChunkCodec, EwfLayout, EwfReader, EwfSpool, SequentialWriter, EwfImage

Media is counted in grains of `Grain` bytes of one value; files and encoded data in
bytes. A segment file is its length and a function from offsets to what begins
there (a descriptor, a table, a chunk, a payload). The writer's offsets are
planned before anything is written, as in the code, and go into descriptors and
tables; where a piece really begins follows from the pieces before it
(`Assemble`). The reader only follows the offsets it finds. So a plan that does
not agree with what is written makes a section or a chunk unreadable, and the
round trip fails. The compressors are external: data with a `Noise` grain does
not get shorter, other data does.

`EwfSpool` has an action per call of `EwfWriter` that changes media, position or
the size of a chunk. `Put` is `write_to_current` with the remembering of an
encoded chunk after it; `ChunkToWrite` is the choice of `encode_raw_spool` between
copying a chunk kept encoded and encoding the spool's media. `SequentialWriter`
takes a write grain by grain (`Take`), stages a full group unless it is the last
(`Push`) and keeps, of what is staged, the chunks; the files are a function of
them. Staging any of them may fail on I/O or by the checks of `stage_group`
(`StagingFails`), and then the group is lost. A failure leaves `poisoned` set, as the
code sets it on entry and clears it on success. `EwfImage` composes both with finishing (`FinishSpool` with terminal
`done` or `next`, `FinishSequential`), opening, and `Resume`, which reads every
chunk encoded from the image and hands it to a new writer. `outcome` is
`failed` when the caller aborted or brought the wrong amount of data, or an operation
on a file of the sequential writer failed; `refused` when a table entry cannot hold an
offset, which `RoundTrip` excludes; and `overlong` when `stage_group` finds a segment
longer than the limit, which the run `ewf_room` shows to happen.

A media size of zero means none. Copied media values are of images that are not
empty. Sessions are left out, since `finish` checks that they end where the media
does. In `SequentialWriter` the size search of `segment_chunk_limit` is the set it
searches: the estimate grows with the count.

### EwfRecovery, EwfDamage

`EwfDamage` lets harm come to the files of a finished image of `EwfImage`: a
segment lost, cut short where a piece begins or behind the entries of a table, or a
descriptor, volume, table, table's entries or chunk of it spoiled. On what is left
it evaluates whole calls: `Image::verify_with_progress` (`ScanMedia` decodes a batch
before it hashes it, in order, and a failed chunk or the stop may fall anywhere),
`Image::analyze_with_progress`, and `EwfRecovery`'s `open_segments` and
`recover_with_progress` with every combination of their options. `OpenRecovery`
follows descriptors up to the first doubt, pairs each table with its copy and checks
where the sectors stand; `BestReading` chooses among the readings of a chunk. These
calls change nothing, so they are operators and the properties quantify over them.

### Cli, Commands and what they are made of

`Cli` is one process: `main` is where the command stands with the fields of its
report, `stop` the flag ctrl-C sets, `output` the destination. `Transfer` follows
`transfer()` check by check: `Preverify`, `Preflight`, the copying loop in its direct
and its buffered form, `BeforeFinish`, `FinishEwf`, `ReadBack`, `VerifyStaged`,
`Persist`, `VerifyRaw`. A copy that succeeds exits with 0 or 4, by what its output can hold of
the source's metadata and whether the source had unreadable sectors (`CopyCodes`). The read-ahead thread of `prefetch.rs` is `producer`, with the
channels of free and of filled buffers in `ahead`; it holds the source while it is
inside the driver (`InDriver`), and the copying thread waits for it when it asks the
same source whether it is unchanged. `Change` and `Replaced` are what others do to
the source meanwhile. `Aff4Collection` walks a tree of numbered paths, the root of which
is a folder, that `TreeChange` alters under it; the entries of a folder go on the stack
last first (`Descending`). `walk` holds the locals of `add_directory_tree`, the
members and statements written, those deferred to the end, the issues and the
budget. `Aff4Volume` is a container as a graph of resources and a function from
member names to contents, made by the operators of the writer (`DiskVolume`,
`FileVolume`) and read by those of the reader; `Aff4Set` assembles a disk from several
and discovers which belong together; `Aff4Verify` gives every check of a container
and of a set its outcome. `Aff4Disks` runs the commands on this evidence, and keeps
the page cache of `DecodedChunkCache`: `ReadDisk` is `PhysicalDiskReader::read_at` with
all it puts into and drops from the cache. Evidence does not change while it is
read, so what a command finds in it is worked out when it starts.

`EwfSession` is a sequence of commands on one output. `session` is what is on disk
(manifest, history folder, records, temporary records left behind, the saved report,
the state of the writer's journal and how much it has sealed), `run` is the process.
`Event` is `History::event` with its three results: recorded; recorded but the folder
not synced; not recorded. The last two end all recording of that run. `Kill` may come anywhere and
may leave a temporary record; `NextCommand` starts another one. Of the acquisition
writer only what `Acquisition` proves of it is kept: the number of sealed chunks, and
the order of mark, link and retire. The phases that are recorded inside
`resume_with_progress` and `finish_with_progress` are one record and none.

`Commands` composes them: one job is chosen at the start, and the stop, the
destination and the report are shared.

## 3. Runs

| run | instance | shows |
|---|---|---|
| `publication` | an output with its mirror and the mirror's name alone, two images, faults and crashes; one process with up to two segments, or two processes with one | `VisibleWhole`, `TouchedOutputRecoverable`, `CommittedOutputComplete`, `Atomic` (refinement) under every single and repeated failure and every interleaving of publications and recoveries; `RecoveryDecides`: once kills and failures stop, every output that was changed is decided |
| `publication_identity` | violation | see findings |
| `acquisition` | 7 sectors, chunks of 2, segments of 3 chunks, bulk reads of 2, faults | `AlwaysResumable`, `SealedPrefixExact`, `SealedImmutable`, `PublishedExact` |
| `acquisition_continue` | violation | see findings |
| `ewf_image` | four configurations of three formats, chunks of 4 grains, sectors of 2, media up to 16, tables of 3 chunks or 2,055 bytes; 2 calls per spool, sequential media of 0 to 14 grains; one or two harms to EWF1 files, batches of 2 chunks, 1 outcome record | `RoundTrip`, `MissingSegmentRefused`, `SegmentsWithinLimit`, `RememberedFaithful`; `VerifiedHonest`, `RecoveredHonest` |
| `ewf_geometry` | as above, 3 calls, media values of an image with chunks of 8 | violation, see findings |
| `ewf_room` | a sequential writer with segments of 3 raw chunks, tables of 2 and a limit of 5,100 bytes | violation, see findings |
| `segment_pool` | 3 threads, 3 segments, limits none, 1 and 2 | `OrderTracksFiles`, `WithinLimit`, `LeasedStaysOpen`, `ReadsReturn` |
| `segment_pool_openfail` | violation | see findings |
| `chunk_reads` | 3 threads, a good and a damaged chunk, a cache of one | `OneDecoder`, `CacheHonest`, `FollowersAreLed`, `ReadsReturn` |
| `device_reader` | 2 blocks, a hanging offset, a deadline | `FreshData`, `HealthyOwnsBuffer`, `CallsReturn`, `WorkerEnds` |
| `commands` | a source of 3 pieces, two buffers of 2, drivers that hang at offsets 1 and 3; a tree of 4 paths; 92 pieces of AFF4 evidence, pages of 4 bytes and a cache of 6; sessions of up to 2 commands and a report, 16 records | `CopyInOrder`, `CleanExitMeansCopied`, `PublishedTold`, `EarlyStopCancels`, `CollectionAccounts`, `BudgetIsExact`, `ReadsExact`, `VerifiedIntact`, `DisksByIdentity`, `HistoryHonest`, `CommandEnds` |

Each module's type invariant is a run's property or the first conjunct of one
(`SealedPrefixExact`, `FollowersAreLed`, `HealthyOwnsBuffer`, `OrderTracksFiles`,
`CopyInOrder`, `CollectionAccounts`); that of the spool is proved.

Why the bounds suffice. `Targets` are the pairs of paths publications are asked for;
`recover` is called with every pair. Two outputs are all one publication can have (primary
and mirror), and two processes publish and recover overlapping pairs one before, after and
between the other; two segments and two processes are two scopes of one run, each with the other
bound at one. That the outputs before have the image no mirror gets is no loss, since any
later state is one more publication away.
Two segments make the old image longer, equal or shorter than the new one.
Seven sectors are three whole chunks and a last partial one, in two segments, so
that a bulk read, a chunk and a segment each end before, at and after the end
of the source, and cancellation adds early segments up to the limit of names.
Three threads give a holder, a waiter and a second waiter, the least for a
stolen wakeup; a limit of one or two of three segments forces eviction. One
cached chunk of two makes every second read evict. In `ewf_image` the runs of media
are shorter than, as long as and longer than a chunk, with and without noise, and
one is written at an offset inside a chunk; two calls, also one before and one
after a resume, overlap, append to or leave a gap after each other. The limits of
tables and segments are small enough that images have several tables in a
segment and several segments, that a table ends for its count and for its
payload, and that the media ends inside a sector, inside a chunk and at both.
`EntryBit` (2,056 instead of 2^31) is above every offset a table may have, as in
the code. The limit of 5,140 bytes for sequential segments is one whose segments fit
however their chunks come out; that not every limit is one is shown by `ewf_room`. `MaxTrouble` bounds calls and harms together: an image made without
a call is harmed twice and one made in a call once, the second harm, or the harm to
an image of a called writer, being to tables and chunks. Two harms are the least
that reach a table and its copy, or a table and one of its chunks. Two chunks per
batch put a failed chunk before, at and after a sound one of its batch; one outcome
record makes the limit bite.

In `commands` three pieces are a full buffer and a partial one, so that either
buffer comes back before, at and after the end; `Hanging` has an offset inside the
source and the one where its end is noticed. Every kind of source, every kind of
output and every kind of reference digest occurs, not each combination of them. The
tree is the root with a folder of two files; the two limits on statements are what
the whole tree takes and too few for it. The evidence is disks and files as the
writer makes them, each member lost or exchanged, the metadata changed, and a disk
striped over two containers in either order, beside unrelated files, with one
missing, one too many, or two that disagree. The disks have 5 and 7 bytes, a page and
a part of one: the cache of 6 keeps both pages of the first and one of the second.
Sixteen records let an acquisition that was cancelled be resumed to its end, and
longer sequences of kills and resumptions reach the limit `MAX_RECORDS`. A failed read
is read again once per command. One chunk is sealed or not, which is all a history
can tell.

A finished writer, a harmed image and a command that has exited take no more steps,
so the runs of `Acquisition`, `EwfImage`, `EwfDamage` and `Commands` check no deadlock;
the others do.

Fairness. `publication`: weak fairness for a process that is running,
strong fairness for calls of `recover` (somebody keeps asking, for every pair of
paths, since the documentation tells the operator to). `segment_pool` and
`chunk_reads`: weak fairness for threads that are awake; none for spurious
wakeups, nor for new requests. `device_reader`: weak fairness for caller and worker
except inside a hanging driver call, and for the clock. `commands`: weak fairness for
the command's thread and for the read-ahead thread, whose device reads return
unless the driver hangs there, and then once the command was stopped, which is what
`CallsReturn` says of the device reader. A read of a session's source has no deadline unless
`--read-timeout-ms` sets one, so it is fair only once the command was stopped (`SourceHangs`), and
`CommandEnds` promises the end of an acquisition, of either kind, only when it was
stopped or has read everything. None for kills, for the next command of a session, for
ctrl-C, and for what others do to sources, trees and outputs.

## 4. Findings

* `publication_identity`: killed between the creation of `identity` and the write
  of its 32 bytes, a publication leaves a journal `recover` refuses for ever,
  where the documentation promises that recovery discards or completes it.
* `acquisition_continue`: an acquisition cancelled inside a chunk and continued on
  the same writer is rejected as "invalid healthy acquisition batch", where the
  documentation says the writer can go on. The instance has no low-level writes, so the
  partial chunk is what the cancelled call left of a bulk read that failed.
* `segment_pool_openfail`: a woken waiter whose `File::open` fails consumes the only
  notification, and another waiter sleeps on although no handle is leased.

* `ewf_geometry`: `copy_media_values_from_info` changes the size of a chunk in a
  writer that has data and keeps the chunks remembered under the old size; one of
  them is then copied to another place, and the image reads differently from what
  was written. The documentation says the call fails if the values conflict with
  data already written, as the setters of the geometry do.
* `ewf_room`: the sequential writer fixes the chunks of a segment by an estimate with
  one table group, and says it "leaves room for all first/last metadata"; a segment of
  more groups, which raw data fills to the estimate, is refused as longer than the
  segment size after its data was accepted. Nothing wrong is published, and with the
  format's 16,375 entries per table it takes chunks of 32 KiB or less.

Observed while modelling, without a run of its own:

* With faults a publication can get stuck before it has changed anything: the directory
  sync after the marker `ready` fails (`src/publication.rs:133-134`), so `Drop` cleans up a
  publication that is ready, the mirror first; a kill or a second failure before the
  primary is cleaned up leaves a journal that is ready, undecided and without its mirror, which
  `recover` refuses for ever (221-230), and the name stays blocked. This contradicts the
  sentence of `publication_identity` in a second way; its run has no faults, so that it shows the
  first. `RecoveryDecides` and `TouchedOutputRecoverable` therefore speak of output that was changed.
* The format has harm it cannot tell: a raw chunk written without a checksum, and the
  entries of SMART tables, which have no footer. `Unprotected` names both; the
  properties except them. Damaged padding is not noticed either, and the strict
  reader and the analysis do not check the entries of `table2`.
* A session whose history is full (`MAX_RECORDS`, temporary records that kills left
  behind included) can be neither resumed nor reported by the CLI, though the checkpoints are
  sound.
* An EWF acquisition that is stopped after its last segment was linked, or fails when the
  directory is synced after the journal was retired, reports `published: false`
  although the image is there. `PublishedTold` therefore excludes sessions;
  `HistoryHonest` says what holds.
* `crates/aff4-image/README.md:228` and `:273` describe exit code 4 of the CLI for output
  that was published but not synced and for resource limits; `convert` and `acquire`
  to AFF4 return an error there, exit code 1.
* `collect` of the CLI runs with `Limits::unrestricted()`; its budget is the library's.
  An AFF4 disk of zero bytes never passes `verify_all`.

## 5. Proofs

Every theorem is about the specification its module's runs check, for every value of the
constants that satisfies the named assumption, and no other hypothesis. Each rests on an
inductive invariant that TLC checked on the runs' instances before it was proved. The
proofs have the same shape throughout: lemmas about what the helpers of the model
return, one lemma per action (or per group of actions that touch the same variables),
one lemma that combines them over `[Next]_vars`, and a last step in temporal logic.

### Publication

`PublicationProofs` proves, from `PublicationAssumption` (at least one output name and
segment, and special values distinct from ordinary ones), for any number of processes,
outputs, images and segments, with or without faults:

* `TypeCorrect`: `Spec => []TypeOK`;
* `CommittedCorrect`: `Spec => []CommittedOutputComplete`: a publication that
  reports success has every file of the primary and the mirror in place;
* `LockCorrect`: no two processes are at work on a common output;
* `VisibleCorrect`: `Spec => []VisibleWhole`: a reader that is let through finds one whole
  image or no output;
* `RecoveryAccepts`: `Spec => []TouchedOutputRecoverable`;
* `PublicationIsAtomic`: `Spec => Atomic`, the refinement of `OutputSets`.

None of these is inductive. Even `TypeOK` is not: rollback copies backups from
the journal to the output, and that a backup is there depends on nobody having
touched the journal since the list of backups was made. The inductive invariant
`IInv` therefore adds, per process, which locks it holds at each label
(`Holds`), that what it has still to roll back is in the journal (`Undoable`),
and how far it has installed its files (`Installed`). The argument has two
halves: `OwnStep` (a process's own action re-establishes its part) and
`OtherStep`, which rests on the lemma `Frame`: a step of one process leaves the
journal, the files and the locks of everything another process holds alone.
`NextIInv` combines them, action by action.

What a reader finds depends on journals that a dead process left, which `IInv` does not
speak of. `JInv` adds `Coherent` of every journal (that of a mirror never outlives its
primary's, and one that is not decided either has changed nothing or has all its
partners), and of every process `Keeps`, `Prepares` (before `ready` no file is
changed), `Changes` (what is to be installed is backed up, what need no longer be restored
is as it was) and `Retires` (the primary's journal goes last). From it follows, one lemma for
each action, that no step but the marker `committed` changes `Settled`, what recovery
makes of an output; and that this one changes both outputs of a request together. That is
the step of the refinement, and with `Settled` being a whole image initially it is
`VisibleWhole`.

### Acquisition

`AcquisitionProofs` proves, from `AcquisitionAssumption` (sizes are positive, checkpoint
intervals whole chunks), for any source, chunk, segment, bulk read and limit, with or without
faults and kills:

* `ResumeAccepts`: `Spec => []AlwaysResumable`;
* `PrefixIsExact`: `Spec => []SealedPrefixExact`, the module's type invariant included;
* `PublishedIsExact`: `Spec => []PublishedExact`;
* `SealedIsImmutable`: `Spec => SealedImmutable`, an action property.

The properties speak of what is on disk, and what is written there next comes from the
writer's memory. `IInv` says of a list of seals that it is `Sound` (adjacent, in whole
chunks, decoding to the source but for the sectors of the last table), of the writer that it is
`Consistent` (hashed media are the sealed media and the spool, every table is normal:
sorted, disjoint, within what was read, and names exactly the substituted sectors:
`Table`, `Holds`), of the directory that its records are sound and vouched for by its segments,
with one segment more at most, and of a call where it stands between the segment
file, its record and the writer's note of it (`CallInv`). `NewSealProperties` is the
heart: the seal the code is about to write makes a sound list a longer sound one.
`TakenProperties` is that of a read: taking it, or zeroes in its place, keeps the writer
consistent. `Media` and `Normalize` are recursive functions; that they are the functions
their definitions say takes an induction over the length of the list.

### Segment pool, chunk reads, device reader

`SegmentPoolProofs` proves from `PoolAssumption`, for any number of threads and segments and
any limits, `OrderCorrect` (`[]OrderTracksFiles`), `LimitKept` (`[]WithinLimit`),
`LeasesStayOpen` (`[]LeasedStaysOpen`), and `WaitersAreLed`: unless an open has failed, a thread
that waits has another that will notify it or is about to look at the pool, so that a failing
open, the finding of `segment_pool_openfail`, is the only way to strand one. The limit
alone is not inductive: as many handles can be closed as are idle in the order, which
takes that the order holds every open file exactly once, and that nothing leased is
closed; `Visited`, the loop that closes idle files, is shown by induction to keep both.

`ChunkReadsProofs` proves from `ChunkReadsAssumption`, for any threads, chunks, damage and
capacity (0 included), `DecodesAreShared` (`[]OneDecoder`), `CacheIsHonest`
(`[]CacheHonest`) and `FollowersHaveLeaders` (`[]FollowersAreLed`). The invariant ties threads
and flights together in both directions (`Led`, `Owned`), says that a follower sleeps only on an
incomplete flight (`Asleep`), and what a decoded value was earned by (`Earned`, `Cached`).

`DeviceReaderProofs` proves from `DeviceAssumption`, for any size, any offsets at which the driver
hangs, with and without a deadline, `ReadsAreFresh` (`[]FreshData`) and `BufferCorrect`
(`[]HealthyOwnsBuffer`). A read that is given up leaves its request and its answer where they
are, so nothing about the channels alone is inductive. The invariant follows the one request
there is: while a call waits it is in the request channel, with the worker, in the reply channel or
lost, and carries the call's offset (`InTransit`); a reader that may have left one behind has
failed, and a failed reader starts no call (`CallsAreHealthy`, `AtRest`).

`LruOrderFacts` has what `LruOrder` returns: `Keep` keeps elements once and in order, `Without` and
`MoveToEnd` keep a sequence free of repetition. It also has `SetInduction` (a set that has 0 and with each
natural its successor has all of them), by which all inductions of the project are
done: the induction theorems of the library take an operator as a parameter, this one a
set.

### Spool

`EwfSpoolProofs` proves, from `SpoolAssumption` and `CodecAssumption`, for media,
chunks, writes and offsets of any size and any number of calls, of the writer
used as documented (`SpoolSpec`: `GeometryKept` says that the size of a chunk does
not change once there is data, the condition `ewf_geometry` violates):

* `KeptChunksAreFaithful`: `SpoolSpec => []RememberedFaithful`;
* `WrittenChunksDecode`: each chunk `encode_raw_spool` would give at any moment,
  copied or encoded, decodes to the spool's media.

`RememberedFaithful` is not inductive: a change of the chunk size before any data
is harmless only because the chunks remembered by then are empty, and a write
that touches no grain of a remembered chunk must be shown to lie outside the
range of chunk numbers `forget_encoded_chunks_in_range` computes by division.
`SpoolInv` adds `Extents`: a remembered chunk is no longer than a chunk and lies in
the media written so far. `PutFaithful` is the heart: with `DivMonotone` and
`DivOfChunk`, a grain of chunk `c` that the write covers puts `c` in the forgotten
range.

### Segments and their limit

`EwfSpoolProofs` also proves, of every writer and from the assumptions of the composed modules, for chunks,
tables, optional sections and limits of any size:

* `SegmentsKeepTheLimit`: `Spec => []SegmentsWithinLimit`, and `DamagedSegmentsToo`, the same of
  `DamageSpec`.

The code never compares a spool's file with the limit: it decides where a segment ends by an
*estimate*, chunk by chunk, and lays the file out later. What has to be true for that, and what the
proof shows, in this order:

1. `Measured` says what a sequence of pieces is long and how many chunks it has; it adds up over
   concatenation and `FlattenSeq`, and `Assemble` makes a file of that length (`AssembledLength`).
2. `GroupsCover`: `ewf1_table_groups` loses and invents no chunk, and the number of tables
   `Ewf1TableGroupState` counts on the way is the number of groups it makes. Both are
   needed since the estimate is made from the counter and the file from the groups.
3. `Ewf1Estimated`, `Ewf2Estimated`: the file is no longer than its estimate, whichever
   sections are absent from it (the estimate has room for those only the first or the last segment has).
4. `SegmentsEstimated`: `segment_groups` keeps the estimate of each segment of more than one chunk within
   the limit, by an induction over the chunks (`SegmentationStep`) in which the counter of the open segment
   is that of its chunks.
5. `PushFits`, `TakeFits`, `TakeAllFits`: the sequential writer stages only what `stage_group` measured, and
   its last segment is measured when it finishes.

The inductive invariant `LimitInv` says of a spool that its chunks have sizes and its options are typed, or that
it has no limit, which is all that is needed, and known, of one resumed from an image; and of a sequential writer that what
it has staged was found to fit. The induction over chunks or grains is one over sets of
sequences (`AppendInduction`). `SpoolAssumption` asks that `Limit`, the end of the media of the model, be
a whole number of sectors: padding then stays within it.

### No segment can be missing

Still in `EwfSpoolProofs`, for every writer, format, limit and order of calls:

* `NoSegmentCanBeMissing`: `Spec => []MissingSegmentRefused`, and `NorOfDamagedImages`, the same of
  `DamageSpec`: fewer segment files than were written, whichever, in any order and with repetitions, never open.

The code has no check of its own for this. The EWF1 header has a segment number but no count of segments,
so that files 1 to `n` of more look complete, and it is the chunk index that must not reach the end of
the media. The proof follows the reader through the files as the writers lay them out:

1. `ScanForward`, `ScanBackward`: both section chains (`next` from the front in EWF1, `previous` from the
   end in EWF2) come to an end, and every section on them is a descriptor of the file, each at
   a place of its own and in order. That the chains end is shown by a measure (`RecursionOn`).
2. `TableCounted1`, `TableCounted2`, `RangesCounted1`, `RangesCounted2`: a table counts only chunks that
   are before it in its file and behind the table before it; so the ranges that reading finds count
   together no more chunks than the file has. In EWF1 a `table2`, when it is kept, copies
   its table, and `IsCopy` must find that out, or its chunks would count twice.
3. `Ewf1Laid`, `Ewf2Laid`: what the writers lay out has the shape these steps need, sections that
   are sometimes absent included; `Ewf1Parses`, `Ewf2Parses` put this together: a
   segment is refused or says its number, the geometry of the whole image and ranges of at most its chunks.
4. `SegmentsPartition`, `TakeKept`, `SequentialFewer`: the segments of a spool have all the chunks between them,
   and so have those of a sequential writer, which keeps every grain it takes in exactly one chunk
   (`Counting`); a segment that is not alone has at least one chunk.
5. `FewerRefused`: the numbers of the files given are 1 to `n` or they are refused, so with one missing
   the chunks of the ranges are fewer than the media section of any of them says
   (`CoversSum`, `PartLess`).

The inductive invariant is `MissingInv`. It needs of a spool only what `LimitInv` does, and of a sequential
writer that what it holds comes to what it took. `SequentialAssumption` asks that
a chunk have at least one grain, which `writer_chunk_geometry` makes sure of before the writer exists.

### Commands

`CommandsProofs` proves, from the assumptions of the composed modules, about every command
and every interleaving with its read-ahead thread, ctrl-C and those who write to the source, the tree
and the destination:

* `ReportIsTrue`: `FairSpec => []PublishedTold`, and `EarlyStopLeavesNothing`:
  `FairSpec => []EarlyStopCancels`. A command stands where its own kind can stand (`MainOK`), so
  that a label determines which steps come next; `Told` and `Stopped` say of each label what
  the report and the stop mean there.
* `TransfersCopyInOrder`: `FairSpec => []CopyInOrder`. Neither what was taken nor any buffer is in order by
  itself: the invariant is `Stream`, that what was taken, the buffer in use, the filled
  buffers in their channel and the result being sent are adjacent pieces of the source, and the
  thread goes on behind the last (`GoesOnAt`) or has sent an error.
* `CleanExitIsACopy`: `FairSpec => []CleanExitMeansCopied`, for exit codes 0 and 4, from `Finished`: at every label behind the check, what
  was taken is all of the source and agrees with what was compared.
* `CollectionIsComplete`: `FairSpec => []CollectionAccounts`, and `BudgetMatches`:
  `FairSpec => []BudgetIsExact`. `CollectionInv` says of the walk that nothing is known twice and a
  path is known because its folder was recorded (`Sound`), that everything below a recorded
  folder without an issue, but for what is gone, is known (`Complete`), that a file
  at hand was read between two looks at the same stamp (`FileOK`), and that what was charged is
  what the final metadata would hold were the walk over now (`Paid`); `Sound` is what makes
  each charge once. At the end nothing is pending, and an induction over the paths,
  a folder before what is in it, gives `AccountedFor` for each.

* `HistoryIsHonest`: `FairSpec => []HistoryHonest`, for any number of commands of a session, killed
  anywhere. The counters of a history are a sum over its runs, and a kill leaves a run that
  has no end and counts short. `SessionInv` says that only the run of the command that records
  now is open without being marked incomplete, and that it counts short by exactly what
  that command has read since its last record (`HistoryOK`); that nothing is on disk
  before the manifest and the folder are (`FilesOK`); where the writer's state and the
  run's stand to each other at each label (`WriterOK`); and that a publication on record
  has happened, with its journal gone (`PublishedOK`). A record appended changes one
  summand: the lemmas on `TotalOf` say by how much.
* `ReadsAreExact`: `FairSpec => []ReadsExact`, for any evidence, pages and cache. `ReadingInv` says that
  readers of different disks have different identifiers, that every cached page is what its
  reader has there, and that the last answer is what a direct read gives. The first is a
  lemma about discovery: a reader is made for an identifier once, from a volume that is
  among those it was reached from. A short range lies in one page or two, each of
  which is cached, can be read whole, or is read for the part that was asked; a long one is read directly
  and its whole pages are kept, by an induction over them. `InsertKeeps` shows that what
  is dropped to make room leaves the cache within its limit and in order.

The specification these start from has fairness, which they do not use.

### What stays with TLC

* Liveness: `RecoveryDecides`, `ReadsReturn`, `CallsReturn`, `WorkerEnds`, `CommandEnds`. The prover does
  not reason about fairness.
* `RoundTrip` of `EwfImage`, `VerifiedHonest` and
  `RecoveredHonest` of `EwfDamage`: these are statements about whole calls, evaluated by folds and
  recursive functions over files; their result for every input is an induction over data,
  function by function, and not over steps.
* `VerifiedIntact` and `DisksByIdentity`: what they promise is of evidence that was imaged
  from known content and then harmed in a known way, or not. The instance builds that evidence
  (`MCScenes`); of evidence in general, which may be anything a file holds, they say nothing.

## 6. Plan

1. *Done*: publication, its abstract specification and first proofs; acquisition;
   segment pool; chunk reads; device reader; the EWF writers, layout and reader as a
   round trip, with the spool's theorem.
   Verification, analysis and recovery of damaged images; AFF4 containers, sets of
   them, their verification and their reading; the collection and its budget; the
   transfers with their read-ahead; the sessions of the CLI; the commands that tie
   these together. New modules have no `RECURSIVE` operators, so that they can be
   proved about.
2. *Done, proofs*: the safety properties of publication with the refinement `Atomic`, of
   acquisition, segment pool, chunk reads, device reader, spool and segment sizes, and of the transfers,
   the collections, the report, the history of a session and the page cache.
   *Open, proofs*: what is left is in section 5; of it `RoundTrip` is the nearest: the proof of
   `MissingSegmentRefused` shows which ranges reading finds, and what is left is what each of them decodes to.
3. *Open, models*: opening an image while it is being published, which composes
   `Publication` and `EwfReader`; logical images and sessions of optical media in the layout;
   the recovery bundle, export and inspection of the CLI.

## 7. Not modelled

Compression, encryption, checksums, signatures, RDF and ZIP parsing, code pages
and dates are functions of bytes without state; the models abstract them to their
outcome. Platform device discovery, prompting, argument parsing and printing are
I/O around the modelled calls. Progress counters, durations and statistics feed
no decision. Power loss is not modelled separately from a process kill: the code
syncs each file and directory it relies on, and the model takes a synced
operation as durable.

Within the modelled parts these are left out: logical evidence and its writer; what
recovery makes of chunks behind a table that has no sectors section, and the digests of the media it
recovers; nested maps,
inline data, imports and the legacy names of AFF4, and the chunk cache of the reader of a
single container; a folder that is swapped for another one during the walk, and
changes a time stamp is too coarse to show; the checkpoint, export, inspect and
recover commands of the CLI. A harmed image is EWF1, and its metadata payloads are
not harmed. The segment names, checked by several parts against names already
there, are numbers.
