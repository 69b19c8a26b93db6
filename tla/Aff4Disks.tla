----------------------------- MODULE Aff4Disks ------------------------------
(***************************************************************************)
(* What a program does with AFF4 evidence: `verify' and `verify-set' of    *)
(* ewf-cli, and the readers of the crate aff4-image for disks that were    *)
(* discovered among several containers (discovery.rs, disk.rs).  A set of  *)
(* volumes keeps pages of the disks it read in a cache of so many bytes,   *)
(* the least recent first.                                                 *)
(***************************************************************************)
EXTENDS Cli, Aff4Verify, Totals

CONSTANTS Evidence,    \* what there may be to read
          Readings,    \* the commands that read it
          PageBytes,   \* LOGICAL_READ_AHEAD_BYTES
          CacheBytes,  \* DECODED_CACHE_CAPACITY_BYTES
          Requests     \* the ranges that are read, <<offset, length>>

\* Evidence is files, the first `explicit' of them named by the caller, and the
\* identifier of the disk or file that is read, with what was imaged of it.  It is
\* `sound' when all of it is there and nothing happened to it since, and then
\* `verifiable' by one of the commands.  The identifiers of containers are ordered,
\* and a resource says how long it is or does not.
ASSUME DisksAssumption ==
    /\ PageBytes \in Nat \ {0} /\ CacheBytes \in Nat
    /\ Requests \subseteq Nat \X (Nat \ {0})
    /\ \A e \in Evidence :
          /\ Len(e.files) \in Nat /\ DOMAIN e.files = 1..Len(e.files)
          /\ e.explicit \in 1..Len(e.files) /\ e.sound \in BOOLEAN
          /\ \A i \in DOMAIN e.files : e.files[i].ok =>
                /\ e.files[i].id \in Nat
                /\ \A id \in DOMAIN e.files[i].graph : e.files[i].graph[id].size \in Nat \cup {Absent}
    /\ Readings \subseteq [kind : {"verify", "entry", "disk"}]
                          \cup [kind : {"set"}, full : BOOLEAN, external : BOOLEAN]

VARIABLES evidence, \* what there is
          found,    \* what the command finds in it
          disk      \* the page cache of the set of volumes, and the last read

diskVars == <<evidence, found, disk>>

NoEvidence == [files |-> <<>>, explicit |-> 0, id |-> None, content |-> <<>>,
               sound |-> FALSE, verifiable |-> "none"]
NoAnswer == [id |-> None, offset |-> 0, length |-> 0, result |-> Fail]

OnlyReport == UNCHANGED <<jobVars, output, diskVars>>

----------------------------------------------------------------------------
(* What the commands find.  Evidence does not change while it is read, so it *)
(* is worked out when the command starts.                                   *)

Opens(files) == \A i \in DOMAIN files : files[i].ok

\* verify() of a container
VolumeExit(e) == IF e.files[1].ok THEN ExitOf(VerifyAll(e.files[1])) ELSE 1

\* verify() of one resource of it
EntryExit(e) ==
    LET v == e.files[1]
        whole == ReadWhole(v, e.id)
        hashes == Hashes(v, e.id)
        reference == IF "linear" \in DOMAIN hashes THEN Good(hashes.linear) ELSE Fail
    IN  IF v.ok /\ e.id \in DOMAIN v.graph /\ whole.ok THEN ExitOfDigest(whole.value, reference)
        ELSE 1

\* verify_set(): with a digest of the disk from elsewhere, or of everything the
\* volumes record, too.
SetExit(e, full, external) ==
    LET owners == FromContainers(e.files)
        set == [vols |-> e.files, owners |-> owners.value]
        whole == Assembled(set, e.id)
        reference == IF external THEN Good(e.content) ELSE Fail
        compared == IF external THEN Compare(e.content, whole) ELSE Match
    IN  IF ~(Opens(e.files) /\ owners.ok) THEN 1
        ELSE IF full THEN ExitOf(VerifyFull(set, e.id) \cup {compared})
        ELSE IF whole.ok THEN ExitOfDigest(whole.value, reference) ELSE 1

\* DiskImageSet::discover() and into_readers(): a reader is a disk, the volume it
\* is read from first, and each of its bytes as it is read; `others' is what the
\* volumes that describe the disk make of it.
ByteOfDisk(set, k, id, position) ==
    LET read == ReadSet(set, k, Mapped(set.vols[k], id), id, position, 1)
    IN  IF read.ok THEN Good(read.value[1]) ELSE Fail
BytesOfDisk(set, k, id) ==
    LET size == DiskSize(set, k, Mapped(set.vols[k], id), id)
    IN  [i \in 1..size.value |-> ByteOfDisk(set, k, id, i - 1)]
Readers(set, readers) ==
    {[id |-> r.id, volume |-> set.vols[r.primary].id,
      bytes |-> BytesOfDisk(set, r.primary, r.id),
      others |-> {BytesOfDisk(set, k, r.id) :
                     k \in {k \in DOMAIN set.vols : r.id \in Disks(set.vols[k])}}] : r \in readers}

Exits(code) == [exit |-> code, readers |-> {}]
Found(e) ==
    LET discovered == Discover(e.files, e.explicit)
    IN  CASE job.kind = "verify" -> Exits(VolumeExit(e))
          [] job.kind = "entry"  -> Exits(EntryExit(e))
          [] job.kind = "set"    -> Exits(SetExit(e, job.full, job.external))
          [] OTHER -> IF discovered.ok
                      THEN [exit |-> 0, readers |-> Readers(discovered.value.set, discovered.value.readers)]
                      ELSE Exits(1)

----------------------------------------------------------------------------
(* DecodedChunkCache, as the page cache                                     *)

Held(cache, key) == {cache[i].data : i \in {i \in DOMAIN cache : cache[i].key = key}}
WithoutKey(cache, key) == Keep(cache, {i \in DOMAIN cache : cache[i].key # key})
BytesOf(cache) == TotalOf([i \in DOMAIN cache |-> Len(cache[i].data)])
Insert(cache, key, data) ==
    LET all == Append(WithoutKey(cache, key), [key |-> key, data |-> data])
        kept == CHOOSE n \in 0..Len(all) :
                   /\ BytesOf(SubSeq(all, n + 1, Len(all))) <= CacheBytes
                   /\ n > 0 => BytesOf(SubSeq(all, n, Len(all))) > CacheBytes
    IN  IF Len(data) > CacheBytes THEN cache ELSE SubSeq(all, kept + 1, Len(all))

----------------------------------------------------------------------------
(* VolumeSet::read_disk_at                                                  *)

PageKey(reader, start) == <<reader.volume, reader.id, start>>
\* read_disk_at_impl(): a range is read when every byte of it is.
ReadDirect(reader, offset, length) == AllOf(SubSeq(reader.bytes, offset + 1, offset + length))

\* A page that is not cached is read as a whole.
PageLength(reader, start) == Shorter(PageBytes, Len(reader.bytes) - start)
PageOf(reader, start, cache) ==
    LET held == Held(cache, PageKey(reader, start))
    IN  IF held # {} THEN Good(CHOOSE data \in held : TRUE)
        ELSE ReadDirect(reader, start, PageLength(reader, start))

\* What a loop over parts of a range has so far.
Part(acc, bytes, cache) ==
    [result |-> IF bytes.ok THEN Good(acc.result.value \o bytes.value) ELSE Fail, cache |-> cache]

\* What is asked for of a page, from..to - 1, is taken from it.
\* Faulty variant: when the page cannot be read the read fails.
ReadPageOnly(reader, start, from, to, acc) ==
    LET page == PageOf(reader, start, acc.cache)
    IN  IF ~acc.result.ok THEN acc
        ELSE IF page.ok
        THEN Part(acc, Good(SubSeq(page.value, from - start + 1, to - start)),
                  Insert(acc.cache, PageKey(reader, start), page.value))
        ELSE Part(acc, Fail, acc.cache)
\* When the page cannot be read only the part that was asked for is.
ReadPage(reader, start, from, to, acc) ==
    LET page == PageOf(reader, start, acc.cache)
    IN  IF ~acc.result.ok THEN acc
        ELSE IF page.ok
        THEN Part(acc, Good(SubSeq(page.value, from - start + 1, to - start)),
                  Insert(acc.cache, PageKey(reader, start), page.value))
        ELSE Part(acc, ReadDirect(reader, from, to - from), acc.cache)

\* retain_complete_pages() of a long read
Retained(cache, reader, offset, bytes) ==
    LET start(n) == (CeilDiv(offset, PageBytes) + n - 1) * PageBytes
        pages == (offset + Len(bytes)) \div PageBytes - CeilDiv(offset, PageBytes)
        after[n \in 0..pages] ==
            IF n = 0 THEN cache
            ELSE Insert(after[n - 1], PageKey(reader, start(n)),
                        SubSeq(bytes, start(n) - offset + 1, start(n) - offset + PageBytes))
    IN  after[pages]

\* A range shorter than a page lies in one page or in two.
ReadLong(reader, offset, end, cache) ==
    LET whole == ReadDirect(reader, offset, end - offset)
    IN  [result |-> whole,
         cache |-> IF whole.ok THEN Retained(cache, reader, offset, whole.value) ELSE cache]
ReadShort(reader, offset, end, cache) ==
    LET start == (offset \div PageBytes) * PageBytes
        next == start + PageBytes
        first == ReadPage(reader, start, offset, Shorter(next, end),
                          [result |-> Good(<<>>), cache |-> cache])
    IN  IF end <= next THEN first ELSE ReadPage(reader, next, next, end, first)
ReadDiskAt(reader, offset, end, cache) ==
    IF end - offset >= PageBytes THEN ReadLong(reader, offset, end, cache)
    ELSE ReadShort(reader, offset, end, cache)

----------------------------------------------------------------------------
(* Actions                                                                  *)

Reading == job.kind \in {"verify", "entry", "set", "disk"}

\* A verification is stopped at its first progress, or it ends with what it found.
Verify(kind) ==
    /\ main.at = "start" /\ job.kind = kind
    /\ IF stop \/ found.exit = 1 THEN Failing(1) ELSE Exit(found.exit)
    /\ OnlyReport
VerifyVolume == Verify("verify")
VerifyEntry == Verify("entry")
VerifySet == Verify("set")

DiscoverDisks ==
    /\ main.at = "start" /\ job.kind = "disk"
    /\ IF found.exit = 0 THEN Goto("opened") ELSE Failing(found.exit)
    /\ OnlyReport

\* DiskReader::read_at()
ReadDisk(reader, offset, length) ==
    LET end == Shorter(Len(reader.bytes), offset + length)
        read == ReadDiskAt(reader, offset, end, disk.cache)
    IN  /\ offset < end
        /\ disk' = [cache |-> read.cache,
                    answer |-> [id |-> reader.id, offset |-> offset, length |-> end - offset,
                                result |-> read.result]]
        /\ UNCHANGED <<cliVars, evidence, found>>

CloseDisk == main.at = "opened" /\ Exit(0) /\ OnlyReport

DiskStep == VerifyVolume \/ VerifyEntry \/ VerifySet \/ DiscoverDisks \/ CloseDisk
DiskInit ==
    /\ evidence \in (IF Reading THEN Evidence ELSE {NoEvidence})
    /\ found = IF Reading THEN Found(evidence) ELSE Exits(0)
    /\ disk = [cache |-> <<>>, answer |-> NoAnswer]
DiskNext ==
    \/ DiskStep
    \/ /\ main.at = "opened"
       /\ \E reader \in found.readers, request \in Requests :
             ReadDisk(reader, request[1], request[2])

BeforeLastDiskCheck == main.at = "start" /\ job.kind # "disk"

----------------------------------------------------------------------------

\* volume_set.rs, "Read-ahead must not make a valid requested range fail only
\* because later bytes in the same page are unreadable": what a reader answers
\* is what the disk has in that range, and it fails only when the range does,
\* whatever was read before, kept and dropped; and the cache keeps its limit.
ReadsExact ==
    LET a == disk.answer
    IN  main.at = "opened" =>
            /\ BytesOf(disk.cache) <= CacheBytes
            /\ \A reader \in found.readers :
                  a.length > 0 /\ reader.id = a.id =>
                      a.result = ReadDirect(reader, a.offset, a.length)

\* verify_all.rs and set_verify.rs, all_match is "true only with" everything
\* there and matching: after exit code 0 the disk reads as it was imaged, though
\* no single digest covers all of it; and evidence nothing happened to verifies.
VerifiedIntact ==
    Over /\ job.kind \in {"verify", "set"} =>
        /\ main.exit = 0 /\ job.kind = "verify" /\ evidence.id \in DOMAIN evidence.files[1].graph =>
              ReadWhole(evidence.files[1], evidence.id) = Good(evidence.content)
        /\ main.exit = 0 /\ job.kind = "set" =>
              Assembled([vols |-> evidence.files, owners |-> FromContainers(evidence.files).value],
                        evidence.id) = Good(evidence.content)
        /\ evidence.sound /\ ~stop /\ evidence.verifiable = job.kind
              /\ (job.kind = "set" => job.full) => main.exit = 0

\* discovery.rs, "Membership follows volume identifiers and map references,
\* never filenames": the disk of a complete set is found from any of its
\* volumes, whatever lies beside them, and reads as it was imaged; and containers
\* that are taken for one disk agree about every byte of it, or the disk is
\* refused.
DisksByIdentity ==
    job.kind = "disk" =>
        /\ evidence.sound /\ HasType(evidence.files[1], evidence.id, "DiskImage") /\ Over => main.exit = 0
        /\ main.at = "opened" =>
              /\ evidence.sound =>
                    \E reader \in found.readers :
                       /\ reader.id = evidence.id
                       /\ reader.bytes = [i \in DOMAIN evidence.content |-> Good(evidence.content[i])]
              /\ \A reader \in found.readers : reader.others = {reader.bytes}
=============================================================================
