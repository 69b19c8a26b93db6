----------------------------- MODULE Aff4Verify -----------------------------
(***************************************************************************)
(* The verification of AFF4 evidence, the crate's verify_all.rs,           *)
(* set_verify.rs and integrity.rs: every check has an outcome, and none    *)
(* that is missing or could not be made counts as a match.                 *)
(***************************************************************************)
EXTENDS Aff4Set

Match == "match"
Mismatch == "mismatch"
NotDone == "not done"  \* CheckOutcome's Missing, Unsupported and Unreadable

\* compare(), and declined() when there is nothing to compare with
Compare(reference, input) ==
    IF ~input.ok THEN NotDone ELSE IF input.value = reference THEN Match ELSE Mismatch

\* verify_metadata(): the digest of the metadata is in a member of its own.
MetadataOutcome(v) == IF v.sidecar.ok THEN Compare(v.sidecar.value, Good(v.graph)) ELSE NotDone

Hashes(v, id) == v.graph[id].hashes
HasHash(v, id, kinds) == DOMAIN Hashes(v, id) \cap kinds # {}

\* A resource is read as a whole, and what was read compared with its digest.
LinearOutcomes(v, id, whole) ==
    (IF whole.ok THEN {} ELSE {NotDone})
    \cup {Compare(Hashes(v, id).linear, whole) : kind \in DOMAIN Hashes(v, id) \cap {"linear"}}

StructuralOutcomes(v, id, kinds, local) ==
    {Compare(Hashes(v, id)[kind], StructuralInput(v, id, kind, local)) :
        kind \in DOMAIN Hashes(v, id) \cap kinds}

\* A map without a digest of its own misses those of its members.
MapOutcomes(v, id) ==
    IF HasType(v, id, "Map") /\ ~HasHash(v, id, {"blockMap"})
       /\ ~({"mapPoint", "mapIdx"} \subseteq DOMAIN Hashes(v, id))
    THEN {NotDone} ELSE {}

\* check_blocks_from(): the block digests `v' has of a stream, against the data
\* the owner has of it.
BlocksOf(owner, stream, bevy) ==
    LET r == owner.graph[stream]
        chunks == Shorter(r.per, CeilDiv(r.size, r.chunk) - bevy * r.per)
    IN  [i \in 1..chunks |->
            LET from == (bevy * r.per + i - 1) * r.chunk
            IN  Read(owner, stream, from, Shorter(r.chunk, r.size - from))]
BevyOutcome(recorded, blocks) ==
    IF Len(recorded) # Len(blocks) \/ \E i \in DOMAIN blocks : ~blocks[i].ok THEN NotDone
    ELSE IF \A i \in DOMAIN blocks : recorded[i] = blocks[i].value THEN Match ELSE Mismatch
BlockOutcomes(v, owner, stream) ==
    LET r == owner.graph[stream]
        names(suffix) == BlockNames(v, stream, suffix)
        bevies == CeilDiv(CeilDiv(r.size, r.chunk), r.per)
        recorded == {suffix \in DigestKinds : names(suffix) # <<>>}
    IN  IF \/ r.chunk = Absent \/ r.per = Absent \/ r.size = Absent
           \/ \E suffix \in recorded :
                 \/ Len(names(suffix)) # bevies
                 \/ \E i \in DOMAIN names(suffix) : names(suffix)[i][3] # i - 1
        THEN {NotDone}
        ELSE LET outcomes == {BevyOutcome(v.members[names(suffix)[b + 1]], BlocksOf(owner, stream, b)) :
                                 b \in 0..(bevies - 1), suffix \in recorded}
             IN  IF NotDone \in outcomes THEN {NotDone} ELSE outcomes \* the first failure ends it
\* A stream is covered by block digests or by a linear digest.
ContentOutcomes(v, owner, stream) ==
    LET blocks == BlockOutcomes(v, owner, stream)
    IN  IF blocks = {} /\ v.id = owner.id /\ ~HasHash(v, stream, {"linear"}) THEN {NotDone} ELSE blocks

----------------------------------------------------------------------------
(* Container::verify_all                                                    *)

Resources(v) == UNION {OfType(v, t) : t \in {"DiskImage", "ImageStream", "Map", "FileImage"}}
StructuralKinds == {"index", "mapPoint", "mapIdx", "blockMap"} \cup DigestKinds

ResourceOutcomes(v, id) ==
    LinearOutcomes(v, id, ReadWhole(v, id))
    \cup IF HasType(v, id, "FileImage") /\ Hashes(v, id) = <<>> THEN {NotDone} ELSE {}
VerifyAll(v) ==
    {MetadataOutcome(v)}
    \cup UNION {ResourceOutcomes(v, id) : id \in Resources(v)}
    \cup UNION {StructuralOutcomes(v, id, StructuralKinds, DOMAIN v.graph) \cup MapOutcomes(v, id) :
                   id \in DOMAIN v.graph}
    \cup UNION {ContentOutcomes(v, v, s) : s \in OfType(v, "ImageStream")}

----------------------------------------------------------------------------
(* VolumeSet::verify_full                                                   *)

LocalStreams(set, i) == {s \in DOMAIN set.owners : set.owners[s] = i}

\* root_input(): the digest of a disk that several containers describe is of
\* their composite digests, in the order they are named.
RootInput(set, image) ==
    LET contexts == SelectSeq([i \in DOMAIN set.vols |-> i], LAMBDA i : image \in Disks(set.vols[i]))
        input(i) == LET v == set.vols[i]
                    IN  BlockMapInput(v, v.graph[image].stream, LocalStreams(set, i))
    IN  IF Len(contexts) = 1 THEN input(contexts[1])
        ELSE AllOf([k \in DOMAIN contexts |-> input(contexts[k])])

\* validate_context_map()
ContextMapValid(set, i, id) ==
    LET map == LoadMap(set.vols[i], id)
        within(r) == r.target = Zero \/ WithinOwned(set, r)
        covered(p) == \E k \in DOMAIN map.value.ranges :
                         p \in map.value.ranges[k].start..(map.value.ranges[k].end - 1)
        gaps == {p \in 0..(set.vols[i].graph[id].size - 1) : ~covered(p)}
    IN  /\ map.ok
        /\ \A k \in DOMAIN map.value.ranges : within(map.value.ranges[k])
        /\ \A p \in gaps : within(Placed(p, p + 1, p, map.value.gap))

\* What a volume of the set records, checked in its own context.
SubjectOutcomes(set, i, image, assembled, id) ==
    LET v == set.vols[i]
        root == id = image
        whole == IF root THEN assembled
                 ELSE IF id \in DOMAIN set.owners THEN ReadWhole(set.vols[set.owners[id]], id)
                 ELSE Fail
    IN  {Compare(Hashes(v, id).linear, whole) : kind \in DOMAIN Hashes(v, id) \cap {"linear"}}
        \cup {Compare(Hashes(v, id).blockMap, IF root THEN RootInput(set, image) ELSE Fail) :
                 kind \in IF HasType(v, id, "Map") THEN {} ELSE DOMAIN Hashes(v, id) \cap {"blockMap"}}
        \cup StructuralOutcomes(v, id, IF HasType(v, id, "Map") THEN StructuralKinds
                                       ELSE StructuralKinds \ {"blockMap"}, LocalStreams(set, i))
        \cup (IF ~HasType(v, id, "ImageStream") THEN {}
              ELSE IF id \notin DOMAIN set.owners THEN {NotDone}
              ELSE ContentOutcomes(v, set.vols[set.owners[id]], id))
        \cup (IF HasType(v, id, "Map") /\ ~ContextMapValid(set, i, id) THEN {NotDone} ELSE {})
        \cup MapOutcomes(v, id)
        \cup (IF HasType(v, id, "FileImage") THEN {NotDone} ELSE {})
        \cup (IF root /\ ~HasHash(v, id, {"linear", "blockMap"}) THEN {NotDone} ELSE {})

\* The disk is read as a whole, every stream by itself, and what each volume
\* records is checked.
Assembled(set, image) ==
    LET map == ImageMap(set, 1, image)
    IN  IF map.ok THEN ReadSet(set, 1, TRUE, image, 0, map.value.size) ELSE Fail
VerifyFull(set, image) ==
    LET assembled == Assembled(set, image)
    IN  (IF assembled.ok THEN {} ELSE {NotDone})
        \cup {IF ReadWhole(set.vols[set.owners[s]], s).ok THEN Match ELSE NotDone :
                 s \in DOMAIN set.owners}
        \cup {MetadataOutcome(set.vols[i]) : i \in DOMAIN set.vols}
        \cup UNION {UNION {SubjectOutcomes(set, i, image, assembled, id) :
                              id \in DOMAIN set.vols[i].graph} : i \in DOMAIN set.vols}

----------------------------------------------------------------------------
(* ewf-cli/src/aff4.rs: what the outcomes make of the exit code             *)

\* ContainerVerification::all_match and SetVerification::all_match, has_mismatch
\* Faulty variant: a check that could not be made is no reason to complain.
ExitOfMismatches(outcomes) == IF Mismatch \in outcomes THEN 3 ELSE 0
ExitOf(outcomes) ==
    IF outcomes \subseteq {Match} THEN 0 ELSE IF Mismatch \in outcomes THEN 3 ELSE 4

\* A resource that was read, and the digest it has to have, if there is one.
ExitOfDigest(bytes, reference) ==
    IF ~reference.ok THEN 4 ELSE IF bytes = reference.value THEN 0 ELSE 3
=============================================================================
