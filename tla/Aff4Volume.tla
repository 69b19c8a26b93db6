----------------------------- MODULE Aff4Volume -----------------------------
(***************************************************************************)
(* One AFF4 container, crates/aff4-image/src/writer.rs and reader.rs: what *)
(* Writer stores for a disk or a file, and how Container reads it back.    *)
(*                                                                         *)
(* A container is its volume identifier (a number), its graph of resources *)
(* and its ZIP members; a member's name is <<resource, kind, bevy>>.  A    *)
(* byte is a number, and a cell of a bevy is one byte <<b>> or a chunk     *)
(* that was compressed into it.  A digest is what it is the digest of, so  *)
(* that equal digests are equal contents.  The digests of a stream's       *)
(* BlockHashes are kept with the stream.                                   *)
(***************************************************************************)
EXTENDS Integers, Sequences, SequencesExt, FiniteSetsExt

CONSTANTS ChunkBytes,    \* chunk_bytes
          ChunksPerBevy  \* chunks_per_bevy

ASSUME VolumeAssumption == ChunkBytes \in Nat \ {0, 1} /\ ChunksPerBevy \in Nat \ {0}

Absent == -1              \* a number that is not recorded
None == "none"            \* a resource that is not
Zero == "Zero"            \* the symbolic stream of zeroes
Unknown == "UnknownData"  \* evidence that was never read
IsSymbolic(id) == id \in {Zero, Unknown}

Shorter(a, b) == IF a <= b THEN a ELSE b
CeilDiv(a, b) == (a + b - 1) \div b

\* Results of what may fail.
Fail == [ok |-> FALSE]
Good(value) == [ok |-> TRUE, value |-> value]

----------------------------------------------------------------------------
(* Writer::add_chunked and add_file_impl                                    *)

ChunkData(content, n) ==
    SubSeq(content, n * ChunkBytes + 1, Shorter((n + 1) * ChunkBytes, Len(content)))

\* The last chunk is filled up with zeroes, and a chunk of one repeated byte is
\* one that the encoder makes shorter.
Encoded(chunk) ==
    LET bytes == [i \in 1..ChunkBytes |-> IF i <= Len(chunk) THEN chunk[i] ELSE 0]
    IN  IF Cardinality(ToSet(bytes)) = 1 THEN <<bytes>> ELSE [i \in 1..ChunkBytes |-> <<bytes[i]>>]

Bevies(size) == CeilDiv(CeilDiv(size, ChunkBytes), ChunksPerBevy)
ChunksOfBevy(content, bevy) ==
    LET first == bevy * ChunksPerBevy
    IN  [i \in 1..Shorter(ChunksPerBevy, CeilDiv(Len(content), ChunkBytes) - first) |->
            ChunkData(content, first + i - 1)]

StoredBevy(chunks) == FlattenSeq([i \in DOMAIN chunks |-> Encoded(chunks[i])])
\* Offset and length of every chunk in its bevy.
IndexOfBevy(chunks) ==
    [i \in DOMAIN chunks |->
        [offset |-> Len(StoredBevy(SubSeq(chunks, 1, i - 1))), length |-> Len(Encoded(chunks[i]))]]

DigestKinds == {"md5", "sha256"}
\* Block digests are of the bytes of the medium, without the filling.
StreamMembers(stream, content) ==
    [name \in {stream} \X ({"data", "index"} \cup DigestKinds) \X (0..(Bevies(Len(content)) - 1)) |->
        LET chunks == ChunksOfBevy(content, name[3])
        IN  CASE name[2] = "data"  -> StoredBevy(chunks)
              [] name[2] = "index" -> IndexOfBevy(chunks)
              [] OTHER             -> chunks]

MapMembers(map, ranges, targets) ==
    [name \in {map} \X {"map", "idx"} \X {0} |-> IF name[2] = "map" THEN ranges ELSE targets]
Placed(start, end, offset, target) ==
    [start |-> start, end |-> end, offset |-> offset, target |-> target]

Resource(types, size, stored) ==
    [types |-> types, size |-> size, chunk |-> Absent, per |-> Absent,
     stored |-> stored, stream |-> None, gap |-> Zero, hashes |-> <<>>]
StreamResource(size, stored) ==
    [Resource({"ImageStream"}, size, stored) EXCEPT !.chunk = ChunkBytes, !.per = ChunksPerBevy]
ImageResource(content, map, stored) ==
    [Resource({"DiskImage", "ContiguousImage"}, Len(content), stored)
        EXCEPT !.stream = map, !.hashes = [linear |-> content]]
FileResource(content, stored) ==
    [Resource({"FileImage", "zip_segment"}, Len(content), stored)
        EXCEPT !.hashes = [linear |-> content]]

----------------------------------------------------------------------------
(* Container: properties, members, and what the recorded digests are of     *)

HasType(v, id, type) == id \in DOMAIN v.graph /\ type \in v.graph[id].types
OfType(v, type) == {id \in DOMAIN v.graph : type \in v.graph[id].types}
Has(v, name) == name \in DOMAIN v.members
Member(v, name) == IF Has(v, name) THEN Good(v.members[name]) ELSE Fail

JoinMembers(v, names) ==
    IF \A i \in DOMAIN names : Has(v, names[i])
    THEN Good(FlattenSeq([i \in DOMAIN names |-> v.members[names[i]]]))
    ELSE Fail

\* block_names(): those there are, in the order of their bevies.
BlockNames(v, stream, suffix) ==
    SetToSortSeq({name \in DOMAIN v.members : name[1] = stream /\ name[2] = suffix},
                 LAMBDA a, b : a[3] < b[3])
IndexNames(v, stream) ==
    LET r == v.graph[stream]
    IN  [i \in 1..CeilDiv(CeilDiv(r.size, r.chunk), r.per) |-> <<stream, "index", i - 1>>]

\* The composite digest of a map: the block digests of the streams it is built
\* from, those of `local' only, then its points and its targets.
BlockMapInput(v, map, local) ==
    LET points == Member(v, <<map, "map", 0>>)
        index == Member(v, <<map, "idx", 0>>)
        isStream(t) == HasType(v, t, "ImageStream")
        streams == SelectSeq(index.value, LAMBDA t : isStream(t) /\ t \in local)
        blocks == [i \in DOMAIN streams |->
                      [s \in DigestKinds |-> JoinMembers(v, BlockNames(v, streams[i], s)).value]]
    IN  IF \/ ~HasType(v, map, "Map") \/ ~points.ok \/ ~index.ok
           \/ \E i \in DOMAIN index.value : ~isStream(index.value[i]) /\ index.value[i] # Zero
           \/ \E i \in DOMAIN streams : v.graph[streams[i]].stored \notin {Absent, v.id}
        THEN Fail
        ELSE Good(<<blocks, points.value, index.value>>)

\* structural_input_scoped()
StructuralInput(v, id, kind, local) ==
    CASE kind \in DigestKinds -> LET names == BlockNames(v, id, kind)
                                 IN  IF names = <<>> THEN Fail ELSE JoinMembers(v, names)
      [] kind = "index"    -> JoinMembers(v, IndexNames(v, id))
      [] kind = "mapPoint" -> Member(v, <<id, "map", 0>>)
      [] kind = "mapIdx"   -> Member(v, <<id, "idx", 0>>)
      [] kind = "blockMap" ->
            BlockMapInput(v, IF HasType(v, id, "Map") THEN id ELSE v.graph[id].stream, local)

\* The digests a container records of itself, once all its members are there;
\* the digest of the metadata is the last, in a member of its own.
MapKinds == {"mapPoint", "mapIdx", "blockMap"}
Recorded(v, id) ==
    LET r == v.graph[id]
        kinds == CASE "Map" \in r.types -> MapKinds
                   [] "ImageStream" \in r.types /\ r.stored = v.id ->
                         {"index"} \cup IF r.size = 0 THEN {} ELSE DigestKinds
                   [] "DiskImage" \in r.types -> {"blockMap"}
                   [] OTHER -> {}
        local == {s \in OfType(v, "ImageStream") : v.graph[s].stored = v.id}
    IN  [kind \in kinds |-> StructuralInput(v, id, kind, local).value] @@ r.hashes
Sealed(v) ==
    LET graph == [id \in DOMAIN v.graph |-> [v.graph[id] EXCEPT !.hashes = Recorded(v, id)]]
    IN  [v EXCEPT !.graph = graph, !.sidecar = Good(graph)]

Container(volume, graph, members) ==
    Sealed([ok |-> TRUE, id |-> volume, graph |-> graph, members |-> members, sidecar |-> Fail])

\* A disk of one container, and a file of a collection.
DiskVolume(volume, image, map, stream, content) ==
    Container(volume,
        (image :> ImageResource(content, map, volume))
            @@ (map :> Resource({"Map"}, Len(content), volume))
            @@ (stream :> StreamResource(Len(content), volume)),
        StreamMembers(stream, content)
            @@ MapMembers(map, IF content = <<>> THEN <<>> ELSE <<Placed(0, Len(content), 0, 1)>>,
                          <<stream>>))
FileVolume(volume, file, content) ==
    Container(volume, file :> FileResource(content, volume), <<file, "file", 0>> :> content)

----------------------------------------------------------------------------
(* Container::load_map and map_interval                                     *)

LoadMap(v, map) ==
    LET points == Member(v, <<map, "map", 0>>)
        index == Member(v, <<map, "idx", 0>>)
        valid(i) ==
            LET p == points.value[i]
            IN  /\ p.start < p.end /\ p.end <= v.graph[map].size
                /\ i > 1 => points.value[i - 1].end <= p.start
                /\ p.target \in DOMAIN index.value
    IN  IF ~points.ok \/ ~index.ok THEN Fail
        ELSE IF \A i \in DOMAIN points.value : valid(i)
        THEN Good([ranges |-> [i \in DOMAIN points.value |->
                                  [points.value[i] EXCEPT !.target = index.value[@]]],
                   gap |-> v.graph[map].gap])
        ELSE Fail

\* Where a position is stored: in a range of the map, or in its gap.
MapInterval(map, position) ==
    LET next == 1 + Cardinality({i \in DOMAIN map.ranges : map.ranges[i].end <= position})
    IN  IF next \in DOMAIN map.ranges /\ map.ranges[next].start <= position
        THEN [target |-> map.ranges[next].target,
              offset |-> map.ranges[next].offset + position - map.ranges[next].start]
        ELSE [target |-> map.gap, offset |-> position]

\* What a ContiguousImage requires of its map.
Gapless(map, size) ==
    LET n == Len(map.ranges)
    IN  /\ \A i \in 1..n : map.ranges[i].start = IF i = 1 THEN 0 ELSE map.ranges[i - 1].end
        /\ size = IF n = 0 THEN 0 ELSE map.ranges[n].end

----------------------------------------------------------------------------
(* Container::read_inner                                                    *)

BadByte == 99
\* A chunk as long as the chunk size is stored as it is, any other is decoded.
Decoded(cells, chunk) ==
    IF Len(cells) = chunk
    THEN Good([i \in DOMAIN cells |-> IF Len(cells[i]) = 1 THEN cells[i][1] ELSE BadByte])
    ELSE IF Len(cells) = 1 /\ Len(cells[1]) = chunk THEN Good(cells[1]) ELSE Fail

ReadChunk(v, stream, n) ==
    LET r == v.graph[stream]
        index == Member(v, <<stream, "index", n \div r.per>>)
        data == Member(v, <<stream, "data", n \div r.per>>)
        record == index.value[(n % r.per) + 1]
    IN  IF \/ ~index.ok \/ ~data.ok \/ (n % r.per) + 1 \notin DOMAIN index.value
           \/ record.offset + record.length > Len(data.value)
        THEN Fail
        ELSE Decoded(SubSeq(data.value, record.offset + 1, record.offset + record.length), r.chunk)

StreamSize(v, id) == \* stream_size()
    IF id \notin DOMAIN v.graph THEN Fail
    ELSE LET r == v.graph[id]
             size == IF r.stream = None THEN r.size
                     ELSE IF r.stream \in DOMAIN v.graph THEN v.graph[r.stream].size ELSE Absent
         IN  IF size = Absent \/ r.size \notin {Absent, size} THEN Fail ELSE Good(size)

TargetByte(v, target, position) ==
    LET chunk == ReadChunk(v, target, position \div v.graph[target].chunk)
    IN  IF target = Zero THEN Good(0)
        ELSE IF \/ ~HasType(v, target, "ImageStream")
                \/ v.graph[target].chunk = Absent \/ v.graph[target].per = Absent
                \/ position >= v.graph[target].size \/ ~chunk.ok
        THEN Fail
        ELSE Good(chunk.value[(position % v.graph[target].chunk) + 1])

\* A range is read when every part of it is.
AllOf(bytes) ==
    IF \A i \in DOMAIN bytes : bytes[i].ok
    THEN Good([i \in DOMAIN bytes |-> bytes[i].value]) ELSE Fail
ReadMap(v, map, offset, length) ==
    IF ~map.ok THEN Fail
    ELSE AllOf([i \in 1..length |->
                   LET at == MapInterval(map.value, offset + i - 1)
                   IN  TargetByte(v, at.target, at.offset)])

Read(v, id, offset, length) ==
    LET r == v.graph[id]
        map == LoadMap(v, IF r.stream = None THEN id ELSE r.stream)
        file == Member(v, <<id, "file", 0>>)
    IN  IF ~StreamSize(v, id).ok THEN Fail
        ELSE IF "zip_segment" \in r.types
        THEN IF file.ok /\ Len(file.value) = r.size
             THEN Good(SubSeq(file.value, offset + 1, offset + length)) ELSE Fail
        ELSE IF "ImageStream" \in r.types
        THEN AllOf([i \in 1..length |-> TargetByte(v, id, offset + i - 1)])
        ELSE IF "ContiguousImage" \in r.types /\ (~map.ok \/ ~Gapless(map.value, StreamSize(v, id).value))
        THEN Fail
        ELSE ReadMap(v, map, offset, length)

\* copy_verified(): all of a resource.
ReadWhole(v, id) ==
    LET size == StreamSize(v, id) IN IF size.ok THEN Read(v, id, 0, size.value) ELSE Fail

\* disk_images()
Disks(v) == OfType(v, "DiskImage")
DisksValid(v) == \A id \in Disks(v) : StreamSize(v, id).ok
=============================================================================
