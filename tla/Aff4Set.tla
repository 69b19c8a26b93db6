------------------------------- MODULE Aff4Set -------------------------------
(***************************************************************************)
(* Disks that are stored in several AFF4 containers, the crate's           *)
(* volume_set.rs and discovery.rs.  A set of volumes is a sequence of      *)
(* containers; every stream belongs to the one that has its data.          *)
(***************************************************************************)
EXTENDS Aff4Volume, LruOrder

----------------------------------------------------------------------------
(* VolumeSet::from_containers                                               *)

HasData(v, stream) == Has(v, <<stream, "data", 0>>)
Owns(v, stream) ==
    LET r == v.graph[stream]
    IN  r.size # Absent /\ IF r.size = 0 THEN r.stored = v.id ELSE HasData(v, stream)

\* A container may describe a stream of another one, but not differently.
Geometry(r) == [size |-> r.size, chunk |-> r.chunk, per |-> r.per, stored |-> r.stored]
Contradicts(r, owner, stream) ==
    LET recorded == [Geometry(owner.graph[stream]) EXCEPT !.stored = owner.id]
    IN  \E key \in DOMAIN recorded : Geometry(r)[key] \notin {Absent, recorded[key]}

Streams(vols) == UNION {OfType(vols[i], "ImageStream") : i \in DOMAIN vols}
OwnersOf(vols, stream) ==
    {i \in DOMAIN vols : HasType(vols[i], stream, "ImageStream") /\ Owns(vols[i], stream)}

VolumeIds(vols) == {vols[i].id : i \in DOMAIN vols}
FromContainers(vols) ==
    LET owners(s) == OwnersOf(vols, s)
        describers(s) == {i \in DOMAIN vols : s \in DOMAIN vols[i].graph}
        refused(s) ==
            \/ \E i \in describers(s) : HasType(vols[i], s, "ImageStream")
                                        /\ vols[i].graph[s].stored \notin {Absent} \cup VolumeIds(vols)
            \/ Cardinality(owners(s)) > 1
            \/ \E o \in owners(s), i \in describers(s) : Contradicts(vols[i].graph[s], vols[o], s)
    IN  IF Cardinality(VolumeIds(vols)) # Len(vols) \/ \E s \in Streams(vols) : refused(s)
        THEN Fail
        ELSE Good([s \in {s \in Streams(vols) : owners(s) # {}} |-> CHOOSE o \in owners(s) : TRUE])

----------------------------------------------------------------------------
(* Its disks.  A set is [vols, owners].                                     *)

\* validate_set_range(): does a range of a map stay in the stream it is of?
WithinOwned(set, r) ==
    /\ r.target \in DOMAIN set.owners
    /\ r.offset + r.end - r.start <= set.vols[set.owners[r.target]].graph[r.target].size

\* image_map_in()
ImageMap(set, primary, id) ==
    LET v == set.vols[primary]
        r == v.graph[id]
        map == LoadMap(v, r.stream)
        size == v.graph[r.stream].size
    IN  IF \/ ~HasType(v, id, "DiskImage") \/ r.stream \notin DOMAIN v.graph \/ ~map.ok
           \/ r.size \notin {Absent, size}
           \/ "ContiguousImage" \in r.types /\ ~Gapless(map.value, size)
           \/ \E i \in DOMAIN map.value.ranges :
                 /\ ~IsSymbolic(map.value.ranges[i].target)
                 /\ ~WithinOwned(set, map.value.ranges[i])
           \/ ~IsSymbolic(map.value.gap) /\ map.value.gap \notin DOMAIN set.owners
        THEN Fail
        ELSE Good([ranges |-> map.value.ranges, gap |-> map.value.gap, size |-> size])

\* Every byte comes from the container that has its stream.
SetByte(set, map, position) ==
    LET at == MapInterval(map, position)
    IN  IF IsSymbolic(at.target) THEN TargetByte(set.vols[1], at.target, at.offset)
        ELSE TargetByte(set.vols[set.owners[at.target]], at.target, at.offset)
\* read_disk_at_impl(); a disk that is `mapped' needs more than its container.
ReadSet(set, primary, mapped, id, offset, length) ==
    IF ~mapped THEN Read(set.vols[primary], id, offset, length)
    ELSE LET map == ImageMap(set, primary, id)
         IN  IF ~map.ok THEN Fail
             ELSE AllOf([i \in 1..length |-> SetByte(set, map.value, offset + i - 1)])

DiskSize(set, primary, mapped, id) ==
    IF ~mapped THEN StreamSize(set.vols[primary], id)
    ELSE LET map == ImageMap(set, primary, id)
         IN  IF map.ok THEN Good(map.value.size) ELSE Fail

\* equivalent_disk_maps(): the maps may be split differently.
\* Faulty variant: the offsets in the streams are not compared.
EquivalentTargets(set, i, j, id) ==
    LET a == ImageMap(set, i, id)
        b == ImageMap(set, j, id)
    IN  /\ a.ok /\ b.ok /\ a.value.size = b.value.size
        /\ \A p \in 0..(a.value.size - 1) :
              MapInterval(a.value, p).target = MapInterval(b.value, p).target
EquivalentDiskMaps(set, i, j, id) ==
    LET a == ImageMap(set, i, id)
        b == ImageMap(set, j, id)
        same(x, y) == x.target = y.target /\ (IsSymbolic(x.target) \/ x.offset = y.offset)
    IN  /\ a.ok /\ b.ok /\ a.value.size = b.value.size
        /\ \A p \in 0..(a.value.size - 1) : same(MapInterval(a.value, p), MapInterval(b.value, p))

----------------------------------------------------------------------------
(* Inventory::new: what a container has, and what it needs of others        *)

\* dependencies() of a disk, those it does not have itself
MissingStreams(v, id) ==
    LET map == LoadMap(v, v.graph[id].stream).value
        targets == {map.ranges[i].target : i \in DOMAIN map.ranges} \cup {map.gap}
    IN  {t \in targets : /\ ~IsSymbolic(t)
                         /\ ~HasData(v, t)
                         /\ ~(t \in DOMAIN v.graph /\ v.graph[t].stored = v.id /\ v.graph[t].size = 0)}
Mapped(v, id) == MissingStreams(v, id) # {}

OwnedBy(v) ==
    {<<"volume", v.id>>}
    \cup ({"stream"} \X {s \in OfType(v, "ImageStream") : Owns(v, s) \/ HasData(v, s)})
Needs(v) ==
    ({"volume"} \X ({v.graph[s].stored : s \in OfType(v, "ImageStream")} \ {Absent, v.id}))
    \cup ({"stream"} \X UNION {MissingStreams(v, id) : id \in Disks(v)})
InventoryValid(v) ==
    /\ v.ok /\ DisksValid(v)
    /\ \A id \in Disks(v) : LoadMap(v, v.graph[id].stream).ok

----------------------------------------------------------------------------
(* DiskImageSet::discover                                                   *)

\* Everything that is connected with `from'.
Reach(edges, from) ==
    LET after[n \in 0..Cardinality(DOMAIN edges)] ==
            IF n = 0 THEN from ELSE after[n - 1] \cup UNION {edges[i] : i \in after[n - 1]}
    IN  after[Cardinality(DOMAIN edges)]

\* The containers of `inventory' that have what is needed, those that are connected
\* by it, and whether one of them has a need that is not met by exactly one.
Providers(files, inventory, need) == {i \in inventory : need \in OwnedBy(files[i])}
Edges(files, inventory) ==
    LET uses(i, j) == Needs(files[i]) \cap OwnedBy(files[j]) # {}
    IN  [i \in inventory |-> {j \in inventory : uses(i, j) \/ uses(j, i)}]
Unresolved(files, inventory, edges, i) ==
    \/ \E id \in OwnedBy(files[i]) \cup Needs(files[i]) :
          Cardinality(Providers(files, inventory, id)) # 1
    \/ \A j \in Reach(edges, {i}) : Disks(files[j]) = {}

\* The readers of a set: the disks, each with the volume it is read from first.
\* Several volumes may describe a disk if they come from the same containers
\* (`reach') and agree about it.
Definers(set, id) == {k \in DOMAIN set.vols : id \in Disks(set.vols[k])}
Conflicting(set, reach, id) ==
    \/ \E k \in Definers(set, id) :
          DiskSize(set, k, Mapped(set.vols[k], id), id) # StreamSize(set.vols[k], id)
    \/ \E j, k \in Definers(set, id) :
          j # k /\ (reach[j] # reach[k] \/ ~EquivalentDiskMaps(set, j, k, id))
First(set, id) ==
    CHOOSE k \in Definers(set, id) :
        \A j \in Definers(set, id) : set.vols[k].id <= set.vols[j].id
DisksOf(set, reach) ==
    LET ids == UNION {Disks(set.vols[k]) : k \in DOMAIN set.vols}
        reader(id, k) == [id |-> id, primary |-> k, mapped |-> Mapped(set.vols[k], id)]
    IN  IF \E id \in ids : Conflicting(set, reach, id) THEN Fail
        ELSE Good([set |-> set, readers |-> {reader(id, First(set, id)) : id \in ids}])

DiscoverVolumes(vols, owners, reach) ==
    IF owners.ok THEN DisksOf([vols |-> vols, owners |-> owners.value], reach) ELSE Fail
DiscoverSelected(files, selected, edges) ==
    LET vols == Keep(files, selected)
    IN  DiscoverVolumes(vols, FromContainers(vols),
                        [k \in DOMAIN vols |-> Reach(edges, {Nth(selected, k)})])
DiscoverAmong(files, explicit, inventory, edges) ==
    LET selected == Reach(edges, 1..explicit)
    IN  IF ~(1..explicit \subseteq inventory)
           \/ \E i \in selected : Unresolved(files, inventory, edges, i)
        THEN Fail
        ELSE DiscoverSelected(files, selected, edges)
DiscoverIn(files, explicit, inventory) ==
    DiscoverAmong(files, explicit, inventory, Edges(files, inventory))
\* files: the containers, the first `explicit' of them named by the caller and
\* the others candidates that lie nearby.  The result has the set of volumes and
\* a reader for every disk.
Discover(files, explicit) ==
    DiscoverIn(files, explicit, {i \in DOMAIN files : InventoryValid(files[i])})
=============================================================================
