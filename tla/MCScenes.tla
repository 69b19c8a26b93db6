----------------------------- MODULE MCScenes -------------------------------
(* AFF4 evidence for Aff4Disks.tla: what the crate's writer makes, disks     *)
(* striped over two containers, and the same with something wrong.           *)
EXTENDS Aff4Verify

Scene(files, explicit, id, content, sound, verifiable) ==
    [files |-> files, explicit |-> explicit, id |-> id, content |-> content,
     sound |-> sound, verifiable |-> verifiable]

----------------------------------------------------------------------------
\* A disk of a chunk that was compressed, one that was not, and half a chunk.
Medium == <<7, 7, 1, 2, 3>>
Simple == DiskVolume(1, "disk", "map", "data", Medium)
OneDisk == Scene(<<Simple>>, 1, "disk", Medium, TRUE, "verify")
NoBytes == Scene(<<DiskVolume(1, "disk", "map", "data", <<>>)>>, 1, "disk", <<>>, FALSE, "none")
OneFile == Scene(<<FileVolume(1, "file", <<4, 5>>)>>, 1, "file", <<4, 5>>, TRUE, "verify")

\* A member is lost, or one of its values is another one.
Values(name) ==
    CASE name[2] = "data"   -> {<<77>>, <<77, 77>>}
      [] name[2] = "index"  -> {[offset |-> 0, length |-> 2], [offset |-> 0, length |-> 9]}
      [] name[2] = "map"    -> {Placed(0, 4, 1, 1), Placed(0, 5, 1, 1), Placed(1, 5, 0, 1), Placed(0, 5, 0, 2)}
      [] name[2] = "idx"    -> {Zero, Unknown, "other"}
      [] name[2] = "file"   -> {77}
      [] OTHER              -> {<<77, 77>>}
Lost(v, name) == [v EXCEPT !.members = [n \in DOMAIN @ \ {name} |-> @[n]]]
Other(v, name, value) == [v EXCEPT !.members[name][1] = value]
DamagedMembers(v) ==
    {Lost(v, name) : name \in DOMAIN v.members}
    \cup UNION {{Other(v, name, value) : value \in Values(name) \ {v.members[name][1]}} :
                   name \in DOMAIN v.members}
\* The metadata are other ones than the container's digest of them is of.
Described(v, id, resource) == [v EXCEPT !.graph = (id :> resource) @@ @]
DamagedGraph(v, disk, stream) ==
    LET d == v.graph[disk]
        s == v.graph[stream]
    IN  {Described(v, disk, r) : r \in {[d EXCEPT !.hashes = <<>>], [d EXCEPT !.size = @ - 1],
                                        [d EXCEPT !.gap = Unknown]}}
        \cup {Described(v, stream, r) : r \in {[s EXCEPT !.chunk = Absent], [s EXCEPT !.size = @ - 1]}}
        \cup {[v EXCEPT !.sidecar = Fail]}

DamagedDisks ==
    {Scene(<<v>>, 1, "disk", Medium, FALSE, "none") :
        v \in DamagedMembers(Simple) \cup DamagedGraph(Simple, "disk", "data")}
DamagedFiles ==
    {Scene(<<v>>, 1, "file", <<4, 5>>, FALSE, "none") : v \in DamagedMembers(OneFile.files[1])}

----------------------------------------------------------------------------
\* A disk striped over two containers, with a gap that is zero; each of them
\* describes the other's stream, and splits the disk its own way.
Striped == <<7, 7, 1, 0, 2, 5, 6>>
Stripe(volume, ranges, own, others, content) ==
    Container(volume,
        ("disk" :> [ImageResource(Striped, "map", volume) EXCEPT !.types = {"DiskImage"}])
            @@ ("map" :> Resource({"Map"}, Len(Striped), volume))
            @@ (own :> StreamResource(Len(content), volume))
            @@ others,
        StreamMembers(own, content) @@ MapMembers("map", ranges, <<"sa", "sb">>))
StripeA == Stripe(1, <<Placed(0, 3, 0, 1), Placed(4, 7, 0, 2)>>,
                  "sa", "sb" :> StreamResource(3, 2), <<7, 7, 1>>)
StripeB == Stripe(2, <<Placed(0, 2, 0, 1), Placed(2, 3, 2, 1), Placed(4, 5, 0, 2), Placed(5, 7, 1, 2)>>,
                  "sb", "sa" :> [StreamResource(3, 1) EXCEPT !.chunk = Absent], <<2, 5, 6>>)

\* The digest of the disk is of what both of them have, in this order.
Resealed(v, hashes) ==
    LET described == Described(v, "disk", [v.graph["disk"] EXCEPT !.hashes = hashes])
    IN  [described EXCEPT !.sidecar = Good(described.graph)]
WithRoot(vols) ==
    LET set == [vols |-> vols, owners |-> FromContainers(vols).value]
        hashes == ("linear" :> Striped) @@ ("blockMap" :> RootInput(set, "disk").value)
    IN  [i \in DOMAIN vols |-> Resealed(vols[i], hashes)]
Pair == WithRoot(<<StripeA, StripeB>>)
A == Pair[1]
B == Pair[2]
Junk == [ok |-> FALSE]
Nearby == DiskVolume(5, "other", "omap", "odata", <<8, 8>>)

Set(files, explicit, sound, verifiable) == Scene(files, explicit, "disk", Striped, sound, verifiable)
Sets ==
    {Set(<<A, B>>, 2, TRUE, "set"),           \* both are named
     Set(<<A, B>>, 1, TRUE, "set"),           \* one is, and the other lies nearby
     Set(<<B, A>>, 1, TRUE, "none"),
     Set(<<B, Junk, Nearby, A>>, 1, TRUE, "none"),
     Set(<<A>>, 1, FALSE, "none"),            \* the other one is missing
     Set(<<Junk, A, B>>, 1, FALSE, "none"),
     Set(<<A, B, [B EXCEPT !.id = 3]>>, 1, FALSE, "none")} \* and one too many
DamagedSets ==
    {Set(<<A, v>>, 2, FALSE, "none") : v \in DamagedMembers(B) \cup DamagedGraph(B, "disk", "sb")}

\* Everything in B agrees with itself, but B and A are not of one disk.
Differing(ranges, size, stored) ==
    Resealed(Stripe(2, ranges, "sb",
                    "sa" :> [StreamResource(size, stored) EXCEPT !.chunk = Absent], <<2, 5, 6>>),
             "linear" :> Striped)
DifferingSets ==
    {Set(<<A, Differing(<<Placed(0, 3, 0, 1), Placed(4, 5, 2, 2), Placed(5, 7, 0, 2)>>, 3, 1)>>, 1, FALSE, "none"),
     Set(<<A, Differing(<<Placed(0, 4, 0, 1), Placed(4, 7, 0, 2)>>, 3, 1)>>, 1, FALSE, "none"),
     Set(<<A, Differing(<<Placed(0, 3, 0, 1), Placed(4, 7, 0, 2)>>, 2, 1)>>, 1, FALSE, "none"),
     Set(<<A, Differing(<<Placed(0, 3, 0, 1), Placed(4, 7, 0, 2)>>, 3, 4)>>, 1, FALSE, "none")}

MCEvidence ==
    {OneDisk, NoBytes, OneFile} \cup DamagedDisks \cup DamagedFiles
    \cup Sets \cup DamagedSets \cup DifferingSets
=============================================================================
