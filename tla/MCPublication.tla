--------------------------- MODULE MCPublication ---------------------------
(* Publication.tla on small instances; the constants are in the cfg files.  *)
EXTENDS Publication

CONSTANTS a, b, i, j, q

\* A set with its mirror, and the mirror's name published on its own.
MirrorAndSingle == {<<a, b>>, <<b, NoName>>}

\* One image for the mirrored sets, the other for the single one.
OneEach == [pair \in Targets |-> IF pair[2] = NoName THEN {j} ELSE {i}]

\* Two instances in one: a single process with sets of up to MaxSegs segments, or
\* both processes with sets of one segment.  The outputs there before anything was
\* published have the image that is not published with a mirror.
VARIABLE scope
Single == scope = "single"
Count == IF Single THEN MaxSegs ELSE 1

MCInit ==
    /\ Init
    /\ scope \in {"single", "shared"}
    /\ disk \in [Names -> {NoFiles} \cup {Whole(j, count) : count \in 1..Count}]

\* A step of the instance: whatever else is done goes on with what was begun.
Within(p) ==
    /\ Single => p # q
    /\ pc'[p] = "begin" => job'[p].count <= Count
MCNext ==
    /\ \E p \in Procs : Step(p) /\ Within(p)
    /\ UNCHANGED scope

MCSpec == MCInit /\ [][MCNext]_<<vars, scope>> /\ Fairness
=============================================================================
