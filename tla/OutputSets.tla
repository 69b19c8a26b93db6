----------------------------- MODULE OutputSets -----------------------------
(***************************************************************************)
(* What a publication promises to whoever opens an image afterwards: the   *)
(* segment files of one output set, or of a set and its mirror, are        *)
(* replaced all at once by what one process asked for, or not at all.      *)
(* Publication.tla is the protocol that implements this with a journal,    *)
(* backups and renames.                                                    *)
(***************************************************************************)
EXTENDS Naturals

CONSTANTS Names,    \* first-segment paths, one per output set
          Images,   \* contents a publication can write
          MaxSegs,  \* segment files an output set can have
          Absent,   \* content of a segment path where no file exists
          Procs,    \* processes that publish
          NoRequest \* the process asks for nothing

VARIABLES out,      \* out[n][s]: the file of segment s of set n
          asked     \* the publication each process has under way

Segs == 1..MaxSegs
Contents == Images \cup {Absent}
Requests == [dests : SUBSET Names, img : Images, count : Segs]

Init == /\ out \in [Names -> [Segs -> Contents]]
        /\ asked = [p \in Procs |-> NoRequest]

Ask(p) ==
    /\ asked[p] = NoRequest
    /\ asked'[p] \in Requests
    /\ asked' = [asked EXCEPT ![p] = asked'[p]]
    /\ UNCHANGED out

GiveUp(p) ==
    /\ asked[p] # NoRequest
    /\ asked' = [asked EXCEPT ![p] = NoRequest]
    /\ UNCHANGED out

\* Exactly the first count segment files, and no stale one behind them.
Whole(img, count) == [s \in Segs |-> IF s <= count THEN img ELSE Absent]

Replace(p) ==
    /\ asked[p] # NoRequest
    /\ asked' = [asked EXCEPT ![p] = NoRequest]
    /\ out' = [n \in Names |-> IF n \in asked[p].dests
                               THEN Whole(asked[p].img, asked[p].count)
                               ELSE out[n]]

Next == \E p \in Procs : Ask(p) \/ GiveUp(p) \/ Replace(p)

Spec == Init /\ [][Next]_<<out, asked>>
=============================================================================
