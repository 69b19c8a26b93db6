--------------------------- MODULE Aff4Collection ---------------------------
(***************************************************************************)
(* `collect' and `extract' of crates/ewf-cli/src/aff4.rs, with the walk of *)
(* crates/aff4-image/src/collect.rs, its budget (collection_budget.rs) and *)
(* the end of every AFF4 output (writer.rs, finish_checked).               *)
(*                                                                         *)
(* A tree is collected while it changes.  A path is a number, in the order *)
(* of the names, with the root 0; what is there has a stamp, the metadata  *)
(* same_source() compares, which every change of a file gives a new value. *)
(* A budget counts the statements of the final metadata.                   *)
(***************************************************************************)
EXTENDS Cli, Integers, SequencesExt, FiniteSetsExt, LruOrder

CONSTANTS Parent,      \* the folder of every path but the root
          FilePieces,  \* pieces of a file, each read in a step
          Collections, \* the collections that are run
          Extractions  \* and the extractions

Root == 0
Paths == 0..Len(Parent)
ChildrenOf(p) == {c \in Paths \ {Root} : Parent[c] = p}
Folders == {p \in Paths : ChildrenOf(p) # {}}

ASSUME CollectionAssumption ==
    /\ Parent \in Seq(Nat)
    /\ \A c \in DOMAIN Parent : Parent[c] \in 0..(c - 1)
    /\ FilePieces \in Nat \ {0}
    /\ Collections \subseteq [kind : {"collect"}, exclude : SUBSET (Paths \ {Root}),
                              allow_partial : BOOLEAN,
                              triples : Nat] \* CollectionLimits.reader
    /\ Extractions \subseteq [kind : {"extract"}, reference : {"none", "match", "differ"}]

VARIABLES tree,  \* what is at each path
          walk   \* add_directory_tree(): its locals, the writer and the budget

collectionVars == <<tree, walk>>

\* The root is a folder; a path without others below it may be anything when the
\* command starts, the metadata of what is "gone" cannot be had, and of what is
\* "other" none are kept.
Kinds == {"folder", "file", "other", "gone"}
Trees == {t \in [Paths -> [kind : Kinds \ {"gone"}, stamp : {0}]] :
            \A p \in Folders \cup {Root} : t[p].kind = "folder"}
NoWalk == [pending |-> <<>>, path |-> Root, stamp |-> 0, pieces |-> <<>>,
           files |-> <<>>, folders |-> {}, issues |-> {}, charged |-> 0]

----------------------------------------------------------------------------
(* collection_budget.rs                                                    *)

\* Statements of a folder, of a file, of the record of the acquisition with its
\* separator, and of the task before its issues.
FolderRecord == 3
FileRecord == 4
RootRecord == 3
TaskRecord == 4

\* Faulty variant: the statement that makes it a child is not counted.
AddedWithoutChild(w, p) ==
    [w EXCEPT !.charged = @ + (IF tree[p].kind = "folder" THEN FolderRecord ELSE FileRecord)
                            + (IF p = Root THEN RootRecord ELSE 0)]
\* Budget::added(): the record itself, and the statement that places it, which
\* the writer only adds when it finishes.
Added(w, p) ==
    [w EXCEPT !.charged = @ + (IF p \in w.folders THEN FolderRecord ELSE FileRecord)
                            + (IF p = Root THEN RootRecord ELSE 1)]
\* record_issue()
WithIssue(w, p) == [w EXCEPT !.issues = @ \cup {p}, !.charged = @ + 1]

\* finish_logical_metadata() and task_metadata(): what the metadata end up as.
FinalStatements(w) ==
    TaskRecord + Cardinality(w.issues)
    + FolderRecord * Cardinality(w.folders) + FileRecord * Cardinality(DOMAIN w.files)
    + IF w.folders = {} THEN 0
      ELSE RootRecord + Cardinality(w.folders) - 1 + Cardinality(DOMAIN w.files)

\* The walk goes on with these locals, unless they are over the budget.
WalkOn(at, w) ==
    /\ walk' = w
    /\ IF w.charged > job.triples THEN Failing(1) ELSE Goto(at)

OnlyWalk == UNCHANGED <<jobVars, output, tree>>
OnlyEnd == UNCHANGED <<jobVars, output, collectionVars>>

----------------------------------------------------------------------------
(* add_directory_tree_with_limits()                                        *)

\* Writer::create() and the checks of the root.
StartCollect ==
    /\ main.at = "start" /\ job.kind = "collect"
    /\ \/ Failing(1) /\ UNCHANGED walk
       \/ output = "absent" /\ WalkOn("walk", [NoWalk EXCEPT !.pending = <<Root>>, !.charged = TaskRecord])
    /\ OnlyWalk

Top == Last(walk.pending)
Popped == [walk EXCEPT !.pending = Front(@)]
Visiting == main.at = "walk" /\ walk.pending # <<>> /\ ~stop
\* The entries of a folder as they go on the stack: the first in order on top.
Descending(S) == [k \in 1..Cardinality(S) |-> Nth(S, Cardinality(S) + 1 - k)]
Excluded(p) == p \in job.exclude \* what is below it is never reached

WalkStopped ==
    /\ main.at = "walk" /\ walk.pending # <<>> /\ stop
    /\ Failing(1) /\ UNCHANGED walk
    /\ OnlyWalk

VisitExcluded ==
    /\ Visiting /\ Excluded(Top)
    /\ WalkOn("walk", WithIssue(Popped, Top))
    /\ OnlyWalk

\* What cannot be looked at, links and special files.
VisitSkipped ==
    /\ Visiting /\ ~Excluded(Top)
    /\ IF job.allow_partial THEN WalkOn("walk", WithIssue(Popped, Top))
       ELSE Failing(1) /\ UNCHANGED walk
    /\ OnlyWalk

\* Faulty variant: a folder that cannot be listed is an empty folder.
VisitFolderSilent ==
    LET added == Added([Popped EXCEPT !.folders = @ \cup {Top}], Top)
        children == {c \in ChildrenOf(Top) : tree[c].kind # "gone"}
    IN  /\ Visiting /\ ~Excluded(Top) /\ tree[Top].kind = "folder"
        /\ \/ WalkOn("walk", [added EXCEPT !.pending = @ \o Descending(children)])
           \/ IF job.allow_partial THEN WalkOn("walk", added)
              ELSE Failing(1) /\ UNCHANGED walk
        /\ OnlyWalk
\* A folder is recorded before it is listed; listing it may fail.
VisitFolder ==
    LET added == Added([Popped EXCEPT !.folders = @ \cup {Top}], Top)
        children == {c \in ChildrenOf(Top) : tree[c].kind # "gone"}
    IN  /\ Visiting /\ ~Excluded(Top) /\ tree[Top].kind = "folder"
        /\ \/ WalkOn("walk", [added EXCEPT !.pending = @ \o Descending(children)])
           \/ IF job.allow_partial THEN WalkOn("walk", WithIssue(added, Top))
              ELSE Failing(1) /\ UNCHANGED walk
        /\ OnlyWalk

\* symlink_metadata() of a file, which is opened afterwards.
VisitFile ==
    /\ Visiting /\ ~Excluded(Top) /\ tree[Top].kind = "file"
    /\ WalkOn("open", [Popped EXCEPT !.path = Top, !.stamp = tree[Top].stamp])
    /\ OnlyWalk

\* open_regular(), and same_source() of what was seen and what was opened.
OpenFile ==
    /\ main.at = "open"
    /\ \/ Failing(1) /\ UNCHANGED walk
       \/ /\ tree[walk.path] = [kind |-> "file", stamp |-> walk.stamp]
          /\ WalkOn("read", [walk EXCEPT !.pieces = <<>>])
    /\ OnlyWalk

\* add_file_impl(): a piece is as the file is when it is read.
ReadPiece ==
    /\ main.at = "read"
    /\ IF stop THEN Failing(1) /\ UNCHANGED walk
       ELSE IF Len(walk.pieces) = FilePieces THEN Goto("after") /\ UNCHANGED walk
       ELSE \/ Failing(1) /\ UNCHANGED walk
            \/ UNCHANGED main /\ walk' = [walk EXCEPT !.pieces = Append(@, tree[walk.path].stamp)]
    /\ OnlyWalk

WithFile(w) ==
    Added([w EXCEPT !.files = [p \in DOMAIN w.files \cup {w.path} |->
                                  IF p = w.path THEN w.pieces ELSE w.files[p]]], w.path)
\* same_source() of the open file and itself before it was read.
AfterFile ==
    /\ main.at = "after"
    /\ IF tree[walk.path].stamp # walk.stamp THEN Failing(1) /\ UNCHANGED walk
       ELSE WalkOn("walk", WithFile(walk))
    /\ OnlyWalk

----------------------------------------------------------------------------
(* finish_checked() with finish_verified()                                 *)

\* The metadata are written, the archive closed and synced.
Finish ==
    /\ main.at = "walk" /\ walk.pending = <<>>
    /\ Goto("staged") \/ Failing(1)
    /\ OnlyEnd

\* The container is opened again and verified, with a look at the stop before
\* each piece; a mismatch is a report of its own.
StartVerify ==
    /\ main.at = "staged"
    /\ IF stop THEN Failing(1) ELSE Goto("verifying")
    /\ OnlyEnd
VerifyContainer ==
    /\ main.at = "verifying"
    /\ Goto("last") \/ Failing(1) \/ Exit(4)
    /\ OnlyEnd

LastCheck ==
    /\ main.at = "last"
    /\ IF stop THEN Failing(1) ELSE Goto("persist")
    /\ OnlyEnd

CollectionExit == IF walk.issues = {} THEN 0 ELSE 4
Unsynced == 4 \* PublishedButUnsynced
PublishContainer ==
    /\ main.at = "persist" /\ job.kind = "collect"
    /\ Publish(<<"exit", CollectionExit>>, <<"exit", Unsynced>>)
    /\ UNCHANGED <<jobVars, collectionVars>>

----------------------------------------------------------------------------
(* extract()                                                               *)

StartExtract ==
    /\ main.at = "start" /\ job.kind = "extract"
    /\ Failing(1) \/ (output = "absent" /\ Goto("unpack"))
    /\ OnlyEnd

\* copy_verified() of the entry to a temporary file, with a look at the stop
\* before each piece.
StartUnpack ==
    /\ main.at = "unpack"
    /\ IF stop THEN Failing(1) ELSE Goto("unpacking")
    /\ OnlyEnd
Unpack ==
    /\ main.at = "unpacking"
    /\ \/ Failing(1)
       \/ IF job.reference = "differ" THEN Exit(3) ELSE Goto("unpacked")
    /\ OnlyEnd

\* The file is synced, and a stop is looked for once more.
CheckUnpacked ==
    /\ main.at = "unpacked"
    /\ IF stop THEN Failing(1) ELSE Failing(1) \/ Goto("persist")
    /\ OnlyEnd

PublishFile ==
    /\ main.at = "persist" /\ job.kind = "extract"
    /\ Publish(<<"exit", IF job.reference = "match" THEN 0 ELSE 4>>, <<"failing", 1>>)
    /\ UNCHANGED <<jobVars, collectionVars>>

----------------------------------------------------------------------------

CollectStep ==
    \/ StartCollect \/ WalkStopped \/ VisitExcluded \/ VisitSkipped \/ VisitFolder
    \/ VisitFile \/ OpenFile \/ ReadPiece \/ AfterFile
    \/ Finish \/ StartVerify \/ VerifyContainer \/ LastCheck \/ PublishContainer
    \/ StartExtract \/ StartUnpack \/ Unpack \/ CheckUnpacked \/ PublishFile

\* Somebody writes to a file, or removes something, while the tree is collected.
TreeChange(p) ==
    /\ job.kind = "collect" /\ ~Over
    /\ \A q \in Paths : tree[q].stamp = 0
    /\ tree[p].kind = "file"
    /\ \E kind \in {"file", "other", "gone"} :
          tree' = [tree EXCEPT ![p] = [kind |-> kind, stamp |-> 1]]
    /\ UNCHANGED <<cliVars, walk>>

BeforeLastCollectionCheck ==
    main.at \in {"start", "walk", "open", "read", "after", "staged", "verifying", "last",
                "unpack", "unpacking", "unpacked"}

CollectionInit ==
    /\ tree \in Trees
    /\ walk = NoWalk

CollectionNext == CollectStep \/ \E p \in Paths : TreeChange(p)

----------------------------------------------------------------------------

\* No path is visited twice, and the record of the walk has the types of the
\* locals of add_directory_tree_with_limits().
CollectionTypeOK ==
    /\ tree \in [Paths -> [kind : Kinds, stamp : {0, 1}]]
    /\ walk.folders \cap DOMAIN walk.files = {}
    /\ walk.folders \cup DOMAIN walk.files \cup walk.issues \subseteq Paths
    /\ ToSet(walk.pending) \cap (walk.folders \cup DOMAIN walk.files \cup walk.issues) = {}
    /\ walk.charged \in Nat

\* collect.rs:5, "every issue" of a partial collection is recorded, and :169-174,
\* "a detected source change prevent[s] publication": once a collection is
\* published, every path that was in the tree is in it, or is accounted for by
\* an issue of its own or of a folder above it; no file mixes two states of its
\* source; and exit code 0 means that nothing was left out.
Above[p \in Paths] == IF p = Root THEN {} ELSE {Parent[p]} \cup Above[Parent[p]]
AccountedFor(p) ==
    \/ p \in walk.folders \cup DOMAIN walk.files
    \/ ({p} \cup Above[p]) \cap walk.issues # {}
CollectionAccounts ==
    /\ CollectionTypeOK
    /\ job.kind = "collect" /\ output = "ours" =>
           /\ \A p \in Paths : tree[p].kind # "gone" => AccountedFor(p)
           /\ \A p \in DOMAIN walk.files : Cardinality(ToSet(walk.files[p])) = 1
           /\ main.exit = 0 => walk.issues = {}
           /\ ~job.allow_partial => \A p \in walk.issues : Excluded(p)

\* collection_budget.rs:1-2: what the budget has charged when the walk ends is
\* what the final metadata hold, the records that are only written then
\* included, so that a container within the budget can be opened again with the
\* same limits.
BudgetIsExact ==
    job.kind = "collect" /\ main.at = "persist" => /\ walk.charged = FinalStatements(walk)
                                      /\ walk.charged <= job.triples
=============================================================================
