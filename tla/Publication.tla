---------------------------- MODULE Publication ----------------------------
(***************************************************************************)
(* src/publication.rs: the recoverable publication of one output set, or   *)
(* of a set and its mirror.  Every process that publishes or recovers is a *)
(* thread of control p; it can be killed between any two file-system       *)
(* operations (Crash), and with Faults any of those operations may fail.   *)
(*                                                                         *)
(* A set n is the segment files of one image.  disk[n][s] is the file of   *)
(* segment s, and journal[n] the directory ".<first>.ewf-publication":     *)
(*   id      the file `identity': not created, created but not written, or *)
(*           holding the hash of the pair of paths in `pair';              *)
(*   new     the segments staged in new/;                                  *)
(*   backup  per segment, the copy in old/, or Absent for an entry in      *)
(*           absent/, or NoBackup for neither;                             *)
(*   marks   the marker files ready, committed and rolled-back.            *)
(* A crash keeps the files and drops the locks of the process.             *)
(***************************************************************************)
EXTENDS Naturals

CONSTANTS Names, Images, MaxSegs, Absent,
          NoName,   \* no secondary set
          NoBackup, \* no entry in old/ or absent/
          Targets,  \* the pairs of paths that are published
          Writes,   \* the images published to each
          Procs,    \* processes using the library
          NoProc,   \* nobody holds the lock
          Faults    \* TRUE when file-system operations may fail

ASSUME PublicationAssumption ==
    /\ MaxSegs \in Nat \ {0}
    /\ Names # {}
    /\ NoName \notin Names
    /\ Absent \notin Images
    /\ NoBackup \notin Images \cup {Absent}
    /\ NoProc \notin Procs
    /\ Targets \subseteq Names \X (Names \cup {NoName})
    /\ Writes \in [Targets -> SUBSET Images]
    /\ Faults \in BOOLEAN

VARIABLES disk, journal, lock, pc, job

vars == <<disk, journal, lock, pc, job>>

Segs == 1..MaxSegs
Contents == Images \cup {Absent}
Pairs == Names \X (Names \cup {NoName})
Items == Names \X Segs

Marks == {"ready", "committed", "rolled-back"}

Journal == [exists : BOOLEAN,
            id     : {"none", "partial", "full"},
            pair   : Pairs,
            new    : SUBSET Segs,
            backup : [Segs -> Contents \cup {NoBackup}],
            marks  : SUBSET Marks]

Labels == {"idle", "begin", "identity", "fill", "stage", "prepare", "ready",
           "install", "commit", "rollback", "cleanup"}

\* The local variables of an operation: its pair of paths, what it writes,
\* the sets (names) and files (todo) still to handle in the current loop, the
\* destinations of publish(), and what it returns when cleanup() succeeds.
Job == [pair    : Pairs,
        img     : Contents,
        count   : Segs,
        replace : BOOLEAN,
        names   : SUBSET Names,
        todo    : SUBSET Items,
        dest    : SUBSET Items,
        result  : {"published", "recovered", "error"}]

\* A journal directory that does not exist, and one just created.
NoJournal == [exists |-> FALSE, id |-> "none",
              pair |-> CHOOSE q \in Pairs : TRUE, new |-> {},
              backup |-> [s \in Segs |-> NoBackup], marks |-> {}]
FreshJournal == [NoJournal EXCEPT !.exists = TRUE]

NoJob == [pair |-> CHOOSE q \in Pairs : TRUE, img |-> Absent,
          count |-> 1, replace |-> TRUE, names |-> {}, todo |-> {}, dest |-> {},
          result |-> "error"]

DestsOf(pair) == {pair[1]} \cup ({pair[2]} \ {NoName})
Prim(p) == job[p].pair[1]
Dests(p) == DestsOf(job[p].pair)

\* Publication.sets: the sets whose lock this operation holds.
Sets(p) == {n \in Names : lock[n] = p}

Decided(n) == journal[n].marks \cap {"committed", "rolled-back"} # {}
Ready(n) == "ready" \in journal[n].marks

----------------------------------------------------------------------------
(* Control: the loops run over the primary first, in ascending segments.   *)

Goto(p, label) == pc' = [pc EXCEPT ![p] = label]

\* The operation returns: Drop releases the locks (OutputLock::drop).
Return(p) ==
    /\ pc' = [pc EXCEPT ![p] = "idle"]
    /\ lock' = [n \in Names |-> IF lock[n] = p THEN NoProc ELSE lock[n]]
    /\ job' = [job EXCEPT ![p] = NoJob]

NextName(p, n) == n \in job[p].names /\ (n = Prim(p) \/ Prim(p) \notin job[p].names)

Before(p, x, y) == \/ x[1] = Prim(p) /\ y[1] # Prim(p)
                   \/ x[1] = y[1] /\ x[2] < y[2]
NextItem(p, x) == x \in job[p].todo /\ \A y \in job[p].todo : ~Before(p, y, x)

\* rollback() restores the copies of a set before it removes its new files.
NextUndo(p, x) ==
    /\ x \in job[p].todo
    /\ x[1] = Prim(p) \/ \A y \in job[p].todo : y[1] # Prim(p)
    /\ \/ journal[x[1]].backup[x[2]] # Absent
       \/ \A y \in job[p].todo : y[1] = x[1] => journal[y[1]].backup[y[2]] = Absent

\* cleanup() visits the sets in reverse, the primary last.
NextRetired(p, n) == n \in job[p].names /\ (n # Prim(p) \/ job[p].names = {n})

\* The step to `label' for a cleanup() of every set the operation holds.
ToCleanup(p, result) ==
    /\ Goto(p, "cleanup")
    /\ job' = [job EXCEPT ![p].names = Sets(p), ![p].result = result]

\* Faulty variant: every segment counts as backed up.
BackupsAll(pair) == DestsOf(pair) \X Segs
\* files(old) and files(absent): what there is to undo.
Backups(pair) == {x \in DestsOf(pair) \X Segs : journal[x[1]].backup[x[2]] # NoBackup}

ToRollback(p) ==
    /\ Goto(p, "rollback")
    /\ job' = [job EXCEPT ![p].todo = Backups(job[p].pair)]

----------------------------------------------------------------------------
(* Publication::begin                                                      *)

\* normalized_paths() refuses a mirror equal to the primary.
Begin(p, pair, img, count, replace) ==
    /\ pc[p] = "idle"
    /\ pair[1] # pair[2] /\ img \in Writes[pair]
    /\ Goto(p, "begin")
    /\ job' = [job EXCEPT ![p] =
                 [NoJob EXCEPT !.pair = pair, !.img = img, !.count = count,
                               !.replace = replace, !.names = DestsOf(pair)]]
    /\ UNCHANGED <<disk, journal, lock>>

\* Set::lock and create_dir; a busy lock or a journal left by an earlier
\* publication ends begin() with an error, and Drop cleans up the sets so far.
BeginSet(p, n) ==
    /\ pc[p] = "begin"
    /\ NextName(p, n)
    /\ UNCHANGED disk
    /\ \/ /\ lock[n] = NoProc /\ ~journal[n].exists
          /\ lock' = [lock EXCEPT ![n] = p]
          /\ journal' = [journal EXCEPT ![n] = FreshJournal]
          /\ IF job[p].names = {n}
             THEN /\ Goto(p, "identity")
                  /\ job' = [job EXCEPT ![p].names = Dests(p)]
             ELSE /\ job' = [job EXCEPT ![p].names = @ \ {n}]
                  /\ UNCHANGED pc
       \/ /\ lock[n] # NoProc \/ journal[n].exists
          /\ ToCleanup(p, "error")
          /\ UNCHANGED <<journal, lock>>

\* write_synced(identity) creates the file and then writes 32 bytes to it.
CreateIdentity(p, n) ==
    /\ pc[p] = "identity"
    /\ NextName(p, n)
    /\ journal' = [journal EXCEPT ![n].id = "partial"]
    /\ Goto(p, "fill")
    /\ UNCHANGED <<disk, lock, job>>

FillIdentity(p, n) ==
    /\ pc[p] = "fill"
    /\ NextName(p, n)
    /\ journal' = [journal EXCEPT ![n].id = "full", ![n].pair = job[p].pair]
    /\ IF job[p].names = {n}
       THEN /\ Goto(p, "stage")
            /\ job' = [job EXCEPT ![p].names = {},
                                  ![p].todo = Dests(p) \X (1..job[p].count)]
       ELSE /\ Goto(p, "identity")
            /\ job' = [job EXCEPT ![p].names = @ \ {n}]
    /\ UNCHANGED <<disk, lock>>

----------------------------------------------------------------------------
(* Staging by the writers, then Publication::publish                       *)

\* Segment by segment, the primary file and then its copy in the mirror.
Stage(p, x) ==
    /\ pc[p] = "stage"
    /\ x \in job[p].todo
    /\ \A y \in job[p].todo : x[2] <= y[2] /\ (x[1] = Prim(p) \/ <<Prim(p), x[2]>> \notin job[p].todo)
    /\ journal' = [journal EXCEPT ![x[1]].new = @ \cup {x[2]}]
    /\ job' = [job EXCEPT ![p].todo = @ \ {x}]
    /\ UNCHANGED <<disk, lock, pc>>

\* Faulty variant: stale segments behind the last are forgotten.
DestinationsWrittenOnly(p) == {x \in Dests(p) \X Segs : x[2] <= job[p].count}
\* publication_segment_paths(): the written segments and every stale one.
Destinations(p) ==
    {x \in Dests(p) \X Segs : x[2] <= job[p].count \/ disk[x[1]][x[2]] # Absent}

Publish(p) ==
    /\ pc[p] = "stage" /\ job[p].todo = {}
    /\ job' = [job EXCEPT ![p].dest = Destinations(p), ![p].todo = Destinations(p)]
    /\ Goto(p, "prepare")
    /\ UNCHANGED <<disk, journal, lock>>

\* One destination: back it up, or note that there was none; refuse to
\* replace a file without overwrite_existing.
Prepare(p, x) ==
    /\ pc[p] = "prepare"
    /\ NextItem(p, x)
    /\ IF disk[x[1]][x[2]] # Absent /\ ~job[p].replace
       THEN ToCleanup(p, "error") /\ UNCHANGED journal
       ELSE /\ journal' = [journal EXCEPT ![x[1]].backup[x[2]] = disk[x[1]][x[2]]]
            /\ job' = [job EXCEPT ![p].todo = @ \ {x}]
            /\ IF job[p].todo = {x} THEN Goto(p, "ready") ELSE UNCHANGED pc
    /\ UNCHANGED <<disk, lock>>

\* The marker `ready'; if synchronizing it fails, the publication counts as
\* not prepared and Drop cleans up with the marker in place.
WriteReady(p) ==
    /\ pc[p] = "ready"
    /\ journal' = [journal EXCEPT ![Prim(p)].marks = @ \cup {"ready"}]
    /\ \/ Goto(p, "install") /\ job' = [job EXCEPT ![p].todo = job[p].dest]
       \/ Faults /\ ToCleanup(p, "error")
    /\ UNCHANGED <<disk, lock>>

\* rename(staged, path), or remove_if_present(path) past the written ones.
Install(p, x) ==
    /\ pc[p] = "install"
    /\ NextItem(p, x)
    /\ disk' = [disk EXCEPT ![x[1]][x[2]] = IF x[2] <= job[p].count THEN job[p].img ELSE Absent]
    /\ journal' = [journal EXCEPT ![x[1]].new = @ \ {x[2]}]
    /\ job' = [job EXCEPT ![p].todo = @ \ {x}]
    /\ IF job[p].todo = {x} THEN Goto(p, "commit") ELSE UNCHANGED pc
    /\ UNCHANGED lock

\* A failed rename, removal or directory sync makes publish() roll back; the
\* last sync comes after the last file, with nothing left to install.
InstallFault(p) ==
    /\ pc[p] \in {"install", "commit"} /\ Faults
    /\ ToRollback(p)
    /\ UNCHANGED <<disk, journal, lock>>

\* Faulty variant: the journals are retired without the decision.
WriteNoMarker(p) ==
    /\ pc[p] = "commit"
    /\ ToCleanup(p, "published")
    /\ UNCHANGED <<disk, journal, lock>>
\* The decision.  When the marker cannot be synchronized publish() returns an
\* error and leaves the journal to recover().
WriteCommitted(p) ==
    /\ pc[p] = "commit"
    /\ journal' = [journal EXCEPT ![Prim(p)].marks = @ \cup {"committed"}]
    /\ \/ ToCleanup(p, "published") /\ UNCHANGED lock
       \/ Faults /\ Return(p)
    /\ UNCHANGED disk

----------------------------------------------------------------------------
(* rollback, cleanup and recover                                           *)

\* copy(old, restore) and rename(restore, target), or remove_if_present.
Rollback(p, x) ==
    /\ pc[p] = "rollback"
    /\ NextUndo(p, x)
    /\ disk' = [disk EXCEPT ![x[1]][x[2]] = journal[x[1]].backup[x[2]]]
    /\ job' = [job EXCEPT ![p].todo = @ \ {x}]
    /\ UNCHANGED <<journal, lock, pc>>

WriteRolledBack(p) ==
    /\ pc[p] = "rollback" /\ job[p].todo = {}
    /\ journal' = [journal EXCEPT ![Prim(p)].marks = @ \cup {"rolled-back"}]
    /\ \/ ToCleanup(p, job[p].result) /\ UNCHANGED lock
       \/ Faults /\ Return(p)
    /\ UNCHANGED disk

\* Renaming the journal away from its well-known name retires it.
Cleanup(p, n) ==
    /\ pc[p] = "cleanup"
    /\ NextRetired(p, n)
    /\ journal' = [journal EXCEPT ![n] = NoJournal]
    /\ \/ /\ job' = [job EXCEPT ![p].names = @ \ {n}]
          /\ UNCHANGED <<pc, lock>>
       \/ Faults /\ Return(p)
    /\ UNCHANGED disk

CleanedUp(p) ==
    /\ pc[p] = "cleanup" /\ job[p].names = {}
    /\ Return(p)
    /\ UNCHANGED <<disk, journal>>

\* recover(): what it accepts of the journals of the given pair of paths.
Skipped(pair, n) ==
    \/ ~journal[n].exists /\ (Decided(pair[1]) \/ ~Ready(pair[1]))
    \/ journal[n].id = "none" /\ ~Ready(pair[1])

\* Faulty variant: recovery needs the staged files, as if it rolled forward.
AcceptsWithStaged(pair) ==
    /\ journal[pair[1]].exists
    /\ \A n \in DestsOf(pair) : Skipped(pair, n) \/ journal[n].new # {}
Accepts(pair) ==
    /\ journal[pair[1]].exists
    /\ \A n \in DestsOf(pair) :
          Skipped(pair, n) \/ (/\ journal[n].exists
                               /\ journal[n].id = "full"
                               /\ journal[n].pair = pair)

\* Faulty variant: recovery does not take the locks.
LocksIgnored(pair) == TRUE
\* recover() locks every set before it looks at a journal.
LocksFree(pair) == \A n \in DestsOf(pair) : lock[n] = NoProc

\* recover() with an accepted journal; a refusal changes nothing.
Recover(p, pair) ==
    /\ pc[p] = "idle"
    /\ pair[1] # pair[2]
    /\ LocksFree(pair)
    /\ Accepts(pair)
    /\ lock' = [n \in Names |-> IF n \in DestsOf(pair) THEN p ELSE lock[n]]
    /\ LET start == [NoJob EXCEPT !.pair = pair, !.result = "recovered"]
       IN  IF Decided(pair[1]) \/ ~Ready(pair[1])
           THEN /\ Goto(p, "cleanup")
                /\ job' = [job EXCEPT ![p] = [start EXCEPT !.names = DestsOf(pair)]]
           ELSE /\ Goto(p, "rollback")
                /\ job' = [job EXCEPT ![p] = [start EXCEPT !.todo = Backups(pair)]]
    /\ UNCHANGED <<disk, journal>>

----------------------------------------------------------------------------
(* Errors and crashes                                                      *)

\* An error before `prepared', or the writer dropped while it stages: Drop
\* runs cleanup() on the sets begun so far.
Abandon(p) ==
    /\ \/ pc[p] \in {"begin", "identity", "fill", "prepare", "ready"} /\ Faults
       \/ pc[p] = "stage"
    /\ ToCleanup(p, "error")
    /\ UNCHANGED <<disk, journal, lock>>

\* An error after it: the journals stay for recover().
Leave(p) ==
    /\ pc[p] \in {"commit", "rollback", "cleanup"} /\ Faults
    /\ Return(p)
    /\ UNCHANGED <<disk, journal>>

\* The process is killed: no destructor runs.
Crash(p) ==
    /\ pc[p] # "idle"
    /\ Return(p)
    /\ UNCHANGED <<disk, journal>>

\* A set as a publication leaves it: exactly the segments 1 to count.
Whole(img, count) == [s \in Segs |-> IF s <= count THEN img ELSE Absent]
NoFiles == [s \in Segs |-> Absent]
Complete == {Whole(img, count) : img \in Images, count \in Segs} \cup {NoFiles}

\* Before the first publication there are no outputs or complete ones.
Init ==
    /\ disk \in [Names -> Complete]
    /\ journal = [n \in Names |-> NoJournal]
    /\ lock = [n \in Names |-> NoProc]
    /\ pc = [p \in Procs |-> "idle"]
    /\ job = [p \in Procs |-> NoJob]

\* What a running operation does next.
Work(p) ==
    \/ \E n \in Names : BeginSet(p, n) \/ CreateIdentity(p, n) \/ FillIdentity(p, n)
    \/ \E x \in Items : Stage(p, x) \/ Prepare(p, x) \/ Install(p, x) \/ Rollback(p, x)
    \/ Publish(p) \/ WriteReady(p) \/ WriteCommitted(p) \/ WriteRolledBack(p)
    \/ \E n \in Names : Cleanup(p, n)
    \/ CleanedUp(p)

Step(p) ==
    \/ \E pair \in Targets, img \in Images, count \in Segs, replace \in BOOLEAN :
          Begin(p, pair, img, count, replace)
    \/ \E pair \in Pairs : Recover(p, pair)
    \/ Work(p)
    \/ InstallFault(p) \/ Abandon(p) \/ Leave(p) \/ Crash(p)

Next == \E p \in Procs : Step(p)

Spec == Init /\ [][Next]_vars

\* A process that is not killed runs its operation to the end, and somebody
\* keeps calling recover() with every pair of paths that is published.
Fairness ==
    /\ \A p \in Procs : WF_vars(Work(p))
    /\ \A pair \in Targets : SF_vars(\E p \in Procs : Recover(p, pair))
FairSpec == Spec /\ Fairness
----------------------------------------------------------------------------
(* Properties                                                              *)

\* The files, journals, locks and local variables keep their shapes.
TypeOK ==
    /\ disk \in [Names -> [Segs -> Contents]]
    /\ journal \in [Names -> Journal]
    /\ lock \in [Names -> Procs \cup {NoProc}]
    /\ pc \in [Procs -> Labels]
    /\ job \in [Procs -> Job]

\* Set n belongs to a publication that is ready to change files and whose
\* outcome recover() would still decide as a rollback.
Pending(n) ==
    /\ journal[n].exists /\ journal[n].id = "full"
    /\ LET first == journal[n].pair[1]
       IN  journal[first].exists /\ Ready(first) /\ ~Decided(first)

\* A reader is let through to set n only when it has no journal
\* (ensure_no_publication), and then finds a complete set: never a mixture of
\* two images, a missing segment or a stale one behind the last, whatever was
\* interrupted before.
VisibleWhole == \A n \in Names : ~journal[n].exists => disk[n] \in Complete

\* publish() succeeds only after the primary and the mirror both hold the
\* whole new image.
CommittedOutputComplete ==
    \A p \in Procs : (pc[p] = "cleanup" /\ job[p].result = "published")
        => \A n \in Dests(p) : disk[n] = Whole(job[p].img, job[p].count)

\* From the first file a publication changes until its outcome is marked,
\* recover() with the original pair of paths accepts the journals, so that
\* changed output can always be restored.
TouchedOutputRecoverable ==
    \A n \in Names : Pending(n) =>
        \/ \A s \in Segs : journal[n].backup[s] \in {NoBackup, disk[n][s]}
        \/ Accepts(journal[n].pair)

\* What the files of a set amount to once recover() has run.
Settled(n) ==
    IF Pending(n)
    THEN [s \in Segs |-> IF journal[n].backup[s] = NoBackup
                         THEN disk[n][s] ELSE journal[n].backup[s]]
    ELSE disk[n]

Out == [n \in Names |-> Settled(n)]

\* What each process has asked for, from begin() until it is decided.
NoRequest == [dests |-> {}, img |-> Absent, count |-> 0]
Asked == [p \in Procs |->
            IF pc[p] \in {"begin", "identity", "fill", "stage", "prepare",
                          "ready", "install", "commit"}
            THEN [dests |-> Dests(p), img |-> job[p].img, count |-> job[p].count]
            ELSE NoRequest]

Abs == INSTANCE OutputSets WITH out <- Out, asked <- Asked

\* The marker `committed' is the one step that changes what recovery yields:
\* it replaces every file of the set and of its mirror by the image this
\* process was asked to publish, and no crash, failure or recovery before or
\* after it changes any.
Atomic == Abs!Spec

\* A step that ends or turns aside an operation before its work is done: a
\* kill, or a file operation that fails.
Interrupted(p) ==
    \/ pc[p] # "idle" /\ pc'[p] = "idle" /\ ~(pc[p] = "cleanup" /\ job[p].names = {})
    \/ pc[p] = "ready" /\ pc'[p] = "cleanup"
    \/ pc[p] \in {"install", "commit"} /\ pc'[p] = "rollback"

\* Some file of set n is no longer what its publication found.
Touched(n) == \E s \in Segs : journal[n].backup[s] \notin {NoBackup, disk[n][s]}

\* Once processes are no longer killed and file operations no longer fail,
\* every publication that changed a file is decided, whatever failed before:
\* the new files are committed, or recover() has restored the old ones.
RecoveryDecides ==
    <>[][\A p \in Procs : ~Interrupted(p)]_vars =>
        \A n \in Names : Pending(n) /\ Touched(n) ~> ~Pending(n)

\* docs/acquisition.md:257-259: "After a process interruption, call
\* EwfWriter::recover_output to discard uncommitted staging or complete an
\* interrupted publication": a journal left behind with its locks released is
\* one that recover() accepts for some pair of paths.
InterruptedIsRecoverable ==
    \A n \in Names : (journal[n].exists /\ \A m \in Names : lock[m] = NoProc)
        => \E pair \in Pairs : n \in DestsOf(pair) /\ Accepts(pair)
=============================================================================
