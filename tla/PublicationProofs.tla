------------------------- MODULE PublicationProofs -------------------------
(***************************************************************************)
(* Theorems about Publication.tla, for any number of processes, sets,      *)
(* segments and images, with and without file-system faults.               *)
(*                                                                         *)
(* TypeOK is not inductive: rollback() copies journal entries back to the  *)
(* destinations, so that their type depends on nobody else having touched  *)
(* the journal since its entries were listed.  What excludes that is the   *)
(* lock of every set, LocksHeld, and with it the lemma Frame: a step of    *)
(* one process leaves alone whatever another process holds.                *)
(*                                                                         *)
(* The second part proves, from an extension of that invariant, what       *)
(* readers find and that the protocol implements OutputSets.               *)
(***************************************************************************)
EXTENDS Publication, TLAPS

\* Where an operation holds the lock of every one of its sets.
Holding == {"identity", "fill", "stage", "prepare", "ready", "install",
            "commit", "rollback"}

\* Which locks process p holds at each point of its operation, and which sets
\* and files its loops may still visit.
Holds(p) ==
    /\ pc[p] = "begin" => /\ job[p].names \subseteq Dests(p)
                          /\ \A n \in Dests(p) \ job[p].names : lock[n] = p
    /\ pc[p] \in Holding => \A n \in Dests(p) : lock[n] = p
    /\ pc[p] \in {"identity", "fill"} => job[p].names \subseteq Dests(p)
    /\ pc[p] \in {"stage", "prepare", "ready", "install", "commit", "rollback"} =>
          job[p].todo \subseteq Dests(p) \X Segs
    /\ pc[p] \in {"prepare", "ready"} => job[p].dest \subseteq Dests(p) \X Segs
    /\ pc[p] = "cleanup" => \A n \in job[p].names : lock[n] = p

LocksHeld == \A p \in Procs : Holds(p)

\* What rollback() has yet to restore is in the journals.
Undoable(p) ==
    pc[p] = "rollback" => \A x \in job[p].todo : journal[x[1]].backup[x[2]] # NoBackup

TInv == TypeOK /\ LocksHeld /\ \A p \in Procs : Undoable(p)

\* The content that publish() wants in segment s.
Want(p, s) == IF s <= job[p].count THEN job[p].img ELSE Absent

\* How far publish() has come: a destination that is not in the list, or no
\* longer in it, has the wanted content already.
Installed(p) ==
    /\ pc[p] # "cleanup" => job[p].result # "published"
    /\ pc[p] \in {"prepare", "ready"} =>
          \A n \in Dests(p), s \in Segs : <<n, s>> \notin job[p].dest => disk[n][s] = Want(p, s)
    /\ pc[p] \in {"install", "commit"} =>
          \A n \in Dests(p), s \in Segs : <<n, s>> \notin job[p].todo => disk[n][s] = Want(p, s)
    /\ pc[p] = "commit" => job[p].todo = {}
    /\ (pc[p] = "cleanup" /\ job[p].result = "published") =>
          \A n \in Dests(p) : lock[n] = p /\ disk[n] = Whole(job[p].img, job[p].count)

IInv == TInv /\ \A p \in Procs : Installed(p)

----------------------------------------------------------------------------

LEMMA DestsAreNames ==
    ASSUME NEW pair \in Pairs
    PROVE  DestsOf(pair) \subseteq Names
  BY DEF Pairs, DestsOf

LEMMA BlankTypes ==
    /\ NoJournal \in Journal
    /\ FreshJournal \in Journal
    /\ NoJob \in Job
  <1>1. PICK n \in Names : TRUE
    BY PublicationAssumption
  <1>2. (CHOOSE q \in Pairs : TRUE) \in Pairs
    <2>1. <<n, NoName>> \in Pairs
      BY <1>1 DEF Pairs
    <2> QED
      BY <2>1
  <1>3. 1 \in Segs
    BY PublicationAssumption DEF Segs
  <1>4. NoJournal \in Journal
    BY <1>2 DEF NoJournal, Journal
  <1>5. FreshJournal \in Journal
    BY <1>2 DEF FreshJournal, NoJournal, Journal
  <1>6. NoJob \in Job
    BY <1>2, <1>3 DEF NoJob, Job, Contents
  <1> QED
    BY <1>4, <1>5, <1>6

\* The updates that the actions make to a job and to a journal keep its type.
LEMMA JobUpdates ==
    ASSUME NEW j \in Job
    PROVE  /\ \A S \in SUBSET Names : [j EXCEPT !.names = S] \in Job
           /\ \A S \in SUBSET Items : [j EXCEPT !.todo = S] \in Job
           /\ \A S \in SUBSET Items : [j EXCEPT !.dest = S, !.todo = S] \in Job
           /\ \A S \in SUBSET Names, T \in SUBSET Items : [j EXCEPT !.names = S, !.todo = T] \in Job
           /\ \A S \in SUBSET Names, r \in {"published", "recovered", "error"} :
                 [j EXCEPT !.names = S, !.result = r] \in Job
  BY DEF Job

LEMMA JournalUpdates ==
    ASSUME NEW d \in Journal
    PROVE  /\ [d EXCEPT !.id = "partial"] \in Journal
           /\ \A q \in Pairs : [d EXCEPT !.id = "full", !.pair = q] \in Journal
           /\ \A S \in SUBSET Segs : [d EXCEPT !.new = S] \in Journal
           /\ \A b \in [Segs -> Contents \cup {NoBackup}] : [d EXCEPT !.backup = b] \in Journal
           /\ \A M \in SUBSET Marks : [d EXCEPT !.marks = M] \in Journal
  BY DEF Journal

LEMMA ToCleanupTypes ==
    ASSUME TypeOK, NEW q \in Procs,
           NEW r \in {"published", "recovered", "error"}, ToCleanup(q, r)
    PROVE  job' \in [Procs -> Job] /\ pc' \in [Procs -> Labels]
  <1>1. Sets(q) \in SUBSET Names
    BY DEF Sets
  <1>2. job' \in [Procs -> Job]
    BY <1>1, JobUpdates DEF TypeOK, ToCleanup
  <1>3. pc' \in [Procs -> Labels]
    BY DEF TypeOK, ToCleanup, Goto, Labels
  <1> QED
    BY <1>2, <1>3

LEMMA ReturnTypes ==
    ASSUME TypeOK, NEW q \in Procs, Return(q)
    PROVE  /\ job' \in [Procs -> Job]
           /\ pc' \in [Procs -> Labels]
           /\ lock' \in [Names -> Procs \cup {NoProc}]
  BY BlankTypes DEF TypeOK, Return, Labels

\* A process only changes its own locks, and of the sets only those it holds
\* or locks in this very step: what another process holds stays as it is.
LEMMA Frame ==
    ASSUME TInv, NEW q \in Procs, Step(q), NEW p \in Procs, p # q
    PROVE  /\ pc'[p] = pc[p]
           /\ job'[p] = job[p]
           /\ \A n \in Names : lock[n] = p =>
                 /\ lock'[n] = p
                 /\ disk'[n] = disk[n]
                 /\ journal'[n] = journal[n]
  <1> USE DEF TInv, TypeOK, Goto
  <1>h. Holds(q)
    BY DEF LocksHeld
  <1>n. p # NoProc
    BY PublicationAssumption
  <1>d. job[q].pair \in Pairs /\ Dests(q) \subseteq Names /\ Prim(q) \in Dests(q)
    BY DestsAreNames DEF Job, Dests, Prim, DestsOf
  <1>1. CASE \E pair \in Targets, img \in Images, count \in Segs, replace \in BOOLEAN :
                Begin(q, pair, img, count, replace)
    BY <1>1 DEF Begin
  <1>2. CASE \E pair \in Pairs : Recover(q, pair)
    BY <1>2, <1>n DEF Recover, LocksFree
  <1>3. CASE \E n \in Names : BeginSet(q, n)
    BY <1>3, <1>n DEF BeginSet, ToCleanup
  <1>4. CASE \E n \in Names : CreateIdentity(q, n) \/ FillIdentity(q, n)
    BY <1>4, <1>h DEF CreateIdentity, FillIdentity, NextName, Holds, Holding
  <1>5. CASE \E x \in Items : Stage(q, x)
    BY <1>5, <1>h DEF Stage, Holds, Holding, Items
  <1>6. CASE \E x \in Items : Prepare(q, x)
    BY <1>6, <1>h DEF Prepare, NextItem, ToCleanup, Holds, Holding, Items
  <1>7. CASE \E x \in Items : Install(q, x)
    BY <1>7, <1>h DEF Install, NextItem, Holds, Holding, Items
  <1>8. CASE \E x \in Items : Rollback(q, x)
    BY <1>8, <1>h DEF Rollback, NextUndo, Holds, Holding, Items
  <1>9. CASE Publish(q)
    BY <1>9 DEF Publish
  <1>10. CASE WriteReady(q)
    BY <1>10, <1>h, <1>d DEF WriteReady, ToCleanup, Holds, Holding
  <1>11. CASE WriteCommitted(q)
    BY <1>11, <1>h, <1>d DEF WriteCommitted, ToCleanup, Return, Holds, Holding
  <1>12. CASE WriteRolledBack(q)
    BY <1>12, <1>h, <1>d DEF WriteRolledBack, ToCleanup, Return, Holds, Holding
  <1>13. CASE \E n \in Names : Cleanup(q, n)
    BY <1>13, <1>h DEF Cleanup, NextRetired, Return, Holds
  <1>14. CASE CleanedUp(q) \/ Leave(q) \/ Crash(q)
    BY <1>14 DEF CleanedUp, Leave, Crash, Return
  <1>15. CASE InstallFault(q) \/ Abandon(q)
    BY <1>15 DEF InstallFault, Abandon, ToRollback, ToCleanup
  <1> QED
    BY <1>1, <1>2, <1>3, <1>4, <1>5, <1>6, <1>7, <1>8, <1>9, <1>10, <1>11,
       <1>12, <1>13, <1>14, <1>15 DEF Step, Work

----------------------------------------------------------------------------

\* A process's own step keeps the types.
LEMMA TypesKept ==
    ASSUME TInv, NEW q \in Procs, Step(q)
    PROVE  TypeOK'
  <1> USE DEF TInv, TypeOK, Goto
  <1>t. job[q] \in Job
    OBVIOUS
  <1>d. Dests(q) \subseteq Names /\ Prim(q) \in Names
    BY DestsAreNames DEF Job, Dests, Prim, DestsOf
  <1>s. Sets(q) \subseteq Names
    BY DEF Sets
  <1>1. CASE \E pair \in Targets, img \in Images, count \in Segs, replace \in BOOLEAN :
                Begin(q, pair, img, count, replace)
    <2>1. PICK pair \in Targets, img \in Images, count \in Segs, replace \in BOOLEAN :
                Begin(q, pair, img, count, replace)
      BY <1>1
    <2>2. pair \in Pairs /\ DestsOf(pair) \subseteq Names
      BY DestsAreNames, PublicationAssumption DEF Pairs
    <2>3. job'[q] \in Job
      BY <2>1, <2>2, BlankTypes DEF Begin, Job, Contents
    <2> QED
      BY <2>1, <2>3 DEF Begin, Labels
  <1>2. CASE \E pair \in Pairs : Recover(q, pair)
    <2>1. PICK pair \in Pairs : Recover(q, pair)
      BY <1>2
    <2>2. DestsOf(pair) \in SUBSET Names /\ Backups(pair) \in SUBSET Items
      BY DestsAreNames DEF Backups, Items
    <2>3. [NoJob EXCEPT !.pair = pair, !.result = "recovered"] \in Job
      BY BlankTypes DEF Job
    <2>4. job' \in [Procs -> Job]
      <3> DEFINE start == [NoJob EXCEPT !.pair = pair, !.result = "recovered"]
      <3>1. start \in Job
        BY <2>3
      <3> HIDE DEF start
      <3>2. [start EXCEPT !.names = DestsOf(pair)] \in Job
        BY <2>2, <3>1, JobUpdates
      <3>3. [start EXCEPT !.todo = Backups(pair)] \in Job
        BY <2>2, <3>1, JobUpdates
      <3>4. \/ job' = [job EXCEPT ![q] = [start EXCEPT !.names = DestsOf(pair)]]
            \/ job' = [job EXCEPT ![q] = [start EXCEPT !.todo = Backups(pair)]]
        BY <2>1 DEF Recover, start
      <3> QED
        BY <3>2, <3>3, <3>4
    <2> QED
      BY <2>1, <2>4 DEF Recover, Labels
  <1>3. CASE \E n \in Names : BeginSet(q, n)
    <2>1. PICK n \in Names : BeginSet(q, n)
      BY <1>3
    <2>2. CASE ToCleanup(q, "error") /\ UNCHANGED <<journal, lock>>
      BY <2>1, <2>2, ToCleanupTypes DEF BeginSet
    <2>3. CASE /\ lock' = [lock EXCEPT ![n] = q]
               /\ journal' = [journal EXCEPT ![n] = FreshJournal]
               /\ \/ Goto(q, "identity") /\ job' = [job EXCEPT ![q].names = Dests(q)]
                  \/ job' = [job EXCEPT ![q].names = @ \ {n}] /\ UNCHANGED pc
      <3>1. job[q].names \ {n} \in SUBSET Names
        BY <1>t DEF Job
      <3>2. job' \in [Procs -> Job]
        <4>1. [job[q] EXCEPT !.names = Dests(q)] \in Job
          BY <1>t, <1>d, JobUpdates
        <4>2. [job[q] EXCEPT !.names = @ \ {n}] \in Job
          BY <1>t, <3>1, JobUpdates
        <4> QED
          BY <2>3, <4>1, <4>2
      <3>3. journal' \in [Names -> Journal]
        BY <2>3, BlankTypes
      <3> QED
        BY <2>1, <2>3, <3>2, <3>3 DEF BeginSet, Labels
    <2> QED
      BY <2>1, <2>2, <2>3 DEF BeginSet
  <1>4. CASE \E n \in Names : CreateIdentity(q, n)
    <2>1. PICK n \in Names : CreateIdentity(q, n)
      BY <1>4
    <2>2. [journal[n] EXCEPT !.id = "partial"] \in Journal
      BY JournalUpdates
    <2>3. journal' \in [Names -> Journal]
      BY <2>1, <2>2 DEF CreateIdentity
    <2> QED
      BY <2>1, <2>3 DEF CreateIdentity, Labels
  <1>5. CASE \E n \in Names : FillIdentity(q, n)
    <2>1. PICK n \in Names : FillIdentity(q, n)
      BY <1>5
    <2>2. Dests(q) \X (1..job[q].count) \in SUBSET Items
      <3>1. 1..job[q].count \subseteq Segs
        BY <1>t, PublicationAssumption DEF Segs, Job
      <3> QED
        BY <1>d, <3>1 DEF Items
    <2>3. job[q].pair \in Pairs /\ job[q].names \ {n} \in SUBSET Names
      BY <1>t DEF Job
    <2>4. journal' \in [Names -> Journal]
      BY <2>1, <2>3, JournalUpdates DEF FillIdentity
    <2>5. job' \in [Procs -> Job]
      <3>1. [job[q] EXCEPT !.names = {}, !.todo = Dests(q) \X (1..job[q].count)] \in Job
        BY <1>t, <2>2, JobUpdates
      <3>2. [job[q] EXCEPT !.names = @ \ {n}] \in Job
        BY <1>t, <2>3, JobUpdates
      <3> QED
        BY <2>1, <3>1, <3>2 DEF FillIdentity
    <2> QED
      BY <2>1, <2>4, <2>5 DEF FillIdentity, Labels
  <1>x. ASSUME NEW x \in Items
        PROVE  /\ x[1] \in Names /\ x[2] \in Segs
               /\ job[q].todo \ {x} \in SUBSET Items
               /\ journal[x[1]] \in Journal
               /\ journal[x[1]].new \in SUBSET Segs
               /\ journal[x[1]].backup \in [Segs -> Contents \cup {NoBackup}]
    BY <1>t DEF Items, Job, Journal
  <1>6. CASE \E x \in Items : Stage(q, x)
    <2>1. PICK x \in Items : Stage(q, x)
      BY <1>6
    <2>2. journal' \in [Names -> Journal]
      <3>1. journal[x[1]].new \cup {x[2]} \in SUBSET Segs
        BY <1>x
      <3> QED
        BY <2>1, <1>x, <3>1, JournalUpdates DEF Stage
    <2>3. job' \in [Procs -> Job]
      BY <2>1, <1>x, <1>t, JobUpdates DEF Stage
    <2> QED
      BY <2>1, <2>2, <2>3 DEF Stage
  <1>7. CASE \E x \in Items : Prepare(q, x)
    <2>1. PICK x \in Items : Prepare(q, x)
      BY <1>7
    <2>2. CASE ToCleanup(q, "error") /\ UNCHANGED journal
      BY <2>1, <2>2, ToCleanupTypes DEF Prepare
    <2>3. CASE /\ journal' = [journal EXCEPT ![x[1]].backup[x[2]] = disk[x[1]][x[2]]]
               /\ job' = [job EXCEPT ![q].todo = @ \ {x}]
               /\ Goto(q, "ready") \/ UNCHANGED pc
      <3>1. [journal[x[1]].backup EXCEPT ![x[2]] = disk[x[1]][x[2]]]
               \in [Segs -> Contents \cup {NoBackup}]
        BY <1>x
      <3>2. journal' \in [Names -> Journal]
        BY <2>3, <1>x, <3>1, JournalUpdates
      <3>3. job' \in [Procs -> Job]
        BY <2>3, <1>x, <1>t, JobUpdates
      <3> QED
        BY <2>1, <2>3, <3>2, <3>3 DEF Prepare, Labels
    <2> QED
      BY <2>1, <2>2, <2>3 DEF Prepare
  <1>8. CASE \E x \in Items : Install(q, x)
    <2>1. PICK x \in Items : Install(q, x)
      BY <1>8
    <2>2. journal' \in [Names -> Journal]
      <3>1. journal[x[1]].new \ {x[2]} \in SUBSET Segs
        BY <1>x
      <3> QED
        BY <2>1, <1>x, <3>1, JournalUpdates DEF Install
    <2>3. job' \in [Procs -> Job]
      BY <2>1, <1>x, <1>t, JobUpdates DEF Install
    <2>4. disk' \in [Names -> [Segs -> Contents]]
      BY <2>1, <1>x, <1>t DEF Install, Job, Contents
    <2> QED
      BY <2>1, <2>2, <2>3, <2>4 DEF Install, Labels
  <1>9. CASE \E x \in Items : Rollback(q, x)
    <2>1. PICK x \in Items : Rollback(q, x)
      BY <1>9
    <2>2. journal[x[1]].backup[x[2]] \in Contents
      BY <2>1, <1>x DEF Rollback, NextUndo, Undoable
    <2>3. disk' \in [Names -> [Segs -> Contents]]
      BY <2>1, <2>2, <1>x DEF Rollback
    <2>4. job' \in [Procs -> Job]
      BY <2>1, <1>x, <1>t, JobUpdates DEF Rollback
    <2> QED
      BY <2>1, <2>3, <2>4 DEF Rollback
  <1>10. CASE Publish(q)
    <2>1. Destinations(q) \in SUBSET Items
      BY <1>d DEF Destinations, Items
    <2>2. job' \in [Procs -> Job]
      BY <1>10, <1>t, <2>1, JobUpdates DEF Publish
    <2> QED
      BY <1>10, <2>2 DEF Publish, Labels
  <1>m. ASSUME NEW mark \in Marks,
               journal' = [journal EXCEPT ![Prim(q)].marks = @ \cup {mark}]
        PROVE  journal' \in [Names -> Journal]
    <2>1. journal[Prim(q)] \in Journal
      BY <1>d
    <2>2. journal[Prim(q)].marks \cup {mark} \in SUBSET Marks
      BY <2>1, <1>m DEF Journal
    <2> QED
      BY <1>m, <1>d, <2>1, <2>2, JournalUpdates
  <1>11. CASE WriteReady(q)
    <2>1. journal' \in [Names -> Journal]
      BY <1>11, <1>m DEF WriteReady, Marks
    <2>2. CASE ToCleanup(q, "error")
      BY <1>11, <2>1, <2>2, ToCleanupTypes DEF WriteReady
    <2>3. CASE Goto(q, "install") /\ job' = [job EXCEPT ![q].todo = job[q].dest]
      <3>1. job[q].dest \in SUBSET Items
        BY <1>t DEF Job
      <3>2. job' \in [Procs -> Job]
        BY <2>3, <1>t, <3>1, JobUpdates
      <3> QED
        BY <1>11, <2>1, <2>3, <3>2 DEF WriteReady, Labels
    <2> QED
      BY <1>11, <2>2, <2>3 DEF WriteReady
  <1>12. CASE WriteCommitted(q)
    <2>1. journal' \in [Names -> Journal]
      BY <1>12, <1>m DEF WriteCommitted, Marks
    <2> QED
      BY <1>12, <2>1, ToCleanupTypes, ReturnTypes DEF WriteCommitted
  <1>13. CASE WriteRolledBack(q)
    <2>1. journal' \in [Names -> Journal]
      BY <1>13, <1>m DEF WriteRolledBack, Marks
    <2>2. job[q].result \in {"published", "recovered", "error"}
      BY <1>t DEF Job
    <2> QED
      BY <1>13, <2>1, <2>2, ToCleanupTypes, ReturnTypes DEF WriteRolledBack
  <1>14. CASE \E n \in Names : Cleanup(q, n)
    <2>1. PICK n \in Names : Cleanup(q, n)
      BY <1>14
    <2>2. journal' \in [Names -> Journal]
      BY <2>1, BlankTypes DEF Cleanup
    <2>3. CASE Return(q)
      BY <2>1, <2>2, <2>3, ReturnTypes DEF Cleanup
    <2>4. CASE job' = [job EXCEPT ![q].names = @ \ {n}] /\ UNCHANGED <<pc, lock>>
      <3>1. job[q].names \ {n} \in SUBSET Names
        BY <1>t DEF Job
      <3>2. job' \in [Procs -> Job]
        BY <2>4, <3>1, <1>t, JobUpdates
      <3> QED
        BY <2>1, <2>2, <2>4, <3>2 DEF Cleanup
    <2> QED
      BY <2>1, <2>3, <2>4 DEF Cleanup
  <1>15. CASE CleanedUp(q) \/ Leave(q) \/ Crash(q)
    BY <1>15, ReturnTypes DEF CleanedUp, Leave, Crash
  <1>16. CASE InstallFault(q)
    <2>1. Backups(job[q].pair) \in SUBSET Items
      BY <1>t, DestsAreNames DEF Backups, Items, Job
    <2>2. job' \in [Procs -> Job]
      BY <1>16, <1>t, <2>1, JobUpdates DEF InstallFault, ToRollback
    <2> QED
      BY <1>16, <2>2 DEF InstallFault, ToRollback, Labels
  <1>17. CASE Abandon(q)
    BY <1>17, ToCleanupTypes DEF Abandon
  <1> QED
    BY <1>1, <1>2, <1>3, <1>4, <1>5, <1>6, <1>7, <1>8, <1>9, <1>10, <1>11,
       <1>12, <1>13, <1>14, <1>15, <1>16, <1>17 DEF Step, Work

----------------------------------------------------------------------------

\* The process that takes the step keeps its own part of the invariant.
LEMMA OwnStep ==
    ASSUME IInv, NEW q \in Procs, Step(q)
    PROVE  Holds(q)' /\ Undoable(q)' /\ Installed(q)'
  <1> USE DEF Goto
  <1>i. /\ TypeOK /\ Holds(q) /\ Undoable(q) /\ Installed(q)
        /\ pc[q] \in Labels /\ job[q] \in Job
    BY DEF IInv, TInv, LocksHeld, TypeOK
  <1>d. Dests(q) \subseteq Names /\ Prim(q) \in Dests(q)
    BY <1>i, DestsAreNames DEF Job, Dests, Prim, DestsOf
  \* An operation that returns claims nothing.
  <1>r. ASSUME Return(q)
        PROVE  Holds(q)' /\ Undoable(q)' /\ Installed(q)'
    BY <1>r, <1>i DEF Return, Holds, Undoable, Installed, TypeOK, NoJob, Holding
  \* cleanup() starts with the sets the operation holds.
  <1>c. ASSUME NEW r, ToCleanup(q, r), r # "published", UNCHANGED lock
        PROVE  Holds(q)' /\ Undoable(q)' /\ Installed(q)'
    BY <1>c, <1>i DEF ToCleanup, Sets, Holds, Undoable, Installed, TypeOK, Job, Holding
  <1>1. CASE \E pair \in Targets, img \in Images, count \in Segs, replace \in BOOLEAN :
                Begin(q, pair, img, count, replace)
    BY <1>1, <1>i DEF Begin, Holds, Undoable, Installed, TypeOK, Dests, NoJob, Holding
  <1>2. CASE \E pair \in Pairs : Recover(q, pair)
    <2>1. PICK pair \in Pairs : Recover(q, pair)
      BY <1>2
    <2>2. /\ job'[q].pair = pair
          /\ job'[q].result = "recovered"
          /\ \A n \in DestsOf(pair) : lock'[n] = q
      BY <2>1, <1>i, DestsAreNames DEF Recover, NoJob, TypeOK
    <2>3. \/ pc'[q] = "cleanup" /\ job'[q].names = DestsOf(pair)
          \/ pc'[q] = "rollback" /\ job'[q].todo = Backups(pair)
      BY <2>1, <1>i DEF Recover, NoJob, TypeOK
    <2>4. journal' = journal
      BY <2>1 DEF Recover
    <2>5. Holds(q)'
      BY <2>2, <2>3 DEF Holds, Dests, Backups, Holding
    <2>6. Undoable(q)'
      BY <2>3, <2>4 DEF Undoable, Backups
    <2>7. Installed(q)'
      BY <2>2, <2>3 DEF Installed
    <2> QED
      BY <2>5, <2>6, <2>7
  <1>3. CASE \E n \in Names : BeginSet(q, n)
    <2>1. PICK n \in Names : BeginSet(q, n)
      BY <1>3
    <2>2. CASE ToCleanup(q, "error") /\ UNCHANGED <<journal, lock>>
      BY <2>2, <1>c
    <2>3. CASE /\ lock' = [lock EXCEPT ![n] = q]
               /\ \/ /\ job[q].names = {n}
                     /\ Goto(q, "identity") /\ job' = [job EXCEPT ![q].names = Dests(q)]
                  \/ job' = [job EXCEPT ![q].names = @ \ {n}] /\ UNCHANGED pc
      <3>1. /\ job'[q].pair = job[q].pair /\ job'[q].result = job[q].result
            /\ \A m \in Names : lock'[m] = IF m = n THEN q ELSE lock[m]
        BY <2>3, <1>i DEF TypeOK, Job
      <3>2. pc[q] = "begin" /\ n \in job[q].names
        BY <2>1 DEF BeginSet, NextName
      <3>3. \/ job[q].names = {n} /\ pc'[q] = "identity" /\ job'[q].names = Dests(q)
            \/ pc'[q] = "begin" /\ job'[q].names = job[q].names \ {n}
        BY <2>3, <3>2, <1>i DEF TypeOK, Job
      <3>4. Dests(q)' = Dests(q)
        BY <3>1 DEF Dests
      <3>5. Holds(q)'
        BY <3>1, <3>2, <3>3, <3>4, <1>i, <1>d DEF Holds, Holding
      <3> QED
        BY <3>1, <3>2, <3>3, <3>5, <1>i DEF Undoable, Installed
    <2> QED
      BY <2>1, <2>2, <2>3 DEF BeginSet
  <1>4. CASE \E n \in Names : CreateIdentity(q, n)
    BY <1>4, <1>i DEF CreateIdentity, Holds, Undoable, Installed, TypeOK, Dests, Holding
  <1>5. CASE \E n \in Names : FillIdentity(q, n)
    <2>1. PICK n \in Names : FillIdentity(q, n)
      BY <1>5
    <2>2. /\ job'[q].pair = job[q].pair /\ job'[q].result = job[q].result
          /\ lock' = lock
      BY <2>1, <1>i DEF FillIdentity, TypeOK, Job
    <2>3. \/ pc'[q] = "stage" /\ job'[q].todo = Dests(q) \X (1..job[q].count)
          \/ pc'[q] = "identity" /\ job'[q].names \subseteq job[q].names
      BY <2>1, <1>i DEF FillIdentity, TypeOK, Job
    <2>4. pc[q] = "fill" /\ Dests(q)' = Dests(q)
      BY <2>1, <2>2 DEF FillIdentity, Dests
    <2>5. 1..job[q].count \subseteq Segs
      BY <1>i, PublicationAssumption DEF Segs, Job
    <2>6. Holds(q)'
      BY <2>2, <2>3, <2>4, <2>5, <1>i DEF Holds, Holding
    <2> QED
      BY <2>2, <2>3, <2>4, <2>6, <1>i DEF Undoable, Installed
  <1>6. CASE \E x \in Items : Stage(q, x)
    BY <1>6, <1>i DEF Stage, Holds, Undoable, Installed, TypeOK, Dests, Holding, Job
  <1>7. CASE \E x \in Items : Prepare(q, x)
    <2>1. PICK x \in Items : Prepare(q, x)
      BY <1>7
    <2>2. CASE ToCleanup(q, "error")
      BY <2>1, <2>2, <1>c DEF Prepare
    <2>3. CASE job' = [job EXCEPT ![q].todo = @ \ {x}] /\ (Goto(q, "ready") \/ UNCHANGED pc)
      <3>1. pc[q] = "prepare" /\ pc'[q] \in {"prepare", "ready"} /\ UNCHANGED <<disk, lock>>
        BY <2>1, <2>3, <1>i DEF Prepare, TypeOK
      <3>2. job'[q] = [job[q] EXCEPT !.todo = @ \ {x}]
        BY <2>3, <1>i DEF TypeOK
      <3>3. Dests(q)' = Dests(q) /\ \A s \in Segs : Want(q, s)' = Want(q, s)
        BY <3>2, <1>i DEF Dests, Want, Job
      <3> QED
        BY <3>1, <3>2, <3>3, <1>i DEF Holds, Undoable, Installed, Holding, Job
    <2> QED
      BY <2>1, <2>2, <2>3 DEF Prepare
  <1>8. CASE \E x \in Items : Install(q, x)
    BY <1>8, <1>i DEF Install, NextItem, Items, Holds, Undoable, Installed, Want, TypeOK, Dests, Holding, Job
  <1>9. CASE \E x \in Items : Rollback(q, x)
    BY <1>9, <1>i DEF Rollback, Holds, Undoable, Installed, TypeOK, Dests, Holding, Job
  <1>10. CASE Publish(q)
    BY <1>10, <1>i DEF Publish, Destinations, Holds, Undoable, Installed, Want, TypeOK, Dests, Holding, Job
  <1>11. CASE WriteReady(q)
    BY <1>11, <1>c, <1>i DEF WriteReady, Holds, Undoable, Installed, Want, TypeOK, Dests, Holding, Job
  <1>12. CASE WriteCommitted(q)
    <2>1. pc[q] = "commit" /\ UNCHANGED disk
      BY <1>12 DEF WriteCommitted
    <2>2. CASE ToCleanup(q, "published") /\ UNCHANGED lock
      <3>1. /\ pc'[q] = "cleanup"
            /\ job'[q] = [job[q] EXCEPT !.names = Sets(q), !.result = "published"]
        BY <2>2, <1>i DEF ToCleanup, TypeOK
      <3>2. /\ job'[q].img = job[q].img /\ job'[q].count = job[q].count
            /\ job'[q].names = Sets(q) /\ Dests(q)' = Dests(q)
        BY <3>1, <1>i DEF Job, Dests
      <3>3. \A n \in Dests(q) : disk[n] = Whole(job[q].img, job[q].count)
        <4>1. \A n \in Dests(q), s \in Segs : disk[n][s] = Want(q, s)
          BY <2>1, <1>i DEF Installed
        <4>2. \A n \in Dests(q) : disk[n] = [s \in Segs |-> disk[n][s]]
          BY <1>i, <1>d DEF TypeOK
        <4> QED
          BY <4>1, <4>2 DEF Whole, Want
      <3>4. Holds(q)'
        BY <2>2, <3>1, <3>2 DEF Holds, Sets, Holding
      <3>5. Installed(q)'
        BY <2>1, <2>2, <3>1, <3>2, <3>3, <1>i DEF Installed, Holds, Holding, Whole
      <3> QED
        BY <3>1, <3>4, <3>5 DEF Undoable
    <2> QED
      BY <1>12, <1>r, <2>2 DEF WriteCommitted
  <1>13. CASE WriteRolledBack(q)
    BY <1>13, <1>r, <1>c, <1>i DEF WriteRolledBack, Installed
  <1>14. CASE \E n \in Names : Cleanup(q, n)
    <2>1. PICK n \in Names : Cleanup(q, n)
      BY <1>14
    <2>2. CASE job' = [job EXCEPT ![q].names = @ \ {n}] /\ UNCHANGED <<pc, lock>>
      <3>1. job'[q] = [job[q] EXCEPT !.names = @ \ {n}]
        BY <2>2, <1>i DEF TypeOK
      <3>2. /\ job'[q].img = job[q].img /\ job'[q].count = job[q].count
            /\ job'[q].result = job[q].result /\ Dests(q)' = Dests(q)
            /\ job'[q].names \subseteq job[q].names
        BY <3>1, <1>i DEF Job, Dests
      <3>3. pc[q] = "cleanup" /\ UNCHANGED <<disk, pc, lock>>
        BY <2>1, <2>2 DEF Cleanup
      <3>4. Holds(q)'
        BY <3>2, <3>3, <1>i DEF Holds, Holding
      <3>5. Installed(q)'
        BY <3>2, <3>3, <1>i DEF Installed, Whole
      <3> QED
        BY <3>3, <3>4, <3>5 DEF Undoable
    <2> QED
      BY <2>1, <2>2, <1>r DEF Cleanup
  <1>15. CASE CleanedUp(q) \/ Leave(q) \/ Crash(q)
    BY <1>15, <1>r DEF CleanedUp, Leave, Crash
  <1>16. CASE InstallFault(q)
    BY <1>16, <1>i DEF InstallFault, ToRollback, Backups, Holds, Undoable, Installed, TypeOK, Dests, Holding, Job
  <1>17. CASE Abandon(q)
    BY <1>17, <1>c DEF Abandon
  <1> QED
    BY <1>1, <1>2, <1>3, <1>4, <1>5, <1>6, <1>7, <1>8, <1>9, <1>10, <1>11,
       <1>12, <1>13, <1>14, <1>15, <1>16, <1>17 DEF Step, Work

\* The others keep theirs, by Frame.
LEMMA OtherStep ==
    ASSUME IInv, NEW q \in Procs, Step(q), NEW p \in Procs, p # q
    PROVE  Holds(p)' /\ Undoable(p)' /\ Installed(p)'
  <1>1. /\ pc'[p] = pc[p] /\ job'[p] = job[p]
        /\ \A n \in Names : lock[n] = p =>
              lock'[n] = p /\ disk'[n] = disk[n] /\ journal'[n] = journal[n]
    BY Frame DEF IInv
  <1>2. TypeOK /\ Holds(p) /\ Undoable(p) /\ Installed(p) /\ job[p] \in Job
    BY DEF IInv, TInv, LocksHeld, TypeOK
  <1>3. Dests(p) \subseteq Names
    BY <1>2, DestsAreNames DEF Job, Dests
  <1>4. Holds(p)'
    BY <1>1, <1>2, <1>3 DEF Holds, Dests, Holding, Job
  <1>5. Undoable(p)'
    BY <1>1, <1>2, <1>3 DEF Undoable, Holds, Dests, Holding, Job, Items
  <1>6. Installed(p)'
    BY <1>1, <1>2, <1>3 DEF Installed, Holds, Want, Dests, Holding
  <1> QED
    BY <1>4, <1>5, <1>6

LEMMA InitIInv == Init => IInv
  <1> SUFFICES ASSUME Init PROVE IInv
    OBVIOUS
  <1>1. TypeOK
    <2>1. Complete \subseteq [Segs -> Contents]
      BY DEF Complete, Whole, NoFiles, Contents
    <2> QED
      BY <2>1, BlankTypes DEF Init, TypeOK, Labels
  <1>2. \A p \in Procs : Holds(p) /\ Undoable(p) /\ Installed(p)
    BY DEF Init, Holds, Undoable, Installed, Holding, NoJob
  <1> QED
    BY <1>1, <1>2 DEF IInv, TInv, LocksHeld

LEMMA NextIInv == IInv /\ [Next]_vars => IInv'
  <1> SUFFICES ASSUME IInv, [Next]_vars PROVE IInv'
    OBVIOUS
  <1>1. CASE UNCHANGED vars
    BY <1>1 DEF vars, IInv, TInv, TypeOK, LocksHeld, Holds, Undoable, Installed,
                Want, Dests, Prim
  <1>2. CASE Next
    <2>1. PICK q \in Procs : Step(q)
      BY <1>2 DEF Next
    <2>2. TypeOK'
      BY <2>1, TypesKept DEF IInv
    <2>3. ASSUME NEW p \in Procs
          PROVE  Holds(p)' /\ Undoable(p)' /\ Installed(p)'
      BY <2>1, <2>3, OwnStep, OtherStep
    <2> QED
      BY <2>2, <2>3 DEF IInv, TInv, LocksHeld
  <1> QED
    BY <1>1, <1>2

LEMMA Invariance == Spec => []IInv
  BY InitIInv, NextIInv, PTL DEF Spec

----------------------------------------------------------------------------

\* Every state of publication.rs is well formed, whatever is interrupted:
\* above all, rollback() only ever copies real entries of the journal.
THEOREM TypeCorrect == Spec => []TypeOK
  <1>1. IInv => TypeOK
    BY DEF IInv, TInv
  <1> QED
    BY <1>1, Invariance, PTL

\* publish() reports success, to any number of processes that share the
\* outputs and crash at will, only when the set and its mirror hold exactly
\* the new image.
THEOREM CommittedCorrect == Spec => []CommittedOutputComplete
  <1>1. IInv => CommittedOutputComplete
    BY DEF IInv, Installed, CommittedOutputComplete
  <1> QED
    BY <1>1, Invariance, PTL

\* The locks exclude: no two processes are ever at work on the same set.
Exclusive ==
    \A p, q \in Procs : (p # q /\ pc[p] \in Holding /\ pc[q] \in Holding)
        => Dests(p) \cap Dests(q) = {}

\* Set::lock keeps two publications, or a publication and a recovery, off the
\* journal and the files of one set.
THEOREM LockCorrect == Spec => []Exclusive
  <1>1. IInv => Exclusive
    BY DEF IInv, TInv, LocksHeld, Holds, Exclusive
  <1> QED
    BY <1>1, Invariance, PTL

----------------------------------------------------------------------------
(***************************************************************************)
(* The second part: a reader finds whole images,                           *)
(* what was changed can be restored, and the protocol implements           *)
(* OutputSets, all at once or not at all.                                  *)
(*                                                                         *)
(* What recovery yields for a set depends on journals that a process left  *)
(* long ago: the invariant JInv speaks of every journal (Coherent) as well *)
(* as of the process at work on it (Keeps, Prepares, Changes, Retires).    *)
(* From it, one lemma each says that no step but the marker `committed'    *)
(* changes what recovery yields, and what that one changes.                *)
(***************************************************************************)

Sealed(n, pair) == journal[n].id = "full" /\ journal[n].pair = pair
Undecided(n) == Ready(n) /\ ~Decided(n)
Untouched(n) == \A s \in Segs : journal[n].backup[s] \in {NoBackup, disk[n][s]}

\* The journal of a mirror never outlives that of its primary, which alone has
\* marks; and a primary whose mirror has lost its journal undecided is one
\* whose files no publication has changed.
Coherent(n) ==
    LET pair == journal[n].pair
    IN  /\ journal[n].id = "full" =>
              journal[n].exists /\ n \in DestsOf(pair) /\ Sealed(pair[1], pair)
        /\ journal[n].marks # {} => journal[n].id = "full" /\ pair[1] = n
        /\ Undecided(n) => Untouched(n) \/ \A m \in DestsOf(pair) : Sealed(m, pair)

\* A process holds no locks but of its own sets, the primary's first, and the
\* journals there are of its own publication.
Keeps(p) ==
    \A n \in Names : lock[n] = p =>
        /\ pc[p] # "idle"
        /\ n \in Dests(p) /\ lock[Prim(p)] = p
        /\ journal[n].id = "full" => journal[n].pair = job[p].pair

\* Before the marker `ready' no file is changed.
Preparing == {"begin", "identity", "fill", "stage", "prepare", "ready"}
Prepares(p) ==
    /\ pc[p] \in Preparing =>
          \A n \in Names : lock[n] = p =>
              journal[n].exists /\ Untouched(n) /\ journal[n].marks = {}
    /\ pc[p] = "begin" => \A n \in Names : lock[n] = p => journal[n].id # "full"
    /\ pc[p] \in {"identity", "fill"} =>
          /\ \A n \in job[p].names : journal[n].id # "full"
          /\ \A n \in Dests(p) \ job[p].names : Sealed(n, job[p].pair)
    /\ pc[p] \in {"prepare", "ready"} =>
          \A x \in job[p].dest : (pc[p] = "prepare" => x \notin job[p].todo)
              => journal[x[1]].backup[x[2]] # NoBackup

\* After it, what is still to install is backed up, and what is no longer to
\* restore is as it was.
Changes(p) ==
    /\ pc[p] \in {"stage", "prepare", "ready", "install", "commit", "rollback"} =>
          \A n \in Dests(p) : Sealed(n, job[p].pair)
    /\ pc[p] \in {"install", "commit", "rollback"} => Undecided(Prim(p))
    /\ pc[p] = "install" =>
          \A x \in job[p].todo : journal[x[1]].backup[x[2]] # NoBackup
    /\ pc[p] = "rollback" =>
          \A n \in Dests(p), s \in Segs : <<n, s>> \notin job[p].todo
              => journal[n].backup[s] \in {NoBackup, disk[n][s]}

\* cleanup() retires the primary last, and what it retires undecided is
\* unchanged.
Retires(p) ==
    (pc[p] = "cleanup" /\ job[p].names # {}) =>
        /\ Prim(p) \in job[p].names
        /\ \A n \in Names : Sealed(n, job[p].pair) => n \in job[p].names
        /\ Undecided(Prim(p)) => \A n \in job[p].names : Untouched(n)

\* The inductive invariant.
JInv == /\ IInv
        /\ \A n \in Names : Coherent(n)
        /\ \A p \in Procs : Keeps(p) /\ Prepares(p) /\ Changes(p) /\ Retires(p)

\* The part of a process.
Own(p) == Keeps(p) /\ Prepares(p) /\ Changes(p) /\ Retires(p)

\* The updates that the actions make to the journal of set n.
SetNew(n, S) == journal' = [journal EXCEPT ![n].new = S]
SetMarks(n, S) == journal' = [journal EXCEPT ![n].marks = S]
SetBackup(n, s, c) == journal' = [journal EXCEPT ![n].backup[s] = c]
SetId(n, e) == journal' = [journal EXCEPT ![n].id = e]
SetPair(n, pair) == journal' = [journal EXCEPT ![n].id = "full", ![n].pair = pair]

\* What they leave alone.
SameExists == \A m \in Names : journal'[m].exists = journal[m].exists
SameId == \A m \in Names : journal'[m].id = journal[m].id
SamePair == \A m \in Names : journal'[m].pair = journal[m].pair
SameBackup == \A m \in Names : journal'[m].backup = journal[m].backup
SameMarks == \A m \in Names : journal'[m].marks = journal[m].marks

LEMMA JournalFields ==
    ASSUME TypeOK
    PROVE  /\ \A n \in Names : \A S : SetNew(n, S) =>
                 SameExists /\ SameId /\ SamePair /\ SameBackup /\ SameMarks
           /\ \A n \in Names : \A S : SetMarks(n, S) =>
                 /\ SameExists /\ SameId /\ SamePair /\ SameBackup
                 /\ \A m \in Names : journal'[m].marks = IF m = n THEN S ELSE journal[m].marks
           /\ \A n \in Names, s \in Segs : \A c : SetBackup(n, s, c) =>
                 /\ SameExists /\ SameId /\ SamePair /\ SameMarks
                 /\ \A m \in Names, r \in Segs : journal'[m].backup[r] =
                       IF m = n /\ r = s THEN c ELSE journal[m].backup[r]
           /\ \A n \in Names : \A e : SetId(n, e) =>
                 /\ SameExists /\ SamePair /\ SameBackup /\ SameMarks
                 /\ \A m \in Names : journal'[m].id = IF m = n THEN e ELSE journal[m].id
           /\ \A n \in Names : \A r : SetPair(n, r) =>
                 /\ SameExists /\ SameBackup /\ SameMarks
                 /\ \A m \in Names : /\ journal'[m].id = IF m = n THEN "full" ELSE journal[m].id
                                     /\ journal'[m].pair = IF m = n THEN r ELSE journal[m].pair
  <1> USE DEF TypeOK, Journal, SameExists, SameId, SamePair, SameBackup, SameMarks
  <1>1. ASSUME NEW n \in Names, NEW S, SetNew(n, S)
        PROVE  SameExists /\ SameId /\ SamePair /\ SameBackup /\ SameMarks
    BY <1>1 DEF SetNew
  <1>2. ASSUME NEW n \in Names, NEW S, SetMarks(n, S)
        PROVE  /\ SameExists /\ SameId /\ SamePair /\ SameBackup
               /\ \A m \in Names : journal'[m].marks = IF m = n THEN S ELSE journal[m].marks
    BY <1>2 DEF SetMarks
  <1>3. ASSUME NEW n \in Names, NEW s \in Segs, NEW c, SetBackup(n, s, c)
        PROVE  /\ SameExists /\ SameId /\ SamePair /\ SameMarks
               /\ \A m \in Names, r \in Segs : journal'[m].backup[r] =
                       IF m = n /\ r = s THEN c ELSE journal[m].backup[r]
    BY <1>3 DEF SetBackup
  <1>4. ASSUME NEW n \in Names, NEW e, SetId(n, e)
        PROVE  /\ SameExists /\ SamePair /\ SameBackup /\ SameMarks
               /\ \A m \in Names : journal'[m].id = IF m = n THEN e ELSE journal[m].id
    BY <1>4 DEF SetId
  <1>5. ASSUME NEW n \in Names, NEW r, SetPair(n, r)
        PROVE  /\ SameExists /\ SameBackup /\ SameMarks
               /\ \A m \in Names : /\ journal'[m].id = IF m = n THEN "full" ELSE journal[m].id
                                   /\ journal'[m].pair = IF m = n THEN r ELSE journal[m].pair
    BY <1>5 DEF SetPair
  <1> QED
    BY ONLY <1>1, <1>2, <1>3, <1>4, <1>5

\* What a process locks in a step was free, and it is the only one to make a
\* journal of its publication.
LEMMA FrameJournals ==
    ASSUME JInv, NEW q \in Procs, Step(q), NEW p \in Procs, p # q
    PROVE  /\ \A n \in Names : lock'[n] = p <=> lock[n] = p
           /\ lock[Prim(p)] = p =>
                 \A n \in Names : Sealed(n, job[p].pair)' => Sealed(n, job[p].pair)
  <1> USE DEF JInv, IInv, TInv, TypeOK, Goto
  <1>h. Holds(q) /\ p # NoProc
    BY PublicationAssumption DEF LocksHeld
  <1>d. job[q].pair \in Pairs /\ Dests(q) \subseteq Names /\ Prim(q) \in Dests(q)
    BY DestsAreNames DEF Job, Dests, Prim, DestsOf
  <1>f. pc'[p] = pc[p] /\ job'[p] = job[p]
    BY Frame
  <1>1. CASE UNCHANGED journal /\ \A n \in Names : lock'[n] = p <=> lock[n] = p
    BY <1>1, <1>f DEF Sealed
  <1>2. ASSUME Return(q) PROVE \A n \in Names : lock'[n] = p <=> lock[n] = p
    BY <1>2, <1>h DEF Return
  <1>3. CASE \/ \E pair \in Targets, img \in Images, count \in Segs, replace \in BOOLEAN :
                   Begin(q, pair, img, count, replace)
             \/ InstallFault(q) \/ Abandon(q) \/ Publish(q)
    BY <1>1, <1>3 DEF Begin, InstallFault, Abandon, Publish
  <1>4. CASE CleanedUp(q) \/ Leave(q) \/ Crash(q)
    BY <1>1, <1>2, <1>4 DEF CleanedUp, Leave, Crash
  <1>5. CASE \E pair \in Pairs : Recover(q, pair)
    <2>1. PICK pair \in Pairs : Recover(q, pair)
      BY <1>5
    <2>2. \A n \in Names : lock'[n] = p <=> lock[n] = p
      BY <2>1, <1>h DEF Recover, LocksFree
    <2> QED
      BY <2>1, <2>2, <1>1 DEF Recover
  <1>6. CASE \E n \in Names : BeginSet(q, n)
    <2>1. PICK n \in Names : BeginSet(q, n)
      BY <1>6
    <2>2. \A m \in Names : lock'[m] = p <=> lock[m] = p
      BY <2>1, <1>h DEF BeginSet, ToCleanup
    <2>3. \A m \in Names : Sealed(m, job[p].pair)' => Sealed(m, job[p].pair)
      BY ZenonT(30), <2>1, <1>f, BlankTypes DEF BeginSet, Sealed, FreshJournal, NoJournal
    <2> QED
      BY <2>2, <2>3
  <1>7. CASE \E n \in Names : CreateIdentity(q, n)
    <2>1. PICK n \in Names : CreateIdentity(q, n)
      BY <1>7
    <2>2. lock' = lock
      BY <2>1 DEF CreateIdentity
    <2>3. \A m \in Names : Sealed(m, job[p].pair)' => Sealed(m, job[p].pair)
      BY <2>1, <1>f DEF CreateIdentity, Sealed, Journal
    <2> QED
      BY <2>2, <2>3
  <1>8. CASE \E n \in Names : FillIdentity(q, n)
    <2>1. PICK n \in Names : FillIdentity(q, n)
      BY <1>8
    <2>2. lock' = lock /\ pc[q] = "fill"
      BY <2>1 DEF FillIdentity
    <2>3. lock[Prim(q)] = q
      BY <2>2, <1>h, <1>d DEF Holds, Holding
    <2>4. \A m \in Names \ {n} : journal'[m] = journal[m]
      BY <2>1 DEF FillIdentity
    <2>5. journal'[n].pair = job[q].pair
      BY <2>1 DEF FillIdentity, Journal
    <2>6. lock[Prim(p)] = p => job[p].pair # job[q].pair
      BY <2>3 DEF Prim
    <2> QED
      BY <2>2, <2>4, <2>5, <2>6, <1>f DEF Sealed
  <1>9. CASE \E x \in Items : Stage(q, x) \/ Prepare(q, x) \/ Install(q, x) \/ Rollback(q, x)
    <2>1. PICK x \in Items : Stage(q, x) \/ Prepare(q, x) \/ Install(q, x) \/ Rollback(q, x)
      BY <1>9
    <2>2. lock' = lock
      BY <2>1 DEF Stage, Prepare, Install, Rollback
    <2>3. \A m \in Names : journal'[m].id = journal[m].id /\ journal'[m].pair = journal[m].pair
      <3>1. x[1] \in Names /\ x[2] \in Segs
        BY DEF Items
      <3>2. CASE Stage(q, x) \/ Install(q, x)
        <4>1. \E S : SetNew(x[1], S)
          BY <3>2 DEF Stage, Install, SetNew
        <4> QED
          BY <3>1, <4>1, JournalFields DEF SameId, SamePair
      <3>3. CASE Prepare(q, x) \/ Rollback(q, x)
        <4>1. (\E c : SetBackup(x[1], x[2], c)) \/ journal' = journal
          BY <3>3 DEF Prepare, Rollback, SetBackup
        <4> QED
          BY <3>1, <4>1, JournalFields DEF SameId, SamePair
      <3> QED
        BY <2>1, <3>2, <3>3
    <2> QED
      BY <2>2, <2>3, <1>f DEF Sealed
  <1>10. CASE WriteReady(q) \/ WriteCommitted(q) \/ WriteRolledBack(q)
    <2>1. \A n \in Names : lock'[n] = p <=> lock[n] = p
      BY <1>2, <1>10 DEF WriteReady, WriteCommitted, WriteRolledBack
    <2>2. \A m \in Names : journal'[m].id = journal[m].id /\ journal'[m].pair = journal[m].pair
      <3>1. \E S : SetMarks(Prim(q), S)
        BY <1>10 DEF WriteReady, WriteCommitted, WriteRolledBack, SetMarks
      <3> QED
        BY <1>d, <3>1, JournalFields DEF SameId, SamePair
    <2> QED
      BY <2>1, <2>2, <1>f DEF Sealed
  <1>11. CASE \E n \in Names : Cleanup(q, n)
    <2>1. PICK n \in Names : Cleanup(q, n)
      BY <1>11
    <2>2. \A m \in Names : lock'[m] = p <=> lock[m] = p
      BY <2>1, <1>2 DEF Cleanup
    <2>3. \A m \in Names : Sealed(m, job[p].pair)' => Sealed(m, job[p].pair)
      BY <2>1, <1>f DEF Cleanup, Sealed, NoJournal
    <2> QED
      BY <2>2, <2>3
  <1> QED
    BY <1>3, <1>4, <1>5, <1>6, <1>7, <1>8, <1>9, <1>10, <1>11 DEF Step, Work

\* So the others keep their parts.
LEMMA OtherKeeps ==
    ASSUME JInv, NEW q \in Procs, Step(q), NEW p \in Procs, p # q
    PROVE  Own(p)'
  <1>1. /\ pc'[p] = pc[p] /\ job'[p] = job[p]
        /\ \A n \in Names : lock[n] = p =>
              lock'[n] = p /\ disk'[n] = disk[n] /\ journal'[n] = journal[n]
    BY Frame DEF JInv, IInv
  <1>2. \A n \in Names : lock'[n] = p <=> lock[n] = p
    BY FrameJournals
  <1>3. /\ TypeOK /\ Holds(p) /\ Keeps(p) /\ Prepares(p) /\ Changes(p) /\ Retires(p)
        /\ job[p] \in Job
    BY DEF JInv, IInv, TInv, LocksHeld, TypeOK
  <1>4. /\ Dests(p) \subseteq Names /\ Prim(p) \in Dests(p)
        /\ Dests(p)' = Dests(p) /\ Prim(p)' = Prim(p)
    BY <1>1, <1>3, DestsAreNames DEF Job, Dests, Prim, DestsOf
  <1>5. Keeps(p)'
    BY <1>1, <1>2, <1>3, <1>4 DEF Keeps
  <1>6. Prepares(p)'
    <2>1. \A n \in Names : lock[n] = p => (Untouched(n)' <=> Untouched(n))
      BY <1>1 DEF Untouched
    <2>2. pc[p] \in {"identity", "fill"} => /\ job[p].names \subseteq Dests(p)
                                            /\ \A n \in Dests(p) : lock[n] = p
      BY <1>3 DEF Holds, Holding
    <2>3. pc[p] \in {"prepare", "ready"} => /\ job[p].dest \subseteq Dests(p) \X Segs
                                            /\ \A n \in Dests(p) : lock[n] = p
      BY <1>3 DEF Holds, Holding
    <2>4. pc[p] \in Preparing =>
             \A n \in Names : lock'[n] = p =>
                 journal'[n].exists /\ Untouched(n)' /\ journal'[n].marks = {}
      BY <2>1, <1>1, <1>2, <1>3 DEF Prepares
    <2>5. pc[p] = "begin" => \A n \in Names : lock'[n] = p => journal'[n].id # "full"
      BY <1>1, <1>2, <1>3 DEF Prepares
    <2>6. pc[p] \in {"identity", "fill"} =>
             /\ \A n \in job[p].names : journal'[n].id # "full"
             /\ \A n \in Dests(p) \ job[p].names : Sealed(n, job[p].pair)'
      BY <2>2, <1>1, <1>3, <1>4 DEF Prepares, Sealed
    <2>7. pc[p] \in {"prepare", "ready"} =>
             \A x \in job[p].dest : (pc[p] = "prepare" => x \notin job[p].todo)
                => journal'[x[1]].backup[x[2]] # NoBackup
      BY <2>3, <1>1, <1>3, <1>4 DEF Prepares
    <2> QED
      BY <2>4, <2>5, <2>6, <2>7, <1>1, <1>4 DEF Prepares
  <1>7. Changes(p)'
    <2>1. pc[p] \in {"stage", "prepare", "ready", "install", "commit", "rollback"} =>
             \A n \in Dests(p) : journal'[n] = journal[n] /\ disk'[n] = disk[n]
      BY <1>1, <1>3, <1>4 DEF Holds, Holding
    <2>2. pc[p] = "install" => job[p].todo \subseteq Dests(p) \X Segs
      BY <1>3 DEF Holds
    <2> QED
      BY <2>1, <2>2, <1>1, <1>3, <1>4
         DEF Changes, Sealed, Undecided, Ready, Decided
  <1>8. Retires(p)'
    <2> SUFFICES ASSUME pc[p] = "cleanup", job[p].names # {}
                 PROVE  /\ Prim(p) \in job[p].names
                        /\ \A n \in Names : Sealed(n, job[p].pair)' => n \in job[p].names
                        /\ Undecided(Prim(p))' => \A n \in job[p].names : Untouched(n)'
      BY <1>1, <1>4 DEF Retires
    <2>1. \A n \in job[p].names : n \in Names /\ lock[n] = p
      BY <1>3 DEF Holds, Job
    <2>2. Prim(p) \in job[p].names
      BY <1>3 DEF Retires
    <2>3. \A n \in Names : Sealed(n, job[p].pair)' => n \in job[p].names
      BY <2>1, <2>2, <1>1, <1>3, FrameJournals DEF Retires
    <2>4. Undecided(Prim(p))' => \A n \in job[p].names : Untouched(n)'
      BY <2>1, <2>2, <1>1, <1>3, <1>4 DEF Retires, Undecided, Ready, Decided, Untouched
    <2> QED
      BY <2>2, <2>3, <2>4
  <1> QED
    BY <1>5, <1>6, <1>7, <1>8 DEF Own

\* The process that takes the step keeps its own.
LEMMA OwnKeeps ==
    ASSUME JInv, NEW q \in Procs, Step(q)
    PROVE  Own(q)'
  <1> USE DEF Goto
  <1>i. /\ TypeOK /\ TypeOK' /\ Holds(q) /\ Holds(q)'
        /\ Keeps(q) /\ Prepares(q) /\ Changes(q) /\ Retires(q)
        /\ pc[q] \in Labels /\ job[q] \in Job /\ q # NoProc
    BY TypesKept, OwnStep, PublicationAssumption DEF JInv, IInv, TInv, LocksHeld, TypeOK
  <1>t. TypeOK
    BY <1>i
  <1>j. \A n \in Names : Coherent(n)
    BY DEF JInv
  <1>d. Dests(q) \subseteq Names /\ Prim(q) \in Dests(q)
    BY <1>i, DestsAreNames DEF Job, Dests, Prim, DestsOf
  <1>x. ASSUME NEW x \in Items
        PROVE  x[1] \in Names /\ x[2] \in Segs /\ x = <<x[1], x[2]>>
    BY DEF Items
  \* An operation that returns claims nothing.
  <1>r. ASSUME Return(q)
        PROVE  Own(q)'
    <2>1. pc'[q] = "idle" /\ \A n \in Names : lock'[n] # q
      BY <1>r, <1>i DEF Return, TypeOK
    <2> QED
      BY <2>1 DEF Own, Keeps, Prepares, Changes, Retires, Preparing
  \* The pair of paths stays while the operation runs.
  <1>k. ASSUME job'[q].pair = job[q].pair, lock' = lock, pc'[q] # "idle",
               \A n \in Names : (lock[n] = q /\ journal'[n].id = "full")
                                   => journal'[n].pair = job[q].pair
        PROVE  Keeps(q)' /\ Dests(q)' = Dests(q) /\ Prim(q)' = Prim(q)
    <2>1. Dests(q)' = Dests(q) /\ Prim(q)' = Prim(q)
      BY <1>k DEF Dests, Prim
    <2> QED
      BY <2>1, <1>k, <1>i DEF Keeps
  \* A cleanup() before the files are changed.
  <1>c. ASSUME NEW r, ToCleanup(q, r), pc[q] \in Preparing,
               UNCHANGED <<disk, lock>>, SameId, SamePair, SameBackup
        PROVE  Own(q)'
    <2>1. /\ pc'[q] = "cleanup" /\ job'[q].pair = job[q].pair
          /\ job'[q].names = Sets(q)
      BY <1>c, <1>i DEF ToCleanup, TypeOK, Job
    <2>2. Keeps(q)' /\ Dests(q)' = Dests(q) /\ Prim(q)' = Prim(q)
      BY <2>1, <1>c, <1>k, <1>i DEF Keeps, SameId, SamePair
    <2>3. Sets(q) # {} => Prim(q) \in Sets(q)
      BY <1>i, <1>d DEF Keeps, Sets
    <2>4. \A n \in Names : (Sealed(n, job[q].pair) /\ Sets(q) # {}) => n \in Sets(q)
      <3> SUFFICES ASSUME NEW n \in Names, Sealed(n, job[q].pair), Sets(q) # {}
                   PROVE  lock[n] = q
        BY DEF Sets
      <3>1. n \in Dests(q) /\ Sealed(Prim(q), job[q].pair)
        BY <1>j DEF Coherent, Sealed, Dests, Prim
      <3>2. lock[Prim(q)] = q
        BY <2>3 DEF Sets
      <3>3. pc[q] # "begin"
        BY <3>1, <3>2, <1>i, <1>d DEF Prepares, Sealed
      <3> QED
        BY <3>1, <3>3, <1>c, <1>i DEF Holds, Holding, Preparing
    <2>5. \A n \in Sets(q) : Untouched(n)'
      BY <1>c, <1>i DEF Prepares, Sets, Untouched, SameBackup
    <2>6. Retires(q)'
      <3>1. \A n \in Names : Sealed(n, job[q].pair)' => Sealed(n, job[q].pair)
        BY <1>c, <2>1 DEF Sealed, SameId, SamePair
      <3> QED
        BY <3>1, <2>1, <2>2, <2>3, <2>4, <2>5 DEF Retires, Sealed
    <2> QED
      BY <2>1, <2>2, <2>6 DEF Own, Prepares, Changes, Preparing
  <1>1. CASE \E pair \in Targets, img \in Images, count \in Segs, replace \in BOOLEAN :
                Begin(q, pair, img, count, replace)
    <2>1. pc[q] = "idle" /\ pc'[q] = "begin" /\ lock' = lock
      BY <1>1, <1>i DEF Begin, TypeOK
    <2>2. \A n \in Names : lock'[n] # q
      BY <2>1, <1>i DEF Keeps
    <2> QED
      BY <2>1, <2>2 DEF Own, Keeps, Prepares, Changes, Retires
  <1>2. CASE \E pair \in Pairs : Recover(q, pair)
    <2>1. PICK pair \in Pairs : Recover(q, pair)
      BY <1>2
    <2>2. /\ pc[q] = "idle" /\ Accepts(pair)
          /\ UNCHANGED <<disk, journal>>
      BY <2>1 DEF Recover
    <2>3. /\ job'[q].pair = pair /\ Dests(q)' = DestsOf(pair) /\ Prim(q)' = pair[1]
          /\ \A n \in Names : lock'[n] = q <=> n \in DestsOf(pair)
      <3>1. job'[q].pair = pair
        BY <2>1, <1>t DEF Recover, NoJob, TypeOK
      <3>2. \A n \in Names : lock[n] # q
        BY <2>2, <1>i DEF Keeps
      <3> QED
        BY <2>1, <3>1, <3>2 DEF Recover, Dests, Prim
    <2>4. DestsOf(pair) \subseteq Names /\ pair[1] \in DestsOf(pair)
      BY DestsAreNames DEF DestsOf, Pairs
    <2>5. \A n \in DestsOf(pair) : journal[n].id = "full" => journal[n].pair = pair
      BY <2>2, <2>4, <1>j DEF Accepts, Skipped, Coherent
    <2>6. CASE /\ Decided(pair[1]) \/ ~Ready(pair[1])
               /\ pc'[q] = "cleanup" /\ job'[q].names = DestsOf(pair)
      <3>1. Keeps(q)'
        BY <2>2, <2>3, <2>4, <2>5, <2>6 DEF Keeps
      <3>2. \A n \in Names : Sealed(n, pair) => n \in DestsOf(pair)
        BY <1>j DEF Coherent, Sealed
      <3>3. ~Undecided(pair[1])
        BY <2>6 DEF Undecided
      <3>4. Retires(q)'
        BY <2>2, <2>3, <2>4, <2>6, <3>2, <3>3
           DEF Retires, Sealed, Undecided, Ready, Decided
      <3> QED
        BY <2>6, <3>1, <3>4 DEF Own, Prepares, Changes, Preparing
    <2>7. CASE /\ ~Decided(pair[1]) /\ Ready(pair[1])
               /\ pc'[q] = "rollback" /\ job'[q].todo = Backups(pair)
      <3>1. Keeps(q)'
        BY <2>2, <2>3, <2>4, <2>5, <2>7 DEF Keeps
      <3>2. \A n \in DestsOf(pair) : Sealed(n, pair)
        BY <2>2, <2>7 DEF Accepts, Skipped, Sealed
      <3>3. \A n \in DestsOf(pair), s \in Segs : <<n, s>> \notin Backups(pair)
               => journal[n].backup[s] = NoBackup
        BY DEF Backups
      <3>4. Changes(q)'
        BY <2>2, <2>3, <2>7, <3>2, <3>3
           DEF Changes, Sealed, Undecided, Ready, Decided
      <3> QED
        BY <2>7, <3>1, <3>4 DEF Own, Prepares, Retires, Preparing
    <2>8. \/ (Decided(pair[1]) \/ ~Ready(pair[1])) /\ pc'[q] = "cleanup" /\ job'[q].names = DestsOf(pair)
          \/ ~Decided(pair[1]) /\ Ready(pair[1]) /\ pc'[q] = "rollback" /\ job'[q].todo = Backups(pair)
      BY <2>1, <1>t DEF Recover, NoJob, TypeOK
    <2> QED
      BY <2>6, <2>7, <2>8
  <1>3. CASE \E n \in Names : BeginSet(q, n)
    <2>1. PICK n \in Names : BeginSet(q, n)
      BY <1>3
    <2>2. CASE ToCleanup(q, "error") /\ UNCHANGED <<journal, lock>>
      BY <2>1, <2>2, <1>c DEF BeginSet, Preparing, SameId, SamePair, SameBackup
    <2>3. CASE /\ lock' = [lock EXCEPT ![n] = q]
               /\ journal' = [journal EXCEPT ![n] = FreshJournal]
               /\ \/ /\ job[q].names = {n}
                     /\ Goto(q, "identity") /\ job' = [job EXCEPT ![q].names = Dests(q)]
                  \/ job' = [job EXCEPT ![q].names = @ \ {n}] /\ UNCHANGED pc
      <3>1. /\ job'[q].pair = job[q].pair /\ UNCHANGED disk
            /\ \A m \in Names : lock'[m] = IF m = n THEN q ELSE lock[m]
            /\ \A m \in Names : journal'[m] = IF m = n THEN FreshJournal ELSE journal[m]
        BY <2>1, <2>3, <1>i DEF BeginSet, TypeOK, Job
      <3>2. pc[q] = "begin" /\ n \in job[q].names /\ (n = Prim(q) \/ Prim(q) \notin job[q].names)
        BY <2>1 DEF BeginSet, NextName
      <3>3. \/ job[q].names = {n} /\ pc'[q] = "identity" /\ job'[q].names = Dests(q)
            \/ pc'[q] = "begin"
        BY <2>3, <3>2, <1>i DEF TypeOK, Job
      <3>4. Dests(q)' = Dests(q) /\ Prim(q)' = Prim(q)
        BY <3>1 DEF Dests, Prim
      <3>5. n \in Dests(q) /\ lock'[Prim(q)] = q
        BY <3>1, <3>2, <1>i, <1>d DEF Holds
      <3>6. FreshJournal.exists /\ FreshJournal.id = "none" /\ FreshJournal.marks = {}
            /\ \A s \in Segs : FreshJournal.backup[s] = NoBackup
        BY DEF FreshJournal, NoJournal
      <3>7. Keeps(q)'
        BY <3>1, <3>3, <3>4, <3>5, <3>6, <1>i, <1>d DEF Keeps
      <3>8. \A m \in Names : lock'[m] = q =>
               /\ journal'[m].exists /\ Untouched(m)'
               /\ journal'[m].marks = {} /\ journal'[m].id # "full"
        BY <3>1, <3>2, <3>6, <1>i DEF Prepares, Preparing, Untouched
      <3>9. pc'[q] = "identity" => \A m \in Dests(q) : lock'[m] = q
        BY <3>3, <3>4, <1>i DEF Holds, Holding
      <3>10. Prepares(q)'
        BY <3>3, <3>4, <3>8, <3>9, <1>d DEF Prepares
      <3> QED
        BY <3>3, <3>7, <3>10 DEF Own, Changes, Retires
    <2> QED
      BY <2>1, <2>2, <2>3 DEF BeginSet
  <1>4. CASE \E n \in Names : CreateIdentity(q, n)
    <2>1. PICK n \in Names : CreateIdentity(q, n)
      BY <1>4
    <2>2. /\ pc[q] = "identity" /\ pc'[q] = "fill" /\ n \in job[q].names
          /\ UNCHANGED <<disk, lock, job>> /\ SetId(n, "partial")
      BY <2>1, <1>i DEF CreateIdentity, NextName, TypeOK, SetId
    <2>3. /\ SameExists /\ SamePair /\ SameBackup /\ SameMarks
          /\ \A m \in Names : journal'[m].id = IF m = n THEN "partial" ELSE journal[m].id
      BY <2>2, <1>i, JournalFields
    <2>4. Keeps(q)' /\ Dests(q)' = Dests(q) /\ Prim(q)' = Prim(q)
      BY <2>2, <2>3, <1>i, <1>k DEF Keeps, SamePair
    <2>5. job[q].names \subseteq Dests(q)
      BY <2>2, <1>i DEF Holds
    <2>6. Prepares(q)'
      <3>1. \A m \in Names : lock'[m] = q =>
               journal'[m].exists /\ Untouched(m)' /\ journal'[m].marks = {}
        BY <2>2, <2>3, <1>i DEF Prepares, Preparing, Untouched, SameExists, SameBackup, SameMarks
      <3>2. \A m \in job[q].names : journal'[m].id # "full"
        BY <2>2, <2>3, <2>5, <1>i, <1>d DEF Prepares
      <3>3. \A m \in Dests(q) \ job[q].names : Sealed(m, job[q].pair)'
        BY <2>2, <2>3, <1>i, <1>d DEF Prepares, Sealed, SamePair
      <3> QED
        BY <3>1, <3>2, <3>3, <2>2, <2>4 DEF Prepares
    <2> QED
      BY <2>2, <2>4, <2>6 DEF Own, Changes, Retires
  <1>5. CASE \E n \in Names : FillIdentity(q, n)
    <2>1. PICK n \in Names : FillIdentity(q, n)
      BY <1>5
    <2>2. /\ pc[q] = "fill" /\ n \in job[q].names /\ job'[q].pair = job[q].pair
          /\ UNCHANGED <<disk, lock>> /\ SetPair(n, job[q].pair)
      BY <2>1, <1>i DEF FillIdentity, NextName, TypeOK, Job, SetPair
    <2>3. \/ job[q].names = {n} /\ pc'[q] = "stage"
          \/ pc'[q] = "identity" /\ job'[q].names = job[q].names \ {n}
      BY <2>1, <1>i DEF FillIdentity, TypeOK, Job
    <2>4. /\ SameExists /\ SameBackup /\ SameMarks
          /\ \A m \in Names : /\ journal'[m].id = IF m = n THEN "full" ELSE journal[m].id
                              /\ journal'[m].pair = IF m = n THEN job[q].pair ELSE journal[m].pair
      BY <2>2, <1>i, JournalFields
    <2>5. Keeps(q)' /\ Dests(q)' = Dests(q) /\ Prim(q)' = Prim(q)
      BY <2>2, <2>3, <2>4, <1>i, <1>k DEF Keeps
    <2>6. job[q].names \subseteq Dests(q)
      BY <2>2, <1>i DEF Holds
    <2>7. \A m \in Names : lock'[m] = q =>
             journal'[m].exists /\ Untouched(m)' /\ journal'[m].marks = {}
      BY <2>2, <2>4, <1>i DEF Prepares, Preparing, Untouched, SameExists, SameBackup, SameMarks
    <2>8. \A m \in Dests(q) \ (job[q].names \ {n}) : Sealed(m, job[q].pair)'
      BY <2>2, <2>4, <1>i, <1>d DEF Prepares, Sealed
    <2>9. \A m \in job[q].names \ {n} : journal'[m].id # "full"
      BY <2>2, <2>4, <2>6, <1>i, <1>d DEF Prepares
    <2>10. Prepares(q)'
      BY <2>2, <2>3, <2>5, <2>7, <2>8, <2>9 DEF Prepares
    <2>11. Changes(q)'
      BY <2>2, <2>3, <2>5, <2>8 DEF Changes, Sealed
    <2> QED
      BY <2>3, <2>5, <2>10, <2>11 DEF Own, Retires
  <1>6. CASE \E x \in Items : Stage(q, x)
    <2>1. PICK x \in Items : Stage(q, x)
      BY <1>6
    <2>2. /\ pc[q] = "stage" /\ pc' = pc /\ job'[q].pair = job[q].pair
          /\ UNCHANGED <<disk, lock>> /\ \E S : SetNew(x[1], S)
      BY <2>1, <1>t, <1>i DEF Stage, TypeOK, Job, SetNew
    <2>3. SameExists /\ SameId /\ SamePair /\ SameBackup /\ SameMarks
      BY <2>2, <1>t, <1>x, JournalFields
    <2>4. Keeps(q)' /\ Dests(q)' = Dests(q) /\ Prim(q)' = Prim(q)
      BY <2>2, <2>3, <1>i, <1>k DEF Keeps, SameId, SamePair
    <2>5. Prepares(q)'
      BY <2>2, <2>3, <1>i
         DEF Prepares, Preparing, Untouched, SameExists, SameBackup, SameMarks
    <2>6. Changes(q)'
      BY <2>2, <2>3, <2>4, <1>i, <1>d DEF Changes, Sealed, SameId, SamePair
    <2> QED
      BY <2>2, <2>4, <2>5, <2>6 DEF Own, Retires
  <1>7. CASE \E x \in Items : Prepare(q, x)
    <2>1. PICK x \in Items : Prepare(q, x)
      BY <1>7
    <2>2. CASE ToCleanup(q, "error") /\ UNCHANGED journal
      BY <2>1, <2>2, <1>c DEF Prepare, Preparing, SameId, SamePair, SameBackup
    <2>3. CASE /\ SetBackup(x[1], x[2], disk[x[1]][x[2]])
               /\ job' = [job EXCEPT ![q].todo = @ \ {x}]
               /\ IF job[q].todo = {x} THEN Goto(q, "ready") ELSE UNCHANGED pc
      <3>1. /\ pc[q] = "prepare" /\ UNCHANGED <<disk, lock>>
            /\ job'[q].pair = job[q].pair /\ job'[q].dest = job[q].dest
            /\ job'[q].todo = job[q].todo \ {x}
            /\ pc'[q] = IF job[q].todo = {x} THEN "ready" ELSE "prepare"
        BY <2>1, <2>3, <1>t, <1>i DEF Prepare, TypeOK, Job
      <3>2. /\ SameExists /\ SameId /\ SamePair /\ SameMarks
            /\ \A m \in Names, r \in Segs : journal'[m].backup[r] =
                  IF m = x[1] /\ r = x[2] THEN disk[x[1]][x[2]] ELSE journal[m].backup[r]
        BY <2>3, <1>t, <1>x, JournalFields
      <3>3. Keeps(q)' /\ Dests(q)' = Dests(q) /\ Prim(q)' = Prim(q)
        BY <3>1, <3>2, <1>i, <1>k DEF Keeps, SameId, SamePair
      <3>4. disk[x[1]][x[2]] # NoBackup
        BY <1>t, <1>x, PublicationAssumption DEF TypeOK, Contents
      <3>5. \A m \in Names : lock'[m] = q =>
               journal'[m].exists /\ Untouched(m)' /\ journal'[m].marks = {}
        BY <3>1, <3>2, <1>x, <1>i DEF Prepares, Preparing, Untouched, SameExists, SameMarks
      <3>6. \A y \in job[q].dest : (pc'[q] = "prepare" => y \notin job'[q].todo)
               => journal'[y[1]].backup[y[2]] # NoBackup
        <4> SUFFICES ASSUME NEW y \in job[q].dest, pc'[q] = "prepare" => y \notin job'[q].todo
                     PROVE  journal'[y[1]].backup[y[2]] # NoBackup
          OBVIOUS
        <4>1. y \in Items
          BY <1>i DEF Job
        <4>2. y \notin job[q].todo \ {x}
          BY <3>1
        <4>3. CASE y = x
          BY <3>2, <3>4, <4>3, <1>x
        <4>4. CASE y # x
          <5>1. journal[y[1]].backup[y[2]] # NoBackup
            BY <4>2, <4>4, <3>1, <1>i DEF Prepares
          <5>2. ~(y[1] = x[1] /\ y[2] = x[2])
            BY <4>1, <4>4, <1>x
          <5> QED
            BY <5>1, <5>2, <3>2, <4>1, <1>x
        <4> QED
          BY <4>3, <4>4
      <3>7. Prepares(q)'
        BY <3>1, <3>3, <3>5, <3>6 DEF Prepares
      <3>8. Changes(q)'
        BY <3>1, <3>2, <3>3, <1>i, <1>d DEF Changes, Sealed, SameId, SamePair
      <3> QED
        BY <3>1, <3>3, <3>7, <3>8 DEF Own, Retires
    <2> QED
      BY <2>1, <2>2, <2>3 DEF Prepare, SetBackup
  <1>8. CASE \E x \in Items : Install(q, x)
    <2>1. PICK x \in Items : Install(q, x)
      BY <1>8
    <2>2. /\ pc[q] = "install" /\ pc'[q] \in {"install", "commit"}
          /\ job'[q].pair = job[q].pair /\ job'[q].todo \subseteq job[q].todo
          /\ lock' = lock /\ \E S : SetNew(x[1], S)
      <3>1. pc[q] = "install" /\ lock' = lock /\ \E S : SetNew(x[1], S)
        BY <2>1 DEF Install, SetNew
      <3>2. job'[q] = [job[q] EXCEPT !.todo = @ \ {x}]
        BY <2>1, <1>t DEF Install, TypeOK
      <3>3. pc'[q] \in {"install", "commit"}
        BY <2>1, <1>t DEF Install, TypeOK
      <3> QED
        BY <3>1, <3>2, <3>3, <1>i DEF Job
    <2>3. SameExists /\ SameId /\ SamePair /\ SameBackup /\ SameMarks
      BY <2>2, <1>t, <1>x, JournalFields
    <2>4. Keeps(q)' /\ Dests(q)' = Dests(q) /\ Prim(q)' = Prim(q)
      BY <2>2, <2>3, <1>i, <1>k DEF Keeps, SameId, SamePair
    <2>5. \A y \in job[q].todo : y[1] \in Names
      BY <1>i, <1>x DEF Job
    <2>6. Changes(q)'
      BY <2>2, <2>3, <2>4, <2>5, <1>i, <1>d
         DEF Changes, Sealed, Undecided, Ready, Decided, SameId, SamePair, SameBackup, SameMarks
    <2> QED
      BY <2>2, <2>4, <2>6 DEF Own, Prepares, Retires, Preparing
  <1>9. CASE \E x \in Items : Rollback(q, x)
    <2>1. PICK x \in Items : Rollback(q, x)
      BY <1>9
    <2>2. /\ pc[q] = "rollback" /\ pc' = pc
          /\ job'[q].pair = job[q].pair /\ job'[q].todo = job[q].todo \ {x}
          /\ UNCHANGED <<journal, lock>>
          /\ disk' = [disk EXCEPT ![x[1]][x[2]] = journal[x[1]].backup[x[2]]]
      BY <2>1, <1>t, <1>i DEF Rollback, TypeOK, Job
    <2>3. Keeps(q)' /\ Dests(q)' = Dests(q) /\ Prim(q)' = Prim(q)
      BY <2>2, <1>i, <1>k DEF Keeps
    <2>4. \A n \in Dests(q), s \in Segs : <<n, s>> \notin job[q].todo \ {x}
             => journal[n].backup[s] \in {NoBackup, disk'[n][s]}
      <3> SUFFICES ASSUME NEW n \in Dests(q), NEW s \in Segs, <<n, s>> \notin job[q].todo \ {x}
                   PROVE  journal[n].backup[s] \in {NoBackup, disk'[n][s]}
        OBVIOUS
      <3>1. CASE <<n, s>> = x
        BY <3>1, <2>2, <1>t, <1>d DEF TypeOK
      <3>2. CASE <<n, s>> # x
        <4>1. journal[n].backup[s] \in {NoBackup, disk[n][s]}
          BY <3>2, <2>2, <1>i DEF Changes
        <4>2. disk'[n][s] = disk[n][s]
          BY <3>2, <2>2, <1>t, <1>d, <1>x DEF TypeOK
        <4> QED
          BY <4>1, <4>2
      <3> QED
        BY <3>1, <3>2
    <2>5. Changes(q)'
      BY <2>2, <2>3, <2>4, <1>i DEF Changes, Sealed, Undecided, Ready, Decided
    <2> QED
      BY <2>2, <2>3, <2>5 DEF Own, Prepares, Retires, Preparing
  <1>10. CASE Publish(q)
    <2>1. /\ pc[q] = "stage" /\ pc'[q] = "prepare" /\ job'[q].pair = job[q].pair
          /\ job'[q].dest = job'[q].todo /\ UNCHANGED <<disk, journal, lock>>
      BY <1>10, <1>t, <1>i DEF Publish, TypeOK, Job
    <2>2. Keeps(q)' /\ Dests(q)' = Dests(q) /\ Prim(q)' = Prim(q)
      BY <2>1, <1>i, <1>k DEF Keeps
    <2>3. Prepares(q)'
      BY <2>1, <2>2, <1>i DEF Prepares, Preparing, Untouched
    <2>4. Changes(q)'
      BY <2>1, <2>2, <1>i DEF Changes, Sealed
    <2> QED
      BY <2>1, <2>2, <2>3, <2>4 DEF Own, Retires
  <1>m. ASSUME NEW mark, journal' = [journal EXCEPT ![Prim(q)].marks = @ \cup {mark}]
        PROVE  /\ SameId /\ SamePair /\ SameBackup
               /\ journal'[Prim(q)].marks = journal[Prim(q)].marks \cup {mark}
    <2>1. SetMarks(Prim(q), journal[Prim(q)].marks \cup {mark})
      BY <1>m DEF SetMarks
    <2> QED
      BY <2>1, <1>t, <1>d, JournalFields
  <1>11. CASE WriteReady(q)
    <2>1. /\ pc[q] = "ready" /\ UNCHANGED <<disk, lock>>
          /\ journal' = [journal EXCEPT ![Prim(q)].marks = @ \cup {"ready"}]
      BY <1>11 DEF WriteReady
    <2>2. /\ SameId /\ SamePair /\ SameBackup
          /\ journal'[Prim(q)].marks = journal[Prim(q)].marks \cup {"ready"}
      BY <2>1, <1>m
    <2>3. CASE ToCleanup(q, "error")
      BY <2>1, <2>2, <2>3, <1>c DEF Preparing
    <2>4. CASE Goto(q, "install") /\ job' = [job EXCEPT ![q].todo = job[q].dest]
      <3>1. /\ pc'[q] = "install" /\ job'[q].pair = job[q].pair
            /\ job'[q].todo = job[q].dest
        BY <2>4, <1>t, <1>i DEF TypeOK, Job
      <3>2. Keeps(q)' /\ Dests(q)' = Dests(q) /\ Prim(q)' = Prim(q)
        BY <3>1, <2>1, <2>2, <1>i, <1>k DEF Keeps, SameId, SamePair
      <3>3. journal[Prim(q)].marks = {}
        BY <2>1, <1>i, <1>d DEF Prepares, Preparing, Holds, Holding
      <3>4. Undecided(Prim(q))'
        BY <3>2, <3>3, <2>2 DEF Undecided, Ready, Decided
      <3>5. \A x \in job[q].dest : journal'[x[1]].backup[x[2]] # NoBackup
        <4>1. \A x \in job[q].dest : x[1] \in Names
          BY <1>i, <1>x DEF Job
        <4> QED
          BY <4>1, <2>1, <2>2, <1>i DEF Prepares, SameBackup
      <3>6. Changes(q)'
        BY <3>1, <3>2, <3>4, <3>5, <2>1, <2>2, <1>i, <1>d
           DEF Changes, Sealed, SameId, SamePair
      <3> QED
        BY <3>1, <3>2, <3>6 DEF Own, Prepares, Retires, Preparing
    <2> QED
      BY <1>11, <2>3, <2>4 DEF WriteReady
  \* A cleanup() after the decision.
  <1>n. ASSUME NEW r, ToCleanup(q, r), pc[q] \in {"commit", "rollback"}, lock' = lock,
               NEW mark \in {"committed", "rolled-back"},
               journal' = [journal EXCEPT ![Prim(q)].marks = @ \cup {mark}]
        PROVE  Own(q)'
    <2>1. /\ pc'[q] = "cleanup" /\ job'[q].pair = job[q].pair
          /\ job'[q].names = Sets(q)
      BY <1>n, <1>t, <1>i DEF ToCleanup, TypeOK, Job
    <2>2. /\ SameId /\ SamePair /\ SameBackup
          /\ journal'[Prim(q)].marks = journal[Prim(q)].marks \cup {mark}
      BY <1>n, <1>m
    <2>3. Keeps(q)' /\ Dests(q)' = Dests(q) /\ Prim(q)' = Prim(q)
      BY <2>1, <2>2, <1>n, <1>i, <1>k DEF Keeps, SameId, SamePair
    <2>4. \A n \in Dests(q) : n \in Sets(q)
      BY <1>n, <1>i, <1>d DEF Holds, Holding, Sets
    <2>5. \A n \in Names : Sealed(n, job[q].pair)' => n \in Dests(q)
      BY <2>1, <2>2, <1>j DEF Coherent, Sealed, Dests, SameId, SamePair
    <2>6. ~Undecided(Prim(q))'
      BY <2>2, <2>3 DEF Undecided, Decided
    <2>7. Retires(q)'
      BY <2>1, <2>3, <2>4, <2>5, <2>6, <1>d DEF Retires, Sealed
    <2> QED
      BY <2>1, <2>3, <2>7 DEF Own, Prepares, Changes, Preparing
  <1>12. CASE WriteCommitted(q)
    BY <1>12, <1>r, <1>n DEF WriteCommitted
  <1>13. CASE WriteRolledBack(q)
    BY <1>13, <1>r, <1>n DEF WriteRolledBack
  <1>14. CASE \E n \in Names : Cleanup(q, n)
    <2>1. PICK n \in Names : Cleanup(q, n)
      BY <1>14
    <2>2. CASE job' = [job EXCEPT ![q].names = @ \ {n}] /\ UNCHANGED <<pc, lock>>
      <3>1. /\ pc[q] = "cleanup" /\ pc' = pc /\ UNCHANGED <<disk, lock>>
            /\ n \in job[q].names /\ (n # Prim(q) \/ job[q].names = {n})
            /\ job'[q].pair = job[q].pair /\ job'[q].names = job[q].names \ {n}
            /\ \A m \in Names : journal'[m] = IF m = n THEN NoJournal ELSE journal[m]
        BY <2>1, <2>2, <1>t, <1>i DEF Cleanup, NextRetired, TypeOK, Job
      <3>2. NoJournal.id = "none"
        BY DEF NoJournal
      <3>3. Keeps(q)' /\ Dests(q)' = Dests(q) /\ Prim(q)' = Prim(q)
        BY <3>1, <3>2, <1>i, <1>k DEF Keeps
      <3>4. \A m \in Names : Sealed(m, job[q].pair)' => m # n /\ Sealed(m, job[q].pair)
        BY <3>1, <3>2 DEF Sealed
      <3>5. ASSUME job'[q].names # {}
            PROVE  /\ Prim(q) \in job'[q].names
                   /\ \A m \in Names : Sealed(m, job[q].pair)' => m \in job'[q].names
                   /\ Undecided(Prim(q))' => \A m \in job'[q].names : Untouched(m)'
        <4>1. n # Prim(q) /\ Prim(q) \in job[q].names
          BY <3>1, <3>5, <1>i DEF Retires
        <4>2. \A m \in Names : Sealed(m, job[q].pair)' => m \in job'[q].names
          BY <3>1, <3>4, <1>i DEF Retires
        <4>3. job[q].names \subseteq Names
          BY <1>i DEF Job
        <4>4. ASSUME Undecided(Prim(q))' PROVE \A m \in job'[q].names : Untouched(m)'
          <5>1. Undecided(Prim(q))
            BY <4>1, <4>4, <3>1, <3>3, <1>d DEF Undecided, Ready, Decided
          <5> QED
            BY <5>1, <4>3, <3>1, <1>i DEF Retires, Untouched
        <4> QED
          BY <4>1, <4>2, <4>4, <3>1
      <3>6. Retires(q)'
        BY <3>1, <3>3, <3>5 DEF Retires, Sealed
      <3> QED
        BY <3>1, <3>3, <3>6 DEF Own, Prepares, Changes, Preparing
    <2> QED
      BY <2>1, <2>2, <1>r DEF Cleanup
  <1>15. CASE CleanedUp(q) \/ Leave(q) \/ Crash(q)
    BY <1>15, <1>r DEF CleanedUp, Leave, Crash
  <1>16. CASE InstallFault(q)
    <2>1. /\ pc[q] \in {"install", "commit"} /\ pc'[q] = "rollback"
          /\ job'[q].pair = job[q].pair /\ job'[q].todo = Backups(job[q].pair)
          /\ UNCHANGED <<disk, journal, lock>>
      BY <1>16, <1>t, <1>i DEF InstallFault, ToRollback, TypeOK, Job
    <2>2. Keeps(q)' /\ Dests(q)' = Dests(q) /\ Prim(q)' = Prim(q)
      BY <2>1, <1>i, <1>k DEF Keeps
    <2>3. \A n \in Dests(q), s \in Segs : <<n, s>> \notin Backups(job[q].pair)
             => journal[n].backup[s] = NoBackup
      BY DEF Backups, Dests
    <2>4. Changes(q)'
      BY <2>1, <2>2, <2>3, <1>i DEF Changes, Sealed, Undecided, Ready, Decided
    <2> QED
      BY <2>1, <2>2, <2>4 DEF Own, Prepares, Retires, Preparing
  <1>17. CASE Abandon(q)
    BY <1>17, <1>c DEF Abandon, Preparing, SameId, SamePair, SameBackup
  <1> QED
    BY <1>1, <1>2, <1>3, <1>4, <1>5, <1>6, <1>7, <1>8, <1>9, <1>10, <1>11,
       <1>12, <1>13, <1>14, <1>15, <1>16, <1>17 DEF Step, Work

\* A journal that cleanup() retires is not that of the primary of another.
LEMMA RetiredLast ==
    ASSUME JInv, NEW q \in Procs, NEW n \in Names, Cleanup(q, n),
           NEW m \in Names, m # n, journal[m].id = "full"
    PROVE  n # journal[m].pair[1]
  <1> SUFFICES ASSUME n = journal[m].pair[1]
               PROVE  FALSE
    OBVIOUS
  <1>1. Holds(q) /\ Keeps(q) /\ Retires(q)
    BY DEF JInv, IInv, TInv, LocksHeld
  <1>2. /\ pc[q] = "cleanup" /\ n \in job[q].names /\ lock[n] = q
        /\ n # Prim(q) \/ job[q].names = {n}
    BY <1>1 DEF Cleanup, NextRetired, Holds
  <1>3. Sealed(n, journal[m].pair)
    BY DEF JInv, Coherent
  <1>4. journal[m].pair = job[q].pair
    BY <1>1, <1>2, <1>3 DEF Keeps, Sealed
  <1>5. n = Prim(q) /\ m \in job[q].names
    BY <1>1, <1>2, <1>4 DEF Retires, Sealed, Prim
  <1> QED
    BY <1>2, <1>5

\* Every step leaves the journals coherent.
LEMMA CoherentKept ==
    ASSUME JInv, NEW q \in Procs, Step(q), NEW m \in Names
    PROVE  Coherent(m)'
  <1> USE DEF Goto
  <1>i. /\ Holds(q) /\ Keeps(q) /\ Prepares(q) /\ Changes(q) /\ Retires(q)
        /\ job[q] \in Job
    BY DEF JInv, IInv, TInv, LocksHeld, TypeOK
  <1>t. TypeOK /\ journal[m].pair \in Pairs /\ journal[m].pair[1] \in Names
    BY DEF JInv, IInv, TInv, TypeOK, Journal, Pairs
  <1>j. \A n \in Names : Coherent(n)
    BY DEF JInv
  <1>d. /\ Dests(q) \subseteq Names /\ Prim(q) \in Dests(q)
        /\ DestsOf(journal[m].pair) \subseteq Names
    BY <1>i, <1>t, DestsAreNames DEF Job, Dests, Prim, DestsOf
  <1>x. ASSUME NEW x \in Items
        PROVE  x[1] \in Names /\ x[2] \in Segs
    BY DEF Items
  <1>u. ASSUME UNCHANGED <<disk, journal>>
        PROVE  Coherent(m)'
    BY <1>u, <1>j DEF Coherent, Sealed, Undecided, Ready, Decided, Untouched
  \* The seals stay and the files and backups of m, or all its seals are there.
  <1>s. ASSUME SameExists, SameId, SamePair, SameMarks,
               \/ Untouched(m) => Untouched(m)'
               \/ \A n \in DestsOf(journal[m].pair) : Sealed(n, journal[m].pair)
        PROVE  Coherent(m)'
    <2>1. \A n \in Names, pair \in Pairs : Sealed(n, pair)' <=> Sealed(n, pair)
      BY <1>s DEF Sealed, SameId, SamePair
    <2>2. Undecided(m)' <=> Undecided(m)
      BY <1>s DEF Undecided, Ready, Decided, SameMarks
    <2>3. /\ journal'[m].exists = journal[m].exists /\ journal'[m].id = journal[m].id
          /\ journal'[m].pair = journal[m].pair /\ journal'[m].marks = journal[m].marks
      BY <1>s DEF SameExists, SameId, SamePair, SameMarks
    <2>4. Sealed(journal[m].pair[1], journal[m].pair)' <=> Sealed(journal[m].pair[1], journal[m].pair)
      BY <2>1, <2>3, <1>t DEF Sealed
    <2>5. (\A n \in DestsOf(journal[m].pair) : Sealed(n, journal[m].pair))
             => \A n \in DestsOf(journal[m].pair) :
                   journal'[n].id = "full" /\ journal'[n].pair = journal[m].pair
      BY <2>1, <1>t, <1>d DEF Sealed
    <2>6. Untouched(m)' \/ ~Undecided(m)
             \/ \A n \in DestsOf(journal[m].pair) :
                   journal'[n].id = "full" /\ journal'[n].pair = journal[m].pair
      BY <2>5, <1>s, <1>j DEF Coherent
    <2> QED
      BY <2>2, <2>3, <2>4, <2>6, <1>j DEF Coherent, Sealed
  \* A journal that was none before, or not yet full, belonged to no other.
  <1>o. ASSUME NEW n \in Names, n # m, journal[n].id # "full",
               \A k \in Names \ {n} : journal'[k] = journal[k], disk' = disk
        PROVE  Coherent(m)'
    <2>1. \A k \in Names : Sealed(k, journal[m].pair) => Sealed(k, journal[m].pair)'
      BY <1>o DEF Sealed
    <2>2. journal'[m] = journal[m] /\ (Untouched(m)' <=> Untouched(m))
      BY <1>o DEF Untouched
    <2>3. Undecided(m)' <=> Undecided(m)
      BY <2>2 DEF Undecided, Ready, Decided
    <2> QED
      BY <2>1, <2>2, <2>3, <1>j, <1>t, <1>d DEF Coherent, Sealed
  <1>1. CASE \/ \E pair \in Targets, img \in Images, count \in Segs, replace \in BOOLEAN :
                   Begin(q, pair, img, count, replace)
             \/ \E pair \in Pairs : Recover(q, pair)
             \/ Publish(q) \/ CleanedUp(q)
             \/ InstallFault(q) \/ Abandon(q) \/ Leave(q) \/ Crash(q)
    BY <1>1, <1>u
       DEF Begin, Recover, Publish, CleanedUp, InstallFault, Abandon, Leave, Crash
  <1>3. CASE \E n \in Names : BeginSet(q, n)
    <2>1. PICK n \in Names : BeginSet(q, n)
      BY <1>3
    <2>2. CASE journal' = journal
      BY <2>1, <2>2, <1>u DEF BeginSet
    <2>3. CASE ~journal[n].exists /\ journal' = [journal EXCEPT ![n] = FreshJournal]
      <3>1. disk' = disk /\ \A k \in Names : journal'[k] = IF k = n THEN FreshJournal ELSE journal[k]
        BY <2>1, <2>3, <1>t DEF BeginSet, TypeOK
      <3>2. journal[n].id # "full"
        BY <2>3, <1>j DEF Coherent
      <3>3. CASE m = n
        <4>1. journal'[m].id # "full" /\ journal'[m].marks = {}
          BY <3>1, <3>3 DEF FreshJournal, NoJournal
        <4> QED
          BY <4>1 DEF Coherent, Undecided, Ready
      <3> QED
        BY <3>1, <3>2, <3>3, <1>o
    <2> QED
      BY <2>1, <2>2, <2>3 DEF BeginSet
  <1>4. CASE \E n \in Names : CreateIdentity(q, n)
    <2>1. PICK n \in Names : CreateIdentity(q, n)
      BY <1>4
    <2>2. /\ pc[q] = "identity" /\ n \in job[q].names /\ disk' = disk
          /\ SetId(n, "partial")
      BY <2>1 DEF CreateIdentity, NextName, SetId
    <2>3. /\ SameMarks /\ \A k \in Names \ {n} : journal'[k] = journal[k]
          /\ journal'[n].id = "partial"
      BY <2>2, <1>t, JournalFields DEF SetId, TypeOK
    <2>4. n \in Dests(q) /\ lock[n] = q /\ journal[n].id # "full" /\ journal[n].marks = {}
      BY <2>2, <1>i DEF Holds, Holding, Prepares, Preparing
    <2>5. CASE m = n
      BY <2>3, <2>4, <2>5 DEF Coherent, Undecided, Ready, SameMarks
    <2> QED
      BY <2>2, <2>3, <2>4, <2>5, <1>o
  <1>5. CASE \E n \in Names : FillIdentity(q, n)
    <2>1. PICK n \in Names : FillIdentity(q, n)
      BY <1>5
    <2>2. /\ pc[q] = "fill" /\ n \in job[q].names /\ disk' = disk
          /\ n = Prim(q) \/ Prim(q) \notin job[q].names
          /\ SetPair(n, job[q].pair)
      BY <2>1 DEF FillIdentity, NextName, SetPair
    <2>3. /\ SameExists /\ SameMarks /\ \A k \in Names \ {n} : journal'[k] = journal[k]
          /\ journal'[n].id = "full" /\ journal'[n].pair = job[q].pair
      <3>1. \A k \in Names \ {n} : journal'[k] = journal[k]
        BY <2>2, <1>t DEF SetPair, TypeOK
      <3> QED
        BY <2>2, <3>1, <1>t, JournalFields
    <2>4. /\ n \in Dests(q) /\ lock[n] = q /\ journal[n].id # "full"
          /\ journal[n].exists /\ journal[n].marks = {}
      BY <2>2, <1>i DEF Holds, Holding, Prepares, Preparing
    <2>5. CASE m = n
      <3>1. journal'[m].exists /\ journal'[m].marks = {}
        BY <2>3, <2>4, <2>5 DEF SameExists, SameMarks
      <3>2. journal'[Prim(q)].id = "full" /\ journal'[Prim(q)].pair = job[q].pair
        <4>1. CASE n = Prim(q)
          BY <2>3, <4>1
        <4>2. CASE n # Prim(q)
          <5>1. Sealed(Prim(q), job[q].pair)
            BY <4>2, <2>2, <1>i, <1>d DEF Prepares
          <5> QED
            BY <5>1, <4>2, <2>3, <1>d DEF Sealed
        <4> QED
          BY <4>1, <4>2
      <3> QED
        BY <3>1, <3>2, <2>3, <2>4, <2>5 DEF Coherent, Sealed, Undecided, Ready, Dests, Prim
    <2> QED
      BY <2>2, <2>3, <2>4, <2>5, <1>o
  <1>6. CASE \E x \in Items : Stage(q, x)
    <2>1. PICK x \in Items : Stage(q, x)
      BY <1>6
    <2>2. disk' = disk /\ \E S : SetNew(x[1], S)
      BY <2>1 DEF Stage, SetNew
    <2>3. SameExists /\ SameId /\ SamePair /\ SameBackup /\ SameMarks
      BY <2>2, <1>t, <1>x, JournalFields
    <2> QED
      BY <2>2, <2>3, <1>s DEF Untouched, SameBackup
  <1>7. CASE \E x \in Items : Prepare(q, x)
    <2>1. PICK x \in Items : Prepare(q, x)
      BY <1>7
    <2>2. CASE journal' = journal
      BY <2>1, <2>2, <1>u DEF Prepare
    <2>3. CASE SetBackup(x[1], x[2], disk[x[1]][x[2]])
      <3>1. /\ SameExists /\ SameId /\ SamePair /\ SameMarks
            /\ \A n \in Names, r \in Segs : journal'[n].backup[r] =
                  IF n = x[1] /\ r = x[2] THEN disk[x[1]][x[2]] ELSE journal[n].backup[r]
        BY <2>3, <1>t, <1>x, JournalFields
      <3>2. Untouched(m) => Untouched(m)'
        BY <2>1, <3>1, <1>x DEF Prepare, Untouched
      <3> QED
        BY <3>1, <3>2, <1>s
    <2> QED
      BY <2>1, <2>2, <2>3 DEF Prepare, SetBackup
  <1>8. CASE \E x \in Items : Install(q, x) \/ Rollback(q, x)
    <2>1. PICK x \in Items : Install(q, x) \/ Rollback(q, x)
      BY <1>8
    <2>2. /\ pc[q] \in {"install", "rollback"} /\ x \in job[q].todo
          /\ (\E S : SetNew(x[1], S)) \/ journal' = journal
      BY <2>1 DEF Install, Rollback, NextItem, NextUndo, SetNew
    <2>3. SameExists /\ SameId /\ SamePair /\ SameBackup /\ SameMarks
      <3>1. CASE journal' = journal
        BY <3>1 DEF SameExists, SameId, SamePair, SameBackup, SameMarks
      <3> QED
        BY <2>2, <3>1, <1>t, <1>x, JournalFields
    <2>4. \A n \in Names : n # x[1] => disk'[n] = disk[n]
      BY <2>1, <1>t, <1>x DEF Install, Rollback, TypeOK
    <2>5. x[1] \in Dests(q) /\ \A n \in Dests(q) : Sealed(n, job[q].pair)
      BY <2>2, <1>i DEF Holds, Changes
    <2>6. CASE m = x[1]
      BY <2>3, <2>5, <2>6, <1>s DEF Sealed, Dests
    <2>7. CASE m # x[1]
      BY <2>3, <2>4, <2>7, <1>s DEF Untouched, SameBackup
    <2> QED
      BY <2>6, <2>7
  <1>9. CASE WriteReady(q) \/ WriteCommitted(q) \/ WriteRolledBack(q)
    <2>1. /\ pc[q] \in {"ready", "commit", "rollback"} /\ disk' = disk
          /\ \E S : SetMarks(Prim(q), S)
      BY <1>9 DEF WriteReady, WriteCommitted, WriteRolledBack, SetMarks
    <2>2. PICK S : SetMarks(Prim(q), S)
      BY <2>1
    <2>3. /\ SameExists /\ SameId /\ SamePair /\ SameBackup
          /\ \A n \in Names : journal'[n].marks = IF n = Prim(q) THEN S ELSE journal[n].marks
      BY <2>2, <1>t, <1>d, JournalFields
    <2>4. \A n \in Dests(q) : Sealed(n, job[q].pair)
      BY <2>1, <1>i DEF Changes
    <2>5. \A n \in Names : Sealed(n, journal[m].pair)
             => journal'[n].id = "full" /\ journal'[n].pair = journal[m].pair
      BY <2>3, <1>t DEF Sealed, SameId, SamePair
    <2>6. /\ journal'[m].exists = journal[m].exists /\ journal'[m].id = journal[m].id
          /\ journal'[m].pair = journal[m].pair
          /\ m # Prim(q) => journal'[m].marks = journal[m].marks
      BY <2>3 DEF SameExists, SameId, SamePair
    <2>7. /\ journal[m].id = "full" =>
                Sealed(journal[m].pair[1], journal[m].pair)'
          /\ (\A n \in DestsOf(journal[m].pair) : Sealed(n, journal[m].pair))
                => \A n \in DestsOf(journal'[m].pair) :
                      journal'[n].id = "full" /\ journal'[n].pair = journal'[m].pair
      <3>1. journal[m].id = "full" => Sealed(journal[m].pair[1], journal[m].pair)
        BY <1>j DEF Coherent
      <3>2. journal'[m].pair = journal[m].pair
        BY <2>6
      <3>3. journal[m].id = "full" => Sealed(journal[m].pair[1], journal[m].pair)'
        BY <2>5, <3>1, <3>2, <1>t DEF Sealed
      <3> QED
        BY <2>5, <3>2, <3>3, <1>d
    <2>8. CASE m = Prim(q)
      <3>1. journal[m].id = "full" /\ journal[m].pair = job[q].pair
        BY <2>4, <2>8, <1>d DEF Sealed
      <3>2. \A n \in DestsOf(journal[m].pair) : Sealed(n, journal[m].pair)
        BY <2>4, <3>1 DEF Dests
      <3> QED
        BY <2>6, <2>7, <2>8, <3>1, <3>2, <1>j DEF Coherent, Sealed, Prim
    <2>9. CASE m # Prim(q)
      <3>1. (Untouched(m)' <=> Untouched(m)) /\ (Undecided(m)' <=> Undecided(m))
        BY <2>1, <2>3, <2>6, <2>9 DEF Untouched, Undecided, Ready, Decided, SameBackup
      <3> QED
        BY <2>6, <2>7, <2>9, <3>1, <1>j DEF Coherent, Sealed
    <2> QED
      BY <2>8, <2>9
  <1>10. CASE \E n \in Names : Cleanup(q, n)
    <2>1. PICK n \in Names : Cleanup(q, n)
      BY <1>10
    <2>2. /\ pc[q] = "cleanup" /\ n \in job[q].names /\ disk' = disk
          /\ n # Prim(q) \/ job[q].names = {n}
          /\ \A k \in Names : journal'[k] = IF k = n THEN NoJournal ELSE journal[k]
      BY <2>1, <1>t DEF Cleanup, NextRetired, TypeOK
    <2>3. lock[n] = q
      BY <2>2, <1>i DEF Holds
    <2>4. CASE m = n
      <3>0. NoJournal.id = "none" /\ NoJournal.marks = {}
        BY DEF NoJournal
      <3>1. journal'[m].id # "full" /\ journal'[m].marks = {}
        BY <2>2, <2>4, <3>0
      <3> QED
        BY <3>1 DEF Coherent, Undecided, Ready
    <2>5. CASE m # n
      <3>1. /\ journal'[m] = journal[m] /\ (Untouched(m)' <=> Untouched(m))
            /\ (Undecided(m)' <=> Undecided(m))
        BY <2>2, <2>5 DEF Untouched, Undecided, Ready, Decided
      <3>2. \A k \in Names : (k # n /\ Sealed(k, journal[m].pair))
                                 => journal'[k].id = "full" /\ journal'[k].pair = journal[m].pair
        BY <2>2 DEF Sealed
      <3>3. Sealed(n, journal[m].pair) => journal[m].pair = job[q].pair
        BY <2>3, <1>i DEF Keeps, Sealed
      <3>4. journal[m].id = "full" => n # journal[m].pair[1]
        BY <2>1, <2>5, RetiredLast
      <3>5. ASSUME Undecided(m), ~Untouched(m)
            PROVE  \A k \in DestsOf(journal[m].pair) :
                      journal'[k].id = "full" /\ journal'[k].pair = journal[m].pair
        <4>1. \A k \in DestsOf(journal[m].pair) : Sealed(k, journal[m].pair)
          BY <3>5, <1>j DEF Coherent
        <4>2. n \notin DestsOf(journal[m].pair)
          <5> SUFFICES ASSUME n \in DestsOf(journal[m].pair)
                       PROVE  FALSE
            OBVIOUS
          <5>1. journal[m].pair = job[q].pair
            BY <4>1, <3>3
          <5>2. m = Prim(q)
            BY <5>1, <3>5, <1>j DEF Coherent, Undecided, Ready, Prim
          <5> QED
            BY <5>2, <3>5, <2>2, <1>i DEF Retires
        <4> QED
          BY <4>1, <4>2, <3>2, <1>d
      <3> QED
        BY <3>1, <3>2, <3>4, <3>5, <1>j, <1>t DEF Coherent, Sealed
    <2> QED
      BY <2>4, <2>5
  <1> QED
    BY <1>1, <1>3, <1>4, <1>5, <1>6, <1>7, <1>8, <1>9, <1>10 DEF Step, Work

LEMMA InitJInv == Init => JInv
  <1> SUFFICES ASSUME Init PROVE JInv
    OBVIOUS
  <1>1. NoJournal.id = "none" /\ NoJournal.marks = {}
    BY DEF NoJournal
  <1>2. \A n \in Names : Coherent(n)
    BY <1>1 DEF Init, Coherent, Undecided, Ready
  <1>3. \A p \in Procs : Keeps(p) /\ Prepares(p) /\ Changes(p) /\ Retires(p)
    BY PublicationAssumption DEF Init, Keeps, Prepares, Changes, Retires, Preparing
  <1> QED
    BY <1>2, <1>3, InitIInv DEF JInv

LEMMA StepJInv ==
    ASSUME JInv, NEW q \in Procs, Step(q)
    PROVE  JInv'
  <1>1. IInv'
    BY NextIInv DEF JInv, Next
  <1>2. \A n \in Names : Coherent(n)'
    BY CoherentKept
  <1>3. \A p \in Procs : Own(p)'
    BY OtherKeeps, OwnKeeps
  <1> QED
    BY <1>1, <1>2, <1>3 DEF JInv, Own

----------------------------------------------------------------------------
(* What recovery yields.                                                    *)

\* With coherent journals it is the marks of the primary that make a
\* publication pending.
LEMMA PendingMeans ==
    ASSUME JInv, NEW n \in Names
    PROVE  Pending(n) <=> journal[n].id = "full" /\ Undecided(journal[n].pair[1])
  <1>1. journal[n].pair[1] \in Names
    BY DEF JInv, IInv, TInv, TypeOK, Journal, Pairs
  <1> QED
    BY <1>1 DEF JInv, Coherent, Sealed, Pending, Undecided

\* Where nothing is to restore, the files are what recovery yields.
LEMMA SettledFiles ==
    ASSUME TypeOK, NEW n \in Names, Pending(n) => Untouched(n)
    PROVE  Settled(n) = disk[n]
  <1>1. disk[n] = [s \in Segs |-> disk[n][s]]
    BY DEF TypeOK
  <1> QED
    BY <1>1 DEF Settled, Untouched

\* Only the marker `committed' changes what recovery yields.
LEMMA SettledKept ==
    ASSUME JInv, JInv', NEW q \in Procs, Step(q), ~WriteCommitted(q), NEW m \in Names
    PROVE  Settled(m)' = Settled(m)
  <1> USE DEF Goto
  <1>i. /\ Holds(q) /\ Undoable(q) /\ Keeps(q) /\ Prepares(q) /\ Changes(q) /\ Retires(q)
        /\ job[q] \in Job
    BY DEF JInv, IInv, TInv, LocksHeld, TypeOK
  <1>t. TypeOK /\ TypeOK' /\ journal[m].pair \in Pairs /\ journal[m].pair[1] \in Names
    BY DEF JInv, IInv, TInv, TypeOK, Journal, Pairs
  <1>j. \A n \in Names : Coherent(n)
    BY DEF JInv
  <1>d. Dests(q) \subseteq Names /\ Prim(q) \in Dests(q)
    BY <1>i, DestsAreNames DEF Job, Dests, Prim, DestsOf
  <1>x. ASSUME NEW x \in Items
        PROVE  x[1] \in Names /\ x[2] \in Segs
    BY DEF Items
  <1>p. /\ Pending(m) <=> journal[m].id = "full" /\ Undecided(journal[m].pair[1])
        /\ Pending(m)' <=> (journal[m].id = "full" /\ Undecided(journal[m].pair[1]))'
    <2>1. (journal[m].pair[1] \in Names)'
      BY <1>t DEF TypeOK, Journal, Pairs
    <2>2. \A n \in Names : Coherent(n)'
      BY DEF JInv
    <2> QED
      BY PendingMeans, <2>1, <2>2 DEF Coherent, Sealed, Pending, Undecided
  \* Nothing of it changes,
  <1>a. ASSUME disk'[m] = disk[m], Pending(m)' <=> Pending(m),
               journal'[m].backup = journal[m].backup
        PROVE  Settled(m)' = Settled(m)
    BY <1>a DEF Settled
  \* or its files are as they were all the time,
  <1>b. ASSUME disk'[m] = disk[m], Pending(m) => Untouched(m), Pending(m)' => Untouched(m)'
        PROVE  Settled(m)' = Settled(m)
    <2>1. disk'[m] = [s \in Segs |-> disk'[m][s]]
      BY <1>t DEF TypeOK
    <2>2. Settled(m)' = disk'[m]
      BY <2>1, <1>b DEF Settled, Untouched
    <2> QED
      BY <2>2, <1>b, <1>t, SettledFiles
  \* or the change is of a journal that was not full.
  <1>o. ASSUME NEW n \in Names, n # m, journal[n].id # "full",
               \A k \in Names \ {n} : journal'[k] = journal[k], disk' = disk
        PROVE  Settled(m)' = Settled(m)
    <2>1. journal'[m] = journal[m]
      BY <1>o
    <2>2. journal[m].id = "full" => journal'[journal[m].pair[1]] = journal[journal[m].pair[1]]
      BY <1>o, <1>j, <1>t DEF Coherent, Sealed
    <2>3. Pending(m)' <=> Pending(m)
      BY <2>1, <2>2, <1>p DEF Undecided, Ready, Decided
    <2> QED
      BY <2>1, <2>3, <1>o, <1>a
  <1>1. CASE \/ \E pair \in Targets, img \in Images, count \in Segs, replace \in BOOLEAN :
                   Begin(q, pair, img, count, replace)
             \/ \E pair \in Pairs : Recover(q, pair)
             \/ Publish(q) \/ CleanedUp(q)
             \/ InstallFault(q) \/ Abandon(q) \/ Leave(q) \/ Crash(q)
    <2>1. UNCHANGED <<disk, journal>>
      BY <1>1 DEF Begin, Recover, Publish, CleanedUp, InstallFault, Abandon, Leave, Crash
    <2> QED
      BY <2>1 DEF Settled, Pending, Ready, Decided
  <1>3. CASE \E n \in Names : BeginSet(q, n)
    <2>1. PICK n \in Names : BeginSet(q, n)
      BY <1>3
    <2>2. CASE journal' = journal
      BY <2>1, <2>2 DEF BeginSet, Settled, Pending, Ready, Decided
    <2>3. CASE ~journal[n].exists /\ journal' = [journal EXCEPT ![n] = FreshJournal]
      <3>1. disk' = disk /\ \A k \in Names : journal'[k] = IF k = n THEN FreshJournal ELSE journal[k]
        BY <2>1, <2>3, <1>t DEF BeginSet, TypeOK
      <3>2. journal[n].id # "full"
        BY <2>3, <1>j DEF Coherent
      <3>3. CASE m = n
        <4>1. journal'[m].id # "full"
          BY <3>1, <3>3 DEF FreshJournal, NoJournal
        <4> QED
          BY <4>1, <3>1, <3>2, <3>3, <1>p, <1>b
      <3> QED
        BY <3>1, <3>2, <3>3, <1>o
    <2> QED
      BY <2>1, <2>2, <2>3 DEF BeginSet
  <1>4. CASE \E n \in Names : CreateIdentity(q, n) \/ FillIdentity(q, n)
    <2>1. PICK n \in Names : CreateIdentity(q, n) \/ FillIdentity(q, n)
      BY <1>4
    <2>2. /\ pc[q] \in {"identity", "fill"} /\ n \in job[q].names /\ disk' = disk
          /\ SetId(n, "partial") \/ SetPair(n, job[q].pair)
      BY <2>1 DEF CreateIdentity, FillIdentity, NextName, SetId, SetPair
    <2>3. journal[n].id # "full" /\ \A k \in Names \ {n} : journal'[k] = journal[k]
      BY <2>2, <1>t, <1>i DEF SetId, SetPair, TypeOK, Prepares
    <2>4. CASE m = n
      <3>1. SameMarks /\ (journal'[n].id # "full" \/ journal'[n].pair = job[q].pair)
        BY <2>2, <1>t, JournalFields
      <3>2. journal[Prim(q)].marks = {}
        BY <2>2, <1>i, <1>d DEF Holds, Holding, Prepares, Preparing
      <3>4. ~Pending(m)'
        BY <3>1, <3>2, <2>4, <1>p, <1>d DEF Undecided, Ready, SameMarks, Prim
      <3> QED
        BY <3>4, <2>2, <2>3, <2>4, <1>p, <1>b
    <2> QED
      BY <2>2, <2>3, <2>4, <1>o
  <1>6. CASE \E x \in Items : Stage(q, x)
    <2>1. PICK x \in Items : Stage(q, x)
      BY <1>6
    <2>2. disk' = disk /\ \E S : SetNew(x[1], S)
      BY <2>1 DEF Stage, SetNew
    <2>3. SameExists /\ SameId /\ SamePair /\ SameBackup /\ SameMarks
      BY <2>2, <1>t, <1>x, JournalFields
    <2>4. Pending(m)' <=> Pending(m)
      BY <2>3, <1>p, <1>t DEF Undecided, Ready, Decided, SameId, SamePair, SameMarks
    <2> QED
      BY <2>2, <2>3, <2>4, <1>a DEF SameBackup
  <1>7. CASE \E x \in Items : Prepare(q, x)
    <2>1. PICK x \in Items : Prepare(q, x)
      BY <1>7
    <2>2. CASE journal' = journal
      BY <2>1, <2>2 DEF Prepare, Settled, Pending, Ready, Decided
    <2>3. CASE SetBackup(x[1], x[2], disk[x[1]][x[2]])
      <3>1. SameExists /\ SameId /\ SamePair /\ SameMarks
        BY <2>3, <1>t, <1>x, JournalFields
      <3>2. disk' = disk /\ pc[q] = "prepare" /\ x \in job[q].todo
        BY <2>1 DEF Prepare, NextItem
      <3>3. Pending(m)' <=> Pending(m)
        BY <3>1, <1>p, <1>t DEF Undecided, Ready, Decided, SameId, SamePair, SameMarks
      <3>4. CASE m = x[1]
        <4>1. m \in Dests(q) /\ journal[m].pair = job[q].pair /\ journal[Prim(q)].marks = {}
          BY <3>2, <3>4, <1>i, <1>d
             DEF Holds, Holding, Prepares, Preparing, Changes, Sealed
        <4>2. ~Pending(m)
          BY <4>1, <1>p DEF Undecided, Ready, Prim
        <4> QED
          BY <4>2, <3>2, <3>3, <1>b
      <3>5. CASE m # x[1]
        <4>1. journal'[m] = journal[m]
          BY <2>3, <3>5, <1>t DEF SetBackup, TypeOK
        <4> QED
          BY <4>1, <3>2, <3>3, <1>a
      <3> QED
        BY <3>4, <3>5
    <2> QED
      BY <2>1, <2>2, <2>3 DEF Prepare, SetBackup
  <1>8. CASE \E x \in Items : Install(q, x) \/ Rollback(q, x)
    <2>1. PICK x \in Items : Install(q, x) \/ Rollback(q, x)
      BY <1>8
    <2>2. /\ pc[q] \in {"install", "rollback"} /\ x \in job[q].todo
          /\ (\E S : SetNew(x[1], S)) \/ journal' = journal
      BY <2>1 DEF Install, Rollback, NextItem, NextUndo, SetNew
    <2>3. SameExists /\ SameId /\ SamePair /\ SameBackup /\ SameMarks
      <3>1. CASE journal' = journal
        BY <3>1 DEF SameExists, SameId, SamePair, SameBackup, SameMarks
      <3> QED
        BY <2>2, <3>1, <1>t, <1>x, JournalFields
    <2>4. \A n \in Names, s \in Segs : (n # x[1] \/ s # x[2]) => disk'[n][s] = disk[n][s]
      BY <2>1, <1>t, <1>x DEF Install, Rollback, TypeOK
    <2>5. Pending(m)' <=> Pending(m)
      BY <2>3, <1>p, <1>t DEF Undecided, Ready, Decided, SameId, SamePair, SameMarks
    <2>6. CASE m = x[1]
      <3>1. m \in Dests(q) /\ Sealed(m, job[q].pair) /\ Undecided(Prim(q))
        BY <2>2, <2>6, <1>i DEF Holds, Changes
      <3>2. Pending(m)
        BY <3>1, <1>p DEF Sealed, Prim
      <3>3. journal[m].backup[x[2]] # NoBackup
        BY <2>2, <2>6, <1>i DEF Changes, Undoable
      <3>4. \A s \in Segs : journal[m].backup[s] = NoBackup => disk'[m][s] = disk[m][s]
        BY <3>3, <2>4
      <3> QED
        BY <3>2, <3>4, <2>3, <2>5 DEF Settled, SameBackup
    <2>7. CASE m # x[1]
      <3>1. disk'[m] = disk[m]
        BY <2>1, <2>7, <1>t, <1>x DEF Install, Rollback, TypeOK
      <3> QED
        BY <3>1, <2>3, <2>5, <1>a DEF SameBackup
    <2> QED
      BY <2>6, <2>7
  <1>9. CASE WriteReady(q) \/ WriteRolledBack(q)
    <2>1. /\ pc[q] = "ready" \/ (pc[q] = "rollback" /\ job[q].todo = {})
          /\ disk' = disk /\ \E S : SetMarks(Prim(q), S)
      BY <1>9 DEF WriteReady, WriteRolledBack, SetMarks
    <2>2. PICK S : SetMarks(Prim(q), S)
      BY <2>1
    <2>3. /\ SameExists /\ SameId /\ SamePair /\ SameBackup
          /\ \A n \in Names : journal'[n].marks = IF n = Prim(q) THEN S ELSE journal[n].marks
      BY <2>2, <1>t, <1>d, JournalFields
    <2>4. CASE journal[m].id = "full" /\ journal[m].pair[1] = Prim(q)
      <3>1. m \in Dests(q)
        <4>1. Sealed(Prim(q), journal[m].pair) /\ m \in DestsOf(journal[m].pair)
          BY <2>4, <1>j DEF Coherent
        <4>2. Sealed(Prim(q), job[q].pair)
          BY <2>1, <1>i, <1>d DEF Changes
        <4> QED
          BY <4>1, <4>2 DEF Sealed, Dests
      <3>2. Untouched(m)
        <4>1. CASE pc[q] = "ready"
          BY <3>1, <4>1, <1>i DEF Holds, Holding, Prepares, Preparing
        <4>2. CASE pc[q] = "rollback" /\ job[q].todo = {}
          BY <3>1, <4>2, <1>i DEF Changes, Untouched
        <4> QED
          BY <4>1, <4>2, <2>1
      <3>3. Untouched(m)'
        BY <3>2, <2>1, <2>3 DEF Untouched, SameBackup
      <3> QED
        BY <3>2, <3>3, <2>1, <1>b
    <2>5. CASE ~(journal[m].id = "full" /\ journal[m].pair[1] = Prim(q))
      <3>1. Pending(m)' <=> Pending(m)
        BY <2>3, <2>5, <1>p, <1>t DEF Undecided, Ready, Decided, SameId, SamePair
      <3> QED
        BY <3>1, <2>1, <2>3, <1>a DEF SameBackup
    <2> QED
      BY <2>4, <2>5
  <1>10. CASE \E n \in Names : Cleanup(q, n)
    <2>1. PICK n \in Names : Cleanup(q, n)
      BY <1>10
    <2>2. /\ pc[q] = "cleanup" /\ n \in job[q].names /\ disk' = disk
          /\ \A k \in Names : journal'[k] = IF k = n THEN NoJournal ELSE journal[k]
      BY <2>1, <1>t DEF Cleanup, NextRetired, TypeOK
    <2>3. CASE m = n
      <3>1. NoJournal.id = "none"
        BY DEF NoJournal
      <3>2. ~Pending(m)'
        BY <2>2, <2>3, <3>1, <1>p
      <3>3. Pending(m) => Untouched(m)
        <4>1. journal[m].id = "full" => journal[m].pair = job[q].pair
          BY <2>2, <2>3, <1>i DEF Holds, Keeps
        <4>2. Pending(m) => Undecided(Prim(q))
          BY <4>1, <1>p DEF Prim
        <4> QED
          BY <4>2, <2>2, <2>3, <1>i DEF Retires
      <3> QED
        BY <3>2, <3>3, <2>2, <1>b
    <2>4. CASE m # n
      <3>1. journal'[m] = journal[m]
        BY <2>2, <2>4
      <3>2. journal[m].id = "full" => journal'[journal[m].pair[1]] = journal[journal[m].pair[1]]
        BY <2>1, <2>2, <2>4, <1>t, RetiredLast
      <3>3. Pending(m)' <=> Pending(m)
        BY <3>1, <3>2, <1>p DEF Undecided, Ready, Decided
      <3> QED
        BY <3>1, <3>3, <2>2, <1>a
    <2> QED
      BY <2>3, <2>4
  <1> QED
    BY <1>1, <1>3, <1>4, <1>6, <1>7, <1>8, <1>9, <1>10 DEF Step, Work

\* And it replaces the files of every destination by the new image.
LEMMA CommitReplaces ==
    ASSUME JInv, JInv', NEW q \in Procs, WriteCommitted(q), NEW m \in Names
    PROVE  Settled(m)' = IF m \in Dests(q) THEN Whole(job[q].img, job[q].count)
                                           ELSE Settled(m)
  <1>i. /\ Installed(q) /\ Changes(q) /\ job[q] \in Job
        /\ TypeOK /\ journal[m].pair[1] \in Names
        /\ \A n \in Names : Coherent(n)
    BY DEF JInv, IInv, TInv, TypeOK, Journal, Pairs
  <1>d. Dests(q) \subseteq Names /\ Prim(q) \in Dests(q)
    BY <1>i, DestsAreNames DEF Job, Dests, Prim, DestsOf
  <1>1. /\ pc[q] = "commit" /\ disk' = disk
    BY DEF WriteCommitted
  <1>c. PICK S : S = journal[Prim(q)].marks \cup {"committed"} /\ SetMarks(Prim(q), S)
    BY DEF WriteCommitted, SetMarks
  <1>2. /\ SameId /\ SamePair /\ SameBackup
        /\ \A n \in Names : journal'[n].marks =
              IF n = Prim(q) THEN journal[n].marks \cup {"committed"} ELSE journal[n].marks
    <2>1. /\ SameId /\ SamePair /\ SameBackup
          /\ \A n \in Names : journal'[n].marks = IF n = Prim(q) THEN S ELSE journal[n].marks
      BY <1>c, <1>i, <1>d, JournalFields
    <2> QED
      BY <2>1, <1>c
  <1>3. \A n \in Dests(q) : Sealed(n, job[q].pair)
    BY <1>1, <1>i DEF Changes
  <1>p. /\ Pending(m) <=> journal[m].id = "full" /\ Undecided(journal[m].pair[1])
        /\ Pending(m)' <=> (journal[m].id = "full" /\ Undecided(journal[m].pair[1]))'
    <2>1. (journal[m].pair[1] \in Names)'
      BY <1>i, <1>2 DEF SamePair
    <2>2. \A n \in Names : Coherent(n)'
      BY DEF JInv
    <2> QED
      BY PendingMeans, <2>1, <2>2 DEF Coherent, Sealed, Pending, Undecided
  <1>4. CASE m \in Dests(q)
    <2>1. ~Pending(m)'
      BY ZenonT(30), <1>2, <1>3, <1>4, <1>p, <1>d DEF Sealed, Undecided, Decided, Prim, SamePair
    <2>2. \A s \in Segs : disk[m][s] = Want(q, s)
      BY <1>1, <1>4, <1>i DEF Installed
    <2>3. disk[m] = [s \in Segs |-> disk[m][s]]
      BY <1>i DEF TypeOK
    <2> QED
      BY <2>1, <2>2, <2>3, <1>1, <1>4 DEF Settled, Whole, Want
  <1>5. CASE m \notin Dests(q)
    <2>1. journal[m].id = "full" => journal[m].pair[1] # Prim(q)
      BY <1>3, <1>5, <1>i, <1>d DEF Coherent, Sealed, Dests
    <2>2. Pending(m)' <=> Pending(m)
      BY <2>1, <1>2, <1>p, <1>i DEF Undecided, Ready, Decided, SameId, SamePair
    <2> QED
      BY <2>2, <1>1, <1>2, <1>5 DEF Settled, SameBackup
  <1> QED
    BY <1>4, <1>5

\* Between begin() and the decision.
Asking == Preparing \cup {"install", "commit"}

\* Once begun, an operation keeps its request or gives it up.
LEMMA RequestKept ==
    ASSUME TypeOK, NEW q \in Procs, Step(q), pc'[q] \in Asking,
           \A pair \in Targets, img \in Images, count \in Segs, replace \in BOOLEAN :
              ~Begin(q, pair, img, count, replace)
    PROVE  /\ pc[q] \in Asking /\ ~WriteCommitted(q)
           /\ job'[q].pair = job[q].pair /\ job'[q].img = job[q].img
           /\ job'[q].count = job[q].count
  <1> USE DEF Goto, Asking, Preparing
  <1>t. pc \in [Procs -> Labels] /\ job \in [Procs -> Job] /\ job[q] \in Job
    BY DEF TypeOK
  <1>r. ~Return(q) /\ \A r : ~ToCleanup(q, r)
    BY <1>t DEF Return, ToCleanup
  <1>1. CASE \E pair \in Pairs : Recover(q, pair)
    BY <1>1, <1>t DEF Recover
  <1>2. CASE \E n \in Names : BeginSet(q, n) \/ CreateIdentity(q, n) \/ FillIdentity(q, n)
    <2>1. PICK n \in Names : BeginSet(q, n) \/ CreateIdentity(q, n) \/ FillIdentity(q, n)
      BY <1>2
    <2>2. /\ pc[q] \in Asking
          /\ \/ job' = job
             \/ \E S : job' = [job EXCEPT ![q].names = S]
             \/ \E S, T : job' = [job EXCEPT ![q].names = S, ![q].todo = T]
      BY <2>1, <1>r DEF BeginSet, CreateIdentity, FillIdentity
    <2>3. ~WriteCommitted(q)
      BY <2>1 DEF BeginSet, CreateIdentity, FillIdentity, WriteCommitted
    <2> QED
      BY ZenonT(30), <2>2, <2>3, <1>t DEF Job
  <1>3. CASE \E x \in Items : Stage(q, x) \/ Prepare(q, x) \/ Install(q, x) \/ Rollback(q, x)
    <2>1. PICK x \in Items : Stage(q, x) \/ Prepare(q, x) \/ Install(q, x) \/ Rollback(q, x)
      BY <1>3
    <2>2. ~Rollback(q, x)
      BY <1>t DEF Rollback
    <2>3. pc[q] \in Asking /\ \E S : job' = [job EXCEPT ![q].todo = S]
      BY <2>1, <2>2, <1>r DEF Stage, Prepare, Install
    <2>4. ~WriteCommitted(q)
      BY <2>1, <2>2 DEF Stage, Prepare, Install, WriteCommitted
    <2> QED
      BY <2>3, <2>4, <1>t DEF Job
  <1>4. CASE Publish(q) \/ WriteReady(q)
    <2>1. /\ pc[q] \in Asking
          /\ \/ \E S : job' = [job EXCEPT ![q].todo = S]
             \/ \E S, T : job' = [job EXCEPT ![q].dest = S, ![q].todo = T]
      BY <1>4, <1>r DEF Publish, WriteReady
    <2>2. ~WriteCommitted(q)
      BY <1>4 DEF Publish, WriteReady, WriteCommitted
    <2> QED
      BY <2>1, <2>2, <1>t DEF Job
  <1>5. CASE \/ WriteCommitted(q) \/ WriteRolledBack(q) \/ CleanedUp(q)
             \/ Abandon(q) \/ Leave(q) \/ Crash(q)
    BY <1>5, <1>r DEF WriteCommitted, WriteRolledBack, CleanedUp, Abandon, Leave, Crash
  <1>6. CASE InstallFault(q)
    BY <1>6, <1>t DEF InstallFault, ToRollback
  <1>7. CASE \E n \in Names : Cleanup(q, n)
    BY <1>7, <1>r DEF Cleanup
  <1> QED
    BY <1>1, <1>2, <1>3, <1>4, <1>5, <1>6, <1>7 DEF Step, Work

\* What begin() sets.
LEMMA BeginJob ==
    ASSUME TypeOK, NEW q \in Procs, NEW pair \in Targets, NEW img \in Images,
           NEW count \in Segs, NEW replace \in BOOLEAN,
           Begin(q, pair, img, count, replace)
    PROVE  /\ pc[q] = "idle" /\ pc'[q] = "begin" /\ ~WriteCommitted(q)
           /\ job'[q].pair = pair /\ job'[q].img = img /\ job'[q].count = count
  BY DEF TypeOK, Begin, Goto, NoJob, WriteCommitted

\* The invariant, with what it says of the outputs: what recovery yields is
\* complete, since only an image that somebody asked for is committed.
VInv == /\ JInv
        /\ \A p \in Procs : pc[p] \in Asking => job[p].img \in Images
        /\ \A n \in Names : Settled(n) \in Complete

LEMMA InitVInv == Init => VInv
  <1> SUFFICES ASSUME Init PROVE VInv
    OBVIOUS
  <1>1. \A n \in Names : Settled(n) = disk[n]
    BY DEF Init, NoJournal, Settled, Pending
  <1>2. \A p \in Procs : pc[p] \notin Asking
    BY DEF Init, Asking, Preparing
  <1> QED
    BY <1>1, <1>2, InitJInv DEF VInv, Init

LEMMA StepVInv ==
    ASSUME VInv, NEW q \in Procs, Step(q)
    PROVE  VInv'
  <1>1. JInv /\ JInv'
    BY StepJInv DEF VInv
  <1>t. TypeOK /\ job[q] \in Job
    BY <1>1 DEF JInv, IInv, TInv, TypeOK
  <1>2. ASSUME NEW p \in Procs, pc'[p] \in Asking
        PROVE  job'[p].img \in Images
    <2>1. CASE p # q
      BY <2>1, <1>1, <1>2, Frame DEF VInv, JInv, IInv
    <2>2. CASE p = q
      <3>1. CASE \E pair \in Targets, img \in Images, count \in Segs, replace \in BOOLEAN :
                    Begin(q, pair, img, count, replace)
        BY <3>1, <2>2, <1>t, BeginJob
      <3>2. CASE \A pair \in Targets, img \in Images, count \in Segs, replace \in BOOLEAN :
                    ~Begin(q, pair, img, count, replace)
        BY <3>2, <2>2, <1>2, <1>t, RequestKept DEF VInv
      <3> QED
        BY <3>1, <3>2
    <2> QED
      BY <2>1, <2>2
  <1>3. ASSUME NEW n \in Names
        PROVE  Settled(n)' \in Complete
    <2>1. CASE WriteCommitted(q)
      <3>1. job[q].img \in Images /\ job[q].count \in Segs
        BY <2>1, <1>t DEF VInv, WriteCommitted, Asking, Job
      <3>2. Whole(job[q].img, job[q].count) \in Complete
        BY <3>1 DEF Complete
      <3> QED
        BY <3>2, <2>1, <1>1, CommitReplaces DEF VInv
    <2>2. CASE ~WriteCommitted(q)
      BY <2>2, <1>1, SettledKept DEF VInv
    <2> QED
      BY <2>1, <2>2
  <1>4. Complete' = Complete
    BY DEF Complete, Whole, NoFiles
  <1> QED
    BY <1>1, <1>2, <1>3 DEF VInv

LEMMA NextVInv == VInv /\ [Next]_vars => VInv'
  <1> SUFFICES ASSUME VInv, [Next]_vars PROVE VInv'
    OBVIOUS
  <1>1. CASE UNCHANGED vars
    <2>1. disk' = disk /\ journal' = journal /\ lock' = lock /\ pc' = pc /\ job' = job
      BY <1>1 DEF vars
    <2>2. IInv'
      BY <1>1, NextIInv DEF VInv, JInv
    <2>3. \A n \in Names : Coherent(n)'
      BY <2>1 DEF VInv, JInv, Coherent, Sealed, Undecided, Ready, Decided, Untouched
    <2>4. \A p \in Procs : Keeps(p)' /\ Prepares(p)' /\ Changes(p)' /\ Retires(p)'
      BY <2>1 DEF VInv, JInv, Keeps, Prepares, Changes, Retires,
                  Sealed, Undecided, Ready, Decided, Untouched, Dests, Prim
    <2>5. \A n \in Names : Settled(n)' \in Complete
      BY <2>1 DEF VInv, Settled, Pending, Ready, Decided
    <2> QED
      BY <2>1, <2>2, <2>3, <2>4, <2>5 DEF VInv, JInv
  <1>2. CASE Next
    BY <1>2, StepVInv DEF Next
  <1> QED
    BY <1>1, <1>2

LEMMA OutputsInvariant == Spec => []VInv
  BY InitVInv, NextVInv, PTL DEF Spec

\* A reader that ensure_no_publication() lets through finds a complete set,
\* whatever publications were interrupted at whatever point before.
THEOREM VisibleCorrect == Spec => []VisibleWhole
  <1>1. VInv => VisibleWhole
    BY DEF VInv, VisibleWhole, Settled, Pending
  <1> QED
    BY <1>1, OutputsInvariant, PTL

\* recover() accepts the journals of every undecided publication that has
\* changed a file, so that it can always restore what the file was.
THEOREM RecoveryAccepts == Spec => []TouchedOutputRecoverable
  <1>1. VInv => TouchedOutputRecoverable
    <2> SUFFICES ASSUME VInv, NEW n \in Names, Pending(n), ~Untouched(n)
                 PROVE  Accepts(journal[n].pair)
      BY DEF TouchedOutputRecoverable, Untouched
    <2> DEFINE pair == journal[n].pair
    <2>1. JInv /\ pair \in Pairs
      BY DEF VInv, JInv, IInv, TInv, TypeOK, Journal
    <2>2. pair[1] \in Names /\ DestsOf(pair) \subseteq Names
      BY <2>1, DestsAreNames DEF Pairs
    <2>3. /\ journal[n].id = "full" /\ n \in DestsOf(pair)
          /\ Sealed(n, pair) /\ Sealed(pair[1], pair) /\ Undecided(pair[1])
      BY <2>1, PendingMeans DEF JInv, Coherent, Sealed
    <2>4. \A m \in DestsOf(pair) : Sealed(m, pair)
      <3>1. CASE n = pair[1]
        BY <2>1, <2>3, <3>1 DEF JInv, Coherent
      <3>2. CASE n # pair[1]
        BY <2>3, <3>2 DEF DestsOf
      <3> QED
        BY <3>1, <3>2
    <2> QED
      BY <2>1, <2>2, <2>3, <2>4 DEF Accepts, JInv, Coherent, Sealed
  <1> QED
    BY <1>1, OutputsInvariant, PTL

\* The protocol implements OutputSets: outputs change all at once, by the
\* marker `committed' of a process that asked for it, or not at all.
THEOREM PublicationIsAtomic == Spec => Atomic
  <1>1. Init => Abs!Init
    <2> SUFFICES ASSUME Init PROVE Abs!Init
      OBVIOUS
    <2>1. \A n \in Names : Settled(n) = disk[n]
      BY DEF Init, NoJournal, Settled, Pending
    <2>2. \A n \in Names : disk[n] \in [Segs -> Contents]
      BY InitIInv DEF IInv, TInv, TypeOK
    <2>3. Out \in [Names -> [Segs -> Contents]]
      BY <2>1, <2>2 DEF Out
    <2>4. Asked = [p \in Procs |-> NoRequest]
      BY DEF Init, Asked
    <2> QED
      BY <2>3, <2>4 DEF Abs!Init, Abs!Segs, Abs!Contents, Segs, Contents
  <1>2. ASSUME VInv, NEW q \in Procs, Step(q)
        PROVE  Abs!Next \/ UNCHANGED <<Out, Asked>>
    <2>1. JInv /\ JInv' /\ TypeOK /\ job[q] \in Job
      BY <1>2, StepJInv DEF VInv, JInv, IInv, TInv, TypeOK
    <2>2. \A p \in Procs : p # q => Asked'[p] = Asked[p]
      <3>1. \A p \in Procs : p # q => pc'[p] = pc[p] /\ job'[p] = job[p]
        BY <1>2, <2>1, Frame DEF JInv, IInv
      <3> QED
        BY <3>1 DEF Asked, Dests
    <2>3. ~WriteCommitted(q) => Out' = Out
      BY <1>2, <2>1, SettledKept DEF Out
    <2>4. Asked[q] = IF pc[q] \in Asking
                     THEN [dests |-> Dests(q), img |-> job[q].img, count |-> job[q].count]
                     ELSE NoRequest
      BY DEF Asked, Asking, Preparing
    <2>5. Asked'[q] = IF pc'[q] \in Asking
                      THEN [dests |-> DestsOf(job'[q].pair), img |-> job'[q].img,
                            count |-> job'[q].count]
                      ELSE NoRequest
      BY DEF Asked, Asking, Preparing, Dests
    <2>6. pc[q] \in Asking => Asked[q] # NoRequest
      <3>1. job[q].count # 0
        BY <2>1, PublicationAssumption DEF Job, Segs
      <3> QED
        BY <2>4, <3>1 DEF NoRequest
    <2>7. \A r : (Asked'[q] = r) => Asked' = [Asked EXCEPT ![q] = r]
      BY <2>2 DEF Asked
    <2>8. CASE \E pair \in Targets, img \in Images, count \in Segs, replace \in BOOLEAN :
                  Begin(q, pair, img, count, replace)
      <3>1. PICK pair \in Targets, img \in Images, count \in Segs, replace \in BOOLEAN :
                  Begin(q, pair, img, count, replace)
        BY <2>8
      <3>2. /\ pc[q] = "idle" /\ pc'[q] = "begin" /\ ~WriteCommitted(q)
            /\ job'[q].pair = pair /\ job'[q].img = img /\ job'[q].count = count
        BY <3>1, <2>1, BeginJob
      <3>3. Asked[q] = NoRequest
        BY <3>2, <2>4 DEF Asking, Preparing
      <3>4. Asked'[q] = [dests |-> DestsOf(pair), img |-> img, count |-> count]
        BY <3>2, <2>5 DEF Asking, Preparing
      <3>5. DestsOf(pair) \subseteq Names
        BY PublicationAssumption, DestsAreNames DEF Pairs
      <3>6. Asked'[q] \in Abs!Requests
        BY <3>4, <3>5 DEF Abs!Requests, Abs!Segs, Segs
      <3>7. Abs!Ask(q)
        BY <3>2, <3>3, <3>6, <2>3, <2>7 DEF Abs!Ask
      <3> QED
        BY <3>7 DEF Abs!Next
    <2>9. CASE /\ ~WriteCommitted(q)
               /\ \A pair \in Targets, img \in Images, count \in Segs, replace \in BOOLEAN :
                     ~Begin(q, pair, img, count, replace)
      <3>1. CASE Asked'[q] = Asked[q]
        BY <3>1, <2>2, <2>3, <2>9 DEF Asked
      <3>2. CASE Asked'[q] # Asked[q]
        <4>1. pc[q] \in Asking /\ pc'[q] \notin Asking
          BY <3>2, <2>1, <2>4, <2>5, <2>9, <1>2, RequestKept DEF Dests
        <4>2. Abs!GiveUp(q)
          BY <4>1, <2>3, <2>5, <2>6, <2>7, <2>9 DEF Abs!GiveUp
        <4> QED
          BY <4>2 DEF Abs!Next
      <3> QED
        BY <3>1, <3>2
    <2>10. CASE WriteCommitted(q)
      <3>1. pc[q] = "commit" /\ pc'[q] \in {"cleanup", "idle"}
        BY <2>1, <2>10 DEF WriteCommitted, ToCleanup, Goto, Return, TypeOK
      <3>2. pc[q] \in Asking /\ pc'[q] \notin Asking
        BY <3>1 DEF Asking, Preparing
      <3>3. Out' = [n \in Names |-> IF n \in Dests(q) THEN Whole(job[q].img, job[q].count)
                                                      ELSE Out[n]]
        BY <2>1, <2>10, CommitReplaces DEF Out
      <3>4. /\ Asked[q].dests = Dests(q)
            /\ Abs!Whole(Asked[q].img, Asked[q].count) = Whole(job[q].img, job[q].count)
        BY <3>2, <2>4 DEF Abs!Whole, Whole, Abs!Segs, Segs
      <3>5. Abs!Replace(q)
        BY <3>2, <3>3, <3>4, <2>5, <2>6, <2>7 DEF Abs!Replace
      <3> QED
        BY <3>5 DEF Abs!Next
    <2> QED
      BY <2>8, <2>9, <2>10
  <1>3. VInv /\ [Next]_vars => [Abs!Next]_<<Out, Asked>>
    <2> SUFFICES ASSUME VInv, [Next]_vars
                 PROVE  Abs!Next \/ UNCHANGED <<Out, Asked>>
      OBVIOUS
    <2>1. CASE Next
      BY <2>1, <1>2 DEF Next
    <2>2. CASE UNCHANGED vars
      BY <2>2 DEF vars, Out, Asked, Settled, Pending, Ready, Decided, Dests
    <2> QED
      BY <2>1, <2>2
  <1> QED
    BY <1>1, <1>3, OutputsInvariant, PTL DEF Spec, Atomic, Abs!Spec
=============================================================================
