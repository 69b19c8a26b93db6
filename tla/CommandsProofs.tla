--------------------------- MODULE CommandsProofs ---------------------------
(***************************************************************************)
(* Theorems about Commands.tla, for sources, buffers, trees and evidence   *)
(* of any size: what is copied is the source in order, exit code 0 of a    *)
(* transfer means a whole and identical copy, the report tells what is at  *)
(* the destination, an early stop leaves nothing there, a collection       *)
(* accounts for everything and charges its budget what it writes, the      *)
(* history of a session is honest whatever commands were killed, and a     *)
(* read of a disk that is served by the cache is a read of the disk.       *)
(*                                                                         *)
(* The first two rest on the stream of pieces between the two threads      *)
(* (Stream): what is taken, the buffer in use, the filled buffers and the  *)
(* result being sent are adjacent pieces of the source, in this order.     *)
(* Those of a collection rest on the walk (CollectionInv): nothing is      *)
(* known twice, a path is known because of its folder, and everything that *)
(* was below a listed folder is known.  That of a session rests on         *)
(* SessionInv: only the run of the command that records is open and        *)
(* counted short, by what that command has read since it recorded.  That   *)
(* of a disk rests on ReadingInv: readers differ by their disks, and every *)
(* cached page is what its reader has there.                               *)
(***************************************************************************)
EXTENDS Commands, LruOrderFacts, TLAPS

TransferLabels == {"preverify", "preflight", "copy", "wait", "check", "finish", "readback",
                   "verify", "publish"}
CollectionLabels == {"walk", "open", "read", "after", "staged", "verifying", "last", "persist",
                     "unpack", "unpacking", "unpacked"}
DiskLabels == {"opened"}
SessionLabels == {"history", "bind", "started", "create", "resume", "acquisition", "notify",
                  "reading", "taken", "read_error", "closing", "unchanged", "publication",
                  "link", "retire", "published", "verification", "end", "save"}
Labels == {"start", "failing", "exit"}
          \cup TransferLabels \cup CollectionLabels \cup DiskLabels \cup SessionLabels

----------------------------------------------------------------------------
(* The command and its report                                              *)

CollectJob == job.kind \in {"collect", "extract"}
JobOK == job \in Transfers \cup Collections \cup Extractions \cup Readings \cup Sessions

Report == [at : Labels, published : {"no", "unknown", "yes"},
           exit : {0, 1, 3, 4, 130, Killed}]

\* A command stands where its own kind can stand.
MainOK ==
    /\ JobOK
    /\ stop \in BOOLEAN /\ early \in BOOLEAN
    /\ main \in Report /\ output \in {"absent", "foreign", "ours"}
    /\ found.exit \in {0, 1, 3, 4}
    /\ main.at \in TransferLabels => IsTransfer
    /\ main.at \in CollectionLabels => CollectJob
    /\ main.at \in DiskLabels => Reading
    /\ main.at \in SessionLabels => InSession

\* What the report says of the destination, from the moment there may be something.
Publishing == {"finish", "readback", "failing", "exit"}
Told ==
    /\ main.published = "yes" => output = "ours"
    /\ main.published = "no" /\ ~InSession => output # "ours"
    /\ main.at \notin Publishing /\ ~InSession => main.published = "no"
    /\ main.at = "finish" => main.published = "unknown"
    /\ main.at = "readback" => main.published = "yes"
    /\ main.at = "retire" => output = "ours"
    /\ main.at = "failing" => main.exit # 0 /\ (IsTransfer => main.exit # 4)

\* After an early stop the command is still before that check, or on its way out.
Stopped ==
    early =>
        /\ stop /\ ~InSession /\ output # "ours"
        /\ \/ BeforeLastCheck
           \/ main.at = "failing"
           \/ Over /\ main.exit = 130
           \/ Over /\ main.exit \in {3, 4} /\ CollectJob

----------------------------------------------------------------------------
(* The stream of pieces                                                    *)

\* These are the pieces of the source behind the first `from' of them, each as it
\* was or, if it is number c, as it was changed to.
InOrder(data, from, c) ==
    \A i \in 1..Len(data) :
        data[i] = from + i \/ (c = from + i /\ data[i] = Size + from + i)

Result == [ok : BOOLEAN, data : Seq(Nat)]
Buffering == [free : Nat, filled : Seq(Result), current : Seq(Nat), held : BOOLEAN]
Producing == [at : {"recv", "read", "send", "ended"}, offset : Nat, result : Result]

\* The buffers: in the hands of the copying thread, or of the other.
InHand == IF ahead.held THEN 1 ELSE 0
InRead == IF producer.at \in {"read", "send"} THEN 1 ELSE 0

CopyOK ==
    /\ changed \in 0..Size /\ touched \in BOOLEAN
    /\ taken \in Seq(Nat) /\ Len(taken) <= Size /\ InOrder(taken, 0, changed)
    /\ ~IsTransfer \/ main.at = "start" => taken = <<>>
    /\ staged \in Seq(0..(2 * Size)) /\ Len(staged) = Len(taken)
    /\ ~ReadAhead => ahead = NoReader /\ producer = NoThread
    /\ ahead \in Buffering /\ producer \in Producing
    /\ ahead.free + Len(ahead.filled) + InHand + InRead <= Buffers
    /\ producer.offset <= Size
    /\ main.at = "wait" => ~ahead.held /\ ahead.current = <<>>

\* mark[k] pieces of the source are done, in the buffer in use or in one of the
\* first k filled ones.
Chain(filled, mark, c) ==
    /\ mark \in [0..Len(filled) -> 0..Size]
    /\ \A k \in 1..Len(filled) :
          /\ InOrder(filled[k].data, mark[k - 1], c)
          /\ mark[k] = mark[k - 1] + Len(filled[k].data)
\* The read-ahead thread goes on at `end', or has sent an error.
GoesOnAt(p, end, c) ==
    /\ p.at \in {"recv", "read"} => p.offset = end
    /\ p.at = "send" =>
          \/ /\ p.result.ok
             /\ InOrder(p.result.data, end, c) /\ p.offset = end + Len(p.result.data)
          \/ p.result = Error
Stream(done, current, filled, p, c) ==
    \E mark \in [0..Len(filled) -> 0..Size] :
        /\ InOrder(current, done, c) /\ mark[0] = done + Len(current)
        /\ Chain(filled, mark, c)
        /\ GoesOnAt(p, mark[Len(filled)], c)
Streaming == Stream(Len(taken), ahead.current, ahead.filled, producer, changed)

\* A change of anything but a device shows, and what was compared stays.
Compared ==
    /\ Len(taken) = Size /\ Agrees(taken)
    /\ job.kind # "device" => taken = Whole
Finished ==
    /\ job.kind # "device" /\ ~touched => changed = 0
    /\ main.at = "check" => Len(taken) = Size
    /\ main.at \in {"finish", "readback", "verify", "publish"} => Compared /\ job.target # "none"
    /\ main.at = "readback" => output = "ours"
    /\ main.at = "publish" => staged = taken
    /\ CleanExitMeansCopied

ReportInv == MainOK /\ Told /\ Stopped
CopyInv == CopyOK /\ Streaming /\ Finished
IInv == ReportInv /\ CopyInv

----------------------------------------------------------------------------
(* The report                                                              *)

\* Nobody is two kinds of command.
LEMMA KindsDiffer ==
    ASSUME JobOK
    PROVE  /\ job.kind \in {"device", "ewf", "aff4", "raw", "collect", "extract", "verify",
                            "entry", "set", "disk", "session"}
           /\ IsTransfer => /\ job.target \in {"ewf", "aff4", "raw", "none"}
                            /\ job.reference \in {"none", "match", "differ"}
    BY TransferAssumption, CollectionAssumption, DisksAssumption, SessionAssumption
       DEF JobOK, IsTransfer

\* What the ways of going on do to the report.
LEMMA Moves ==
    ASSUME main \in Report
    PROVE  /\ \A l \in Labels : Goto(l) =>
                 main' = [at |-> l, published |-> main.published, exit |-> main.exit]
           /\ \A c : Failing(c) =>
                 main' = [at |-> "failing", published |-> main.published, exit |-> c]
           /\ \A c : Exit(c) =>
                 main' = [at |-> "exit", published |-> main.published, exit |-> c]
           /\ \A c : Ends(c) =>
                 main' = [at |-> "end", published |-> main.published, exit |-> c]
    BY DEF Report, Goto, Failing, Exit, Ends

LEMMA MovesWithResult ==
    ASSUME main \in Report
    PROVE  /\ \A l, p : main' = [main EXCEPT !.at = l, !.published = p] =>
                 main' = [at |-> l, published |-> p, exit |-> main.exit]
           /\ \A l, p, c : main' = [main EXCEPT !.at = l, !.published = p, !.exit = c] =>
                 main' = [at |-> l, published |-> p, exit |-> c]
    BY DEF Report

LEMMA CodesOfCommands ==
    /\ \A outcomes : ExitOf(outcomes) \in {0, 3, 4}
    /\ \A bytes, reference : ExitOfDigest(bytes, reference) \in {0, 3, 4}
    BY DEF ExitOf, ExitOfDigest

LEMMA FoundCodes ==
    ASSUME NEW e PROVE Found(e).exit \in {0, 1, 3, 4}
  <1>1. VolumeExit(e) \in {0, 1, 3, 4}
    BY CodesOfCommands DEF VolumeExit
  <1>2. EntryExit(e) \in {0, 1, 3, 4}
    BY CodesOfCommands DEF EntryExit
  <1>3. SetExit(e, job.full, job.external) \in {0, 1, 3, 4}
    BY CodesOfCommands DEF SetExit
  <1> QED
    BY <1>1, <1>2, <1>3 DEF Found, Exits

LEMMA ReportInit == Init => ReportInv
  <1> SUFFICES ASSUME Init PROVE ReportInv
    OBVIOUS
  <1>1. found.exit \in {0, 1, 3, 4}
    BY FoundCodes DEF Init, DiskInit, Exits
  <1>2. MainOK
    BY <1>1 DEF Init, CliInit, MainOK, JobOK, Report, Labels, TransferLabels, CollectionLabels,
                DiskLabels, SessionLabels
  <1>3. Told /\ Stopped
    BY DEF Init, CliInit, Told, Stopped
  <1> QED
    BY <1>2, <1>3 DEF ReportInv

\* Steps that leave the report alone.
LEMMA ReportStays ==
    ASSUME ReportInv, UNCHANGED <<cliVars, found>>
    PROVE  ReportInv'
  <1>1. MainOK'
    BY DEF ReportInv, MainOK, cliVars, jobVars, JobOK, IsTransfer, CollectJob, Reading, InSession
  <1>2. Told'
    BY DEF ReportInv, Told, cliVars, jobVars, InSession, IsTransfer
  <1>3. Stopped'
    BY DEF ReportInv, Stopped, cliVars, jobVars, BeforeLastCheck, BeforeLastTransferCheck,
           BeforeLastDiskCheck, BeforeLastCollectionCheck, IsTransfer, CollectJob, Reading,
           InSession, Over
  <1> QED
    BY <1>1, <1>2, <1>3 DEF ReportInv

LEMMA BeforeFinishMoves ==
    ASSUME main \in Report, BeforeFinish
    PROVE  /\ main.at = "check" /\ job.target # "none" /\ UNCHANGED <<jobVars, output>>
           /\ \/ Failing(1)
              \/ Failing(3)
              \/ /\ ~stop /\ main.at = "check"
                 /\ \/ main' = [at |-> "finish", published |-> "unknown", exit |-> main.exit]
                    \/ main' = [at |-> "verify", published |-> main.published, exit |-> main.exit]
    BY MovesWithResult DEF BeforeFinish, OnlyMain, Report

LEMMA FinishEwfMoves ==
    ASSUME main \in Report, FinishEwf
    PROVE  /\ main.at = "finish" /\ UNCHANGED jobVars
           /\ \/ output' = "ours" /\ main' = [at |-> "readback", published |-> "yes", exit |-> main.exit]
              \/ output' \in {output, "ours"} /\ Failing(1)
    BY MovesWithResult DEF FinishEwf, OnlyOutput

\* Publish() puts the output there and says so, or neither.
LEMMA PublishMoves ==
    ASSUME main \in Report, NEW Done, NEW Late, Publish(Done, Late)
    PROVE  \/ output' = output /\ Failing(1)
           \/ /\ output' = "ours"
              /\ \/ main' = [at |-> Done[1], published |-> "yes", exit |-> Done[2]]
                 \/ main' = [at |-> Late[1], published |-> "yes", exit |-> Late[2]]
  <1>1. CASE output' = output /\ Failing(1)
    BY <1>1
  <1>2. CASE /\ output' = "ours"
             /\ \E end \in {Done, Late} :
                   main' = [main EXCEPT !.at = end[1], !.published = "yes", !.exit = end[2]]
    <2>1. PICK end \in {Done, Late} :
             main' = [main EXCEPT !.at = end[1], !.published = "yes", !.exit = end[2]]
      BY <1>2
    <2>2. main' = [at |-> end[1], published |-> "yes", exit |-> end[2]]
      BY <2>1, MovesWithResult
    <2> QED
      BY <1>2, <2>2
  <1> QED
    BY <1>1, <1>2 DEF Publish

\* The steps a copy ends with.
LEMMA ReadBackMoves ==
    ASSUME main \in Report, ReadBack
    PROVE  /\ main.at = "readback" /\ UNCHANGED <<jobVars, output>>
           /\ \/ Failing(1) \/ Failing(3)
              \/ staged = taken /\ \E code \in {0, 4} : Exit(code)
    BY DEF ReadBack, OnlyMain, CopyCodes

LEMMA PersistMoves ==
    ASSUME main \in Report, Persist
    PROVE  /\ main.at = "publish" /\ UNCHANGED jobVars
           /\ \/ output' = output /\ Failing(1)
              \/ /\ output' = "ours"
                 /\ \E end \in {<<"exit", 0>>, <<"exit", 4>>, <<"failing", 1>>} :
                       main' = [at |-> end[1], published |-> "yes", exit |-> end[2]]
  <1>1. PICK code \in {0, 4} : Publish(<<"exit", code>>, <<"failing", 1>>)
    BY DEF Persist, CopyCodes
  <1>2. <<"exit", code>> \in {<<"exit", 0>>, <<"exit", 4>>}
    BY <1>1
  <1> HIDE DEF Failing
  <1>3. \/ output' = output /\ Failing(1)
        \/ /\ output' = "ours"
           /\ \E end \in {<<"exit", code>>, <<"failing", 1>>} :
                 main' = [at |-> end[1], published |-> "yes", exit |-> end[2]]
    BY <1>1, PublishMoves
  <1> QED
    BY <1>2, <1>3 DEF Persist, OnlyOutput

LEMMA ReportCopyStep ==
    ASSUME ReportInv, CopyStep, UNCHANGED found
    PROVE  ReportInv'
  <1> USE KindsDiffer, Moves
      DEF ReportInv, MainOK, Told, Stopped, Report, Labels, TransferLabels, CollectionLabels,
          DiskLabels, SessionLabels, Publishing, JobOK, IsTransfer, CollectJob, Reading, InSession,
          BeforeLastCheck, BeforeLastTransferCheck, BeforeLastDiskCheck, BeforeLastCollectionCheck,
          Over, jobVars, OnlyMain, OnlyOutput, Killed
  <1>1. ASSUME NEW at \in {"preflight", "preverify"}, IsTransfer, Open(at)
        PROVE  ReportInv'
    BY <1>1 DEF Open
  <1>2. CASE Start
    BY <1>1, <1>2 DEF Start, StartAcquire, StartRaw, StartEwf, StartAff4
  <1>3. CASE Preverify
    BY <1>3 DEF Preverify
  <1>4. CASE Preflight
    BY <1>4 DEF Preflight
  <1>5. CASE CopyEnds
    BY <1>5 DEF CopyEnds
  <1>6. CASE CopyDirect
    BY <1>6 DEF CopyDirect, Copying
  <1>7. CASE CopyBuffered
    BY <1>7 DEF CopyBuffered, Copying
  <1>8. CASE CopyRecycle
    BY <1>8 DEF CopyRecycle, Copying
  <1>9. CASE CopyRecv
    BY <1>9 DEF CopyRecv
  <1>10. CASE BeforeFinish
    BY <1>10, BeforeFinishMoves
  <1>11. CASE FinishEwf
    BY <1>11, FinishEwfMoves
  <1>12. CASE ReadBack
    BY <1>12, ReadBackMoves
  <1>13. CASE VerifyStaged
    BY <1>13 DEF VerifyStaged
  <1>14. CASE Persist
    BY <1>14, PersistMoves
  <1>15. CASE VerifyRaw
    BY <1>15 DEF VerifyRaw
  <1> QED
    BY <1>2, <1>3, <1>4, <1>5, <1>6, <1>7, <1>8, <1>9, <1>10, <1>11, <1>12, <1>13, <1>14,
       <1>15 DEF CopyStep

LEMMA ReportCollectStep ==
    ASSUME ReportInv, CollectStep, UNCHANGED found
    PROVE  ReportInv'
  <1> USE KindsDiffer, Moves
      DEF ReportInv, MainOK, Told, Stopped, Report, Labels, TransferLabels, CollectionLabels,
          DiskLabels, SessionLabels, Publishing, JobOK, IsTransfer, CollectJob, Reading, InSession,
          BeforeLastCheck, BeforeLastTransferCheck, BeforeLastDiskCheck, BeforeLastCollectionCheck,
          Over, jobVars, OnlyWalk, OnlyEnd, Killed
  <1>1. ASSUME NEW at \in {"walk", "open", "read"}, NEW w, WalkOn(at, w)
        PROVE  Failing(1) \/ main' = [at |-> at, published |-> main.published, exit |-> main.exit]
    BY <1>1 DEF WalkOn
  <1>2. CASE StartCollect
    BY <1>1, <1>2 DEF StartCollect
  <1>3. CASE WalkStopped
    BY <1>3 DEF WalkStopped
  <1>4. CASE VisitExcluded
    BY <1>1, <1>4 DEF VisitExcluded, Visiting
  <1>5. CASE VisitSkipped
    BY <1>1, <1>5 DEF VisitSkipped, Visiting
  <1>6. CASE VisitFolder
    <2>1. Visiting /\ OnlyWalk /\ (Failing(1) \/ \E w : WalkOn("walk", w))
      BY <1>6 DEF VisitFolder
    <2>2. Failing(1) \/ main' = [at |-> "walk", published |-> main.published, exit |-> main.exit]
      BY <1>1, <2>1
    <2> QED
      BY <2>1, <2>2 DEF Visiting
  <1>7. CASE VisitFile
    BY <1>1, <1>7 DEF VisitFile, Visiting
  <1>8. CASE OpenFile
    BY <1>1, <1>8 DEF OpenFile
  <1>9. CASE ReadPiece
    BY <1>9 DEF ReadPiece
  <1>10. CASE AfterFile
    BY <1>1, <1>10 DEF AfterFile
  <1>11. CASE Finish
    BY <1>11 DEF Finish
  <1>12. CASE StartVerify
    BY <1>12 DEF StartVerify
  <1>13. CASE VerifyContainer
    BY <1>13 DEF VerifyContainer
  <1>14. CASE LastCheck
    BY <1>14 DEF LastCheck
  <1>15. CASE PublishContainer
    BY <1>15, PublishMoves DEF PublishContainer, CollectionExit, Unsynced
  <1>16. CASE StartExtract
    BY <1>16 DEF StartExtract
  <1>17. CASE StartUnpack
    BY <1>17 DEF StartUnpack
  <1>18. CASE Unpack
    BY <1>18 DEF Unpack
  <1>19. CASE CheckUnpacked
    BY <1>19 DEF CheckUnpacked
  <1>20. CASE PublishFile
    BY <1>20, PublishMoves DEF PublishFile
  <1> QED
    BY <1>2, <1>3, <1>4, <1>5, <1>6, <1>7, <1>8, <1>9, <1>10, <1>11, <1>12, <1>13, <1>14,
       <1>15, <1>16, <1>17, <1>18, <1>19, <1>20 DEF CollectStep

LEMMA ReportDiskStep ==
    ASSUME ReportInv, DiskStep
    PROVE  ReportInv'
  <1> USE KindsDiffer, Moves
      DEF ReportInv, MainOK, Told, Stopped, Report, Labels, TransferLabels, CollectionLabels,
          DiskLabels, SessionLabels, Publishing, JobOK, IsTransfer, CollectJob, Reading, InSession,
          BeforeLastCheck, BeforeLastTransferCheck, BeforeLastDiskCheck, BeforeLastCollectionCheck,
          Over, jobVars, OnlyReport, diskVars, Killed
  <1>1. ASSUME NEW kind \in {"verify", "entry", "set"}, Verify(kind)
        PROVE  ReportInv'
    BY <1>1 DEF Verify
  <1>2. CASE DiscoverDisks
    BY <1>2 DEF DiscoverDisks
  <1>3. CASE CloseDisk
    BY <1>3 DEF CloseDisk
  <1> QED
    BY <1>1, <1>2, <1>3 DEF DiskStep, VerifyVolume, VerifyEntry, VerifySet

\* Where a command goes on after a record that may be of two kinds.
LEMMA RecordMoves ==
    /\ BindSession => main.at = "bind" /\ OnlyRun /\ (Goto("started") \/ Exit(1))
    /\ NewCheckpoint => main.at = "notify" /\ OnlyRun /\ (Goto("notify") \/ Goto("closing"))
    /\ ReadError => main.at = "read_error" /\ OnlyRun /\ (Goto("reading") \/ Goto("closing"))
  <1>1. BindSession => main.at = "bind" /\ OnlyRun /\ (Goto("started") \/ Exit(1))
    BY DEF BindSession, Event
  <1>2. NewCheckpoint => main.at = "notify" /\ OnlyRun /\ (Goto("notify") \/ Goto("closing"))
    BY DEF NewCheckpoint, Event
  <1>3. ReadError => main.at = "read_error" /\ OnlyRun /\ (Goto("reading") \/ Goto("closing"))
    BY DEF ReadError, Event
  <1> QED
    BY <1>1, <1>2, <1>3

LEMMA RetireMoves ==
    ASSUME main \in Report, RetireJournal
    PROVE  /\ main.at = "retire" /\ OnlyRun
           /\ \/ Ends(1)
              \/ main' = [at |-> "published", published |-> "yes", exit |-> main.exit]
    BY MovesWithResult DEF RetireJournal

\* A session has no early stop, and publishes by itself.
LEMMA ReportSessionStep ==
    ASSUME ReportInv, SessionBegins \/ SessionStep \/ Kill \/ NextCommand, UNCHANGED found
    PROVE  ReportInv'
  <1> USE KindsDiffer, Moves
      DEF ReportInv, MainOK, Told, Stopped, Report, Labels, TransferLabels, CollectionLabels,
          DiskLabels, SessionLabels, Publishing, JobOK, IsTransfer, CollectJob, Reading, InSession,
          BeforeLastCheck, Over, jobVars, OnlySession, OnlyRun, Killed
  <1>1. ASSUME NEW event, NEW r, NEW Then, NEW Otherwise, Event(event, r, Then, Otherwise)
        PROVE  Then \/ Otherwise
    BY <1>1 DEF Event
  <1>2. ASSUME NEW command \in {"acquire", "resume", "report"}, Begin(command)
        PROVE  ReportInv'
    <2>1. InSession /\ main.at = "start" /\ UNCHANGED <<jobVars, output>>
      BY <1>2 DEF Begin
    <2>2. Goto("history") \/ Exit(0) \/ Exit(1)
      BY <1>2 DEF Begin, BeginAcquire, BeginResume, WriteReport
    <2> QED
      BY <2>1, <2>2
  <1>3. CASE OpenHistory
    BY <1>3 DEF OpenHistory
  <1>4. CASE BindSession
    BY <1>4, RecordMoves
  <1>5. CASE StartRun
    BY <1>1, <1>5 DEF StartRun
  <1>6. CASE CreateWriter
    BY <1>6 DEF CreateWriter
  <1>7. CASE ResumeWriter
    BY <1>1, <1>7 DEF ResumeWriter, Unstopped
  <1>8. CASE EnterAcquisition
    BY <1>1, <1>8 DEF EnterAcquisition
  <1>9. CASE NewCheckpoint
    BY <1>9, RecordMoves
  <1>10. CASE Notified
    BY <1>10 DEF Notified, Break, Proceed
  <1>11. CASE ReadSource
    BY <1>11 DEF ReadSource
  <1>12. CASE Seal
    BY <1>12 DEF Seal, Break
  <1>13. CASE ReadError
    BY <1>13, RecordMoves
  <1>14. CASE Close
    BY <1>1, <1>14 DEF Close, EndOf
  <1>15. CASE CheckUnchanged
    BY <1>1, <1>15 DEF CheckUnchanged
  <1>16. CASE MarkPublishing
    BY <1>16 DEF MarkPublishing
  <1>17. CASE LinkSegments
    BY <1>17 DEF LinkSegments, Unstopped
  <1>18. CASE RetireJournal
    BY <1>18, RetireMoves
  <1>19. CASE RecordPublished
    BY <1>1, <1>19 DEF RecordPublished
  <1>20. CASE VerifyImage
    BY <1>1, <1>20 DEF VerifyImage
  <1>21. CASE EndRun
    BY <1>1, <1>21 DEF EndRun
  <1>22. CASE SaveReport
    BY <1>22 DEF SaveReport
  <1>23. CASE Kill
    BY <1>23 DEF Kill
  <1>24. CASE NextCommand
    BY <1>24 DEF NextCommand
  <1> QED
    BY <1>2, <1>3, <1>4, <1>5, <1>6, <1>7, <1>8, <1>9, <1>10, <1>11, <1>12, <1>13, <1>14,
       <1>15, <1>16, <1>17, <1>18, <1>19, <1>20, <1>21, <1>22, <1>23, <1>24
       DEF SessionStep, SessionBegins

\* Before the last check for a stop nothing is published.
LEMMA CancelMoves ==
    ASSUME JobOK, Cancel
    PROVE  /\ ~Over /\ stop' = TRUE /\ UNCHANGED <<job, main, output, found>>
           /\ early' \in BOOLEAN
           /\ early' => BeforeLastCheck /\ BeforeLastCheck' /\ ~InSession /\ main.at \notin Publishing
  <1>1. ~Over /\ stop' = TRUE /\ UNCHANGED <<job, main, output, found>> /\ early' = BeforeLastCheck
    BY Zenon DEF Cancel, StopWhen, AtCommand, AtSession, diskVars
  <1> USE KindsDiffer
      DEF BeforeLastCheck, BeforeLastTransferCheck, BeforeLastDiskCheck, BeforeLastCollectionCheck,
          IsTransfer, Reading, InSession, Publishing
  <1>2. BeforeLastCheck = TRUE \/ BeforeLastCheck = FALSE
    <2>1. CASE IsTransfer
      OBVIOUS
    <2>2. CASE Reading
      OBVIOUS
    <2>3. CASE InSession
      OBVIOUS
    <2>4. CASE ~(IsTransfer \/ Reading \/ InSession)
      OBVIOUS
    <2> QED
      BY <2>1, <2>2, <2>3, <2>4
  <1>3. BeforeLastCheck => ~InSession /\ main.at \notin Publishing
    OBVIOUS
  <1>4. BeforeLastCheck => BeforeLastCheck'
    BY <1>1
  <1> HIDE DEF BeforeLastCheck
  <1> QED
    BY <1>1, <1>2, <1>3, <1>4

LEMMA ReportCancel ==
    ASSUME ReportInv, Cancel
    PROVE  ReportInv'
  <1>1. JobOK /\ JobOK'
    BY CancelMoves DEF ReportInv, MainOK, JobOK
  <1>2. /\ ~Over /\ stop' = TRUE /\ UNCHANGED <<job, main, output, found>>
        /\ early' \in BOOLEAN
        /\ early' => BeforeLastCheck /\ BeforeLastCheck' /\ ~InSession /\ main.at \notin Publishing
    BY <1>1, CancelMoves
  <1>3. MainOK'
    BY <1>1, <1>2 DEF ReportInv, MainOK, IsTransfer, CollectJob, Reading, InSession
  <1>4. Told'
    BY <1>2 DEF ReportInv, Told, InSession, IsTransfer
  <1>5. Stopped'
    BY <1>2 DEF ReportInv, Told, Stopped, InSession
  <1> QED
    BY <1>3, <1>4, <1>5 DEF ReportInv

\* The steps of any command.
LEMMA ReportSharedStep ==
    ASSUME ReportInv, CommandFails \/ Cancel \/ Interfere
    PROVE  ReportInv'
  <1> USE KindsDiffer, Moves
      DEF ReportInv, MainOK, Told, Stopped, Report, Labels, TransferLabels, CollectionLabels,
          DiskLabels, SessionLabels, Publishing, JobOK, IsTransfer, CollectJob, Reading, InSession,
          BeforeLastCheck, BeforeLastTransferCheck, BeforeLastDiskCheck, BeforeLastCollectionCheck,
          Over, jobVars, diskVars, AtCommand, AtSession, Killed
  <1>1. CASE CommandFails
    BY <1>1 DEF CommandFails, ReportFailure
  <1>2. CASE Cancel
    BY <1>2, ReportCancel
  <1>3. CASE Interfere
    BY <1>3 DEF Interfere, Appear, Writes
  <1> QED
    BY <1>1, <1>2, <1>3

LEMMA ReportNext == ReportInv /\ [Next]_vars => ReportInv'
  <1> SUFFICES ASSUME ReportInv, [Next]_vars PROVE ReportInv'
    OBVIOUS
  <1>1. CASE TransferNext /\ AtTransfer
    <2>1. CASE CopyStep
      BY <1>1, <2>1, ReportCopyStep DEF AtTransfer, diskVars
    <2>2. CASE ProducerStep
      BY <1>1, <2>2, ReportStays
         DEF ProducerStep, ProducerRecv, ProducerRead, ProducerSend, OnlyProducer, AtTransfer, diskVars
    <2>3. CASE (\E i \in 1..Size : Change(i)) \/ Replaced
      BY <1>1, <2>3, ReportStays DEF Change, Replaced, AtTransfer, diskVars
    <2> QED
      BY <1>1, <2>1, <2>2, <2>3 DEF TransferNext
  <1>2. CASE CollectionNext /\ AtCollection
    <2>1. CASE CollectStep
      BY <1>2, <2>1, ReportCollectStep DEF AtCollection, diskVars
    <2>2. CASE \E p \in Paths : TreeChange(p)
      BY <1>2, <2>2, ReportStays DEF TreeChange, AtCollection, diskVars
    <2> QED
      BY <1>2, <2>1, <2>2 DEF CollectionNext
  <1>3. CASE DiskNext /\ AtDisk
    <2>1. CASE DiskStep
      BY <2>1, ReportDiskStep
    <2>2. ASSUME NEW reader \in found.readers, NEW request \in Requests,
                 ReadDisk(reader, request[1], request[2])
          PROVE  ReportInv'
      BY <2>2, ReportStays DEF ReadDisk
    <2> QED
      BY <1>3, <2>1, <2>2 DEF DiskNext
  <1>4. CASE SessionNext /\ AtSession
    BY <1>4, ReportSessionStep DEF SessionNext, AtSession, diskVars
  <1>5. CASE CommandFails \/ Cancel \/ Interfere
    BY <1>5, ReportSharedStep
  <1>6. CASE UNCHANGED vars
    BY <1>6, ReportStays DEF vars, diskVars
  <1> QED
    BY <1>1, <1>2, <1>3, <1>4, <1>5, <1>6 DEF Next

LEMMA ReportAlways == FairSpec => []ReportInv
    BY ReportInit, ReportNext, PTL DEF FairSpec

\* docs/ewf-cli.md:199: the report of a command never denies an output that is
\* there and never claims one that is not, for every command, and whatever fails
\* (Cli!Publish, FinishEwf, RetireJournal).
THEOREM ReportIsTrue == FairSpec => []PublishedTold
  <1>1. ReportInv => PublishedTold
    BY KindsDiffer DEF ReportInv, MainOK, Told, PublishedTold, InSession
  <1> QED
    BY <1>1, ReportAlways, PTL

\* A stop that comes before a command's last look at the flag leaves nothing at
\* the destination, and the exit code says why (Context::check).
THEOREM EarlyStopLeavesNothing == FairSpec => []EarlyStopCancels
  <1>1. ReportInv => EarlyStopCancels
    BY KindsDiffer
       DEF ReportInv, MainOK, Stopped, EarlyStopCancels, CollectJob, Over, BeforeLastCheck,
           BeforeLastTransferCheck, BeforeLastDiskCheck, BeforeLastCollectionCheck, IsTransfer,
           Reading, InSession
  <1> QED
    BY <1>1, ReportAlways, PTL

----------------------------------------------------------------------------
(* Pieces in order                                                         *)

LEMMA InOrderEmpty ==
    ASSUME NEW p, NEW c PROVE InOrder(<<>>, p, c)
    BY DEF InOrder

LEMMA InOrderConcat ==
    ASSUME NEW s \in Seq(Nat), NEW t \in Seq(Nat), NEW p \in Nat, NEW c \in Nat,
           InOrder(s, p, c), InOrder(t, p + Len(s), c)
    PROVE  InOrder(s \o t, p, c)
  <1> SUFFICES ASSUME NEW i \in 1..Len(s \o t)
               PROVE  (s \o t)[i] = p + i \/ (c = p + i /\ (s \o t)[i] = Size + p + i)
    BY DEF InOrder
  <1>1. CASE i <= Len(s)
    BY <1>1 DEF InOrder
  <1>2. CASE i > Len(s)
    <2> DEFINE j == i - Len(s)
    <2>1. j \in 1..Len(t) /\ (s \o t)[i] = t[j]
      BY <1>2
    <2>2. t[j] = p + Len(s) + j \/ (c = p + Len(s) + j /\ t[j] = Size + (p + Len(s)) + j)
      BY <2>1 DEF InOrder
    <2> QED
      BY <2>1, <2>2, TransferAssumption
  <1> QED
    BY <1>1, <1>2

\* A buffer is used from its front.
LEMMA InOrderSplit ==
    ASSUME NEW s \in Seq(Nat), NEW p \in Nat, NEW c \in Nat, NEW n \in 0..Len(s),
           InOrder(s, p, c)
    PROVE  /\ SubSeq(s, 1, n) \in Seq(Nat) /\ Len(SubSeq(s, 1, n)) = n
           /\ SubSeq(s, n + 1, Len(s)) \in Seq(Nat)
           /\ Len(SubSeq(s, n + 1, Len(s))) = Len(s) - n
           /\ InOrder(SubSeq(s, 1, n), p, c)
           /\ InOrder(SubSeq(s, n + 1, Len(s)), p + n, c)
  <1>1. /\ SubSeq(s, 1, n) \in Seq(Nat) /\ Len(SubSeq(s, 1, n)) = n
        /\ \A i \in 1..n : SubSeq(s, 1, n)[i] = s[i]
    OBVIOUS
  <1>2. /\ SubSeq(s, n + 1, Len(s)) \in Seq(Nat)
        /\ Len(SubSeq(s, n + 1, Len(s))) = Len(s) - n
        /\ \A i \in 1..(Len(s) - n) : SubSeq(s, n + 1, Len(s))[i] = s[n + i]
    OBVIOUS
  <1>3. InOrder(SubSeq(s, 1, n), p, c)
    BY <1>1 DEF InOrder
  <1>4. InOrder(SubSeq(s, n + 1, Len(s)), p + n, c)
    <2> SUFFICES ASSUME NEW i \in 1..(Len(s) - n)
                 PROVE  \/ s[n + i] = p + n + i
                        \/ c = p + n + i /\ s[n + i] = Size + (p + n) + i
      BY <1>2 DEF InOrder
    <2>1. n + i \in 1..Len(s)
      OBVIOUS
    <2>2. s[n + i] = p + (n + i) \/ (c = p + (n + i) /\ s[n + i] = Size + p + (n + i))
      BY <2>1 DEF InOrder
    <2> QED
      BY <2>2, TransferAssumption
  <1> QED
    BY <1>1, <1>2, <1>3, <1>4

\* What is read of the source is in order.
LEMMA PiecesInOrder ==
    ASSUME NEW p \in Nat, NEW n \in Nat, changed \in Nat
    PROVE  /\ Pieces(p, n) \in Seq(Nat) /\ Len(Pieces(p, n)) = n
           /\ InOrder(Pieces(p, n), p, changed)
    BY TransferAssumption DEF Pieces, Piece, InOrder

\* A change of the source does not reach what was read before.
LEMMA InOrderStays ==
    ASSUME NEW data, NEW p \in Nat, NEW c, InOrder(data, p, 0)
    PROVE  InOrder(data, p, c)
    BY DEF InOrder

----------------------------------------------------------------------------
(* Filled buffers                                                          *)

LEMMA ChainEmpty ==
    ASSUME NEW p \in 0..Size, NEW c
    PROVE  /\ [k \in {0} |-> p] \in [0..Len(<<>>) -> 0..Size]
           /\ Chain(<<>>, [k \in {0} |-> p], c)
  <1>1. 0..Len(<<>>) = {0}
    OBVIOUS
  <1> QED
    BY <1>1 DEF Chain

LEMMA ChainTail ==
    ASSUME NEW filled \in Seq(Result), filled # <<>>, NEW mark, NEW c, Chain(filled, mark, c)
    PROVE  LET rest == [k \in 0..Len(Tail(filled)) |-> mark[k + 1]]
           IN  /\ Chain(Tail(filled), rest, c)
               /\ InOrder(Head(filled).data, mark[0], c)
               /\ rest[0] = mark[0] + Len(Head(filled).data)
               /\ rest[Len(Tail(filled))] = mark[Len(filled)]
  <1> DEFINE n == Len(filled)
             rest == [k \in 0..Len(Tail(filled)) |-> mark[k + 1]]
  <1>1. n \in Nat /\ n >= 1 /\ Len(Tail(filled)) = n - 1 /\ Head(filled) = filled[1]
    OBVIOUS
  <1>2. \A k \in 1..(n - 1) : Tail(filled)[k] = filled[k + 1]
    OBVIOUS
  <1>3. \A k \in 1..n : /\ InOrder(filled[k].data, mark[k - 1], c)
                        /\ mark[k] = mark[k - 1] + Len(filled[k].data)
    BY DEF Chain
  <1>4. rest \in [0..(n - 1) -> 0..Size]
    BY <1>1 DEF Chain
  <1>5. ASSUME NEW k \in 1..(n - 1)
        PROVE  /\ InOrder(Tail(filled)[k].data, rest[k - 1], c)
               /\ rest[k] = rest[k - 1] + Len(Tail(filled)[k].data)
    <2>1. rest[k] = mark[k + 1] /\ rest[k - 1] = mark[k]
      BY <1>1
    <2>2. k + 1 \in 1..n /\ (k + 1) - 1 = k
      BY <1>1
    <2>3. InOrder(filled[k + 1].data, mark[k], c) /\ mark[k + 1] = mark[k] + Len(filled[k + 1].data)
      BY <1>3, <2>2
    <2> QED
      BY <1>2, <2>1, <2>3
  <1>6. Chain(Tail(filled), rest, c)
    BY <1>1, <1>4, <1>5 DEF Chain
  <1>7. rest[0] = mark[1] /\ rest[n - 1] = mark[n]
    BY <1>1
  <1>8. InOrder(filled[1].data, mark[0], c) /\ mark[1] = mark[0] + Len(filled[1].data)
    BY <1>1, <1>3
  <1> QED
    BY <1>1, <1>6, <1>7, <1>8

\* The filled buffers begin behind `from' pieces of the source and end behind `end'.
Chained(filled, from, end, c) ==
    \E mark \in [0..Len(filled) -> 0..Size] :
        Chain(filled, mark, c) /\ mark[0] = from /\ mark[Len(filled)] = end

LEMMA ChainAppend ==
    ASSUME NEW filled \in Seq(Result), NEW from, NEW last \in 0..Size, NEW c,
           Chained(filled, from, last, c),
           NEW r \in Result, NEW data, data = r.data, InOrder(data, last, c),
           NEW end \in 0..Size, end = last + Len(data)
    PROVE  Chained(Append(filled, r), from, end, c)
  <1>0. PICK mark \in [0..Len(filled) -> 0..Size] :
           Chain(filled, mark, c) /\ mark[0] = from /\ mark[Len(filled)] = last
    BY DEF Chained
  <1> DEFINE n == Len(filled)
             more == [k \in 0..Len(Append(filled, r)) |-> IF k <= n THEN mark[k] ELSE end]
  <1>1. n \in Nat /\ Len(Append(filled, r)) = n + 1
    OBVIOUS
  <1>2. Append(filled, r)[n + 1] = r /\ \A k \in 1..n : Append(filled, r)[k] = filled[k]
    OBVIOUS
  <1>3. more \in [0..(n + 1) -> 0..Size]
    BY <1>0, <1>1 DEF Chain
  <1>4. \A k \in 0..n : more[k] = mark[k]
    BY <1>1
  <1>5. more[n + 1] = end
    BY <1>1
  <1>6. \A k \in 1..n : /\ InOrder(filled[k].data, mark[k - 1], c)
                        /\ mark[k] = mark[k - 1] + Len(filled[k].data)
    BY <1>0 DEF Chain
  <1> HIDE DEF more
  <1>7. ASSUME NEW k \in 1..(n + 1)
        PROVE  /\ InOrder(Append(filled, r)[k].data, more[k - 1], c)
               /\ more[k] = more[k - 1] + Len(Append(filled, r)[k].data)
    <2>1. CASE k = n + 1
      BY <1>0, <1>1, <1>2, <1>4, <1>5, <2>1
    <2>2. CASE k \in 1..n
      <3>1. more[k] = mark[k] /\ more[k - 1] = mark[k - 1]
        BY <1>1, <1>4, <2>2
      <3> QED
        BY <1>2, <1>6, <2>2, <3>1
    <2> QED
      BY <1>1, <2>1, <2>2
  <1>8. Chain(Append(filled, r), more, c)
    BY <1>1, <1>3, <1>7 DEF Chain
  <1>9. more[0] = from /\ more[Len(Append(filled, r))] = end
    BY <1>0, <1>1, <1>4, <1>5
  <1> QED
    BY <1>1, <1>3, <1>8, <1>9 DEF Chained

LEMMA ChainStays ==
    ASSUME NEW filled \in Seq(Result), NEW mark, NEW c, Chain(filled, mark, 0)
    PROVE  Chain(filled, mark, c)
  <1>1. \A k \in 1..Len(filled) : mark[k - 1] \in Nat
    BY SMTT(30), TransferAssumption DEF Chain
  <1> QED
    BY <1>1, InOrderStays DEF Chain

----------------------------------------------------------------------------
(* The copy                                                                *)

\* The parts of CopyOK that a step may change one by one.
TakenOK(done, c) == done \in Seq(Nat) /\ Len(done) <= Size /\ InOrder(done, 0, c)
StagedOK == staged \in Seq(0..(2 * Size)) /\ Len(staged) = Len(taken)
BuffersKept(a, p) ==
    a.free + Len(a.filled) + (IF a.held THEN 1 ELSE 0)
      + (IF p.at \in {"read", "send"} THEN 1 ELSE 0) <= Buffers
ReadersOK(a, p) ==
    a \in Buffering /\ p \in Producing /\ BuffersKept(a, p) /\ p.offset <= Size

CopyAll ==
    /\ changed \in 0..Size /\ touched \in BOOLEAN
    /\ TakenOK(taken, changed)
    /\ ~IsTransfer \/ main.at = "start" => taken = <<>>
    /\ ~ReadAhead => ahead = NoReader /\ producer = NoThread
    /\ StagedOK /\ ReadersOK(ahead, producer)
    /\ main.at = "wait" => ~ahead.held /\ ahead.current = <<>>
LEMMA CopyParts == (CopyOK <=> CopyAll) /\ (CopyOK' <=> CopyAll')
    BY DEF CopyOK, CopyAll, TakenOK, StagedOK, ReadersOK, BuffersKept, InHand, InRead

LEMMA NewReaders ==
    /\ NoReader = [free |-> 0, filled |-> <<>>, current |-> <<>>, held |-> FALSE]
    /\ NewReader \in Buffering
    /\ NewReader.free = Buffers /\ NewReader.filled = <<>>
    /\ NewReader.current = <<>> /\ NewReader.held = FALSE
    /\ NoThread = [at |-> "ended", offset |-> 0, result |-> Error]
    /\ [NoThread EXCEPT !.at = "recv"] = [at |-> "recv", offset |-> 0, result |-> Error]
  <1>1. NoReader = [free |-> 0, filled |-> <<>>, current |-> <<>>, held |-> FALSE]
    BY DEF NoReader
  <1>2. /\ NewReader \in Buffering
        /\ NewReader.free = Buffers /\ NewReader.filled = <<>>
        /\ NewReader.current = <<>> /\ NewReader.held = FALSE
    <2>1. NoReader \in Buffering /\ Buffers \in Nat
      BY <1>1, TransferAssumption DEF Buffering
    <2>2. /\ NoReader.filled = <<>> /\ NoReader.current = <<>> /\ NoReader.held = FALSE
      BY <1>1
    <2> QED
      BY <2>1, <2>2 DEF NewReader, Buffering
  <1>3. NoThread = [at |-> "ended", offset |-> 0, result |-> Error]
    BY DEF NoThread
  <1>4. [NoThread EXCEPT !.at = "recv"] = [at |-> "recv", offset |-> 0, result |-> Error]
    BY <1>3
  <1> QED
    BY <1>1, <1>2, <1>3, <1>4

LEMMA ReadersStart ==
    /\ ReadersOK(NoReader, NoThread)
    /\ ReadersOK(NewReader, [NoThread EXCEPT !.at = "recv"])
    /\ \A d \in 0..Size, c \in 0..Size : Stream(d, <<>>, <<>>, NoThread, c)
    /\ \A c : Stream(0, <<>>, <<>>, [NoThread EXCEPT !.at = "recv"], c)
  <1>1. Error \in Result /\ <<>> \in Seq(Nat) /\ <<>> \in Seq(Result) /\ Len(<<>>) = 0
    BY DEF Error, Result
  <1>2. ReadersOK(NoReader, NoThread)
    BY <1>1, NewReaders, TransferAssumption DEF ReadersOK, Buffering, Producing, BuffersKept
  <1>3. ReadersOK(NewReader, [NoThread EXCEPT !.at = "recv"])
    BY <1>1, NewReaders, TransferAssumption DEF ReadersOK, Buffering, Producing, BuffersKept
  <1>4. ASSUME NEW c, NEW d \in 0..Size, NEW p, p.at \in {"recv", "ended"},
               p.at = "recv" => p.offset = d
        PROVE  Stream(d, <<>>, <<>>, p, c)
    <2> DEFINE mark == [k \in {0} |-> d]
    <2>1. mark \in [0..Len(<<>>) -> 0..Size] /\ Chain(<<>>, mark, c)
      BY ChainEmpty, TransferAssumption
    <2>2. mark[0] = d /\ d + 0 = d
      OBVIOUS
    <2> QED
      BY <1>1, <1>4, <2>1, <2>2, InOrderEmpty DEF Stream, GoesOnAt
  <1>5. 0 \in 0..Size
    BY TransferAssumption
  <1> QED
    BY <1>2, <1>3, <1>4, <1>5, NewReaders

LEMMA CopyInit == Init => CopyOK /\ Streaming
  <1> SUFFICES ASSUME Init PROVE CopyOK /\ Streaming
    OBVIOUS
  <1>1. TakenOK(taken, changed) /\ StagedOK /\ taken = <<>>
    BY InOrderEmpty, TransferAssumption DEF Init, TransferInit, TakenOK, StagedOK
  <1>2. CopyOK
    <2>1. ReadersOK(ahead, producer)
      <3>1. ahead = NoReader /\ producer = NoThread
        BY DEF Init, TransferInit
      <3> QED
        BY <3>1, ReadersStart
    <2>2. changed \in 0..Size /\ touched \in BOOLEAN
      <3>1. changed = 0 /\ touched = FALSE
        BY DEF Init, TransferInit
      <3>2. 0 \in 0..Size
        BY TransferAssumption
      <3> QED
        BY <3>1, <3>2
    <2>3. main.at = "start" /\ ahead = NoReader /\ producer = NoThread
      BY DEF Init, CliInit, TransferInit
    <2> QED
      BY <1>1, <2>1, <2>2, <2>3, CopyParts DEF CopyAll
  <1>3. Streaming
    <2>1. /\ taken = <<>> /\ ahead = NoReader /\ producer = NoThread /\ changed = 0
          /\ 0 \in 0..Size
      BY TransferAssumption DEF Init, TransferInit
    <2>2. ahead.current = <<>> /\ ahead.filled = <<>> /\ Len(taken) = 0
      BY <2>1, NewReaders
    <2>3. Stream(0, <<>>, <<>>, NoThread, 0)
      BY <2>1, ReadersStart
    <2> QED
      BY <2>1, <2>2, <2>3 DEF Streaming
  <1> QED
    BY <1>2, <1>3

\* Steps that leave the copy alone.
LEMMA CopyStays ==
    ASSUME CopyOK, Streaming,
           UNCHANGED <<job, sourceVars, taken, staged, readerVars>>,
           main'.at = "wait" => main.at = "wait",
           main'.at = "start" => main.at = "start" \/ ~IsTransfer
    PROVE  CopyOK' /\ Streaming'
  <1> USE DEF sourceVars, readerVars
  <1>1. CopyOK'
    BY DEF CopyOK, InHand, InRead, IsTransfer, ReadAhead
  <1>2. Streaming'
    BY DEF Streaming
  <1> QED
    BY <1>1, <1>2

LEMMA InSeq ==
    ASSUME NEW S, NEW T, NEW s \in Seq(T), \A i \in 1..Len(s) : s[i] \in S
    PROVE  s \in Seq(S)
  <1>1. Len(s) \in Nat /\ s \in [1..Len(s) -> T]
    OBVIOUS
  <1>2. s \in [1..Len(s) -> S]
    BY <1>1
  <1>3. \A n \in Nat : [1..n -> S] \subseteq Seq(S)
    OBVIOUS
  <1> QED
    BY <1>1, <1>2, <1>3

LEMMA ConcatInSeq ==
    ASSUME NEW S, NEW s \in Seq(S), NEW t \in Seq(S)
    PROVE  s \o t \in Seq(S) /\ Len(s \o t) = Len(s) + Len(t)
    OBVIOUS

LEMMA InOrderBounded ==
    ASSUME NEW data \in Seq(Nat), NEW p \in Nat, NEW c \in Nat, InOrder(data, p, c),
           p + Len(data) <= Size
    PROVE  data \in Seq(0..(2 * Size))
  <1>1. PICK n \in Nat : n = Len(data)
    OBVIOUS
  <1>2. Size \in Nat
    BY TransferAssumption
  <1>3. ASSUME NEW i \in 1..n PROVE data[i] \in 0..(2 * Size)
    <2>1. data[i] = p + i \/ data[i] = Size + p + i
      BY <1>1, <1>3 DEF InOrder
    <2>2. p + i <= Size
      BY <1>1, <1>2, <1>3
    <2> QED
      BY <1>2, <2>1, <2>2
  <1> QED
    BY <1>1, <1>3, InSeq

\* Hashing pieces that come next, and writing them.
LEMMA TakeInOrder ==
    ASSUME StagedOK, TakenOK(taken, changed), changed \in 0..Size,
           NEW pieces \in Seq(Nat), InOrder(pieces, Len(taken), changed),
           Len(taken) + Len(pieces) <= Size, Take(pieces)
    PROVE  /\ TakenOK(taken', changed) /\ StagedOK'
           /\ Len(taken') = Len(taken) + Len(pieces)
  <1>1. /\ taken \in Seq(Nat) /\ Len(taken) \in Nat /\ InOrder(taken, 0, changed)
        /\ changed \in Nat /\ Size \in Nat
    BY TransferAssumption DEF TakenOK
  <1>2. taken' = taken \o pieces
    BY DEF Take
  <1>3. taken' \in Seq(Nat) /\ Len(taken') = Len(taken) + Len(pieces)
    BY <1>1, <1>2
  <1>4. InOrder(taken', 0, changed)
    BY <1>1, <1>2, InOrderConcat
  <1>5. TakenOK(taken', changed)
    BY <1>3, <1>4 DEF TakenOK
  <1>6. pieces \in Seq(0..(2 * Size))
    BY <1>1, InOrderBounded
  <1>7. PICK stored \in Stored(pieces) : staged' = staged \o stored
    BY DEF Take, Stored
  <1>8. stored \in Seq(0..(2 * Size)) /\ Len(stored) = Len(pieces)
    <2>1. \A i \in DOMAIN pieces : /\ [pieces EXCEPT ![i] = Bad] \in Seq(0..(2 * Size))
                                   /\ Len([pieces EXCEPT ![i] = Bad]) = Len(pieces)
      BY <1>1, <1>6 DEF Bad
    <2>2. stored = pieces \/ \E i \in DOMAIN pieces : stored = [pieces EXCEPT ![i] = Bad]
      BY <1>7 DEF Stored
    <2>3. CASE \E i \in DOMAIN pieces : stored = [pieces EXCEPT ![i] = Bad]
      <3>1. PICK i \in DOMAIN pieces : stored = [pieces EXCEPT ![i] = Bad]
        BY <2>3
      <3> QED
        BY <2>1, <3>1
    <2> QED
      BY <1>6, <2>2, <2>3
  <1>9. StagedOK'
    <2>1. staged \in Seq(0..(2 * Size)) /\ Len(staged) = Len(taken)
      BY DEF StagedOK
    <2>2. staged' \in Seq(0..(2 * Size)) /\ Len(staged') = Len(staged) + Len(stored)
      BY <1>7, <1>8, <2>1, ConcatInSeq
    <2> QED
      BY <1>3, <1>8, <2>1, <2>2 DEF StagedOK
  <1> QED
    BY <1>3, <1>5, <1>9

LEMMA CopyDirectStep ==
    ASSUME CopyOK, Streaming, IsTransfer, CopyDirect
    PROVE  CopyOK' /\ Streaming'
  <1>1. CopyAll /\ Copying /\ ~ReadAhead
    BY CopyParts DEF CopyDirect
  <1>2. CASE Failing(1) /\ UNCHANGED <<taken, staged>>
    <2>1. main'.at \in {"failing", main.at}
      BY <1>2 DEF Failing
    <2>2. UNCHANGED <<job, sourceVars, readerVars>>
      BY DEF CopyDirect, jobVars
    <2> QED
      BY <1>1, <1>2, <2>1, <2>2, CopyStays DEF Copying
  <1>3. ASSUME NEW n \in 1..Wanted, Take(Pieces(Len(taken), n)), UNCHANGED main
        PROVE  CopyOK' /\ Streaming'
    <2>1. /\ UNCHANGED <<job, changed, touched, ahead, producer>> /\ main.at = "copy"
          /\ Len(taken) < Size
      BY <1>1 DEF CopyDirect, jobVars, sourceVars, readerVars, Copying
    <2>2. PICK m \in Nat : m = Len(taken)
      BY <1>1 DEF CopyAll, TakenOK
    <2>3. n \in Nat /\ m + n <= Size
      BY <2>1, <2>2, TransferAssumption DEF Wanted, Least
    <2>4. changed \in Nat /\ changed \in 0..Size
      BY <1>1, TransferAssumption DEF CopyAll
    <2>5. /\ Pieces(m, n) \in Seq(Nat) /\ Len(Pieces(m, n)) = n
          /\ InOrder(Pieces(m, n), m, changed)
      BY <2>3, <2>4, PiecesInOrder
    <2>6. TakenOK(taken', changed) /\ StagedOK' /\ Len(taken') = m + n
      BY <1>1, <1>3, <2>2, <2>3, <2>4, <2>5, TakeInOrder DEF CopyAll
    <2>7. CopyAll'
      BY <1>1, <1>3, <2>1, <2>6 DEF CopyAll, ReadAhead, IsTransfer
    <2>8. CopyOK'
      BY <2>7, CopyParts
    <2>9. Streaming'
      <3>1. ahead' = NoReader /\ producer' = NoThread /\ changed' = changed
        BY <1>1, <2>1 DEF CopyAll
      <3>2. m + n \in 0..Size
        BY <2>3, TransferAssumption
      <3>3. Stream(m + n, <<>>, <<>>, NoThread, changed)
        BY <2>4, <3>2, ReadersStart
      <3>4. ahead'.current = <<>> /\ ahead'.filled = <<>>
        BY <3>1, NewReaders
      <3> QED
        BY <2>6, <3>1, <3>3, <3>4 DEF Streaming
    <2> QED
      BY <2>8, <2>9
  <1> QED
    BY <1>2, <1>3 DEF CopyDirect

LEMMA OpenStep ==
    ASSUME CopyOK, Streaming, IsTransfer, NEW at \in {"preflight", "preverify"}, Open(at)
    PROVE  CopyOK' /\ Streaming'
  <1>1. CopyAll /\ main.at = "start" /\ UNCHANGED <<job, sourceVars, taken, staged>>
    BY CopyParts DEF Open, jobVars, copyVars
  <1>2. CASE Failing(1) /\ UNCHANGED readerVars
    <2>1. main'.at # "wait"
      BY <1>1, <1>2 DEF Failing
    <2> QED
      BY <1>1, <1>2, <2>1, CopyStays
  <1>3. CASE /\ Goto(IF job.target = "none" THEN "copy" ELSE at)
             /\ ahead' = IF ReadAhead THEN NewReader ELSE NoReader
             /\ producer' = IF ReadAhead THEN [NoThread EXCEPT !.at = "recv"] ELSE NoThread
    <2>1. main'.at # "wait"
      BY <1>1, <1>3 DEF Goto
    <2>2. UNCHANGED <<job, changed, touched, taken, staged>>
      BY <1>1 DEF sourceVars
    <2>3. /\ taken = <<>> /\ TakenOK(taken, changed) /\ StagedOK
          /\ changed \in 0..Size /\ touched \in BOOLEAN
      BY <1>1 DEF CopyAll
    <2>4. StagedOK' /\ TakenOK(taken', changed')
      BY <2>2, <2>3 DEF StagedOK
    <2>5. ReadersOK(ahead', producer')
      BY <1>3, ReadersStart
    <2>6. CopyAll'
      BY <1>3, <2>1, <2>2, <2>3, <2>4, <2>5 DEF CopyAll, ReadAhead
    <2>7. Streaming'
      <3>1. ahead'.current = <<>> /\ ahead'.filled = <<>> /\ Len(taken') = 0
        BY <1>3, <2>2, <2>3, NewReaders
      <3>2. Stream(0, <<>>, <<>>, producer', changed')
        BY <1>3, <2>2, <2>3, ReadersStart, TransferAssumption
      <3> QED
        BY <3>1, <3>2 DEF Streaming
    <2> QED
      BY <2>6, <2>7, CopyParts
  <1> QED
    BY <1>2, <1>3 DEF Open

LEMMA CopyBufferedStep ==
    ASSUME CopyOK, Streaming, IsTransfer, CopyBuffered
    PROVE  CopyOK' /\ Streaming'
  <1>1. /\ CopyAll /\ Copying /\ ReadAhead
        /\ UNCHANGED <<job, changed, touched, producer>>
    BY CopyParts DEF CopyBuffered, jobVars, sourceVars
  <1>2. CASE Failing(1) /\ UNCHANGED <<taken, staged, ahead>>
    <2>1. main'.at \notin {"wait", "start"}
      BY <1>1, <1>2 DEF Failing, Copying
    <2> QED
      BY <1>1, <1>2, <2>1, CopyStays DEF sourceVars, readerVars
  <1>3. ASSUME Take(SubSeq(ahead.current, 1, Least(Wanted, Len(ahead.current)))),
               ahead' = [ahead EXCEPT !.current = SubSeq(@, Least(Wanted, Len(ahead.current)) + 1, Len(@))],
               UNCHANGED main
        PROVE  CopyOK' /\ Streaming'
    <2>1. PICK cur \in Seq(Nat), fil \in Seq(Result), d \in Nat :
             cur = ahead.current /\ fil = ahead.filled /\ d = Len(taken)
      BY <1>1 DEF CopyAll, ReadersOK, TakenOK, Buffering
    <2>2. PICK mark \in [0..Len(fil) -> 0..Size] :
             /\ InOrder(cur, d, changed) /\ mark[0] = d + Len(cur)
             /\ Chain(fil, mark, changed)
             /\ GoesOnAt(producer, mark[Len(fil)], changed)
      BY <2>1 DEF Streaming, Stream
    <2>3. changed \in Nat /\ changed \in 0..Size /\ d + Len(cur) <= Size
      BY <1>1, <2>2, TransferAssumption DEF CopyAll
    <2>4. PICK n \in 0..Len(cur) : n = Least(Wanted, Len(ahead.current))
      <3>1. Wanted \in Nat
        BY <1>1, <2>1, TransferAssumption DEF Least, Wanted, Copying
      <3>2. PICK k \in Nat : k = Len(cur)
        BY <2>1
      <3>3. Least(Wanted, k) \in 0..k
        BY <3>1, <3>2 DEF Least
      <3> QED
        BY <2>1, <3>2, <3>3
    <2>5. /\ SubSeq(cur, 1, n) \in Seq(Nat) /\ Len(SubSeq(cur, 1, n)) = n
          /\ SubSeq(cur, n + 1, Len(cur)) \in Seq(Nat)
          /\ Len(SubSeq(cur, n + 1, Len(cur))) = Len(cur) - n
          /\ InOrder(SubSeq(cur, 1, n), d, changed)
          /\ InOrder(SubSeq(cur, n + 1, Len(cur)), d + n, changed)
      BY <2>2, <2>3, InOrderSplit
    <2>6. TakenOK(taken', changed) /\ StagedOK' /\ Len(taken') = d + n
      <3>1. Len(taken) + Len(SubSeq(cur, 1, n)) <= Size
        BY <2>1, <2>3, <2>4, <2>5, TransferAssumption
      <3>2. Take(SubSeq(cur, 1, n)) /\ InOrder(SubSeq(cur, 1, n), Len(taken), changed)
        BY <1>3, <2>1, <2>4, <2>5
      <3>3. StagedOK /\ TakenOK(taken, changed)
        BY <1>1 DEF CopyAll
      <3> QED
        BY <2>1, <2>3, <2>5, <3>1, <3>2, <3>3, TakeInOrder
    <2>7. ahead' = [ahead EXCEPT !.current = SubSeq(cur, n + 1, Len(cur))]
      BY <1>3, <2>1, <2>4
    <2>8. /\ ahead' \in Buffering /\ ahead'.current = SubSeq(cur, n + 1, Len(cur))
          /\ ahead'.free = ahead.free /\ ahead'.filled = fil /\ ahead'.held = ahead.held
      BY <1>1, <2>1, <2>5, <2>7 DEF CopyAll, ReadersOK, Buffering
    <2>9. ReadersOK(ahead', producer')
      BY <1>1, <2>1, <2>8 DEF CopyAll, ReadersOK, BuffersKept
    <2>10. CopyAll'
      BY <1>1, <1>3, <2>6, <2>9 DEF CopyAll, ReadAhead, IsTransfer, Copying
    <2>11. (d + n) + (Len(cur) - n) = d + Len(cur)
      BY <2>1, <2>4
    <2>12. Stream(d + n, SubSeq(cur, n + 1, Len(cur)), fil, producer, changed)
      BY <2>2, <2>5, <2>11 DEF Stream
    <2>13. Streaming'
      BY <1>1, <2>6, <2>8, <2>12 DEF Streaming
    <2> QED
      BY <2>10, <2>13, CopyParts
  <1> QED
    BY <1>2, <1>3 DEF CopyBuffered

LEMMA CopyRecycleStep ==
    ASSUME CopyOK, Streaming, IsTransfer, CopyRecycle
    PROVE  CopyOK' /\ Streaming'
  <1>1. /\ CopyAll /\ Copying /\ ReadAhead /\ ahead.current = <<>> /\ Goto("wait")
        /\ UNCHANGED <<job, changed, touched, taken, staged, producer>>
    BY CopyParts DEF CopyRecycle, jobVars, sourceVars, copyVars
  <1>2. ReadersOK(ahead, producer) /\ ahead.held \in BOOLEAN
    BY <1>1 DEF CopyAll, ReadersOK, Buffering
  <1>3. PICK free \in {ahead.free, IF ahead.held THEN ahead.free + 1 ELSE ahead.free} :
           ahead' = [ahead EXCEPT !.held = FALSE, !.free = free]
    BY DEF CopyRecycle
  <1>4. free \in Nat /\ ahead.free \in Nat /\ ahead \in Buffering
    BY <1>2, <1>3 DEF ReadersOK, Buffering
  <1>5. /\ ahead' \in Buffering /\ ahead'.current = ahead.current /\ ahead'.free = free
        /\ ahead'.filled = ahead.filled /\ ahead'.held = FALSE
    BY <1>3, <1>4 DEF Buffering
  <1>6. ReadersOK(ahead', producer')
    <2>1. PICK k \in Nat : k = Len(ahead.filled)
      BY <1>4 DEF Buffering
    <2>2. Len(ahead'.filled) = k
      BY <1>5, <2>1
    <2>3. PICK r \in {0, 1} : r = IF producer.at \in {"read", "send"} THEN 1 ELSE 0
      OBVIOUS
    <2>4. ahead.free + k + (IF ahead.held THEN 1 ELSE 0) + r <= Buffers
      BY <1>2, <2>1, <2>3 DEF ReadersOK, BuffersKept
    <2>5. free + k + 0 + r <= Buffers
      BY SMTT(30), <1>3, <1>4, <2>1, <2>4, TransferAssumption
    <2>6. BuffersKept(ahead', producer')
      BY <1>1, <1>5, <2>2, <2>3, <2>5 DEF BuffersKept
    <2> QED
      BY <1>1, <1>2, <1>5, <2>6 DEF ReadersOK
  <1>7. main'.at \in {"wait", main.at} /\ main.at = "copy"
    BY <1>1 DEF Goto, Copying
  <1>8. CopyAll'
    BY <1>1, <1>5, <1>6, <1>7 DEF CopyAll, StagedOK, ReadAhead, IsTransfer
  <1>9. Streaming'
    BY <1>1, <1>5 DEF Streaming
  <1> QED
    BY <1>8, <1>9, CopyParts

LEMMA CopyRecvStep ==
    ASSUME main \in Report, CopyOK, Streaming, IsTransfer, CopyRecv
    PROVE  CopyOK' /\ Streaming'
  <1>1. /\ CopyAll /\ main.at = "wait"
        /\ UNCHANGED <<job, changed, touched, taken, staged, producer>>
    BY CopyParts DEF CopyRecv, jobVars, sourceVars, copyVars
  <1>2. CASE UNCHANGED ahead /\ Failing(1)
    <2>1. main'.at # "start"
      BY <1>1, <1>2 DEF Failing
    <2> QED
      BY <1>1, <1>2, <2>1, CopyStays DEF sourceVars, readerVars
  <1>3. CASE ahead.filled # <<>>
    <2>1. PICK fil \in Seq(Result), d \in Nat :
             /\ fil = ahead.filled /\ d = Len(taken) /\ fil # <<>>
             /\ ahead.free \in Nat /\ ahead.held = FALSE /\ ahead.current = <<>>
             /\ ReadersOK(ahead, producer)
      BY <1>1, <1>3 DEF CopyAll, ReadersOK, TakenOK, Buffering
    <2>2. PICK next \in Result : next = Head(fil)
      BY <2>1
    <2>3. PICK held \in BOOLEAN : held = ~Terminal(next)
      BY DEF Terminal
    <2>4. /\ ahead' = [ahead EXCEPT !.filled = Tail(fil), !.current = next.data, !.held = held]
          /\ IF held THEN Goto("copy") ELSE Failing(1)
      BY <1>3, <2>1, <2>2, <2>3 DEF CopyRecv
    <2>5. Tail(fil) \in Seq(Result) /\ Len(Tail(fil)) = Len(fil) - 1 /\ Len(fil) \in Nat
      BY <2>1
    <2>6. next.data \in Seq(Nat) /\ ahead \in Buffering
      BY <2>1, <2>2 DEF Result, ReadersOK
    <2>7. /\ ahead' \in Buffering /\ ahead'.filled = Tail(fil) /\ ahead'.free = ahead.free
          /\ ahead'.current = next.data /\ ahead'.held = held
      BY <2>4, <2>5, <2>6 DEF Buffering
    <2>8. ReadersOK(ahead', producer')
      <3>1. PICK r \in {0, 1} : r = IF producer.at \in {"read", "send"} THEN 1 ELSE 0
        OBVIOUS
      <3>2. PICK k \in Nat : k = Len(fil)
        BY <2>5
      <3>3. ahead.free + k + 0 + r <= Buffers
        BY <2>1, <3>1, <3>2 DEF ReadersOK, BuffersKept
      <3>4. Len(ahead'.filled) = k - 1
        BY <2>5, <2>7, <3>2
      <3>5. ahead.free + (k - 1) + (IF held THEN 1 ELSE 0) + r <= Buffers
        BY <2>1, <2>3, <3>2, <3>3, TransferAssumption
      <3>6. BuffersKept(ahead', producer')
        BY <1>1, <2>7, <3>1, <3>4, <3>5 DEF BuffersKept
      <3> QED
        BY <1>1, <2>1, <2>7, <3>6 DEF ReadersOK
    <2>9. "copy" \in Labels
      BY DEF Labels, TransferLabels
    <2>10. main'.at \in {"copy", "failing"}
      BY <2>4, <2>9, Moves
    <2>11. ReadAhead
      <3>1. NoReader.filled = <<>>
        BY NewReaders
      <3> QED
        BY <1>1, <1>3, <3>1 DEF CopyAll
    <2>12. CopyAll'
      BY <1>1, <2>8, <2>10, <2>11 DEF CopyAll, StagedOK, ReadAhead, IsTransfer
    <2>13. PICK mark \in [0..Len(fil) -> 0..Size] :
             /\ mark[0] = d + Len(<<>>)
             /\ Chain(fil, mark, changed)
             /\ GoesOnAt(producer, mark[Len(fil)], changed)
      BY <2>1 DEF Streaming, Stream
    <2> DEFINE rest == [k \in 0..Len(Tail(fil)) |-> mark[k + 1]]
    <2>14. /\ Chain(Tail(fil), rest, changed)
           /\ InOrder(next.data, mark[0], changed)
           /\ rest[0] = mark[0] + Len(next.data)
           /\ rest[Len(Tail(fil))] = mark[Len(fil)]
      BY SMTT(30), <2>1, <2>2, <2>13, ChainTail
    <2>15. rest \in [0..Len(Tail(fil)) -> 0..Size]
      BY <2>14 DEF Chain
    <2> HIDE DEF rest
    <2>16. mark[0] = d
      BY <2>1, <2>13
    <2>17. Stream(d, next.data, Tail(fil), producer, changed)
      BY <2>13, <2>14, <2>15, <2>16 DEF Stream
    <2>18. Streaming'
      BY <1>1, <2>1, <2>7, <2>17 DEF Streaming
    <2> QED
      BY <2>12, <2>18, CopyParts
  <1> QED
    BY <1>2, <1>3 DEF CopyRecv

----------------------------------------------------------------------------
(* The read-ahead thread                                                   *)

\* Its steps change nothing but the readers' state.
LEMMA ReadersStep ==
    ASSUME CopyOK, ReadAhead, OnlyProducer, ReadersOK(ahead', producer'), Streaming',
           ahead'.held = ahead.held, ahead'.current = ahead.current
    PROVE  CopyOK' /\ Streaming'
  <1>1. CopyAll /\ UNCHANGED <<job, main, changed, touched, taken, staged>>
    BY CopyParts DEF OnlyProducer, cliVars, jobVars, sourceVars, copyVars
  <1>2. CopyAll'
    BY <1>1 DEF CopyAll, StagedOK, ReadAhead, IsTransfer
  <1> QED
    BY <1>2, CopyParts

\* A thread that runs is one of a transfer that reads ahead.
LEMMA ThreadReadsAhead ==
    ASSUME CopyOK, producer.at # "ended"
    PROVE  ReadAhead
    BY NewReaders DEF CopyOK

LEMMA ProducerRecvStep ==
    ASSUME CopyOK, Streaming, ProducerRecv
    PROVE  CopyOK' /\ Streaming'
  <1>1. /\ CopyAll /\ ReadersOK(ahead, producer) /\ OnlyProducer /\ ReadAhead
        /\ producer.at = "recv" /\ ahead.free \in Nat
        /\ UNCHANGED <<changed, taken>>
    BY CopyParts, ThreadReadsAhead
       DEF ProducerRecv, CopyAll, ReadersOK, Buffering, OnlyProducer, sourceVars, copyVars
  <1>2. PICK free \in Nat, at \in {"read", "ended"} :
           /\ ahead' = [ahead EXCEPT !.free = free]
           /\ producer' = [producer EXCEPT !.at = at]
           /\ free + (IF at = "read" THEN 1 ELSE 0) = ahead.free
    <2>1. CASE ahead.free > 0
      <3>1. /\ ahead.free - 1 \in Nat /\ (ahead.free - 1) + 1 = ahead.free
            /\ ahead' = [ahead EXCEPT !.free = ahead.free - 1]
            /\ producer' = [producer EXCEPT !.at = "read"]
        BY <1>1, <2>1 DEF ProducerRecv
      <3> QED
        BY <3>1
    <2>2. CASE ahead.free = 0
      <3>1. ahead' = [ahead EXCEPT !.free = 0]
        BY <1>1, <2>2 DEF ProducerRecv, ReadersOK, Buffering
      <3> QED
        BY <1>1, <2>2, <3>1 DEF ProducerRecv
    <2> QED
      BY <1>1, <2>1, <2>2
  <1>3. /\ ahead' \in Buffering /\ ahead'.free = free /\ ahead'.filled = ahead.filled
        /\ ahead'.current = ahead.current /\ ahead'.held = ahead.held
        /\ producer' \in Producing /\ producer'.at = at /\ producer'.offset = producer.offset
    BY <1>1, <1>2 DEF ReadersOK, Buffering, Producing
  <1>4. ReadersOK(ahead', producer')
    <2>1. PICK h \in {0, 1} : h = IF ahead.held THEN 1 ELSE 0
      OBVIOUS
    <2>2. PICK k \in Nat : k = Len(ahead.filled)
      BY <1>1 DEF ReadersOK, Buffering
    <2>3. ahead.free + k + h + 0 <= Buffers
      BY <1>1, <2>1, <2>2 DEF ReadersOK, BuffersKept
    <2>4. free + k + h + (IF at \in {"read", "send"} THEN 1 ELSE 0) <= Buffers
      BY SMTT(30), <1>1, <1>2, <2>1, <2>2, <2>3, TransferAssumption
    <2>5. BuffersKept(ahead', producer')
      BY <1>3, <2>1, <2>2, <2>4 DEF BuffersKept
    <2> QED
      BY <1>1, <1>3, <2>5 DEF ReadersOK
  <1>5. Streaming'
    BY <1>1, <1>3 DEF Streaming, Stream, GoesOnAt
  <1> QED
    BY <1>1, <1>3, <1>4, <1>5, ReadersStep

\* A read goes on where the one before it ended, or is an error.
LEMMA ProducerReadStep ==
    ASSUME CopyOK, Streaming, ProducerRead
    PROVE  CopyOK' /\ Streaming'
  <1>1. /\ CopyAll /\ ReadersOK(ahead, producer) /\ OnlyProducer /\ ReadAhead
        /\ producer.at = "read" /\ producer \in Producing
        /\ UNCHANGED <<ahead, changed, taken>>
    BY CopyParts, ThreadReadsAhead
       DEF ProducerRead, CopyAll, ReadersOK, OnlyProducer, sourceVars, copyVars
  <1>2. PICK p \in 0..Size : p = producer.offset
    BY <1>1, TransferAssumption DEF ReadersOK, Producing
  <1>3. Size \in Nat /\ changed \in Nat /\ Error \in Result /\ Error.data = <<>>
    BY <1>1, TransferAssumption DEF CopyAll, Error, Result
  <1>4. PICK q \in 0..Size, r \in Result :
           /\ producer' = [producer EXCEPT !.at = "send", !.offset = q, !.result = r]
           /\ \/ r.ok /\ InOrder(r.data, p, changed) /\ q = p + Len(r.data)
              \/ r = Error
    <2>1. CASE producer' = [producer EXCEPT !.at = "send", !.result = Error]
      <3>1. producer' = [producer EXCEPT !.at = "send", !.offset = p, !.result = Error]
        BY <1>1, <1>2, <2>1 DEF Producing
      <3> QED
        BY <1>3, <3>1
    <2>2. ASSUME NEW n \in Nat, n <= Size - p,
                 producer' = [producer EXCEPT !.at = "send", !.offset = @ + n,
                                              !.result = CheckedRead(p, n)]
          PROVE  \E q \in 0..Size, r \in Result :
                    /\ producer' = [producer EXCEPT !.at = "send", !.offset = q, !.result = r]
                    /\ \/ r.ok /\ InOrder(r.data, p, changed) /\ q = p + Len(r.data)
                       \/ r = Error
      <3>1. p \in Nat /\ p + n \in 0..Size
        BY <1>2, <1>3, <2>2
      <3>2. /\ producer' = [producer EXCEPT !.at = "send", !.offset = p + n,
                                            !.result = CheckedRead(p, n)]
        BY <1>2, <2>2
      <3>3. CheckedRead(p, n) = Error \/ CheckedRead(p, n) = Ok(Pieces(p, n))
        BY DEF CheckedRead
      <3>4. /\ Pieces(p, n) \in Seq(Nat) /\ Len(Pieces(p, n)) = n
            /\ InOrder(Pieces(p, n), p, changed)
        BY <1>3, <3>1, PiecesInOrder
      <3>5. /\ Ok(Pieces(p, n)) \in Result /\ Ok(Pieces(p, n)).ok
            /\ Ok(Pieces(p, n)).data = Pieces(p, n)
        BY <3>4 DEF Ok, Result
      <3> QED
        BY <1>3, <3>1, <3>2, <3>3, <3>4, <3>5
    <2>3. \/ producer' = [producer EXCEPT !.at = "send", !.result = Error]
          \/ \E n \in Nat : /\ n <= Size - p
                            /\ producer' = [producer EXCEPT !.at = "send", !.offset = @ + n,
                                                            !.result = CheckedRead(p, n)]
      <3> DEFINE full == IF Size - p < BufferSize THEN Size - p ELSE BufferSize
      <3>1. full \in Nat /\ full <= Size - p
        BY <1>2, <1>3, TransferAssumption
      <3>2. \A n \in 0..full : n \in Nat /\ n <= Size - p
        BY <1>2, <1>3, <3>1
      <3>3. \/ producer' = [producer EXCEPT !.at = "send", !.result = Error]
            \/ \E n \in 0..full : producer' = [producer EXCEPT !.at = "send", !.offset = @ + n,
                                                               !.result = CheckedRead(p, n)]
        BY <1>2 DEF ProducerRead
      <3> HIDE DEF full
      <3> QED
        BY <3>2, <3>3
    <2> QED
      BY <2>1, <2>2, <2>3
  <1>5. /\ producer' \in Producing /\ producer'.at = "send" /\ producer'.offset = q
        /\ producer'.result = r
    <2>1. q \in Nat /\ r \in Result
      BY <1>3
    <2>2. producer' = [producer EXCEPT !.at = "send", !.offset = q, !.result = r]
      BY <1>4
    <2> QED
      BY <1>1, <2>1, <2>2 DEF Producing
  <1>6. ReadersOK(ahead', producer')
    <2>1. BuffersKept(ahead', producer')
      BY <1>1, <1>5 DEF ReadersOK, BuffersKept
    <2>2. q <= Size
      BY <1>3, <1>4
    <2> QED
      BY <1>1, <1>5, <2>1, <2>2 DEF ReadersOK
  <1>7. Streaming'
    <2>1. PICK mark \in [0..Len(ahead.filled) -> 0..Size] :
             /\ InOrder(ahead.current, Len(taken), changed)
             /\ mark[0] = Len(taken) + Len(ahead.current)
             /\ Chain(ahead.filled, mark, changed)
             /\ GoesOnAt(producer, mark[Len(ahead.filled)], changed)
      BY DEF Streaming, Stream
    <2>2. mark[Len(ahead.filled)] = p
      BY <1>1, <1>2, <2>1 DEF GoesOnAt
    <2>3. GoesOnAt(producer', p, changed)
      BY <1>4, <1>5 DEF GoesOnAt
    <2>4. Stream(Len(taken), ahead.current, ahead.filled, producer', changed)
      BY <2>1, <2>2, <2>3 DEF Stream
    <2> QED
      BY <1>1, <2>4 DEF Streaming
  <1> QED
    BY <1>1, <1>6, <1>7, ReadersStep

LEMMA ProducerSendStep ==
    ASSUME CopyOK, Streaming, ProducerSend
    PROVE  CopyOK' /\ Streaming'
  <1>1. /\ CopyAll /\ ReadersOK(ahead, producer) /\ OnlyProducer /\ ReadAhead
        /\ producer.at = "send" /\ producer \in Producing /\ ahead \in Buffering
        /\ UNCHANGED <<changed, taken>>
    BY CopyParts, ThreadReadsAhead
       DEF ProducerSend, CopyAll, ReadersOK, OnlyProducer, sourceVars, copyVars
  <1>2. PICK at \in {"ended", "recv"} :
           /\ producer' = [producer EXCEPT !.at = at]
           /\ at = "ended" \/ ~(Dropped \/ Terminal(producer.result))
    BY DEF ProducerSend
  <1>3. /\ producer' \in Producing /\ producer'.at = at /\ producer'.offset = producer.offset
        /\ producer'.result = producer.result
    BY <1>1, <1>2 DEF Producing
  <1>4. PICK h \in {0, 1} : h = IF ahead.held THEN 1 ELSE 0
    OBVIOUS
  <1>5. PICK fil \in Seq(Result), k \in Nat, free \in Nat, cur \in Seq(Nat), done \in Nat :
           fil = ahead.filled /\ k = Len(fil) /\ free = ahead.free /\ cur = ahead.current /\ done = Len(taken)
    BY <1>1 DEF Buffering, CopyAll, TakenOK
  <1>6. free + k + h + 1 <= Buffers
    BY <1>1, <1>4, <1>5 DEF ReadersOK, BuffersKept
  <1>7. PICK mark \in [0..k -> 0..Size] :
           /\ InOrder(cur, done, changed) /\ mark[0] = done + Len(cur)
           /\ Chain(fil, mark, changed)
           /\ GoesOnAt(producer, mark[k], changed)
    BY <1>5 DEF Streaming, Stream
  <1>8. CASE Dropped
    <2>1. ahead' = ahead /\ at = "ended"
      BY <1>2, <1>8 DEF ProducerSend
    <2>2. ReadersOK(ahead', producer')
      <3>1. BuffersKept(ahead', producer')
        <4>1. free + k + h + 0 <= Buffers
          BY <1>4, <1>5, <1>6, TransferAssumption
        <4> QED
          BY <1>3, <1>4, <1>5, <2>1, <4>1 DEF BuffersKept
      <3> QED
        BY <1>1, <1>3, <2>1, <3>1 DEF ReadersOK
    <2>3. GoesOnAt(producer', mark[k], changed)
      BY <1>3, <2>1 DEF GoesOnAt
    <2>4. Streaming'
      BY <1>1, <1>5, <1>7, <2>1, <2>3 DEF Streaming, Stream
    <2> QED
      BY <1>1, <2>1, <2>2, <2>4, ReadersStep
  <1>9. CASE ~Dropped
    <2>1. PICK r \in Result : r = producer.result
      BY <1>1 DEF Producing
    <2>2. ahead' = [ahead EXCEPT !.filled = Append(fil, r)]
      BY <1>5, <1>9, <2>1 DEF ProducerSend
    <2>3. Append(fil, r) \in Seq(Result) /\ Len(Append(fil, r)) = k + 1
      BY <1>5
    <2>4. /\ ahead' \in Buffering /\ ahead'.filled = Append(fil, r) /\ ahead'.free = free
          /\ ahead'.current = cur /\ ahead'.held = ahead.held
      BY <1>1, <1>5, <2>2, <2>3 DEF Buffering
    <2>5. ReadersOK(ahead', producer')
      <3>1. BuffersKept(ahead', producer')
        <4>1. free + (k + 1) + h + 0 <= Buffers
          BY <1>4, <1>5, <1>6, TransferAssumption
        <4> QED
          BY <1>2, <1>3, <1>4, <2>3, <2>4, <4>1 DEF BuffersKept
      <3> QED
        BY <1>1, <1>3, <2>4, <3>1 DEF ReadersOK
    <2>6. PICK end \in 0..Size :
             InOrder(r.data, mark[k], changed) /\ end = mark[k] + Len(r.data)
             /\ (at = "recv" => producer.offset = end)
      <3>1. CASE r.ok /\ InOrder(r.data, mark[k], changed) /\ producer.offset = mark[k] + Len(r.data)
        <4>1. producer.offset \in 0..Size
          BY <1>1, TransferAssumption DEF ReadersOK, Producing
        <4> QED
          BY <3>1, <4>1
      <3>2. CASE r = Error
        <4>1. r.data = <<>> /\ Terminal(r) /\ Len(<<>>) = 0
          BY <3>2 DEF Error, Terminal
        <4>2. at = "ended"
          BY <1>2, <2>1, <4>1
        <4>3. mark[k] \in 0..Size /\ mark[k] + 0 = mark[k]
          BY SMTT(30), <1>5, TransferAssumption
        <4> QED
          BY <4>1, <4>2, <4>3, InOrderEmpty
      <3> QED
        BY <1>1, <1>7, <2>1, <3>1, <3>2 DEF GoesOnAt
    <2>7. Chained(Append(fil, r), mark[0], end, changed)
      <3>1. PICK last \in 0..Size : last = mark[k] /\ last = mark[Len(fil)]
        BY <1>5
      <3>2. Chained(fil, mark[0], last, changed)
        BY <1>5, <1>7, <3>1 DEF Chained
      <3>3. PICK data : data = r.data /\ InOrder(data, last, changed) /\ end = last + Len(data)
        BY <2>6, <3>1
      <3> QED
        BY <3>1, <3>2, <3>3, ChainAppend
    <2>8. PICK more \in [0..Len(Append(fil, r)) -> 0..Size] :
             /\ Chain(Append(fil, r), more, changed)
             /\ more[0] = mark[0] /\ more[Len(Append(fil, r))] = end
      BY <2>7 DEF Chained
    <2>9. GoesOnAt(producer', end, changed)
      BY <1>3, <1>2, <2>6 DEF GoesOnAt
    <2>10. Stream(done, cur, Append(fil, r), producer', changed)
      BY <1>7, <2>8, <2>9 DEF Stream
    <2>11. Streaming'
      BY <1>1, <1>5, <2>4, <2>10 DEF Streaming
    <2>12. ahead'.current = ahead.current
      BY <1>5, <2>4
    <2> QED
      BY <1>1, <2>4, <2>5, <2>11, <2>12, ReadersStep
  <1> QED
    BY <1>8, <1>9

----------------------------------------------------------------------------
(* Changes of the source                                                   *)

\* What was read before a change stays what it was, and what is read after it
\* has the change.
LEMMA SourceStep ==
    ASSUME CopyOK, Streaming, (\E i \in 1..Size : Change(i)) \/ Replaced
    PROVE  CopyOK' /\ Streaming'
  <1>1. /\ CopyAll /\ UNCHANGED <<job, main, taken, staged, ahead, producer>>
        /\ changed' \in 0..Size /\ touched' \in BOOLEAN
        /\ changed' = changed \/ changed = 0
    <2>1. CopyAll /\ changed \in 0..Size /\ touched \in BOOLEAN
      BY CopyParts DEF CopyAll
    <2>2. ASSUME NEW i \in 1..Size, Change(i)
          PROVE  /\ UNCHANGED <<job, main, taken, staged, ahead, producer>>
                 /\ changed' \in 0..Size /\ touched' \in BOOLEAN /\ changed = 0
      <3>1. UNCHANGED <<job, main, taken, staged, ahead, producer>> /\ changed = 0
        BY <2>2 DEF Change, cliVars, jobVars, copyVars, readerVars
      <3>2. changed' \in 0..Size
        BY <2>2, TransferAssumption DEF Change
      <3>3. touched' \in BOOLEAN
        BY <2>1, <2>2 DEF Change
      <3> QED
        BY <3>1, <3>2, <3>3
    <2>3. ASSUME Replaced
          PROVE  /\ UNCHANGED <<job, main, taken, staged, ahead, producer, changed>>
                 /\ touched' = TRUE
      BY <2>3 DEF Replaced, cliVars, jobVars, copyVars, readerVars
    <2> QED
      BY <2>1, <2>2, <2>3
  <1>2. CASE changed' = changed
    <2>1. CopyAll'
      BY <1>1, <1>2 DEF CopyAll, StagedOK, ReadAhead, IsTransfer
    <2>2. Streaming'
      BY <1>1, <1>2 DEF Streaming
    <2> QED
      BY <2>1, <2>2, CopyParts
  <1>3. CASE changed = 0
    <2>1. /\ ahead.filled \in Seq(Result) /\ Len(taken) \in Nat /\ 0 \in Nat
          /\ TakenOK(taken, 0)
      BY <1>1, <1>3 DEF CopyAll, TakenOK, ReadersOK, Buffering
    <2>2. TakenOK(taken, changed')
      BY <2>1, InOrderStays DEF TakenOK
    <2>3. CopyAll'
      BY <1>1, <2>2 DEF CopyAll, StagedOK, ReadAhead, IsTransfer
    <2>4. PICK mark \in [0..Len(ahead.filled) -> 0..Size] :
             /\ InOrder(ahead.current, Len(taken), 0)
             /\ mark[0] = Len(taken) + Len(ahead.current)
             /\ Chain(ahead.filled, mark, 0)
             /\ GoesOnAt(producer, mark[Len(ahead.filled)], 0)
      BY <1>3 DEF Streaming, Stream
    <2>5. mark[Len(ahead.filled)] \in Nat
      BY <2>1, TransferAssumption
    <2>6. GoesOnAt(producer, mark[Len(ahead.filled)], changed')
      BY <2>4, <2>5, InOrderStays DEF GoesOnAt
    <2>7. InOrder(ahead.current, Len(taken), changed') /\ Chain(ahead.filled, mark, changed')
      BY <2>1, <2>4, InOrderStays, ChainStays
    <2>8. Stream(Len(taken), ahead.current, ahead.filled, producer, changed')
      BY <2>4, <2>6, <2>7 DEF Stream
    <2>9. Streaming'
      BY <1>1, <2>8 DEF Streaming
    <2> QED
      BY <2>3, <2>9, CopyParts
  <1> QED
    BY <1>1, <1>2, <1>3

----------------------------------------------------------------------------
(* A step of a command and the copy                                        *)

\* Only transfers have anything of the copy.
OtherStep ==
    \/ CollectionNext /\ AtCollection
    \/ DiskNext /\ AtDisk
    \/ SessionNext /\ AtSession
LEMMA OthersKeepJob ==
    ASSUME MainOK, OtherStep
    PROVE  ~IsTransfer /\ UNCHANGED <<job, transferVars>>
  <1>0. UNCHANGED transferVars
    BY DEF OtherStep, AtCollection, AtDisk, AtSession
  <1> SUFFICES ~IsTransfer /\ UNCHANGED job
    BY <1>0
  <1> USE DEF MainOK, Labels, CollectionLabels, DiskLabels, SessionLabels, IsTransfer,
              CollectJob, Reading, InSession, jobVars, cliVars
  <1>1. CASE CollectionNext
    <2>1. CASE CollectStep
      <3>1. UNCHANGED job
        BY <2>1
           DEF CollectStep, StartCollect, WalkStopped, VisitExcluded, VisitSkipped, VisitFolder,
               VisitFile, OpenFile, ReadPiece, AfterFile, Finish, StartVerify, VerifyContainer,
               LastCheck, PublishContainer, StartExtract, StartUnpack, Unpack, CheckUnpacked,
               PublishFile, OnlyWalk, OnlyEnd
      <3>2. main.at \in CollectionLabels \/ job.kind \in {"collect", "extract"}
        BY <2>1
           DEF CollectStep, StartCollect, WalkStopped, VisitExcluded, VisitSkipped, VisitFolder,
               VisitFile, OpenFile, ReadPiece, AfterFile, Finish, StartVerify, VerifyContainer,
               LastCheck, PublishContainer, StartExtract, StartUnpack, Unpack, CheckUnpacked,
               PublishFile, Visiting
      <3> QED
        BY <3>1, <3>2
    <2>2. CASE \E p \in Paths : TreeChange(p)
      BY <2>2 DEF TreeChange
    <2> QED
      BY <1>1, <2>1, <2>2 DEF CollectionNext
  <1>2. CASE DiskNext
    <2>1. CASE DiskStep
      BY <2>1 DEF DiskStep, VerifyVolume, VerifyEntry, VerifySet, Verify, DiscoverDisks, CloseDisk,
                  OnlyReport
    <2>2. ASSUME NEW reader \in found.readers, NEW request \in Requests,
                 ReadDisk(reader, request[1], request[2]), main.at = "opened"
          PROVE  ~IsTransfer /\ UNCHANGED job
      BY <2>2 DEF ReadDisk
    <2> QED
      BY <1>2, <2>1, <2>2 DEF DiskNext
  <1>3. CASE SessionNext
    <2>1. CASE SessionBegins
      BY <2>1 DEF SessionBegins, Begin
    <2>2. CASE SessionStep
      <3>1. UNCHANGED job
        BY <2>2, RecordMoves
           DEF SessionStep, OpenHistory, StartRun, CreateWriter, ResumeWriter, EnterAcquisition,
               Notified, ReadSource, Seal, Close, CheckUnchanged, MarkPublishing, LinkSegments,
               RetireJournal, RecordPublished, VerifyImage, EndRun, SaveReport, OnlyRun, OnlySession
      <3>2. main.at \in SessionLabels
        BY <2>2, RecordMoves
           DEF SessionStep, OpenHistory, StartRun, CreateWriter, ResumeWriter, EnterAcquisition,
               Notified, ReadSource, Seal, Close, CheckUnchanged, MarkPublishing, LinkSegments,
               RetireJournal, RecordPublished, VerifyImage, EndRun, SaveReport
      <3> QED
        BY <3>1, <3>2
    <2>3. CASE Kill \/ NextCommand
      BY <2>3 DEF Kill, NextCommand, OnlyRun, OnlySession
    <2> QED
      BY <1>3, <2>1, <2>2, <2>3 DEF SessionNext
  <1> QED
    BY <1>1, <1>2, <1>3 DEF OtherStep

\* The other steps of a transfer leave what was taken alone.
QuietStep ==
    \/ Preverify \/ Preflight \/ CopyEnds \/ BeforeFinish \/ FinishEwf \/ ReadBack
    \/ VerifyStaged \/ Persist \/ VerifyRaw
LEMMA QuietMoves ==
    ASSUME main \in Report, QuietStep
    PROVE  /\ UNCHANGED <<job, sourceVars, taken, staged, readerVars>>
           /\ main'.at \notin {"wait", "start"}
  <1>1. UNCHANGED <<job, sourceVars, taken, staged, readerVars>>
    BY DEF QuietStep, Preverify, Preflight, CopyEnds, BeforeFinish, FinishEwf, ReadBack, VerifyStaged,
           Persist, VerifyRaw, OnlyMain, OnlyOutput, jobVars, transferVars, copyVars
  <1> SUFFICES main'.at \notin {"wait", "start"}
    BY <1>1
  <1> USE Moves DEF Labels, TransferLabels
  <1>2. CASE Preverify \/ Preflight \/ CopyEnds
    BY <1>2 DEF Preverify, Preflight, CopyEnds
  <1>3. CASE BeforeFinish
    BY <1>3, BeforeFinishMoves
  <1>4. CASE FinishEwf
    BY <1>4, FinishEwfMoves
  <1>5. CASE ReadBack \/ VerifyStaged
    BY <1>5 DEF ReadBack, VerifyStaged
  <1>6. CASE Persist
    BY <1>6, PersistMoves
  <1>7. CASE VerifyRaw
    BY <1>7 DEF VerifyRaw
  <1> QED
    BY <1>1, <1>2, <1>3, <1>4, <1>5, <1>6, <1>7 DEF QuietStep

LEMMA SessionSteps == SessionStep => main.at \in SessionLabels
    BY RecordMoves
       DEF SessionStep, OpenHistory, StartRun, CreateWriter, ResumeWriter, EnterAcquisition,
         Notified, ReadSource, Seal, Close, CheckUnchanged, MarkPublishing, LinkSegments,
         RetireJournal, RecordPublished, VerifyImage, EndRun, SaveReport, SessionLabels

\* Only transfers copy.
LEMMA CopyStepIs ==
    ASSUME MainOK, CopyStep
    PROVE  IsTransfer /\ UNCHANGED job
  <1>1. CASE Start
    BY <1>1 DEF Start, StartAcquire, StartRaw, StartEwf, StartAff4, Open, IsTransfer, jobVars, OnlyMain
  <1>2. CASE CopyStep /\ ~Start
    <2>1. main.at \in TransferLabels /\ UNCHANGED job
      <3>1. CASE QuietStep
        <4>1. main.at \in TransferLabels
          BY <3>1 DEF QuietStep, Preverify, Preflight, CopyEnds, BeforeFinish, FinishEwf,
                      ReadBack, VerifyStaged, Persist, VerifyRaw, TransferLabels
        <4> QED
          BY <3>1, <4>1, QuietMoves DEF MainOK
      <3>2. CASE CopyDirect \/ CopyBuffered \/ CopyRecycle \/ CopyRecv
        BY <3>2 DEF CopyDirect, CopyBuffered, CopyRecycle, CopyRecv, Copying, TransferLabels,
                    OnlyMain, jobVars
      <3> QED
        BY <1>2, <3>1, <3>2 DEF CopyStep, QuietStep
    <2> QED
      BY <2>1 DEF MainOK
  <1> QED
    BY <1>1, <1>2

LEMMA SharedMoves ==
    ASSUME main \in Report, CommandFails \/ Cancel \/ Interfere
    PROVE  /\ UNCHANGED <<job, transferVars>>
           /\ main'.at = main.at \/ main'.at = "exit"
    BY Moves DEF CommandFails, ReportFailure, Cancel, StopWhen, Interfere, Appear, AtCommand, AtSession,
                 jobVars

LEMMA CopyNext == ReportInv /\ CopyOK /\ Streaming /\ [Next]_vars => CopyOK' /\ Streaming'
  <1> SUFFICES ASSUME ReportInv, CopyOK, Streaming, [Next]_vars PROVE CopyOK' /\ Streaming'
    OBVIOUS
  <1>1. MainOK /\ MainOK' /\ main \in Report
    BY ReportNext DEF ReportInv, MainOK
  <1>2. CASE TransferNext /\ AtTransfer
    <2>1. CASE CopyStep
      <3>1. CASE Start
        <4>1. IsTransfer /\ \E at \in {"preflight", "preverify"} : Open(at)
          BY <3>1 DEF Start, StartAcquire, StartRaw, StartEwf, StartAff4, IsTransfer
        <4> QED
          BY <4>1, OpenStep
      <3>2. CASE CopyDirect \/ CopyBuffered \/ CopyRecycle \/ CopyRecv
        <4>1. main.at \in {"copy", "wait"}
          BY <3>2 DEF CopyDirect, CopyBuffered, CopyRecycle, CopyRecv, Copying
        <4>2. IsTransfer
          BY <1>1, <4>1 DEF MainOK, TransferLabels
        <4> QED
          BY <1>1, <3>2, <4>2, CopyDirectStep, CopyBufferedStep, CopyRecycleStep, CopyRecvStep
      <3>3. CASE QuietStep
        BY <1>1, <3>3, QuietMoves, CopyStays
      <3> QED
        BY <2>1, <3>1, <3>2, <3>3 DEF CopyStep, QuietStep
    <2>2. CASE ProducerStep
      BY <2>2, ProducerRecvStep, ProducerReadStep, ProducerSendStep DEF ProducerStep
    <2>3. CASE (\E i \in 1..Size : Change(i)) \/ Replaced
      BY <2>3, SourceStep
    <2> QED
      BY <1>2, <2>1, <2>2, <2>3 DEF TransferNext
  <1>3. CASE OtherStep
    <2>1. ~IsTransfer /\ UNCHANGED <<job, sourceVars, taken, staged, readerVars>>
      BY <1>1, <1>3, OthersKeepJob DEF transferVars, copyVars
    <2>2. main'.at # "wait"
      BY <1>1, <2>1 DEF MainOK, TransferLabels, IsTransfer
    <2> QED
      BY <2>1, <2>2, CopyStays
  <1>4. CASE CommandFails \/ Cancel \/ Interfere
    BY <1>1, <1>4, SharedMoves, CopyStays DEF transferVars, copyVars
  <1>5. CASE UNCHANGED vars
    BY <1>5, CopyStays DEF vars, cliVars, jobVars, transferVars, copyVars
  <1> QED
    BY <1>2, <1>3, <1>4, <1>5 DEF Next, OtherStep

----------------------------------------------------------------------------
(* The end of a transfer                                                   *)

\* Places where nothing is known of the whole copy.
Unfinished == Labels \ {"check", "finish", "readback", "verify", "publish", "exit"}

\* Steps after which what was known of the copy still holds.
LEMMA FinishedStays ==
    ASSUME Finished, UNCHANGED <<job, sourceVars, taken, staged>>,
           \/ main' = main /\ (output' = output \/ (output = "absent" /\ ~Over))
           \/ main'.at \in Unfinished
           \/ main'.at = "exit" /\ (main'.exit \notin {0, 4} \/ ~IsTransfer)
    PROVE  Finished'
  <1> USE DEF Finished, CleanExitMeansCopied, Compared, Agrees, IsTransfer, Over, sourceVars,
              Unfinished
  <1>1. CASE main' = main /\ (output' = output \/ (output = "absent" /\ ~Over))
    BY <1>1
  <1>2. CASE \/ main'.at \in Unfinished
             \/ main'.at = "exit" /\ (main'.exit \notin {0, 4} \/ ~IsTransfer)
    BY <1>2
  <1> QED
    BY <1>1, <1>2

\* A whole copy of a source that nobody changed is the source.
LEMMA WholeCopy ==
    ASSUME CopyOK, Len(taken) = Size, changed = 0
    PROVE  taken = Whole
  <1>1. taken \in Seq(Nat) /\ InOrder(taken, 0, 0) /\ Size \in Nat
    BY TransferAssumption DEF CopyOK
  <1>2. ASSUME NEW i \in 1..Size PROVE taken[i] = i
    BY <1>1 DEF InOrder
  <1>3. taken = [i \in 1..Size |-> taken[i]]
    BY <1>1
  <1> QED
    BY <1>2, <1>3 DEF Whole

\* The steps that copy: nothing is known of the whole before they end.
LEMMA CopyingUnfinished ==
    ASSUME main \in Report, Finished,
           Start \/ CopyDirect \/ CopyBuffered \/ CopyRecycle \/ CopyRecv
    PROVE  Finished'
  <1>1. UNCHANGED <<job, sourceVars, output>>
    BY DEF Start, StartAcquire, StartRaw, StartEwf, StartAff4, Open, CopyDirect, CopyBuffered,
           CopyRecycle, CopyRecv, jobVars
  <1>2. main'.at \in Unfinished
    <2> USE Moves DEF Unfinished, Labels, TransferLabels
    <2>1. ASSUME NEW at \in {"preflight", "preverify"}, Open(at)
          PROVE  main'.at \in Unfinished
      BY <2>1 DEF Open
    <2>2. CASE Start
      BY <2>1, <2>2 DEF Start, StartAcquire, StartRaw, StartEwf, StartAff4
    <2>3. CASE CopyDirect \/ CopyBuffered
      BY <2>3 DEF CopyDirect, CopyBuffered, Copying
    <2>4. CASE CopyRecycle \/ CopyRecv
      BY <2>4 DEF CopyRecycle, CopyRecv
    <2> QED
      BY <2>2, <2>3, <2>4
  <1> QED
    BY <1>1, <1>2 DEF Finished, CleanExitMeansCopied, Over, sourceVars, Unfinished

LEMMA QuietFinished ==
    ASSUME main \in Report, CopyOK, Finished, QuietStep
    PROVE  Finished'
  <1>1. /\ UNCHANGED <<job, sourceVars, changed, touched, taken, staged>>
        /\ job.kind # "device" /\ ~touched => changed = 0
    BY QuietMoves DEF sourceVars, Finished
  <1> USE Moves DEF Labels, TransferLabels, Unfinished
  <1>2. ASSUME main'.at = "failing" PROVE Finished'
    BY <1>1, <1>2, FinishedStays
  <1>3. CASE Preverify \/ Preflight
    <2>1. main'.at \in Unfinished
      BY <1>3 DEF Preverify, Preflight
    <2> QED
      BY <1>1, <2>1, FinishedStays
  <1>4. CASE CopyEnds
    <2>1. main'.at = "failing" \/ (main'.at = "check" /\ Len(taken) = Size)
      BY <1>4 DEF CopyEnds
    <2> QED
      BY <1>1, <1>2, <2>1 DEF Finished, CleanExitMeansCopied, Over
  <1>5. CASE BeforeFinish
    <2>1. main'.at = "failing" \/ main'.at \in {"finish", "verify"}
      BY <1>5, BeforeFinishMoves
    <2>2. CASE main'.at \in {"finish", "verify"}
      <3>1. /\ main.at = "check" /\ job.target # "none" /\ ~touched /\ Agrees(taken)
        BY <1>5, <2>2 DEF BeforeFinish
      <3>2. Compared
        BY <1>1, <3>1, WholeCopy DEF Finished, Compared
      <3>3. Compared'
        BY <1>1, <3>2 DEF Compared, Agrees
      <3> QED
        BY <1>1, <2>2, <3>1, <3>3 DEF Finished, CleanExitMeansCopied, Over
    <2> QED
      BY <1>2, <2>1, <2>2
  <1>6. ASSUME main.at \in {"finish", "readback", "verify", "publish"}
        PROVE  /\ Compared /\ Compared' /\ job.target # "none"
               /\ Len(taken) = Size /\ Agrees(taken) /\ (job.kind # "device" => taken = Whole)
               /\ Len(taken') = Size /\ Agrees(taken)' /\ (job.kind # "device" => taken' = Whole)
    BY <1>1, <1>6 DEF Finished, Compared, Agrees
  <1>7. CASE FinishEwf
    <2>1. /\ main.at = "finish"
          /\ main'.at = "failing" \/ (main'.at = "readback" /\ output' = "ours")
      BY <1>7, FinishEwfMoves
    <2> QED
      BY <1>1, <1>2, <1>6, <2>1 DEF Finished, CleanExitMeansCopied, Over
  <1>8. CASE ReadBack
    <2>1. /\ main.at = "readback" /\ output' = output
          /\ main'.at = "failing" \/ (main'.at = "exit" /\ staged = taken)
      BY <1>8, ReadBackMoves
    <2> QED
      BY <1>1, <1>2, <1>6, <2>1 DEF Finished, CleanExitMeansCopied, Over
  <1>9. CASE VerifyStaged
    <2>1. /\ main.at = "verify"
          /\ main'.at = "failing" \/ (main'.at = "publish" /\ staged = taken)
      BY <1>9 DEF VerifyStaged
    <2> QED
      BY <1>1, <1>2, <1>6, <2>1 DEF Finished, CleanExitMeansCopied, Over
  <1>10. CASE Persist
    <2>1. /\ main.at = "publish"
          /\ main'.at = "failing" \/ (main'.at = "exit" /\ output' = "ours")
      BY <1>10, PersistMoves
    <2> QED
      BY <1>1, <1>2, <1>6, <2>1 DEF Finished, CleanExitMeansCopied, Over
  <1>11. CASE VerifyRaw
    <2>1. /\ main.at = "check" /\ job.target = "none"
          /\ \/ main'.at = "failing"
             \/ main'.at = "exit" /\ main'.exit = 3
             \/ main'.at = "exit" /\ ~touched /\ Agrees(taken)
      <3>1. Agrees(taken) \/ Failing(1) \/ Exit(3)
        BY <1>11 DEF VerifyRaw, Agrees
      <3>2. ~touched \/ Failing(1)
        BY <1>11 DEF VerifyRaw
      <3>3. Failing(1) \/ \E code \in {0, 3, 4} : Exit(code)
        BY <1>11 DEF VerifyRaw
      <3> QED
        BY <1>11, <3>1, <3>2, <3>3 DEF VerifyRaw
    <2>2. CASE main'.at = "exit" /\ ~touched /\ Agrees(taken)
      <3>1. Len(taken) = Size /\ (job.kind # "device" => taken = Whole)
        BY <1>1, <2>1, <2>2, WholeCopy DEF Finished
      <3>2. Agrees(taken)'
        BY <1>1, <2>2 DEF Agrees
      <3> QED
        BY <1>1, <2>1, <2>2, <3>1, <3>2 DEF Finished, CleanExitMeansCopied, Over
    <2> QED
      BY <1>1, <1>2, <2>1, <2>2, FinishedStays
  <1> QED
    BY <1>3, <1>4, <1>5, <1>7, <1>8, <1>9, <1>10, <1>11 DEF QuietStep

LEMMA FinishedNext ==
    ReportInv /\ CopyOK /\ Finished /\ [Next]_vars => Finished'
  <1> SUFFICES ASSUME ReportInv, CopyOK, Finished, [Next]_vars PROVE Finished'
    OBVIOUS
  <1>1. MainOK /\ main \in Report
    BY DEF ReportInv, MainOK
  <1>2. CASE TransferNext /\ AtTransfer
    <2>1. CASE CopyStep
      BY <1>1, <2>1, CopyingUnfinished, QuietFinished DEF CopyStep, QuietStep
    <2>2. CASE ProducerStep
      <3>1. OnlyProducer
        BY <2>2 DEF ProducerStep, ProducerRecv, ProducerRead, ProducerSend
      <3>2. UNCHANGED <<job, sourceVars, taken, staged>> /\ main' = main /\ output' = output
        BY <3>1 DEF OnlyProducer, cliVars, jobVars, copyVars
      <3> QED
        BY <3>2, FinishedStays
    <2>3. ASSUME NEW i \in 1..Size, Change(i) PROVE Finished'
      <3>1. /\ UNCHANGED <<job, main, output, taken, staged>> /\ ~Over
            /\ touched' = (touched \/ job.kind # "device")
        BY <2>3 DEF Change, Transferring, cliVars, jobVars, copyVars
      <3> QED
        BY <3>1 DEF Finished, CleanExitMeansCopied, Compared, Agrees, Over
    <2>4. CASE Replaced
      <3>1. UNCHANGED <<job, main, output, taken, staged, changed>> /\ ~Over /\ touched' = TRUE
        BY <2>4 DEF Replaced, Transferring, cliVars, jobVars, copyVars
      <3> QED
        BY <3>1 DEF Finished, CleanExitMeansCopied, Compared, Agrees, Over
    <2> QED
      BY <1>2, <2>1, <2>2, <2>3, <2>4 DEF TransferNext
  <1>3. CASE OtherStep
    <2>1. ~IsTransfer /\ UNCHANGED <<job, changed, touched, taken, staged>>
      BY <1>1, <1>3, OthersKeepJob DEF transferVars, copyVars, sourceVars
    <2>2. MainOK'
      BY ReportNext DEF ReportInv
    <2>3. main'.at \notin TransferLabels /\ ~IsTransfer'
      BY <2>1, <2>2 DEF MainOK, IsTransfer
    <2> QED
      BY <2>1, <2>3 DEF Finished, CleanExitMeansCopied, TransferLabels
  <1>4. CASE CommandFails \/ Cancel \/ Interfere
    <2>1. UNCHANGED <<job, sourceVars, taken, staged>>
      BY <1>1, <1>4, SharedMoves DEF transferVars, copyVars
    <2>2. \/ main' = main /\ (output' = output \/ (output = "absent" /\ ~Over))
          \/ main'.at = "exit" /\ (main'.exit \notin {0, 4} \/ ~IsTransfer)
      <3>1. CASE CommandFails
        BY <1>1, <3>1, Moves DEF CommandFails, ReportFailure, ReportInv, Told
      <3>2. CASE Cancel \/ Interfere
        BY <3>2 DEF Cancel, StopWhen, Interfere, Appear, jobVars
      <3> QED
        BY <1>4, <3>1, <3>2
    <2> QED
      BY <2>1, <2>2, FinishedStays
  <1>5. CASE UNCHANGED vars
    <2>1. UNCHANGED <<job, sourceVars, taken, staged>> /\ main' = main /\ output' = output
      BY <1>5 DEF vars, cliVars, jobVars, transferVars, copyVars
    <2> QED
      BY <2>1, FinishedStays
  <1> QED
    BY <1>2, <1>3, <1>4, <1>5 DEF Next, OtherStep

LEMMA CopyAlways == FairSpec => []IInv
  <1>1. Init => IInv
    BY ReportInit, CopyInit
       DEF IInv, CopyInv, Finished, CleanExitMeansCopied, Over, Init, CliInit, TransferInit
  <1>2. IInv /\ [Next]_vars => IInv'
    BY ReportNext, CopyNext, FinishedNext DEF IInv, CopyInv
  <1> QED
    BY <1>1, <1>2, PTL DEF FairSpec

\* transfer.rs, copy() and Reader::read(): whatever the read-ahead thread, the
\* driver and those who write to the source do, and in whatever order, what is
\* hashed and written are the pieces of the source in order, none left out or
\* repeated, and the two buffers stay the only ones.
THEOREM TransfersCopyInOrder == FairSpec => []CopyInOrder
  <1>1. ASSUME IInv PROVE CopyInOrder
    <2>1. CliTypeOK
      BY <1>1 DEF IInv, ReportInv, MainOK, Report, CliTypeOK
    <2>2. /\ taken \in Seq(Nat) /\ Len(taken) <= Size /\ Size \in Nat
          /\ \A i \in 1..Len(taken) : taken[i] = 0 + i \/ taken[i] = Size + 0 + i
      BY <1>1, TransferAssumption DEF IInv, CopyInv, CopyOK, InOrder
    <2>3. \A i \in 1..Len(taken) : taken[i] \in {i, Size + i}
      BY <2>2
    <2>4. taken \in Seq(1..(2 * Size))
      <3>1. PICK n \in 0..Size : n = Len(taken)
        BY <2>2
      <3>2. \A i \in 1..n : i \in 1..(2 * Size) /\ Size + i \in 1..(2 * Size)
        BY <2>2
      <3> QED
        BY <2>2, <2>3, <3>1, <3>2, InSeq
    <2>5. TransferTypeOK
      BY <1>1, <2>2, <2>4 DEF IInv, CopyInv, CopyOK, TransferTypeOK, InHand, InRead
    <2> QED
      BY <2>1, <2>2, <2>3, <2>5 DEF CopyInOrder
  <1> QED
    BY <1>1, CopyAlways, PTL

\* docs/ewf-cli.md:97: after exit code 0 or 4 the output is there and reads as the
\* source did when it was opened, for sources and buffers of any size: a change
\* shows in the check before the end, or in the digests that are compared.
THEOREM CleanExitIsACopy == FairSpec => []CleanExitMeansCopied
  <1>1. IInv => CleanExitMeansCopied
    BY DEF IInv, CopyInv, Finished
  <1> QED
    BY <1>1, CopyAlways, PTL

----------------------------------------------------------------------------
(* The walk of a collection                                                *)

\* Where a collection walks, and with a file at hand.
FileLabels == {"open", "read", "after"}
EndLabels == {"staged", "verifying", "last", "persist"}
WalkLabels == {"walk"} \cup FileLabels \cup EndLabels
UnpackLabels == {"unpack", "unpacking", "unpacked"}

FilesRead == UNION {[D -> Seq({0, 1})] : D \in SUBSET Paths}
Walks == [pending : Seq(Paths), path : Paths, stamp : {0, 1}, pieces : Seq({0, 1}),
          files : FilesRead, folders : SUBSET Paths, issues : SUBSET Paths, charged : Nat]
Tree == [Paths -> [kind : Kinds, stamp : {0, 1}]]

\* What the walk has recorded, and what it knows of, `hand' being looked at.
Met(w) == w.folders \cup DOMAIN w.files \cup w.issues
Known(w, hand) == ToSet(w.pending) \cup hand \cup Met(w)

\* Nothing is known twice, and a path is known because of its folder.
Sound(w, hand) ==
    /\ w \in Walks
    /\ IsInjective(w.pending)
    /\ w.folders \cap DOMAIN w.files = {}
    /\ (ToSet(w.pending) \cup hand) \cap Met(w) = {}
    /\ hand \cap ToSet(w.pending) = {}
    /\ hand \subseteq Paths
    /\ \A p \in Known(w, hand) : p # Root => Parent[p] \in w.folders
    /\ w.folders # {} => Root \in w.folders
    /\ DOMAIN w.files \cap (Folders \cup {Root}) = {}

\* Everything below a folder is known, but for those being listed.
Complete(w, hand, listing, t) ==
    /\ Root \in Known(w, hand)
    /\ \A f \in w.folders \ (w.issues \cup listing) :
          \A c \in ChildrenOf(f) : t[c].kind # "gone" => c \in Known(w, hand)

\* A file is read in one state.
Even(w) == \A f \in DOMAIN w.files : \E stamp \in {0, 1} : ToSet(w.files[f]) = {stamp}
Paid(w) == w.charged = FinalStatements(w)

AtHand == IF main.at \in FileLabels THEN {walk.path} ELSE {}
Collecting == job.kind = "collect" /\ (main.at \in WalkLabels \/ output = "ours")

TreeOK == tree \in Tree /\ \A p \in Folders \cup {Root} : tree[p].kind = "folder"
WalkOK ==
    /\ main.at \in WalkLabels \ {"persist"} => job.kind = "collect"
    /\ main.at \in UnpackLabels => job.kind = "extract"
    /\ job.kind # "collect" => walk = NoWalk
    /\ Sound(walk, AtHand)
    /\ AtHand \cap (Folders \cup {Root}) = {}
BudgetOK ==
    job.kind = "collect" /\ main.at \in WalkLabels => Paid(walk) /\ walk.charged <= job.triples
FileOK ==
    /\ main.at \in {"read", "after"} =>
          /\ walk.stamp <= tree[walk.path].stamp
          /\ \A i \in 1..Len(walk.pieces) :
                walk.stamp <= walk.pieces[i] /\ walk.pieces[i] <= tree[walk.path].stamp
    /\ main.at = "after" => Len(walk.pieces) = FilePieces
AccountOK ==
    /\ Collecting => /\ Complete(walk, AtHand, {}, tree) /\ Even(walk)
                     /\ job.allow_partial \/ \A p \in walk.issues : Excluded(p)
                     /\ main.at \in EndLabels \/ output = "ours" => walk.pending = <<>>
    /\ job.kind = "collect" /\ output = "ours" => Over /\ (main.exit = 0 => walk.issues = {})

CollectionInv == TreeOK /\ WalkOK /\ BudgetOK /\ FileOK /\ AccountOK

----------------------------------------------------------------------------
(* Paths                                                                   *)

\* A path is greater than its folder's.
LEMMA PathFacts ==
    /\ Len(Parent) \in Nat /\ Paths \subseteq Nat /\ IsFiniteSet(Paths) /\ Root \in Paths
    /\ \A p \in Paths : p # Root => Parent[p] \in Paths /\ Parent[p] < p
    /\ \A p : ChildrenOf(p) \subseteq Paths \ {Root}
  <1>1. Len(Parent) \in Nat /\ DOMAIN Parent = 1..Len(Parent)
    BY CollectionAssumption
  <1>2. IsFiniteSet(Paths)
    BY <1>1, FS_Interval DEF Paths
  <1>3. \A p \in Paths : p # Root => Parent[p] \in Paths /\ Parent[p] < p
    <2> SUFFICES ASSUME NEW p \in Paths, p # Root PROVE Parent[p] \in Paths /\ Parent[p] < p
      OBVIOUS
    <2>1. p \in DOMAIN Parent /\ p \in Nat /\ p <= Len(Parent)
      BY <1>1 DEF Paths, Root
    <2>2. Parent[p] \in 0..(p - 1)
      BY <2>1, CollectionAssumption
    <2> QED
      BY <1>1, <2>1, <2>2 DEF Paths
  <1> QED
    BY <1>1, <1>2, <1>3 DEF Paths, Root, ChildrenOf

LEMMA SizeOf ==
    ASSUME NEW S \in SUBSET Paths
    PROVE  /\ Cardinality(S) \in Nat
           /\ \A p \in Paths \ S : Cardinality(S \cup {p}) = Cardinality(S) + 1
    BY PathFacts, FS_Subset, FS_CardinalityType, FS_AddElement

\* The children of a folder go on the stack once each.
LEMMA DescendingProperties ==
    ASSUME NEW S \in SUBSET Paths
    PROVE  /\ Descending(S) \in Seq(Paths) /\ IsInjective(Descending(S))
           /\ ToSet(Descending(S)) = S
  <1>1. S \in SUBSET Nat /\ IsFiniteSet(S)
    BY PathFacts, FS_Subset
  <1>2. PICK n \in Nat : n = Cardinality(S)
    BY SizeOf
  <1> DEFINE d == [k \in 1..n |-> Nth(S, n + 1 - k)]
  <1>3. Descending(S) = d
    BY <1>2 DEF Descending
  <1>4. \A k \in 1..n : n + 1 - k \in 1..n /\ n + 1 - (n + 1 - k) = k
    OBVIOUS
  <1>5. \A k \in 1..n : d[k] \in S /\ Rank(S, d[k]) = n + 1 - k
    BY <1>1, <1>2, <1>4, NthProperties
  <1>6. \A p \in S : Rank(S, p) \in 1..n /\ Nth(S, Rank(S, p)) = p
    BY <1>1, <1>2, NthOfRank
  <1>7. \A p \in S : \E k \in 1..n : d[k] = p
    <2> SUFFICES ASSUME NEW p \in S PROVE \E k \in 1..n : d[k] = p
      OBVIOUS
    <2>1. PICK r \in 1..n : r = Rank(S, p) /\ Nth(S, r) = p
      BY <1>6
    <2>2. n + 1 - r \in 1..n /\ n + 1 - (n + 1 - r) = r
      BY <1>4
    <2>3. d[n + 1 - r] = p
      BY <2>1, <2>2
    <2> QED
      BY <2>2, <2>3
  <1>8. \A k, l \in 1..n : n + 1 - k = n + 1 - l => k = l
    OBVIOUS
  <1>9. d \in [1..n -> S] /\ DOMAIN d = 1..n
    BY <1>5
  <1> HIDE DEF d
  <1>10. d \in [1..n -> Paths] /\ d \in Seq(Paths)
    BY <1>9
  <1>11. IsInjective(d)
    BY <1>5, <1>8, <1>9 DEF IsInjective
  <1>12. ToSet(d) = S
    BY <1>5, <1>7, <1>9 DEF ToSet
  <1> QED
    BY <1>3, <1>10, <1>11, <1>12

\* What is on top of the stack is not below it.
LEMMA PopProperties ==
    ASSUME NEW s \in Seq(Paths), s # <<>>, IsInjective(s)
    PROVE  /\ Front(s) \in Seq(Paths) /\ IsInjective(Front(s))
           /\ Last(s) \in Paths /\ Last(s) \notin ToSet(Front(s))
           /\ ToSet(s) = ToSet(Front(s)) \cup {Last(s)}
  <1>1. PICK n \in Nat : n = Len(s) /\ n >= 1 /\ DOMAIN s = 1..n
    OBVIOUS
  <1>2. /\ Front(s) \in Seq(Paths) /\ DOMAIN Front(s) = 1..(n - 1)
        /\ \A i \in 1..(n - 1) : Front(s)[i] = s[i]
    <2>1. Front(s) = SubSeq(s, 1, n - 1) /\ 1 \in 1..(n + 1) /\ n - 1 \in 0..n
      BY <1>1 DEF Front
    <2>2. SubSeq(s, 1, n - 1) = [i \in 1..(n - 1) |-> s[i]]
      BY <1>1
    <2>3. \A i \in 1..(n - 1) : i \in 1..n /\ s[i] \in Paths
      BY <1>1
    <2>4. [i \in 1..(n - 1) |-> s[i]] \in [1..(n - 1) -> Paths] /\ n - 1 \in Nat
      BY <1>1, <2>3
    <2> QED
      BY <2>1, <2>2, <2>4
  <1>3. PICK f \in Seq(Paths) : /\ f = Front(s) /\ DOMAIN f = 1..(n - 1)
                                /\ \A i \in 1..(n - 1) : f[i] = s[i]
    BY <1>2
  <1>4. Last(s) = s[n] /\ s[n] \in Paths
    BY <1>1 DEF Last
  <1>5. \A i \in 1..n : i = n \/ i \in 1..(n - 1)
    BY <1>1
  <1>6. \A i \in 1..(n - 1) : i \in 1..n /\ i # n
    BY <1>1
  <1>7. \A i, j \in 1..n : s[i] = s[j] => i = j
    BY <1>1 DEF IsInjective
  <1>8. IsInjective(f)
    <2> SUFFICES ASSUME NEW i \in 1..(n - 1), NEW j \in 1..(n - 1), f[i] = f[j] PROVE i = j
      BY <1>3 DEF IsInjective
    <2> QED
      BY <1>3, <1>6, <1>7
  <1>9. n \in 1..n
    BY <1>1
  <1>10. s[n] \notin ToSet(f)
    BY <1>3, <1>6, <1>7, <1>9 DEF ToSet
  <1>11. ToSet(s) = ToSet(f) \cup {s[n]}
    BY <1>1, <1>3, <1>5, <1>6, <1>9 DEF ToSet
  <1> QED
    BY <1>3, <1>4, <1>8, <1>10, <1>11

LEMMA PushProperties ==
    ASSUME NEW s \in Seq(Paths), IsInjective(s), NEW t \in Seq(Paths), IsInjective(t),
           ToSet(s) \cap ToSet(t) = {}
    PROVE  /\ s \o t \in Seq(Paths) /\ IsInjective(s \o t)
           /\ ToSet(s \o t) = ToSet(s) \cup ToSet(t)
  <1>1. \A u : ToSet(u) = Range(u)
    BY DEF ToSet, Range
  <1> QED
    BY <1>1, ConcatInjective

----------------------------------------------------------------------------
(* What a step does to the walk                                            *)

LEMMA FilesReadFacts ==
    /\ \A f \in FilesRead : DOMAIN f \subseteq Paths /\ \A p \in DOMAIN f : f[p] \in Seq({0, 1})
    /\ \A D \in SUBSET Paths : \A f \in [D -> Seq({0, 1})] : f \in FilesRead /\ DOMAIN f = D
    BY DEF FilesRead

\* The final metadata, in numbers.
LEMMA FinalStatementsIs ==
    ASSUME NEW w \in Walks
    PROVE  \E i, d, f \in Nat :
              /\ i = Cardinality(w.issues) /\ d = Cardinality(w.folders)
              /\ f = Cardinality(DOMAIN w.files)
              /\ FinalStatements(w) = 4 + i + 3 * d + 4 * f
                                      + (IF w.folders = {} THEN 0 ELSE 3 + d - 1 + f)
  <1>1. w.issues \in SUBSET Paths /\ w.folders \in SUBSET Paths
    BY DEF Walks
  <1>2. DOMAIN w.files \in SUBSET Paths
    BY FilesReadFacts DEF Walks
  <1>3. PICK i, d, f \in Nat : /\ i = Cardinality(w.issues) /\ d = Cardinality(w.folders)
                               /\ f = Cardinality(DOMAIN w.files)
    BY <1>1, <1>2, SizeOf
  <1>4. FinalStatements(w) = 4 + i + 3 * d + 4 * f
                             + (IF w.folders = {} THEN 0 ELSE 3 + d - 1 + f)
    BY <1>3 DEF FinalStatements, TaskRecord, FolderRecord, FileRecord, RootRecord
  <1> QED
    BY <1>3, <1>4

\* A path is taken from the stack and looked at.
LEMMA TopProperties ==
    ASSUME NEW w, Sound(w, {}), w.pending # <<>>, NEW u,
           u = [w EXCEPT !.pending = Front(@)], NEW top, top = Last(w.pending)
    PROVE  /\ Sound(u, {top}) /\ top \in Paths
           /\ \A t : Complete(w, {}, {}, t) => Complete(u, {top}, {}, t)
           /\ Paid(w) => Paid(u)
           /\ u.files = w.files /\ u.issues = w.issues /\ u.charged = w.charged
           /\ u.folders = w.folders
  <1>1. /\ w \in Walks /\ w.pending \in Seq(Paths) /\ IsInjective(w.pending)
    BY DEF Sound, Walks
  <1>2. /\ Front(w.pending) \in Seq(Paths) /\ IsInjective(Front(w.pending))
        /\ top \in Paths /\ top \notin ToSet(Front(w.pending))
        /\ ToSet(w.pending) = ToSet(Front(w.pending)) \cup {top}
    BY <1>1, PopProperties
  <1>3. /\ u \in Walks /\ u.pending = Front(w.pending) /\ u.path = w.path
        /\ u.files = w.files /\ u.issues = w.issues /\ u.charged = w.charged
        /\ u.folders = w.folders
    BY <1>1, <1>2 DEF Walks
  <1>4. Met(u) = Met(w)
    BY <1>3 DEF Met
  <1>5. Known(u, {top}) = Known(w, {})
    BY <1>2, <1>3, <1>4 DEF Known
  <1>6. Sound(u, {top})
    BY <1>2, <1>3, <1>4, <1>5 DEF Sound
  <1>7. \A t : Complete(w, {}, {}, t) => Complete(u, {top}, {}, t)
    BY <1>3, <1>5 DEF Complete
  <1>8. Paid(w) => Paid(u)
    BY <1>3 DEF Paid, FinalStatements
  <1> QED
    BY <1>2, <1>3, <1>6, <1>7, <1>8

\* An issue is recorded for it, or for the folder that could not be listed.
LEMMA IssueProperties ==
    ASSUME NEW w, NEW hand, Sound(w, hand), NEW p \in Paths, hand \subseteq {p},
           p \in hand \cup w.folders, p \notin w.issues
    PROVE  /\ Sound(WithIssue(w, p), {})
           /\ \A t : \A listing \in SUBSET {p} :
                 Complete(w, hand, listing, t) => Complete(WithIssue(w, p), {}, {}, t)
           /\ Paid(w) => Paid(WithIssue(w, p))
           /\ WithIssue(w, p).files = w.files
           /\ WithIssue(w, p).issues = w.issues \cup {p}
           /\ WithIssue(w, p).pending = w.pending
  <1> DEFINE u == WithIssue(w, p)
  <1>1. w \in Walks
    BY DEF Sound
  <1>2. /\ u \in Walks /\ u.pending = w.pending /\ u.files = w.files /\ u.folders = w.folders
        /\ u.issues = w.issues \cup {p} /\ u.charged = w.charged + 1
    <2>0. w.issues \in SUBSET Paths /\ w.charged \in Nat
      BY <1>1 DEF Walks
    <2>01. w.issues \cup {p} \in SUBSET Paths
      BY <2>0
    <2>02. w.charged + 1 \in Nat
      BY <2>0
    <2>1. PICK i \in SUBSET Paths, c \in Nat : i = w.issues \cup {p} /\ c = w.charged + 1
      BY <2>01, <2>02
    <2>2. u = [w EXCEPT !.issues = i, !.charged = c]
      BY <2>1 DEF WithIssue
    <2> QED
      BY <1>1, <2>1, <2>2 DEF Walks
  <1> HIDE DEF u
  <1>3. Met(u) = Met(w) \cup {p}
    BY <1>2 DEF Met
  <1>4. Known(u, {}) = Known(w, hand)
    BY <1>2, <1>3 DEF Known, Met
  <1>5. p \notin ToSet(w.pending)
    BY DEF Sound, Met
  <1>6. Sound(u, {})
    BY <1>2, <1>3, <1>4, <1>5 DEF Sound
  <1>7. ASSUME NEW t, NEW listing \in SUBSET {p}, Complete(w, hand, listing, t)
        PROVE  Complete(u, {}, {}, t)
    BY <1>2, <1>4, <1>7 DEF Complete
  <1>8. Paid(w) => Paid(u)
    <2>1. Cardinality(u.issues) = Cardinality(w.issues) + 1
      BY <1>1, <1>2, SizeOf DEF Walks
    <2>2. PICK i, d, f \in Nat :
             /\ i = Cardinality(w.issues) /\ d = Cardinality(w.folders)
             /\ f = Cardinality(DOMAIN w.files)
             /\ FinalStatements(w) = 4 + i + 3 * d + 4 * f
                                     + (IF w.folders = {} THEN 0 ELSE 3 + d - 1 + f)
      BY <1>1, FinalStatementsIs
    <2>3. PICK i2, d2, f2 \in Nat :
             /\ i2 = Cardinality(u.issues) /\ d2 = Cardinality(u.folders)
             /\ f2 = Cardinality(DOMAIN u.files)
             /\ FinalStatements(u) = 4 + i2 + 3 * d2 + 4 * f2
                                     + (IF u.folders = {} THEN 0 ELSE 3 + d2 - 1 + f2)
      BY <1>2, FinalStatementsIs
    <2>4. i2 = i + 1 /\ d2 = d /\ f2 = f
      BY <1>2, <2>1, <2>2, <2>3
    <2>5. FinalStatements(u) = FinalStatements(w) + 1
      BY <1>2, <2>2, <2>3, <2>4
    <2> QED
      BY <1>2, <2>5 DEF Paid
  <1> QED
    BY <1>2, <1>6, <1>7, <1>8 DEF u

\* A folder is recorded, to be listed; nothing below it is known yet.
New(p, w) == ChildrenOf(p) \cap Known(w, {}) = {}
LEMMA FolderProperties ==
    ASSUME NEW p \in Paths, NEW w, Sound(w, {p}), NEW u,
           u = Added([w EXCEPT !.folders = @ \cup {p}], p)
    PROVE  /\ Sound(u, {}) /\ p \in u.folders /\ p \notin u.issues
           /\ \A t : Complete(w, {p}, {}, t) => Complete(u, {}, {p}, t)
           /\ Paid(w) => Paid(u)
           /\ New(p, u)
           /\ u.files = w.files /\ u.issues = w.issues /\ u.pending = w.pending
  <1>1. w \in Walks /\ p \notin Met(w) /\ p \notin ToSet(w.pending)
    BY DEF Sound
  <1>2. /\ p \notin w.folders /\ p \notin DOMAIN w.files /\ p \notin w.issues
    BY <1>1 DEF Met
  <1> DEFINE n == IF p = Root THEN 6 ELSE 4
  <1>3. /\ u \in Walks /\ u.pending = w.pending /\ u.files = w.files /\ u.issues = w.issues
        /\ u.folders = w.folders \cup {p} /\ u.charged = w.charged + n
    <2>0. w.folders \in SUBSET Paths /\ w.charged \in Nat
      BY <1>1 DEF Walks
    <2>01. w.folders \cup {p} \in SUBSET Paths
      BY <2>0
    <2>02. w.charged + n \in Nat
      BY <2>0
    <2>1. PICK x \in SUBSET Paths, c \in Nat : x = w.folders \cup {p} /\ c = w.charged + n
      BY <2>01, <2>02
    <2>2. PICK v : v = [w EXCEPT !.folders = x]
      OBVIOUS
    <2>3. /\ v \in Walks /\ v.charged = w.charged /\ v.folders = x
          /\ v.pending = w.pending /\ v.files = w.files /\ v.issues = w.issues
      BY <1>1, <2>2 DEF Walks
    <2>4. u = Added(v, p)
      BY <2>1, <2>2
    <2>5. u = [v EXCEPT !.charged = @ + 3 + (IF p = Root THEN 3 ELSE 1)]
      BY <2>1, <2>3, <2>4 DEF Added, FolderRecord, FileRecord, RootRecord
    <2>6. w.charged \in Nat
      BY <1>1 DEF Walks
    <2>7. w.charged + 3 + (IF p = Root THEN 3 ELSE 1) = c
      BY <2>1, <2>6
    <2>8. u = [v EXCEPT !.charged = c]
      BY <2>3, <2>5, <2>7
    <2> QED
      BY <2>1, <2>3, <2>8 DEF Walks
  <1> HIDE DEF n
  <1>4. Met(u) = Met(w) \cup {p}
    BY <1>3 DEF Met
  <1>5. Known(u, {}) = Known(w, {p})
    BY <1>3, <1>4 DEF Known
  <1>6. Sound(u, {})
    <2>1. p \in Folders \cup {Root} => p \notin DOMAIN w.files
      BY <1>2
    <2>2. p # Root => Parent[p] \in w.folders
      BY DEF Sound, Known
    <2>3. p # Root => Root \in w.folders
      BY <2>2 DEF Sound
    <2> QED
      BY <1>1, <1>2, <1>3, <1>4, <1>5, <2>3 DEF Sound
  <1>7. ASSUME NEW t, Complete(w, {p}, {}, t) PROVE Complete(u, {}, {p}, t)
    BY <1>3, <1>5, <1>7 DEF Complete
  <1>8. New(p, u)
    <2> SUFFICES ASSUME NEW c \in ChildrenOf(p), c \in Known(w, {p}) PROVE FALSE
      BY <1>5 DEF New
    <2>1. c # Root /\ Parent[c] = p
      BY DEF ChildrenOf
    <2>2. Parent[c] \in w.folders
      BY <2>1 DEF Sound
    <2> QED
      BY <1>2, <2>1, <2>2
  <1>9. Paid(w) => Paid(u)
    <2>1. Cardinality(u.folders) = Cardinality(w.folders) + 1
      BY <1>1, <1>2, <1>3, SizeOf DEF Walks
    <2>2. PICK i, d, f \in Nat :
             /\ i = Cardinality(w.issues) /\ d = Cardinality(w.folders)
             /\ f = Cardinality(DOMAIN w.files)
             /\ FinalStatements(w) = 4 + i + 3 * d + 4 * f
                                     + (IF w.folders = {} THEN 0 ELSE 3 + d - 1 + f)
      BY <1>1, FinalStatementsIs
    <2>3. PICK i2, d2, f2 \in Nat :
             /\ i2 = Cardinality(u.issues) /\ d2 = Cardinality(u.folders)
             /\ f2 = Cardinality(DOMAIN u.files)
             /\ FinalStatements(u) = 4 + i2 + 3 * d2 + 4 * f2
                                     + (IF u.folders = {} THEN 0 ELSE 3 + d2 - 1 + f2)
      BY <1>3, FinalStatementsIs
    <2>4. i2 = i /\ d2 = d + 1 /\ f2 = f
      BY <1>3, <2>1, <2>2, <2>3
    <2>5. u.folders # {}
      BY <1>3
    <2>6. CASE p = Root
      <3>1. w.folders = {}
        BY <1>2, <2>6 DEF Sound
      <3>2. DOMAIN w.files = {}
        BY <3>1 DEF Sound, Known, Met
      <3>3. d = 0 /\ f = 0
        BY <2>2, <3>1, <3>2, FS_EmptySet
      <3>4. FinalStatements(w) = 4 + i
        BY <2>2, <3>1, <3>3
      <3>5. FinalStatements(u) = 4 + i + 3 * (0 + 1) + 4 * 0 + (3 + (0 + 1) - 1 + 0)
        BY <2>3, <2>4, <2>5, <3>3
      <3>6. FinalStatements(u) = FinalStatements(w) + 6
        BY <2>2, <3>4, <3>5
      <3> QED
        BY <1>3, <2>6, <3>6 DEF Paid, n
    <2>7. CASE p # Root
      <3>1. w.folders # {}
        BY <2>7 DEF Sound, Known
      <3>2. FinalStatements(w) = 4 + i + 3 * d + 4 * f + (3 + d - 1 + f)
        BY <2>2, <3>1
      <3>3. FinalStatements(u) = 4 + i + 3 * (d + 1) + 4 * f + (3 + (d + 1) - 1 + f)
        BY <2>3, <2>4, <2>5
      <3>4. FinalStatements(u) = FinalStatements(w) + 4
        BY <2>2, <3>2, <3>3
      <3> QED
        BY <1>3, <2>7, <3>4 DEF Paid, n
    <2> QED
      BY <2>6, <2>7
  <1> QED
    BY <1>2, <1>3, <1>6, <1>7, <1>8, <1>9

\* What the listing of a folder shows, and that goes on the stack.
Shown(children, p, t) == \A c \in ChildrenOf(p) : t[c].kind # "gone" => c \in children
LEMMA ListedProperties ==
    ASSUME NEW p \in Paths, NEW w, Sound(w, {}), p \in w.folders,
           New(p, w),
           NEW children \in SUBSET ChildrenOf(p), NEW u,
           u = [w EXCEPT !.pending = @ \o Descending(children)]
    PROVE  /\ Sound(u, {})
           /\ \A t : (Complete(w, {}, {p}, t) /\ Shown(children, p, t)) => Complete(u, {}, {}, t)
           /\ u.files = w.files /\ u.issues = w.issues /\ u.folders = w.folders
           /\ u.charged = w.charged
  <1>1. w \in Walks /\ w.pending \in Seq(Paths) /\ IsInjective(w.pending)
    BY DEF Sound, Walks
  <1>2. children \in SUBSET Paths /\ Root \notin children
    BY PathFacts
  <1>3. PICK d : /\ d = Descending(children) /\ d \in Seq(Paths) /\ IsInjective(d)
                 /\ ToSet(d) = children
    BY <1>2, DescendingProperties
  <1>4. ToSet(w.pending) \cap ToSet(d) = {}
    BY <1>3 DEF Known, New
  <1>5. /\ w.pending \o d \in Seq(Paths) /\ IsInjective(w.pending \o d)
        /\ ToSet(w.pending \o d) = ToSet(w.pending) \cup ToSet(d)
    BY <1>1, <1>3, <1>4, PushProperties
  <1>51. PICK s \in Seq(Paths) : /\ s = w.pending \o d /\ IsInjective(s)
                                 /\ ToSet(s) = ToSet(w.pending) \cup children
    BY <1>3, <1>5
  <1>6. u = [w EXCEPT !.pending = s]
    BY <1>3, <1>51
  <1>7. /\ u \in Walks /\ u.pending = s /\ u.files = w.files /\ u.folders = w.folders
        /\ u.issues = w.issues /\ u.charged = w.charged
    BY <1>1, <1>6 DEF Walks
  <1>8. Met(u) = Met(w)
    BY <1>7 DEF Met
  <1>9. Known(u, {}) = Known(w, {}) \cup children
    BY <1>51, <1>7, <1>8 DEF Known
  <1>10. Sound(u, {})
    <2>1. \A c \in children : c # Root => Parent[c] \in w.folders
      BY DEF ChildrenOf
    <2>2. children \cap Met(w) = {}
      BY DEF Known, New
    <2> QED
      BY <1>51, <1>7, <1>8, <1>9, <2>1, <2>2 DEF Sound
  <1>11. ASSUME NEW t, Complete(w, {}, {p}, t), Shown(children, p, t)
         PROVE  Complete(u, {}, {}, t)
    BY <1>7, <1>9, <1>11 DEF Complete, Shown
  <1> QED
    BY <1>7, <1>10, <1>11

\* A file that was read in one state is recorded.
LEMMA FileProperties ==
    ASSUME NEW w, Sound(w, {w.path}), w.path \notin Folders \cup {Root},
           NEW stamp \in {0, 1}, ToSet(w.pieces) = {stamp}, NEW u, u = WithFile(w)
    PROVE  /\ Sound(u, {})
           /\ \A t : Complete(w, {w.path}, {}, t) => Complete(u, {}, {}, t)
           /\ Paid(w) => Paid(u)
           /\ Even(w) => Even(u)
           /\ u.issues = w.issues /\ u.pending = w.pending
  <1>1. PICK p \in Paths : p = w.path
    BY DEF Sound, Walks
  <1>2. w \in Walks /\ p \notin Met(w) /\ p \notin ToSet(w.pending)
    BY <1>1 DEF Sound
  <1>3. /\ p \notin w.folders /\ p \notin DOMAIN w.files /\ p \notin w.issues
    BY <1>2 DEF Met
  <1>4. PICK D \in SUBSET Paths : D = DOMAIN w.files \cup {p}
    BY <1>2, FilesReadFacts DEF Walks
  <1>5. PICK files : files = [q \in D |-> IF q = p THEN w.pieces ELSE w.files[q]]
    OBVIOUS
  <1>6. files \in FilesRead /\ DOMAIN files = D
    <2>1. w.pieces \in Seq({0, 1}) /\ w.files \in FilesRead
      BY <1>2 DEF Walks
    <2>2. \A q \in D : files[q] \in Seq({0, 1})
      BY <1>4, <1>5, <2>1, FilesReadFacts
    <2> QED
      BY <1>5, <2>2, FilesReadFacts
  <1>7. /\ u \in Walks /\ u.pending = w.pending /\ u.files = files /\ u.issues = w.issues
        /\ u.folders = w.folders /\ u.charged = w.charged + 5
    <2>1. w.charged \in Nat
      BY <1>2 DEF Walks
    <2>2. PICK c \in Nat : c = w.charged + 5
      BY <2>1
    <2>3. PICK v : v = [w EXCEPT !.files = files]
      OBVIOUS
    <2>4. /\ v \in Walks /\ v.charged = w.charged /\ v.folders = w.folders
          /\ v.pending = w.pending /\ v.files = files /\ v.issues = w.issues
      BY <1>2, <1>6, <2>3 DEF Walks
    <2>5. u = Added(v, p)
      BY <1>1, <1>4, <1>5, <2>3 DEF WithFile
    <2>6. u = [v EXCEPT !.charged = @ + 4 + 1]
      BY <1>1, <1>3, <2>4, <2>5 DEF Added, FolderRecord, FileRecord, RootRecord
    <2>7. w.charged + 4 + 1 = c
      BY <2>1, <2>2
    <2>8. u = [v EXCEPT !.charged = c]
      BY <2>4, <2>6, <2>7
    <2> QED
      BY <2>2, <2>4, <2>8 DEF Walks
  <1>8. Met(u) = Met(w) \cup {p}
    BY <1>4, <1>6, <1>7 DEF Met
  <1>9. Known(u, {}) = Known(w, {p})
    BY <1>7, <1>8 DEF Known
  <1>10. Sound(u, {})
    BY <1>1, <1>2, <1>3, <1>4, <1>6, <1>7, <1>8, <1>9 DEF Sound
  <1>11. ASSUME NEW t, Complete(w, {p}, {}, t) PROVE Complete(u, {}, {}, t)
    BY <1>7, <1>9, <1>11 DEF Complete
  <1>12. Even(w) => Even(u)
    <2> SUFFICES ASSUME Even(w), NEW f \in D
                 PROVE  \E s \in {0, 1} : ToSet(files[f]) = {s}
      BY <1>6, <1>7 DEF Even
    <2>1. CASE f = p
      BY <1>5, <2>1
    <2>2. CASE f # p
      BY <1>4, <1>5, <2>2 DEF Even
    <2> QED
      BY <2>1, <2>2
  <1>13. Paid(w) => Paid(u)
    <2>1. Cardinality(DOMAIN u.files) = Cardinality(DOMAIN w.files) + 1
      BY <1>2, <1>3, <1>4, <1>6, <1>7, SizeOf, FilesReadFacts DEF Walks
    <2>2. PICK i, d, f \in Nat :
             /\ i = Cardinality(w.issues) /\ d = Cardinality(w.folders)
             /\ f = Cardinality(DOMAIN w.files)
             /\ FinalStatements(w) = 4 + i + 3 * d + 4 * f
                                     + (IF w.folders = {} THEN 0 ELSE 3 + d - 1 + f)
      BY <1>2, FinalStatementsIs
    <2>3. PICK i2, d2, f2 \in Nat :
             /\ i2 = Cardinality(u.issues) /\ d2 = Cardinality(u.folders)
             /\ f2 = Cardinality(DOMAIN u.files)
             /\ FinalStatements(u) = 4 + i2 + 3 * d2 + 4 * f2
                                     + (IF u.folders = {} THEN 0 ELSE 3 + d2 - 1 + f2)
      BY <1>7, FinalStatementsIs
    <2>4. i2 = i /\ d2 = d /\ f2 = f + 1
      BY <1>7, <2>1, <2>2, <2>3
    <2>5. w.folders # {} /\ u.folders # {}
      BY <1>1, <1>7 DEF Sound, Known
    <2>6. FinalStatements(w) = 4 + i + 3 * d + 4 * f + (3 + d - 1 + f)
      BY <2>2, <2>5
    <2>7. FinalStatements(u) = 4 + i + 3 * d + 4 * (f + 1) + (3 + d - 1 + (f + 1))
      BY <2>3, <2>4, <2>5
    <2>8. FinalStatements(u) = FinalStatements(w) + 5
      BY <2>2, <2>6, <2>7
    <2> QED
      BY <1>7, <2>8 DEF Paid
  <1> QED
    BY <1>1, <1>7, <1>10, <1>11, <1>12, <1>13

----------------------------------------------------------------------------
(* The steps of the walk                                                   *)

LEMMA CollectFacts ==
    ASSUME JobOK, job.kind = "collect"
    PROVE  /\ job.triples \in Nat /\ job.allow_partial \in BOOLEAN
           /\ job.exclude \subseteq Paths \ {Root}
           /\ ~IsTransfer /\ ~Reading /\ ~InSession
    BY TransferAssumption, CollectionAssumption, DisksAssumption, SessionAssumption
       DEF JobOK, IsTransfer, Reading, InSession

\* A walk is as sound, complete and paid as another with the same records.
LEMMA SameRecords ==
    ASSUME NEW w, NEW u \in Walks, u.pending = w.pending, u.folders = w.folders,
           u.files = w.files, u.issues = w.issues, u.charged = w.charged
    PROVE  /\ \A hand : Sound(w, hand) => Sound(u, hand)
           /\ \A hand, t : Complete(w, hand, {}, t) => Complete(u, hand, {}, t)
           /\ Paid(w) => Paid(u)
           /\ Even(w) => Even(u)
  <1>1. Met(u) = Met(w)
    BY DEF Met
  <1>2. \A hand : Known(u, hand) = Known(w, hand)
    BY <1>1 DEF Known
  <1>3. \A hand : Sound(w, hand) => Sound(u, hand)
    BY <1>1, <1>2 DEF Sound
  <1>4. \A hand, t : Complete(w, hand, {}, t) => Complete(u, hand, {}, t)
    BY <1>1, <1>2 DEF Complete
  <1>5. Paid(w) => Paid(u)
    BY DEF Paid, FinalStatements
  <1>6. Even(w) => Even(u)
    BY DEF Even
  <1> QED
    BY <1>3, <1>4, <1>5, <1>6

\* What was at hand may be dropped.
LEMMA EmptyHanded ==
    ASSUME NEW w, NEW hand, Sound(w, hand) PROVE Sound(w, {})
  <1>1. Known(w, {}) \subseteq Known(w, hand)
    BY DEF Known
  <1> QED
    BY <1>1 DEF Sound

\* The command fails, and nothing was published.
LEMMA CollectionFails ==
    ASSUME TreeOK, job.kind = "collect", UNCHANGED <<job, tree>>,
           main'.at \in {"failing", "exit"}, output' # "ours", Sound(walk', {})
    PROVE  CollectionInv'
  <1>1. AtHand' = {}
    BY DEF AtHand, FileLabels
  <1>2. TreeOK'
    BY DEF TreeOK
  <1>3. WalkOK'
    BY <1>1 DEF WalkOK, WalkLabels, FileLabels, EndLabels, UnpackLabels
  <1>4. BudgetOK' /\ FileOK' /\ AccountOK'
    BY DEF BudgetOK, FileOK, AccountOK, Collecting, WalkLabels, FileLabels, EndLabels
  <1> QED
    BY <1>2, <1>3, <1>4 DEF CollectionInv

\* A walk that is going on, with a file at hand or not.
GoodWalk(w, hand) ==
    /\ Sound(w, hand) /\ hand \cap (Folders \cup {Root}) = {}
    /\ Paid(w) /\ Complete(w, hand, {}, tree) /\ Even(w)
    /\ job.allow_partial \/ \A p \in w.issues : Excluded(p)

LEMMA CollectionGoesOn ==
    ASSUME MainOK, CollectionInv, job.kind = "collect", output # "ours",
           UNCHANGED <<job, output, tree>>,
           NEW at \in {"walk", "open", "read"}, NEW w, WalkOn(at, w),
           GoodWalk(w, IF at = "walk" THEN {} ELSE {w.path}),
           at = "read" => w.pieces = <<>> /\ w.stamp = tree[w.path].stamp
    PROVE  CollectionInv'
  <1>1. /\ main \in Report /\ at \in Labels /\ job.triples \in Nat /\ w.charged \in Nat
        /\ walk' = w
    BY CollectFacts DEF MainOK, Labels, CollectionLabels, GoodWalk, Sound, Walks, WalkOn
  <1>2. CASE w.charged > job.triples
    <2>1. Failing(1)
      BY <1>2 DEF WalkOn
    <2>2. main'.at = "failing"
      BY <1>1, <2>1, Moves
    <2>3. Sound(w, {})
      BY EmptyHanded DEF GoodWalk
    <2> QED
      BY <1>1, <2>2, <2>3, CollectionFails DEF CollectionInv
  <1>3. CASE ~(w.charged > job.triples)
    <2>1. Goto(at) /\ w.charged <= job.triples
      BY <1>1, <1>3 DEF WalkOn
    <2>2. main'.at = at
      BY <1>1, <2>1, Moves
    <2>3. AtHand' = (IF at = "walk" THEN {} ELSE {w.path})
      BY <1>1, <2>2 DEF AtHand, FileLabels
    <2>4. TreeOK'
      BY DEF TreeOK, CollectionInv
    <2>5. WalkOK'
      BY <1>1, <2>2, <2>3 DEF WalkOK, GoodWalk, WalkLabels, FileLabels, EndLabels, UnpackLabels
    <2>6. BudgetOK'
      BY <1>1, <2>1 DEF BudgetOK, GoodWalk
    <2>7. AccountOK'
      <3>1. Complete(w, AtHand', {}, tree')
        BY <2>3 DEF GoodWalk
      <3>2. Even(w) /\ (job'.allow_partial \/ \A p \in w.issues : Excluded(p)')
        BY DEF GoodWalk, Excluded
      <3>3. at \notin EndLabels /\ output' # "ours"
        BY DEF EndLabels
      <3> QED
        BY <1>1, <2>2, <3>1, <3>2, <3>3 DEF AccountOK, Collecting
    <2>8. FileOK'
      <3>1. CASE at = "read"
        <4>1. w.stamp \in {0, 1} /\ w.pieces = <<>> /\ w.stamp = tree[w.path].stamp
          BY <3>1 DEF GoodWalk, Sound, Walks
        <4>2. walk'.stamp <= tree'[walk'.path].stamp /\ Len(walk'.pieces) = 0
          BY <1>1, <4>1
        <4>3. main'.at = "read"
          BY <2>2, <3>1
        <4> QED
          BY <4>2, <4>3 DEF FileOK
      <3>2. CASE at # "read"
        BY <2>2, <3>2 DEF FileOK
      <3> QED
        BY <3>1, <3>2
    <2> QED
      BY <2>4, <2>5, <2>6, <2>7, <2>8 DEF CollectionInv
  <1> QED
    BY <1>2, <1>3

\* A walk that has not published, as the invariant describes it.
LEMMA WalkingFacts ==
    ASSUME MainOK, CollectionInv, main.at \in WalkLabels, job.kind = "collect"
    PROVE  /\ output # "ours" /\ GoodWalk(walk, AtHand) /\ walk \in Walks /\ TreeOK
           /\ Sound(walk, {})
           /\ walk.charged <= job.triples
           /\ main.at \in EndLabels => walk.pending = <<>>
  <1>1. ~Over /\ Collecting
    BY DEF Over, WalkLabels, FileLabels, EndLabels, Collecting
  <1>2. output # "ours"
    BY <1>1 DEF CollectionInv, AccountOK
  <1>3. GoodWalk(walk, AtHand)
    BY <1>1 DEF CollectionInv, AccountOK, WalkOK, BudgetOK, GoodWalk
  <1>4. walk \in Walks
    BY <1>3 DEF GoodWalk, Sound
  <1>5. Sound(walk, {})
    BY <1>3, EmptyHanded DEF GoodWalk
  <1> QED
    BY <1>1, <1>2, <1>3, <1>4, <1>5 DEF CollectionInv, AccountOK, BudgetOK

\* The same, when the step is a failure and changes nothing of the walk.
LEMMA WalkFails ==
    ASSUME MainOK, CollectionInv, job.kind = "collect", output # "ours",
           UNCHANGED <<job, output, tree, walk>>, NEW c, Failing(c) \/ Exit(c)
    PROVE  CollectionInv'
  <1>1. main'.at \in {"failing", "exit"}
    BY Moves DEF MainOK
  <1>2. Sound(walk, {})
    BY EmptyHanded DEF CollectionInv, WalkOK
  <1> QED
    BY <1>1, <1>2, CollectionFails DEF CollectionInv

LEMMA CollectionStarts ==
    ASSUME MainOK, Told, CollectionInv, StartCollect
    PROVE  CollectionInv'
  <1>1. /\ job.kind = "collect" /\ main.at = "start"
        /\ UNCHANGED <<job, output, tree>> /\ ~InSession
    BY CollectFacts DEF StartCollect, OnlyWalk, jobVars, MainOK
  <1>2. output # "ours"
    BY <1>1 DEF Told, Publishing
  <1>3. CASE Failing(1) /\ UNCHANGED walk
    BY <1>1, <1>2, <1>3, WalkFails
  <1>4. ASSUME WalkOn("walk", [NoWalk EXCEPT !.pending = <<Root>>, !.charged = TaskRecord])
        PROVE  CollectionInv'
    <2>1. PICK w : /\ w = [NoWalk EXCEPT !.pending = <<Root>>, !.charged = TaskRecord]
                   /\ WalkOn("walk", w)
      BY <1>4
    <2>2. w = [pending |-> <<Root>>, path |-> Root, stamp |-> 0, pieces |-> <<>>,
               files |-> <<>>, folders |-> {}, issues |-> {}, charged |-> 4]
      BY <2>1 DEF NoWalk, TaskRecord
    <2>3. <<>> \in FilesRead /\ DOMAIN <<>> = {}
      <3>1. <<>> \in Seq(Seq({0, 1})) /\ Len(<<>>) = 0 /\ 1..0 = {}
        OBVIOUS
      <3>2. <<>> \in [{} -> Seq({0, 1})]
        BY <3>1
      <3> QED
        BY <3>2, FilesReadFacts
    <2>4. w \in Walks
      BY <2>2, <2>3, PathFacts DEF Walks
    <2>5. ToSet(<<Root>>) = {Root} /\ IsInjective(<<Root>>)
      BY DEF ToSet, IsInjective
    <2>6. Met(w) = {} /\ Known(w, {}) = {Root}
      BY <2>2, <2>3, <2>5 DEF Met, Known
    <2>7. Sound(w, {}) /\ Complete(w, {}, {}, tree)
      BY <2>2, <2>3, <2>4, <2>5, <2>6 DEF Sound, Complete
    <2>8. FinalStatements(w) = 4
      BY <2>2, <2>3, FS_EmptySet DEF FinalStatements, TaskRecord, FolderRecord, FileRecord
    <2>9. GoodWalk(w, {})
      BY <2>2, <2>3, <2>7, <2>8 DEF GoodWalk, Paid, Even
    <2> QED
      BY <1>1, <1>2, <2>1, <2>9, CollectionGoesOn
  <1> QED
    BY <1>3, <1>4 DEF StartCollect

\* What is on top of the stack.
LEMMA VisitFacts ==
    ASSUME MainOK, CollectionInv, main.at = "walk", walk.pending # <<>>
    PROVE  /\ job.kind = "collect" /\ output # "ours" /\ TreeOK
           /\ Top \in Paths
           /\ GoodWalk(walk, {}) /\ Sound(Popped, {Top}) /\ Paid(Popped)
           /\ Complete(Popped, {Top}, {}, tree)
           /\ Popped.files = walk.files /\ Popped.issues = walk.issues
           /\ Popped.folders = walk.folders
           /\ Top \notin walk.issues /\ Top \notin walk.folders
  <1>1. job.kind = "collect" /\ main.at \in WalkLabels /\ AtHand = {}
    BY DEF CollectionInv, WalkOK, WalkLabels, FileLabels, EndLabels, AtHand
  <1>2. GoodWalk(walk, {}) /\ output # "ours" /\ TreeOK
    BY <1>1, WalkingFacts
  <1>3. /\ Sound(Popped, {Top}) /\ Top \in Paths
        /\ Complete(Popped, {Top}, {}, tree) /\ Paid(Popped)
        /\ Popped.files = walk.files /\ Popped.issues = walk.issues
        /\ Popped.folders = walk.folders
    BY <1>2, TopProperties DEF Popped, Top, GoodWalk
  <1>4. Top \notin Met(Popped)
    BY <1>3 DEF Sound
  <1> QED
    BY <1>1, <1>2, <1>3, <1>4 DEF Met

\* It is excluded, or is skipped in a partial collection.
LEMMA CollectionSkips ==
    ASSUME MainOK, CollectionInv, Visiting, OnlyWalk, WalkOn("walk", WithIssue(Popped, Top)),
           Excluded(Top) \/ job.allow_partial
    PROVE  CollectionInv'
  <1>1. /\ job.kind = "collect" /\ output # "ours" /\ UNCHANGED <<job, output, tree>>
        /\ main.at = "walk" /\ walk.pending # <<>>
    BY VisitFacts DEF Visiting, OnlyWalk, jobVars
  <1>2. PICK w : w = WithIssue(Popped, Top)
    OBVIOUS
  <1>3. /\ Sound(w, {}) /\ Complete(w, {}, {}, tree) /\ Paid(w)
        /\ w.files = walk.files /\ w.issues = walk.issues \cup {Top}
    <2>1. /\ Sound(Popped, {Top}) /\ Top \in Paths /\ Top \notin Popped.issues
          /\ Complete(Popped, {Top}, {}, tree) /\ Paid(Popped)
          /\ Popped.files = walk.files /\ Popped.issues = walk.issues
      BY <1>1, VisitFacts
    <2> QED
      BY <1>2, <2>1, IssueProperties
  <1>4. GoodWalk(walk, {})
    BY <1>1, VisitFacts
  <1>5. Even(w)
    BY <1>3, <1>4 DEF GoodWalk, Even
  <1>6. job.allow_partial \/ \A p \in w.issues : Excluded(p)
    BY <1>3, <1>4 DEF GoodWalk
  <1>7. GoodWalk(w, {})
    BY <1>3, <1>5, <1>6 DEF GoodWalk
  <1> QED
    BY <1>1, <1>2, <1>7, CollectionGoesOn

LEMMA CollectionVisitsFolder ==
    ASSUME MainOK, CollectionInv, VisitFolder
    PROVE  CollectionInv'
  <1> DEFINE recorded == [Popped EXCEPT !.folders = @ \cup {Top}]
             below == {c \in ChildrenOf(Top) : tree[c].kind # "gone"}
  <1>1. /\ job.kind = "collect" /\ output # "ours" /\ UNCHANGED <<job, output, tree>>
        /\ main.at = "walk" /\ walk.pending # <<>>
    BY VisitFacts DEF VisitFolder, Visiting, OnlyWalk, jobVars
  <1>2. /\ Sound(Popped, {Top}) /\ Top \in Paths /\ GoodWalk(walk, {})
        /\ Complete(Popped, {Top}, {}, tree) /\ Paid(Popped)
        /\ Popped.files = walk.files /\ Popped.issues = walk.issues
    BY <1>1, VisitFacts
  <1>3. PICK added : added = Added(recorded, Top)
    OBVIOUS
  <1>4. /\ Sound(added, {}) /\ Top \in added.folders /\ Top \notin added.issues
        /\ Complete(added, {}, {Top}, tree) /\ Paid(added)
        /\ New(Top, added)
        /\ added.files = walk.files /\ added.issues = walk.issues
    BY <1>2, <1>3, FolderProperties
  <1>5. PICK children \in SUBSET ChildrenOf(Top) : children = below
    OBVIOUS
  <1>6. CASE WalkOn("walk", [added EXCEPT !.pending = @ \o Descending(children)])
    <2>1. PICK w : w = [added EXCEPT !.pending = @ \o Descending(children)]
      OBVIOUS
    <2>2. Shown(children, Top, tree)
      BY <1>5 DEF Shown
    <2>3. /\ Sound(w, {}) /\ w.files = added.files /\ w.issues = added.issues
          /\ Paid(added) => Paid(w)
          /\ (Complete(added, {}, {Top}, tree) /\ Shown(children, Top, tree))
                => Complete(w, {}, {}, tree)
      <3>1. Top \in Paths /\ Sound(added, {}) /\ Top \in added.folders /\ New(Top, added)
        BY <1>2, <1>4
      <3>2. children \in SUBSET ChildrenOf(Top)
        BY <1>5
      <3>3. Sound(w, {})
        BY <2>1, <3>1, <3>2, ListedProperties
      <3>4. /\ w.files = added.files /\ w.issues = added.issues
            /\ w.folders = added.folders /\ w.charged = added.charged
        BY <2>1, <3>1, <3>2, ListedProperties
      <3>5. Paid(added) => Paid(w)
        BY <3>4 DEF Paid, FinalStatements
      <3>6. (Complete(added, {}, {Top}, tree) /\ Shown(children, Top, tree))
                => Complete(w, {}, {}, tree)
        BY <2>1, <3>1, <3>2, ListedProperties
      <3> QED
        BY <3>3, <3>4, <3>5, <3>6
    <2>31. Complete(w, {}, {}, tree) /\ Paid(w)
      BY <1>2, <1>4, <2>2, <2>3
    <2>4. GoodWalk(w, {})
      BY <1>2, <1>4, <2>3, <2>31 DEF GoodWalk, Even
    <2> QED
      BY <1>1, <1>6, <2>1, <2>4, CollectionGoesOn
  <1>7. CASE job.allow_partial /\ WalkOn("walk", WithIssue(added, Top))
    <2>1. PICK w : w = WithIssue(added, Top)
      OBVIOUS
    <2>2. /\ Sound(w, {}) /\ Complete(w, {}, {}, tree) /\ Paid(w)
          /\ w.files = walk.files
      BY <1>2, <1>4, <2>1, IssueProperties
    <2>3. GoodWalk(w, {})
      BY <1>2, <1>7, <2>2 DEF GoodWalk, Even
    <2> QED
      BY <1>1, <1>7, <2>1, <2>3, CollectionGoesOn
  <1>8. CASE Failing(1) /\ UNCHANGED walk
    BY <1>1, <1>8, WalkFails
  <1> QED
    BY <1>3, <1>5, <1>6, <1>7, <1>8 DEF VisitFolder

LEMMA CollectionVisitsFile ==
    ASSUME MainOK, CollectionInv, VisitFile
    PROVE  CollectionInv'
  <1>1. /\ job.kind = "collect" /\ output # "ours" /\ UNCHANGED <<job, output, tree>>
        /\ main.at = "walk" /\ walk.pending # <<>>
    BY VisitFacts DEF VisitFile, Visiting, OnlyWalk, jobVars
  <1>2. /\ Sound(Popped, {Top}) /\ Top \in Paths /\ GoodWalk(walk, {}) /\ TreeOK
        /\ Complete(Popped, {Top}, {}, tree) /\ Paid(Popped)
        /\ Popped.files = walk.files /\ Popped.issues = walk.issues
    BY <1>1, VisitFacts
  <1>3. tree[Top].kind = "file" /\ tree[Top].stamp \in {0, 1}
    BY <1>2 DEF VisitFile, TreeOK, Tree
  <1>4. PICK stamp \in {0, 1} : stamp = tree[Top].stamp
    BY <1>3
  <1>5. PICK v \in Walks : v = Popped
    BY <1>2 DEF Sound
  <1>6. PICK w : w = [v EXCEPT !.path = Top, !.stamp = stamp]
    OBVIOUS
  <1>7. /\ w \in Walks /\ w.pending = v.pending /\ w.folders = v.folders /\ w.files = v.files
        /\ w.issues = v.issues /\ w.charged = v.charged /\ w.path = Top
    BY <1>2, <1>6 DEF Walks
  <1>8. Sound(w, {Top}) /\ Complete(w, {Top}, {}, tree) /\ Paid(w) /\ Even(w)
    <2>1. Even(v)
      BY <1>2, <1>5 DEF GoodWalk, Even
    <2> QED
      BY <1>2, <1>5, <1>7, <2>1, SameRecords
  <1>9. Top \notin Folders \cup {Root}
    BY <1>2, <1>3 DEF TreeOK
  <1>10. GoodWalk(w, {w.path})
    BY <1>2, <1>5, <1>7, <1>8, <1>9 DEF GoodWalk
  <1>11. WalkOn("open", w)
    BY <1>4, <1>5, <1>6 DEF VisitFile
  <1> QED
    BY <1>1, <1>10, <1>11, CollectionGoesOn

\* With a file at hand.
LEMMA AtHandFacts ==
    ASSUME MainOK, CollectionInv, main.at \in FileLabels
    PROVE  /\ job.kind = "collect" /\ output # "ours" /\ TreeOK /\ walk \in Walks
           /\ GoodWalk(walk, {walk.path}) /\ walk.charged <= job.triples
  <1>1. job.kind = "collect" /\ main.at \in WalkLabels /\ AtHand = {walk.path}
    BY DEF CollectionInv, WalkOK, WalkLabels, FileLabels, EndLabels, AtHand
  <1> QED
    BY <1>1, WalkingFacts

LEMMA CollectionOpensFile ==
    ASSUME MainOK, CollectionInv, OpenFile
    PROVE  CollectionInv'
  <1>1. /\ job.kind = "collect" /\ output # "ours" /\ UNCHANGED <<job, output, tree>>
        /\ walk \in Walks /\ GoodWalk(walk, {walk.path})
    BY AtHandFacts DEF OpenFile, FileLabels, OnlyWalk, jobVars
  <1>2. CASE Failing(1) /\ UNCHANGED walk
    BY <1>1, <1>2, WalkFails
  <1>3. CASE /\ tree[walk.path] = [kind |-> "file", stamp |-> walk.stamp]
             /\ WalkOn("read", [walk EXCEPT !.pieces = <<>>])
    <2>00. \A S : <<>> \in Seq(S)
      OBVIOUS
    <2>0. PICK none \in Seq({0, 1}) : none = <<>>
      BY <2>00
    <2>1. PICK w : w = [walk EXCEPT !.pieces = none]
      OBVIOUS
    <2>2. /\ w \in Walks /\ w.pending = walk.pending /\ w.folders = walk.folders
          /\ w.files = walk.files /\ w.issues = walk.issues /\ w.charged = walk.charged
          /\ w.path = walk.path /\ w.stamp = walk.stamp /\ w.pieces = none
      BY <1>1, <2>0, <2>1 DEF Walks
    <2>3. GoodWalk(w, {w.path})
      BY <1>1, <2>2, SameRecords DEF GoodWalk
    <2>4. w.stamp = tree[w.path].stamp
      BY <1>3, <2>2
    <2> QED
      BY <1>1, <1>3, <2>0, <2>1, <2>2, <2>3, <2>4, CollectionGoesOn
  <1> QED
    BY <1>2, <1>3 DEF OpenFile

\* What was read is from before and after no change, or shows one.
Between(w, t) ==
    /\ w.stamp <= t[w.path].stamp
    /\ \A i \in 1..Len(w.pieces) : w.stamp <= w.pieces[i] /\ w.pieces[i] <= t[w.path].stamp

LEMMA CollectionReadsPiece ==
    ASSUME MainOK, CollectionInv, ReadPiece
    PROVE  CollectionInv'
  <1>1. /\ job.kind = "collect" /\ output # "ours" /\ UNCHANGED <<job, output, tree>>
        /\ walk \in Walks /\ GoodWalk(walk, {walk.path}) /\ main.at = "read" /\ TreeOK
        /\ main \in Report /\ walk.charged <= job.triples
    BY AtHandFacts DEF ReadPiece, FileLabels, OnlyWalk, jobVars, MainOK
  <1>2. Between(walk, tree)
    BY <1>1 DEF CollectionInv, FileOK, Between
  <1>3. CASE Failing(1) /\ UNCHANGED walk
    BY <1>1, <1>3, WalkFails
  <1>4. ASSUME main'.at \in {"read", "after"}, GoodWalk(walk', {walk.path}), Between(walk', tree),
               walk'.path = walk.path, walk'.charged = walk.charged,
               main'.at = "after" => Len(walk'.pieces) = FilePieces
        PROVE  CollectionInv'
    <2>1. AtHand' = {walk.path}
      BY <1>4 DEF AtHand, FileLabels
    <2>2. TreeOK'
      BY <1>1 DEF TreeOK
    <2>3. WalkOK'
      BY <1>1, <1>4, <2>1 DEF WalkOK, GoodWalk, WalkLabels, FileLabels, EndLabels, UnpackLabels
    <2>4. BudgetOK'
      BY <1>1, <1>4 DEF BudgetOK, GoodWalk
    <2>5. FileOK'
      BY <1>1, <1>4 DEF FileOK, Between
    <2>6. AccountOK'
      <3>1. Complete(walk', AtHand', {}, tree') /\ Even(walk')
        BY <1>1, <1>4, <2>1 DEF GoodWalk
      <3>2. job'.allow_partial \/ \A p \in walk'.issues : Excluded(p)'
        BY <1>1, <1>4 DEF GoodWalk, Excluded
      <3>3. main'.at \notin EndLabels /\ output' # "ours"
        BY <1>1, <1>4 DEF EndLabels
      <3> QED
        BY <3>1, <3>2, <3>3 DEF AccountOK, Collecting
    <2> QED
      BY <2>2, <2>3, <2>4, <2>5, <2>6 DEF CollectionInv
  <1>5. CASE Len(walk.pieces) = FilePieces /\ Goto("after") /\ UNCHANGED walk
    <2>1. main'.at = "after"
      BY <1>1, <1>5, Moves DEF Labels, CollectionLabels
    <2> QED
      BY <1>1, <1>2, <1>4, <1>5, <2>1
  <1>6. CASE /\ UNCHANGED main
             /\ walk' = [walk EXCEPT !.pieces = Append(@, tree[walk.path].stamp)]
    <2>1. walk.pieces \in Seq({0, 1}) /\ walk.path \in Paths /\ walk.stamp \in {0, 1}
      BY <1>1 DEF Walks
    <2>2. tree[walk.path].stamp \in {0, 1}
      BY <1>1, <2>1 DEF TreeOK, Tree
    <2>3. PICK stamp \in {0, 1} : stamp = tree[walk.path].stamp
      BY <2>2
    <2>4. PICK old \in Seq({0, 1}), n \in Nat : old = walk.pieces /\ n = Len(old)
      BY <2>1
    <2>41. \A S : \A q \in Seq(S), x \in S : Append(q, x) \in Seq(S)
      OBVIOUS
    <2>5. PICK s \in Seq({0, 1}) : s = Append(old, stamp)
      BY <2>3, <2>4, <2>41
    <2>6. /\ Len(s) = n + 1 /\ s[n + 1] = stamp /\ \A i \in 1..n : s[i] = old[i]
      BY <2>3, <2>4, <2>5
    <2>7. walk' = [walk EXCEPT !.pieces = s]
      BY <1>6, <2>3, <2>4, <2>5
    <2>8. /\ walk' \in Walks /\ walk'.pending = walk.pending /\ walk'.folders = walk.folders
          /\ walk'.files = walk.files /\ walk'.issues = walk.issues
          /\ walk'.charged = walk.charged /\ walk'.path = walk.path /\ walk'.stamp = walk.stamp
          /\ walk'.pieces = s
      BY <1>1, <2>7 DEF Walks
    <2>9. GoodWalk(walk', {walk.path})
      BY <1>1, <2>8, SameRecords DEF GoodWalk
    <2>10. PICK first \in {0, 1} : first = walk.stamp
      BY <2>1
    <2>11. first <= stamp /\ \A i \in 1..n : first <= old[i] /\ old[i] <= stamp
      BY <1>2, <2>3, <2>4, <2>10 DEF Between
    <2>12. \A i \in 1..(n + 1) : i = n + 1 \/ i \in 1..n
      OBVIOUS
    <2>13. \A i \in 1..(n + 1) : first <= s[i] /\ s[i] <= stamp
      BY <2>6, <2>11, <2>12
    <2>14. Between(walk', tree)
      BY <2>3, <2>6, <2>8, <2>10, <2>11, <2>13 DEF Between
    <2> QED
      BY <1>1, <1>4, <1>6, <2>8, <2>9, <2>14
  <1> QED
    BY <1>3, <1>5, <1>6 DEF ReadPiece

LEMMA CollectionAddsFile ==
    ASSUME MainOK, CollectionInv, AfterFile
    PROVE  CollectionInv'
  <1>1. /\ job.kind = "collect" /\ output # "ours" /\ UNCHANGED <<job, output, tree>>
        /\ walk \in Walks /\ GoodWalk(walk, {walk.path}) /\ main.at = "after" /\ TreeOK
    BY AtHandFacts DEF AfterFile, FileLabels, OnlyWalk, jobVars
  <1>2. CASE Failing(1) /\ UNCHANGED walk
    BY <1>1, <1>2, WalkFails
  <1>3. CASE tree[walk.path].stamp = walk.stamp /\ WalkOn("walk", WithFile(walk))
    <2>1. PICK stamp \in {0, 1} : stamp = walk.stamp
      BY <1>1 DEF Walks
    <2>2. PICK s \in Seq({0, 1}), n \in Nat : s = walk.pieces /\ n = Len(s)
      BY <1>1 DEF Walks
    <2>3. n = FilePieces /\ n >= 1
      BY <1>1, <2>2, CollectionAssumption DEF CollectionInv, FileOK
    <2>4. \A i \in 1..n : stamp <= s[i] /\ s[i] <= stamp
      BY <1>1, <1>3, <2>1, <2>2 DEF CollectionInv, FileOK
    <2>5. \A i \in 1..n : s[i] \in {0, 1}
      BY <2>2
    <2>6. \A i \in 1..n : s[i] = stamp
      BY <2>4, <2>5
    <2>71. DOMAIN s = 1..n
      BY <2>2
    <2>72. 1 \in 1..n
      BY <2>2, <2>3
    <2>7. DOMAIN s = 1..n /\ 1 \in 1..n
      BY <2>71, <2>72
    <2>8. ToSet(walk.pieces) = {stamp}
      BY <2>2, <2>6, <2>7 DEF ToSet
    <2>9. PICK w : w = WithFile(walk)
      OBVIOUS
    <2>10. Sound(walk, {walk.path}) /\ walk.path \notin Folders \cup {Root}
      BY <1>1 DEF GoodWalk
    <2>11. /\ Sound(w, {})
           /\ Complete(walk, {walk.path}, {}, tree) => Complete(w, {}, {}, tree)
           /\ w.issues = walk.issues
      BY <2>8, <2>9, <2>10, FileProperties
    <2>12. Paid(walk) => Paid(w)
      BY <2>8, <2>9, <2>10, FileProperties
    <2>13. Even(walk) => Even(w)
      BY <2>8, <2>9, <2>10, FileProperties
    <2>14. GoodWalk(w, {})
      BY <1>1, <2>11, <2>12, <2>13 DEF GoodWalk
    <2> QED
      BY <1>1, <1>3, <2>9, <2>14, CollectionGoesOn
  <1> QED
    BY <1>2, <1>3 DEF AfterFile

\* The walk is over, and the container is finished and verified.
LEMMA CollectionEnds ==
    ASSUME MainOK, CollectionInv, Finish \/ StartVerify \/ VerifyContainer \/ LastCheck
    PROVE  CollectionInv'
  <1>1. /\ UNCHANGED <<job, output, tree, walk>> /\ main.at \in WalkLabels \ {"persist"}
        /\ AtHand = {} /\ (main.at \in EndLabels \/ walk.pending = <<>>)
    BY DEF Finish, StartVerify, VerifyContainer, LastCheck, OnlyEnd, jobVars, collectionVars,
           WalkLabels, FileLabels, EndLabels, AtHand
  <1>2. /\ job.kind = "collect" /\ output # "ours" /\ GoodWalk(walk, {}) /\ TreeOK
        /\ walk.charged <= job.triples /\ walk.pending = <<>> /\ main \in Report
    BY <1>1, WalkingFacts DEF CollectionInv, WalkOK, MainOK
  <1>3. CASE \E c : Failing(c) \/ Exit(c)
    BY <1>1, <1>2, <1>3, WalkFails
  <1>4. ASSUME NEW at \in EndLabels, main'.at = at PROVE CollectionInv'
    <2>1. AtHand' = {}
      BY <1>4 DEF AtHand, EndLabels, FileLabels
    <2>2. TreeOK'
      BY <1>1, <1>2 DEF TreeOK
    <2>3. WalkOK'
      BY <1>1, <1>2, <1>4, <2>1 DEF WalkOK, GoodWalk, EndLabels, UnpackLabels
    <2>4. BudgetOK'
      BY <1>1, <1>2 DEF BudgetOK, GoodWalk
    <2>5. FileOK'
      BY <1>4 DEF FileOK, EndLabels
    <2>6. AccountOK'
      <3>1. Complete(walk', AtHand', {}, tree') /\ Even(walk')
        BY <1>1, <1>2, <2>1 DEF GoodWalk
      <3>2. job'.allow_partial \/ \A p \in walk'.issues : Excluded(p)'
        BY <1>1, <1>2 DEF GoodWalk, Excluded
      <3> QED
        BY <1>1, <1>2, <3>1, <3>2 DEF AccountOK, Collecting
    <2> QED
      BY <2>2, <2>3, <2>4, <2>5, <2>6 DEF CollectionInv
  <1>5. CASE \E at \in EndLabels : Goto(at)
    <2>1. PICK at \in EndLabels : Goto(at)
      BY <1>5
    <2>2. main'.at = at
      BY <1>2, <2>1, Moves DEF EndLabels, Labels, CollectionLabels
    <2> QED
      BY <1>4, <2>2
  <1> QED
    BY <1>3, <1>5 DEF Finish, StartVerify, VerifyContainer, LastCheck, EndLabels

\* The container is published: the walk is complete.
LEMMA CollectionPublishes ==
    ASSUME MainOK, CollectionInv, PublishContainer
    PROVE  CollectionInv'
  <1>1. /\ UNCHANGED <<job, tree, walk>> /\ main.at = "persist" /\ job.kind = "collect"
        /\ AtHand = {} /\ main.at \in EndLabels /\ main.at \in WalkLabels
    BY DEF PublishContainer, jobVars, collectionVars, WalkLabels, FileLabels, EndLabels, AtHand
  <1>2. /\ output # "ours" /\ GoodWalk(walk, {}) /\ TreeOK
        /\ walk.pending = <<>> /\ main \in Report
    BY <1>1, WalkingFacts DEF MainOK
  <1>3. CASE output' = output /\ Failing(1)
    BY <1>1, <1>2, <1>3, WalkFails
  <1>4. ASSUME output' = "ours", main'.at = "exit", main'.exit = 0 => walk.issues = {}
        PROVE  CollectionInv'
    <2>1. AtHand' = {}
      BY <1>4 DEF AtHand, FileLabels
    <2>2. TreeOK'
      BY <1>1, <1>2 DEF TreeOK
    <2>3. WalkOK'
      BY <1>1, <1>2, <1>4, <2>1 DEF WalkOK, GoodWalk, UnpackLabels
    <2>4. BudgetOK'
      BY <1>4 DEF BudgetOK, WalkLabels, FileLabels, EndLabels
    <2>5. FileOK'
      BY <1>4 DEF FileOK
    <2>6. AccountOK'
      <3>1. Complete(walk', AtHand', {}, tree') /\ Even(walk')
        BY <1>1, <1>2, <2>1 DEF GoodWalk
      <3>2. job'.allow_partial \/ \A p \in walk'.issues : Excluded(p)'
        BY <1>1, <1>2 DEF GoodWalk, Excluded
      <3> QED
        BY <1>1, <1>2, <1>4, <3>1, <3>2 DEF AccountOK, Collecting, Over
    <2> QED
      BY <2>2, <2>3, <2>4, <2>5, <2>6 DEF CollectionInv
  <1>5. Publish(<<"exit", CollectionExit>>, <<"exit", Unsynced>>)
    BY DEF PublishContainer
  <1>6. \/ output' = output /\ Failing(1)
        \/ /\ output' = "ours"
           /\ \/ main' = [at |-> "exit", published |-> "yes", exit |-> CollectionExit]
              \/ main' = [at |-> "exit", published |-> "yes", exit |-> Unsynced]
    BY <1>2, <1>5, PublishMoves
  <1>7. (CollectionExit = 0 => walk.issues = {}) /\ Unsynced # 0
    BY DEF CollectionExit, Unsynced
  <1> QED
    BY <1>3, <1>4, <1>6, <1>7

\* Everything else leaves the walk of a collection alone.
LEMMA OthersKeepWalk ==
    ASSUME CollectionInv, UNCHANGED <<job, tree, walk>>, job.kind # "collect",
           main'.at \notin WalkLabels \ {"persist"},
           main'.at \in UnpackLabels => job.kind = "extract"
    PROVE  CollectionInv'
  <1>1. AtHand' = {} /\ TreeOK'
    BY DEF AtHand, WalkLabels, EndLabels, FileLabels, CollectionInv, TreeOK
  <1>2. Sound(walk, {})
    BY EmptyHanded DEF CollectionInv, WalkOK
  <1>3. WalkOK'
    BY <1>1, <1>2 DEF CollectionInv, WalkOK
  <1>4. BudgetOK' /\ AccountOK'
    BY DEF BudgetOK, AccountOK, Collecting
  <1>5. FileOK'
    BY DEF FileOK, WalkLabels, FileLabels, EndLabels
  <1> QED
    BY <1>1, <1>3, <1>4, <1>5 DEF CollectionInv

LEMMA ExtractionKeepsWalk ==
    ASSUME MainOK, CollectionInv,
           StartExtract \/ StartUnpack \/ Unpack \/ CheckUnpacked \/ PublishFile
    PROVE  CollectionInv'
  <1>1. /\ UNCHANGED <<job, tree, walk>> /\ main \in Report
        /\ main.at \in UnpackLabels \/ job.kind = "extract"
    BY DEF StartExtract, StartUnpack, Unpack, CheckUnpacked, PublishFile, OnlyEnd, jobVars,
           collectionVars, UnpackLabels, MainOK
  <1>2. job.kind = "extract"
    BY <1>1 DEF CollectionInv, WalkOK
  <1>3. main'.at \in UnpackLabels \cup {"persist", "failing", "exit"}
    <2>1. CASE StartExtract
      BY <1>1, <2>1, Moves DEF StartExtract, UnpackLabels, Labels, CollectionLabels
    <2>2. CASE StartUnpack
      BY <1>1, <2>2, Moves DEF StartUnpack, UnpackLabels, Labels, CollectionLabels
    <2>3. CASE Unpack
      BY <1>1, <2>3, Moves DEF Unpack, UnpackLabels, Labels, CollectionLabels
    <2>4. CASE CheckUnpacked
      BY <1>1, <2>4, Moves DEF CheckUnpacked, UnpackLabels, Labels, CollectionLabels
    <2>5. CASE PublishFile
      BY <1>1, <2>5, PublishMoves, Moves DEF PublishFile
    <2> QED
      BY <2>1, <2>2, <2>3, <2>4, <2>5
  <1>4. main'.at \notin WalkLabels \ {"persist"}
    BY <1>3 DEF UnpackLabels, WalkLabels, FileLabels, EndLabels
  <1> QED
    BY <1>1, <1>2, <1>4, OthersKeepWalk

\* Somebody changes a file of the tree.
LEMMA TreeChangeKeepsWalk ==
    ASSUME MainOK, CollectionInv, NEW p \in Paths, TreeChange(p)
    PROVE  CollectionInv'
  <1>1. /\ job.kind = "collect" /\ ~Over /\ UNCHANGED <<job, main, output, walk>>
        /\ tree[p].kind = "file" /\ \A q \in Paths : tree[q].stamp = 0
    BY DEF TreeChange, cliVars, jobVars
  <1>2. PICK kind \in {"file", "other", "gone"} :
           tree' = [tree EXCEPT ![p] = [kind |-> kind, stamp |-> 1]]
    BY DEF TreeChange
  <1>3. TreeOK /\ output # "ours"
    BY <1>1 DEF CollectionInv, AccountOK
  <1>4. [kind |-> kind, stamp |-> 1] \in [kind : Kinds, stamp : {0, 1}]
    BY DEF Kinds
  <1>5. /\ tree' \in Tree
        /\ \A q \in Paths : tree[q].stamp = 0 /\ tree'[q].stamp \in {0, 1}
        /\ \A q \in Paths : tree'[q].kind # "gone" => tree[q].kind # "gone"
        /\ \A q \in Folders \cup {Root} : tree'[q].kind = "folder"
    <2>1. \A q \in Paths : tree'[q] = IF q = p THEN [kind |-> kind, stamp |-> 1] ELSE tree[q]
      BY <1>2, <1>3 DEF TreeOK, Tree
    <2>2. tree' \in Tree
      BY <1>2, <1>3, <1>4 DEF TreeOK, Tree
    <2>3. Folders \cup {Root} \subseteq Paths /\ p \notin Folders \cup {Root}
      BY <1>1, <1>3, PathFacts DEF Folders, TreeOK
    <2>4. \A q \in Folders \cup {Root} : tree'[q].kind = "folder"
      BY <1>3, <2>1, <2>3 DEF TreeOK
    <2>5. \A q \in Paths : tree'[q].stamp \in {0, 1}
      BY <2>2 DEF Tree
    <2> QED
      BY <1>1, <2>1, <2>2, <2>4, <2>5
  <1>6. AtHand' = AtHand
    BY <1>1 DEF AtHand
  <1>7. TreeOK'
    BY <1>5 DEF TreeOK
  <1>8. WalkOK'
    BY <1>1, <1>6 DEF CollectionInv, WalkOK
  <1>9. BudgetOK'
    BY <1>1 DEF CollectionInv, BudgetOK
  <1>10. FileOK'
    <2> SUFFICES ASSUME main.at \in {"read", "after"} PROVE FileOK'
      BY <1>1 DEF FileOK
    <2>1. walk \in Walks
      BY DEF CollectionInv, WalkOK, Sound
    <2>2. PICK q \in Paths, first \in {0, 1}, s \in Seq({0, 1}), n \in Nat :
             /\ q = walk.path /\ first = walk.stamp /\ s = walk.pieces /\ n = Len(s)
      BY <2>1 DEF Walks
    <2>3. first <= 0 /\ \A i \in 1..n : first <= s[i] /\ s[i] <= 0
      BY <1>5, <2>2 DEF CollectionInv, FileOK
    <2>4. PICK after \in {0, 1} : after = tree'[q].stamp
      BY <1>5
    <2>5. \A i \in 1..n : s[i] \in {0, 1}
      BY <2>2
    <2>6. first <= after /\ \A i \in 1..n : first <= s[i] /\ s[i] <= after
      BY <2>3, <2>4, <2>5
    <2>7. main.at = "after" => n = FilePieces
      BY <2>2 DEF CollectionInv, FileOK
    <2> QED
      BY <1>1, <2>2, <2>4, <2>6, <2>7 DEF FileOK
  <1>11. AccountOK'
    <2>1. Complete(walk, AtHand, {}, tree) => Complete(walk, AtHand, {}, tree')
      BY <1>5, PathFacts DEF Complete
    <2>2. \A q : Excluded(q)' <=> Excluded(q)
      BY <1>1 DEF Excluded
    <2> QED
      BY <1>1, <1>3, <1>6, <2>1, <2>2 DEF CollectionInv, AccountOK, Collecting
  <1> QED
    BY <1>7, <1>8, <1>9, <1>10, <1>11 DEF CollectionInv

LEMMA CollectionStepKeepsWalk ==
    ASSUME MainOK, Told, CollectionInv, CollectionNext
    PROVE  CollectionInv'
  <1>1. CASE StartCollect
    BY <1>1, CollectionStarts
  <1>2. CASE WalkStopped
    <2>1. /\ job.kind = "collect" /\ output # "ours" /\ UNCHANGED <<job, output, tree, walk>>
          /\ Failing(1)
      BY <1>2, VisitFacts DEF WalkStopped, OnlyWalk, jobVars
    <2> QED
      BY <2>1, WalkFails
  <1>3. CASE VisitExcluded
    BY <1>3, CollectionSkips DEF VisitExcluded
  <1>4. CASE VisitSkipped
    <2>1. /\ job.kind = "collect" /\ output # "ours" /\ UNCHANGED <<job, output, tree>>
          /\ Visiting /\ OnlyWalk
      BY <1>4, VisitFacts DEF VisitSkipped, Visiting, OnlyWalk, jobVars
    <2>2. CASE job.allow_partial
      BY <1>4, <2>1, <2>2, CollectionSkips DEF VisitSkipped
    <2>3. CASE ~job.allow_partial
      BY <1>4, <2>1, <2>3, WalkFails DEF VisitSkipped
    <2> QED
      BY <2>2, <2>3
  <1>5. CASE VisitFolder
    BY <1>5, CollectionVisitsFolder
  <1>6. CASE VisitFile
    BY <1>6, CollectionVisitsFile
  <1>7. CASE OpenFile
    BY <1>7, CollectionOpensFile
  <1>8. CASE ReadPiece
    BY <1>8, CollectionReadsPiece
  <1>9. CASE AfterFile
    BY <1>9, CollectionAddsFile
  <1>10. CASE Finish \/ StartVerify \/ VerifyContainer \/ LastCheck
    BY <1>10, CollectionEnds
  <1>11. CASE PublishContainer
    BY <1>11, CollectionPublishes
  <1>12. CASE StartExtract \/ StartUnpack \/ Unpack \/ CheckUnpacked \/ PublishFile
    BY <1>12, ExtractionKeepsWalk
  <1>13. CASE \E p \in Paths : TreeChange(p)
    BY <1>13, TreeChangeKeepsWalk
  <1> QED
    BY <1>1, <1>2, <1>3, <1>4, <1>5, <1>6, <1>7, <1>8, <1>9, <1>10, <1>11, <1>12, <1>13
       DEF CollectionNext, CollectStep

LEMMA CollectionStart == Init => CollectionInv
  <1> SUFFICES ASSUME Init PROVE CollectionInv
    OBVIOUS
  <1>1. /\ main.at = "start" /\ output = "absent" /\ walk = NoWalk /\ tree \in Trees
    BY DEF Init, CliInit, CollectionInit
  <1>2. TreeOK
    <2>1. Kinds \ {"gone"} \subseteq Kinds /\ {0} \subseteq {0, 1}
      OBVIOUS
    <2>2. tree \in [Paths -> [kind : Kinds \ {"gone"}, stamp : {0}]]
      BY <1>1 DEF Trees
    <2>3. \A p \in Paths : tree[p] \in [kind : Kinds, stamp : {0, 1}]
      BY <2>1, <2>2
    <2>4. tree \in Tree
      BY <2>2, <2>3 DEF Tree
    <2> QED
      BY <1>1, <2>4 DEF TreeOK, Trees
  <1>3. AtHand = {}
    BY <1>1 DEF AtHand, FileLabels
  <1>4. Sound(NoWalk, {})
    <2>1. \A S : <<>> \in Seq(S)
      OBVIOUS
    <2>2. <<>> \in FilesRead /\ DOMAIN <<>> = {}
      <3>1. <<>> \in Seq(Seq({0, 1})) /\ Len(<<>>) = 0 /\ 1..0 = {}
        OBVIOUS
      <3>2. <<>> \in [{} -> Seq({0, 1})]
        BY <3>1
      <3> QED
        BY <3>2, FilesReadFacts
    <2>3. NoWalk \in Walks
      BY <2>1, <2>2, PathFacts DEF NoWalk, Walks
    <2>4. ToSet(<<>>) = {} /\ IsInjective(<<>>)
      BY <2>2 DEF ToSet, IsInjective
    <2>5. Met(NoWalk) = {} /\ Known(NoWalk, {}) = {}
      BY <2>2, <2>4 DEF Met, Known, NoWalk
    <2> QED
      BY <2>2, <2>3, <2>4, <2>5 DEF Sound, NoWalk
  <1>5. WalkOK
    BY <1>1, <1>3, <1>4 DEF WalkOK, WalkLabels, FileLabels, EndLabels, UnpackLabels
  <1>6. BudgetOK /\ FileOK /\ AccountOK
    BY <1>1 DEF BudgetOK, FileOK, AccountOK, Collecting, WalkLabels, FileLabels, EndLabels
  <1> QED
    BY <1>2, <1>5, <1>6 DEF CollectionInv

LEMMA CollectionStays ==
    ASSUME CollectionInv, UNCHANGED <<job, tree, walk>>, main'.at = main.at,
           main'.exit = main.exit, output' = output \/ (output = "absent" /\ output' = "foreign")
    PROVE  CollectionInv'
  <1>1. AtHand' = AtHand /\ (Over' <=> Over)
    BY DEF AtHand, Over
  <1>2. TreeOK'
    BY DEF TreeOK, CollectionInv
  <1>3. WalkOK'
    BY <1>1 DEF CollectionInv, WalkOK
  <1>4. BudgetOK' /\ FileOK'
    BY DEF CollectionInv, BudgetOK, FileOK
  <1>5. AccountOK'
    <2>1. \A q : Excluded(q)' <=> Excluded(q)
      BY DEF Excluded
    <2> QED
      BY <1>1, <2>1 DEF CollectionInv, AccountOK, Collecting
  <1> QED
    BY <1>2, <1>3, <1>4, <1>5 DEF CollectionInv

LEMMA CollectionInvNext == ReportInv /\ CollectionInv /\ [Next]_vars => CollectionInv'
  <1> SUFFICES ASSUME ReportInv, CollectionInv, [Next]_vars PROVE CollectionInv'
    OBVIOUS
  <1>1. MainOK /\ MainOK' /\ Told /\ main \in Report
    BY ReportNext DEF ReportInv, MainOK
  \* What neither collects nor extracts is not in a walk.
  <1>2. ASSUME ~CollectJob, UNCHANGED <<job, tree, walk>> PROVE CollectionInv'
    <2>1. job.kind # "collect" /\ main'.at \notin CollectionLabels
      BY <1>1, <1>2 DEF MainOK, CollectJob
    <2>2. main'.at \notin WalkLabels \ {"persist"} /\ main'.at \notin UnpackLabels
      BY <2>1 DEF CollectionLabels, WalkLabels, FileLabels, EndLabels, UnpackLabels
    <2> QED
      BY <1>2, <2>1, <2>2, OthersKeepWalk
  <1>31. CASE ProducerStep /\ AtTransfer
    BY <1>31, CollectionStays
       DEF ProducerStep, ProducerRecv, ProducerRead, ProducerSend, OnlyProducer, cliVars, jobVars,
           AtTransfer, collectionVars
  <1>3. CASE TransferNext /\ ~ProducerStep /\ AtTransfer
    <2>1. IsTransfer /\ UNCHANGED job
      <3>1. CASE CopyStep
        BY <1>1, <3>1, CopyStepIs
      <3>4. CASE (\E i \in 1..Size : Change(i)) \/ Replaced
        BY <3>4 DEF Change, Replaced, Transferring, cliVars, jobVars
      <3> QED
        BY <1>3, <3>1, <3>4 DEF TransferNext
    <2>2. ~CollectJob
      BY <1>1, <2>1, KindsDiffer DEF IsTransfer, CollectJob
    <2> QED
      BY <1>2, <1>3, <2>1, <2>2 DEF AtTransfer, collectionVars
  <1>4. CASE CollectionNext /\ AtCollection
    BY <1>1, <1>4, CollectionStepKeepsWalk
  <1>5. CASE DiskNext /\ AtDisk
    <2>1. UNCHANGED job
      BY <1>1, <1>5, OthersKeepJob DEF OtherStep
    <2>2. Reading
      <3>1. CASE DiskStep
        BY <1>1, <3>1 DEF DiskStep, VerifyVolume, VerifyEntry, VerifySet, Verify, DiscoverDisks,
                          CloseDisk, Reading, MainOK, DiskLabels
      <3>2. CASE main.at = "opened"
        BY <1>1, <3>2 DEF MainOK, DiskLabels
      <3> QED
        BY <1>5, <3>1, <3>2 DEF DiskNext
    <2>3. ~CollectJob
      BY <2>2 DEF Reading, CollectJob
    <2> QED
      BY <1>2, <1>5, <2>1, <2>3 DEF AtDisk, collectionVars
  <1>6. CASE SessionNext /\ AtSession
    <2>1. UNCHANGED job
      BY <1>1, <1>6, OthersKeepJob DEF OtherStep
    <2>2. InSession
      <3>1. CASE SessionBegins
        BY <3>1 DEF SessionBegins, Begin
      <3>2. CASE SessionStep
        BY <1>1, <3>2, SessionSteps DEF MainOK
      <3>3. CASE Kill \/ NextCommand
        BY <3>3 DEF Kill, NextCommand
      <3> QED
        BY <1>6, <3>1, <3>2, <3>3 DEF SessionNext
    <2>3. ~CollectJob
      BY <2>2 DEF InSession, CollectJob
    <2> QED
      BY <1>2, <1>6, <2>1, <2>3 DEF AtSession, collectionVars
  <1>7. CASE CommandFails
    <2>1. /\ UNCHANGED <<job, tree, walk, output>> /\ main.at = "failing" /\ main'.at = "exit"
      BY <1>1, <1>7, Moves DEF CommandFails, ReportFailure, AtCommand, AtSession, collectionVars, jobVars
    <2>2. CASE job.kind = "collect"
      <3>1. output # "ours"
        BY <2>1, <2>2 DEF CollectionInv, AccountOK, Over
      <3>2. Sound(walk, {})
        BY EmptyHanded DEF CollectionInv, WalkOK
      <3> QED
        BY <2>1, <2>2, <3>1, <3>2, CollectionFails DEF CollectionInv
    <2>3. CASE job.kind # "collect"
      BY <2>1, <2>3, OthersKeepWalk DEF WalkLabels, FileLabels, EndLabels, UnpackLabels
    <2> QED
      BY <2>2, <2>3
  <1>8. CASE Cancel \/ Interfere
    BY <1>8, CollectionStays
       DEF Cancel, StopWhen, Interfere, Appear, AtCommand, AtSession, collectionVars, jobVars
  <1>9. CASE UNCHANGED vars
    BY <1>9, CollectionStays DEF vars, cliVars, jobVars, collectionVars
  <1> QED
    BY <1>3, <1>31, <1>4, <1>5, <1>6, <1>7, <1>8, <1>9 DEF Next

LEMMA CollectionAlways == FairSpec => [](ReportInv /\ CollectionInv)
  <1>1. Init => ReportInv /\ CollectionInv
    BY ReportInit, CollectionStart
  <1>2. ReportInv /\ CollectionInv /\ [Next]_vars => ReportInv' /\ CollectionInv'
    BY ReportNext, CollectionInvNext
  <1> QED
    BY <1>1, <1>2, PTL DEF FairSpec

----------------------------------------------------------------------------
(* Everything below a folder that is there is accounted for                *)

\* The folders above the paths up to n.
AboveUpTo(n, f) ==
    f = [p \in 0..n |-> IF p = Root THEN {} ELSE {Parent[p]} \cup f[Parent[p]]]

LEMMA AboveExists ==
    ASSUME NEW n \in Nat, n <= Len(Parent) PROVE \E f : AboveUpTo(n, f)
  <1>1. PICK m \in Nat : m = Len(Parent)
    BY PathFacts
  <1> DEFINE T == {k \in Nat : k <= m => \E f : AboveUpTo(k, f)}
  <1>2. 0 \in T
    <2>1. AboveUpTo(0, [p \in 0..0 |-> {}])
      BY DEF AboveUpTo, Root
    <2> QED
      BY <2>1
  <1>3. ASSUME NEW k \in Nat, k \in T PROVE k + 1 \in T
    <2> SUFFICES ASSUME k + 1 <= m PROVE \E f : AboveUpTo(k + 1, f)
      OBVIOUS
    <2>1. PICK f : AboveUpTo(k, f)
      BY <1>3
    <2>2. \A p \in 0..k : f[p] = IF p = Root THEN {} ELSE {Parent[p]} \cup f[Parent[p]]
      BY <2>1 DEF AboveUpTo
    <2>3. \A p \in 0..(k + 1) : p # Root => Parent[p] \in 0..k
      <3> SUFFICES ASSUME NEW p \in 0..(k + 1), p # Root PROVE Parent[p] \in 0..k
        OBVIOUS
      <3>1. p \in Paths /\ p \in Nat
        BY <1>1 DEF Paths
      <3>2. Parent[p] \in Nat /\ Parent[p] < p
        BY <3>1, PathFacts
      <3> QED
        BY <3>1, <3>2
    <2> DEFINE g == [p \in 0..(k + 1) |->
                        IF p = k + 1 THEN {Parent[k + 1]} \cup f[Parent[k + 1]] ELSE f[p]]
    <2>4. \A p \in 0..(k + 1) : p \in 0..k \/ p = k + 1
      OBVIOUS
    <2>5. \A p \in 0..k : p # k + 1 /\ p \in 0..(k + 1)
      OBVIOUS
    <2>6. \A p \in 0..k : g[p] = f[p]
      BY <2>5
    <2>7. k + 1 # Root /\ k + 1 \in 0..(k + 1)
      BY DEF Root
    <2>8. g[k + 1] = {Parent[k + 1]} \cup f[Parent[k + 1]]
      BY <2>7
    <2>9. DOMAIN g = 0..(k + 1) /\ g = [p \in 0..(k + 1) |-> g[p]]
      OBVIOUS
    <2> HIDE DEF g
    <2>10. \A p \in 0..(k + 1) : g[p] = IF p = Root THEN {} ELSE {Parent[p]} \cup g[Parent[p]]
      <3> SUFFICES ASSUME NEW p \in 0..(k + 1)
                   PROVE  g[p] = IF p = Root THEN {} ELSE {Parent[p]} \cup g[Parent[p]]
        OBVIOUS
      <3>1. p # Root => g[Parent[p]] = f[Parent[p]]
        BY <2>3, <2>6
      <3>2. CASE p \in 0..k
        BY <2>2, <2>6, <3>1, <3>2
      <3>3. CASE p = k + 1
        BY <2>7, <2>8, <3>1, <3>3
      <3> QED
        BY <2>4, <3>2, <3>3
    <2>11. AboveUpTo(k + 1, g)
      BY <2>9, <2>10 DEF AboveUpTo
    <2> QED
      BY <2>11
  <1> HIDE DEF T
  <1>4. Nat \subseteq T
    BY <1>2, <1>3, SetInduction
  <1> QED
    BY <1>1, <1>4 DEF T

LEMMA AboveDefinition ==
    \A p \in Paths : p # Root => Above[p] = {Parent[p]} \cup Above[Parent[p]]
  <1>1. PICK n \in Nat : n = Len(Parent)
    BY PathFacts
  <1>2. \E f : AboveUpTo(n, f)
    BY <1>1, AboveExists
  <1>3. \E f : f = [p \in Paths |-> IF p = Root THEN {} ELSE {Parent[p]} \cup f[Parent[p]]]
    BY <1>1, <1>2 DEF AboveUpTo, Paths
  <1>4. Above = [p \in Paths |-> IF p = Root THEN {} ELSE {Parent[p]} \cup Above[Parent[p]]]
    BY <1>3 DEF Above
  <1> QED
    BY <1>4

LEMMA AllAccountedFor ==
    ASSUME CollectionInv, job.kind = "collect", output = "ours"
    PROVE  \A p \in Paths : tree[p].kind # "gone" => AccountedFor(p)
  <1>1. /\ Over /\ AtHand = {} /\ walk.pending = <<>> /\ TreeOK
        /\ Sound(walk, {}) /\ Complete(walk, {}, {}, tree)
    <2>1. Over
      BY DEF CollectionInv, AccountOK
    <2>2. AtHand = {}
      BY <2>1 DEF Over, AtHand, FileLabels
    <2> QED
      BY <2>1, <2>2 DEF CollectionInv, AccountOK, WalkOK, Collecting
  <1>2. ToSet(<<>>) = {}
    <2>1. DOMAIN <<>> = {}
      OBVIOUS
    <2> QED
      BY <2>1 DEF ToSet
  <1>3. Known(walk, {}) = Met(walk)
    BY <1>1, <1>2 DEF Known
  <1>4. \A p \in Met(walk) : AccountedFor(p)
    BY DEF Met, AccountedFor
  <1>5. AccountedFor(Root)
    BY <1>1, <1>3, <1>4 DEF Complete
  <1>6. ASSUME NEW p \in Paths, p # Root, tree[p].kind # "gone", AccountedFor(Parent[p])
        PROVE  AccountedFor(p)
    <2>1. PICK q \in Paths : q = Parent[p]
      BY <1>6, PathFacts
    <2>2. p \in ChildrenOf(q) /\ q \in Folders
      BY <1>6, <2>1 DEF ChildrenOf, Folders
    <2>3. q \notin DOMAIN walk.files
      BY <1>1, <2>2 DEF Sound
    <2>4. CASE ({q} \cup Above[q]) \cap walk.issues # {}
      <3>1. Above[p] = {q} \cup Above[q]
        BY <1>6, <2>1, AboveDefinition
      <3> QED
        BY <2>4, <3>1 DEF AccountedFor
    <2>5. CASE q \in walk.folders /\ q \notin walk.issues
      BY <1>1, <1>3, <1>4, <1>6, <2>2, <2>5 DEF Complete
    <2> QED
      BY <1>6, <2>1, <2>3, <2>4, <2>5 DEF AccountedFor
  <1> DEFINE T == {k \in Nat : \A p \in Paths : p <= k /\ tree[p].kind # "gone" => AccountedFor(p)}
  <1>7. Paths \subseteq Nat
    BY PathFacts
  <1>8. 0 \in T
    <2>1. \A p \in Paths : p <= 0 => p = Root
      BY <1>7 DEF Root
    <2> QED
      BY <1>5, <2>1
  <1>9. ASSUME NEW k \in Nat, k \in T PROVE k + 1 \in T
    <2> SUFFICES ASSUME NEW p \in Paths, p <= k + 1, tree[p].kind # "gone" PROVE AccountedFor(p)
      OBVIOUS
    <2>1. CASE p = Root
      BY <1>5, <2>1
    <2>2. CASE p # Root
      <3>1. Parent[p] \in Paths /\ Parent[p] < p
        BY <2>2, PathFacts
      <3>2. Parent[p] \in Folders
        BY <2>2, <3>1 DEF Folders, ChildrenOf
      <3>3. tree[Parent[p]].kind # "gone"
        BY <1>1, <3>2 DEF TreeOK
      <3>4. Parent[p] <= k
        <4>1. \A a, b \in Nat : a < b /\ b <= k + 1 => a <= k
          OBVIOUS
        <4> QED
          BY <1>7, <3>1, <4>1
      <3>5. AccountedFor(Parent[p])
        BY <1>9, <3>1, <3>3, <3>4
      <3> QED
        BY <1>6, <2>2, <3>5
    <2> QED
      BY <2>1, <2>2
  <1> HIDE DEF T
  <1>10. Nat \subseteq T
    BY <1>8, <1>9, SetInduction
  <1>11. ASSUME NEW p \in Paths, tree[p].kind # "gone" PROVE AccountedFor(p)
    BY <1>7, <1>10, <1>11 DEF T
  <1> QED
    BY <1>11

\* collect.rs, add_directory_tree_with_limits(): once a collection is published,
\* whatever was removed or written to meanwhile, every path that is still there
\* is in it or below an issue, no file mixes two states of its source, and exit
\* code 0 means that nothing was left out; for trees of any shape and size.
THEOREM CollectionIsComplete == FairSpec => []CollectionAccounts
  <1>1. ASSUME ReportInv, CollectionInv PROVE CollectionAccounts
    <2>1. CollectionTypeOK
      <3>1. TreeOK /\ Sound(walk, {})
        BY <1>1, EmptyHanded DEF CollectionInv, WalkOK
      <3>2. DOMAIN walk.files \subseteq Paths
        BY <3>1, FilesReadFacts DEF Sound, Walks
      <3> QED
        BY <3>1, <3>2 DEF CollectionTypeOK, TreeOK, Tree, Sound, Walks, Met
    <2>2. ASSUME job.kind = "collect", output = "ours"
          PROVE  /\ \A p \in Paths : tree[p].kind # "gone" => AccountedFor(p)
                 /\ \A p \in DOMAIN walk.files : Cardinality(ToSet(walk.files[p])) = 1
                 /\ main.exit = 0 => walk.issues = {}
                 /\ ~job.allow_partial => \A p \in walk.issues : Excluded(p)
      <3>1. \A p \in DOMAIN walk.files : Cardinality(ToSet(walk.files[p])) = 1
        BY <1>1, <2>2, FS_Singleton DEF CollectionInv, AccountOK, Collecting, Even
      <3>2. \A p \in Paths : tree[p].kind # "gone" => AccountedFor(p)
        BY <1>1, <2>2, AllAccountedFor
      <3> QED
        BY <1>1, <2>2, <3>1, <3>2 DEF CollectionInv, AccountOK, Collecting
    <2> QED
      BY <2>1, <2>2 DEF CollectionAccounts
  <1> QED
    BY <1>1, CollectionAlways, PTL

\* collection_budget.rs, Budget::added() and record_issue(): what was charged
\* while the tree was walked is what the final metadata hold, and it is within
\* the limit when the container is published.
THEOREM BudgetMatches == FairSpec => []BudgetIsExact
  <1>1. ASSUME ReportInv, CollectionInv PROVE BudgetIsExact
    BY <1>1 DEF CollectionInv, BudgetOK, BudgetIsExact, WalkLabels, EndLabels, Paid
  <1> QED
    BY <1>1, CollectionAlways, PTL

----------------------------------------------------------------------------
(* The history of a session                                                *)

Events == {"session", "run_start", "phase", "checkpoint", "read_error", "published", "run_end"}
Entries == [event : Events, run : Nat, read_attempts : Nat,
            exit_code : {0, 1, 3, 4, 130, Killed}, prior_unavailable : BOOLEAN]

\* What Reads adds up.
Counts(records) ==
    [i \in DOMAIN records |-> IF i \in Starts(records) THEN AttemptsOf(records, i) ELSE 0]

LEMMA GreatestExists ==
    ASSUME NEW n \in Nat, NEW I \in SUBSET (0..n), I # {}
    PROVE  \E j \in I : \A k \in I : k <= j
  <1> DEFINE D == {d \in Nat : n - d \in I}
  <1>1. D \in SUBSET Nat /\ D # {}
    <2>1. PICK k \in I : TRUE
      OBVIOUS
    <2>2. n - k \in Nat /\ n - (n - k) = k
      BY <2>1
    <2>3. n - k \in D
      BY <2>1, <2>2
    <2> QED
      BY <2>3
  <1>2. PICK d \in D : \A c \in D : d <= c
    BY <1>1, LeastExists
  <1>3. n - d \in I /\ d \in Nat
    OBVIOUS
  <1>4. ASSUME NEW k \in I PROVE k <= n - d
    <2>1. k \in Nat /\ n - k \in Nat /\ n - (n - k) = k
      OBVIOUS
    <2>2. n - k \in D
      BY <2>1
    <2>3. d <= n - k
      BY <1>2, <2>2
    <2> QED
      BY <1>3, <2>1, <2>3
  <1> QED
    BY <1>3, <1>4

LEMMA GreatestOf ==
    ASSUME NEW n \in Nat, NEW I \in SUBSET (0..n), I # {}
    PROVE  Max(I) \in I /\ \A k \in I : k <= Max(I)
  <1>1. PICK j \in I : \A k \in I : k <= j
    BY GreatestExists
  <1>2. \A k \in I : j >= k
    BY <1>1
  <1>3. Max(I) \in I /\ \A k \in I : Max(I) >= k
    BY <1>2 DEF Max
  <1> QED
    BY <1>3

LEMMA StartOfIs ==
    ASSUME NEW R, NEW i \in Nat
    PROVE  /\ StartOf(R, i) \in {j \in 1..i : R[j].event = "run_start"} \cup {0}
           /\ \A k \in 1..i : R[k].event = "run_start" => k <= StartOf(R, i)
  <1> DEFINE S == {j \in 1..i : R[j].event = "run_start"}
  <1>1. S \cup {0} \in SUBSET (0..i) /\ S \cup {0} # {}
    OBVIOUS
  <1>2. PICK j \in S \cup {0} : \A k \in S \cup {0} : k <= j
    BY <1>1, GreatestExists
  <1>3. \E m \in S \cup {0} : \A k \in S : k <= m
    BY <1>2
  <1>4. StartOf(R, i) = CHOOSE m \in S \cup {0} : \A k \in S : k <= m
    BY DEF StartOf
  <1>5. StartOf(R, i) \in S \cup {0} /\ \A k \in S : k <= StartOf(R, i)
    BY <1>3, <1>4
  <1> QED
    BY <1>5

LEMMA OrderedFacts ==
    ASSUME NEW R \in Seq(Entries), Ordered(R), NEW i \in DOMAIN R
    PROVE  /\ R[i].run \in Nat /\ R[i].run <= i
           /\ i = 1 => R[i].event = "session" /\ R[i].run = 0
           /\ i # 1 => R[i].event # "session" /\ R[i].run \in Starts(R) /\ R[i].run = StartOf(R, i)
           /\ R[i].event = "run_start" => R[i].run = i
  <1>0. R[i] \in Entries
    OBVIOUS
  <1>1. i \in Nat /\ i >= 1 /\ R[i].run \in Nat /\ DOMAIN R = 1..Len(R) /\ Len(R) \in Nat
    BY <1>0 DEF Entries
  <1>2. CASE i = 1
    BY <1>1, <1>2 DEF Ordered
  <1>3. CASE i # 1
    <2>1. R[i].event # "session" /\ R[i].run > 0 /\ R[i].run = StartOf(R, i)
      BY <1>3 DEF Ordered
    <2>2. R[i].run \in 1..i /\ R[R[i].run].event = "run_start"
      BY <1>1, <2>1, StartOfIs
    <2>3. R[i].run \in Starts(R)
      BY <1>1, <2>2 DEF Starts
    <2>4. R[i].event = "run_start" => i <= R[i].run
      BY <1>1, <2>1, StartOfIs
    <2> QED
      BY <1>1, <1>3, <2>1, <2>2, <2>3, <2>4
  <1> QED
    BY <1>2, <1>3

\* What a record more changes.
LEMMA AppendRecord ==
    ASSUME NEW R \in Seq(Entries), NEW e \in Entries, NEW Q, NEW N,
           Q = Append(R, e), N = Len(R) + 1
    PROVE  /\ Q \in Seq(Entries) /\ Len(Q) = N /\ N \in Nat /\ DOMAIN R = 1..(N - 1)
           /\ DOMAIN Q = DOMAIN R \cup {N} /\ N \notin DOMAIN R
           /\ Q[N] = e /\ \A i \in DOMAIN R : Q[i] = R[i]
           /\ \A i \in 0..Len(R) : StartOf(Q, i) = StartOf(R, i)
  <1>1. /\ Q \in Seq(Entries) /\ Len(Q) = N /\ N \in Nat /\ DOMAIN R = 1..(N - 1)
        /\ DOMAIN Q = 1..N /\ N >= 1
        /\ Q[N] = e /\ \A i \in DOMAIN R : Q[i] = R[i]
    OBVIOUS
  <1>2. DOMAIN Q = DOMAIN R \cup {N} /\ N \notin DOMAIN R
    BY <1>1
  <1>5. ASSUME NEW i \in 0..Len(R) PROVE StartOf(Q, i) = StartOf(R, i)
    <2>1. \A j \in 1..i : j \in DOMAIN R
      BY <1>1
    <2>2. {j \in 1..i : Q[j].event = "run_start"} = {j \in 1..i : R[j].event = "run_start"}
      BY <1>1, <2>1
    <2> QED
      BY <2>2 DEF StartOf
  <1> QED
    BY <1>1, <1>2, <1>5

LEMMA AppendedStays ==
    ASSUME NEW R \in Seq(Entries), NEW e \in Entries, NEW i \in 0..Len(R)
    PROVE  StartOf(Append(R, e), i) = StartOf(R, i)
  <1>1. PICK N, Q : N = Len(R) + 1 /\ Q = Append(R, e)
    OBVIOUS
  <1>2. \A k \in 0..Len(R) : StartOf(Q, k) = StartOf(R, k)
    BY <1>1, AppendRecord
  <1> QED
    BY <1>1, <1>2

LEMMA AppendedRun ==
    ASSUME NEW R \in Seq(Entries), NEW e \in Entries, NEW n, NEW E
    PROVE  OfRun(Append(R, e), n, E) =
              IF e.run = n /\ e.event \in E THEN OfRun(R, n, E) \cup {Len(R) + 1}
              ELSE OfRun(R, n, E)
  <1>1. PICK N, Q : N = Len(R) + 1 /\ Q = Append(R, e)
    OBVIOUS
  <1>2. /\ DOMAIN Q = DOMAIN R \cup {N} /\ N \notin DOMAIN R
        /\ Q[N] = e /\ \A i \in DOMAIN R : Q[i] = R[i]
    BY <1>1, AppendRecord
  <1>3. \A i \in DOMAIN R : i \in OfRun(Q, n, E) <=> i \in OfRun(R, n, E)
    BY <1>2 DEF OfRun
  <1>4. N \in OfRun(Q, n, E) <=> e.run = n /\ e.event \in E
    BY <1>2 DEF OfRun
  <1>5. OfRun(R, n, E) \subseteq DOMAIN R /\ OfRun(Q, n, E) \subseteq DOMAIN R \cup {N}
    BY <1>2 DEF OfRun
  <1>6. CASE e.run = n /\ e.event \in E
    <2>1. OfRun(Q, n, E) = OfRun(R, n, E) \cup {N}
      BY <1>2, <1>3, <1>4, <1>5, <1>6
    <2> QED
      BY <1>1, <1>6, <2>1
  <1>7. CASE ~(e.run = n /\ e.event \in E)
    <2>1. OfRun(Q, n, E) = OfRun(R, n, E)
      BY <1>2, <1>3, <1>4, <1>5, <1>7
    <2> QED
      BY <1>1, <1>7, <2>1
  <1> QED
    BY <1>1, <1>6, <1>7

LEMMA AppendedStarts ==
    ASSUME NEW R \in Seq(Entries), NEW e \in Entries
    PROVE  Starts(Append(R, e)) =
              IF e.event = "run_start" THEN Starts(R) \cup {Len(R) + 1} ELSE Starts(R)
  <1>1. PICK N, Q : N = Len(R) + 1 /\ Q = Append(R, e)
    OBVIOUS
  <1>2. /\ DOMAIN Q = DOMAIN R \cup {N} /\ N \notin DOMAIN R
        /\ Q[N] = e /\ \A i \in DOMAIN R : Q[i] = R[i]
    BY <1>1, AppendRecord
  <1>3. \A i \in DOMAIN R : i \in Starts(Q) <=> i \in Starts(R)
    BY <1>2 DEF Starts
  <1>4. N \in Starts(Q) <=> e.event = "run_start"
    BY <1>2 DEF Starts
  <1>5. Starts(R) \subseteq DOMAIN R /\ Starts(Q) \subseteq DOMAIN R \cup {N}
    BY <1>2 DEF Starts
  <1>6. CASE e.event = "run_start"
    <2>1. Starts(Q) = Starts(R) \cup {N}
      BY <1>2, <1>3, <1>4, <1>5, <1>6
    <2> QED
      BY <1>1, <1>6, <2>1
  <1>7. CASE e.event # "run_start"
    <2>1. Starts(Q) = Starts(R)
      BY <1>2, <1>3, <1>4, <1>5, <1>7
    <2> QED
      BY <1>1, <1>7, <2>1
  <1> QED
    BY <1>1, <1>6, <1>7

\* The attempts of a run are a number, and those of the last record that counts.
LEMMA AttemptsIs ==
    ASSUME NEW R \in Seq(Entries), NEW n
    PROVE  AttemptsOf(R, n) \in Nat
  <1> DEFINE counted == OfRun(R, n, IF Closed(R, n) THEN {"run_end"} ELSE {"checkpoint", "read_error"})
  <1>1. Len(R) \in Nat /\ counted \in SUBSET (0..Len(R)) /\ counted \subseteq DOMAIN R
    BY DEF OfRun
  <1>2. AttemptsOf(R, n) = IF counted = {} THEN 0 ELSE R[Max(counted)].read_attempts
    BY DEF AttemptsOf
  <1> HIDE DEF counted
  <1>3. counted # {} => Max(counted) \in DOMAIN R
    BY <1>1, GreatestOf
  <1>4. \A i \in DOMAIN R : R[i].read_attempts \in Nat
    <2>1. \A i \in DOMAIN R : R[i] \in Entries
      OBVIOUS
    <2> QED
      BY <2>1 DEF Entries
  <1> QED
    BY <1>2, <1>3, <1>4

LEMMA CountsTyped ==
    ASSUME NEW R \in Seq(Entries)
    PROVE  /\ Counts(R) \in Seq(Nat) /\ Len(Counts(R)) = Len(R)
           /\ Reads(R) = TotalOf(Counts(R)) /\ Reads(R) \in Nat
  <1>1. \A i \in DOMAIN R : AttemptsOf(R, i) \in Nat
    BY AttemptsIs
  <1>2. DOMAIN R = 1..Len(R) /\ Len(R) \in Nat
    OBVIOUS
  <1>3. Counts(R) \in [1..Len(R) -> Nat]
    BY <1>1, <1>2 DEF Counts
  <1>4. Counts(R) \in Seq(Nat) /\ Len(Counts(R)) = Len(R)
    BY <1>2, <1>3
  <1>5. Reads(R) = TotalOf(Counts(R))
    BY DEF Reads, Counts
  <1> QED
    BY <1>4, <1>5, TotalAppend

\* The attempts of the other runs stay.
LEMMA AttemptsStay ==
    ASSUME NEW R \in Seq(Entries), NEW e \in Entries, NEW Q, NEW n,
           Q = Append(R, e), e.run # n
    PROVE  AttemptsOf(Q, n) = AttemptsOf(R, n) /\ (Closed(Q, n) <=> Closed(R, n))
  <1> DEFINE counted == OfRun(R, n, IF Closed(R, n) THEN {"run_end"} ELSE {"checkpoint", "read_error"})
  <1>0. PICK N : N = Len(R) + 1
    OBVIOUS
  <1>1. ASSUME NEW E PROVE OfRun(Q, n, E) = OfRun(R, n, E)
    <2>1. OfRun(Append(R, e), n, E) = OfRun(R, n, E)
      BY AppendedRun
    <2> QED
      BY <2>1
  <1>2. Closed(Q, n) <=> Closed(R, n)
    BY <1>1 DEF Closed
  <1>3. Len(R) \in Nat /\ counted \in SUBSET (0..Len(R)) /\ counted \subseteq DOMAIN R
    BY DEF OfRun
  <1>4. /\ AttemptsOf(R, n) = IF counted = {} THEN 0 ELSE R[Max(counted)].read_attempts
        /\ AttemptsOf(Q, n) = IF counted = {} THEN 0 ELSE Q[Max(counted)].read_attempts
    <2>1. OfRun(Q, n, IF Closed(Q, n) THEN {"run_end"} ELSE {"checkpoint", "read_error"}) = counted
      BY <1>1, <1>2
    <2> QED
      BY <2>1 DEF AttemptsOf
  <1>5. \A i \in DOMAIN R : Q[i] = R[i]
    BY <1>0, AppendRecord
  <1> HIDE DEF counted
  <1>6. counted # {} => Max(counted) \in DOMAIN R
    BY <1>3, GreatestOf
  <1>7. AttemptsOf(Q, n) = AttemptsOf(R, n)
    BY <1>4, <1>5, <1>6
  <1> QED
    BY <1>2, <1>7

\* A record more of the run that is open: what load() makes of the history.
LEMMA OrderedGrows ==
    ASSUME NEW R \in Seq(Entries), NEW e \in Entries, Ordered(R),
           e.run \in Starts(R), StartOf(R, Len(R)) = e.run, ~Closed(R, e.run),
           e.event \notin {"session", "run_start"}
    PROVE  /\ Ordered(Append(R, e)) /\ Starts(Append(R, e)) = Starts(R)
           /\ StartOf(Append(R, e), Len(Append(R, e))) = e.run
  <1>1. PICK N, Q : N = Len(R) + 1 /\ Q = Append(R, e)
    OBVIOUS
  <1>2. /\ Q \in Seq(Entries) /\ Len(Q) = N /\ N \in Nat /\ DOMAIN R = 1..(N - 1)
        /\ DOMAIN Q = DOMAIN R \cup {N} /\ N \notin DOMAIN R
        /\ Q[N] = e /\ \A i \in DOMAIN R : Q[i] = R[i]
        /\ \A i \in 0..Len(R) : StartOf(Q, i) = StartOf(R, i)
    <2>1. /\ Q \in Seq(Entries) /\ Len(Q) = N /\ N \in Nat /\ DOMAIN R = 1..(N - 1)
          /\ DOMAIN Q = DOMAIN R \cup {N} /\ N \notin DOMAIN R
      BY <1>1, AppendRecord
    <2>2. Q[N] = e /\ \A i \in DOMAIN R : Q[i] = R[i]
      BY <1>1, AppendRecord
    <2>3. \A i \in 0..Len(R) : StartOf(Q, i) = StartOf(R, i)
      BY <1>1, AppendedStays
    <2> QED
      BY <2>1, <2>2, <2>3
  <1>3. Starts(Q) = Starts(R)
    BY <1>1, AppendedStarts
  <1>4. e.run \in DOMAIN R /\ R[e.run].event = "run_start" /\ e.run \in Nat /\ e.run >= 1 /\ N # 1
    BY <1>2 DEF Starts
  <1>5. StartOf(Q, N) = e.run
    <2>1. /\ StartOf(Q, N) \in {j \in 1..N : Q[j].event = "run_start"} \cup {0}
          /\ \A k \in 1..N : Q[k].event = "run_start" => k <= StartOf(Q, N)
      BY <1>2, StartOfIs
    <2>2. StartOf(Q, N) >= e.run /\ StartOf(Q, N) \in Nat
      BY <1>2, <1>4, <2>1
    <2>3. StartOf(Q, N) \in DOMAIN R /\ R[StartOf(Q, N)].event = "run_start"
      BY <1>2, <1>4, <2>1, <2>2
    <2>4. StartOf(Q, N) <= StartOf(R, N - 1)
      BY <1>2, <2>3, StartOfIs
    <2>5. StartOf(R, N - 1) = e.run
      BY <1>1, <1>2
    <2> QED
      BY <1>4, <2>2, <2>4, <2>5
  <1>6. Ordered(Q)
    <2> SUFFICES ASSUME NEW i \in DOMAIN Q
                 PROVE  IF i = 1 THEN Q[i].event = "session" /\ Q[i].run = 0
                        ELSE /\ Q[i].event # "session"
                             /\ Q[i].run > 0 /\ Q[i].run = StartOf(Q, i)
                             /\ \A end \in OfRun(Q, Q[i].run, {"run_end"}) : i <= end
      BY DEF Ordered
    <2>1. CASE i = N
      <3>1. OfRun(R, e.run, {"run_end"}) = {}
        BY DEF Closed
      <3>2. OfRun(Q, e.run, {"run_end"}) \subseteq {N}
        BY <1>1, <3>1, AppendedRun
      <3>3. \A end \in OfRun(Q, e.run, {"run_end"}) : i <= end
        BY <1>2, <2>1, <3>2
      <3> QED
        BY <1>2, <1>4, <1>5, <2>1, <3>3
    <2>2. CASE i \in DOMAIN R
      <3>1. IF i = 1 THEN R[i].event = "session" /\ R[i].run = 0
            ELSE /\ R[i].event # "session"
                 /\ R[i].run > 0 /\ R[i].run = StartOf(R, i)
                 /\ \A end \in OfRun(R, R[i].run, {"run_end"}) : i <= end
        BY <2>2 DEF Ordered
      <3>2. i <= N /\ i \in 0..Len(R) /\ Q[i] = R[i] /\ StartOf(Q, i) = StartOf(R, i)
        BY <1>1, <1>2, <2>2
      <3>3. OfRun(Q, R[i].run, {"run_end"}) \subseteq OfRun(R, R[i].run, {"run_end"}) \cup {N}
        BY <1>1, AppendedRun
      <3> QED
        BY <3>1, <3>2, <3>3
    <2> QED
      BY <1>2, <2>1, <2>2
  <1> QED
    BY <1>1, <1>2, <1>3, <1>5, <1>6

\* The last record of a run that counts has its attempts.
Progress == {"checkpoint", "read_error"}
LEMMA AttemptsGrow ==
    ASSUME NEW R \in Seq(Entries), NEW e \in Entries, ~Closed(R, e.run)
    PROVE  /\ Closed(Append(R, e), e.run) <=> e.event = "run_end"
           /\ AttemptsOf(Append(R, e), e.run) =
                 IF e.event \in Progress \cup {"run_end"} THEN e.read_attempts
                 ELSE AttemptsOf(R, e.run)
  <1>1. PICK N, Q, n : N = Len(R) + 1 /\ Q = Append(R, e) /\ n = e.run
    OBVIOUS
  <1>2. /\ Q \in Seq(Entries) /\ N \in Nat /\ DOMAIN R = 1..(N - 1)
        /\ Q[N] = e /\ \A i \in DOMAIN R : Q[i] = R[i]
    BY <1>1, AppendRecord
  <1>3. OfRun(R, n, {"run_end"}) = {}
    BY <1>1 DEF Closed
  <1>4. ASSUME NEW E
        PROVE  OfRun(Q, n, E) = IF e.event \in E THEN OfRun(R, n, E) \cup {N} ELSE OfRun(R, n, E)
    BY <1>1, AppendedRun
  <1>5. Closed(Q, n) <=> e.event = "run_end"
    BY <1>3, <1>4 DEF Closed
  <1>6. ASSUME NEW E PROVE OfRun(R, n, E) \subseteq 1..(N - 1)
    BY <1>2 DEF OfRun
  <1>7. ASSUME NEW E, e.event \in E PROVE OfRun(Q, n, E) # {} /\ Max(OfRun(Q, n, E)) = N
    <2>1. OfRun(Q, n, E) = OfRun(R, n, E) \cup {N}
      BY <1>4, <1>7
    <2>2. OfRun(Q, n, E) \in SUBSET (0..N) /\ N \in OfRun(Q, n, E)
      BY <1>2, <1>6, <2>1
    <2>3. Max(OfRun(Q, n, E)) \in OfRun(Q, n, E) /\ N <= Max(OfRun(Q, n, E))
      BY <1>2, <2>2, GreatestOf
    <2> QED
      BY <1>2, <2>2, <2>3
  <1>8. CASE e.event = "run_end"
    <2>1. AttemptsOf(Q, n) = Q[N].read_attempts
      BY <1>5, <1>7, <1>8 DEF AttemptsOf
    <2> QED
      BY <1>1, <1>2, <1>5, <1>8, <2>1
  <1>9. CASE e.event \in Progress
    <2>1. ~Closed(Q, n)
      BY <1>5, <1>9 DEF Progress
    <2>2. AttemptsOf(Q, n) = Q[N].read_attempts
      BY <1>7, <1>9, <2>1 DEF AttemptsOf, Progress
    <2> QED
      BY <1>1, <1>2, <1>5, <1>9, <2>2
  <1>10. CASE e.event \notin Progress \cup {"run_end"}
    <2>1. ~Closed(Q, n) /\ ~Closed(R, n)
      BY <1>1, <1>5, <1>10
    <2>2. OfRun(Q, n, Progress) = OfRun(R, n, Progress)
      BY <1>4, <1>10
    <2>3. OfRun(R, n, Progress) # {} => Max(OfRun(R, n, Progress)) \in DOMAIN R
      <3>1. OfRun(R, n, Progress) \in SUBSET (0..N)
        BY <1>2, <1>6
      <3> QED
        BY <1>2, <1>6, <3>1, GreatestOf
    <2>4. AttemptsOf(Q, n) = AttemptsOf(R, n)
      BY <1>2, <2>1, <2>2, <2>3 DEF AttemptsOf, Progress
    <2> QED
      BY <1>1, <1>5, <1>10, <2>4
  <1> QED
    BY <1>8, <1>9, <1>10

LEMMA ReadsGrow ==
    ASSUME NEW R \in Seq(Entries), NEW e \in Entries, e.run \in Starts(R),
           e.event # "run_start"
    PROVE  Reads(Append(R, e)) + AttemptsOf(R, e.run) = Reads(R) + AttemptsOf(Append(R, e), e.run)
  <1>1. PICK N, Q, n : N = Len(R) + 1 /\ Q = Append(R, e) /\ n = e.run
    OBVIOUS
  <1>2. /\ Q \in Seq(Entries) /\ Len(Q) = N /\ N \in Nat /\ DOMAIN R = 1..(N - 1)
        /\ DOMAIN Q = DOMAIN R \cup {N} /\ N \notin DOMAIN R
    BY <1>1, AppendRecord
  <1>3. Starts(Q) = Starts(R) /\ Starts(R) \subseteq DOMAIN R /\ n \in Starts(R)
    <2>1. Starts(Q) = Starts(R)
      BY <1>1, AppendedStarts
    <2> QED
      BY <1>1, <2>1 DEF Starts
  <1>4. PICK g : g = Append(Counts(R), 0)
    OBVIOUS
  <1>5. /\ Counts(R) \in Seq(Nat) /\ Len(Counts(R)) = N - 1 /\ Reads(R) = TotalOf(Counts(R))
        /\ Reads(R) \in Nat
    BY <1>1, <1>2, CountsTyped
  <1>6. /\ Counts(Q) \in Seq(Nat) /\ Len(Counts(Q)) = N /\ Reads(Q) = TotalOf(Counts(Q))
    BY <1>2, CountsTyped
  <1>7. g \in Seq(Nat) /\ Len(g) = N /\ g[N] = 0 /\ \A i \in DOMAIN R : g[i] = Counts(R)[i]
    BY <1>2, <1>4, <1>5
  <1>8. TotalOf(g) = Reads(R)
    BY <1>4, <1>5, TotalAppend
  <1>9. \A i \in DOMAIN g : i # n => Counts(Q)[i] = g[i]
    <2> SUFFICES ASSUME NEW i \in DOMAIN g, i # n PROVE Counts(Q)[i] = g[i]
      OBVIOUS
    <2>1. i \in DOMAIN Q
      BY <1>2, <1>7
    <2>2. Counts(Q)[i] = IF i \in Starts(R) THEN AttemptsOf(Q, i) ELSE 0
      BY <1>3, <2>1 DEF Counts
    <2>3. CASE i \in DOMAIN R
      <3>1. g[i] = IF i \in Starts(R) THEN AttemptsOf(R, i) ELSE 0
        BY <1>7, <2>3 DEF Counts
      <3>2. AttemptsOf(Q, i) = AttemptsOf(R, i)
        BY <1>1, AttemptsStay
      <3> QED
        BY <2>2, <3>1, <3>2
    <2>4. CASE i = N
      BY <1>2, <1>3, <1>7, <2>2, <2>4
    <2> QED
      BY <1>2, <2>1, <2>3, <2>4
  <1>10. g[n] = AttemptsOf(R, n) /\ Counts(Q)[n] = AttemptsOf(Q, n) /\ n \in DOMAIN g
    BY <1>2, <1>3, <1>7 DEF Counts
  <1>11. TotalOf(Counts(Q)) + g[n] = TotalOf(g) + Counts(Q)[n]
    BY <1>6, <1>7, <1>9, <1>10, TotalChange
  <1> QED
    BY <1>1, <1>6, <1>8, <1>10, <1>11

\* A run that begins.
LEMMA OrderedBegins ==
    ASSUME NEW R \in Seq(Entries), NEW e \in Entries, Ordered(R), R # <<>>,
           e.event = "run_start", e.run = Len(R) + 1
    PROVE  /\ Ordered(Append(R, e)) /\ Starts(Append(R, e)) = Starts(R) \cup {e.run}
           /\ StartOf(Append(R, e), Len(Append(R, e))) = e.run
           /\ \A E : e.event \notin E => OfRun(Append(R, e), e.run, E) = {}
           /\ AttemptsOf(Append(R, e), e.run) = 0 /\ Reads(Append(R, e)) = Reads(R)
  <1>1. PICK N, Q : N = Len(R) + 1 /\ Q = Append(R, e)
    OBVIOUS
  <1>2. /\ Q \in Seq(Entries) /\ Len(Q) = N /\ N \in Nat /\ DOMAIN R = 1..(N - 1)
        /\ DOMAIN Q = DOMAIN R \cup {N} /\ N \notin DOMAIN R
        /\ Q[N] = e /\ \A i \in DOMAIN R : Q[i] = R[i]
        /\ \A i \in 0..Len(R) : StartOf(Q, i) = StartOf(R, i)
    <2>1. /\ Q \in Seq(Entries) /\ Len(Q) = N /\ N \in Nat /\ DOMAIN R = 1..(N - 1)
          /\ DOMAIN Q = DOMAIN R \cup {N} /\ N \notin DOMAIN R
      BY <1>1, AppendRecord
    <2>2. Q[N] = e /\ \A i \in DOMAIN R : Q[i] = R[i]
      BY <1>1, AppendRecord
    <2>3. \A i \in 0..Len(R) : StartOf(Q, i) = StartOf(R, i)
      BY <1>1, AppendedStays
    <2> QED
      BY <2>1, <2>2, <2>3
  <1>3. Starts(Q) = Starts(R) \cup {N} /\ Starts(R) \subseteq DOMAIN R
    <2>1. Starts(Q) = Starts(R) \cup {N}
      BY <1>1, AppendedStarts
    <2> QED
      BY <2>1 DEF Starts
  <1>4. ASSUME NEW E, e.event \notin E PROVE OfRun(Q, N, E) = {}
    <2>1. OfRun(Q, N, E) = OfRun(R, N, E)
      BY <1>1, <1>4, AppendedRun
    <2>2. ASSUME NEW i \in DOMAIN R PROVE R[i].run # N
      <3>1. R[i].run \in Nat /\ R[i].run <= i
        BY OrderedFacts
      <3>2. i \in 1..(N - 1)
        BY <1>2
      <3> QED
        BY <1>2, <3>1, <3>2
    <2>3. OfRun(R, N, E) = {}
      BY <2>2 DEF OfRun
    <2> QED
      BY <2>1, <2>3
  <1>5. StartOf(Q, N) = N
    <2>1. /\ StartOf(Q, N) \in {j \in 1..N : Q[j].event = "run_start"} \cup {0}
          /\ \A k \in 1..N : Q[k].event = "run_start" => k <= StartOf(Q, N)
      BY <1>2, StartOfIs
    <2>2. N \in 1..N
      BY <1>1, <1>2
    <2> QED
      BY <1>2, <2>1, <2>2
  <1>6. Ordered(Q)
    <2> SUFFICES ASSUME NEW i \in DOMAIN Q
                 PROVE  IF i = 1 THEN Q[i].event = "session" /\ Q[i].run = 0
                        ELSE /\ Q[i].event # "session"
                             /\ Q[i].run > 0 /\ Q[i].run = StartOf(Q, i)
                             /\ \A end \in OfRun(Q, Q[i].run, {"run_end"}) : i <= end
      BY DEF Ordered
    <2>1. CASE i = N
      <3>1. OfRun(Q, N, {"run_end"}) = {}
        BY <1>4
      <3>2. N # 1 /\ N > 0
        BY <1>1, <1>2
      <3> QED
        BY <1>1, <1>2, <1>5, <2>1, <3>1, <3>2
    <2>2. CASE i \in DOMAIN R
      <3>1. IF i = 1 THEN R[i].event = "session" /\ R[i].run = 0
            ELSE /\ R[i].event # "session"
                 /\ R[i].run > 0 /\ R[i].run = StartOf(R, i)
                 /\ \A end \in OfRun(R, R[i].run, {"run_end"}) : i <= end
        BY <2>2 DEF Ordered
      <3>2. i \in 0..Len(R) /\ Q[i] = R[i] /\ StartOf(Q, i) = StartOf(R, i)
        BY <1>1, <1>2, <2>2
      <3>3. OfRun(Q, R[i].run, {"run_end"}) = OfRun(R, R[i].run, {"run_end"})
        BY <1>1, AppendedRun
      <3> QED
        BY <3>1, <3>2, <3>3
    <2> QED
      BY <1>2, <2>1, <2>2
  <1>7. AttemptsOf(Q, N) = 0
    <2>1. OfRun(Q, N, {"run_end"}) = {} /\ OfRun(Q, N, {"checkpoint", "read_error"}) = {}
      BY <1>4
    <2> QED
      BY <2>1 DEF AttemptsOf, Closed
  <1>8. Reads(Q) = Reads(R)
    <2>1. /\ Counts(R) \in Seq(Nat) /\ Len(Counts(R)) = N - 1 /\ Reads(R) = TotalOf(Counts(R))
          /\ Reads(R) \in Nat
      BY <1>1, <1>2, CountsTyped
    <2>2. Counts(Q) \in Seq(Nat) /\ Len(Counts(Q)) = N /\ Reads(Q) = TotalOf(Counts(Q))
      BY <1>2, CountsTyped
    <2>3. ASSUME NEW i \in DOMAIN R PROVE Counts(Q)[i] = Counts(R)[i]
      <3>1. i # N
        BY <1>2
      <3>2. AttemptsOf(Q, i) = AttemptsOf(R, i)
        BY <1>1, <3>1, AttemptsStay
      <3> QED
        BY <1>2, <1>3, <3>1, <3>2 DEF Counts
    <2>4. Counts(Q)[N] = 0
      BY <1>2, <1>7 DEF Counts
    <2>5. Counts(Q) = Append(Counts(R), 0)
      BY <1>2, <2>1, <2>2, <2>3, <2>4
    <2> QED
      BY <2>1, <2>2, <2>5, TotalAppend
  <1> QED
    BY <1>1, <1>2, <1>3, <1>4, <1>5, <1>6, <1>7, <1>8

\* The first record.
LEMMA OrderedFirst ==
    ASSUME NEW e \in Entries, e.event = "session", e.run = 0
    PROVE  /\ Ordered(<<e>>) /\ Starts(<<e>>) = {} /\ Reads(<<e>>) = 0
           /\ Ordered(<<>>)
  <1>1. DOMAIN <<e>> = {1} /\ <<e>>[1] = e /\ <<e>> \in Seq(Entries) /\ DOMAIN <<>> = {}
    OBVIOUS
  <1>2. Ordered(<<e>>) /\ Starts(<<e>>) = {} /\ Ordered(<<>>)
    BY <1>1 DEF Ordered, Starts
  <1>3. Counts(<<e>>) = <<0>>
    <2>1. Counts(<<e>>) = [i \in {1} |-> 0]
      BY <1>1, <1>2 DEF Counts
    <2> QED
      BY <2>1
  <1>4. TotalOf(<<0>>) = 0
    <2> DEFINE h == [k \in {0, 1} |-> 0]
    <2>1. <<0>> \in Seq(Nat) /\ Len(<<0>>) = 1 /\ <<0>>[1] = 0
      OBVIOUS
    <2>2. h[0] = 0 /\ h[1] = 0 /\ \A k \in 1..1 : h[k] = h[k - 1] + <<0>>[k]
      OBVIOUS
    <2> HIDE DEF h
    <2>3. \A k \in 1..Len(<<0>>) : h[k] = h[k - 1] + <<0>>[k]
      BY <2>1, <2>2
    <2>4. TotalOf(<<0>>) = h[Len(<<0>>)]
      BY <2>1, <2>2, <2>3, TotalUnique
    <2> QED
      BY <2>1, <2>2, <2>4
  <1>5. Reads(<<e>>) = TotalOf(Counts(<<e>>))
    BY <1>1, CountsTyped
  <1> QED
    BY <1>2, <1>3, <1>4, <1>5

----------------------------------------------------------------------------
(* Sessions                                                                *)

RunLabels == SessionLabels \ {"history", "bind", "started", "save"}
Acquiring == {"acquisition", "notify", "reading", "taken", "read_error", "closing", "unchanged",
              "publication", "link", "retire"}
Codes == {0, 1, 3, 4, 130, Killed}
Reports == {NoReport} \cup [reads : Nat, complete : BOOLEAN, latest : SUBSET Codes,
                            publication : BOOLEAN]
Runs == [command : {"none", "acquire", "resume", "report"}, audit : BOOLEAN, number : Nat,
         sequence : Nat, failure : BOOLEAN, checkpoint : Int, read_attempts : Nat,
         retried : BOOLEAN, result : {"complete", "cancelled", "failed"}]
SessionTyped ==
    /\ session \in [manifest : BOOLEAN, folder : BOOLEAN, records : Seq(Entries), pending : Nat,
                    saved : Reports, journal : {"none", "open", "publishing"}, sealed : Nat]
    /\ run \in Runs
    /\ reads \in Nat

\* Nothing is there without a manifest, and no record without the folder.
FilesOK ==
    /\ session.folder \/ session.journal # "none" \/ output = "ours" \/ main.at \in SessionLabels
          => session.manifest
    /\ session.records # <<>> => session.folder

\* A command that records is the writer of the last run, which is open, until it fails;
\* if all other runs are closed, only its attempts are not counted yet.
Recording == main.at \in RunLabels /\ ~run.failure
HistoryOK ==
    /\ Ordered(session.records)
    /\ Recording =>
          /\ run.sequence = Len(session.records) /\ run.number \in Starts(session.records)
          /\ StartOf(session.records, Len(session.records)) = run.number
          /\ ~Closed(session.records, run.number)
          /\ (\A i \in Starts(session.records) \ {run.number} : Closed(session.records, i))
                => reads + AttemptsOf(session.records, run.number)
                      = Reads(session.records) + run.read_attempts
    /\ ~Recording =>
          ((\A i \in Starts(session.records) : Closed(session.records, i))
                => reads = Reads(session.records))

\* Where the command can be with its history.
WriterOK ==
    /\ main.at # "failing"
    /\ main.at \in {"history", "bind", "started"} => run.number = 0 /\ run.read_attempts = 0
    /\ main.at = "bind" => session.folder /\ session.records = <<>>
    /\ main.at = "started" => session.records # <<>> /\ run.sequence = Len(session.records)
    /\ run.failure => main.at \in {"closing", "end", "exit"}

Published == output = "ours" /\ session.journal = "none"
HasPublished(n) == OfRun(session.records, n, {"published"}) # {}
CodesOf(n) == {session.records[i].exit_code : i \in OfRun(session.records, n, {"run_end"})}
PublishedOK ==
    /\ (\E i \in DOMAIN session.records : session.records[i].event = "published") => Published
    /\ main.at \in Acquiring => session.journal # "none"
    /\ main.at \in {"published", "verification"} => Published
    /\ main.at = "verification" => HasPublished(run.number)
    /\ main.at = "end" /\ main.exit = 0 =>
          Published /\ HasPublished(run.number) /\ ~run.failure
    /\ main.at = "save" =>
          /\ StartOf(session.records, Len(session.records)) = run.number
          /\ CodesOf(run.number) = {main.exit}
          /\ main.exit = 0 => Published /\ HasPublished(run.number)
    /\ Over /\ run.audit /\ main.exit \notin {1, Killed} =>
          session.saved = Summary(session) /\ ClosedAs(session.saved, main.exit)

SessionOK == FilesOK /\ HistoryOK /\ WriterOK /\ PublishedOK
SessionInv == SessionTyped /\ (InSession => SessionOK)

\* Event(): the record is written and the command goes on, or it is not sure of it.
Written(event, r) ==
    /\ ~run.failure /\ run.sequence < MaxRecords /\ Len(session.records) = run.sequence
    /\ session' = [session EXCEPT !.records = Append(@, Record(event, r))]
Succeeds(event, r) == Written(event, r) /\ run' = [r EXCEPT !.sequence = @ + 1]
Fails(event, r) ==
    run' = [r EXCEPT !.failure = TRUE] /\ (Written(event, r) \/ UNCHANGED session)

LEMMA Appended ==
    ASSUME NEW R \in Seq(Entries), NEW e \in Entries
    PROVE  /\ Append(R, e) \in Seq(Entries) /\ Len(Append(R, e)) = Len(R) + 1
           /\ Append(R, e) # <<>>
    BY AppendProperties

LEMMA Exchange ==
    ASSUME NEW x \in Nat, NEW b \in Nat, NEW d \in Nat, NEW y \in Nat, NEW a \in Nat, NEW c \in Nat,
           x + a = c + y, d + a = c + b
    PROVE  x + b = d + y
    OBVIOUS

LEMMA EntryOf ==
    ASSUME main \in Report, NEW event \in Events, NEW r \in Runs
    PROVE  /\ Record(event, r) \in Entries
           /\ Record(event, r).event = event /\ Record(event, r).run = r.number
           /\ Record(event, r).read_attempts = r.read_attempts
           /\ Record(event, r).exit_code = main.exit
    BY DEF Record, Entries, Report, Runs

LEMMA SessionFields ==
    ASSUME SessionTyped
    PROVE  /\ session.records \in Seq(Entries) /\ run \in Runs /\ reads \in Nat
           /\ session.manifest \in BOOLEAN /\ session.folder \in BOOLEAN /\ session.pending \in Nat
           /\ session.saved \in Reports /\ session.journal \in {"none", "open", "publishing"}
           /\ session.sealed \in Nat
           /\ run.number \in Nat /\ run.sequence \in Nat /\ run.failure \in BOOLEAN
           /\ run.read_attempts \in Nat
    BY DEF SessionTyped, Runs

\* A record leaves the other files of the session as they are.
KeptFiles ==
    /\ session'.manifest = session.manifest /\ session'.folder = session.folder
    /\ session'.pending = session.pending /\ session'.saved = session.saved
    /\ session'.journal = session.journal /\ session'.sealed = session.sealed
LEMMA WrittenIs ==
    ASSUME SessionTyped, main \in Report, NEW event \in Events, NEW r \in Runs, Written(event, r)
    PROVE  /\ session'.records = Append(session.records, Record(event, r)) /\ KeptFiles
           /\ session'.records \in Seq(Entries) /\ session'.records # <<>>
           /\ Len(session'.records) = Len(session.records) + 1
           /\ session' \in [manifest : BOOLEAN, folder : BOOLEAN, records : Seq(Entries),
                            pending : Nat, saved : Reports,
                            journal : {"none", "open", "publishing"}, sealed : Nat]
  <1>1. PICK e \in Entries : e = Record(event, r)
    BY EntryOf
  <1>2. session' = [session EXCEPT !.records = Append(session.records, e)]
    BY <1>1 DEF Written
  <1>3. session.records \in Seq(Entries)
    BY SessionFields
  <1>4. PICK Q \in Seq(Entries) : Q = Append(session.records, e)
    BY <1>1, <1>3, Appended
  <1>6. PICK n \in Nat : n = Len(session.records)
    BY <1>3
  <1>7. Len(Q) = n + 1
    BY <1>1, <1>3, <1>4, <1>6, Appended
  <1>8. Q # <<>>
    BY <1>6, <1>7
  <1>5. session' = [session EXCEPT !.records = Q]
    BY <1>2, <1>4
  <1> QED
    BY <1>1, <1>4, <1>5, <1>6, <1>7, <1>8 DEF SessionTyped, KeptFiles

\* What is in the history stays there, and only `event' is new.
Grown(event) ==
    /\ \A n : HasPublished(n) => HasPublished(n)'
    /\ (\E i \in DOMAIN session'.records : session'.records[i].event = "published") =>
          \/ event = "published"
          \/ \E i \in DOMAIN session.records : session.records[i].event = "published"

LEMMA GrownUnchanged ==
    ASSUME session'.records = session.records, NEW event
    PROVE  Grown(event)
    BY DEF Grown, HasPublished

LEMMA GrownWritten ==
    ASSUME SessionTyped, main \in Report, NEW event \in Events, NEW r \in Runs, Written(event, r)
    PROVE  Grown(event)
  <1>0. PICK e \in Entries, R \in Seq(Entries) : e = Record(event, r) /\ R = session.records
    BY EntryOf, SessionFields
  <1>a. PICK Q : Q = Append(R, e)
    OBVIOUS
  <1>1. /\ e = Record(event, r) /\ e.event = event /\ R = session.records
        /\ Q = Append(R, e) /\ session'.records = Q
    BY <1>0, <1>a, EntryOf, WrittenIs
  <1>2. ASSUME NEW n, OfRun(R, n, {"published"}) # {} PROVE OfRun(Q, n, {"published"}) # {}
    BY <1>1, <1>2, AppendedRun
  <1>3. ASSUME NEW i \in DOMAIN Q, Q[i].event = "published"
        PROVE  event = "published" \/ \E j \in DOMAIN R : R[j].event = "published"
    <2>1. PICK N : N = Len(R) + 1
      OBVIOUS
    <2>2. DOMAIN Q = DOMAIN R \cup {N} /\ Q[N] = e /\ \A j \in DOMAIN R : Q[j] = R[j]
      BY <1>1, <2>1, AppendRecord
    <2> QED
      BY <1>1, <1>3, <2>2
  <1> QED
    BY <1>1, <1>2, <1>3 DEF Grown, HasPublished

\* A record of the open run, written for sure.
LEMMA RunGoesOn ==
    ASSUME SessionTyped, main \in Report, HistoryOK, Recording,
           NEW event \in Events \ {"session", "run_start", "run_end"}, NEW r \in Runs,
           r.number = run.number, r.read_attempts = run.read_attempts,
           r.sequence = run.sequence, ~r.failure,
           Succeeds(event, r), UNCHANGED reads, main'.at \in RunLabels
    PROVE  HistoryOK' /\ Grown(event) /\ run'.failure = FALSE /\ run'.number = run.number
  <1>0. PICK e \in Entries, R \in Seq(Entries), n \in Nat :
            e = Record(event, r) /\ R = session.records /\ n = run.number
    BY EntryOf, SessionFields
  <1>a. PICK Q \in Seq(Entries) : Q = Append(R, e)
    BY <1>0, Appended
  <1>b. e.event = event /\ e.run = n /\ e.read_attempts = run.read_attempts
    BY <1>0, EntryOf
  <1>c. session'.records = Q /\ Len(Q) = Len(R) + 1
    BY <1>0, <1>a, WrittenIs DEF Succeeds
  <1>1. /\ e = Record(event, r) /\ e.event = event /\ R = session.records /\ n = run.number
        /\ Q = Append(R, e) /\ session'.records = Q
        /\ e.run = n /\ e.read_attempts = run.read_attempts
        /\ Len(Q) = Len(R) + 1 /\ Q \in Seq(Entries)
    BY <1>0, <1>a, <1>b, <1>c
  <1>2. /\ run'.number = n /\ run'.failure = FALSE /\ run'.sequence = Len(R) + 1
        /\ run'.read_attempts = run.read_attempts /\ Len(R) = run.sequence
    BY <1>1 DEF Succeeds, Written, Runs
  <1>3. Recording'
    BY <1>2 DEF Recording
  <1>4. /\ Ordered(R) /\ n \in Starts(R) /\ StartOf(R, Len(R)) = n /\ ~Closed(R, n)
        /\ (\A i \in Starts(R) \ {n} : Closed(R, i))
              => reads + AttemptsOf(R, n) = Reads(R) + run.read_attempts
    BY <1>1 DEF HistoryOK
  <1>5. Ordered(Q) /\ Starts(Q) = Starts(R) /\ StartOf(Q, Len(Q)) = n
    BY <1>1, <1>4, OrderedGrows
  <1>6. /\ ~Closed(Q, n)
        /\ AttemptsOf(Q, n) = run.read_attempts \/ AttemptsOf(Q, n) = AttemptsOf(R, n)
    BY <1>1, <1>4, AttemptsGrow
  <1>7. \A i \in Starts(R) \ {n} : Closed(Q, i) <=> Closed(R, i)
    BY <1>1, AttemptsStay
  <1>8. Reads(Q) + AttemptsOf(R, n) = Reads(R) + AttemptsOf(Q, n)
    BY <1>1, <1>4, ReadsGrow
  <1>9. PICK a \in Nat, b \in Nat, c \in Nat, d \in Nat :
            a = AttemptsOf(R, n) /\ b = AttemptsOf(Q, n) /\ c = Reads(R) /\ d = Reads(Q)
    BY <1>1, AttemptsIs, CountsTyped
  <1>10. reads \in Nat /\ run.read_attempts \in Nat
    BY SessionFields
  <1>11. (\A i \in Starts(Q) \ {n} : Closed(Q, i))
            => reads + AttemptsOf(Q, n) = Reads(Q) + run.read_attempts
    <2> SUFFICES ASSUME \A i \in Starts(Q) \ {n} : Closed(Q, i)
                 PROVE  reads + b = d + run.read_attempts
      BY <1>9
    <2>1. reads + a = c + run.read_attempts
      BY <1>4, <1>5, <1>7, <1>9
    <2>2. d + a = c + b
      BY <1>8, <1>9
    <2>0. a \in Nat /\ b \in Nat /\ c \in Nat /\ d \in Nat
      BY <1>9
    <2>3. ASSUME NEW x \in Nat, NEW y \in Nat, x + a = c + y PROVE x + b = d + y
      BY <2>0, <2>2, <2>3, Exchange
    <2> QED
      BY <1>10, <2>1, <2>3
  <1>12. Grown(event)
    BY GrownWritten DEF Succeeds
  <1> QED
    BY <1>1, <1>2, <1>3, <1>5, <1>6, <1>11, <1>12 DEF HistoryOK

\* Of a command that fails to record, the run stays open.
LEMMA RunFails ==
    ASSUME SessionTyped, main \in Report, HistoryOK, main.at \in RunLabels,
           NEW event \in Events \ {"session", "run_start", "run_end"}, NEW r \in Runs,
           r.number = run.number, Fails(event, r), UNCHANGED reads
    PROVE  /\ HistoryOK' /\ Grown(event) /\ run'.failure = TRUE /\ run'.number = run.number
           /\ session.records # <<>> => session'.records # <<>>
           /\ KeptFiles
  <1>1. run'.failure = TRUE /\ run'.number = run.number /\ ~Recording'
    BY DEF Fails, Runs, Recording
  <1>2. CASE UNCHANGED session
    <2>1. CASE Recording
      <3>1. run.number \in Starts(session.records) /\ ~Closed(session.records, run.number)
            /\ Ordered(session.records)
        BY <2>1 DEF HistoryOK
      <3>2. HistoryOK'
        BY <1>1, <1>2, <3>1 DEF HistoryOK
      <3> QED
        BY <1>1, <1>2, <3>2, GrownUnchanged DEF KeptFiles
    <2>2. CASE ~Recording
      <3>1. HistoryOK'
        BY <1>1, <1>2, <2>2 DEF HistoryOK
      <3> QED
        BY <1>1, <1>2, <3>1, GrownUnchanged DEF KeptFiles
    <2> QED
      BY <2>1, <2>2
  <1>3. CASE Written(event, r)
    <2>0. PICK e \in Entries, R \in Seq(Entries), n \in Nat :
              e = Record(event, r) /\ R = session.records /\ n = run.number
      BY EntryOf, SessionFields
    <2>a. PICK Q : Q = Append(R, e)
      OBVIOUS
    <2>b. e.event = event /\ e.run = n
      BY <2>0, EntryOf
    <2>c. session'.records = Q /\ Q # <<>>
      BY <1>3, <2>0, <2>a, WrittenIs
    <2>1. /\ e = Record(event, r) /\ e.event = event /\ R = session.records /\ n = run.number
          /\ Q = Append(R, e) /\ session'.records = Q /\ Q # <<>> /\ e.run = n
      BY <2>0, <2>a, <2>b, <2>c
    <2>2. Recording
      BY <1>3 DEF Written, Recording
    <2>3. Ordered(R) /\ n \in Starts(R) /\ StartOf(R, Len(R)) = n /\ ~Closed(R, n)
      BY <2>1, <2>2 DEF HistoryOK
    <2>4. Ordered(Q) /\ Starts(Q) = Starts(R)
      BY <2>1, <2>3, OrderedGrows
    <2>5. ~Closed(Q, n)
      BY <2>1, <2>3, AttemptsGrow
    <2>6. HistoryOK'
      BY <1>1, <2>1, <2>3, <2>4, <2>5 DEF HistoryOK
    <2>7. Grown(event) /\ KeptFiles
      BY <1>3, GrownWritten, WrittenIs
    <2> QED
      BY <1>1, <2>1, <2>6, <2>7
  <1> QED
    BY <1>2, <1>3 DEF Fails

\* Run records, and Goto among them.
Middle == Events \ {"session", "run_start", "run_end"}
OfThisRun(r) ==
    /\ r \in Runs /\ r.number = run.number /\ r.sequence = run.sequence
    /\ r.read_attempts = run.read_attempts /\ r.failure = run.failure

LEMMA RunsGoOn ==
    ASSUME NEW r \in Runs
    PROVE  [r EXCEPT !.sequence = @ + 1] \in Runs /\ [r EXCEPT !.failure = TRUE] \in Runs
  <1>1. PICK s \in Nat : s = r.sequence + 1
    BY DEF Runs
  <1>2. [r EXCEPT !.sequence = s] \in Runs
    BY DEF Runs
  <1>3. [r EXCEPT !.failure = TRUE] \in Runs
    BY DEF Runs
  <1> QED
    BY <1>1, <1>2, <1>3

LEMMA EventTyped ==
    ASSUME SessionTyped, main \in Report, NEW event \in Events, NEW r \in Runs,
           Succeeds(event, r) \/ Fails(event, r), UNCHANGED reads
    PROVE  /\ SessionTyped' /\ KeptFiles
           /\ session.records # <<>> => session'.records # <<>>
  <1>1. CASE Written(event, r)
    <2>0. run' = [r EXCEPT !.sequence = @ + 1] \/ run' = [r EXCEPT !.failure = TRUE]
      BY DEF Succeeds, Fails
    <2>1. run' \in Runs
      BY <2>0, RunsGoOn
    <2>2. /\ KeptFiles /\ session'.records # <<>>
          /\ session' \in [manifest : BOOLEAN, folder : BOOLEAN, records : Seq(Entries),
                            pending : Nat, saved : Reports,
                            journal : {"none", "open", "publishing"}, sealed : Nat]
      BY <1>1, WrittenIs
    <2> QED
      BY <2>1, <2>2 DEF SessionTyped
  <1>2. CASE Fails(event, r) /\ UNCHANGED session
    <2>1. run' \in Runs
      BY <1>2 DEF Fails, Runs
    <2> QED
      BY <1>2, <2>1 DEF SessionTyped, KeptFiles
  <1> QED
    BY <1>1, <1>2 DEF Succeeds, Fails

LEMMA PublishedRecorded ==
    ASSUME SessionTyped, main \in Report, NEW r \in Runs, Written("published", r)
    PROVE  HasPublished(r.number)'
  <1>1. PICK e \in Entries, R \in Seq(Entries), n \in Nat :
            e = Record("published", r) /\ R = session.records /\ n = r.number
    BY EntryOf, SessionFields DEF Events, Runs
  <1>2. e.event = "published" /\ e.run = n
    BY <1>1, EntryOf DEF Events
  <1>3. session'.records = Append(R, e)
    BY <1>1, WrittenIs DEF Events
  <1>4. OfRun(Append(R, e), n, {"published"}) = OfRun(R, n, {"published"}) \cup {Len(R) + 1}
    BY <1>1, <1>2, AppendedRun
  <1> QED
    BY <1>1, <1>3, <1>4 DEF HasPublished

LEMMA StartsSome ==
    ASSUME NEW n \in Starts(session.records) PROVE session.records # <<>>
    BY DEF Starts

\* What a record of the open run, written for sure, keeps.
LEMMA RecordsAndGoesOn ==
    ASSUME SessionTyped, SessionOK, main \in Report, NEW event \in Middle, NEW r, OfThisRun(r),
           main.at \in RunLabels, Succeeds(event, r), UNCHANGED <<output, reads>>,
           main'.at \in RunLabels,
           main'.at \in Acquiring => session.journal # "none",
           event = "published" \/ main'.at \in {"published", "verification"} => Published,
           main'.at = "verification" => event = "published",
           main'.at = "end" /\ main'.exit = 0 => Published /\ HasPublished(run.number)
    PROVE  SessionTyped' /\ SessionOK'
  <1>1. Recording /\ ~r.failure /\ r \in Runs
    BY DEF Succeeds, Written, OfThisRun, Recording
  <1>2. SessionTyped' /\ KeptFiles /\ (session.records # <<>> => session'.records # <<>>)
    BY <1>1, EventTyped DEF Middle
  <1>3. HistoryOK' /\ Grown(event) /\ run'.failure = FALSE /\ run'.number = run.number
    BY <1>1, RunGoesOn DEF Middle, OfThisRun, SessionOK
  <1>4. session'.records # <<>> => session.folder
    BY <1>1, StartsSome DEF SessionOK, FilesOK, HistoryOK
  <1>5. FilesOK'
    BY <1>2, <1>4 DEF FilesOK, SessionOK, KeptFiles, RunLabels
  <1>6. WriterOK'
    BY <1>3 DEF WriterOK, RunLabels, SessionLabels
  <1>7. Published' <=> Published
    BY <1>2 DEF Published, KeptFiles
  <1>0. PICK n : n = run.number
    OBVIOUS
  <1>8. event = "published" \/ HasPublished(n) => HasPublished(n)'
    BY <1>0, <1>1, <1>3, PublishedRecorded DEF Succeeds, OfThisRun, Grown
  <1>9. PublishedOK'
    <2>1. HasPublished(run.number)' <=> HasPublished(n)'
      BY <1>0, <1>3
    <2>2. HasPublished(run.number) <=> HasPublished(n)
      BY <1>0
    <2>3. main'.at \notin {"save", "exit"}
      BY DEF RunLabels, SessionLabels
    <2> QED
      BY <1>2, <1>3, <1>7, <1>8, <2>1, <2>2, <2>3
         DEF PublishedOK, SessionOK, Grown, KeptFiles, Over
  <1> QED
    BY <1>2, <1>3, <1>5, <1>6, <1>9 DEF SessionOK

\* A command that is not sure of its record records nothing any more.
LEMMA FailsToRecord ==
    ASSUME SessionTyped, SessionOK, main \in Report, NEW event \in Middle, NEW r \in Runs,
           r.number = run.number, main.at \in RunLabels, Fails(event, r), UNCHANGED <<output, reads>>,
           main'.at \in {"closing", "end"}, main'.at = "closing" => main.at \in Acquiring,
           main'.at = "end" => main'.exit # 0, event = "published" => Published
    PROVE  SessionTyped' /\ SessionOK'
  <1>1. SessionTyped' /\ KeptFiles
    BY EventTyped DEF Middle
  <1>2. HistoryOK' /\ Grown(event) /\ run'.failure = TRUE
    BY RunFails DEF Middle, SessionOK
  <1>3. session'.records # <<>> => session.records # <<>>
    <2>1. CASE Written(event, r)
      BY <2>1, StartsSome DEF Written, SessionOK, HistoryOK, Recording
    <2>2. CASE UNCHANGED session
      BY <2>2
    <2> QED
      BY <2>1, <2>2 DEF Fails
  <1>4. FilesOK'
    BY <1>1, <1>3 DEF FilesOK, SessionOK, KeptFiles, RunLabels
  <1>5. WriterOK'
    BY <1>2 DEF WriterOK
  <1>6. PublishedOK'
    BY <1>1, <1>2 DEF PublishedOK, SessionOK, Grown, KeptFiles, Over, Published, Acquiring
  <1> QED
    BY <1>1, <1>2, <1>4, <1>5, <1>6 DEF SessionOK

----------------------------------------------------------------------------
(* Steps that record                                                       *)

\* What Event() does in each of them.
EventMoves(event, r, Then, Otherwise) ==
    \/ Succeeds(event, r) /\ Then
    \/ Fails(event, r) /\ Otherwise
LEMMA EnterAcquisitionIs ==
    ASSUME EnterAcquisition
    PROVE  main.at = "acquisition" /\ OnlyRun /\ EventMoves("phase", run, Goto("notify"), Ends(1))
    BY DEF EnterAcquisition, EventMoves, Event, Succeeds, Fails, Written
LEMMA NewCheckpointIs ==
    ASSUME NewCheckpoint
    PROVE  /\ main.at = "notify" /\ OnlyRun
           /\ \/ Succeeds("checkpoint", [run EXCEPT !.checkpoint = session.sealed]) /\ Goto("notify")
              \/ Fails("checkpoint", [run EXCEPT !.result = "cancelled"]) /\ Goto("closing")
    BY DEF NewCheckpoint, Event, Succeeds, Fails, Written
LEMMA ReadErrorIs ==
    ASSUME ReadError
    PROVE  /\ main.at = "read_error" /\ OnlyRun
           /\ \/ Succeeds("read_error", [run EXCEPT !.retried = TRUE]) /\ Goto("reading")
              \/ \E result \in {"cancelled", "failed"} :
                    Succeeds("read_error", [run EXCEPT !.result = result]) /\ Goto("closing")
              \/ Fails("read_error", [run EXCEPT !.result = "cancelled"]) /\ Goto("closing")
    BY DEF ReadError, Event, Succeeds, Fails, Written
LEMMA CloseIs ==
    ASSUME Close
    PROVE  /\ main.at = "closing" /\ OnlyRun
           /\ \/ Succeeds("checkpoint", run) /\ (Ends(1) \/ Ends(130) \/ Goto("unchanged"))
              \/ Fails("checkpoint", run) /\ Ends(1)
    BY DEF Close, EndOf, Event, Succeeds, Fails, Written
LEMMA CheckUnchangedIs ==
    ASSUME CheckUnchanged
    PROVE  /\ main.at = "unchanged" /\ OnlyRun
           /\ \/ UNCHANGED <<session, run>> /\ Ends(1)
              \/ Succeeds("phase", run) /\ Goto("publication")
              \/ Fails("phase", run) /\ Ends(1)
    BY DEF CheckUnchanged, Event, Succeeds, Fails, Written
LEMMA ResumeWriterIs ==
    ASSUME ResumeWriter
    PROVE  /\ main.at = "resume" /\ OnlyRun
           /\ \/ UNCHANGED <<session, run>> /\ (Ends(1) \/ Goto("create"))
              \/ /\ session.journal # "none"
                 /\ Succeeds("phase", run) /\ (Ends(130) \/ Goto("acquisition"))
              \/ Fails("phase", run) /\ Ends(1)
    BY DEF ResumeWriter, Unstopped, Event, Succeeds, Fails, Written
LEMMA RecordPublishedIs ==
    ASSUME RecordPublished
    PROVE  /\ main.at = "published" /\ OnlyRun
           /\ \/ Succeeds("published", run) /\ Goto("verification")
              \/ Fails("published", run) /\ Ends(1)
    BY DEF RecordPublished, Event, Succeeds, Fails, Written
LEMMA VerifyImageIs ==
    ASSUME VerifyImage
    PROVE  /\ main.at = "verification" /\ OnlyRun
           /\ \/ Succeeds("phase", run) /\ (Ends(3) \/ Ends(130) \/ Ends(0))
              \/ Fails("phase", run) /\ Ends(1)
    BY DEF VerifyImage, Event, Succeeds, Fails, Written

LEMMA RunsOfThisRun ==
    ASSUME run \in Runs, session.sealed \in Nat
    PROVE  /\ OfThisRun(run) /\ OfThisRun([run EXCEPT !.checkpoint = session.sealed])
           /\ OfThisRun([run EXCEPT !.retried = TRUE])
           /\ \A result \in {"cancelled", "failed"} : OfThisRun([run EXCEPT !.result = result])
  <1>1. [run EXCEPT !.checkpoint = session.sealed] \in Runs
    <2>1. session.sealed \in Int
      OBVIOUS
    <2> QED
      BY <2>1 DEF Runs
  <1>2. [run EXCEPT !.retried = TRUE] \in Runs
    BY DEF Runs
  <1>3. ASSUME NEW result \in {"cancelled", "failed"} PROVE [run EXCEPT !.result = result] \in Runs
    BY DEF Runs
  <1>4. /\ OfThisRun(run) /\ OfThisRun([run EXCEPT !.checkpoint = session.sealed])
        /\ OfThisRun([run EXCEPT !.retried = TRUE])
    BY <1>1, <1>2 DEF OfThisRun, Runs
  <1>5. ASSUME NEW result \in {"cancelled", "failed"} PROVE OfThisRun([run EXCEPT !.result = result])
    BY <1>3 DEF OfThisRun, Runs
  <1> QED
    BY <1>4, <1>5

LEMMA RecordingStep ==
    ASSUME SessionTyped, SessionOK, main \in Report,
           \/ ResumeWriter \/ EnterAcquisition \/ NewCheckpoint \/ ReadError \/ Close
           \/ CheckUnchanged \/ RecordPublished \/ VerifyImage,
           ResumeWriter \/ CheckUnchanged => ~UNCHANGED <<session, run>>
    PROVE  SessionTyped' /\ SessionOK'
  <1>1. OnlyRun => UNCHANGED <<output, reads>>
    BY DEF OnlyRun, OnlySession
  <1>2. run \in Runs /\ session.sealed \in Nat
    BY SessionFields
  <1>3. \A r : OfThisRun(r) => r \in Runs /\ r.number = run.number
    BY DEF OfThisRun
  <1>4. main.at \in Acquiring => session.journal # "none"
    BY DEF SessionOK, PublishedOK
  <1>5. main.at \in {"published", "verification"} => Published
    BY DEF SessionOK, PublishedOK
  <1>6. main.at = "verification" => HasPublished(run.number)
    BY DEF SessionOK, PublishedOK
  <1> USE Moves DEF Middle, Events, RunLabels, SessionLabels, Labels, Acquiring
  <1>11. CASE ResumeWriter
    BY <1>1, <1>2, <1>3, <1>11, ResumeWriterIs, RunsOfThisRun, RecordsAndGoesOn, FailsToRecord
  <1>12. CASE EnterAcquisition
    BY <1>1, <1>2, <1>3, <1>4, <1>12, EnterAcquisitionIs, RunsOfThisRun, RecordsAndGoesOn, FailsToRecord DEF EventMoves
  <1>13. CASE NewCheckpoint
    BY <1>1, <1>2, <1>3, <1>4, <1>13, NewCheckpointIs, RunsOfThisRun, RecordsAndGoesOn, FailsToRecord
  <1>14. CASE ReadError
    BY <1>1, <1>2, <1>3, <1>4, <1>14, ReadErrorIs, RunsOfThisRun, RecordsAndGoesOn, FailsToRecord
  <1>15. CASE Close
    BY <1>1, <1>2, <1>3, <1>4, <1>15, CloseIs, RunsOfThisRun, RecordsAndGoesOn, FailsToRecord
  <1>16. CASE CheckUnchanged
    BY <1>1, <1>2, <1>3, <1>4, <1>16, CheckUnchangedIs, RunsOfThisRun, RecordsAndGoesOn, FailsToRecord
  <1>17. CASE RecordPublished
    BY <1>1, <1>2, <1>3, <1>5, <1>17, RecordPublishedIs, RunsOfThisRun, RecordsAndGoesOn, FailsToRecord
  <1>18. CASE VerifyImage
    BY <1>1, <1>2, <1>3, <1>5, <1>6, <1>18, VerifyImageIs, RunsOfThisRun, RecordsAndGoesOn, FailsToRecord
  <1> QED
    BY <1>11, <1>12, <1>13, <1>14, <1>15, <1>16, <1>17, <1>18

----------------------------------------------------------------------------
(* The first record, and the ends of a run                                 *)

LEMMA NothingRead ==
    /\ Ordered(<<>>) /\ Starts(<<>>) = {} /\ Reads(<<>>) = 0
  <1>1. <<>> \in Seq(Entries) /\ Len(<<>>) = 0 /\ DOMAIN <<>> = {}
    OBVIOUS
  <1>2. Ordered(<<>>) /\ Starts(<<>>) = {}
    BY <1>1 DEF Ordered, Starts
  <1>3. PICK g \in Seq(Nat) : g = Counts(<<>>) /\ Len(g) = 0 /\ Reads(<<>>) = TotalOf(g)
    BY <1>1, CountsTyped
  <1>4. TotalOf(g) = 0
    BY <1>3, TotalGrows
  <1> QED
    BY <1>2, <1>3, <1>4

LEMMA BindSessionStep ==
    ASSUME SessionTyped, SessionOK, main \in Report, BindSession
    PROVE  SessionTyped' /\ SessionOK'
  <1>1. PICK r \in Runs :
            /\ main.at = "bind" /\ OnlyRun /\ r.number = 0 /\ r.read_attempts = 0
            /\ r.sequence = run.sequence /\ r.failure = run.failure
            /\ \/ Succeeds("session", r) /\ Goto("started")
               \/ Fails("session", r) /\ Exit(1)
    <2>1. run \in Runs /\ [run EXCEPT !.audit = TRUE] \in Runs
      BY DEF SessionTyped, Runs
    <2>2. main.at = "bind" /\ run.number = 0 /\ run.read_attempts = 0
      BY DEF BindSession, SessionOK, WriterOK
    <2>3. /\ [run EXCEPT !.audit = TRUE].number = 0 /\ [run EXCEPT !.audit = TRUE].read_attempts = 0
          /\ [run EXCEPT !.audit = TRUE].sequence = run.sequence
          /\ [run EXCEPT !.audit = TRUE].failure = run.failure
      BY <2>1, <2>2 DEF Runs
    <2> QED
      BY <2>1, <2>2, <2>3 DEF BindSession, Event, Succeeds, Fails, Written
  <1>2. UNCHANGED <<output, reads>>
    BY <1>1 DEF OnlyRun, OnlySession
  <1>3. SessionTyped' /\ KeptFiles
    BY <1>1, <1>2, EventTyped DEF Events
  <1>4. session.folder /\ session.manifest /\ session.records = <<>> /\ reads = 0
    BY <1>1, NothingRead DEF SessionOK, WriterOK, FilesOK, HistoryOK, Recording, RunLabels, SessionLabels
  <1>5. /\ main'.at \in {"started", "exit"} /\ (main'.at = "exit" => main'.exit = 1)
        /\ run'.number = 0 /\ run'.read_attempts = 0
        /\ main'.at = "started" => run'.failure = FALSE
    <2>1. CASE Succeeds("session", r) /\ Goto("started")
      <3>1. run' = [r EXCEPT !.sequence = @ + 1] /\ r.failure = FALSE
        BY <1>1, <2>1 DEF Succeeds, Written, Runs
      <3>2. run'.number = 0 /\ run'.read_attempts = 0 /\ run'.failure = FALSE
        BY <1>1, <3>1 DEF Runs
      <3> QED
        BY <2>1, <3>2, Moves DEF Labels, SessionLabels
    <2>2. CASE Fails("session", r) /\ Exit(1)
      <3>1. run'.number = 0 /\ run'.read_attempts = 0
        BY <1>1, <2>2 DEF Fails, Runs
      <3> QED
        BY <2>2, <3>1, Moves
    <2> QED
      BY <1>1, <2>1, <2>2
  <1>6. /\ Ordered(session'.records) /\ Starts(session'.records) = {} /\ Reads(session'.records) = 0
        /\ \A i \in DOMAIN session'.records : session'.records[i].event = "session"
        /\ main'.at = "started" => session'.records # <<>> /\ run'.sequence = Len(session'.records)
    <2>1. CASE Written("session", r)
      <3>1. PICK e \in Entries : e = Record("session", r) /\ e.event = "session" /\ e.run = 0
        BY <1>1, EntryOf DEF Events
      <3>2. session'.records = <<e>>
        BY <1>4, <2>1, <3>1, WrittenIs DEF Events
      <3>3. run.sequence = 0
        BY <1>4, <2>1 DEF Written
      <3>4. main'.at = "started" => run'.sequence = 1
        <4>1. CASE Succeeds("session", r)
          <5>1. r.sequence = 0
            BY <1>1, <3>3
          <5> QED
            BY <4>1, <5>1 DEF Succeeds, Runs
        <4>2. CASE Exit(1)
          BY <4>2, Moves
        <4> QED
          BY <1>1, <4>1, <4>2
      <3>5. Len(<<e>>) = 1 /\ <<e>> # <<>> /\ DOMAIN <<e>> = {1} /\ <<e>>[1] = e
        OBVIOUS
      <3> QED
        BY <3>1, <3>2, <3>4, <3>5, OrderedFirst
    <2>2. CASE UNCHANGED session /\ ~Succeeds("session", r)
      <3>1. main'.at = "exit"
        BY <1>1, <2>2, Moves
      <3> QED
        BY <1>4, <2>2, <3>1, NothingRead
    <2> QED
      BY <1>1, <2>1, <2>2 DEF Succeeds, Fails
  <1>7. FilesOK'
    BY <1>3, <1>4 DEF FilesOK, KeptFiles
  <1>8. HistoryOK' 
    <2>1. ~Recording'
      BY <1>5 DEF Recording, RunLabels, SessionLabels
    <2> QED
      BY <1>2, <1>4, <1>6, <2>1 DEF HistoryOK
  <1>9. WriterOK'
    BY <1>5, <1>6 DEF WriterOK
  <1>10. PublishedOK'
    BY <1>5, <1>6 DEF PublishedOK, Over, Acquiring
  <1> QED
    BY <1>3, <1>7, <1>8, <1>9, <1>10 DEF SessionOK

\* A run that begins is open, and nothing of it is counted.
LEMMA StartRunStep ==
    ASSUME SessionTyped, SessionOK, main \in Report, StartRun
    PROVE  SessionTyped' /\ SessionOK'
  <1>1. PICK r \in Runs :
            /\ main.at = "started" /\ OnlyRun /\ r.number = run.sequence + 1 /\ r.read_attempts = 0
            /\ r.sequence = run.sequence /\ r.failure = run.failure
            /\ \/ Succeeds("run_start", r) /\ (Goto("create") \/ Goto("resume"))
               \/ Fails("run_start", r) /\ Ends(1)
    <2>1. main.at = "started" /\ run.read_attempts = 0 /\ run \in Runs
      BY DEF StartRun, SessionOK, WriterOK, SessionTyped
    <2>2. PICK s \in Nat : s = run.sequence + 1
      BY <2>1 DEF Runs
    <2>3. PICK r : r = [run EXCEPT !.number = run.sequence + 1]
      OBVIOUS
    <2>4. r = [run EXCEPT !.number = s]
      BY <2>2, <2>3
    <2>5. /\ r \in Runs /\ r.number = s /\ r.read_attempts = 0
          /\ r.sequence = run.sequence /\ r.failure = run.failure
      BY <2>1, <2>4 DEF Runs
    <2>6. /\ OnlyRun
          /\ \/ Succeeds("run_start", r) /\ (Goto("create") \/ Goto("resume"))
             \/ Fails("run_start", r) /\ Ends(1)
      BY <2>3 DEF StartRun, Event, Succeeds, Fails, Written
    <2> QED
      BY <2>1, <2>2, <2>5, <2>6
  <1>2. UNCHANGED <<output, reads>>
    BY <1>1 DEF OnlyRun, OnlySession
  <1>3. /\ SessionTyped' /\ KeptFiles
        /\ session.records # <<>> => session'.records # <<>>
    BY <1>1, <1>2, EventTyped DEF Events
  <1>4. PICK R \in Seq(Entries), N \in Nat :
            R = session.records /\ R # <<>> /\ N = Len(R) + 1 /\ r.number = N /\ run.sequence = Len(R)
    <2>1. session.records # <<>> /\ run.sequence = Len(session.records) /\ session.records \in Seq(Entries)
      BY <1>1, SessionFields DEF SessionOK, WriterOK
    <2> QED
      BY <1>1, <2>1
  <1>5. Ordered(R) /\ (~Recording => ((\A i \in Starts(R) : Closed(R, i)) => reads = Reads(R))) /\ ~Recording
    BY <1>1, <1>4 DEF SessionOK, HistoryOK, Recording, RunLabels
  <1>6. ~run.failure
    BY <1>1 DEF SessionOK, WriterOK
  \* What the record makes of the history.
  <1>7. ASSUME Written("run_start", r)
        PROVE  \E Q : /\ session'.records = Q /\ Len(Q) = N /\ Ordered(Q) /\ Starts(Q) = Starts(R) \cup {N}
                      /\ StartOf(Q, Len(Q)) = N /\ ~Closed(Q, N)
                      /\ AttemptsOf(Q, N) = 0 /\ Reads(Q) = Reads(R)
                      /\ \A i \in Starts(R) : i # N /\ (Closed(Q, i) <=> Closed(R, i))
                      /\ Grown("run_start")
    <2>1. PICK e \in Entries : e = Record("run_start", r) /\ e.event = "run_start" /\ e.run = N
      BY <1>1, <1>4, EntryOf DEF Events
    <2>2. PICK Q : Q = Append(R, e) /\ session'.records = Q
      BY <1>4, <1>7, <2>1, WrittenIs DEF Events
    <2>3. Len(Q) = N
      BY <1>4, <2>1, <2>2, Appended
    <2>4. /\ Ordered(Q) /\ Starts(Q) = Starts(R) \cup {N} /\ StartOf(Q, Len(Q)) = N
          /\ \A E : e.event \notin E => OfRun(Q, N, E) = {}
          /\ AttemptsOf(Q, N) = 0 /\ Reads(Q) = Reads(R)
      <3>1. e.run = Len(R) + 1
        BY <1>4, <2>1
      <3>2. /\ Ordered(Append(R, e)) /\ Starts(Append(R, e)) = Starts(R) \cup {e.run}
            /\ StartOf(Append(R, e), Len(Append(R, e))) = e.run
            /\ \A E : e.event \notin E => OfRun(Append(R, e), e.run, E) = {}
            /\ AttemptsOf(Append(R, e), e.run) = 0 /\ Reads(Append(R, e)) = Reads(R)
        BY <1>4, <1>5, <2>1, <3>1, OrderedBegins
      <3> QED
        BY <2>1, <2>2, <3>2
    <2>5. ~Closed(Q, N)
      BY <2>1, <2>4 DEF Closed
    <2>6. ASSUME NEW i \in Starts(R) PROVE i # N /\ (Closed(Q, i) <=> Closed(R, i))
      <3>1. i # N
        BY <1>4 DEF Starts
      <3> QED
        BY <2>1, <2>2, <3>1, AttemptsStay
    <2>7. Grown("run_start")
      BY <1>7, GrownWritten DEF Events
    <2> QED
      BY <2>2, <2>3, <2>4, <2>5, <2>6, <2>7
  <1>8. HistoryOK' /\ Grown("run_start")
    <2>1. CASE Succeeds("run_start", r)
      <3>1. PICK Q : /\ session'.records = Q /\ Len(Q) = N /\ Ordered(Q) /\ Starts(Q) = Starts(R) \cup {N}
                     /\ StartOf(Q, Len(Q)) = N /\ ~Closed(Q, N)
                     /\ AttemptsOf(Q, N) = 0 /\ Reads(Q) = Reads(R)
                     /\ \A i \in Starts(R) : i # N /\ (Closed(Q, i) <=> Closed(R, i))
                     /\ Grown("run_start")
        BY <1>7, <2>1 DEF Succeeds
      <3>2. run' = [r EXCEPT !.sequence = @ + 1]
        BY <2>1 DEF Succeeds
      <3>3. run'.sequence = N /\ run'.number = N /\ run'.read_attempts = 0
        BY <1>1, <1>4, <3>2 DEF Runs
      <3>4. (\A i \in Starts(Q) \ {N} : Closed(Q, i)) => reads = Reads(Q)
        BY <1>5, <3>1
      <3>5. reads \in Nat
        BY SessionFields
      <3>6. (\A i \in Starts(Q) \ {N} : Closed(Q, i)) => reads + AttemptsOf(Q, N) = Reads(Q) + run'.read_attempts
        BY <3>1, <3>3, <3>4, <3>5
      <3>7. \E i \in Starts(Q) : ~Closed(Q, i)
        BY <3>1
      <3> QED
        BY <1>2, <3>1, <3>3, <3>6, <3>7 DEF HistoryOK
    <2>2. CASE Fails("run_start", r)
      <3>1. run'.failure = TRUE
        BY <2>2 DEF Fails, Runs
      <3>2. CASE Written("run_start", r)
        <4>1. PICK Q : /\ session'.records = Q /\ Ordered(Q) /\ Starts(Q) = Starts(R) \cup {N} /\ ~Closed(Q, N)
                       /\ Grown("run_start")
          BY <1>7, <3>2
        <4> QED
          BY <3>1, <4>1 DEF HistoryOK, Recording
      <3>3. CASE UNCHANGED session
        BY <1>2, <1>4, <1>5, <3>1, <3>3, GrownUnchanged DEF HistoryOK, Recording
      <3> QED
        BY <2>2, <3>2, <3>3 DEF Fails
    <2> QED
      BY <1>1, <2>1, <2>2
  <1>9. /\ main'.at \in {"create", "resume", "end"} /\ (main'.at = "end" => main'.exit = 1)
        /\ main'.at # "end" => ~run'.failure
    <2>1. CASE Succeeds("run_start", r) /\ (Goto("create") \/ Goto("resume"))
      <3>1. run' = [r EXCEPT !.sequence = @ + 1] /\ r.failure = run.failure
        BY <1>1, <2>1 DEF Succeeds
      <3>2. ~run'.failure
        BY <1>6, <3>1 DEF Runs
      <3> QED
        BY <2>1, <3>2, Moves DEF Labels, SessionLabels
    <2>2. CASE Fails("run_start", r) /\ Ends(1)
      BY <2>2, Moves
    <2> QED
      BY <1>1, <2>1, <2>2
  <1>10. session.folder /\ session.manifest
    BY <1>1, <1>4 DEF SessionOK, FilesOK, SessionLabels
  <1>11. FilesOK'
    BY <1>3, <1>10 DEF FilesOK, KeptFiles
  <1>12. WriterOK'
    BY <1>9 DEF WriterOK
  <1>13. PublishedOK'
    BY <1>2, <1>3, <1>8, <1>9 DEF SessionOK, PublishedOK, Over, Acquiring, Grown, Published, KeptFiles
  <1> QED
    BY <1>3, <1>8, <1>11, <1>12, <1>13 DEF SessionOK

\* A run that is closed counts what its command has attempted.
LEMMA EndRunStep ==
    ASSUME SessionTyped, SessionOK, main \in Report, EndRun
    PROVE  SessionTyped' /\ SessionOK'
  <1>1. /\ main.at = "end" /\ OnlyRun
        /\ \/ Succeeds("run_end", run) /\ Goto("save")
           \/ Fails("run_end", run) /\ Exit(1)
    BY DEF EndRun, Event, Succeeds, Fails, Written
  <1>2. UNCHANGED <<output, reads>> /\ run \in Runs
    BY <1>1 DEF OnlyRun, OnlySession, SessionTyped
  <1>3. /\ SessionTyped' /\ KeptFiles
        /\ session.records # <<>> => session'.records # <<>>
    BY <1>1, <1>2, EventTyped DEF Events
  <1>4. PICK R \in Seq(Entries), n \in Nat : R = session.records /\ n = run.number
    BY SessionFields
  <1>5. \/ main'.at = "save" /\ main'.exit = main.exit
        \/ main'.at = "exit" /\ main'.exit = 1
    BY <1>1, Moves DEF Labels, SessionLabels
  <1>6. run'.number = n
    BY <1>1, <1>2, <1>4 DEF Succeeds, Fails, Runs
  <1>7. ASSUME Written("run_end", run)
        PROVE  \E Q : /\ session'.records = Q /\ Ordered(Q) /\ StartOf(Q, Len(Q)) = n /\ session.folder
                      /\ (\A i \in Starts(Q) : Closed(Q, i)) => reads = Reads(Q)
                      /\ Grown("run_end")
                      /\ CodesOf(n)' = {main.exit}
    <2>1. PICK e \in Entries : /\ e = Record("run_end", run) /\ e.event = "run_end" /\ e.run = n
                               /\ e.read_attempts = run.read_attempts /\ e.exit_code = main.exit
      BY <1>2, <1>4, EntryOf DEF Events
    <2>2. PICK Q : Q = Append(R, e) /\ session'.records = Q
      BY <1>2, <1>4, <1>7, <2>1, WrittenIs DEF Events
    <2>3. Recording
      BY <1>1, <1>7 DEF Written, Recording, RunLabels, SessionLabels
    <2>4. /\ Ordered(R) /\ n \in Starts(R) /\ StartOf(R, Len(R)) = n /\ ~Closed(R, n)
          /\ (\A i \in Starts(R) \ {n} : Closed(R, i))
                => reads + AttemptsOf(R, n) = Reads(R) + run.read_attempts
      BY <1>4, <2>3 DEF HistoryOK, SessionOK
    <2>5. Ordered(Q) /\ Starts(Q) = Starts(R) /\ StartOf(Q, Len(Q)) = n
      BY <1>4, <2>1, <2>2, <2>4, OrderedGrows
    <2>6. AttemptsOf(Q, n) = run.read_attempts
      BY <1>4, <2>1, <2>2, <2>4, AttemptsGrow
    <2>7. \A i \in Starts(R) \ {n} : Closed(Q, i) <=> Closed(R, i)
      BY <1>4, <2>1, <2>2, AttemptsStay
    <2>8. Reads(Q) + AttemptsOf(R, n) = Reads(R) + AttemptsOf(Q, n)
      BY <1>4, <2>1, <2>2, <2>4, ReadsGrow
    <2>9. PICK a \in Nat, c \in Nat, d \in Nat :
              a = AttemptsOf(R, n) /\ c = Reads(R) /\ d = Reads(Q)
      BY <1>4, <2>1, <2>2, Appended, AttemptsIs, CountsTyped
    <2>10. (\A i \in Starts(Q) : Closed(Q, i)) => reads = Reads(Q)
      <3> SUFFICES ASSUME \A i \in Starts(Q) : Closed(Q, i) PROVE reads = d
        BY <2>9
      <3>1. reads + a = c + run.read_attempts
        BY <2>4, <2>5, <2>7, <2>9
      <3>2. d + a = c + run.read_attempts
        BY <2>6, <2>8, <2>9
      <3>3. reads \in Nat
        BY SessionFields
      <3>4. reads + a = d + a
        BY <3>1, <3>2
      <3>5. ASSUME NEW x \in Nat, x + a = d + a PROVE x = d
        BY <3>5
      <3> QED
        BY <3>3, <3>4, <3>5
    <2>11. OfRun(Q, n, {"run_end"}) = {Len(R) + 1}
      BY <1>4, <2>1, <2>2, <2>4, AppendedRun DEF Closed
    <2>12. Q[Len(R) + 1] = e
      BY <1>4, <2>1, <2>2, AppendRecord
    <2>13. {Q[i].exit_code : i \in OfRun(Q, n, {"run_end"})} = {main.exit}
      BY <2>1, <2>11, <2>12
    <2>14. CodesOf(n)' = {main.exit}
      BY <2>2, <2>13 DEF CodesOf
    <2>15. Grown("run_end")
      BY <1>2, <1>7, GrownWritten DEF Events
    <2>16. session.folder
      BY <1>4, <2>4, StartsSome DEF SessionOK, FilesOK
    <2> QED
      BY <2>2, <2>5, <2>10, <2>14, <2>15, <2>16
  <1>8. ~Recording'
    BY <1>5 DEF Recording, RunLabels, SessionLabels
  <1>9. session.manifest
    BY <1>1 DEF SessionOK, FilesOK, SessionLabels
  <1>10. CASE Written("run_end", run)
    <2>1. PICK Q : /\ session'.records = Q /\ Ordered(Q) /\ StartOf(Q, Len(Q)) = n /\ session.folder
                   /\ (\A i \in Starts(Q) : Closed(Q, i)) => reads = Reads(Q)
                   /\ Grown("run_end")
                   /\ CodesOf(n)' = {main.exit}
      BY <1>7, <1>10
    <2>2. HistoryOK'
      BY <1>2, <1>8, <2>1 DEF HistoryOK
    <2>3. FilesOK'
      BY <1>3, <1>9, <2>1 DEF FilesOK, KeptFiles
    <2>4. WriterOK'
      <3>1. main'.at = "save" => ~run'.failure
        BY <1>1, <1>2, Moves DEF Succeeds, Written, Runs
      <3> QED
        BY <1>5, <3>1 DEF WriterOK
    <2>5. PublishedOK'
      <3>1. HasPublished(run.number)' <=> HasPublished(n)'
        BY <1>6
      <3>2. CodesOf(run.number)' = CodesOf(n)'
        BY <1>6
      <3>3. main.exit = 0 => Published /\ HasPublished(n)
        BY <1>1, <1>4 DEF SessionOK, PublishedOK
      <3>4. Published => Published'
        BY <1>2, <1>3 DEF Published, KeptFiles
      <3>5. (\E i \in DOMAIN session'.records : session'.records[i].event = "published") => Published
        BY <2>1 DEF Grown, SessionOK, PublishedOK
      <3>6. HasPublished(n) => HasPublished(n)'
        BY <2>1 DEF Grown
      <3> QED
        BY <1>5, <1>6, <2>1, <3>1, <3>2, <3>3, <3>4, <3>5, <3>6 DEF PublishedOK, Over, Acquiring
    <2> QED
      BY <1>3, <2>2, <2>3, <2>4, <2>5 DEF SessionOK
  <1>11. CASE Fails("run_end", run) /\ Exit(1) /\ UNCHANGED session
    <2>0. main'.at = "exit" /\ main'.exit = 1
      BY <1>11, Moves
    <2>1. HistoryOK'
      BY <1>2, <1>8, <1>11 DEF SessionOK, HistoryOK
    <2>2. FilesOK' /\ WriterOK' /\ PublishedOK'
      BY <1>2, <1>9, <1>11, <2>0
         DEF SessionOK, FilesOK, WriterOK, PublishedOK, Over, Acquiring, Published
    <2> QED
      BY <1>3, <2>1, <2>2 DEF SessionOK
  <1> QED
    BY <1>1, <1>10, <1>11 DEF Succeeds, Fails

----------------------------------------------------------------------------
(* Steps that do not record                                                *)

LEMMA HistoryStays ==
    ASSUME HistoryOK, session'.records = session.records, reads' = reads,
           Recording' => /\ Recording /\ run'.sequence = run.sequence /\ run'.number = run.number
                         /\ run'.read_attempts = run.read_attempts
    PROVE  HistoryOK'
  <1>1. CASE Recording'
    BY <1>1 DEF HistoryOK
  <1>2. CASE ~Recording'
    <2>1. CASE Recording
      BY <1>2, <2>1 DEF HistoryOK
    <2>2. CASE ~Recording
      BY <1>2, <2>2 DEF HistoryOK
    <2> QED
      BY <2>1, <2>2
  <1> QED
    BY <1>1, <1>2

SessionFiles == [manifest : BOOLEAN, folder : BOOLEAN, records : Seq(Entries), pending : Nat,
                 saved : Reports, journal : {"none", "open", "publishing"}, sealed : Nat]

\* Kept by most of them.
SameRun == UNCHANGED <<run, reads>> /\ session'.records = session.records
LEMMA SameRunKeeps ==
    ASSUME SessionTyped, SessionOK, SameRun, session' \in SessionFiles,
           Recording' => Recording
    PROVE  SessionTyped' /\ HistoryOK' /\ Grown("phase")
           /\ (HasPublished(run.number)' <=> HasPublished(run.number))
  <1>1. SessionTyped'
    BY DEF SessionTyped, SameRun, SessionFiles
  <1>2. HistoryOK'
    BY HistoryStays DEF SameRun, SessionOK
  <1>3. Grown("phase")
    BY GrownUnchanged DEF SameRun
  <1> QED
    BY <1>1, <1>2, <1>3 DEF HasPublished, SameRun

\* A command with a writer fails, before it has begun to publish or while it does.
LEMMA OnlyEnds ==
    ASSUME SessionTyped, SessionOK, main \in Report, main.at \in RunLabels,
           UNCHANGED <<session, run, reads>>, \E c \in {1, 130} : Ends(c),
           UNCHANGED output \/ (output' = "ours" /\ session.manifest /\ session.journal # "none")
    PROVE  SessionTyped' /\ SessionOK'
  <1>1. main'.at = "end" /\ main'.exit # 0
    BY Moves
  <1>2. SameRun /\ session' \in SessionFiles
    BY DEF SameRun, SessionTyped, SessionFiles
  <1>3. (Recording' <=> Recording)
    BY <1>1 DEF Recording, RunLabels, SessionLabels
  <1>4. SessionTyped' /\ HistoryOK'
    BY <1>2, <1>3, SameRunKeeps
  <1>5. FilesOK' /\ WriterOK'
    BY <1>1 DEF SessionOK, FilesOK, WriterOK, RunLabels, SessionLabels
  <1>6. PublishedOK'
    BY <1>1 DEF SessionOK, PublishedOK, Over, Acquiring, Published
  <1> QED
    BY <1>4, <1>5, <1>6 DEF SessionOK

LEMMA OpenHistoryStep ==
    ASSUME SessionTyped, SessionOK, main \in Report, OpenHistory
    PROVE  SessionTyped' /\ SessionOK'
  <1>1. main.at = "history" /\ UNCHANGED <<output, reads>> /\ ~Recording
    BY DEF OpenHistory, OnlyRun, OnlySession, Recording, RunLabels
  <1>2. session.manifest /\ run.number = 0 /\ run.read_attempts = 0 /\ ~run.failure
    BY <1>1 DEF SessionOK, FilesOK, WriterOK, SessionLabels
  <1>3. session \in SessionFiles /\ run \in Runs /\ session.records \in Seq(Entries)
    BY DEF SessionTyped, SessionFiles
  <1>4. CASE Exit(1) /\ UNCHANGED <<session, run>>
    <2>1. main'.at = "exit" /\ main'.exit = 1
      BY <1>4, Moves
    <2>2. SessionTyped' /\ HistoryOK'
      BY <1>1, <1>3, <1>4, <2>1, SameRunKeeps DEF SameRun, Recording, RunLabels, SessionLabels
    <2>3. FilesOK' /\ WriterOK'
      BY <1>1, <1>2, <1>4, <2>1 DEF SessionOK, FilesOK, WriterOK
    <2>4. PublishedOK'
      BY <1>1, <1>4, <2>1 DEF SessionOK, PublishedOK, Over, Acquiring, Published
    <2> QED
      BY <2>2, <2>3, <2>4 DEF SessionOK
  <1>5. CASE /\ session.folder /\ UNCHANGED session
             /\ run' = [run EXCEPT !.sequence = Len(session.records), !.audit = session.records # <<>>]
             /\ Goto(IF session.records = <<>> THEN "bind" ELSE "started")
    <2>1. main'.at = IF session.records = <<>> THEN "bind" ELSE "started"
      BY <1>5, Moves DEF Labels, SessionLabels
    <2>2. PICK s \in Nat : s = Len(session.records)
      BY <1>3
    <2>a. PICK b : b = (session.records # <<>>)
      OBVIOUS
    <2>b. b \in BOOLEAN
      BY <2>a
    <2>3. run' = [run EXCEPT !.sequence = s, !.audit = b]
      BY <1>5, <2>2, <2>a
    <2>4. run' \in Runs /\ run'.number = 0 /\ run'.read_attempts = 0 /\ ~run'.failure /\ run'.sequence = s
      BY <1>2, <1>3, <2>2, <2>b, <2>3 DEF Runs
    <2>5. SessionTyped'
      BY <1>1, <1>5, <2>4 DEF SessionTyped
    <2>6. ~Recording'
      BY <2>1 DEF Recording, RunLabels
    <2>7. HistoryOK'
      BY <1>1, <1>5, <2>6, HistoryStays DEF SessionOK
    <2>8. FilesOK' /\ WriterOK'
      BY <1>1, <1>2, <1>5, <2>1, <2>2, <2>4 DEF SessionOK, FilesOK, WriterOK
    <2>9. PublishedOK'
      BY <1>1, <1>5, <2>1 DEF SessionOK, PublishedOK, Over, Acquiring, Published
    <2> QED
      BY <2>5, <2>7, <2>8, <2>9 DEF SessionOK
  <1>6. CASE /\ ~session.folder /\ UNCHANGED run
             /\ session' = [session EXCEPT !.folder = TRUE] /\ (Goto("bind") \/ Exit(1))
    <2>1. main'.at = "bind" \/ (main'.at = "exit" /\ main'.exit = 1)
      BY <1>6, Moves DEF Labels, SessionLabels
    <2>2. /\ session' \in SessionFiles /\ session'.records = session.records /\ session'.folder = TRUE
          /\ session'.manifest = session.manifest /\ session'.journal = session.journal
      BY <1>3, <1>6 DEF SessionFiles
    <2>3. ~Recording'
      BY <2>1 DEF Recording, RunLabels, SessionLabels
    <2>4. SessionTyped' /\ HistoryOK'
      BY <1>1, <1>6, <2>2, <2>3, SameRunKeeps DEF SameRun
    <2>5. session.records = <<>>
      BY <1>6 DEF SessionOK, FilesOK
    <2>6. FilesOK' /\ WriterOK'
      BY <1>1, <1>2, <1>6, <2>1, <2>2, <2>5 DEF SessionOK, FilesOK, WriterOK
    <2>7. PublishedOK'
      BY <1>1, <2>1, <2>2 DEF SessionOK, PublishedOK, Over, Acquiring, Published
    <2> QED
      BY <2>4, <2>6, <2>7 DEF SessionOK
  <1> QED
    BY <1>4, <1>5, <1>6 DEF OpenHistory

LEMMA CreateWriterStep ==
    ASSUME SessionTyped, SessionOK, main \in Report, CreateWriter
    PROVE  SessionTyped' /\ SessionOK'
  <1>1. main.at = "create" /\ UNCHANGED <<output, reads, run>>
    BY DEF CreateWriter, OnlyRun, OnlySession
  <1>2. CASE Ends(1) /\ UNCHANGED session
    BY <1>1, <1>2, OnlyEnds DEF RunLabels, SessionLabels
  <1>3. CASE /\ output = "absent" /\ session' = [session EXCEPT !.journal = "open", !.sealed = 0]
             /\ (Goto("acquisition") \/ Ends(1))
    <2>1. main'.at = "acquisition" \/ (main'.at = "end" /\ main'.exit = 1)
      BY <1>3, Moves DEF Labels, SessionLabels
    <2>2. /\ session' \in SessionFiles /\ session'.records = session.records /\ session'.journal = "open"
          /\ session'.manifest = session.manifest /\ session'.folder = session.folder
      BY <1>3 DEF SessionTyped, SessionFiles
    <2>3. Recording' => Recording
      BY <1>1 DEF Recording, RunLabels, SessionLabels
    <2>4. SessionTyped' /\ HistoryOK'
      BY <1>1, <2>2, <2>3, SameRunKeeps DEF SameRun
    <2>5. FilesOK' /\ WriterOK'
      BY <1>1, <2>1, <2>2 DEF SessionOK, FilesOK, WriterOK, SessionLabels
    <2>6. PublishedOK'
      BY <1>1, <1>3, <2>1, <2>2 DEF SessionOK, PublishedOK, Over, Acquiring, Published
    <2> QED
      BY <2>4, <2>5, <2>6 DEF SessionOK
  <1> QED
    BY <1>1, <1>2, <1>3 DEF CreateWriter

LEMMA NotifiedStep ==
    ASSUME SessionTyped, SessionOK, main \in Report, Notified
    PROVE  SessionTyped' /\ SessionOK'
  <1>1. main.at = "notify" /\ UNCHANGED <<output, reads, session>>
    BY DEF Notified, OnlyRun, OnlySession
  <1>2. main'.at \in {"closing", "reading"}
    BY Moves DEF Notified, Break, Proceed, Labels, SessionLabels
  <1>3. run' = run \/ run' = [run EXCEPT !.result = "cancelled"]
    BY DEF Notified, Break
  <1>4. /\ run' \in Runs /\ run'.number = run.number /\ run'.sequence = run.sequence
        /\ run'.read_attempts = run.read_attempts /\ run'.failure = run.failure
    BY <1>3 DEF SessionTyped, Runs
  <1>5. SessionTyped'
    BY <1>1, <1>4 DEF SessionTyped
  <1>6. HistoryOK'
    BY <1>1, <1>2, <1>4, HistoryStays DEF SessionOK, Recording, RunLabels, SessionLabels
  <1>7. FilesOK' /\ WriterOK'
    BY <1>1, <1>2, <1>4 DEF SessionOK, FilesOK, WriterOK, SessionLabels
  <1>8. PublishedOK'
    BY <1>1, <1>2 DEF SessionOK, PublishedOK, Over, Acquiring, Published
  <1> QED
    BY <1>5, <1>6, <1>7, <1>8 DEF SessionOK

\* An attempt is counted by the run until it records.
LEMMA ReadSourceStep ==
    ASSUME SessionTyped, SessionOK, main \in Report, ReadSource
    PROVE  SessionTyped' /\ SessionOK'
  <1>1. /\ main.at = "reading" /\ UNCHANGED <<output, session>> /\ reads' = reads + 1
        /\ run' = [run EXCEPT !.read_attempts = @ + 1]
    BY DEF ReadSource
  <1>2. main'.at \in {"taken", "read_error"}
    BY Moves DEF ReadSource, Labels, SessionLabels
  <1>3. PICK x \in Nat, y \in Nat : x = reads /\ y = run.read_attempts
    BY SessionFields
  <1>4. run' = [run EXCEPT !.read_attempts = y + 1] /\ y + 1 \in Nat
    BY <1>1, <1>3
  <1>5. /\ run' \in Runs /\ run'.number = run.number /\ run'.sequence = run.sequence
        /\ run'.read_attempts = y + 1 /\ run'.failure = run.failure
    BY <1>4 DEF SessionTyped, Runs
  <1>6. SessionTyped'
    BY <1>1, <1>3, <1>5 DEF SessionTyped
  <1>7. Recording /\ Recording'
    BY <1>1, <1>2, <1>5 DEF Recording, SessionOK, WriterOK, RunLabels, SessionLabels
  <1>8. PICK a \in Nat, c \in Nat : a = AttemptsOf(session.records, run.number) /\ c = Reads(session.records)
    BY SessionFields, AttemptsIs, CountsTyped
  <1>9. ASSUME x + a = c + y PROVE reads' + a = c + run'.read_attempts
    BY <1>1, <1>3, <1>5, <1>8, <1>9
  <1>10. HistoryOK'
    <2>1. (\A i \in Starts(session.records) \ {run.number} : Closed(session.records, i))
             => x + a = c + y
      BY <1>3, <1>7, <1>8 DEF SessionOK, HistoryOK
    <2>2. (\A i \in Starts(session.records) \ {run.number} : Closed(session.records, i))
             => reads' + AttemptsOf(session.records, run.number) = Reads(session.records) + run'.read_attempts
      BY <1>8, <1>9, <2>1
    <2> QED
      BY <1>1, <1>5, <1>7, <2>2 DEF SessionOK, HistoryOK
  <1>11. FilesOK' /\ WriterOK'
    BY <1>1, <1>2, <1>5 DEF SessionOK, FilesOK, WriterOK, SessionLabels
  <1>12. PublishedOK'
    BY <1>1, <1>2 DEF SessionOK, PublishedOK, Over, Acquiring, Published
  <1> QED
    BY <1>6, <1>10, <1>11, <1>12 DEF SessionOK

LEMMA SealStep ==
    ASSUME SessionTyped, SessionOK, main \in Report, Seal
    PROVE  SessionTyped' /\ SessionOK'
  <1>1. main.at = "taken" /\ UNCHANGED <<output, reads>>
    BY DEF Seal, OnlyRun, OnlySession
  <1>2. main'.at \in {"closing", "notify"}
    BY Moves DEF Seal, Break, Labels, SessionLabels
  <1>3. \E result \in {"cancelled", "failed"} : run' = run \/ run' = [run EXCEPT !.result = result]
    BY DEF Seal, Break
  <1>4. /\ run' \in Runs /\ run'.number = run.number /\ run'.sequence = run.sequence
        /\ run'.read_attempts = run.read_attempts /\ run'.failure = run.failure
    BY <1>3 DEF SessionTyped, Runs
  <1>5. session' = session \/ session' = [session EXCEPT !.sealed = @ + 1]
    BY DEF Seal
  <1>6. PICK s \in Nat : s = session.sealed + 1
    BY SessionFields
  <1>7. session' = session \/ session' = [session EXCEPT !.sealed = s]
    BY <1>5, <1>6
  <1>8. /\ session' \in SessionFiles /\ session'.records = session.records
        /\ session'.manifest = session.manifest /\ session'.folder = session.folder
        /\ session'.journal = session.journal
    BY <1>7 DEF SessionTyped, SessionFiles
  <1>9. SessionTyped'
    BY <1>1, <1>4, <1>8 DEF SessionTyped, SessionFiles
  <1>10. HistoryOK'
    BY <1>1, <1>2, <1>4, <1>8, HistoryStays DEF SessionOK, Recording, RunLabels, SessionLabels
  <1>11. FilesOK' /\ WriterOK'
    BY <1>1, <1>2, <1>4, <1>8 DEF SessionOK, FilesOK, WriterOK, SessionLabels
  <1>12. PublishedOK'
    BY <1>1, <1>2, <1>8 DEF SessionOK, PublishedOK, Over, Acquiring, Published
  <1> QED
    BY <1>9, <1>10, <1>11, <1>12 DEF SessionOK

\* While there is a journal nothing was recorded as published.
LEMMA MarkPublishingStep ==
    ASSUME SessionTyped, SessionOK, main \in Report, MarkPublishing
    PROVE  SessionTyped' /\ SessionOK'
  <1>1. main.at = "publication" /\ UNCHANGED <<output, reads, run>>
    BY DEF MarkPublishing, OnlyRun, OnlySession
  <1>2. CASE (Ends(1) \/ Ends(130)) /\ UNCHANGED session
    BY <1>1, <1>2, OnlyEnds DEF RunLabels, SessionLabels
  <1>3. CASE session' = [session EXCEPT !.journal = "publishing"] /\ (Goto("link") \/ Ends(1))
    <2>1. main'.at = "link" \/ (main'.at = "end" /\ main'.exit = 1)
      BY <1>3, Moves DEF Labels, SessionLabels
    <2>2. /\ session' \in SessionFiles /\ session'.records = session.records /\ session'.journal = "publishing"
          /\ session'.manifest = session.manifest /\ session'.folder = session.folder
      BY <1>3 DEF SessionTyped, SessionFiles
    <2>3. Recording' => Recording
      BY <1>1 DEF Recording, RunLabels, SessionLabels
    <2>4. SessionTyped' /\ HistoryOK'
      BY <1>1, <2>2, <2>3, SameRunKeeps DEF SameRun
    <2>5. FilesOK' /\ WriterOK'
      BY <1>1, <2>1, <2>2 DEF SessionOK, FilesOK, WriterOK, SessionLabels
    <2>6. PublishedOK'
      BY <1>1, <2>1, <2>2 DEF SessionOK, PublishedOK, Over, Acquiring, Published
    <2> QED
      BY <2>4, <2>5, <2>6 DEF SessionOK
  <1> QED
    BY <1>1, <1>2, <1>3 DEF MarkPublishing

LEMMA LinkSegmentsStep ==
    ASSUME SessionTyped, SessionOK, main \in Report, LinkSegments
    PROVE  SessionTyped' /\ SessionOK'
  <1>1. /\ main.at = "link" /\ UNCHANGED <<reads, run, session>>
        /\ session.manifest /\ session.journal # "none"
    BY DEF LinkSegments, OnlySession, SessionOK, FilesOK, PublishedOK, Acquiring, SessionLabels
  <1>2. CASE (Ends(1) \/ Ends(130)) /\ (UNCHANGED output \/ output' = "ours")
    BY <1>1, <1>2, OnlyEnds DEF RunLabels, SessionLabels
  <1>3. CASE output' = "ours" /\ Goto("retire")
    <2>1. main'.at = "retire"
      BY <1>3, Moves DEF Labels, SessionLabels
    <2>2. SameRun /\ session' \in SessionFiles
      BY <1>1 DEF SameRun, SessionTyped, SessionFiles
    <2>3. Recording' => Recording
      BY <1>1 DEF Recording, RunLabels, SessionLabels
    <2>4. SessionTyped' /\ HistoryOK'
      BY <2>2, <2>3, SameRunKeeps
    <2>5. FilesOK' /\ WriterOK'
      BY <1>1, <2>1 DEF SessionOK, FilesOK, WriterOK, SessionLabels
    <2>6. PublishedOK'
      BY <1>1, <1>3, <2>1 DEF SessionOK, PublishedOK, Over, Acquiring, Published
    <2> QED
      BY <2>4, <2>5, <2>6 DEF SessionOK
  <1> QED
    BY <1>1, <1>2, <1>3 DEF LinkSegments, Unstopped

LEMMA RetireJournalStep ==
    ASSUME SessionTyped, SessionOK, main \in Report, Told, RetireJournal
    PROVE  SessionTyped' /\ SessionOK'
  <1>1. main.at = "retire" /\ UNCHANGED <<output, reads, run>> /\ output = "ours"
    BY DEF RetireJournal, OnlyRun, OnlySession, Told
  <1>2. CASE Ends(1) /\ UNCHANGED session
    BY <1>1, <1>2, OnlyEnds DEF RunLabels, SessionLabels
  <1>3. CASE /\ session' = [session EXCEPT !.journal = "none"]
             /\ Ends(1) \/ main' = [main EXCEPT !.at = "published", !.published = "yes"]
    <2>1. main'.at = "published" \/ (main'.at = "end" /\ main'.exit = 1)
      <3>1. CASE Ends(1)
        BY <3>1, Moves
      <3>2. CASE main' = [main EXCEPT !.at = "published", !.published = "yes"]
        BY <3>2 DEF Report
      <3> QED
        BY <1>3, <3>1, <3>2
    <2>2. /\ session' \in SessionFiles /\ session'.records = session.records /\ session'.journal = "none"
          /\ session'.manifest = session.manifest /\ session'.folder = session.folder
      BY <1>3 DEF SessionTyped, SessionFiles
    <2>3. Recording' => Recording
      BY <1>1 DEF Recording, RunLabels, SessionLabels
    <2>4. SessionTyped' /\ HistoryOK'
      BY <1>1, <2>2, <2>3, SameRunKeeps DEF SameRun
    <2>5. FilesOK' /\ WriterOK'
      BY <1>1, <2>1, <2>2 DEF SessionOK, FilesOK, WriterOK, SessionLabels
    <2>6. PublishedOK'
      BY <1>1, <2>1, <2>2 DEF SessionOK, PublishedOK, Over, Acquiring, Published
    <2> QED
      BY <2>4, <2>5, <2>6 DEF SessionOK
  <1> QED
    BY <1>1, <1>2, <1>3 DEF RetireJournal

----------------------------------------------------------------------------
(* Reports, and the commands of a session                                  *)

LEMMA SummaryIs ==
    ASSUME SessionTyped, main \in Report
    PROVE  /\ Summary(session) \in Reports
           /\ \A d : d.records = session.records /\ d.pending = session.pending
                 => Summary(d) = Summary(session)
  <1>1. session.records \in Seq(Entries)
    BY SessionFields
  <1>2. Reads(session.records) \in Nat
    BY <1>1, CountsTyped
  <1>3. CountersComplete(session) \in BOOLEAN
    BY DEF CountersComplete
  <1>4. ASSUME NEW n PROVE CodesOf(n) \subseteq Codes
    <2>1. \A i \in DOMAIN session.records : session.records[i] \in Entries
      BY <1>1
    <2>2. OfRun(session.records, n, {"run_end"}) \subseteq DOMAIN session.records
      BY DEF OfRun
    <2> QED
      BY <2>1, <2>2 DEF CodesOf, Codes, Entries
  <1>5. Summary(session) \in Reports
    BY <1>2, <1>3, <1>4 DEF Summary, Reports, CodesOf
  <1>6. ASSUME NEW d, d.records = session.records, d.pending = session.pending
        PROVE  Summary(d) = Summary(session)
    BY <1>6 DEF Summary, CountersComplete
  <1> QED
    BY <1>5, <1>6

LEMMA SaveReportStep ==
    ASSUME SessionTyped, SessionOK, main \in Report, SaveReport
    PROVE  SessionTyped' /\ SessionOK'
  <1>1. main.at = "save" /\ UNCHANGED <<output, reads, run>>
    BY DEF SaveReport, OnlyRun, OnlySession
  <1>2. main'.at = "exit" /\ main'.exit \in {1, main.exit}
    BY Moves DEF SaveReport
  <1>3. session' = session \/ session' = [session EXCEPT !.saved = Summary(session)]
    BY DEF SaveReport
  <1>4. PICK s \in Reports : s = Summary(session)
    BY SummaryIs
  <1>5. session' = session \/ session' = [session EXCEPT !.saved = s]
    BY <1>3, <1>4
  <1>6. /\ session' \in SessionFiles /\ session'.records = session.records
        /\ session'.manifest = session.manifest /\ session'.folder = session.folder
        /\ session'.journal = session.journal /\ session'.pending = session.pending
    BY <1>5 DEF SessionTyped, SessionFiles
  <1>7. SessionTyped' /\ HistoryOK'
    BY <1>1, <1>2, <1>6, SameRunKeeps DEF SameRun, Recording, RunLabels, SessionLabels
  <1>8. FilesOK' /\ WriterOK'
    BY <1>1, <1>2, <1>6 DEF SessionOK, FilesOK, WriterOK, SessionLabels
  <1>9. main'.exit \notin {1, Killed} => session'.saved = Summary(session)' /\ ClosedAs(session.saved, main.exit)'
    <2> SUFFICES ASSUME main'.exit \notin {1, Killed}
                 PROVE  session'.saved = Summary(session)' /\ ClosedAs(session.saved, main.exit)'
      OBVIOUS
    <2>1. main'.exit = main.exit /\ ~Exit(1)
      BY <1>2, Moves
    <2>2. session' = [session EXCEPT !.saved = s]
      BY <1>4, <2>1 DEF SaveReport
    <2>3. session'.saved = s
      BY <2>2 DEF SessionTyped
    <2>4. Summary(session)' = s
      BY <1>4, <1>6, SummaryIs
    <2>5. /\ StartOf(session.records, Len(session.records)) = run.number
          /\ CodesOf(run.number) = {main.exit}
          /\ main.exit = 0 => Published /\ HasPublished(run.number)
      BY <1>1 DEF SessionOK, PublishedOK
    <2>6. s.latest = {main.exit} /\ (main.exit = 0 => s.publication)
      BY <1>4, <2>5 DEF Summary, CodesOf, HasPublished
    <2>7. ClosedAs(session.saved, main.exit)'
      BY <1>1, <1>6, <2>1, <2>3, <2>5, <2>6 DEF ClosedAs, Published
    <2> QED
      BY <2>3, <2>4, <2>7
  <1>10. PublishedOK'
    BY <1>1, <1>2, <1>6, <1>9 DEF SessionOK, PublishedOK, Over, Acquiring, Published
  <1> QED
    BY <1>7, <1>8, <1>10 DEF SessionOK

LEMMA BeginStep ==
    ASSUME SessionTyped, SessionOK, main \in Report, SessionBegins
    PROVE  SessionTyped' /\ SessionOK'
  <1>1. PICK command \in {"acquire", "resume", "report"} : Begin(command)
    BY DEF SessionBegins
  <1>2. /\ main.at = "start" /\ UNCHANGED <<output, reads>>
        /\ run' = [NoRun EXCEPT !.command = command]
        /\ BeginAcquire \/ BeginResume \/ WriteReport
    BY <1>1 DEF Begin
  <1>3. /\ run' \in Runs /\ run'.number = 0 /\ run'.read_attempts = 0 /\ run'.failure = FALSE
        /\ run'.audit = FALSE
    <2>1. /\ NoRun \in Runs /\ NoRun.number = 0 /\ NoRun.read_attempts = 0 /\ NoRun.failure = FALSE
          /\ NoRun.audit = FALSE
      BY DEF NoRun, Runs
    <2> QED
      BY <1>2, <2>1 DEF Runs
  <1>4. \/ main'.at = "exit"
        \/ main'.at = "history" /\ session'.manifest = TRUE
    <2>1. CASE BeginAcquire
      BY <2>1, Moves DEF BeginAcquire, Labels, SessionLabels, SessionTyped
    <2>2. CASE BeginResume
      BY <2>2, Moves DEF BeginResume, Labels, SessionLabels, SessionTyped
    <2>3. CASE WriteReport
      BY <2>3, Moves DEF WriteReport
    <2> QED
      BY <1>2, <2>1, <2>2, <2>3
  <1>5. PICK s \in Reports : s = Summary(session)
    BY SummaryIs
  <1>6. session' = session \/ session' = [session EXCEPT !.manifest = TRUE]
           \/ session' = [session EXCEPT !.saved = s]
    BY <1>2, <1>5 DEF BeginAcquire, BeginResume, WriteReport
  <1>7. /\ session' \in SessionFiles /\ session'.records = session.records
        /\ session.manifest => session'.manifest
        /\ session'.folder = session.folder /\ session'.journal = session.journal
    BY <1>6 DEF SessionTyped, SessionFiles
  <1>8. SessionTyped'
    BY <1>2, <1>3, <1>7 DEF SessionTyped, SessionFiles
  <1>9. HistoryOK'
    BY <1>2, <1>4, <1>7, HistoryStays DEF SessionOK, Recording, RunLabels, SessionLabels
  <1>10. FilesOK' /\ WriterOK'
    BY <1>2, <1>3, <1>4, <1>7 DEF SessionOK, FilesOK, WriterOK, SessionLabels
  <1>11. PublishedOK'
    BY <1>2, <1>3, <1>4, <1>7 DEF SessionOK, PublishedOK, Over, Acquiring, Published
  <1> QED
    BY <1>8, <1>9, <1>10, <1>11 DEF SessionOK

\* A command that is killed leaves its run open.
LEMMA KillStep ==
    ASSUME SessionTyped, SessionOK, main \in Report, Kill \/ NextCommand
    PROVE  SessionTyped' /\ SessionOK'
  <1>1. /\ UNCHANGED <<output, reads>> /\ run' = NoRun
        /\ main'.at \in {"start", "exit"} /\ (main'.at = "exit" => main'.exit = Killed)
        /\ \E left \in {0, 1} : session' = [session EXCEPT !.pending = @ + left] \/ session' = session
    BY DEF Kill, NextCommand, OnlyRun, OnlySession
  <1>2. run' \in Runs /\ ~run'.failure
    BY <1>1 DEF NoRun, Runs
  <1>3. PICK p \in Nat : session' = [session EXCEPT !.pending = p] \/ session' = session
    <2>1. PICK left \in {0, 1} : session' = [session EXCEPT !.pending = session.pending + left] \/ session' = session
      BY <1>1
    <2>2. session.pending + left \in Nat
      BY SessionFields
    <2> QED
      BY <2>1, <2>2
  <1>4. /\ session' \in SessionFiles /\ session'.records = session.records
        /\ session.manifest = session'.manifest
        /\ session'.folder = session.folder /\ session'.journal = session.journal
    BY <1>3 DEF SessionTyped, SessionFiles
  <1>5. SessionTyped'
    BY <1>1, <1>2, <1>4 DEF SessionTyped, SessionFiles
  <1>6. HistoryOK'
    BY <1>1, <1>4, HistoryStays DEF SessionOK, Recording, RunLabels, SessionLabels
  <1>7. FilesOK' /\ WriterOK'
    BY <1>1, <1>2, <1>4 DEF SessionOK, FilesOK, WriterOK, SessionLabels
  <1>8. PublishedOK'
    BY <1>1, <1>4 DEF SessionOK, PublishedOK, Over, Acquiring, Published
  <1> QED
    BY <1>5, <1>6, <1>7, <1>8 DEF SessionOK

\* Of the steps that may record, those that do not.
LEMMA WriterFailsStep ==
    ASSUME SessionTyped, SessionOK, main \in Report, ResumeWriter \/ CheckUnchanged,
           UNCHANGED <<session, run>>
    PROVE  SessionTyped' /\ SessionOK'
  <1>1. /\ main.at \in {"resume", "unchanged"} /\ UNCHANGED <<output, reads>>
        /\ Ends(1) \/ (main.at = "resume" /\ Goto("create"))
    <2>1. ~Succeeds("phase", run)
      <3>1. ASSUME Succeeds("phase", run) PROVE FALSE
        <4>1. run' = [run EXCEPT !.sequence = @ + 1] /\ run \in Runs
          BY <3>1 DEF Succeeds, SessionTyped
        <4>2. run'.sequence = run.sequence + 1 /\ run.sequence \in Nat
          BY <4>1 DEF Runs
        <4> QED
          BY <4>2
      <3> QED
        BY <3>1
    <2> QED
      BY <2>1, ResumeWriterIs, CheckUnchangedIs DEF OnlyRun, OnlySession
  <1>2. CASE Ends(1)
    BY <1>1, <1>2, OnlyEnds DEF RunLabels, SessionLabels
  <1>3. CASE Goto("create") /\ main.at = "resume"
    <2>1. main'.at = "create"
      BY <1>3, Moves DEF Labels, SessionLabels
    <2>2. SameRun /\ session' \in SessionFiles
      BY <1>1 DEF SameRun, SessionTyped, SessionFiles
    <2>3. Recording' => Recording
      BY <1>3 DEF Recording, RunLabels, SessionLabels
    <2>4. SessionTyped' /\ HistoryOK'
      BY <2>2, <2>3, SameRunKeeps
    <2>5. FilesOK' /\ WriterOK'
      BY <1>1, <1>3, <2>1 DEF SessionOK, FilesOK, WriterOK, SessionLabels
    <2>6. PublishedOK'
      BY <1>1, <2>1 DEF SessionOK, PublishedOK, Over, Acquiring, Published
    <2> QED
      BY <2>4, <2>5, <2>6 DEF SessionOK
  <1> QED
    BY <1>1, <1>2, <1>3

LEMMA SessionStepKeeps ==
    ASSUME SessionTyped, SessionOK, MainOK, Told, SessionNext
    PROVE  SessionTyped' /\ SessionOK'
  <1>1. main \in Report
    BY DEF MainOK
  <1>2. CASE SessionBegins \/ Kill \/ NextCommand
    BY <1>1, <1>2, BeginStep, KillStep
  <1>3. CASE OpenHistory \/ BindSession \/ StartRun \/ CreateWriter \/ EndRun \/ SaveReport
    BY <1>1, <1>3, OpenHistoryStep, BindSessionStep, StartRunStep, CreateWriterStep, EndRunStep,
       SaveReportStep
  <1>4. CASE Notified \/ ReadSource \/ Seal \/ MarkPublishing \/ LinkSegments \/ RetireJournal
    BY <1>1, <1>4, NotifiedStep, ReadSourceStep, SealStep, MarkPublishingStep, LinkSegmentsStep,
       RetireJournalStep
  <1>5. CASE \/ ResumeWriter \/ EnterAcquisition \/ NewCheckpoint \/ ReadError \/ Close
             \/ CheckUnchanged \/ RecordPublished \/ VerifyImage
    BY <1>1, <1>5, RecordingStep, WriterFailsStep
  <1> QED
    BY <1>2, <1>3, <1>4, <1>5 DEF SessionNext, SessionStep

LEMMA SessionStays ==
    ASSUME SessionInv, UNCHANGED <<job, main, sessionVars>>,
           UNCHANGED output \/ (output = "absent" /\ output' = "foreign" /\ ~Over)
    PROVE  SessionInv'
  <1>1. SessionTyped' /\ (InSession' <=> InSession)
    BY DEF SessionInv, SessionTyped, InSession, sessionVars
  <1>2. ASSUME InSession PROVE SessionOK'
    <2>1. FilesOK' /\ HistoryOK' /\ WriterOK'
      BY <1>2 DEF SessionInv, SessionOK, FilesOK, HistoryOK, WriterOK, Recording, sessionVars
    <2>2. PublishedOK'
      <3>1. PublishedOK
        BY <1>2 DEF SessionInv, SessionOK
      <3>2. Published => output' = output
        BY DEF Published
      <3>3. Over => output' = output
        OBVIOUS
      <3>4. CodesOf(run.number)' = CodesOf(run.number)
            /\ (HasPublished(run.number)' <=> HasPublished(run.number))
        BY DEF CodesOf, HasPublished, sessionVars
      <3>5. Published => Published'
        BY <3>2 DEF Published, sessionVars
      <3>6. Over' <=> Over
        BY DEF Over
      <3>7. session' = session /\ run' = run
        BY DEF sessionVars
      <3>8. ASSUME Over /\ run.audit /\ main.exit \notin {1, Killed}
            PROVE  session'.saved = Summary(session)' /\ ClosedAs(session.saved, main.exit)'
        BY <3>1, <3>3, <3>7, <3>8 DEF PublishedOK, ClosedAs
      <3> QED
        BY <3>1, <3>4, <3>5, <3>6, <3>7, <3>8 DEF PublishedOK
    <2> QED
      BY <2>1, <2>2 DEF SessionOK
  <1> QED
    BY <1>1, <1>2 DEF SessionInv

LEMMA SessionStart == Init => SessionInv
  <1> SUFFICES ASSUME Init PROVE SessionInv
    OBVIOUS
  <1>1. /\ session = NoSession /\ run = NoRun /\ reads = 0
        /\ main.at = "start" /\ output = "absent"
    BY DEF Init, SessionInit, CliInit
  <1>2. NoRun \in Runs /\ NoRun.failure = FALSE
    BY DEF NoRun, Runs
  <1>3. NoSession \in SessionFiles
    BY DEF NoSession, SessionFiles, Reports
  <1>4. SessionTyped
    BY <1>1, <1>2, <1>3 DEF SessionTyped, SessionFiles
  <1>5. session.records = <<>> /\ session.folder = FALSE /\ session.journal = "none"
    BY <1>1 DEF NoSession
  <1>6. FilesOK /\ WriterOK
    BY <1>1, <1>2, <1>5 DEF FilesOK, WriterOK, SessionLabels
  <1>7. HistoryOK
    BY <1>1, <1>5, NothingRead DEF HistoryOK, Recording, RunLabels, SessionLabels
  <1>8. PublishedOK
    BY <1>1, <1>5 DEF PublishedOK, Over, Acquiring
  <1> QED
    BY <1>4, <1>6, <1>7, <1>8 DEF SessionInv, SessionOK

LEMMA SessionInvNext == ReportInv /\ SessionInv /\ [Next]_vars => SessionInv'
  <1> SUFFICES ASSUME ReportInv, SessionInv, [Next]_vars PROVE SessionInv'
    OBVIOUS
  <1>1. MainOK /\ MainOK' /\ Told /\ main \in Report
    BY ReportNext DEF ReportInv, MainOK
  <1>2. ASSUME ~InSession, UNCHANGED <<job, sessionVars>> PROVE SessionInv'
    BY <1>2 DEF SessionInv, SessionTyped, InSession, sessionVars
  <1>3. CASE SessionNext /\ AtSession
    <2>1. UNCHANGED job
      BY <1>1, <1>3, OthersKeepJob DEF OtherStep
    <2>2. CASE InSession
      BY <1>1, <1>3, <2>1, <2>2, SessionStepKeeps DEF SessionInv, InSession
    <2>3. InSession
      <3>1. CASE SessionBegins
        BY <3>1 DEF SessionBegins, Begin
      <3>2. CASE SessionStep
        BY <1>1, <3>2, SessionSteps DEF MainOK
      <3>3. CASE Kill \/ NextCommand
        BY <3>3 DEF Kill, NextCommand
      <3> QED
        BY <1>3, <3>1, <3>2, <3>3 DEF SessionNext
    <2> QED
      BY <2>2, <2>3
  <1>4. CASE CommandFails
    <2>1. main.at = "failing" /\ UNCHANGED <<job, sessionVars>>
      BY <1>4 DEF CommandFails, ReportFailure, AtCommand, jobVars
    <2>2. ~InSession
      BY <2>1 DEF SessionInv, SessionOK, WriterOK
    <2> QED
      BY <1>2, <2>1, <2>2
  <1>5. CASE Cancel \/ Interfere
    BY <1>5, SessionStays DEF Cancel, StopWhen, Interfere, Appear, AtCommand, jobVars
  <1>6. CASE UNCHANGED vars
    BY <1>6, SessionStays DEF vars, cliVars, jobVars
  <1>7. CASE TransferNext /\ AtTransfer
    <2>1. CASE CopyStep
      <3>1. IsTransfer /\ UNCHANGED job
        BY <1>1, <2>1, CopyStepIs
      <3>2. ~InSession
        BY <1>1, <3>1, KindsDiffer DEF IsTransfer, InSession, MainOK
      <3> QED
        BY <1>2, <1>7, <3>1, <3>2 DEF AtTransfer
    <2>2. CASE UNCHANGED cliVars
      BY <1>7, <2>2, SessionStays DEF AtTransfer, cliVars, jobVars
    <2> QED
      BY <1>7, <2>1, <2>2
         DEF TransferNext, ProducerStep, ProducerRecv, ProducerRead, ProducerSend, OnlyProducer, Change,
             Replaced
  <1>8. CASE CollectionNext /\ AtCollection
    <2>1. UNCHANGED job
      BY <1>1, <1>8, OthersKeepJob DEF OtherStep
    <2>2. CASE CollectStep
      <3>1. CollectJob
        BY <1>1, <2>2
           DEF CollectStep, StartCollect, WalkStopped, VisitExcluded, VisitSkipped, VisitFolder,
               VisitFile, OpenFile, ReadPiece, AfterFile, Finish, StartVerify, VerifyContainer,
               LastCheck, PublishContainer, StartExtract, StartUnpack, Unpack, CheckUnpacked,
               PublishFile, Visiting, MainOK, CollectJob, CollectionLabels
      <3>2. ~InSession
        BY <3>1 DEF CollectJob, InSession
      <3> QED
        BY <1>2, <1>8, <2>1, <3>2 DEF AtCollection
    <2>3. CASE \E p \in Paths : TreeChange(p)
      BY <1>8, <2>3, SessionStays DEF AtCollection, TreeChange, cliVars, jobVars
    <2> QED
      BY <1>8, <2>2, <2>3 DEF CollectionNext
  <1>9. CASE DiskNext /\ AtDisk
    <2>1. UNCHANGED job
      BY <1>1, <1>9, OthersKeepJob DEF OtherStep
    <2>2. Reading
      <3>1. CASE DiskStep
        BY <1>1, <3>1 DEF DiskStep, VerifyVolume, VerifyEntry, VerifySet, Verify, DiscoverDisks,
                          CloseDisk, Reading, MainOK, DiskLabels
      <3>2. CASE main.at = "opened"
        BY <1>1, <3>2 DEF MainOK, DiskLabels
      <3> QED
        BY <1>9, <3>1, <3>2 DEF DiskNext
    <2>3. ~InSession
      BY <2>2 DEF Reading, InSession
    <2> QED
      BY <1>2, <1>9, <2>1, <2>3 DEF AtDisk
  <1> QED
    BY <1>3, <1>4, <1>5, <1>6, <1>7, <1>8, <1>9 DEF Next

LEMMA SessionAlways == FairSpec => [](ReportInv /\ SessionInv)
  <1>1. Init => ReportInv /\ SessionInv
    BY ReportInit, SessionStart
  <1>2. ReportInv /\ SessionInv /\ [Next]_vars => ReportInv' /\ SessionInv'
    BY ReportNext, SessionInvNext
  <1> QED
    BY <1>1, <1>2, PTL DEF FairSpec

\* docs/cli.md, "Results": whatever commands of a session were killed, failed or were
\* stopped, and where, its history can be read again, counters said to be complete
\* are those of every read, a publication on record has happened, and a saved
\* report is the one of the history (History::event, load, History::finish,
\* save_report, acquire).
THEOREM HistoryIsHonest == FairSpec => []HistoryHonest
  <1>1. SessionInv => HistoryHonest
    <2> SUFFICES ASSUME SessionInv, InSession PROVE HistoryHonest
      BY DEF HistoryHonest
    <2>1. SessionTyped /\ FilesOK /\ HistoryOK /\ PublishedOK
      BY DEF SessionInv, SessionOK
    <2>2. session.folder => Loads(session) \/ Len(session.records) + session.pending > MaxRecords
      <3>1. Ordered(session.records)
        BY <2>1 DEF HistoryOK
      <3>2. Len(session.records) \in Nat /\ session.pending \in Nat /\ MaxRecords \in Nat
        BY <2>1, SessionFields, SessionAssumption
      <3> QED
        BY <3>1, <3>2 DEF Loads
    <2>3. CountersComplete(session) => Reads(session.records) = reads
      <3> SUFFICES ASSUME CountersComplete(session) PROVE Reads(session.records) = reads
        OBVIOUS
      <3>1. \A i \in Starts(session.records) : Closed(session.records, i)
        BY DEF CountersComplete
      <3>2. ~Recording
        BY <2>1, <3>1 DEF HistoryOK
      <3> QED
        BY <2>1, <3>1, <3>2 DEF HistoryOK
    <2>4. session.folder \/ session.journal # "none" \/ output = "ours" => session.manifest
      BY <2>1 DEF FilesOK
    <2>5. /\ (\E i \in DOMAIN session.records : session.records[i].event = "published")
              => output = "ours" /\ session.journal = "none"
          /\ Over /\ run.audit /\ main.exit \notin {1, Killed} =>
              session.saved = Summary(session) /\ ClosedAs(session.saved, main.exit)
      BY <2>1 DEF PublishedOK, Published
    <2> QED
      BY <2>2, <2>3, <2>4, <2>5 DEF HistoryHonest
  <1> QED
    BY <1>1, SessionAlways, PTL

----------------------------------------------------------------------------
(* The readers of discovered disks                                         *)

\* What is connected with containers of an inventory is in the inventory.
LEMMA ReachStays ==
    ASSUME NEW S, IsFiniteSet(S), NEW edges \in [S -> SUBSET S], NEW from \in SUBSET S
    PROVE  Reach(edges, from) \in SUBSET S
<1> DEFINE N == Cardinality(DOMAIN edges)
           After(f) == f = [n \in 0..N |-> IF n = 0 THEN from
                                            ELSE f[n - 1] \cup UNION {edges[i] : i \in f[n - 1]}]
           step == [n \in 1..N |-> [X \in SUBSET S |-> X \cup UNION {edges[i] : i \in X}]]
<1>1. N \in Nat
  BY FS_CardinalityType
<1>2. step \in [1..N -> [SUBSET S -> SUBSET S]]
  OBVIOUS
<1> HIDE DEF N
<1>3. PICK f \in [0..N -> SUBSET S] : f = [n \in 0..N |-> IF n = 0 THEN from ELSE step[n][f[n - 1]]]
  <2> HIDE DEF step
  <2>1. PICK V : V = SUBSET S
    OBVIOUS
  <2>2. from \in V /\ step \in [1..N -> [V -> V]]
    BY <1>2, <2>1
  <2>3. \E f \in [0..N -> V] : f = [n \in 0..N |-> IF n = 0 THEN from ELSE step[n][f[n - 1]]]
    BY <1>1, <2>2, Recursion
  <2> QED
    BY <2>1, <2>3
<1>4. After(f)
  <2>1. \A n \in 0..N : n = 0 \/ (n \in 1..N /\ n - 1 \in 0..N)
    BY <1>1
  <2>2. \A n \in 0..N : n # 0 => step[n][f[n - 1]] = f[n - 1] \cup UNION {edges[i] : i \in f[n - 1]}
    BY <1>3, <2>1
  <2> HIDE DEF step
  <2>3. \A n \in 0..N : f[n] = IF n = 0 THEN from ELSE f[n - 1] \cup UNION {edges[i] : i \in f[n - 1]}
    BY <1>3, <2>2
  <2> DEFINE F == [n \in 0..N |-> IF n = 0 THEN from ELSE f[n - 1] \cup UNION {edges[i] : i \in f[n - 1]}]
  <2>4. \A n \in 0..N : f[n] = F[n]
    BY <2>3
  <2>5. f = F
    BY <2>4
  <2> QED
    BY <2>5
<1> DEFINE after == CHOOSE g : After(g)
<1>5. After(after)
  BY <1>4
<1>6. Reach(edges, from) = after[N]
  BY DEF Reach, N
<1> HIDE DEF after, step
<1>7. \A n \in 0..N : after[n] = IF n = 0 THEN from
                                 ELSE after[n - 1] \cup UNION {edges[i] : i \in after[n - 1]}
  BY <1>5
<1> HIDE DEF After
<1> DEFINE T == {n \in Nat : n <= N => after[n] \in SUBSET S}
<1>8. 0 \in T
  <2>1. 0 \in 0..N
    BY <1>1
  <2> QED
    BY <1>7, <2>1
<1>9. ASSUME NEW n \in Nat, n \in T PROVE n + 1 \in T
  <2> SUFFICES ASSUME n + 1 <= N PROVE after[n + 1] \in SUBSET S
    OBVIOUS
  <2>1. PICK k \in 0..N : k = n + 1
    BY <1>1
  <2>2. k # 0 /\ k - 1 = n /\ after[n] \in SUBSET S
    <3>1. k # 0 /\ k - 1 = n /\ n <= N
      BY <1>1, <2>1
    <3>2. after[n] \in SUBSET S
      BY <1>9, <3>1, Zenon
    <3> QED
      BY <3>1, <3>2
  <2>3. after[k] = after[k - 1] \cup UNION {edges[i] : i \in after[k - 1]}
    BY <1>7, <2>2, Zenon
  <2>4. after[k] = after[n] \cup UNION {edges[i] : i \in after[n]}
    BY <2>2, <2>3, Zenon
  <2> QED
    BY <2>1, <2>2, <2>4
<1> HIDE DEF T
<1>10. Nat \subseteq T
  BY <1>8, <1>9, SetInduction
<1> QED
  BY <1>1, <1>6, <1>10 DEF T

\* Containers in order, each of which opens, lists its disks and says how long they are.
ValidVolumes(vols) ==
    /\ \E n \in Nat : vols = [k \in 1..n |-> vols[k]]
    /\ \A k \in DOMAIN vols :
          /\ InventoryValid(vols[k]) /\ vols[k].id \in Nat
          /\ \A id \in DOMAIN vols[k].graph : vols[k].graph[id].size \in Nat \cup {Absent}

\* Those that are taken from the evidence are.
LEMMA KeptAreValid ==
    ASSUME NEW e \in Evidence,
           NEW selected \in SUBSET {i \in DOMAIN e.files : InventoryValid(e.files[i])}
    PROVE  ValidVolumes(Keep(e.files, selected))
<1> DEFINE files == e.files
           vols == Keep(files, selected)
<1>1. /\ Len(files) \in Nat /\ DOMAIN files = 1..Len(files)
      /\ \A i \in DOMAIN files : files[i].ok =>
            /\ files[i].id \in Nat
            /\ \A id \in DOMAIN files[i].graph : files[i].graph[id].size \in Nat \cup {Absent}
  BY DisksAssumption
<1>2. selected \in SUBSET Nat /\ selected \subseteq 1..Len(files)
  BY <1>1
<1>3. IsFiniteSet(selected) /\ Cardinality(selected) \in Nat
  <2>1. IsFiniteSet(1..Len(files))
    BY <1>1, FS_Interval
  <2> QED
    BY <1>2, <2>1, FS_Subset, FS_CardinalityType
<1>4. \A k \in 1..Cardinality(selected) : Nth(selected, k) \in selected
  BY <1>2, <1>3, NthProperties
<1>5. \A i \in selected : InventoryValid(files[i]) /\ files[i].ok
  BY DEF InventoryValid
<1> HIDE DEF files
<1>6. /\ vols = [k \in 1..Cardinality(selected) |-> files[Nth(selected, k)]]
      /\ DOMAIN vols = 1..Cardinality(selected)
      /\ \A k \in 1..Cardinality(selected) : vols[k] = files[Nth(selected, k)]
  BY DEF Keep
<1> HIDE DEF vols
<1>7. \A k \in DOMAIN vols :
          /\ InventoryValid(vols[k]) /\ vols[k].id \in Nat
          /\ \A id \in DOMAIN vols[k].graph : vols[k].graph[id].size \in Nat \cup {Absent}
  <2> SUFFICES ASSUME NEW k \in 1..Cardinality(selected)
               PROVE  /\ InventoryValid(vols[k]) /\ vols[k].id \in Nat
                      /\ \A id \in DOMAIN vols[k].graph : vols[k].graph[id].size \in Nat \cup {Absent}
    BY <1>6
  <2>1. PICK i \in selected : i = Nth(selected, k)
    BY <1>4
  <2>2. vols[k] = files[i] /\ i \in DOMAIN files /\ files[i].ok /\ InventoryValid(files[i])
    BY <1>1, <1>2, <1>5, <1>6, <2>1
  <2> QED
    BY <1>1, <2>2
<1>8. vols = [k \in 1..Cardinality(selected) |-> vols[k]]
  BY <1>6
<1>9. ValidVolumes(vols)
  BY <1>3, <1>7, <1>8 DEF ValidVolumes
<1> QED
  BY <1>9 DEF vols, files

\* A disk of one of them has a size.
LEMMA DiskHasSize ==
    ASSUME NEW vols, ValidVolumes(vols), NEW k \in DOMAIN vols, NEW id \in Disks(vols[k])
    PROVE  StreamSize(vols[k], id).ok /\ StreamSize(vols[k], id).value \in Nat
<1> DEFINE v == vols[k]
           r == v.graph[id]
           size == IF r.stream = None THEN r.size
                   ELSE IF r.stream \in DOMAIN v.graph THEN v.graph[r.stream].size ELSE Absent
<1>1. /\ StreamSize(v, id).ok
      /\ \A i \in DOMAIN v.graph : v.graph[i].size \in Nat \cup {Absent}
  BY DEF ValidVolumes, InventoryValid, DisksValid
<1>2. id \in DOMAIN v.graph
  BY DEF Disks, OfType
<1> HIDE DEF v
<1>3. StreamSize(v, id) = IF size = Absent \/ r.size \notin {Absent, size} THEN Fail ELSE Good(size)
  BY <1>2 DEF StreamSize
<1>4. size \in Nat \cup {Absent}
  BY <1>1, <1>2
<1> HIDE DEF size, r
<1>5. size # Absent /\ StreamSize(v, id) = Good(size)
  BY <1>1, <1>3 DEF Fail
<1>6. StreamSize(v, id).value \in Nat
  BY <1>4, <1>5 DEF Good
<1> QED
  BY <1>1, <1>6 DEF v

\* A disk that is described is described by one container first.
LEMMA FirstDefines ==
    ASSUME NEW set, ValidVolumes(set.vols), NEW id, Definers(set, id) # {}
    PROVE  First(set, id) \in Definers(set, id)
<1> DEFINE I == {set.vols[k].id : k \in Definers(set, id)}
<1>1. \A k \in Definers(set, id) : set.vols[k].id \in Nat
  BY DEF Definers, ValidVolumes
<1>2. I \in SUBSET Nat /\ I # {}
  BY <1>1
<1>3. PICK least \in I : \A j \in I : least <= j
  BY <1>2, LeastExists
<1>4. PICK k \in Definers(set, id) : least = set.vols[k].id
  BY <1>3
<1>5. \A j \in Definers(set, id) : set.vols[k].id <= set.vols[j].id
  BY <1>3, <1>4
<1> QED
  BY <1>4, <1>5 DEF First

\* What discovery finds: valid containers, and for each disk the one that describes
\* it first, which gives it the size it has there.
LEMMA WhatIsDiscovered ==
    ASSUME NEW e \in Evidence, Discover(e.files, e.explicit).ok
    PROVE  LET d == Discover(e.files, e.explicit).value
           IN  /\ ValidVolumes(d.set.vols)
               /\ \A r \in d.readers :
                     /\ r.primary = First(d.set, r.id) /\ r.primary \in Definers(d.set, r.id)
                     /\ DiskSize(d.set, r.primary, Mapped(d.set.vols[r.primary], r.id), r.id)
                           = StreamSize(d.set.vols[r.primary], r.id)
<1> DEFINE files == e.files
           inventory == {i \in DOMAIN files : InventoryValid(files[i])}
           edges == Edges(files, inventory)
           selected == Reach(edges, 1..e.explicit)
           vols == Keep(files, selected)
           reach == [k \in DOMAIN vols |-> Reach(edges, {Nth(selected, k)})]
           owners == FromContainers(vols)
           set == [vols |-> vols, owners |-> owners.value]
           ids == UNION {Disks(set.vols[k]) : k \in DOMAIN set.vols}
           reader(id, k) == [id |-> id, primary |-> k, mapped |-> Mapped(set.vols[k], id)]
<1>1. /\ Discover(files, e.explicit) = DiscoverAmong(files, e.explicit, inventory, edges)
      /\ Discover(files, e.explicit).ok
  BY DEF Discover, DiscoverIn
<1>2. /\ 1..e.explicit \subseteq inventory
      /\ Discover(files, e.explicit) = DiscoverSelected(files, selected, edges)
  BY <1>1 DEF DiscoverAmong, Fail
<1>3. selected \in SUBSET inventory
  <2>1. IsFiniteSet(inventory)
    <3>1. Len(files) \in Nat /\ inventory \subseteq 1..Len(files)
      BY DisksAssumption
    <3> QED
      BY <3>1, FS_Interval, FS_Subset
  <2>2. edges \in [inventory -> SUBSET inventory]
    BY DEF Edges
  <2> HIDE DEF inventory, edges
  <2>3. 1..e.explicit \in SUBSET inventory
    BY <1>2
  <2>4. PICK S, E, F : S = inventory /\ E = edges /\ F = 1..e.explicit
    OBVIOUS
  <2>5. IsFiniteSet(S) /\ E \in [S -> SUBSET S] /\ F \in SUBSET S
    BY <2>1, <2>2, <2>3, <2>4
  <2>6. Reach(E, F) \in SUBSET S
    BY <2>5, ReachStays
  <2> QED
    BY <2>4, <2>6
<1>4. ValidVolumes(vols)
  BY <1>3, KeptAreValid
<1>5. owners.ok /\ Discover(files, e.explicit) = DisksOf(set, reach)
  <2>1. DiscoverSelected(files, selected, edges) = DiscoverVolumes(vols, owners, reach)
    BY Zenon DEF DiscoverSelected
  <2> HIDE DEF vols, reach, owners, files, selected, edges
  <2>2. DiscoverVolumes(vols, owners, reach)
            = IF owners.ok THEN DisksOf([vols |-> vols, owners |-> owners.value], reach) ELSE Fail
    BY DEF DiscoverVolumes
  <2>3. ~Fail.ok
    BY DEF Fail
  <2> QED
    BY <1>1, <1>2, <2>1, <2>2, <2>3
<1>6. Fail.ok = FALSE
  BY DEF Fail
<1> HIDE DEF vols, reach, owners
<1>7. set.vols = vols
  OBVIOUS
<1> HIDE DEF set
<1>8. /\ ~\E id \in ids : Conflicting(set, reach, id)
      /\ DisksOf(set, reach) = Good([set |-> set, readers |-> {reader(id, First(set, id)) : id \in ids}])
  BY <1>1, <1>5, <1>6 DEF DisksOf
<1> DEFINE d == Discover(files, e.explicit).value
<1>9. d.set = set /\ d.readers = {reader(id, First(set, id)) : id \in ids}
  BY <1>5, <1>8 DEF Good
<1>10. ASSUME NEW r \in d.readers
       PROVE  /\ r.primary = First(set, r.id) /\ r.primary \in Definers(set, r.id)
              /\ DiskSize(set, r.primary, Mapped(set.vols[r.primary], r.id), r.id)
                    = StreamSize(set.vols[r.primary], r.id)
  <2>1. PICK id \in ids : r = reader(id, First(set, id))
    BY <1>9
  <2>2. r.id = id /\ r.primary = First(set, id)
    BY <2>1
  <2>3. Definers(set, id) # {}
    BY DEF Definers
  <2>4. First(set, id) \in Definers(set, id)
    BY <1>4, <1>7, <2>3, FirstDefines
  <2>5. DiskSize(set, First(set, id), Mapped(set.vols[First(set, id)], id), id)
            = StreamSize(set.vols[First(set, id)], id)
    BY <1>8, <2>4 DEF Conflicting
  <2> QED
    BY <2>2, <2>4, <2>5
<1> HIDE DEF d
<1>11. ValidVolumes(d.set.vols)
  BY <1>4, <1>7, <1>9
<1>12. /\ ValidVolumes(d.set.vols)
       /\ \A r \in d.readers :
             /\ r.primary = First(d.set, r.id) /\ r.primary \in Definers(d.set, r.id)
             /\ DiskSize(d.set, r.primary, Mapped(d.set.vols[r.primary], r.id), r.id)
                   = StreamSize(d.set.vols[r.primary], r.id)
  BY <1>9, <1>10, <1>11
<1> QED
  BY <1>12 DEF d, files

\* Readers of different disks, each of which has a byte or a failure at every
\* position of its disk.
SaneReaders(readers) ==
    /\ \A r, s \in readers : r.id = s.id => r = s
    /\ \A r \in readers :
          /\ r.bytes \in Seq({r.bytes[i] : i \in DOMAIN r.bytes})
          /\ \A i \in DOMAIN r.bytes : r.bytes[i].ok \in BOOLEAN

\* Those of a command are.
LEMMA FoundAreSane ==
    ASSUME NEW e \in Evidence
    PROVE  SaneReaders(Found(e).readers)
<1> DEFINE discovered == Discover(e.files, e.explicit)
           set == discovered.value.set
<1>1. CASE ~discovered.ok \/ job.kind \in {"verify", "entry", "set"}
  <2>1. Found(e).readers = {}
    BY <1>1 DEF Found, Exits
  <2> QED
    BY <2>1 DEF SaneReaders
<1>2. CASE discovered.ok /\ job.kind \notin {"verify", "entry", "set"}
  <2>1. Found(e).readers = Readers(set, discovered.value.readers)
    BY <1>2 DEF Found
  <2>2. /\ ValidVolumes(set.vols)
        /\ \A r \in discovered.value.readers :
              /\ r.primary = First(set, r.id) /\ r.primary \in Definers(set, r.id)
              /\ DiskSize(set, r.primary, Mapped(set.vols[r.primary], r.id), r.id)
                    = StreamSize(set.vols[r.primary], r.id)
    BY <1>2, WhatIsDiscovered
  <2> HIDE DEF discovered, set
  <2> DEFINE R == Readers(set, discovered.value.readers)
  <2>3. ASSUME NEW s \in R
        PROVE  \E r \in discovered.value.readers :
                  /\ s = [id |-> r.id, volume |-> set.vols[r.primary].id,
                          bytes |-> BytesOfDisk(set, r.primary, r.id),
                          others |-> {BytesOfDisk(set, k, r.id) :
                             k \in {k \in DOMAIN set.vols : r.id \in Disks(set.vols[k])}}]
    BY DEF Readers
  <2> HIDE DEF R
  <2>4. ASSUME NEW s \in R, NEW t \in R, s.id = t.id
        PROVE  s = t
    <3>1. PICK r \in discovered.value.readers :
                s = [id |-> r.id, volume |-> set.vols[r.primary].id,
                     bytes |-> BytesOfDisk(set, r.primary, r.id),
                     others |-> {BytesOfDisk(set, k, r.id) :
                             k \in {k \in DOMAIN set.vols : r.id \in Disks(set.vols[k])}}]
      BY <2>3
    <3>2. PICK q \in discovered.value.readers :
                t = [id |-> q.id, volume |-> set.vols[q.primary].id,
                     bytes |-> BytesOfDisk(set, q.primary, q.id),
                     others |-> {BytesOfDisk(set, k, q.id) :
                             k \in {k \in DOMAIN set.vols : q.id \in Disks(set.vols[k])}}]
      BY <2>3
    <3>3. s.id = r.id /\ t.id = q.id
      BY <3>1, <3>2
    <3>4. r.id = q.id /\ r.primary = q.primary
      BY <2>2, <2>4, <3>3
    <3> QED
      BY <3>1, <3>2, <3>4
  <2>5. ASSUME NEW s \in R
        PROVE  /\ s.bytes \in Seq({s.bytes[i] : i \in DOMAIN s.bytes})
               /\ \A i \in DOMAIN s.bytes : s.bytes[i].ok \in BOOLEAN
    <3>1. PICK r \in discovered.value.readers : s.bytes = BytesOfDisk(set, r.primary, r.id)
      <4>1. PICK r \in discovered.value.readers :
                s = [id |-> r.id, volume |-> set.vols[r.primary].id,
                     bytes |-> BytesOfDisk(set, r.primary, r.id),
                     others |-> {BytesOfDisk(set, k, r.id) :
                             k \in {k \in DOMAIN set.vols : r.id \in Disks(set.vols[k])}}]
        BY <2>3
      <4> QED
        BY <4>1
    <3> DEFINE size == DiskSize(set, r.primary, Mapped(set.vols[r.primary], r.id), r.id)
    <3>2. size.value \in Nat
      <4>1. r.primary \in DOMAIN set.vols /\ r.id \in Disks(set.vols[r.primary])
        BY <2>2 DEF Definers
      <4>2. StreamSize(set.vols[r.primary], r.id).value \in Nat
        BY <2>2, <4>1, DiskHasSize
      <4> QED
        BY <2>2, <4>2
    <3>3. s.bytes = [i \in 1..size.value |-> ByteOfDisk(set, r.primary, r.id, i - 1)]
      BY <3>1 DEF BytesOfDisk
    <3> HIDE DEF size
    <3>4. \A i \in 1..size.value : s.bytes[i].ok \in BOOLEAN
      <4> SUFFICES ASSUME NEW i \in 1..size.value PROVE s.bytes[i].ok \in BOOLEAN
        OBVIOUS
      <4>1. Fail.ok = FALSE /\ \A x : Good(x).ok = TRUE
        BY DEF Fail, Good
      <4>2. s.bytes[i] = Fail \/ \E x : s.bytes[i] = Good(x)
        BY <3>3 DEF ByteOfDisk
      <4>3. s.bytes[i].ok = FALSE \/ s.bytes[i].ok = TRUE
        BY <4>1, <4>2
      <4> QED
        BY <4>3
    <3>5. /\ DOMAIN s.bytes = 1..size.value
          /\ s.bytes \in [1..size.value -> {s.bytes[i] : i \in DOMAIN s.bytes}]
      BY <3>3
    <3>6. PICK n, V : n \in Nat /\ n = size.value /\ V = {s.bytes[i] : i \in DOMAIN s.bytes}
      BY <3>2
    <3>7. s.bytes \in [1..n -> V]
      BY <3>5, <3>6
    <3>8. s.bytes \in Seq(V)
      BY <3>6, <3>7
    <3> QED
      BY <3>4, <3>5, <3>6, <3>8
  <2>6. SaneReaders(R)
    BY <2>4, <2>5 DEF SaneReaders
  <2> QED
    BY <2>1, <2>6 DEF R
<1> QED
  BY <1>1, <1>2

----------------------------------------------------------------------------
(* What a reader has at a range                                            *)

\* The bytes from a up to b can be read, and these they are.
Readable(r, a, b) == \A i \in (a + 1)..b : r.bytes[i].ok
BytesAt(r, a, b) == [i \in 1..(b - a) |-> r.bytes[a + i].value]
Outcome(r, a, b) == IF Readable(r, a, b) THEN Good(BytesAt(r, a, b)) ELSE Fail

\* That is what a direct read returns.
LEMMA DirectIs ==
    ASSUME NEW r, r.bytes \in Seq({r.bytes[i] : i \in DOMAIN r.bytes}),
           NEW a \in Nat, NEW b \in Nat, a <= b, b <= Len(r.bytes)
    PROVE  ReadDirect(r, a, b - a) = Outcome(r, a, b)
<1>1. PICK s, n : s = r.bytes /\ n = b - a
  OBVIOUS
<1>2. s \in Seq({s[i] : i \in DOMAIN s}) /\ n \in Nat /\ a + n <= Len(s) /\ b = a + n
  BY <1>1
<1> DEFINE t == SubSeq(s, a + 1, a + n)
<1>3. /\ DOMAIN t = 1..n /\ \A i \in 1..n : t[i] = s[a + i]
  <2>1. t = [i \in 1..n |-> s[a + i]]
    BY <1>2
  <2> QED
    BY <2>1
<1>4. ReadDirect(r, a, b - a) = AllOf(t)
  BY <1>1, Zenon DEF ReadDirect
<1> HIDE DEF t
<1>5. (\A i \in DOMAIN t : t[i].ok) <=> Readable(r, a, b)
  <2>1. ASSUME NEW i \in 1..n PROVE a + i \in (a + 1)..b /\ t[i] = r.bytes[a + i]
    BY <1>1, <1>2, <1>3
  <2>2. ASSUME NEW j \in (a + 1)..b PROVE j - a \in 1..n /\ t[j - a] = r.bytes[j]
    BY <1>1, <1>2, <1>3
  <2>3. (\A i \in DOMAIN t : t[i].ok) => Readable(r, a, b)
    BY <1>3, <2>2 DEF Readable
  <2>4. Readable(r, a, b) => (\A i \in DOMAIN t : t[i].ok)
    BY <1>3, <2>1 DEF Readable
  <2> QED
    BY <2>3, <2>4
<1>6. [i \in DOMAIN t |-> t[i].value] = BytesAt(r, a, b)
  BY <1>1, <1>2, <1>3 DEF BytesAt
<1> QED
  BY <1>4, <1>5, <1>6 DEF AllOf, Outcome

\* Whether it succeeds, and with what.
LEMMA OutcomeIs ==
    ASSUME NEW r, NEW a, NEW b
    PROVE  /\ Readable(r, a, b) => Outcome(r, a, b) = Good(BytesAt(r, a, b)) /\ Outcome(r, a, b).ok
                                   /\ Outcome(r, a, b).value = BytesAt(r, a, b)
           /\ ~Readable(r, a, b) => Outcome(r, a, b) = Fail /\ ~Outcome(r, a, b).ok
BY DEF Outcome, Good, Fail

\* A range is a sequence of as many bytes.
LEMMA BytesAtIsSeq ==
    ASSUME NEW r, NEW a \in Nat, NEW b \in Nat, a <= b
    PROVE  /\ BytesAt(r, a, b) \in Seq({r.bytes[a + i].value : i \in 1..(b - a)})
           /\ Len(BytesAt(r, a, b)) = b - a /\ DOMAIN BytesAt(r, a, b) = 1..(b - a)
           /\ \A i \in 1..(b - a) : BytesAt(r, a, b)[i] = r.bytes[a + i].value
<1> DEFINE V == {r.bytes[a + i].value : i \in 1..(b - a)}
<1>1. PICK n \in Nat : n = b - a
  OBVIOUS
<1>2. BytesAt(r, a, b) = [i \in 1..n |-> r.bytes[a + i].value]
  BY <1>1 DEF BytesAt
<1>3. BytesAt(r, a, b) \in [1..n -> V]
  BY <1>1, <1>2
<1> HIDE DEF V
<1>4. PICK f : f = BytesAt(r, a, b)
  OBVIOUS
<1>5. f \in [1..n -> V]
  BY <1>3, <1>4
<1>6. f \in Seq(V) /\ Len(f) = n
  BY <1>5
<1> QED
  BY <1>1, <1>2, <1>4, <1>6 DEF V

\* A range is its parts.
LEMMA RangesJoin ==
    ASSUME NEW r, NEW a \in Nat, NEW b \in Nat, NEW c \in Nat, a <= b, b <= c
    PROVE  /\ Readable(r, a, c) <=> Readable(r, a, b) /\ Readable(r, b, c)
           /\ BytesAt(r, a, b) \o BytesAt(r, b, c) = BytesAt(r, a, c)
<1>1. Readable(r, a, c) <=> Readable(r, a, b) /\ Readable(r, b, c)
  <2>1. \A i \in (a + 1)..c : i \in (a + 1)..b \/ i \in (b + 1)..c
    OBVIOUS
  <2>2. (a + 1)..b \subseteq (a + 1)..c /\ (b + 1)..c \subseteq (a + 1)..c
    OBVIOUS
  <2> QED
    BY <2>1, <2>2, Zenon DEF Readable
<1> DEFINE u == BytesAt(r, a, b)
           v == BytesAt(r, b, c)
           w == BytesAt(r, a, c)
<1>2. /\ Len(u) = b - a /\ DOMAIN u = 1..(b - a)
      /\ \A i \in 1..(b - a) : u[i] = r.bytes[a + i].value
  BY BytesAtIsSeq
<1>3. /\ Len(v) = c - b /\ DOMAIN v = 1..(c - b)
      /\ \A i \in 1..(c - b) : v[i] = r.bytes[b + i].value
  BY BytesAtIsSeq
<1>4. a <= c /\ w = [i \in 1..(c - a) |-> r.bytes[a + i].value]
  BY DEF BytesAt
<1> HIDE DEF u, v, w
<1>5. u \o v = [i \in 1..(Len(u) + Len(v)) |-> IF i <= Len(u) THEN u[i] ELSE v[i - Len(u)]]
  <2>1. PICK U : u \in Seq(U)
    BY BytesAtIsSeq DEF u
  <2>2. PICK W : v \in Seq(W)
    BY BytesAtIsSeq DEF v
  <2>3. PICK S : S = U \cup W
    OBVIOUS
  <2>4. u \in Seq(S) /\ v \in Seq(S)
    BY <2>1, <2>2, <2>3
  <2>5. /\ u \o v \in Seq(S) /\ DOMAIN (u \o v) = 1..(Len(u) + Len(v))
        /\ \A i \in 1..(Len(u) + Len(v)) :
              (u \o v)[i] = IF i <= Len(u) THEN u[i] ELSE v[i - Len(u)]
    BY <2>4
  <2>6. PICK x \in Seq(S) : x = u \o v
    BY <2>5
  <2>7. x \in [1..Len(x) -> S]
    OBVIOUS
  <2>8. x = [i \in DOMAIN x |-> x[i]]
    BY <2>7
  <2> QED
    BY <2>5, <2>6, <2>8
<1>6. Len(u) + Len(v) = c - a
  BY <1>2, <1>3
<1>7. ASSUME NEW i \in 1..(c - a)
      PROVE  (IF i <= Len(u) THEN u[i] ELSE v[i - Len(u)]) = r.bytes[a + i].value
  <2>1. CASE i <= b - a
    <3>1. i \in 1..(b - a)
      BY <2>1
    <3> QED
      BY <1>2, <2>1, <3>1
  <2>2. CASE ~(i <= b - a)
    <3>1. i - (b - a) \in 1..(c - b) /\ b + (i - (b - a)) = a + i
      BY <2>2
    <3> QED
      BY <1>2, <1>3, <2>2, <3>1
  <2> QED
    BY <2>1, <2>2
<1>8. u \o v = w
  BY <1>4, <1>5, <1>6, <1>7
<1> QED
  BY <1>1, <1>8 DEF u, v, w

Cut(s, first, last) == SubSeq(s, first, last)

\* What is taken from a range is what the reader has there.
LEMMA PartOfRange ==
    ASSUME NEW s \in Nat, NEW a \in Nat, NEW b \in Nat, NEW e \in Nat,
           s <= a, a <= b, b <= e
    PROVE  \A r : Cut(BytesAt(r, s, e), a - s + 1, b - s) = BytesAt(r, a, b)
<1> SUFFICES ASSUME NEW r PROVE Cut(BytesAt(r, s, e), a - s + 1, b - s) = BytesAt(r, a, b)
  OBVIOUS
<1> DEFINE w == BytesAt(r, s, e)
<1>1. PICK V : w \in Seq(V)
  <2>1. s <= e
    OBVIOUS
  <2> QED
    BY <2>1, BytesAtIsSeq
<1>2. /\ Len(w) = e - s /\ \A i \in 1..(e - s) : w[i] = r.bytes[s + i].value
  <2>1. s <= e
    OBVIOUS
  <2> QED
    BY <2>1, BytesAtIsSeq
<1> HIDE DEF w
<1>3. SubSeq(w, a - s + 1, b - s) = [i \in 1..(b - a) |-> w[a - s + i]]
  <2>1. PICK m, n : m = a - s /\ n = b - s /\ m \in Nat /\ n \in Nat /\ m <= n /\ n <= Len(w)
    BY <1>2
  <2>2. SubSeq(w, m + 1, n) = [i \in 1..(n - m) |-> w[m + i]]
    BY <1>1, <2>1
  <2>3. n - m = b - a
    BY <2>1
  <2> QED
    BY <2>1, <2>2, <2>3
<1>4. \A i \in 1..(b - a) : w[a - s + i] = r.bytes[a + i].value
  <2> SUFFICES ASSUME NEW i \in 1..(b - a) PROVE w[a - s + i] = r.bytes[a + i].value
    OBVIOUS
  <2>1. a - s + i \in 1..(e - s) /\ s + (a - s + i) = a + i
    OBVIOUS
  <2> QED
    BY <1>2, <2>1
<1>5. SubSeq(w, a - s + 1, b - s) = BytesAt(r, a, b)
  BY <1>3, <1>4 DEF BytesAt
<1> QED
  BY <1>5 DEF w, Cut

----------------------------------------------------------------------------
(* The page cache                                                          *)

PageAt(r, start) ==
    [key |-> PageKey(r, start), data |-> BytesAt(r, start, start + PageLength(r, start))]
PageStarts(r) == {s \in 0..(Len(r.bytes) - 1) : Readable(r, s, s + PageLength(r, s))}
Pages(readers) == UNION {{PageAt(r, s) : s \in PageStarts(r)} : r \in readers}

\* A cache has pages of the readers as they are, and no more bytes than it may have.
CacheOK(cache, readers) == cache \in Seq(Pages(readers)) /\ BytesOf(cache) <= CacheBytes

\* A page begins in the disk, and ends there.
LEMMA PageInDisk ==
    ASSUME NEW r, Len(r.bytes) \in Nat, NEW start \in Nat, start < Len(r.bytes)
    PROVE  /\ PageLength(r, start) \in Nat /\ start + PageLength(r, start) \in Nat
           /\ 0 < PageLength(r, start) /\ PageLength(r, start) <= PageBytes
           /\ start + PageLength(r, start) <= Len(r.bytes)
           /\ \A b \in Nat : b <= start + PageBytes /\ b <= Len(r.bytes)
                                => b <= start + PageLength(r, start)
           /\ start + PageBytes <= Len(r.bytes) => PageLength(r, start) = PageBytes
BY DisksAssumption DEF PageLength, Shorter

\* A page that is held or read is as the reader has it.
LEMMA PageOfIs ==
    ASSUME NEW readers, SaneReaders(readers), NEW cache, CacheOK(cache, readers),
           NEW r \in readers, NEW start \in Nat, start < Len(r.bytes)
    PROVE  PageOf(r, start, cache) = Outcome(r, start, start + PageLength(r, start))
<1> DEFINE end == start + PageLength(r, start)
           held == Held(cache, PageKey(r, start))
<1>1. r.bytes \in Seq({r.bytes[i] : i \in DOMAIN r.bytes}) /\ Len(r.bytes) \in Nat
  BY DEF SaneReaders
<1>2. end \in Nat /\ start <= end /\ end <= Len(r.bytes) /\ end - start = PageLength(r, start)
  BY <1>1, PageInDisk
<1>3. ASSUME NEW data \in held
      PROVE  Readable(r, start, end) /\ data = BytesAt(r, start, end)
  <2>1. PICK i \in DOMAIN cache : cache[i].key = PageKey(r, start) /\ data = cache[i].data
    BY DEF Held
  <2>2. cache[i] \in Pages(readers)
    BY DEF CacheOK
  <2>3. PICK q \in readers : cache[i] \in {PageAt(q, s) : s \in PageStarts(q)}
    BY <2>2 DEF Pages
  <2>4. PICK s \in PageStarts(q) : cache[i] = PageAt(q, s)
    BY <2>3
  <2>5. PageKey(q, s) = PageKey(r, start)
    BY <2>1, <2>4 DEF PageAt
  <2>6. q.id = r.id /\ s = start
    BY <2>5 DEF PageKey
  <2>7. q = r
    BY <2>6 DEF SaneReaders
  <2> QED
    BY <2>1, <2>4, <2>6, <2>7 DEF PageAt, PageStarts
<1>4. PageOf(r, start, cache) = IF held # {} THEN Good(CHOOSE data \in held : TRUE)
                                ELSE ReadDirect(r, start, PageLength(r, start))
  BY DEF PageOf
<1> HIDE DEF held, end
<1>5. CASE held # {}
  <2>1. (CHOOSE data \in held : TRUE) \in held
    BY <1>5
  <2>2. PageOf(r, start, cache) = Good(BytesAt(r, start, end)) /\ Readable(r, start, end)
    BY <1>3, <1>4, <1>5, <2>1
  <2> QED
    BY <2>2 DEF Outcome, end
<1>6. CASE held = {}
  <2>1. ReadDirect(r, start, PageLength(r, start)) = Outcome(r, start, end)
    BY <1>1, <1>2, DirectIs
  <2> QED
    BY <1>4, <1>6, <2>1 DEF end
<1> QED
  BY <1>5, <1>6

\* What is in pages is a number of bytes.
LEMMA BytesOfPages ==
    ASSUME NEW readers, SaneReaders(readers), NEW c \in Seq(Pages(readers))
    PROVE  BytesOf(c) \in Nat /\ (c = <<>> => BytesOf(c) = 0)
<1> DEFINE g == [i \in DOMAIN c |-> Len(c[i].data)]
<1>1. ASSUME NEW i \in DOMAIN c PROVE Len(c[i].data) \in Nat
  <2>1. c[i] \in Pages(readers)
    OBVIOUS
  <2>2. PICK r \in readers : c[i] \in {PageAt(r, s) : s \in PageStarts(r)}
    BY <2>1 DEF Pages
  <2>3. PICK s \in PageStarts(r) : c[i] = PageAt(r, s)
    BY <2>2
  <2>4. Len(r.bytes) \in Nat
    BY DEF SaneReaders
  <2>5. s \in Nat /\ s < Len(r.bytes)
    BY <2>4 DEF PageStarts
  <2>6. PICK e \in Nat : e = s + PageLength(r, s) /\ s <= e
    BY <2>4, <2>5, PageInDisk
  <2>7. Len(BytesAt(r, s, e)) = e - s
    BY <2>5, <2>6, BytesAtIsSeq
  <2> QED
    BY <2>3, <2>5, <2>6, <2>7 DEF PageAt
<1>2. DOMAIN c = 1..Len(c) /\ Len(c) \in Nat
  OBVIOUS
<1>3. g \in [1..Len(c) -> Nat]
  BY <1>1, <1>2
<1>4. BytesOf(c) = TotalOf(g)
  BY DEF BytesOf
<1> HIDE DEF g
<1>5. g \in Seq(Nat) /\ Len(g) = Len(c)
  BY <1>2, <1>3
<1>6. TotalOf(g) \in Nat
  BY <1>5, TotalAppend
<1>7. ASSUME c = <<>> PROVE TotalOf(g) = 0
  <2>1. Len(g) = 0
    BY <1>5, <1>7
  <2>2. PICK f \in [0..Len(g) -> Nat] : f[0] = 0 /\ TotalOf(g) = f[Len(g)]
    BY <1>5, TotalGrows
  <2> QED
    BY <2>1, <2>2
<1> QED
  BY <1>4, <1>6, <1>7

\* Inserting a page keeps a cache of pages, within its limit.
LEMMA InsertKeeps ==
    ASSUME NEW readers, SaneReaders(readers), NEW cache, CacheOK(cache, readers),
           NEW key, NEW data, [key |-> key, data |-> data] \in Pages(readers)
    PROVE  CacheOK(Insert(cache, key, data), readers)
<1> DEFINE I == {i \in DOMAIN cache : cache[i].key # key}
           all == Append(WithoutKey(cache, key), [key |-> key, data |-> data])
           From(n) == SubSeq(all, n + 1, Len(all))
           Fits(n) == /\ BytesOf(From(n)) <= CacheBytes
                      /\ n > 0 => BytesOf(SubSeq(all, n, Len(all))) > CacheBytes
           kept == CHOOSE n \in 0..Len(all) : Fits(n)
<1>1. all \in Seq(Pages(readers))
  <2>1. WithoutKey(cache, key) = Keep(cache, I) /\ I \in SUBSET (DOMAIN cache)
    BY DEF WithoutKey
  <2>2. cache \in Seq(Pages(readers))
    BY DEF CacheOK
  <2>3. WithoutKey(cache, key) \in Seq(Pages(readers))
    BY <2>1, <2>2, KeepProperties
  <2> QED
    BY <2>3
<1>2. Insert(cache, key, data) = IF Len(data) > CacheBytes THEN cache ELSE From(kept)
  BY DEF Insert
<1> HIDE DEF all
<1>3. Len(all) \in Nat
  BY <1>1
<1>4. ASSUME NEW n \in 0..Len(all)
      PROVE  From(n) \in Seq(Pages(readers)) /\ BytesOf(From(n)) \in Nat
  <2>1. From(n) \in Seq(Pages(readers))
    BY <1>1, <1>3
  <2> QED
    BY <2>1, BytesOfPages
<1> DEFINE J == {n \in 0..Len(all) : BytesOf(From(n)) <= CacheBytes}
<1>5. Len(all) \in J
  <2>1. From(Len(all)) = <<>> /\ From(Len(all)) \in Seq(Pages(readers))
    BY <1>1, <1>3
  <2> HIDE DEF From
  <2>2. BytesOf(From(Len(all))) = 0
    BY <2>1, BytesOfPages
  <2> QED
    BY <1>3, <2>2, DisksAssumption
<1>6. J \in SUBSET Nat /\ J # {}
  BY <1>3, <1>5
<1> HIDE DEF J
<1>7. PICK n \in J : \A m \in J : n <= m
  BY <1>6, LeastExists
<1>8. n \in 0..Len(all) /\ BytesOf(From(n)) <= CacheBytes
  BY <1>7 DEF J
<1>9. n > 0 => BytesOf(SubSeq(all, n, Len(all))) > CacheBytes
  <2> SUFFICES ASSUME n > 0 PROVE BytesOf(SubSeq(all, n, Len(all))) > CacheBytes
    OBVIOUS
  <2>1. PICK m \in 0..Len(all) : m + 1 = n
    BY <1>3, <1>8
  <2>2. m \notin J
    BY <1>6, <1>7, <1>8, <2>1
  <2>3. ~(BytesOf(From(m)) <= CacheBytes) /\ BytesOf(From(m)) \in Nat
    BY <1>4, <2>2 DEF J
  <2>4. From(m) = SubSeq(all, n, Len(all))
    BY <2>1
  <2>5. PICK total \in Nat : total = BytesOf(From(m))
    BY <2>3
  <2>6. total > CacheBytes
    BY <2>3, <2>5, DisksAssumption
  <2> QED
    BY <2>4, <2>5, <2>6
<1>10. Fits(n)
  BY <1>8, <1>9
<1>11. kept \in 0..Len(all) /\ Fits(kept)
  <2> HIDE DEF Fits
  <2> QED
    BY <1>8, <1>10
<1> HIDE DEF kept
<1>12. CacheOK(From(kept), readers)
  BY <1>4, <1>11 DEF CacheOK
<1> HIDE DEF From
<1> QED
  BY <1>2, <1>12

----------------------------------------------------------------------------
(* Reads                                                                   *)

\* A read of a part of a page, after what comes before it.
LEMMA PageIsRead ==
    ASSUME NEW readers, SaneReaders(readers), NEW r \in readers,
           NEW start \in Nat, NEW offset \in Nat, NEW from \in Nat, NEW to \in Nat,
           offset <= from, start <= from, from < to, to <= start + PageBytes, to <= Len(r.bytes),
           NEW acc, CacheOK(acc.cache, readers), acc.result = Outcome(r, offset, from)
    PROVE  LET read == ReadPage(r, start, from, to, acc)
           IN  read.result = Outcome(r, offset, to) /\ CacheOK(read.cache, readers)
<1> DEFINE read == ReadPage(r, start, from, to, acc)
           end == start + PageLength(r, start)
           page == PageOf(r, start, acc.cache)
           key == PageKey(r, start)
<1>0. from <= to /\ start <= to
  OBVIOUS
<1>1. r.bytes \in Seq({r.bytes[i] : i \in DOMAIN r.bytes}) /\ Len(r.bytes) \in Nat
  BY DEF SaneReaders
<1>2. start < Len(r.bytes)
  BY <1>1
<1>3. end \in Nat /\ to <= end /\ from <= end
  BY <1>1, <1>2, PageInDisk
<1>4. page = Outcome(r, start, end)
  BY <1>1, <1>2, PageOfIs
<1>5. read = IF ~acc.result.ok THEN acc
             ELSE IF page.ok
             THEN Part(acc, Good(SubSeq(page.value, from - start + 1, to - start)),
                       Insert(acc.cache, key, page.value))
             ELSE Part(acc, ReadDirect(r, from, to - from), acc.cache)
  BY DEF ReadPage
<1>6. /\ Readable(r, offset, to) <=> Readable(r, offset, from) /\ Readable(r, from, to)
      /\ BytesAt(r, offset, from) \o BytesAt(r, from, to) = BytesAt(r, offset, to)
  BY <1>0, RangesJoin
<1> HIDE DEF read, page
<1>7. CASE ~Readable(r, offset, from)
  <2>1. ~acc.result.ok /\ acc.result = Fail
    BY <1>7, OutcomeIs
  <2>2. read = acc
    BY <1>5, <2>1
  <2>3. Outcome(r, offset, to) = Fail
    BY <1>6, <1>7 DEF Outcome
  <2> QED
    BY <2>1, <2>2, <2>3 DEF read
<1>8. CASE Readable(r, offset, from) /\ Readable(r, start, end)
  <2>1. acc.result.ok /\ acc.result.value = BytesAt(r, offset, from)
    BY <1>8, OutcomeIs
  <2>2. page.ok /\ page.value = BytesAt(r, start, end)
    BY <1>4, <1>8, OutcomeIs
  <2>3. SubSeq(page.value, from - start + 1, to - start) = BytesAt(r, from, to)
    <3>1. PICK e \in Nat : e = end
      BY <1>3
    <3>2. page.value = BytesAt(r, start, e) /\ to <= e
      BY <1>3, <2>2, <3>1
    <3>3. Cut(BytesAt(r, start, e), from - start + 1, to - start) = BytesAt(r, from, to)
      BY <1>0, <3>1, <3>2, PartOfRange
    <3> QED
      BY <3>2, <3>3 DEF Cut
  <2>4. Readable(r, from, to)
    <3>1. Readable(r, start, to)
      BY <1>0, <1>3, <1>8, RangesJoin
    <3> QED
      BY <1>0, <3>1, RangesJoin
  <2>5. read = Part(acc, Good(BytesAt(r, from, to)), Insert(acc.cache, key, page.value))
    BY <1>5, <2>1, <2>2, <2>3
  <2>6. /\ read.result = Good(BytesAt(r, offset, from) \o BytesAt(r, from, to))
        /\ read.cache = Insert(acc.cache, key, page.value)
    BY <2>1, <2>5 DEF Part, Good
  <2>7. Outcome(r, offset, to) = Good(BytesAt(r, offset, to))
    BY <1>6, <1>8, <2>4 DEF Outcome
  <2>8. [key |-> key, data |-> page.value] \in Pages(readers)
    <3>1. start \in PageStarts(r)
      BY <1>1, <1>2, <1>8 DEF PageStarts
    <3>2. [key |-> key, data |-> page.value] = PageAt(r, start)
      BY <2>2 DEF PageAt
    <3>3. PageAt(r, start) \in {PageAt(r, s) : s \in PageStarts(r)}
      BY <3>1
    <3> QED
      BY <3>2, <3>3 DEF Pages
  <2>9. CacheOK(Insert(acc.cache, key, page.value), readers)
    BY <2>8, InsertKeeps
  <2> QED
    BY <1>6, <2>6, <2>7, <2>9 DEF read
<1>9. CASE Readable(r, offset, from) /\ ~Readable(r, start, end)
  <2>1. acc.result.ok /\ acc.result.value = BytesAt(r, offset, from)
    BY <1>9, OutcomeIs
  <2>2. ~page.ok
    BY <1>4, <1>9, OutcomeIs
  <2>3. ReadDirect(r, from, to - from) = Outcome(r, from, to)
    BY <1>0, <1>1, DirectIs
  <2>4. read = Part(acc, Outcome(r, from, to), acc.cache)
    BY <1>5, <2>1, <2>2, <2>3
  <2>5. CASE Readable(r, from, to)
    <3>1. read = Part(acc, Good(BytesAt(r, from, to)), acc.cache)
      BY <2>4, <2>5 DEF Outcome
    <3>2. /\ read.result = Good(BytesAt(r, offset, from) \o BytesAt(r, from, to))
          /\ read.cache = acc.cache
      BY <2>1, <3>1 DEF Part, Good
    <3>3. Outcome(r, offset, to) = Good(BytesAt(r, offset, to))
      BY <1>6, <1>9, <2>5 DEF Outcome
    <3> QED
      BY <1>6, <3>2, <3>3 DEF read
  <2>6. CASE ~Readable(r, from, to)
    <3>1. read = Part(acc, Fail, acc.cache)
      BY <2>4, <2>6 DEF Outcome
    <3>2. read.result = Fail /\ read.cache = acc.cache
      BY <3>1 DEF Part, Fail
    <3>3. Outcome(r, offset, to) = Fail
      BY <1>6, <2>6 DEF Outcome
    <3> QED
      BY <3>2, <3>3 DEF read
  <2> QED
    BY <2>5, <2>6
<1> QED
  BY <1>7, <1>8, <1>9

\* Where a position is in its page.
LEMMA WhereInPages ==
    ASSUME NEW b \in Nat \ {0}, NEW a \in Nat
    PROVE  (a \div b) * b \in Nat /\ (a \div b) * b <= a /\ a < (a \div b) * b + b
OBVIOUS

\* What is asked for is read from a page or from two.
LEMMA ShortIsRead ==
    ASSUME NEW readers, SaneReaders(readers), NEW r \in readers,
           NEW offset \in Nat, NEW end \in Nat, offset < end, end <= Len(r.bytes),
           end - offset < PageBytes, NEW cache, CacheOK(cache, readers)
    PROVE  LET read == ReadShort(r, offset, end, cache)
           IN  read.result = Outcome(r, offset, end) /\ CacheOK(read.cache, readers)
<1> DEFINE start == (offset \div PageBytes) * PageBytes
           next == start + PageBytes
           acc == [result |-> Good(<<>>), cache |-> cache]
           first == ReadPage(r, start, offset, Shorter(next, end), acc)
<1>1. PageBytes \in Nat /\ PageBytes > 0
  BY DisksAssumption
<1>2. start \in Nat /\ start <= offset /\ offset < next /\ next \in Nat
  <2>1. /\ start \in Nat /\ start <= offset /\ offset < start + PageBytes
    BY <1>1, WhereInPages
  <2> QED
    BY <1>1, <2>1
<1>3. ReadShort(r, offset, end, cache)
          = IF end <= next THEN first ELSE ReadPage(r, next, next, end, first)
  BY DEF ReadShort
<1> HIDE DEF start
<1> DEFINE to == Shorter(next, end)
<1>4. /\ to \in Nat /\ offset < to /\ to <= next /\ to <= end /\ to <= Len(r.bytes)
      /\ (end <= next => to = end) /\ (~(end <= next) => to = next)
  <2>1. Len(r.bytes) \in Nat
    BY DEF SaneReaders
  <2> HIDE DEF next
  <2> QED
    BY <1>2, <2>1 DEF Shorter
<1>5. acc.result = Outcome(r, offset, offset) /\ CacheOK(acc.cache, readers)
  <2>1. (offset + 1)..offset = {} /\ 1..(offset - offset) = {}
    OBVIOUS
  <2>2. Readable(r, offset, offset)
    BY <2>1 DEF Readable
  <2>3. BytesAt(r, offset, offset) = <<>>
    BY <2>1 DEF BytesAt
  <2> QED
    BY <2>2, <2>3 DEF Outcome
<1>6. first.result = Outcome(r, offset, to) /\ CacheOK(first.cache, readers)
  <2> HIDE DEF acc, to
  <2>1. to <= start + PageBytes
    BY <1>4
  <2> QED
    BY <1>2, <1>4, <1>5, <2>1, PageIsRead DEF to
<1> HIDE DEF first
<1>7. CASE end <= next
  BY <1>3, <1>4, <1>6, <1>7
<1>8. CASE ~(end <= next)
  <2>1. first.result = Outcome(r, offset, next) /\ CacheOK(first.cache, readers)
    BY <1>4, <1>6, <1>8
  <2>2. next < end /\ end <= next + PageBytes /\ offset <= next /\ next <= next
    BY <1>1, <1>2, <1>8
  <2> HIDE DEF next, to
  <2>3. LET read == ReadPage(r, next, next, end, first)
        IN  read.result = Outcome(r, offset, end) /\ CacheOK(read.cache, readers)
    BY <1>2, <2>1, <2>2, PageIsRead
  <2> QED
    BY <1>3, <1>8, <2>3
<1> QED
  BY <1>7, <1>8

\* The whole pages in a range that is at least as long as one.
LEMMA PagesInRange ==
    ASSUME NEW b \in Nat \ {0}, NEW a \in Nat, NEW e \in Nat, e - a >= b
    PROVE  LET c == CeilDiv(a, b)
               m == e \div b
           IN  /\ c \in Nat /\ m \in Nat /\ c <= m
               /\ \A n \in 1..(m - c) : LET s == (c + n - 1) * b
                                        IN  s \in Nat /\ a <= s /\ s + b <= e
<1> DEFINE c == (a + b - 1) \div b
           m == e \div b
<1>1. c \in Nat /\ c * b \in Nat /\ a <= c * b /\ c * b < a + b
  OBVIOUS
<1>2. m \in Nat /\ m * b \in Nat /\ m * b <= e /\ e < m * b + b
  OBVIOUS
<1> HIDE DEF c, m
<1>3. c <= m
  <2> SUFFICES ASSUME m + 1 <= c PROVE FALSE
    BY <1>1, <1>2
  <2>1. (m + 1) * b <= c * b /\ (m + 1) * b = m * b + b
    BY <1>1, <1>2
  <2> QED
    BY <1>1, <1>2, <2>1
<1>4. ASSUME NEW n \in 1..(m - c)
      PROVE  (c + n - 1) * b \in Nat /\ a <= (c + n - 1) * b /\ (c + n - 1) * b + b <= e
  <2>1. PICK k \in Nat : k = c + n - 1 /\ c <= k /\ k + 1 <= m
    BY <1>1, <1>2, <1>3
  <2>2. k * b \in Nat /\ c * b <= k * b /\ (k + 1) * b <= m * b /\ (k + 1) * b = k * b + b
    BY <1>1, <1>2, <2>1
  <2> QED
    BY <1>1, <1>2, <2>1, <2>2
<1> QED
  BY <1>1, <1>2, <1>3, <1>4 DEF c, m, CeilDiv

\* The pages of a long read that are kept are as the reader has them.
LEMMA RetainedKeeps ==
    ASSUME NEW readers, SaneReaders(readers), NEW r \in readers,
           NEW offset \in Nat, NEW end \in Nat, end <= Len(r.bytes), end - offset >= PageBytes,
           Readable(r, offset, end), NEW cache, CacheOK(cache, readers)
    PROVE  CacheOK(Retained(cache, r, offset, BytesAt(r, offset, end)), readers)
<1> DEFINE bytes == BytesAt(r, offset, end)
           start(n) == (CeilDiv(offset, PageBytes) + n - 1) * PageBytes
           pages == (offset + Len(bytes)) \div PageBytes - CeilDiv(offset, PageBytes)
           data(n) == SubSeq(bytes, start(n) - offset + 1, start(n) - offset + PageBytes)
           V == {c \in Seq(Pages(readers)) : CacheOK(c, readers)}
           After(f) == f = [n \in 0..pages |-> IF n = 0 THEN cache
                                               ELSE Insert(f[n - 1], PageKey(r, start(n)), data(n))]
           step == [n \in 1..pages |-> [c \in V |-> Insert(c, PageKey(r, start(n)), data(n))]]
<1>1. PageBytes \in Nat \ {0} /\ Len(r.bytes) \in Nat /\ offset <= end
  BY DisksAssumption DEF SaneReaders
<1>2. pages \in Nat /\ \A n \in 1..pages : start(n) \in Nat /\ offset <= start(n) /\ start(n) + PageBytes <= end
  <2>1. offset + Len(bytes) = end
    <3>1. Len(bytes) = end - offset
      BY <1>1, BytesAtIsSeq
    <3> HIDE DEF bytes
    <3> QED
      BY <1>1, <3>1
  <2> HIDE DEF bytes
  <2>2. LET c == CeilDiv(offset, PageBytes)
            m == end \div PageBytes
        IN  /\ c \in Nat /\ m \in Nat /\ c <= m
            /\ \A n \in 1..(m - c) : LET s == (c + n - 1) * PageBytes
                                     IN  s \in Nat /\ offset <= s /\ s + PageBytes <= end
    BY <1>1, PagesInRange
  <2> QED
    BY <2>1, <2>2
<1> HIDE DEF start, pages
<1>3. ASSUME NEW n \in 1..pages
      PROVE  [key |-> PageKey(r, start(n)), data |-> data(n)] \in Pages(readers)
  <2>1. PICK s \in Nat : s = start(n) /\ offset <= s /\ s + PageBytes <= end
    BY <1>2
  <2>2. PICK e \in Nat : e = s + PageBytes /\ s <= e /\ e <= end /\ s < Len(r.bytes) /\ e <= Len(r.bytes)
    BY <1>1, <2>1
  <2>3. PageLength(r, s) = PageBytes /\ s + PageLength(r, s) = e
    BY <1>1, <2>1, <2>2, PageInDisk
  <2>4. Cut(bytes, s - offset + 1, e - offset) = BytesAt(r, s, e)
    BY <2>1, <2>2, PartOfRange
  <2>5. data(n) = BytesAt(r, s, e)
    <3>1. e - offset = s - offset + PageBytes
      BY <1>1, <2>1, <2>2
    <3>2. data(n) = Cut(bytes, s - offset + 1, e - offset)
      BY <2>1, <3>1 DEF Cut
    <3> QED
      BY <2>4, <3>2
  <2>6. Readable(r, s, e)
    <3>1. offset <= s /\ s <= end
      BY <2>1, <2>2
    <3>2. Readable(r, s, end)
      BY <3>1, RangesJoin
    <3> QED
      BY <2>2, <3>2, RangesJoin
  <2> HIDE DEF data, bytes
  <2>7. s \in PageStarts(r)
    BY <1>1, <2>2, <2>3, <2>6 DEF PageStarts
  <2>8. [key |-> PageKey(r, start(n)), data |-> data(n)] = PageAt(r, s)
    BY <2>1, <2>3, <2>5 DEF PageAt
  <2>9. PageAt(r, s) \in {PageAt(r, t) : t \in PageStarts(r)}
    BY <2>7
  <2> QED
    BY <2>8, <2>9 DEF Pages
<1>4. Retained(cache, r, offset, bytes) = (CHOOSE f : After(f))[pages]
  BY DEF Retained, start, pages
<1> HIDE DEF data, bytes
<1>5. ASSUME NEW n \in 1..pages, NEW c \in V
      PROVE  Insert(c, PageKey(r, start(n)), data(n)) \in V
  <2>1. CacheOK(c, readers)
    OBVIOUS
  <2>2. CacheOK(Insert(c, PageKey(r, start(n)), data(n)), readers)
    BY <1>3, <2>1, InsertKeeps
  <2> QED
    BY <2>2 DEF CacheOK
<1>6. cache \in V
  BY DEF CacheOK
<1> HIDE DEF V
<1>7. step \in [1..pages -> [V -> V]]
  BY <1>5
<1> HIDE DEF step
<1>8. PICK f \in [0..pages -> V] : f = [n \in 0..pages |-> IF n = 0 THEN cache ELSE step[n][f[n - 1]]]
  <2>1. PICK N, W : N = pages /\ W = V
    OBVIOUS
  <2>2. N \in Nat /\ cache \in W /\ step \in [1..N -> [W -> W]]
    BY <1>2, <1>6, <1>7, <2>1
  <2>3. \E f \in [0..N -> W] : f = [n \in 0..N |-> IF n = 0 THEN cache ELSE step[n][f[n - 1]]]
    BY <2>2, Recursion
  <2> QED
    BY <2>1, <2>3
<1>9. After(f)
  <2>1. ASSUME NEW n \in 0..pages
        PROVE  f[n] = IF n = 0 THEN cache ELSE Insert(f[n - 1], PageKey(r, start(n)), data(n))
    <3>1. CASE n = 0
      BY <1>8, <3>1
    <3>2. CASE n # 0
      <4>1. n \in 1..pages /\ n - 1 \in 0..pages
        BY <1>2, <3>2
      <4>2. f[n] = step[n][f[n - 1]] /\ f[n - 1] \in V
        BY <1>8, <3>2, <4>1
      <4> QED
        BY <3>2, <4>1, <4>2 DEF step
    <3> QED
      BY <3>1, <3>2
  <2>2. f = [n \in 0..pages |-> f[n]]
    BY <1>8
  <2> QED
    BY <2>1, <2>2
<1> DEFINE after == CHOOSE g : After(g)
<1>10. After(after)
  BY <1>9
<1> HIDE DEF after
<1>11. \A n \in 0..pages : after[n] = IF n = 0 THEN cache
                                      ELSE Insert(after[n - 1], PageKey(r, start(n)), data(n))
  BY <1>10
<1> DEFINE T == {n \in Nat : n <= pages => after[n] \in V}
<1>12. 0 \in T
  BY <1>2, <1>6, <1>11
<1>13. ASSUME NEW n \in Nat, n \in T PROVE n + 1 \in T
  <2> SUFFICES ASSUME n + 1 <= pages PROVE after[n + 1] \in V
    OBVIOUS
  <2>1. PICK k \in 1..pages : k = n + 1
    BY <1>2
  <2>2. k \in 0..pages /\ k # 0 /\ k - 1 = n /\ n <= pages
    BY <1>2, <2>1
  <2>3. after[n] \in V
    BY <1>13, <2>2, Zenon
  <2>4. after[k] = Insert(after[k - 1], PageKey(r, start(k)), data(k))
    BY <1>11, <2>2, Zenon
  <2>5. Insert(after[n], PageKey(r, start(k)), data(k)) \in V
    BY <1>5, <2>1, <2>3
  <2> QED
    BY <2>1, <2>2, <2>4, <2>5
<1> HIDE DEF T
<1>14. Nat \subseteq T
  BY <1>12, <1>13, SetInduction
<1>15. after[pages] \in V
  BY <1>2, <1>14 DEF T
<1> QED
  BY <1>4, <1>15 DEF after, V, bytes

\* Any range is read as the reader has it, and leaves pages in the cache.
LEMMA RangeIsRead ==
    ASSUME NEW readers, SaneReaders(readers), NEW r \in readers,
           NEW offset \in Nat, NEW end \in Nat, offset < end, end <= Len(r.bytes),
           NEW cache, CacheOK(cache, readers)
    PROVE  LET read == ReadDiskAt(r, offset, end, cache)
           IN  read.result = ReadDirect(r, offset, end - offset) /\ CacheOK(read.cache, readers)
<1> DEFINE read == ReadDiskAt(r, offset, end, cache)
           whole == ReadDirect(r, offset, end - offset)
<1>1. /\ PageBytes \in Nat /\ offset <= end
      /\ r.bytes \in Seq({r.bytes[i] : i \in DOMAIN r.bytes})
  BY DisksAssumption DEF SaneReaders
<1>2. whole = Outcome(r, offset, end)
  BY <1>1, DirectIs
<1> HIDE DEF whole
<1>3. CASE end - offset >= PageBytes
  <2>1. read = ReadLong(r, offset, end, cache)
    BY <1>3 DEF ReadDiskAt
  <2>2. read.result = whole /\ read.cache = IF whole.ok THEN Retained(cache, r, offset, whole.value) ELSE cache
    BY <2>1 DEF ReadLong, whole
  <2> HIDE DEF read
  <2>3. CASE Readable(r, offset, end)
    <3>1. whole.ok /\ whole.value = BytesAt(r, offset, end)
      BY <1>2, <2>3, OutcomeIs
    <3>2. CacheOK(Retained(cache, r, offset, BytesAt(r, offset, end)), readers)
      BY <1>3, <2>3, RetainedKeeps
    <3> QED
      BY <2>2, <3>1, <3>2 DEF read, whole
  <2>4. CASE ~Readable(r, offset, end)
    <3>1. ~whole.ok
      BY <1>2, <2>4, OutcomeIs
    <3> QED
      BY <2>2, <3>1 DEF read, whole
  <2> QED
    BY <2>3, <2>4
<1>4. CASE ~(end - offset >= PageBytes)
  <2>1. read = ReadShort(r, offset, end, cache)
    BY <1>4 DEF ReadDiskAt
  <2>2. end - offset < PageBytes
    BY <1>1, <1>4
  <2>3. /\ ReadShort(r, offset, end, cache).result = Outcome(r, offset, end)
        /\ CacheOK(ReadShort(r, offset, end, cache).cache, readers)
    BY <2>2, ShortIsRead
  <2> QED
    BY <1>2, <2>1, <2>3 DEF read, whole
<1> QED
  BY <1>3, <1>4

----------------------------------------------------------------------------
(* The invariant                                                           *)

\* The last answer is what the reader of that disk has at the range.
AnswerOK(answer, readers) ==
    \A r \in readers :
        answer.length > 0 /\ r.id = answer.id => answer.result = ReadDirect(r, answer.offset, answer.length)

ReadingInv ==
    /\ SaneReaders(found.readers)
    /\ CacheOK(disk.cache, found.readers)
    /\ AnswerOK(disk.answer, found.readers)

LEMMA ReadingStart == Init => ReadingInv
<1> SUFFICES ASSUME Init PROVE ReadingInv
  OBVIOUS
<1>1. SaneReaders(found.readers)
  <2>1. CASE Reading
    <3>1. evidence \in Evidence /\ found = Found(evidence)
      BY <2>1 DEF Init, DiskInit
    <3> QED
      BY <3>1, FoundAreSane
  <2>2. CASE ~Reading
    <3>1. found.readers = {}
      BY <2>2 DEF Init, DiskInit, Exits
    <3> QED
      BY <3>1 DEF SaneReaders
  <2> QED
    BY <2>1, <2>2
<1>2. disk.cache = <<>> /\ disk.answer.length = 0
  BY DEF Init, DiskInit, NoAnswer
<1>3. CacheOK(<<>>, found.readers)
  <2>1. <<>> \in Seq(Pages(found.readers))
    OBVIOUS
  <2>2. BytesOf(<<>>) = 0
    BY <1>1, <2>1, BytesOfPages
  <2> QED
    BY <2>1, <2>2, DisksAssumption DEF CacheOK
<1> QED
  BY <1>1, <1>2, <1>3 DEF ReadingInv, AnswerOK

\* PhysicalDiskReader::read_at()
LEMMA ReadDiskKeeps ==
    ASSUME ReadingInv, NEW reader \in found.readers, NEW request \in Requests,
           ReadDisk(reader, request[1], request[2])
    PROVE  ReadingInv'
<1> DEFINE offset == request[1]
           end == Shorter(Len(reader.bytes), offset + request[2])
           read == ReadDiskAt(reader, offset, end, disk.cache)
<1>1. SaneReaders(found.readers) /\ CacheOK(disk.cache, found.readers)
  BY DEF ReadingInv
<1>2. offset \in Nat /\ request[2] \in Nat
  BY DisksAssumption
<1>3. Len(reader.bytes) \in Nat
  BY <1>1 DEF SaneReaders
<1>4. end \in Nat /\ end <= Len(reader.bytes)
  BY <1>2, <1>3 DEF Shorter
<1>5. /\ offset < end /\ found' = found
      /\ disk' = [cache |-> read.cache,
                  answer |-> [id |-> reader.id, offset |-> offset, length |-> end - offset,
                              result |-> read.result]]
  BY DEF ReadDisk
<1> HIDE DEF end, read
<1>6. read.result = ReadDirect(reader, offset, end - offset) /\ CacheOK(read.cache, found.readers)
  <2> HIDE DEF offset
  <2> QED
    BY <1>1, <1>2, <1>4, <1>5, RangeIsRead DEF read
<1>7. disk'.cache = read.cache /\ disk'.answer = [id |-> reader.id, offset |-> offset,
                                                  length |-> end - offset, result |-> read.result]
  BY <1>5
<1>8. AnswerOK(disk'.answer, found.readers)
  <2> SUFFICES ASSUME NEW r \in found.readers, r.id = disk'.answer.id
               PROVE  disk'.answer.result = ReadDirect(r, disk'.answer.offset, disk'.answer.length)
    BY DEF AnswerOK
  <2>1. r.id = reader.id
    BY <1>7
  <2>2. r = reader
    BY <1>1, <2>1 DEF SaneReaders
  <2> QED
    BY <1>6, <1>7, <2>2
<1> QED
  BY <1>1, <1>5, <1>6, <1>7, <1>8 DEF ReadingInv

\* Nothing else reads a disk.
LEMMA ReadingInvNext ==
    ASSUME ReadingInv, [Next]_vars
    PROVE  ReadingInv'
<1>1. CASE UNCHANGED diskVars
  BY <1>1 DEF ReadingInv, diskVars
<1>2. CASE (TransferNext /\ AtTransfer) \/ (CollectionNext /\ AtCollection) \/ (SessionNext /\ AtSession)
  BY <1>1, <1>2 DEF AtTransfer, AtCollection, AtSession
<1>3. CASE DiskNext /\ AtDisk
  <2>1. CASE DiskStep
    BY <1>1, <2>1 DEF DiskStep, VerifyVolume, VerifyEntry, VerifySet, Verify, DiscoverDisks,
                      CloseDisk, OnlyReport
  <2>2. ASSUME NEW reader \in found.readers, NEW request \in Requests,
               ReadDisk(reader, request[1], request[2])
        PROVE  ReadingInv'
    BY <2>2, ReadDiskKeeps
  <2> QED
    BY <1>3, <2>1, <2>2 DEF DiskNext
<1>4. CASE CommandFails \/ Cancel \/ Interfere
  BY <1>1, <1>4 DEF CommandFails, Cancel, Interfere, AtCommand, AtSession
<1>5. CASE UNCHANGED vars
  BY <1>1, <1>5 DEF vars
<1> QED
  BY <1>2, <1>3, <1>4, <1>5 DEF Next

\* volume_set.rs, "Read-ahead must not make a valid requested range fail only
\* because later bytes in the same page are unreadable": whatever was read before,
\* kept and dropped, an answer is what the disk has in that range, and the cache
\* keeps its limit (VolumeSet::read_disk_at, retain_complete_pages,
\* DecodedChunkCache::insert, DiskImageSet::discover).
THEOREM ReadsAreExact == FairSpec => []ReadsExact
<1>1. Init => ReadingInv
  BY ReadingStart
<1>2. ReadingInv /\ [Next]_vars => ReadingInv'
  BY ReadingInvNext
<1>3. ReadingInv => ReadsExact
  BY DEF ReadingInv, ReadsExact, AnswerOK, CacheOK
<1> QED
  BY <1>1, <1>2, <1>3, PTL DEF FairSpec

=============================================================================
