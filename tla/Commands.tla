------------------------------ MODULE Commands ------------------------------
(***************************************************************************)
(* crates/ewf-cli/src/main.rs: one command of the program from its start   *)
(* to its exit code.  The transfers (Transfer.tla), the AFF4 collections   *)
(* and extractions (Aff4Collection.tla) and the readings of AFF4 evidence  *)
(* (Aff4Disks.tla) share the stop of ctrl-C, the destination and the       *)
(* report (Cli.tla).  A session of EWF acquisition (EwfSession.tla) is      *)
(* several commands, one after the other.                                  *)
(***************************************************************************)
EXTENDS Transfer, Aff4Collection, Aff4Disks, EwfSession

vars == <<cliVars, transferVars, collectionVars, diskVars, sessionVars>>

\* The program is started with one of the commands; the tree a collection is
\* given may have anything where a file was.
Init ==
    /\ job \in Transfers \cup Collections \cup Extractions \cup Readings \cup Sessions
    /\ CliInit /\ TransferInit /\ CollectionInit /\ DiskInit /\ SessionInit
    /\ job.kind # "collect" => tree = CHOOSE t \in Trees : TRUE

AtTransfer == UNCHANGED <<collectionVars, diskVars, sessionVars>>
AtCollection == UNCHANGED <<transferVars, diskVars, sessionVars>>
AtDisk == UNCHANGED <<transferVars, collectionVars, sessionVars>>
AtSession == UNCHANGED <<transferVars, collectionVars, diskVars>>
AtCommand == AtSession /\ UNCHANGED sessionVars

\* Everything a command writes to has one name, `output'.
Writes == ~Reading /\ IF IsTransfer THEN job.target # "none" ELSE TRUE

BeforeLastCheck ==
    CASE IsTransfer -> BeforeLastTransferCheck
      [] Reading    -> BeforeLastDiskCheck
      [] InSession  -> FALSE
      [] OTHER      -> BeforeLastCollectionCheck

CommandFails == ReportFailure /\ AtCommand
Cancel == StopWhen(BeforeLastCheck) /\ AtCommand
Interfere == Writes /\ Appear /\ AtCommand

Next ==
    \/ TransferNext /\ AtTransfer
    \/ CollectionNext /\ AtCollection
    \/ DiskNext /\ AtDisk
    \/ SessionNext /\ AtSession
    \/ CommandFails
    \/ Cancel
    \/ Interfere

\* A session's read has no deadline unless it is given one (ReadArgs): it may not
\* return until the command is stopped.
SourceHangs == main.at = "reading" /\ ~stop

\* The command's thread runs, and the read-ahead thread does, while no driver hangs.
CommandStep ==
    \/ CASE IsTransfer -> CopyStep /\ AtTransfer
         [] Reading    -> DiskStep /\ AtDisk
         [] InSession  -> (SessionBegins \/ SessionStep) /\ ~SourceHangs /\ AtSession
         [] OTHER      -> CollectStep /\ AtCollection
    \/ CommandFails

FairSpec ==
    /\ Init /\ [][Next]_vars
    /\ WF_vars(CommandStep)
    /\ WF_vars(ProducerRuns /\ AtTransfer)

----------------------------------------------------------------------------

\* A command ends.  One that reads a device, or a session's source, ends when it is
\* stopped, whatever the driver does, or when everything has been read
\* (prefetch.rs, Reader::read; source/reader.rs, Reader::read_at; Progress::event).
HasReadAll == Len(taken) = Size \/ (session.journal # "none" /\ session.sealed = Chunks)
CommandEnds ==
    (stop \/ (job.kind # "device" /\ ~InSession) \/ HasReadAll) ~> Over
=============================================================================
