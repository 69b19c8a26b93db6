------------------------------ MODULE EwfSession ------------------------------
(***************************************************************************)
(* crates/ewf-cli/src/ewf/mod.rs, session.rs and history.rs: an acquisition *)
(* to EWF is a session of several commands, `acquire', then `resume' as     *)
(* often as it takes, and `report'.  On disk it has a manifest, a history   *)
(* of records that are only added, a saved report derived from it, the      *)
(* state directory of the acquisition writer and the image.  A command may  *)
(* be killed or fail anywhere; a lock (session::lock) keeps others out      *)
(* while it runs, so there is one command at a time.                        *)
(*                                                                         *)
(* The writer is Acquisition.tla's; of it only the number of chunks it has  *)
(* sealed and the steps of its publication are kept.                        *)
(***************************************************************************)
EXTENDS Cli, Totals, Integers, FiniteSetsExt

CONSTANTS Chunks,      \* chunks of the source
          MaxRecords,  \* MAX_RECORDS
          MaxCommands, \* bound on the commands of a session before its last report
          Sessions

ASSUME SessionAssumption ==
    /\ {Chunks, MaxRecords, MaxCommands} \subseteq Nat \ {0}
    /\ Sessions \subseteq [kind : {"session"}]

VARIABLES session,    \* what the session has on disk, but for the image
          run,     \* the command, its History, and what its report counts
          started, \* the commands started
          reads    \* history: the attempts to read the source, of all commands

sessionVars == <<session, run, started, reads>>

InSession == job.kind = "session"

NoRun == [command |-> "none", audit |-> FALSE, number |-> 0, sequence |-> 0, failure |-> FALSE,
          checkpoint |-> -1, read_attempts |-> 0, retried |-> FALSE, result |-> "complete"]
NoReport == [reads |-> -1]
NoSession == [manifest |-> FALSE, folder |-> FALSE, records |-> <<>>, pending |-> 0,
              saved |-> NoReport, journal |-> "none", sealed |-> 0]

OnlySession == UNCHANGED <<jobVars, started, reads>>
OnlyRun == OnlySession /\ UNCHANGED output

\* The command's result: it has still to be recorded.
Ends(code) == main' = [main EXCEPT !.at = "end", !.exit = code]
\* Progress::event()
Unstopped(next) == IF stop THEN Ends(130) ELSE Goto(next)

----------------------------------------------------------------------------
(* history.rs: adding a record, and what is read from them                  *)

Record(event, r) ==
    [event |-> event, run |-> r.number, read_attempts |-> r.read_attempts,
     exit_code |-> main.exit, prior_unavailable |-> r.command # "acquire"]

\* History::event(): the record is written to a temporary file that takes its
\* name, and the folder is synced.  After a failure there are no more records.
Event(event, changed, Then, Otherwise) ==
    \/ /\ ~run.failure /\ run.sequence < MaxRecords /\ Len(session.records) = run.sequence
       /\ session' = [session EXCEPT !.records = Append(@, Record(event, changed))]
       /\ \/ run' = [changed EXCEPT !.sequence = @ + 1] /\ Then
          \/ run' = [changed EXCEPT !.failure = TRUE] /\ Otherwise
    \/ run' = [changed EXCEPT !.failure = TRUE] /\ Otherwise /\ UNCHANGED session

\* load(): the last start up to record i, or 0
StartOf(records, i) ==
    LET starts == {j \in 1..i : records[j].event = "run_start"}
    IN  CHOOSE j \in starts \cup {0} : \A k \in starts : k <= j
\* The records of a run that are one of `events', and whether it is closed.
OfRun(records, start, events) ==
    {i \in DOMAIN records : records[i].run = start /\ records[i].event \in events}
Closed(records, start) == OfRun(records, start, {"run_end"}) # {}

\* What load() accepts: the record of the session, then those of one run after the
\* other, none behind the end of its run.
Ordered(records) ==
    \A i \in DOMAIN records :
       LET record == records[i]
       IN  IF i = 1 THEN record.event = "session" /\ record.run = 0
           ELSE /\ record.event # "session"
                /\ record.run > 0 /\ record.run = StartOf(records, i)
                /\ \A end \in OfRun(records, record.run, {"run_end"}) : i <= end
Loads(d) == Len(d.records) + d.pending <= MaxRecords /\ Ordered(d.records)

\* The attempts of a run: those of its closing record, or of its last progress.
AttemptsOf(records, start) ==
    LET counted == OfRun(records, start, IF Closed(records, start) THEN {"run_end"}
                                         ELSE {"checkpoint", "read_error"})
    IN  IF counted = {} THEN 0 ELSE records[Max(counted)].read_attempts

Starts(records) == {i \in DOMAIN records : records[i].event = "run_start"}
Reads(records) ==
    TotalOf([i \in DOMAIN records |->
                IF i \in Starts(records) THEN AttemptsOf(records, i) ELSE 0])
\* Faulty variant: what an interrupted run recorded last is taken for its result.
CountersOfAll(d) == d.records # <<>> /\ ~d.records[1].prior_unavailable /\ d.pending = 0
CountersComplete(d) ==
    /\ d.records # <<>> /\ ~d.records[1].prior_unavailable
    /\ d.pending = 0
    /\ \A i \in Starts(d.records) : Closed(d.records, i)
\* The summary: the counters, whether they are complete, and of the latest run the
\* exit code it was closed with and whether it published.
Summary(d) ==
    LET latest == StartOf(d.records, Len(d.records))
    IN  [reads |-> Reads(d.records), complete |-> CountersComplete(d),
         latest |-> {d.records[i].exit_code : i \in OfRun(d.records, latest, {"run_end"})},
         publication |-> OfRun(d.records, latest, {"published"}) # {}]

----------------------------------------------------------------------------
(* run(): from the command to its writer                                    *)

\* `acquire' saves the manifest unless there is one; others have to load it.
BeginAcquire ==
    \/ Exit(1) /\ UNCHANGED session
    \/ /\ ~session.manifest
       /\ session' = [session EXCEPT !.manifest = TRUE]
       /\ Goto("history") \/ Exit(1)
BeginResume == (IF session.manifest THEN Goto("history") ELSE Exit(1)) /\ UNCHANGED session
\* report(), with --write
WriteReport ==
    \/ Exit(1) /\ UNCHANGED session
    \/ /\ session.manifest /\ session.folder /\ Loads(session)
       /\ session' = [session EXCEPT !.saved = Summary(session)]
       /\ Exit(0) \/ Exit(1)
Begin(command) ==
    /\ main.at = "start" /\ InSession
    /\ started < MaxCommands \/ command = "report"
    /\ started' = started + 1
    /\ run' = [NoRun EXCEPT !.command = command]
    /\ CASE command = "acquire" -> BeginAcquire
         [] command = "resume"  -> BeginResume
         [] command = "report"  -> WriteReport
    /\ UNCHANGED <<jobVars, output, reads>>

\* History::open(): until it returns the command has no history.
OpenHistory ==
    /\ main.at = "history"
    /\ \/ Exit(1) /\ UNCHANGED <<session, run>>
       \/ /\ session.folder /\ run.command = "resume" /\ Loads(session)
          /\ run' = [run EXCEPT !.sequence = Len(session.records), !.audit = session.records # <<>>]
          /\ Goto(IF session.records = <<>> THEN "bind" ELSE "started")
          /\ UNCHANGED session
       \/ /\ ~session.folder
          /\ session' = [session EXCEPT !.folder = TRUE]
          /\ Goto("bind") \/ Exit(1)
          /\ UNCHANGED run
    /\ OnlyRun
BindSession ==
    /\ main.at = "bind"
    /\ \/ Event("session", [run EXCEPT !.audit = TRUE], Goto("started"), FALSE)
       \/ Event("session", run, FALSE, Exit(1))
    /\ OnlyRun

\* History::start()
StartRun ==
    /\ main.at = "started"
    /\ Event("run_start", [run EXCEPT !.number = run.sequence + 1],
             Goto(IF run.command = "acquire" THEN "create" ELSE "resume"), Ends(1))
    /\ OnlyRun

\* AcquisitionWriter::create()
CreateWriter ==
    /\ main.at = "create"
    /\ \/ Ends(1) /\ UNCHANGED session
       \/ /\ output = "absent" /\ session.journal = "none"
          /\ session' = [session EXCEPT !.journal = "open", !.sealed = 0]
          /\ Goto("acquisition") \/ Ends(1)
    /\ OnlyRun /\ UNCHANGED run
\* The source may not be the one of the session; without a journal a session is
\* begun again if there is no image.
ResumeWriter ==
    /\ main.at = "resume"
    /\ \/ Ends(1) /\ UNCHANGED <<session, run>>
       \/ /\ session.journal = "none"
          /\ IF output = "absent" THEN Goto("create") ELSE Ends(1)
          /\ UNCHANGED <<session, run>>
       \/ /\ session.journal # "none"
          /\ Event("phase", run, Unstopped("acquisition"), Ends(1))
    /\ OnlyRun

----------------------------------------------------------------------------
(* acquire(): reading, a chunk at a time                                    *)

EnterAcquisition ==
    /\ main.at = "acquisition"
    /\ Event("phase", run, Goto("notify"), Ends(1))
    /\ OnlyRun

\* The callback of acquire_with_progress: a checkpoint that is new is recorded, and
\* the acquisition stopped by ctrl-C, --stop-after or a failure to record.
Break(changed) == run' = [changed EXCEPT !.result = "cancelled"] /\ Goto("closing")
Proceed == Goto(IF session.sealed = Chunks THEN "closing" ELSE "reading")
NewCheckpoint ==
    /\ main.at = "notify" /\ run.checkpoint # session.sealed
    /\ \/ Event("checkpoint", [run EXCEPT !.checkpoint = session.sealed], Goto("notify"), FALSE)
       \/ Event("checkpoint", [run EXCEPT !.result = "cancelled"], FALSE, Goto("closing"))
    /\ OnlyRun
Notified ==
    /\ main.at = "notify" /\ run.checkpoint = session.sealed
    /\ \/ Break(run)
       \/ ~stop /\ Proceed /\ UNCHANGED run
    /\ OnlyRun /\ UNCHANGED session

\* It may take as long as the driver does: Commands!SourceHangs.
ReadSource ==
    /\ main.at = "reading"
    /\ reads' = reads + 1
    /\ run' = [run EXCEPT !.read_attempts = @ + 1]
    /\ Goto("taken") \/ Goto("read_error")
    /\ UNCHANGED <<jobVars, output, started, session>>
\* The callback after the read, and seal(), which may fail.
Seal ==
    /\ main.at = "taken"
    /\ \/ stop /\ Break(run) /\ UNCHANGED session
       \/ session' = [session EXCEPT !.sealed = @ + 1] /\ Goto("notify") /\ UNCHANGED run
       \/ run' = [run EXCEPT !.result = "failed"] /\ Goto("closing") /\ UNCHANGED session
    /\ OnlyRun
\* A read that failed is recorded and made again, once at most (a bound), or fails
\* the acquisition.
ReadError ==
    /\ main.at = "read_error"
    /\ \/ /\ ~run.retried /\ ~stop
          /\ Event("read_error", [run EXCEPT !.retried = TRUE], Goto("reading"), FALSE)
       \/ \E result \in IF stop THEN {"cancelled"} ELSE {"cancelled", "failed"} :
             Event("read_error", [run EXCEPT !.result = result], Goto("closing"), FALSE)
       \/ Event("read_error", [run EXCEPT !.result = "cancelled"], FALSE, Goto("closing"))
    /\ OnlyRun

\* A last checkpoint is recorded, if it can be; then a failure to read comes
\* before a failure to record, and that before the cancellation.
EndOf(result, failure) ==
    IF result = "failed" \/ failure THEN Ends(1)
    ELSE IF result = "cancelled" THEN Ends(130) ELSE Goto("unchanged")
Close ==
    /\ main.at = "closing"
    /\ Event("checkpoint", run, EndOf(run.result, FALSE), EndOf(run.result, TRUE))
    /\ OnlyRun

----------------------------------------------------------------------------
(* acquire(): publication and verification                                  *)

CheckUnchanged ==
    /\ main.at = "unchanged"
    /\ \/ Ends(1) /\ UNCHANGED <<session, run>>
       \/ Event("phase", run, Goto("publication"), Ends(1))
    /\ OnlyRun

\* finish_with_progress(): validate, mark, link, retire the journal.  The phases it
\* records meanwhile are left out.
MarkPublishing ==
    /\ main.at = "publication"
    /\ \/ Ends(1) /\ UNCHANGED session
       \/ /\ ~stop /\ (session.journal = "publishing" \/ output = "absent")
          /\ session' = [session EXCEPT !.journal = "publishing"]
          /\ Goto("link") \/ Ends(1)
       \/ stop /\ Ends(130) /\ UNCHANGED session
    /\ OnlyRun /\ UNCHANGED run
LinkSegments ==
    /\ main.at = "link"
    /\ \/ Ends(1) /\ UNCHANGED output
       \/ output # "foreign" /\ output' = "ours" /\ Unstopped("retire")
    /\ OnlySession /\ UNCHANGED <<session, run>>
RetireJournal ==
    /\ main.at = "retire"
    /\ \/ Ends(1) /\ UNCHANGED session
       \/ /\ session' = [session EXCEPT !.journal = "none"]
          /\ \/ Ends(1)
             \/ main' = [main EXCEPT !.at = "published", !.published = "yes"]
    /\ OnlyRun /\ UNCHANGED run
RecordPublished ==
    /\ main.at = "published"
    /\ Event("published", run, Goto("verification"), Ends(1))
    /\ OnlyRun
VerifyImage ==
    /\ main.at = "verification"
    /\ Event("phase", run, Ends(3) \/ Ends(IF stop THEN 130 ELSE 0), Ends(1))
    /\ OnlyRun

\* execute_command(), History::finish(), save_report()
EndRun ==
    /\ main.at = "end"
    /\ Event("run_end", run, Goto("save"), Exit(1))
    /\ OnlyRun
SaveReport ==
    /\ main.at = "save"
    /\ \/ Exit(1) /\ UNCHANGED session
       \/ /\ Loads(session)
          /\ session' = [session EXCEPT !.saved = Summary(session)]
          /\ Exit(main.exit) \/ Exit(1)
    /\ OnlyRun /\ UNCHANGED run

----------------------------------------------------------------------------

SessionStep ==
    \/ OpenHistory \/ BindSession \/ StartRun \/ CreateWriter \/ ResumeWriter
    \/ EnterAcquisition \/ NewCheckpoint \/ Notified \/ ReadSource \/ Seal \/ ReadError \/ Close
    \/ CheckUnchanged \/ MarkPublishing \/ LinkSegments \/ RetireJournal \/ RecordPublished
    \/ VerifyImage \/ EndRun \/ SaveReport

\* The process dies; a temporary record may stay behind.
Writing == {"bind", "started", "resume", "acquisition", "notify", "read_error", "closing",
            "unchanged", "published", "verification", "end"}
Kill ==
    /\ InSession /\ main.at # "start" /\ ~Over
    /\ main' = [at |-> "exit", published |-> "no", exit |-> Killed]
    /\ run' = NoRun
    /\ \E left \in IF main.at \in Writing THEN {0, 1} ELSE {0} :
          session' = [session EXCEPT !.pending = @ + left]
    /\ OnlyRun
\* The next command of the session is started.
NextCommand ==
    /\ InSession /\ Over /\ started <= MaxCommands
    /\ main' = [at |-> "start", published |-> "no", exit |-> 0]
    /\ stop' = FALSE
    /\ run' = NoRun
    /\ UNCHANGED <<job, early, output, session, started, reads>>

SessionInit == session = NoSession /\ run = NoRun /\ started = 0 /\ reads = 0
SessionBegins == \E command \in {"acquire", "resume", "report"} : Begin(command)
SessionNext == SessionBegins \/ SessionStep \/ Kill \/ NextCommand

----------------------------------------------------------------------------

\* docs/cli.md, "Results": whatever commands were killed, failed or stopped, and
\* where, the history can be read again unless it is full; counters that are
\* said to be complete are those of every read of the source; a publication that
\* is recorded has happened, and nothing is there that no manifest is for.  A
\* command that says its report is saved leaves one of what the history has, in
\* which its own result closes the latest run, and exit code 0 of it is that of a
\* published and verified image, with nothing left to resume
\* (History::event, load, History::finish, save_report, acquire).
ClosedAs(summary, code) ==
    /\ summary.latest = {code}
    /\ code = 0 => summary.publication /\ output = "ours" /\ session.journal = "none"
HistoryHonest ==
    InSession =>
        /\ session.folder \/ session.journal # "none" \/ output = "ours" => session.manifest
        /\ session.folder => Loads(session) \/ Len(session.records) + session.pending > MaxRecords
        /\ CountersComplete(session) => Reads(session.records) = reads
        /\ (\E i \in DOMAIN session.records : session.records[i].event = "published")
              => output = "ours" /\ session.journal = "none"
        /\ Over /\ run.audit /\ main.exit \notin {1, Killed} =>
              session.saved = Summary(session) /\ ClosedAs(session.saved, main.exit)
=============================================================================
