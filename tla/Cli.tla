-------------------------------- MODULE Cli --------------------------------
(***************************************************************************)
(* What the commands of crates/ewf-cli/src/main.rs share: one command runs *)
(* to its end and leaves a report with `published' and an exit code; ctrl-C *)
(* sets a flag the command looks at (Context::check); and a command that   *)
(* writes has one destination, which somebody else may create first.       *)
(***************************************************************************)

VARIABLES job,    \* the command and what it is run on
          stop,   \* ctx.stop
          early,  \* history: the stop came before the last check for one
          main,   \* where the command stands, and the fields of its report
          output  \* the destination

jobVars == <<job, stop, early>>
cliVars == <<jobVars, main, output>>

Killed == 137  \* the process died, and there is no report

CliInit ==
    /\ stop = FALSE /\ early = FALSE
    /\ main = [at |-> "start", published |-> "no", exit |-> 0]
    /\ output = "absent"

CliTypeOK ==
    /\ {stop, early} \subseteq BOOLEAN
    /\ main.published \in {"no", "unknown", "yes"} /\ main.exit \in {0, 1, 3, 4, 130, Killed}
    /\ output \in {"absent", "foreign", "ours"}

Goto(at) == main' = [main EXCEPT !.at = at]
\* The command returns, and report["exit_code"] is `code'.
Exit(code) == main' = [main EXCEPT !.at = "exit", !.exit = code]
\* It returns an error, and the report says `code' then.
Failing(code) == main' = [main EXCEPT !.at = "failing", !.exit = code]

Over == main.at = "exit"

\* main(): after an error, the stop decides what it is called.
ReportFailure ==
    /\ main.at = "failing"
    /\ Exit(IF stop THEN 130 ELSE main.exit)
    /\ UNCHANGED <<jobVars, output>>

\* The handler of ctrl-C; `beforeLastCheck' is where the command stands.
StopWhen(beforeLastCheck) ==
    /\ ~Over /\ ~stop
    /\ stop' = TRUE
    /\ early' = beforeLastCheck
    /\ UNCHANGED <<job, main, output>>

\* Somebody else creates the destination.
Appear ==
    /\ output = "absent" /\ ~Over
    /\ output' = "foreign"
    /\ UNCHANGED <<jobVars, main>>

\* persist_noclobber() of the staged output; after it only the sync of the
\* directory can fail, and the command goes on or fails with it.
\* Faulty variant: `published' is only reported once the directory is synced.
PublishReportLate(Synced, Unsynced) ==
    IF output # "absent" THEN Failing(1) /\ UNCHANGED output
    ELSE /\ output' = "ours"
         /\ Failing(1) \/ main' = [main EXCEPT !.at = "exit", !.published = "yes"]
Publish(Synced, Unsynced) ==
    IF output # "absent" THEN Failing(1) /\ UNCHANGED output
    ELSE \/ Failing(1) /\ UNCHANGED output
         \/ /\ output' = "ours"
            /\ \E end \in {Synced, Unsynced} :
                  main' = [main EXCEPT !.at = end[1], !.published = "yes", !.exit = end[2]]

----------------------------------------------------------------------------

\* docs/ewf-cli.md:199, "`published` is false before publication and true after
\* confirmed publication": whatever fails, the report never denies an output
\* that is there and never claims one that is not; what a session of several
\* commands has published is EwfSession!HistoryHonest's.
PublishedTold ==
    Over => /\ main.published = "no" /\ job.kind # "session" => output # "ours"
            /\ main.published = "yes" => output = "ours"

\* A stop that comes before the last check for one leaves nothing at the
\* destination and is reported as a cancellation, or as the failed verification
\* that ended at that moment (Reading::read, before_finish, finish_verified,
\* copy_verified, main).
EarlyStopCancels ==
    early /\ Over =>
        /\ output # "ours"
        /\ \/ main.exit = 130
           \/ main.exit \in {3, 4} /\ job.kind \in {"collect", "extract"}
=============================================================================
