----------------------------- MODULE MCCommands -----------------------------
(* Commands.tla with every kind of source and of output, a root folder (0)   *)
(* with a folder (1) of two files (2, 3), and the evidence of MCScenes.tla.  *)
EXTENDS Commands, MCScenes

Command(kinds, targets, references) ==
    [kind : kinds, target : targets, reference : references]

MCTransfers ==
    Command({"device"}, {"aff4"}, {"none"})
    \cup Command({"ewf"}, {"aff4"}, {"none", "match"})
    \cup Command({"ewf"}, {"ewf"}, {"match"}) \cup Command({"ewf"}, {"raw"}, {"differ"})
    \cup Command({"aff4"}, {"ewf", "raw"}, {"none", "match", "differ"})
    \cup Command({"raw"}, {"ewf", "aff4"}, {"none"})
    \cup Command({"raw"}, {"none"}, {"none", "match", "differ"})

MCParent == <<0, 1, 1>>

\* The whole tree takes 4 + (3 + 3) + 4 + 5 + 5 = 24 statements.
MCCollections ==
    [kind : {"collect"}, exclude : {{}, {1}, {2}}, allow_partial : BOOLEAN, triples : {18, 24}]
MCExtractions == [kind : {"extract"}, reference : {"none", "match", "differ"}]

MCSessions == [kind : {"session"}]

MCReadings ==
    [kind : {"verify", "entry", "disk"}]
    \cup [kind : {"set"}, full : BOOLEAN, external : BOOLEAN]
\* Within a page, over two of them, a whole one and more than that.
MCRequests == {<<0, 1>>, <<1, 2>>, <<3, 2>>, <<4, 1>>, <<6, 1>>, <<0, 4>>, <<1, 6>>}
=============================================================================
