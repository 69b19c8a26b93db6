----------------------------- MODULE MCEwfImage -----------------------------
(* Small images: chunks of four grains of 256 bytes, sectors of two, tables *)
(* of at most three chunks or 2,055 bytes instead of 16,375 and 2^31 - 1.   *)
EXTENDS EwfImage

A == 7
N == 9
MCValues == {0, A, N}

MCSectionSize ==
    [s \in Optional |-> CASE s = "digest" -> 80 [] s = "md5" -> 20 [] s = "sha1" -> 24
                          [] s = "xhash" -> 90 [] OTHER -> 33]

With(format, compression, media, limit, sections) ==
    [format |-> format, chunk |-> 4, compression |-> compression, emptyBlock |-> TRUE,
     media |-> media, limit |-> limit, sections |-> sections]

MCConfigs ==
    {With("ewf1", "none", 0, 3700, {"header", "error2"}),
     With("smart", "zlib", 10, 0, {"header"}),
     With("ewf2", "bzip2", 0, 2100, {"errors", "increment", "final"}),
     With("ewf2", "zlib", 10, 0, {})}
MCInfos == {[format |-> "ewf1", chunk |-> 4, media |-> 14, compression |-> "zlib"]}
MCOtherInfos == {[format |-> "ewf1", chunk |-> 8, media |-> 12, compression |-> "zlib"]}

MCRuns == {<<N, A, N, N>>, <<A, A>>, <<0, 0, 0, 0, N, 0, N, N, A>>}
MCOffsets == {6}

MCSettings ==
    {[options |-> With("ewf1", "zlib", 0, limit, {"header", "error2"}), source |-> source,
      requested |-> requested] :
        limit \in {0, 5140}, source \in {0, 9, 12, 14}, requested \in {1, 3}}
    \cup {[options |-> With("ewf2", "bzip2", 0, 0, {"errors"}), source |-> source,
           requested |-> 2] : source \in {0, 9, 14}}
\* Three raw chunks with tables of at most two: a limit that the estimate, of
\* one table, keeps, and the two tables do not.
MCTightSettings ==
    {[options |-> With("ewf1", "none", 0, 5100, {"header"}), source |-> 12, requested |-> 3]}
MCPieces == {<<N, A, N, N, 0, N>>, <<0, 0, 0>>}
=============================================================================
