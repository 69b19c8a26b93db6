------------------------------- MODULE Totals -------------------------------
(* The sum of a sequence of numbers: the counters of a history            *)
(* (EwfSession.tla), and what is held in a cache (Aff4Disks.tla).         *)
EXTENDS Naturals, Sequences

TotalOf(numbers) ==
    LET upTo[n \in 0..Len(numbers)] == IF n = 0 THEN 0 ELSE upTo[n - 1] + numbers[n]
    IN  upTo[Len(numbers)]
=============================================================================
