--------------------------- MODULE MCSegmentPool ---------------------------
(* SegmentPool.tla on small instances; the constants are in the cfg files.  *)
EXTENDS SegmentPool, TLC

\* Threads are interchangeable; used where only safety is checked.
Symmetry == Permutations(Threads)
=============================================================================
