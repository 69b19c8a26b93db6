------------------------------ MODULE LruOrder ------------------------------
(***************************************************************************)
(* Least-recently-used orders as sequences, shared by the pool of segment  *)
(* files and the cache of chunks of src/image.rs: what is used goes to the *)
(* end, what is dropped leaves the rest in its order.  Nth also orders the *)
(* entries of a folder that is collected (Aff4Collection.tla), and Keep    *)
(* the containers of a set (Aff4Set.tla).                                  *)
(***************************************************************************)
EXTENDS Naturals, Sequences, FiniteSets

\* The nth element of a set of numbers, from its least.
Nth(I, n) == CHOOSE i \in I : Cardinality({j \in I : j <= i}) = n

\* What a sequence has at the indices I, in its order.
Keep(s, I) == [k \in 1..Cardinality(I) |-> s[Nth(I, k)]]

Without(s, e) == Keep(s, {i \in DOMAIN s : s[i] # e})

\* MoveToEnd of an element that is absent adds it.
MoveToEnd(s, e) == Append(Without(s, e), e)
=============================================================================
