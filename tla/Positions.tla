------------------------------ MODULE Positions ------------------------------
(***************************************************************************)
(* Sequences in which elements are inserted and erased by position, as the *)
(* multimap of the thread pool's queue does.                               *)
(***************************************************************************)
EXTENDS Integers, Sequences, Functions

\* A sequence with an element put in at, or taken out from, a position.
InsertAt(s, n, e) == SubSeq(s, 1, n - 1) \o <<e>> \o SubSeq(s, n, Len(s))

RemoveAt(s, n) == SubSeq(s, 1, n - 1) \o SubSeq(s, n + 1, Len(s))
=============================================================================
