----------------------- MODULE MCSelectSocketService -----------------------
(* TLC instances of SelectSocketService. *)
EXTENDS SelectSocketService, TLC

Symmetry == Permutations(Sockets)
==============================================================================
