------------------------ MODULE MCEPollSocketService ------------------------
(* TLC instances of EPollSocketService. *)
EXTENDS EPollSocketService, TLC

Symmetry == Permutations(Sockets)
==============================================================================
