------------------------------ MODULE SocketOps ------------------------------
(***************************************************************************)
(* SocketOperation (public/Fusion/Network.h) and what the two socket       *)
(* services do with it in the same way.  An operation set is a set; the    *)
(* registrations of a service are a function from the sockets to their     *)
(* operation sets, {} for a socket without an entry: no service keeps an   *)
(* entry with SocketOperation::None of its own accord.                     *)
(***************************************************************************)

CONSTANTS Sockets,
          Op        \* the operations in use

ASSUME OpAssumption == Op \subseteq {"Read", "Write", "Error"}

\* What Add and Remove are called with.  None returns early in both.
Request == (SUBSET Op) \ {{}}

Registrations == [Sockets -> SUBSET Op]

NoEvents == [s \in Sockets |-> {}]

\* Add on a socket that has an entry: the entry is only changed when it
\* holds an operation the request does not.
Merge(ops, events) == IF ops \cup events # events THEN ops \cup events ELSE ops
==============================================================================
