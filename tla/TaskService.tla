----------------------------- MODULE TaskService -----------------------------
(***************************************************************************)
(* What a thread pool promises to the code that gives it work, with        *)
(* nothing said about queues, threads, locks or shutdown.                  *)
(*                                                                         *)
(* Tasks are numbered in the order in which they are accepted.  A task     *)
(* waits, and then either runs to its end and delivers the value of its    *)
(* function, or is cancelled without ever having run.  Either way its      *)
(* future is given a result, once.  The module ThreadPool is shown to      *)
(* implement this specification.                                           *)
(***************************************************************************)
EXTENDS Naturals

CONSTANT MaxTasks  \* the number of tasks that are ever submitted

TaskId == 1 .. MaxTasks

VARIABLE status

Status == {"unborn", "pending", "running", "value", "cancelled"}

Settled(i) == status[i] \in {"value", "cancelled"}

Init == status = [i \in TaskId |-> "unborn"]

Move(i, from, to) ==
    /\ status[i] = from
    /\ status' = [status EXCEPT ![i] = to]

Accept(i) ==
    /\ \A j \in 1 .. i - 1 : status[j] # "unborn"
    /\ Move(i, "unborn", "pending")

Start(i)  == Move(i, "pending", "running")

Return(i) == Move(i, "running", "value")

Cancel(i) == Move(i, "pending", "cancelled")

Next == \E i \in TaskId : Accept(i) \/ Start(i) \/ Return(i) \/ Cancel(i)

Spec == Init /\ [][Next]_status

=============================================================================
