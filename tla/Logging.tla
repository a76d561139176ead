------------------------------- MODULE Logging -------------------------------
(***************************************************************************)
(* The life of the logging root (Internal::Logging, Logging.cpp): threads  *)
(* start and stop the system and use it through Instance(), which reads    *)
(* s_started and copies s_instance without s_mutex.  A step is one access  *)
(* to shared state; a copy of the shared pointer is two, the load of the   *)
(* pointer and the increment of its count.                                 *)
(***************************************************************************)
EXTENDS Integers, Sequences

CONSTANTS Threads, Loggers,
          NoThread,     \* nobody
          Levels,       \* the log levels in use
          MaxRoots,     \* bound: roots that are ever made
          MaxSinks      \* bound: sinks added to a root

VARIABLES s_started, s_instance, s_mutex,
          roots,        \* every root made so far: its level and how many sinks it has
          destroyed,    \* roots whose last reference is gone
          loggers,      \* the root each logger refers to, 0 for none
          pc, op,       \* where each thread is, and in which call
          seen,         \* the pointer a thread has loaded and not yet counted
          held,         \* the root a thread holds a reference to
          overlapped    \* the threads whose call a Stop has overlapped

vars == <<s_started, s_instance, s_mutex, roots, destroyed, loggers, pc, op, seen, held, overlapped>>

Calls == {"AddSink", "SetLogLevel", "GetLogLevel", "Get"}

ThreadState == {"idle", "start", "starting", "stop", "stopping",
                "instance", "copy", "retain", "use", "unstarted", "null"}

\* References: the static one, those of threads and those of loggers.
Referenced(instance, local, logger) ==
    ({instance} \cup {local[t] : t \in Threads} \cup {logger[l] : l \in Loggers}) \ {0}

\* What ~Logging has run for after a step.
Release(made) ==
    destroyed' = destroyed \cup ((1 .. made) \ Referenced(s_instance', held', loggers'))

\* The threads in a call that uses the root.
Using == {t \in Threads : pc[t] \in {"instance", "copy", "retain", "use"}}

Goto(t, state) == pc' = [pc EXCEPT ![t] = state]

Init ==
    /\ s_started = FALSE /\ s_instance = 0 /\ s_mutex = NoThread
    /\ roots = <<>> /\ destroyed = {}
    /\ loggers = [l \in Loggers |-> 0]
    /\ pc = [t \in Threads |-> "idle"] /\ op = [t \in Threads |-> "Get"]
    /\ seen = [t \in Threads |-> 0] /\ held = [t \in Threads |-> 0]
    /\ overlapped = {}

-----------------------------------------------------------------------------
(* Start and Stop: a look at s_started, the mutex and a second look, the    *)
(* instance, and the flag.                                                  *)

\* LogLevel::Error, the highest level in use, and no sinks.
NewRoot == [level |-> CHOOSE l \in Levels : \A k \in Levels : k <= l, sinks |-> 0]

Start(t) ==
    /\ pc[t] = "idle" /\ ~s_started
    /\ Goto(t, "start")
    /\ UNCHANGED <<s_started, s_instance, s_mutex, roots, destroyed, loggers, op, seen, held, overlapped>>

StartLocked_NoRecheck(t) ==
    /\ pc[t] = "start" /\ s_mutex = NoThread /\ Len(roots) < MaxRoots
    /\ s_mutex' = t /\ Goto(t, "starting")
    /\ s_instance' = Len(roots) + 1
    /\ roots' = Append(roots, NewRoot)
    /\ UNCHANGED <<s_started, loggers, op, seen, held, overlapped>>
    /\ Release(Len(roots) + 1)

StartLocked(t) ==
    /\ pc[t] = "start" /\ s_mutex = NoThread
    /\ \/ /\ s_started
          /\ Goto(t, "idle")
          /\ UNCHANGED <<s_instance, s_mutex, roots>>
       \/ /\ ~s_started /\ Len(roots) < MaxRoots
          /\ s_mutex' = t /\ Goto(t, "starting")
          /\ s_instance' = Len(roots) + 1
          /\ roots' = Append(roots, NewRoot)
    /\ UNCHANGED <<s_started, destroyed, loggers, op, seen, held, overlapped>>

StartStore(t) ==
    /\ pc[t] = "starting"
    /\ s_started' = TRUE
    /\ s_mutex' = NoThread /\ Goto(t, "idle")
    /\ UNCHANGED <<s_instance, roots, destroyed, loggers, op, seen, held, overlapped>>

Stop(t) ==
    /\ pc[t] = "idle" /\ s_started
    /\ Goto(t, "stop")
    /\ UNCHANGED <<s_started, s_instance, s_mutex, roots, destroyed, loggers, op, seen, held, overlapped>>

StopLocked(t) ==
    /\ pc[t] = "stop" /\ s_mutex = NoThread
    /\ \/ /\ ~s_started
          /\ Goto(t, "idle")
          /\ UNCHANGED <<s_instance, s_mutex, overlapped>>
       \/ /\ s_started
          /\ s_mutex' = t /\ Goto(t, "stopping")
          /\ s_instance' = 0
          /\ overlapped' = overlapped \cup Using
    /\ UNCHANGED <<s_started, roots, loggers, op, seen, held>>
    /\ Release(Len(roots))

StopStore(t) ==
    /\ pc[t] = "stopping"
    /\ s_started' = FALSE
    /\ s_mutex' = NoThread /\ Goto(t, "idle")
    /\ UNCHANGED <<s_instance, roots, destroyed, loggers, op, seen, held, overlapped>>

-----------------------------------------------------------------------------
(* Instance() and the calls that use it.  A null pointer fails their        *)
(* assertion, "Logging system has not been started".                        *)

Call(t, call) ==
    /\ pc[t] = "idle"
    /\ op' = [op EXCEPT ![t] = call]
    /\ Goto(t, "instance")
    /\ overlapped' = IF \E s \in Threads : pc[s] = "stopping" THEN overlapped \cup {t} ELSE overlapped
    /\ UNCHANGED <<s_started, s_instance, s_mutex, roots, destroyed, loggers, seen, held>>

Instance(t) ==
    /\ pc[t] = "instance"
    /\ Goto(t, IF s_started THEN "copy" ELSE "unstarted")
    /\ UNCHANGED <<s_started, s_instance, s_mutex, roots, destroyed, loggers, op, seen, held, overlapped>>

LoadPointer(t) ==
    /\ pc[t] = "copy"
    /\ Goto(t, IF s_instance = 0 THEN "null" ELSE "retain")
    /\ seen' = [seen EXCEPT ![t] = s_instance]
    /\ UNCHANGED <<s_started, s_instance, s_mutex, roots, destroyed, loggers, op, held, overlapped>>

Retain(t) ==
    /\ pc[t] = "retain"
    /\ Goto(t, "use")
    /\ held' = [held EXCEPT ![t] = seen[t]]
    /\ seen' = [seen EXCEPT ![t] = 0]
    /\ UNCHANGED <<s_started, s_instance, s_mutex, roots, destroyed, loggers, op, overlapped>>

\* The rest of a call, which gives its reference back.
Return(t) ==
    /\ held' = [held EXCEPT ![t] = 0]
    /\ UNCHANGED <<s_started, s_instance, s_mutex, seen>>
    /\ Release(Len(roots))

Done(t) ==
    /\ Goto(t, "idle") /\ op' = [op EXCEPT ![t] = "Get"]
    /\ overlapped' = overlapped \ {t}

AddSink(t) ==
    /\ pc[t] = "use" /\ op[t] = "AddSink" /\ roots[held[t]].sinks < MaxSinks
    /\ roots' = [roots EXCEPT ![held[t]].sinks = @ + 1]
    /\ Done(t) /\ UNCHANGED loggers
    /\ Return(t)

SetLogLevel(t, level) ==
    /\ pc[t] = "use" /\ op[t] = "SetLogLevel"
    /\ roots' = [roots EXCEPT ![held[t]].level = level]
    /\ Done(t) /\ UNCHANGED loggers
    /\ Return(t)

GetLogLevel(t) ==
    /\ pc[t] = "use" /\ op[t] = "GetLogLevel"
    /\ Done(t) /\ UNCHANGED <<roots, loggers>>
    /\ Return(t)

\* Get moves its reference into the logger's sink and then calls GetLogLevel,
\* which asks for the instance again.
Get(t, l) ==
    /\ pc[t] = "use" /\ op[t] = "Get"
    /\ loggers[l] = 0
    /\ loggers' = [loggers EXCEPT ![l] = held[t]]
    /\ op' = [op EXCEPT ![t] = "GetLogLevel"]
    /\ Goto(t, "instance") /\ UNCHANGED <<roots, overlapped>>
    /\ Return(t)

DestroyLogger(l) ==
    /\ loggers[l] # 0
    /\ loggers' = [loggers EXCEPT ![l] = 0]
    /\ UNCHANGED <<s_started, s_instance, s_mutex, roots, pc, op, seen, held, overlapped>>
    /\ Release(Len(roots))

Next ==
    \/ \E t \in Threads :
          \/ Start(t) \/ StartLocked(t) \/ StartStore(t)
          \/ Stop(t) \/ StopLocked(t) \/ StopStore(t)
          \/ \E call \in Calls : Call(t, call)
          \/ Instance(t) \/ LoadPointer(t) \/ Retain(t)
          \/ AddSink(t) \/ GetLogLevel(t)
          \/ \E level \in Levels : SetLogLevel(t, level)
          \/ \E l \in Loggers : Get(t, l)
    \/ \E l \in Loggers : DestroyLogger(l)

Spec == Init /\ [][Next]_vars

-----------------------------------------------------------------------------
(* Properties.                                                              *)

\* Type correctness of the logging root.
TypeOK ==
    /\ s_started \in BOOLEAN /\ s_instance \in 0 .. Len(roots) /\ s_mutex \in Threads \cup {NoThread}
    /\ roots \in Seq([level : Levels, sinks : 0 .. MaxSinks]) /\ Len(roots) <= MaxRoots
    /\ destroyed \subseteq 1 .. Len(roots)
    /\ loggers \in [Loggers -> 0 .. Len(roots)]
    /\ pc \in [Threads -> ThreadState] /\ op \in [Threads -> Calls]
    /\ seen \in [Threads -> 0 .. Len(roots)] /\ held \in [Threads -> 0 .. Len(roots)]

\* Only a Stop that overlaps a call takes the root from it: a call that began with
\* the system started finds a root, and the one whose pointer it loaded is alive
\* until the call counts it and while it uses it, although Instance reads the flag
\* and the pointer without the mutex, and whoever else starts or stops the system.
OnlyStopTakesRoot ==
    \A t \in Threads \ overlapped :
        /\ pc[t] # "null"
        /\ pc[t] = "retain" => seen[t] \notin destroyed
        /\ pc[t] = "use" => held[t] \notin destroyed

-----------------------------------------------------------------------------
(***************************************************************************)
(* The inductive invariant behind the safety properties.                   *)
(***************************************************************************)

\* The mutex is held between the two stores of Start and of Stop; outside of them
\* the flag tells whether there is an instance.
FlagFollowsInstance ==
    /\ \A t \in Threads : s_mutex = t <=> pc[t] \in {"starting", "stopping"}
    /\ \A t \in Threads : pc[t] = "starting" => ~s_started /\ s_instance # 0
    /\ \A t \in Threads : pc[t] = "stopping" => s_started /\ s_instance = 0
    /\ s_mutex = NoThread => (s_started <=> s_instance # 0)

\* The instance is alive, and a call that is past a test for null has a root.
PointersSet ==
    /\ s_instance \notin destroyed
    /\ \A t \in Threads : /\ pc[t] = "retain" => seen[t] # 0
                          /\ pc[t] = "use" => held[t] # 0

\* A call that no Stop has overlapped runs while nobody stops the system: what it
\* has read of the flag and of the pointer is still so.
Undisturbed ==
    \A t \in Threads \ overlapped :
        /\ pc[t] # "null"
        /\ t \in Using => \A u \in Threads : pc[u] # "stopping"
        /\ pc[t] \in {"copy", "retain"} => s_started /\ s_instance # 0
        /\ pc[t] = "retain" => seen[t] = s_instance
        /\ pc[t] = "use" => held[t] \notin destroyed

IInv == TypeOK /\ FlagFollowsInstance /\ PointersSet /\ Undisturbed
==============================================================================
