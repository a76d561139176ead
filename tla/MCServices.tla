----------------------------- MODULE MCServices -----------------------------
(***************************************************************************)
(* What a process has once, for all its threads: the signal manager, the   *)
(* logging library, that is the life of its root, the loggers and the      *)
(* queueing sink, and the parser of its command line.  None touches the    *)
(* state of another, so a behaviour is one of one of them, and the others  *)
(* have no state: the state spaces add up instead of being multiplied.     *)
(***************************************************************************)
EXTENDS QueuedLogSink, FiniteSets, TLC

CONSTANTS Threads, NoThread,
          SignalThreads, Handlers, Signals, MaxDepth,           \* SignalManager
          Loggers, Levels, MaxRoots, MaxSinks,                  \* Logging
          Callers, Variables, Names, Sinks, Error, MaxOwnSinks, MaxRootSinks,   \* Logger
          ArgNames, Flags, Aliases, None, MaxArgs               \* ArgumentParser

VARIABLES part,       \* the service this behaviour is about
          m_handlers, m_signals, m_mutex, frames, signal, registered, finished, cleared,
          s_started, s_instance, s_mutex, roots, destroyed, loggers, pc, op, seen, held, overlapped,
          alive, m_name, m_logLevel, m_propagate, m_sinks, m_sink, root, call,
          arg, m_args, m_foundArgs, m_command, phase, parser, result, times, before

signalVars == <<m_handlers, m_signals, m_mutex, frames, signal, registered, finished, cleared>>

rootVars == <<s_started, s_instance, s_mutex, roots, destroyed, loggers, pc, op, seen, held, overlapped>>

loggerVars == <<alive, m_name, m_logLevel, m_propagate, m_sinks, m_sink, root, call>>

parserVars == <<arg, m_args, m_foundArgs, m_command, phase, parser, result, times, before>>

Signal == INSTANCE SignalManager WITH Threads <- SignalThreads

\* What the level of the root does is looked at with the loggers.
Root == INSTANCE Logging WITH Levels <- {Error}

Logs == INSTANCE Logger WITH Loggers <- Variables, MaxSinks <- MaxOwnSinks

Args == INSTANCE ArgumentParser WITH Names <- ArgNames

ASSUME ThreadAssumption == NoThread \notin Threads \cup SignalThreads

ASSUME SignalAssumption == Signals \subseteq Signal!Values

ASSUME LevelAssumption == Error \in Levels /\ \A level \in Levels : level <= Error

ASSUME RootAssumption == MaxRoots \in Nat /\ MaxSinks \in Nat /\ "" \notin Names

ASSUME ArgumentsAssumption ==
    None \notin ArgNames \cup Flags \cup {"help"} /\ MaxArgs \in Nat /\ Aliases \subseteq ArgNames

\* What is not looked at has no state, but for the sink, which is as it was made.
MCInit ==
    /\ part \in {"signals", "root", "logger", "sink", "arguments"}
    /\ IF part = "signals" THEN Signal!Init
       ELSE m_handlers = <<>> /\ m_signals = <<>> /\ m_mutex = <<>> /\ frames = <<>>
            /\ signal = <<>> /\ registered = <<>> /\ finished = <<>> /\ cleared = <<>>
    /\ IF part = "root" THEN Root!Init
       ELSE s_started = <<>> /\ s_instance = <<>> /\ s_mutex = <<>> /\ roots = <<>>
            /\ destroyed = <<>> /\ loggers = <<>> /\ pc = <<>> /\ op = <<>> /\ seen = <<>>
            /\ held = <<>> /\ overlapped = <<>>
    /\ IF part = "logger" THEN Logs!Init
       ELSE alive = <<>> /\ m_name = <<>> /\ m_logLevel = <<>> /\ m_propagate = <<>>
            /\ m_sinks = <<>> /\ m_sink = <<>> /\ root = <<>> /\ call = <<>>
    /\ Init
    /\ IF part = "arguments" THEN Args!Init
       ELSE arg = <<>> /\ m_args = <<>> /\ m_foundArgs = <<>> /\ m_command = <<>> /\ phase = <<>>
            /\ parser = <<>> /\ result = <<>> /\ times = <<>> /\ before = <<>>

\* A bound: records are logged while one logger exists.  Loggers share nothing
\* but the root, which is not changed by a call of Log.
LoggerNext == Logs!Next /\ (Cardinality(alive') > 1 => \A t \in Callers : call'[t] = Logs!Idle)

MCNext ==
    /\ UNCHANGED part
    /\ \/ part = "signals" /\ Signal!Next /\ UNCHANGED <<rootVars, loggerVars, parserVars, vars>>
       \/ part = "root" /\ Root!Next /\ UNCHANGED <<signalVars, loggerVars, parserVars, vars>>
       \/ part = "logger" /\ LoggerNext /\ UNCHANGED <<signalVars, rootVars, parserVars, vars>>
       \/ part = "sink" /\ Next /\ UNCHANGED <<signalVars, rootVars, loggerVars, parserVars>>
       \/ part = "arguments" /\ Args!Next /\ UNCHANGED <<signalVars, rootVars, loggerVars, vars>>

MCSpec == MCInit /\ [][MCNext]_<<part, signalVars, rootVars, loggerVars, parserVars, vars>>

\* The threads that use the root are interchangeable.
Symmetry == Permutations(Threads)

-----------------------------------------------------------------------------

\* Type correctness of all of them; a receiver is installed for signals of the
\* enum only, and the sink never holds more than m_count messages.
MCTypeOK ==
    /\ part = "signals" => Signal!TypeOK
    /\ part = "root" => Root!TypeOK
    /\ part = "logger" => Logs!TypeOK
    /\ part = "sink" => TypeOK
    /\ part = "arguments" => Args!TypeOK

\* No handler is lost and none is in two places, whatever threads raise, clear
\* and register while it runs; the vector of the handlers is sorted, although
\* sorting happens where a handler comes in only, and every signal in it is
\* delivered to the manager.
HandlersKept == part = "signals" => Signal!HandlersKept /\ Signal!TablesAgree

\* A thread waits for m_mutex while it holds it itself only in a delivery that
\* interrupted it there: the calls a handler makes, and the registration that
\* follows a handler, find it unlocked.
NoSelfDeadlock == part = "signals" => Signal!NoSelfDeadlock

\* Only a Stop that overlaps a call takes the root from it, although Instance
\* reads the flag and the pointer without the mutex: a call that began with the
\* system started finds a root that is alive until the call is done with it.
OnlyStopTakesRoot == part = "root" => Root!OnlyStopTakesRoot

\* A record reaches all the sinks of its logger or none, and the root's only with
\* them, in their order, although levels and m_propagate change under the call.
RecordsRouted == part = "logger" => Logs!RecordsRouted

\* One line never gives an argument twice, unless it is a sequence, not even one
\* time before a command and one time behind it, and what IsArgumentFound answers
\* after a successful Parse are the names that were read on it, and on the lines
\* that were parsed before without a failure or a Reset in between.
FoundIsLine == part = "arguments" => Args!FoundIsLine

\* A successful Parse has seen the required arguments of the root and of the
\* command that was executed, on its line or on one that was parsed before, and a
\* command understands what the root does, in whatever order the program has
\* added them.
RequiredGiven == part = "arguments" => Args!RequiredGiven /\ Args!ParsersBuilt
==============================================================================
