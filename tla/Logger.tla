------------------------------- MODULE Logger -------------------------------
(***************************************************************************)
(* Loggers and the way of a record to the sinks (Logging.cpp): a logger    *)
(* hands a record to the root, while it propagates, and to the sinks of    *)
(* its own.  The levels and m_propagate are atomics that any thread may    *)
(* set while others log; the vectors of sinks are not synchronised, so a   *)
(* program changes those of a logger, and moves it, only while nobody logs *)
(* through it.  The root is alive: Logging models its life.                *)
(***************************************************************************)
EXTENDS Integers, Sequences, SequencesExt

CONSTANTS Callers,      \* threads that log
          Loggers,      \* variables of type Logger
          Names, Sinks,
          Levels,       \* the levels in use, Error among them
          Error,        \* LogLevel::Error
          MaxSinks, MaxRootSinks    \* bounds: sinks of a logger and of the root

VARIABLES alive,        \* the loggers that are constructed
          m_name, m_logLevel, m_propagate, m_sinks,
          m_sink,       \* whether a logger's m_sink can be called
          root,         \* the level and the sinks of the root
          call          \* what each thread does in Log

loggerVars == <<alive, m_name, m_logLevel, m_propagate, m_sinks, m_sink>>

vars == <<alive, m_name, m_logLevel, m_propagate, m_sinks, m_sink, root, call>>

Idle == [phase |-> "idle"]

Phases == {"propagate", "root", "rootSinks", "own", "done", "threw"}

InCall(t) == call[t] # Idle

\* Nobody logs through l.
Quiet(l) == \A t \in Callers : InCall(t) => call[t].logger # l

Init ==
    /\ alive = {}
    /\ m_name = [l \in Loggers |-> ""]
    /\ m_logLevel = [l \in Loggers |-> Error] /\ m_propagate = [l \in Loggers |-> TRUE]
    /\ m_sinks = [l \in Loggers |-> <<>>] /\ m_sink = [l \in Loggers |-> FALSE]
    /\ root = [level |-> Error, sinks |-> <<>>]
    /\ call = [t \in Callers |-> Idle]

-----------------------------------------------------------------------------
(* Making, configuring, copying and moving loggers.                         *)

Construct(l, name, level, propagate, sink, sinks) ==
    /\ m_name' = [m_name EXCEPT ![l] = name]
    /\ m_logLevel' = [m_logLevel EXCEPT ![l] = level]
    /\ m_propagate' = [m_propagate EXCEPT ![l] = propagate]
    /\ m_sink' = [m_sink EXCEPT ![l] = sink]
    /\ m_sinks' = [m_sinks EXCEPT ![l] = sinks]

\* Logging::Get: each AddSink ends propagation, and the level is the root's.
Get(l, name, sinks) ==
    /\ l \notin alive /\ alive' = alive \cup {l}
    /\ Construct(l, name, root.level, sinks = <<>>, TRUE, sinks)
    /\ UNCHANGED <<root, call>>

AddSink(l, sink) ==
    /\ l \in alive /\ Quiet(l) /\ Len(m_sinks[l]) < MaxSinks
    /\ m_sinks' = [m_sinks EXCEPT ![l] = Append(@, sink)]
    /\ m_propagate' = [m_propagate EXCEPT ![l] = FALSE]
    /\ UNCHANGED <<alive, m_name, m_logLevel, m_sink, root, call>>

RootAddSink(sink) ==
    /\ \A t \in Callers : ~InCall(t)
    /\ Len(root.sinks) < MaxRootSinks
    /\ root' = [root EXCEPT !.sinks = Append(@, sink)]
    /\ UNCHANGED <<loggerVars, call>>

\* A program does not duplicate what it has moved out of.
Duplicate(l, dup, name) ==
    /\ l \in alive /\ m_name[l] # "" /\ dup \notin alive /\ alive' = alive \cup {dup}
    /\ Construct(dup, name, m_logLevel[l], m_propagate[l], m_sink[l], m_sinks[l])
    /\ UNCHANGED <<root, call>>

\* What a move takes out of other: the strings, the functions and the vectors,
\* but neither of the atomics.
Move(l, other) ==
    /\ m_name' = [m_name EXCEPT ![l] = m_name[other], ![other] = ""]
    /\ m_sink' = [m_sink EXCEPT ![l] = m_sink[other], ![other] = FALSE]
    /\ m_sinks' = [m_sinks EXCEPT ![l] = m_sinks[other], ![other] = <<>>]
    /\ m_logLevel' = [m_logLevel EXCEPT ![l] = m_logLevel[other]]
    /\ m_propagate' = [m_propagate EXCEPT ![l] = m_propagate[other]]
    /\ UNCHANGED <<root, call>>

MoveConstruct(l, other) ==
    /\ l \notin alive /\ other \in alive /\ Quiet(other)
    /\ alive' = alive \cup {l}
    /\ Move(l, other)

\* The guard against self-assignment compares the names: a logger of the same
\* name is not taken over.
MoveAssign(l, other) ==
    /\ {l, other} \subseteq alive /\ Quiet(l) /\ Quiet(other)
    /\ m_name[l] # m_name[other]
    /\ Move(l, other)
    /\ UNCHANGED alive

Destroy(l) ==
    /\ l \in alive /\ Quiet(l) /\ alive' = alive \ {l}
    /\ Construct(l, "", Error, TRUE, FALSE, <<>>)
    /\ UNCHANGED <<root, call>>

-----------------------------------------------------------------------------
(* Log.  Every call keeps, for the properties, the values the atomics had    *)
(* while it ran.                                                             *)

\* The calls after an atomic of logger l has got a value.
Witness(l, field, value) ==
    [t \in Callers |-> IF InCall(t) /\ l \in {call[t].logger, "root"}
                       THEN [call[t] EXCEPT ![field] = @ \cup {value}] ELSE call[t]]

SetLogLevel(l, level) ==
    /\ l \in alive /\ m_logLevel' = [m_logLevel EXCEPT ![l] = level]
    /\ call' = Witness(l, "levels", level)
    /\ UNCHANGED <<alive, m_name, m_propagate, m_sinks, m_sink, root>>

SetPropagate(l, value) ==
    /\ l \in alive /\ m_propagate' = [m_propagate EXCEPT ![l] = value]
    /\ call' = Witness(l, "propagates", value)
    /\ UNCHANGED <<alive, m_name, m_logLevel, m_sinks, m_sink, root>>

RootSetLogLevel(level) ==
    /\ root' = [root EXCEPT !.level = level]
    /\ call' = Witness("root", "rootLevels", level)
    /\ UNCHANGED loggerVars

\* The level is loaded once, before anything else.
Log(t, l, recordLevel) ==
    /\ ~InCall(t) /\ l \in alive
    /\ call' = [call EXCEPT ![t] =
          [phase |-> "propagate", logger |-> l, record |-> recordLevel, level |-> m_logLevel[l],
           next |-> 1, reached |-> <<>>,
           levels |-> {m_logLevel[l]}, propagates |-> {m_propagate[l]}, rootLevels |-> {root.level}]]
    /\ UNCHANGED <<loggerVars, root>>

Goto(t, phase) == call' = [call EXCEPT ![t].phase = phase, ![t].next = 1]

\* An m_sink that was moved out throws std::bad_function_call.
Propagate(t) ==
    /\ InCall(t) /\ call[t].phase = "propagate"
    /\ IF m_propagate[call[t].logger] /\ call[t].record >= call[t].level
       THEN Goto(t, IF m_sink[call[t].logger] THEN "root" ELSE "threw")
       ELSE Goto(t, "own")
    /\ UNCHANGED <<loggerVars, root>>

RootLog(t) ==
    /\ InCall(t) /\ call[t].phase = "root"
    /\ Goto(t, IF call[t].record >= root.level THEN "rootSinks" ELSE "own")
    /\ UNCHANGED <<loggerVars, root>>

\* One turn of a loop over sinks.
Turn(t, sinks, passes, after) ==
    /\ IF call[t].next > Len(sinks) THEN Goto(t, after)
       ELSE call' = [call EXCEPT ![t].next = @ + 1,
                                 ![t].reached = IF passes THEN Append(@, sinks[call[t].next]) ELSE @]
    /\ UNCHANGED <<loggerVars, root>>

RootSink(t) == InCall(t) /\ call[t].phase = "rootSinks" /\ Turn(t, root.sinks, TRUE, "own")

OwnSink_Reloads(t) ==
    /\ InCall(t) /\ call[t].phase = "own"
    /\ Turn(t, m_sinks[call[t].logger], call[t].record >= m_logLevel[call[t].logger], "done")

OwnSink(t) ==
    /\ InCall(t) /\ call[t].phase = "own"
    /\ Turn(t, m_sinks[call[t].logger], call[t].record >= call[t].level, "done")

Return(t) ==
    /\ InCall(t) /\ call[t].phase \in {"done", "threw"}
    /\ call' = [call EXCEPT ![t] = Idle]
    /\ UNCHANGED <<loggerVars, root>>

Next ==
    \/ \E l \in Loggers :
          \/ \E name \in Names : \E sinks \in {<<>>} \cup {<<s>> : s \in Sinks} : Get(l, name, sinks)
          \/ \E sink \in Sinks : AddSink(l, sink)
          \/ \E other \in Loggers :
                \/ \E name \in Names : Duplicate(l, other, name)
                \/ MoveConstruct(l, other) \/ MoveAssign(l, other)
          \/ Destroy(l)
          \/ \E level \in Levels : SetLogLevel(l, level)
          \/ \E value \in BOOLEAN : SetPropagate(l, value)
    \/ \E sink \in Sinks : RootAddSink(sink)
    \/ \E level \in Levels : RootSetLogLevel(level)
    \/ \E t \in Callers :
          \/ \E l \in Loggers, level \in Levels : Log(t, l, level)
          \/ Propagate(t) \/ RootLog(t) \/ RootSink(t) \/ OwnSink(t) \/ Return(t)

Spec == Init /\ [][Next]_vars

-----------------------------------------------------------------------------
(* Properties.                                                              *)

\* Type correctness; a thread in Log uses a logger that is alive.
TypeOK ==
    /\ alive \subseteq Loggers
    /\ m_name \in [Loggers -> Names \cup {""}] /\ m_logLevel \in [Loggers -> Levels]
    /\ m_propagate \in [Loggers -> BOOLEAN] /\ m_sink \in [Loggers -> BOOLEAN]
    /\ \A l \in Loggers : m_sinks[l] \in BoundedSeq(Sinks, MaxSinks)
    /\ root \in [level : Levels, sinks : BoundedSeq(Sinks, MaxRootSinks)]
    /\ \A t \in Callers : InCall(t) => call[t].phase \in Phases /\ call[t].logger \in alive

\* A record reaches the sinks it should, once for every time they were added and
\* in their order, although the levels and m_propagate change under the call.
\* It reaches all the sinks of the logger or none, and the root's only together
\* with them.  It is kept from the logger's sinks only by a level the logger had
\* during the call, and from the root's by that, by a level the root had, or by
\* m_propagate.  A call throws only through a logger that was moved out.
RecordsRouted ==
    \A t \in Callers : InCall(t) =>
        LET c      == call[t]
            own    == m_sinks[c.logger]
            passes == {level \in c.levels : c.record >= level}
            rootPasses == {level \in c.rootLevels : c.record >= level}
        IN  /\ c.phase = "done" =>
                  /\ c.reached \in {<<>>, own, root.sinks \o own}
                  /\ passes = {} => c.reached = <<>>
                  /\ passes = c.levels => IsSuffix(own, c.reached)
                  /\ passes = c.levels /\ c.propagates = {TRUE} /\ rootPasses = c.rootLevels
                        => c.reached = root.sinks \o own
                  /\ c.propagates = {FALSE} \/ rootPasses = {} => c.reached \in {<<>>, own}
            /\ c.phase = "threw" => m_name[c.logger] = ""
==============================================================================
