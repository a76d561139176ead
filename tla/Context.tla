------------------------------ MODULE Context -------------------------------
(***************************************************************************)
(* Context (Context.h, Context.cpp): handles of a shared State, which is a  *)
(* flag and a deadline, both atomic.  A handle is copied and moved while   *)
(* nobody else changes it; cancelling, deadlines and questions come from   *)
(* every thread, through any handle of the State.  A question is a load of *)
(* the flag, one of the deadline and a look at the clock, a step each.     *)
(*                                                                         *)
(* A handle without a State was moved from, or is not there.  Using one is *)
(* the caller's mistake: only CancelAt asserts otherwise.                  *)
(***************************************************************************)
EXTENDS Integers

CONSTANTS Contexts,   \* handles
          States,     \* what make_shared may return
          Threads,
          Delays,     \* durations
          MaxTime,    \* bound of the clock, and of the deadlines that are asked for
          Null        \* no State

VARIABLES m_state,    \* of every handle
          flag, deadline,     \* of every State
          clock,
          call,       \* of every thread
          kin,        \* history: the State a handle was made for
          cancelled, limit    \* history: what was asked of it, by whichever handle

vars == <<m_state, flag, deadline, clock, call, kin, cancelled, limit>>

Idle == [at |-> "idle"]

Inside(t) == call[t].at \in {"flag", "deadline", "now"}

InUse(c) == \E t \in Threads : call[t].at # "idle" /\ call[t].ctx = c

Init ==
    /\ m_state = [c \in Contexts |-> Null] /\ kin = m_state
    /\ flag = [s \in States |-> FALSE] /\ cancelled = flag
    /\ deadline = [s \in States |-> 0] /\ limit = deadline
    /\ clock = 1
    /\ call = [t \in Threads |-> Idle]

-----------------------------------------------------------------------------
(* Handles.  The last one of a State takes it along.                         *)

Reset(f, holders, value) == [s \in States |-> IF \E c \in Contexts : holders[c] = s THEN f[s] ELSE value]

Become(states, kins) ==
    /\ m_state' = states /\ flag' = Reset(flag, states, FALSE) /\ deadline' = Reset(deadline, states, 0)
    /\ kin' = kins /\ cancelled' = Reset(cancelled, kins, FALSE) /\ limit' = Reset(limit, kins, 0)

\* make_shared: a State that nobody has.
Fresh(c) ==
    /\ m_state[c] = Null
    /\ \E s \in States \ {m_state[d] : d \in Contexts} :
          Become([m_state EXCEPT ![c] = s], [kin EXCEPT ![c] = s])

Construct(c) == Fresh(c) /\ UNCHANGED <<clock, call>>

CopyConstruct(c, ctx) ==
    /\ c # ctx /\ m_state[c] = Null
    /\ Become([m_state EXCEPT ![c] = m_state[ctx]], [kin EXCEPT ![c] = kin[ctx]])
    /\ UNCHANGED <<clock, call>>

MoveConstruct(c, ctx) ==
    /\ c # ctx /\ m_state[c] = Null /\ ~InUse(ctx)
    /\ Become([m_state EXCEPT ![c] = m_state[ctx], ![ctx] = Null], [kin EXCEPT ![c] = kin[ctx], ![ctx] = Null])
    /\ UNCHANGED <<clock, call>>

CopyAssign_Inverted(c, ctx) ==
    /\ ~InUse(c) /\ m_state[c] # Null /\ m_state[ctx] # Null
    /\ Become(IF m_state[c] = m_state[ctx] THEN [m_state EXCEPT ![c] = m_state[ctx]] ELSE m_state,
              [kin EXCEPT ![c] = kin[ctx]])
    /\ UNCHANGED <<clock, call>>

CopyAssign(c, ctx) ==
    /\ ~InUse(c)
    /\ Become(IF m_state[c] # m_state[ctx] THEN [m_state EXCEPT ![c] = m_state[ctx]] ELSE m_state,
              [kin EXCEPT ![c] = kin[ctx]])
    /\ UNCHANGED <<clock, call>>

\* Two handles of one State both keep it.
MoveAssign(c, ctx) ==
    /\ ~InUse(c) /\ ~InUse(ctx)
    /\ IF m_state[c] # m_state[ctx]
       THEN Become([m_state EXCEPT ![c] = m_state[ctx], ![ctx] = Null], [kin EXCEPT ![c] = kin[ctx], ![ctx] = Null])
       ELSE Become(m_state, [kin EXCEPT ![c] = kin[ctx]])
    /\ UNCHANGED <<clock, call>>

Destroy(c) ==
    /\ m_state[c] # Null /\ ~InUse(c)
    /\ Become([m_state EXCEPT ![c] = Null], [kin EXCEPT ![c] = Null])
    /\ UNCHANGED <<clock, call>>

-----------------------------------------------------------------------------
(* Requests.                                                                *)

Cancel(c) ==
    /\ m_state[c] # Null
    /\ flag' = [flag EXCEPT ![m_state[c]] = TRUE]
    /\ cancelled' = [cancelled EXCEPT ![kin[c]] = TRUE]
    /\ UNCHANGED <<m_state, deadline, clock, call, kin, limit>>

\* Of two deadlines, where 0 is none.
Earlier(a, b) == IF a = 0 \/ (b # 0 /\ b < a) THEN b ELSE a

\* A question that is under way when the deadline changes may be answered by
\* the old one or by the new one.
Witness(c, at, calls) ==
    [t \in Threads |->
        IF Inside(t) /\ kin[call[t].ctx] = kin[c]
        THEN [calls[t] EXCEPT !.first = Earlier(@, at), !.due = FALSE] ELSE calls[t]]

Store(c, at, calls) ==
    /\ deadline' = [deadline EXCEPT ![m_state[c]] = at]
    /\ limit' = [limit EXCEPT ![kin[c]] = at]
    /\ call' = Witness(c, at, calls)
    /\ UNCHANGED <<m_state, flag, clock, kin, cancelled>>

\* now + (at - now) is at, whatever the clock says.
CancelAt(c, at) == m_state[c] # Null /\ Store(c, at, call)

ReleaseDeadline(c) == m_state[c] # Null /\ Store(c, 0, call)

\* The clock is read before the deadline is stored.
CancelAfter(t, c, delay) ==
    /\ call[t] = Idle /\ m_state[c] # Null /\ clock + delay <= MaxTime
    /\ call' = [call EXCEPT ![t] = [at |-> "store", ctx |-> c, value |-> clock + delay]]
    /\ UNCHANGED <<m_state, flag, deadline, clock, kin, cancelled, limit>>

ConstructAfter(t, c, delay) ==
    /\ call[t] = Idle /\ Fresh(c) /\ clock + delay <= MaxTime
    /\ call' = [call EXCEPT ![t] = [at |-> "store", ctx |-> c, value |-> clock + delay]]
    /\ UNCHANGED clock

StoreAfter(t) ==
    /\ call[t].at = "store"
    /\ Store(call[t].ctx, call[t].value, [call EXCEPT ![t] = Idle])

-----------------------------------------------------------------------------
(* Questions.                                                               *)

Passed(at) == at # 0 /\ clock >= at

\* told: it was cancelled before; due: a deadline had passed, and is still the
\* one; first: the earliest of the deadlines there were meanwhile.
IsCancelled(t, c) ==
    /\ call[t] = Idle /\ m_state[c] # Null
    /\ call' = [call EXCEPT ![t] =
          [at |-> "flag", ctx |-> c, value |-> 0, told |-> cancelled[kin[c]],
           due |-> Passed(limit[kin[c]]), first |-> limit[kin[c]]]]
    /\ UNCHANGED <<m_state, flag, deadline, clock, kin, cancelled, limit>>

Step(t, at, value) ==
    /\ call' = [call EXCEPT ![t].at = at, ![t].value = value]
    /\ UNCHANGED <<m_state, flag, deadline, clock, kin, cancelled, limit>>

LoadFlag(t) ==
    /\ call[t].at = "flag"
    /\ IF flag[m_state[call[t].ctx]] THEN Step(t, "yes", 0) ELSE Step(t, "deadline", 0)

LoadDeadline(t) ==
    /\ call[t].at = "deadline"
    /\ LET at == deadline[m_state[call[t].ctx]]
       IN  IF at # 0 THEN Step(t, "now", at) ELSE Step(t, "no", 0)

Compare(t) ==
    /\ call[t].at = "now"
    /\ Step(t, IF clock >= call[t].value THEN "yes" ELSE "no", 0)

Return(t) ==
    /\ call[t].at \in {"yes", "no"}
    /\ call' = [call EXCEPT ![t] = Idle]
    /\ UNCHANGED <<m_state, flag, deadline, clock, kin, cancelled, limit>>

Tick ==
    /\ clock < MaxTime /\ clock' = clock + 1
    /\ UNCHANGED <<m_state, flag, deadline, call, kin, cancelled, limit>>

Next ==
    \/ Tick
    \/ \E c \in Contexts :
          \/ Construct(c) \/ Destroy(c) \/ Cancel(c) \/ ReleaseDeadline(c)
          \/ \E at \in 0 .. MaxTime : CancelAt(c, at)
          \/ \E ctx \in Contexts :
                CopyConstruct(c, ctx) \/ MoveConstruct(c, ctx) \/ CopyAssign(c, ctx) \/ MoveAssign(c, ctx)
          \/ \E t \in Threads :
                \/ IsCancelled(t, c)
                \/ \E delay \in Delays : CancelAfter(t, c, delay) \/ ConstructAfter(t, c, delay)
    \/ \E t \in Threads : StoreAfter(t) \/ LoadFlag(t) \/ LoadDeadline(t) \/ Compare(t) \/ Return(t)

Spec == Init /\ [][Next]_vars

-----------------------------------------------------------------------------

TypeOK ==
    /\ m_state \in [Contexts -> States \cup {Null}] /\ kin \in [Contexts -> States \cup {Null}]
    /\ flag \in [States -> BOOLEAN] /\ cancelled \in [States -> BOOLEAN]
    /\ deadline \in [States -> 0 .. MaxTime] /\ limit \in [States -> 0 .. MaxTime]
    /\ clock \in 1 .. MaxTime
    /\ \A t \in Threads : call[t].at # "idle" => call[t].ctx \in Contexts /\ m_state[call[t].ctx] # Null

\* IsCancelled says no only if nobody had cancelled the context through any of
\* its handles when it was called, and no deadline that stayed had passed; it
\* says yes only if the context is cancelled or a deadline it had during the
\* call has passed (Context::IsCancelled, and the copies and moves that must
\* lead to the same State).
CancelSeen ==
    \A t \in Threads :
        /\ call[t].at = "no" => ~call[t].told /\ ~call[t].due
        /\ call[t].at = "yes" => cancelled[kin[call[t].ctx]] \/ Passed(call[t].first)

-----------------------------------------------------------------------------
(***************************************************************************)
(* The inductive invariant behind CancelSeen.                              *)
(***************************************************************************)

\* The calls that are more than a step: a deadline that is yet to be stored, and a
\* question.
Request == [at : {"store"}, ctx : Contexts, value : 0 .. MaxTime]

Question == [at : {"flag", "deadline", "now", "yes", "no"}, ctx : Contexts, value : 0 .. MaxTime,
             told : BOOLEAN, due : BOOLEAN, first : 0 .. MaxTime]

\* Every handle leads to the State it was made for, so the flag and the deadline
\* there are what was asked for through any of them.
StatesShared == kin = m_state /\ cancelled = flag /\ limit = deadline

\* What a question knows after each of its loads: before the load of the flag it
\* will find a cancellation it had been told of, and after it there was none;
\* before the load of the deadline, and with the deadline it has loaded, it will
\* find one that was due, and what it finds is no earlier than the first.
AnswerHolds(q) ==
    LET s == m_state[q.ctx]
    IN  /\ q.at = "flag" => (q.told => flag[s])
        /\ q.at \in {"deadline", "now", "no"} => ~q.told
        /\ q.at \in {"flag", "deadline"} =>
              /\ q.due => Passed(deadline[s])
              /\ deadline[s] # 0 => q.first # 0 /\ q.first <= deadline[s]
        /\ q.at = "now" =>
              /\ q.value # 0 /\ q.first # 0 /\ q.first <= q.value
              /\ q.due => Passed(q.value)
        /\ q.at = "no" => ~q.due
        /\ q.at = "yes" => flag[s] \/ Passed(q.first)

IInv ==
    /\ TypeOK /\ call \in [Threads -> {Idle} \cup Request \cup Question]
    /\ StatesShared
    /\ \A t \in Threads : AnswerHolds(call[t])
=============================================================================
