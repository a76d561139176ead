---------------------------- MODULE SignalManager ----------------------------
(***************************************************************************)
(* SignalManager (Signals.cpp, platforms/posix/Signals.cpp).  Threads      *)
(* register handlers, clear them and raise signals; the system delivers a  *)
(* signal by running Receiver on some thread, in the middle of whatever    *)
(* that thread is doing, the critical sections of m_mutex included.  A     *)
(* handler is an object that is in one place at a time; it returns true to *)
(* stay registered.                                                        *)
(***************************************************************************)
EXTENDS Integers, Sequences, FiniteSets

CONSTANTS Threads, NoThread,
          Handlers,     \* handlers, each registered at most once by its owner
          Signals,      \* values of the enum Signal that are in use
          MaxDepth      \* bound: nested deliveries on a thread

\* The enum Signal on POSIX systems.
NONE == 0
HANGUP == 1
INTERRUPT == 2
QUIT == 3
ABORT == 6
KILL == 9
TERMINATE == 15
USR1 == 16
USR2 == 17
CHILD == 18
BREAK == 21

Values == {HANGUP, INTERRUPT, QUIT, ABORT, KILL, TERMINATE, USR1, USR2, CHILD, BREAK}

\* The numbers of <csignal> on Linux.
SIGUSR1 == 10
SIGUSR2 == 12
SIGCHLD == 17
SIGSTOP == 19
SIGTTIN == 21

MapEvent(signum) ==
    CASE signum \in {HANGUP, INTERRUPT, QUIT, ABORT, KILL, TERMINATE} -> signum
      [] signum = SIGUSR1 -> USR1
      [] signum = SIGUSR2 -> USR2
      [] signum = SIGCHLD -> CHILD
      [] signum \in {SIGTTIN, SIGSTOP} -> BREAK
      [] OTHER -> NONE

VARIABLES m_handlers,   \* registered handlers, in the order of the vector
          m_signals,    \* signal numbers the receiver is installed for
          m_mutex,
          frames,       \* each thread's calls into the manager, innermost last
          signal,       \* the signal each handler is for
          registered,   \* handlers ever passed to RegisterSignal
          finished,     \* handlers that were destroyed: returned false, or cleared
          cleared       \* handlers in the manager, or running, when a Clear covered them

vars == <<m_handlers, m_signals, m_mutex, frames, signal, registered, finished, cleared>>

ghosts == <<signal, registered, cleared>>

Elements(s) == {s[i] : i \in DOMAIN s}

\* A call: what it does, whether it waits for the mutex, holds it or runs
\* handlers, and the handlers it has in hand.
Frame(kind, at, sig, handlers) == [kind |-> kind, at |-> at, sig |-> sig, handlers |-> handlers]

Idle(t) == frames[t] = <<>>

Top(t) == frames[t][Len(frames[t])]

Pop(t) == [frames EXCEPT ![t] = SubSeq(@, 1, Len(@) - 1)]

Replace(t, f) == [frames EXCEPT ![t] = [@ EXCEPT ![Len(@)] = f]]

PushOn(t, f) == [frames EXCEPT ![t] = Append(@, f)]

\* A handler of the innermost call is running.
Running(t) == ~Idle(t) /\ Top(t).at = "run" /\ Top(t).handlers # <<>>

\* Handlers in the hands of calls of some kinds.
InHand(kinds) ==
    UNION {UNION {Elements(frames[t][i].handlers) :
                     i \in {j \in DOMAIN frames[t] : frames[t][j].kind \in kinds}} : t \in Threads}

Init ==
    /\ m_handlers = <<>> /\ m_signals = {} /\ m_mutex = NoThread
    /\ frames = [t \in Threads |-> <<>>]
    /\ signal \in [Handlers -> Signals]
    /\ registered = {} /\ finished = {} /\ cleared = {}

-----------------------------------------------------------------------------
(* Calls: by a thread's own code, which runs when the thread is idle or in  *)
(* a handler that was called, and by the system, at any time.               *)

MayCall(t) == Len(frames[t]) < MaxDepth /\ (Idle(t) \/ Running(t))

Enter(t, f) ==
    /\ frames' = PushOn(t, f)
    /\ UNCHANGED <<m_handlers, m_signals, m_mutex, signal, finished, cleared>>

RegisterSignal(t, h) ==
    /\ MayCall(t) /\ h \notin registered
    /\ registered' = registered \cup {h}
    /\ Enter(t, Frame("register", "lock", signal[h], <<h>>))

ClearSignalHandlers(t, sig) ==
    MayCall(t) /\ Enter(t, Frame("clear", "lock", sig, <<>>)) /\ UNCHANGED registered

\* The value of the enum is taken for a number of the system, which MapEvent does
\* in ReceiveSignal: to raise USR2, 17, runs the handlers of CHILD, to raise USR1 or
\* CHILD runs none, and BREAK is SIGTTIN and comes through.
RaiseSignal(t, sig) ==
    MayCall(t) /\ Enter(t, Frame("raise", "lock", MapEvent(sig), <<>>)) /\ UNCHANGED registered

\* The system delivers what the receiver was installed for, and does not
\* interrupt the delivery of a signal by another of the same on the thread.
Receiver(t, signum) ==
    /\ signum \in m_signals /\ Len(frames[t]) < MaxDepth
    /\ \A i \in DOMAIN frames[t] : frames[t][i].kind = "deliver" => frames[t][i].sig # MapEvent(signum)
    /\ Enter(t, Frame("deliver", "lock", MapEvent(signum), <<>>)) /\ UNCHANGED registered

-----------------------------------------------------------------------------
(* The mutex.  What a call does with it happens at once and is followed by  *)
(* the unlock, so that a delivery finds the mutex held in between.          *)

\* What is left of a vector without repetitions by std::remove_if, or moved out
\* by it: the elements of a set, in their order (one sequence).
Selected(s, S) ==
    {p \in UNION {[1 .. n -> Elements(s) \cap S] : n \in 0 .. Len(s)} :
        /\ Elements(p) = Elements(s) \cap S
        /\ \A i, j \in DOMAIN p : i < j => \E k, l \in DOMAIN s : k < l /\ p[i] = s[k] /\ p[j] = s[l]}

Of(sig) == Selected(m_handlers, {h \in Handlers : signal[h] = sig})

Without(sig) == Selected(m_handlers, {h \in Handlers : signal[h] # sig})

\* std::sort by signal, which does not keep the order of equal signals.
Sorted(s) ==
    {p \in [1 .. Len(s) -> Elements(s)] :
        /\ Elements(p) = Elements(s)
        /\ \A i, j \in 1 .. Len(s) : i < j => signal[p[i]] <= signal[p[j]]}

Lock(t, kinds) == ~Idle(t) /\ Top(t).kind \in kinds /\ Top(t).at = "lock" /\ m_mutex = NoThread /\ m_mutex' = t

Register(t) ==
    /\ Lock(t, {"register"})
    /\ m_handlers' \in Sorted(m_handlers \o Top(t).handlers)
    /\ m_signals' = m_signals \cup {Top(t).sig}
    /\ frames' = Replace(t, Frame("register", "unlock", Top(t).sig, <<>>))
    /\ UNCHANGED <<finished, ghosts>>

\* Clear() and Clear(signal); NONE stands for all signals.
Clear(t) ==
    /\ Lock(t, {"clear"})
    /\ m_handlers' \in IF Top(t).sig = NONE THEN {<<>>} ELSE Without(Top(t).sig)
    /\ finished' = finished \cup (Elements(m_handlers) \ Elements(m_handlers'))
    /\ cleared' = cleared \cup {h \in Elements(m_handlers) \cup InHand({"raise", "deliver"}) :
                                  Top(t).sig \in {NONE, signal[h]}}
    /\ frames' = Replace(t, Frame("clear", "unlock", Top(t).sig, <<>>))
    /\ UNCHANGED <<m_signals, signal, registered>>

ReceiveSignal_RunsLocked(t) ==
    /\ Lock(t, {"raise", "deliver"})
    /\ m_handlers' \in Without(Top(t).sig)
    /\ \E taken \in Of(Top(t).sig) : frames' = Replace(t, Frame(Top(t).kind, "run", Top(t).sig, taken))
    /\ UNCHANGED <<m_signals, finished, ghosts>>

ReceiveSignal(t) ==
    /\ Lock(t, {"raise", "deliver"})
    /\ m_handlers' \in Without(Top(t).sig)
    /\ \E taken \in Of(Top(t).sig) : frames' = Replace(t, Frame(Top(t).kind, "unlock", Top(t).sig, taken))
    /\ UNCHANGED <<m_signals, finished, ghosts>>

Unlock(t) ==
    /\ ~Idle(t) /\ Top(t).at = "unlock"
    /\ m_mutex' = NoThread
    /\ frames' = IF Top(t).kind \in {"raise", "deliver"}
                 THEN Replace(t, [Top(t) EXCEPT !.at = "run"])
                 ELSE Pop(t)
    /\ UNCHANGED <<m_handlers, m_signals, finished, ghosts>>

-----------------------------------------------------------------------------
(* ReceiveSignal runs the handlers it took, one after the other.  While a   *)
(* handler runs, its thread may call the manager.                           *)

Rest(t) == Replace(t, [Top(t) EXCEPT !.handlers = Tail(@)])

Return(t) ==
    /\ ~Idle(t) /\ Top(t).at = "run" /\ Top(t).handlers = <<>>
    /\ frames' = Pop(t)
    /\ UNCHANGED <<m_handlers, m_signals, m_mutex, finished, ghosts>>

HandlerReturnsFalse(t) ==
    /\ Running(t)
    /\ finished' = finished \cup {Head(Top(t).handlers)}
    /\ frames' = Rest(t)
    /\ UNCHANGED <<m_handlers, m_signals, m_mutex, ghosts>>

HandlerReturnsTrue_Dropped(t) ==
    /\ Running(t)
    /\ frames' = Rest(t)
    /\ UNCHANGED <<m_handlers, m_signals, m_mutex, finished, ghosts>>

\* The handler is registered again: a call of Register on top of the raise.
HandlerReturnsTrue(t) ==
    /\ Running(t)
    /\ LET h == Head(Top(t).handlers) IN
       frames' = [frames EXCEPT ![t] = Append(Rest(t)[t], Frame("register", "lock", signal[h], <<h>>))]
    /\ UNCHANGED <<m_handlers, m_signals, m_mutex, finished, ghosts>>

Next ==
    \E t \in Threads :
       \/ \E h \in Handlers : RegisterSignal(t, h)
       \/ \E sig \in Signals \cup {NONE} : ClearSignalHandlers(t, sig)
       \/ \E sig \in Signals : RaiseSignal(t, sig)
       \/ \E signum \in m_signals : Receiver(t, signum)
       \/ Register(t) \/ Clear(t) \/ ReceiveSignal(t) \/ Unlock(t)
       \/ HandlerReturnsFalse(t) \/ HandlerReturnsTrue(t) \/ Return(t)

Spec == Init /\ [][Next]_vars

-----------------------------------------------------------------------------
(* Properties.                                                              *)

FrameType ==
    [kind : {"register", "clear", "raise", "deliver"}, at : {"lock", "unlock", "run"},
     sig : Signals \cup {NONE} \cup {MapEvent(sig) : sig \in Signals}, handlers : Seq(Handlers)]

\* Type correctness of the manager's state.
TypeOK ==
    /\ m_handlers \in Seq(Handlers) /\ m_signals \subseteq Signals
    /\ m_mutex \in Threads \cup {NoThread}
    /\ frames \in [Threads -> Seq(FrameType)]
    /\ signal \in [Handlers -> Signals]
    /\ registered \subseteq Handlers /\ finished \subseteq Handlers /\ cleared \subseteq Handlers

\* The handlers are kept in the order of their signals.
HandlersSorted ==
    \A i, j \in DOMAIN m_handlers : i < j => signal[m_handlers[i]] <= signal[m_handlers[j]]

\* A handler is in one place: once in the vector, in the hands of one call, or
\* destroyed.  Two threads that raise the same signal never run it both.
OnePlace ==
    /\ \A i, j \in DOMAIN m_handlers : m_handlers[i] = m_handlers[j] => i = j
    /\ Elements(m_handlers) \cap finished = {}
    /\ \A t \in Threads : \A i \in DOMAIN frames[t] :
          LET mine == Elements(frames[t][i].handlers) IN
          /\ mine \cap (Elements(m_handlers) \cup finished) = {}
          /\ \A u \in Threads : \A j \in DOMAIN frames[u] :
                <<t, i>> # <<u, j>> => mine \cap Elements(frames[u][j].handlers) = {}

\* A handler that was registered is in the vector, on its way there, or running,
\* until it returns false or is cleared.
NoneLost ==
    registered = Elements(m_handlers) \cup InHand({"register", "raise", "deliver"}) \cup finished

\* The receiver is installed for the signal of every handler in the vector.
Installed == \A i \in DOMAIN m_handlers : signal[m_handlers[i]] \in m_signals

\* No handler is lost and none is in two places, whatever threads raise, clear
\* and register while it runs.  For which signal it runs is not said here: see
\* RaiseSignal.
HandlersKept == OnePlace /\ NoneLost

\* A thread waits for m_mutex while it holds it itself only in a delivery that
\* interrupted it there: the calls a handler makes, and the registration that
\* follows a handler, find it unlocked.
NoSelfDeadlock ==
    \A t \in Threads : m_mutex = t /\ ~Idle(t) /\ Top(t).at = "lock" => Top(t).kind = "deliver"

\* The manager's two tables: the vector is sorted, although sorting happens where
\* a handler comes in only, and every signal in it is delivered to the manager.
TablesAgree == HandlersSorted /\ Installed

\* ClearSignalHandlers clears all handlers for a signal: a handler the manager
\* had at that time is not registered afterwards.
ClearedStaysCleared == Elements(m_handlers) \cap cleared = {}

-----------------------------------------------------------------------------
(***************************************************************************)
(* The inductive invariant behind the safety properties.                   *)
(***************************************************************************)

\* What a call has in hand, by what it does and where it is: only handlers run, a
\* handler is on its way into the vector with its own signal, and no call that has
\* handlers waits for the mutex to take others, or is about to be over.
FrameFits(f) ==
    /\ f.at = "run" => f.kind \in {"raise", "deliver"}
    /\ f.kind = "clear" => f.handlers = <<>>
    /\ f.kind = "register" => /\ f.sig \in Signals
                              /\ f.at = "unlock" => f.handlers = <<>>
    /\ f.kind \in {"raise", "deliver"} => /\ f.sig \in {MapEvent(sig) : sig \in Signals}
                                          /\ f.at = "lock" => f.handlers = <<>>
    /\ \A h \in Elements(f.handlers) : signal[h] = f.sig
    /\ \A i, j \in DOMAIN f.handlers : f.handlers[i] = f.handlers[j] => i = j

CallsFit == \A t \in Threads : \A i \in DOMAIN frames[t] : FrameFits(frames[t][i])

\* A thread holds the mutex in one of its calls, and whatever interrupts it there
\* waits for the mutex as well.
MutexHeld ==
    /\ \A t \in Threads : \A i \in DOMAIN frames[t] :
          frames[t][i].at = "unlock" =>
              /\ m_mutex = t
              /\ \A j \in DOMAIN frames[t] : j > i => frames[t][j].kind = "deliver" /\ frames[t][j].at = "lock"
    /\ \A t \in Threads : m_mutex = t => \E i \in DOMAIN frames[t] : frames[t][i].at = "unlock"

IInv == TypeOK /\ CallsFit /\ MutexHeld /\ OnePlace /\ NoneLost /\ TablesAgree
==============================================================================
