------------------------- MODULE SelectSocketService -------------------------
(***************************************************************************)
(* The socket service built on select() (SelectSocketService.cpp).  Threads *)
(* register, change and close sockets and may notify the service; one      *)
(* thread, the poller, calls Execute; the owner calls Stop once.  A step is *)
(* one critical section of m_mutex, the call of select() made without it,   *)
(* or the delivery of the bytes that wake select() over the socket pair.    *)
(* A second Start and a second Stop return without changing anything.      *)
(***************************************************************************)
EXTENDS Naturals, SocketOps

CONSTANT PipeCapacity   \* unread wake-ups the socket pair can hold

ASSUME PipeAssumption == PipeCapacity \in Nat \ {0}

VARIABLES m_started, m_shutdown, m_polling, m_events, m_results,
          pipe,     \* [open, sent, readable]: wake-ups on their way and at the reader
          poller,   \* where the thread in Execute is
          fds,      \* the fd sets handed to select()
          timed,    \* whether select() got a timeout
          ready,    \* what select() returned
          owner     \* where the thread that calls Stop is

vars == <<m_started, m_shutdown, m_polling, m_events, m_results, pipe, poller, fds, timed, ready, owner>>

pollVars == <<m_polling, m_results, poller, fds, timed, ready>>
stopVars == <<m_started, m_shutdown, owner>>

PollerState == {"idle", "select", "returned"}
OwnerState == {"running", "waiting", "callback", "stopped"}
Outcome == {"none", "error", "timeout", "ready"}

Nothing == [res |-> "none", notify |-> FALSE, events |-> NoEvents]

ClosedPipe == [open |-> FALSE, sent |-> 0, readable |-> 0]

Init ==
    /\ m_started = FALSE /\ m_shutdown = FALSE /\ m_polling = FALSE
    /\ m_events = NoEvents /\ m_results = NoEvents
    /\ pipe = ClosedPipe
    /\ poller = "idle" /\ fds = NoEvents /\ timed = FALSE
    /\ ready = Nothing
    /\ owner = "running"

-----------------------------------------------------------------------------
(* Start, called by SocketService::Create before anyone else has the       *)
(* service, and the calls of the other threads.                            *)

Start ==
    /\ ~m_started /\ ~m_shutdown
    /\ m_started' = TRUE
    /\ m_shutdown' = FALSE
    /\ pipe' = [ClosedPipe EXCEPT !.open = TRUE]
    /\ UNCHANGED <<m_events, owner, pollVars>>

\* NotifyLocked sends only when a poll is under way: a service that is not
\* polling reads the registrations anew.  A full pair refuses the bytes, which
\* nobody looks at: it holds a wake-up already.
NotifyLocked ==
    pipe' = IF m_polling /\ pipe.open /\ pipe.sent + pipe.readable < PipeCapacity
            THEN [pipe EXCEPT !.sent = @ + 1]
            ELSE pipe

Notify ==
    /\ m_started
    /\ NotifyLocked
    /\ UNCHANGED <<m_events, pollVars, stopVars>>

Add(s, events) ==
    /\ m_started
    /\ m_events' = [m_events EXCEPT ![s] = IF @ = {} THEN events ELSE Merge(@, events)]
    /\ NotifyLocked
    /\ UNCHANGED <<pollVars, stopVars>>

Remove(s, events) ==
    /\ m_started
    /\ m_events[s] # {}
    /\ m_events' = [m_events EXCEPT ![s] = @ \ events]
    /\ NotifyLocked
    /\ UNCHANGED <<pollVars, stopVars>>

Close_Silent(s) ==
    /\ m_started
    /\ m_events[s] # {}
    /\ m_events' = [m_events EXCEPT ![s] = {}]
    /\ UNCHANGED <<pipe, pollVars, stopVars>>

Close(s) ==
    /\ m_started
    /\ m_events[s] # {}
    /\ m_events' = [m_events EXCEPT ![s] = {}]
    /\ NotifyLocked
    /\ UNCHANGED <<pollVars, stopVars>>

-----------------------------------------------------------------------------
(* Execute: up to the unlock, the call of select(), and from the lock on.  *)

\* A timeout of zero or less waits without limit.  After Stop, Execute returns
\* E_CANCELLED and changes nothing.
Execute ==
    /\ m_started /\ poller = "idle" /\ ~m_shutdown
    /\ m_polling' = TRUE
    /\ poller' = "select"
    /\ fds' = m_events
    /\ timed' \in BOOLEAN
    /\ UNCHANGED <<m_events, m_results, pipe, ready, stopVars>>

SelectReturns(res, notify, events) ==
    /\ poller = "select"
    /\ poller' = "returned"
    /\ ready' = [res |-> res, notify |-> notify, events |-> events]
    /\ UNCHANGED <<m_polling, m_results, fds, timed, m_events, pipe, stopVars>>

\* The sockets get ready whenever they like.
SelectReady ==
    \E events \in Registrations :
        /\ \A s \in Sockets : events[s] \subseteq fds[s]
        /\ events # NoEvents
        /\ SelectReturns("ready", pipe.readable > 0, events)

SelectNotified == pipe.readable > 0 /\ SelectReturns("ready", TRUE, NoEvents)

SelectTimeout == timed /\ pipe.readable = 0 /\ SelectReturns("timeout", FALSE, NoEvents)

\* EINTR, or a registered socket that was closed.
SelectError == SelectReturns("error", FALSE, NoEvents)

\* Drain reads until the reader would block: what is still on its way stays.
Drain == pipe' = [pipe EXCEPT !.readable = 0]

Forward_Stale == ready.events

Forward == [s \in Sockets |-> m_events[s] \cap ready.events[s]]

\* What Execute does with the result, holding the mutex again: registrations
\* may have changed since select() was called.
Collect ==
    IF m_shutdown \/ ready.res # "ready"
    THEN UNCHANGED <<pipe, m_results>>
    ELSE /\ IF ready.notify THEN Drain ELSE UNCHANGED pipe
         /\ m_results' = Forward

ExecuteReturn ==
    /\ poller = "returned"
    /\ poller' = "idle"
    /\ m_polling' = FALSE
    /\ Collect
    /\ fds' = NoEvents /\ timed' = FALSE /\ ready' = Nothing
    /\ UNCHANGED <<m_events, stopVars>>

-----------------------------------------------------------------------------
(* Stop, and what happens outside the service.                             *)

Stop_NoWait ==
    /\ m_started /\ owner = "running"
    /\ m_shutdown' = TRUE
    /\ m_events' = NoEvents
    /\ m_results' = NoEvents
    /\ pipe' = ClosedPipe /\ owner' = "callback"
    /\ UNCHANGED <<m_started, m_polling, poller, fds, timed, ready>>

Stop_Silent ==
    /\ m_started /\ owner = "running"
    /\ m_shutdown' = TRUE
    /\ m_events' = NoEvents
    /\ m_results' = NoEvents
    /\ IF m_polling
       THEN owner' = "waiting" /\ UNCHANGED pipe
       ELSE pipe' = ClosedPipe /\ owner' = "callback"
    /\ UNCHANGED <<m_started, m_polling, poller, fds, timed, ready>>

Stop ==
    /\ m_started /\ owner = "running"
    /\ m_shutdown' = TRUE
    /\ m_events' = NoEvents
    /\ m_results' = NoEvents
    /\ IF m_polling
       THEN NotifyLocked /\ owner' = "waiting"
       ELSE pipe' = ClosedPipe /\ owner' = "callback"
    /\ UNCHANGED <<m_started, m_polling, poller, fds, timed, ready>>

\* Nothing in the service notifies m_cond: only a spurious wake-up makes Stop
\* look at m_polling again.
StopWakeup ==
    /\ owner = "waiting"
    /\ ~m_polling
    /\ pipe' = ClosedPipe
    /\ owner' = "callback"
    /\ UNCHANGED <<m_started, m_shutdown, m_events, pollVars>>

\* The callback Stop() hands to Stop(fn) runs after the unlock.  A build with
\* assertions ends here when something is registered; without, nothing happens.
StopCallback ==
    /\ owner = "callback"
    /\ owner' = "stopped"
    /\ UNCHANGED <<m_started, m_shutdown, m_events, pipe, pollVars>>

Deliver ==
    /\ pipe.sent > 0
    /\ pipe' = [pipe EXCEPT !.sent = @ - 1, !.readable = @ + 1]
    /\ UNCHANGED <<m_events, pollVars, stopVars>>

Next ==
    \/ Start
    \/ Notify
    \/ \E s \in Sockets, events \in Request : Add(s, events) \/ Remove(s, events)
    \/ \E s \in Sockets : Close(s)
    \/ Execute
    \/ SelectReady
    \/ SelectNotified
    \/ SelectTimeout
    \/ SelectError
    \/ ExecuteReturn
    \/ Stop
    \/ StopWakeup
    \/ StopCallback
    \/ Deliver

Spec == Init /\ [][Next]_vars

\* Threads that are inside a call go on, the kernel reports what is readable and
\* delivers what was sent.  Nobody has to call anything, no socket has to get
\* ready, and a condition variable owes no spurious wake-up.
Fairness ==
    /\ WF_vars(SelectNotified)
    /\ WF_vars(SelectTimeout)
    /\ WF_vars(ExecuteReturn)
    /\ WF_vars(StopCallback)
    /\ WF_vars(Deliver)

FairSpec == Spec /\ Fairness

-----------------------------------------------------------------------------
(* Properties.                                                              *)

\* Type correctness of the service's state.
TypeOK ==
    /\ m_started \in BOOLEAN /\ m_shutdown \in BOOLEAN /\ m_polling \in BOOLEAN
    /\ m_events \in Registrations /\ m_results \in Registrations
    /\ pipe \in [open : BOOLEAN, sent : 0 .. PipeCapacity, readable : 0 .. PipeCapacity]
    /\ poller \in PollerState
    /\ fds \in Registrations
    /\ timed \in BOOLEAN
    /\ ready \in [res : Outcome, notify : BOOLEAN, events : Registrations]
    /\ owner \in OwnerState

\* Execute only reports operations that were handed to select() and are still
\* registered when it returns, whatever was removed in between.
ReportsRegistered ==
    [][m_results' # m_results =>
          \A s \in Sockets : m_results'[s] \subseteq fds[s] \cap m_events[s]]_vars

\* A poll that is under way during Stop does no harm: after Stop there are no
\* results (asserted by Execute and the destructor), the socket pair is open as
\* long as a poll waits on it, and Stop is done only when no poll is under way.
\* Of the registrations it says nothing: see StoppedEmpty.
StopIsOrderly ==
    /\ m_shutdown => m_results = NoEvents
    /\ m_polling => pipe.open
    /\ owner \in {"callback", "stopped"} => ~m_polling

\* The assertion of the callback that Stop runs once it has cleared m_events and
\* released the mutex: FUSION_ASSERT(m_events.empty()).
StoppedEmpty == [][StopCallback => m_events = NoEvents]_vars

\* A change of the registrations makes the poller leave select().
ChangeWakesPoller == (poller = "select" /\ fds # m_events) ~> poller # "select"

\* A poller that waits without limit comes back after Stop.
ShutdownEndsPoll == m_shutdown ~> ~m_polling

\* Stop returns.
StopReturns == m_shutdown ~> owner = "stopped"

-----------------------------------------------------------------------------
(***************************************************************************)
(* The inductive invariant behind StopIsOrderly and ReportsRegistered.     *)
(***************************************************************************)

\* The flags of the service tell where its threads are.  The pair is opened by
\* Start and closed by the Stop that finds no poll under way, or by its wake-up.
FlagsAgree ==
    /\ m_polling <=> poller # "idle"
    /\ m_shutdown <=> owner # "running"
    /\ m_shutdown => m_started
    /\ m_polling => m_started
    /\ m_started /\ owner \in {"running", "waiting"} => pipe.open

\* The pair holds what it has room for, and select() reports what it was given.
PollKept ==
    /\ pipe.sent + pipe.readable <= PipeCapacity
    /\ poller # "returned" => ready = Nothing
    /\ poller = "returned" => \A s \in Sockets : ready.events[s] \subseteq fds[s]

IInv == TypeOK /\ StopIsOrderly /\ FlagsAgree /\ PollKept
==============================================================================
