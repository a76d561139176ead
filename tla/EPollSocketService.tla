------------------------- MODULE EPollSocketService -------------------------
(***************************************************************************)
(* The socket service built on epoll (platforms/linux/EPollSocketService.cpp), *)
(* the default on Linux.  The kernel keeps its own list of registrations,   *)
(* which epoll_ctl changes and which forgets a socket when its descriptor is *)
(* closed.  A step is one critical section of m_mutex, one of the reads and *)
(* the call Execute makes without it, or something the program does with a  *)
(* socket.  Calls that return without changing anything (after Stop, with   *)
(* an invalid socket, for a socket not in the pollset) are not steps, and   *)
(* neither is Notify: NotifyLocked sends writeSize bytes, which is 0, so    *)
(* the reader of m_pipe never has anything to drain.                        *)
(***************************************************************************)
EXTENDS Naturals, FiniteSets, SocketOps

CONSTANT Reader     \* the reading end of m_pipe

VARIABLES m_started, m_shutdown, m_polling, m_events, m_results,
          open,      \* the descriptors that are open
          kernel,    \* the registrations of m_poll in the kernel
          poller,    \* where the thread in Execute is
          capacity,  \* the number of events epoll_wait may return
          ready,     \* what epoll_wait returned
          owner      \* where the thread that calls Start and Stop is

vars == <<m_started, m_shutdown, m_polling, m_events, m_results, open, kernel,
          poller, capacity, ready, owner>>

pollVars == <<m_polling, m_results, poller, capacity, ready>>
stopVars == <<m_started, m_shutdown, owner>>

Fds == Sockets \cup {Reader}

\* A map from some of the descriptors to operations.
Interest(D) == UNION {[d -> SUBSET Op] : d \in SUBSET D}

Empty == [s \in {} |-> {}]

Put(f, s, ops) == [x \in DOMAIN f \cup {s} |-> IF x = s THEN ops ELSE f[x]]

Drop(f, s) == [x \in DOMAIN f \ {s} |-> f[x]]

PollerState == {"idle", "unlocked", "wait", "returned"}
OwnerState == {"new", "starting", "running", "stopped", "destroyed"}
Outcome == {"none", "error", "timeout", "ready"}

Nothing == [res |-> "none", events |-> Empty]

Init ==
    /\ m_started = FALSE /\ m_shutdown = FALSE /\ m_polling = FALSE
    /\ m_events = Empty /\ m_results = Empty
    /\ open = Sockets
    /\ kernel = Empty
    /\ poller = "idle" /\ capacity = 0 /\ ready = Nothing
    /\ owner = "new"

-----------------------------------------------------------------------------
(* epoll_ctl: EPOLL_CTL_ADD needs an open descriptor the kernel does not    *)
(* have, EPOLL_CTL_MOD and EPOLL_CTL_DEL one it has.                        *)

CanAdd(s) == s \in open /\ s \notin DOMAIN kernel

CanChange(s) == s \in open /\ s \in DOMAIN kernel

-----------------------------------------------------------------------------
(* Registrations.  A failed EPOLL_CTL_MOD or EPOLL_CTL_DEL leaves the change *)
(* of m_events in place: ops is a reference into the map.                   *)

AddEvents(s, events) ==
    LET ops == IF s \in DOMAIN m_events THEN Merge(m_events[s], events) ELSE events
        ok == IF s \in DOMAIN m_events THEN CanChange(s) ELSE CanAdd(s)
    IN  /\ m_started /\ ~m_shutdown
        /\ m_events' = IF s \in DOMAIN m_events \/ ok THEN Put(m_events, s, ops) ELSE m_events
        /\ kernel' = IF ok THEN Put(kernel, s, ops) ELSE kernel

Add(s, events) ==
    /\ owner # "starting"
    /\ AddEvents(s, events)
    /\ UNCHANGED <<open, pollVars, stopVars>>

Close(s) ==
    /\ m_started /\ ~m_shutdown
    /\ s \in DOMAIN m_events /\ CanChange(s)
    /\ m_events' = Drop(m_events, s)
    /\ kernel' = Drop(kernel, s)
    /\ UNCHANGED <<open, pollVars, stopVars>>

\* What is left of a registration.  A rest with Error is given up.
Rest(ops, events) == IF "Error" \in ops \ events THEN {} ELSE ops \ events

Remove_NoModify(s, events) ==
    LET ops == Rest(m_events[s], events) IN
    /\ m_started /\ ~m_shutdown
    /\ s \in DOMAIN m_events /\ m_events[s] \cap events # {}
    /\ IF ops = {} /\ CanChange(s)
       THEN m_events' = Drop(m_events, s) /\ kernel' = Drop(kernel, s)
       ELSE m_events' = Put(m_events, s, ops) /\ UNCHANGED kernel
    /\ UNCHANGED <<open, pollVars, stopVars>>

Remove(s, events) ==
    LET ops == Rest(m_events[s], events) IN
    /\ m_started /\ ~m_shutdown
    /\ s \in DOMAIN m_events /\ m_events[s] \cap events # {}
    /\ IF ops = {} /\ CanChange(s)
       THEN m_events' = Drop(m_events, s) /\ kernel' = Drop(kernel, s)
       ELSE /\ m_events' = Put(m_events, s, ops)
            /\ kernel' = IF CanChange(s) THEN Put(kernel, s, ops) ELSE kernel
    /\ UNCHANGED <<open, pollVars, stopVars>>

-----------------------------------------------------------------------------
(* Execute: up to the unlock; the size of m_events, read without the mutex; *)
(* epoll_wait; and from the lock on.                                        *)

Execute ==
    /\ m_started /\ owner # "starting" /\ poller = "idle" /\ ~m_shutdown
    /\ m_polling' = TRUE
    /\ poller' = "unlocked"
    /\ UNCHANGED <<m_events, m_results, open, kernel, capacity, ready, stopVars>>

ReadSize_OneMore ==
    /\ poller = "unlocked"
    /\ poller' = "wait"
    /\ capacity' = Cardinality(DOMAIN m_events) + 1
    /\ UNCHANGED <<m_polling, m_events, m_results, open, kernel, ready, stopVars>>

ReadSize ==
    /\ poller = "unlocked"
    /\ poller' = "wait"
    /\ capacity' = Cardinality(DOMAIN m_events)
    /\ UNCHANGED <<m_polling, m_events, m_results, open, kernel, ready, stopVars>>

WaitReturns(res, events) ==
    /\ poller = "wait"
    /\ poller' = "returned"
    /\ ready' = [res |-> res, events |-> events]
    /\ UNCHANGED <<m_polling, m_events, m_results, open, kernel, capacity, stopVars>>

\* The kernel reports errors whether they were asked for or not.
WaitReady ==
    \E events \in Interest(Sockets \cap DOMAIN kernel) :
        /\ events # Empty
        /\ Cardinality(DOMAIN events) <= capacity
        /\ \A s \in DOMAIN events : events[s] \subseteq kernel[s] \cup {"Error"}
        /\ WaitReturns("ready", events)

WaitTimeout == WaitReturns("timeout", Empty)

\* EINTR; EINVAL for a capacity of zero; EBADF when Stop closed m_poll before.
WaitError == WaitReturns("error", Empty)

\* The results are those of epoll_wait, whatever was removed since.
Collect ==
    m_results' = IF ~m_shutdown /\ ready.res = "ready"
                 THEN [s \in {x \in DOMAIN ready.events : ready.events[x] # {}} |-> ready.events[s]]
                 ELSE m_results

ExecuteReturn ==
    /\ poller = "returned"
    /\ poller' = "idle"
    /\ m_polling' = FALSE
    /\ Collect
    /\ capacity' = 0 /\ ready' = Nothing
    /\ UNCHANGED <<m_events, open, kernel, stopVars>>

-----------------------------------------------------------------------------
(* Start and Stop.  Start registers the reader in a second critical section. *)

Start ==
    /\ owner = "new"
    /\ m_started' = TRUE
    /\ open' = open \cup {Reader}
    /\ owner' = "starting"
    /\ UNCHANGED <<m_shutdown, m_events, kernel, pollVars>>

AddReader ==
    /\ owner = "starting"
    /\ AddEvents(Reader, {"Read", "Error"})
    /\ owner' = "running"
    /\ UNCHANGED <<m_started, m_shutdown, open, pollVars>>

\* A poller that already waits keeps waiting, but what it gets is discarded.
Stop ==
    /\ owner = "running"
    /\ m_shutdown' = TRUE
    /\ open' = open \ {Reader}
    /\ m_events' = Empty
    /\ m_results' = Empty
    /\ kernel' = Empty
    /\ owner' = "stopped"
    /\ UNCHANGED <<m_started, m_polling, poller, capacity, ready>>

\* The owner destroys the service it has stopped.
Destroy ==
    /\ owner = "stopped"
    /\ owner' = "destroyed"
    /\ UNCHANGED <<m_started, m_shutdown, m_events, open, kernel, pollVars>>

-----------------------------------------------------------------------------
(* The program closes a socket and may get its number back for a new one.   *)

CloseSocket(s) ==
    /\ s \in open
    /\ open' = open \ {s}
    /\ kernel' = Drop(kernel, s)
    /\ UNCHANGED <<m_events, pollVars, stopVars>>

CreateSocket(s) ==
    /\ s \notin open
    /\ open' = open \cup {s}
    /\ UNCHANGED <<m_events, kernel, pollVars, stopVars>>

\* Once the service is destroyed nothing of it is left to look at.
Next ==
    /\ owner # "destroyed"
    /\ \/ Start
       \/ AddReader
       \/ \E s \in Sockets, events \in Request : Add(s, events) \/ Remove(s, events)
       \/ \E s \in Sockets : Close(s) \/ CloseSocket(s) \/ CreateSocket(s)
       \/ Execute
       \/ ReadSize
       \/ WaitReady
       \/ WaitTimeout
       \/ WaitError
       \/ ExecuteReturn
       \/ Stop
       \/ Destroy

Spec == Init /\ [][Next]_vars

-----------------------------------------------------------------------------
(* Properties.                                                              *)

\* Type correctness of the service's state.
TypeOK ==
    /\ m_started \in BOOLEAN /\ m_shutdown \in BOOLEAN /\ m_polling \in BOOLEAN
    /\ m_events \in Interest(Fds) /\ m_results \in Interest(Sockets)
    /\ open \subseteq Fds
    /\ kernel \in Interest(Fds)
    /\ poller \in PollerState
    /\ capacity \in 0 .. Cardinality(Fds)
    /\ ready \in [res : Outcome, events : Interest(Sockets)]
    /\ owner \in OwnerState

\* What the kernel watches is what the service has on record for the socket:
\* closing descriptors, reusing their numbers and failing calls of epoll_ctl may
\* make the kernel forget a socket, but never leave it with other operations.
KernelMatches ==
    ~m_shutdown =>
        \A s \in DOMAIN kernel : s \in DOMAIN m_events /\ kernel[s] = m_events[s]

\* After Stop nothing is registered and there are no results (asserted by Execute
\* and the destructor), whatever calls of Add were waiting for the mutex and
\* whatever a poll that was under way has brought.
ClearedByStop == m_shutdown => m_events = Empty /\ m_results = Empty

\* epoll_wait is given room for at least one event, although the number of
\* registrations is read without the mutex, unless Stop came in between.
WaitHasRoom == poller = "wait" /\ capacity = 0 => m_shutdown

\* A service that was stopped can be destroyed: the destructor's assertions hold.
DestroyedIdle ==
    owner = "destroyed" =>
        m_shutdown /\ ~m_polling /\ m_events = Empty /\ m_results = Empty

-----------------------------------------------------------------------------
(***************************************************************************)
(* The inductive invariant behind the safety properties.                   *)
(***************************************************************************)

\* The flags of the service tell where its threads are.
FlagsAgree ==
    /\ m_started <=> owner # "new"
    /\ m_shutdown <=> owner \in {"stopped", "destroyed"}
    /\ poller # "idle" => owner \notin {"new", "starting"}

\* The reader is open and registered from Start to Stop, and is the first to be
\* registered: nobody but Start and Stop touches it.
ReaderRegistered ==
    /\ owner \in {"new", "starting"} => m_events = Empty
    /\ owner \in {"starting", "running"} => Reader \in open
    /\ owner = "running" => Reader \in DOMAIN m_events

\* The kernel forgets what is closed, so that a call of epoll_ctl can fail for a
\* registered socket only when the kernel has no entry that would become stale.
ForgetsClosed == DOMAIN kernel \subseteq open

IInv ==
    /\ TypeOK
    /\ KernelMatches /\ ClearedByStop /\ WaitHasRoom
    /\ FlagsAgree /\ ReaderRegistered /\ ForgetsClosed
==============================================================================
