------------------------------ MODULE MCPolling ------------------------------
(***************************************************************************)
(* The two socket services of the Linux build, the one on select() and the *)
(* one on epoll.  A program uses one of them, so a behaviour is one of     *)
(* either and leaves the other as it was made.                             *)
(***************************************************************************)
EXTENDS SelectSocketService, FiniteSets

CONSTANT Reader     \* of EPollSocketService

ASSUME SocketsAssumption == IsFiniteSet(Sockets)

\* The service registers the reader itself, for these operations.
ASSUME ReaderAssumption == Reader \notin Sockets /\ {"Read", "Error"} \subseteq Op

VARIABLES service,    \* the one this behaviour is about
          e_started, e_shutdown, e_polling, e_events, e_results,
          open, kernel, e_poller, capacity, e_ready, e_owner

epollVars == <<e_started, e_shutdown, e_polling, e_events, e_results,
               open, kernel, e_poller, capacity, e_ready, e_owner>>

EPoll == INSTANCE EPollSocketService WITH
    m_started <- e_started, m_shutdown <- e_shutdown, m_polling <- e_polling,
    m_events <- e_events, m_results <- e_results, poller <- e_poller, ready <- e_ready, owner <- e_owner

MCInit == service \in {"select", "epoll"} /\ Init /\ EPoll!Init

MCNext ==
    /\ UNCHANGED service
    /\ \/ service = "select" /\ Next /\ UNCHANGED epollVars
       \/ service = "epoll" /\ EPoll!Next /\ UNCHANGED vars

MCSpec == MCInit /\ [][MCNext]_<<service, vars, epollVars>> /\ Fairness

-----------------------------------------------------------------------------

\* Type correctness of both; epoll_wait is never given room for more events than
\* there are descriptors.
MCTypeOK == TypeOK /\ EPoll!TypeOK

\* What epoll watches is what the service has on record for the socket: closed
\* descriptors, numbers used again and calls of epoll_ctl that fail may make the
\* kernel forget a socket, but never leave it with other operations.  epoll_wait is
\* given room for at least one event, although the number of registrations is read
\* without the mutex, unless Stop came in between.
WatchesRegistered == EPoll!KernelMatches /\ EPoll!WaitHasRoom

\* Stop and a poll that is under way do each other no harm: after Stop neither
\* service has results and the one on epoll has no registrations, whatever calls
\* were waiting for the mutex; the one on select() keeps its socket pair open as
\* long as a poll waits on it, and is stopped when no poll is under way.
StopsClean == StopIsOrderly /\ EPoll!ClearedByStop
==============================================================================
