---------------------------- MODULE PollingProofs ----------------------------
(***************************************************************************)
(* Proofs about the two socket services, for any sockets, operations and   *)
(* size of the socket pair: the steps of each preserve its inductive       *)
(* invariant, and so do those of a program that has one of the two.        *)
(***************************************************************************)
EXTENDS MCPolling, FiniteSetTheorems, TLAPS

-----------------------------------------------------------------------------
(***************************************************************************)
(* SelectSocketService.                                                    *)
(***************************************************************************)

\* The constructor establishes the invariant.
LEMMA SelectInit == Init => IInv
  <1> SUFFICES ASSUME Init PROVE IInv
    OBVIOUS
  <1>1. NoEvents \in Registrations /\ NoEvents = [s \in Sockets |-> {}]
    BY DEF NoEvents, Registrations
  <1>2. TypeOK
    <2>1. pipe \in [open : BOOLEAN, sent : 0 .. PipeCapacity, readable : 0 .. PipeCapacity]
      BY PipeAssumption DEF Init, ClosedPipe
    <2>2. ready \in [res : Outcome, notify : BOOLEAN, events : Registrations]
      BY <1>1 DEF Init, Nothing, Outcome
    <2>3. poller \in PollerState /\ owner \in OwnerState
      BY DEF Init, PollerState, OwnerState
    <2> QED
      BY <1>1, <2>1, <2>2, <2>3, Zenon DEF Init, TypeOK
  <1>3. StopIsOrderly /\ FlagsAgree
    BY DEF Init, StopIsOrderly, FlagsAgree
  <1>4. PollKept
    BY PipeAssumption DEF Init, PollKept, ClosedPipe, Nothing, NoEvents
  <1> QED
    BY <1>2, <1>3, <1>4 DEF IInv

\* NotifyLocked keeps the pair open, if it was, and within its size.
LEMMA NotifyKeepsPipe ==
  ASSUME TypeOK, PollKept, NotifyLocked
  PROVE  /\ pipe' \in [open : BOOLEAN, sent : 0 .. PipeCapacity, readable : 0 .. PipeCapacity]
         /\ pipe'.open = pipe.open
         /\ pipe'.sent + pipe'.readable <= PipeCapacity
  BY PipeAssumption DEF TypeOK, PollKept, NotifyLocked

\* The calls of the other threads: Notify, Add, Remove and Close.
LEMMA SelectCalls ==
  ASSUME IInv,
         \/ Notify
         \/ \E s \in Sockets, events \in Request : Add(s, events) \/ Remove(s, events)
         \/ \E s \in Sockets : Close(s)
  PROVE  IInv'
  <1> USE DEF IInv, pollVars, stopVars
  <1>1. /\ m_started /\ NotifyLocked
        /\ UNCHANGED <<m_started, m_shutdown, m_polling, m_results, poller, fds, timed, ready, owner>>
    BY DEF Notify, Add, Remove, Close
  <1>2. /\ pipe' \in [open : BOOLEAN, sent : 0 .. PipeCapacity, readable : 0 .. PipeCapacity]
        /\ pipe'.open = pipe.open
        /\ pipe'.sent + pipe'.readable <= PipeCapacity
    BY <1>1, NotifyKeepsPipe
  <1>3. m_events' \in Registrations
    <2>1. m_events \in Registrations
      BY DEF TypeOK
    <2>2. CASE Notify
      BY <2>1, <2>2 DEF Notify
    <2>3. ASSUME NEW s \in Sockets, NEW events \in Request, Add(s, events)
          PROVE  m_events' \in Registrations
      BY <2>1, <2>3 DEF Add, Merge, Registrations, Request
    <2>4. ASSUME NEW s \in Sockets, NEW events \in Request, Remove(s, events)
          PROVE  m_events' \in Registrations
      BY <2>1, <2>4 DEF Remove, Registrations
    <2>5. ASSUME NEW s \in Sockets, Close(s)
          PROVE  m_events' \in Registrations
      BY <2>1, <2>5 DEF Close, Registrations
    <2> QED
      BY <2>2, <2>3, <2>4, <2>5
  <1>4. TypeOK'
    BY <1>1, <1>2, <1>3 DEF TypeOK
  <1>5. StopIsOrderly'
    BY <1>1, <1>2 DEF StopIsOrderly
  <1>6. FlagsAgree' /\ PollKept'
    BY <1>1, <1>2 DEF FlagsAgree, PollKept
  <1> QED
    BY <1>4, <1>5, <1>6

\* Execute, up to the call of select().
LEMMA SelectExecute ==
  ASSUME IInv, Execute
  PROVE  IInv'
  <1> USE DEF IInv, stopVars
  <1>1. /\ m_started /\ poller = "idle" /\ ~m_shutdown
        /\ m_polling' = TRUE /\ poller' = "select" /\ fds' = m_events /\ timed' \in BOOLEAN
        /\ UNCHANGED <<m_events, m_results, pipe, ready, m_started, m_shutdown, owner>>
    BY DEF Execute
  <1>2. TypeOK'
    BY <1>1 DEF TypeOK, PollerState
  <1>3. StopIsOrderly' /\ FlagsAgree'
    BY <1>1 DEF StopIsOrderly, FlagsAgree
  <1> QED
    BY <1>1, <1>2, <1>3 DEF PollKept
\* select() returns.
LEMMA SelectCall ==
  ASSUME IInv, SelectReady \/ SelectNotified \/ SelectTimeout \/ SelectError
  PROVE  IInv'
  <1> USE DEF IInv, stopVars
  <1>1. NoEvents \in Registrations /\ \A s \in Sockets : NoEvents[s] = {}
    BY DEF NoEvents, Registrations
  <1>2. \E res \in Outcome, notify \in BOOLEAN, events \in Registrations :
           /\ SelectReturns(res, notify, events)
           /\ \A s \in Sockets : events[s] \subseteq fds[s]
    <2>1. CASE SelectReady
      <3>1. PICK events \in Registrations :
               /\ \A s \in Sockets : events[s] \subseteq fds[s]
               /\ SelectReturns("ready", pipe.readable > 0, events)
        BY <2>1 DEF SelectReady
      <3>2. (pipe.readable > 0) \in BOOLEAN /\ "ready" \in Outcome
        BY DEF Outcome
      <3> QED
        BY <3>1, <3>2, Zenon
    <2>2. CASE SelectNotified
      BY <1>1, <2>2 DEF SelectNotified, Outcome
    <2>3. CASE SelectTimeout
      BY <1>1, <2>3 DEF SelectTimeout, Outcome
    <2>4. CASE SelectError
      BY <1>1, <2>4 DEF SelectError, Outcome
    <2> QED
      BY <2>1, <2>2, <2>3, <2>4
  <1>3. PICK res \in Outcome, notify \in BOOLEAN, events \in Registrations :
           /\ SelectReturns(res, notify, events)
           /\ \A s \in Sockets : events[s] \subseteq fds[s]
    BY <1>2
  <1>4. /\ poller = "select" /\ poller' = "returned"
        /\ ready' = [res |-> res, notify |-> notify, events |-> events]
        /\ UNCHANGED <<m_started, m_shutdown, m_polling, m_events, m_results, pipe, fds, timed, owner>>
    BY <1>3 DEF SelectReturns
  <1>5. TypeOK'
    BY <1>4 DEF TypeOK, PollerState
  <1>6. StopIsOrderly' /\ FlagsAgree'
    BY <1>4 DEF StopIsOrderly, FlagsAgree
  <1>7. PollKept'
    BY <1>3, <1>4 DEF PollKept
  <1> QED
    BY <1>5, <1>6, <1>7

\* Execute, from the lock on: what it reports was registered when select() was
\* called and still is.
LEMMA SelectReturn ==
  ASSUME IInv, ExecuteReturn
  PROVE  /\ IInv'
         /\ m_results' # m_results =>
               \A s \in Sockets : m_results'[s] \subseteq fds[s] \cap m_events[s]
  <1> USE DEF IInv, stopVars
  <1>1. /\ poller = "returned" /\ poller' = "idle" /\ m_polling' = FALSE
        /\ fds' = NoEvents /\ timed' = FALSE /\ ready' = Nothing
        /\ UNCHANGED <<m_started, m_shutdown, m_events, owner>>
    BY DEF ExecuteReturn
  <1>2. /\ NoEvents \in Registrations
        /\ Nothing \in [res : Outcome, notify : BOOLEAN, events : Registrations]
    BY DEF NoEvents, Registrations, Nothing, Outcome
  <1>3. /\ pipe' \in [open : BOOLEAN, sent : 0 .. PipeCapacity, readable : 0 .. PipeCapacity]
        /\ pipe'.open = pipe.open
        /\ pipe'.sent + pipe'.readable <= PipeCapacity
    BY PipeAssumption DEF ExecuteReturn, Collect, Drain, TypeOK, PollKept
  <1>4. CASE UNCHANGED m_results
    <2>1. TypeOK'
      BY <1>1, <1>2, <1>3, <1>4 DEF TypeOK, PollerState
    <2>2. StopIsOrderly' /\ FlagsAgree' /\ PollKept'
      BY <1>1, <1>3, <1>4 DEF StopIsOrderly, FlagsAgree, PollKept
    <2> QED
      BY <1>4, <2>1, <2>2
  <1>5. CASE ~m_shutdown /\ m_results' = Forward
    <2>1. /\ Forward \in Registrations
          /\ \A s \in Sockets : Forward[s] \subseteq fds[s] \cap m_events[s]
      BY <1>1 DEF Forward, Registrations, TypeOK, PollKept
    <2>2. TypeOK'
      BY <1>1, <1>2, <1>3, <1>5, <2>1 DEF TypeOK, PollerState
    <2>3. StopIsOrderly' /\ FlagsAgree' /\ PollKept'
      BY <1>1, <1>3, <1>5 DEF StopIsOrderly, FlagsAgree, PollKept
    <2> QED
      BY <1>5, <2>1, <2>2, <2>3
  <1> QED
    BY <1>4, <1>5 DEF ExecuteReturn, Collect

\* Start, Stop and its wake-up and callback, and the delivery of a wake-up.
LEMMA SelectOwner ==
  ASSUME IInv, Start \/ Stop \/ StopWakeup \/ StopCallback \/ Deliver
  PROVE  /\ IInv'
         /\ m_results' = m_results \/ m_results' = NoEvents
  <1> USE DEF IInv, pollVars, stopVars
  <1>1. NoEvents \in Registrations /\ \A s \in Sockets : NoEvents[s] = {}
    BY DEF NoEvents, Registrations
  <1>2. ClosedPipe \in [open : BOOLEAN, sent : 0 .. PipeCapacity, readable : 0 .. PipeCapacity]
        /\ ClosedPipe.sent + ClosedPipe.readable <= PipeCapacity
    BY PipeAssumption DEF ClosedPipe
  <1>3. CASE Start
    <2>1. /\ ~m_started /\ ~m_shutdown /\ m_started' = TRUE /\ m_shutdown' = FALSE
          /\ pipe' = [ClosedPipe EXCEPT !.open = TRUE]
          /\ UNCHANGED <<m_events, m_results, m_polling, poller, fds, timed, ready, owner>>
      BY <1>3 DEF Start
    <2>2. TypeOK'
      BY <1>2, <2>1 DEF TypeOK
    <2>3. StopIsOrderly' /\ FlagsAgree'
      BY <2>1 DEF StopIsOrderly, FlagsAgree, ClosedPipe
    <2>4. PollKept'
      BY <1>2, <2>1 DEF PollKept, ClosedPipe
    <2> QED
      BY <2>1, <2>2, <2>3, <2>4
  <1>4. CASE Stop
    <2>1. /\ m_started /\ owner = "running" /\ m_shutdown' = TRUE
          /\ m_events' = NoEvents /\ m_results' = NoEvents
          /\ UNCHANGED <<m_started, m_polling, poller, fds, timed, ready>>
      BY <1>4 DEF Stop
    <2>2. /\ pipe' \in [open : BOOLEAN, sent : 0 .. PipeCapacity, readable : 0 .. PipeCapacity]
          /\ pipe'.sent + pipe'.readable <= PipeCapacity
      BY <1>2, <1>4, NotifyKeepsPipe DEF Stop
    <2>3. \/ m_polling /\ owner' = "waiting" /\ pipe'.open = pipe.open
          \/ ~m_polling /\ owner' = "callback"
      BY <1>4, NotifyKeepsPipe DEF Stop, TypeOK
    <2>4. TypeOK'
      BY <1>1, <2>1, <2>2, <2>3 DEF TypeOK, OwnerState
    <2>5. StopIsOrderly' /\ FlagsAgree'
      BY <1>1, <2>1, <2>3 DEF StopIsOrderly, FlagsAgree
    <2>6. PollKept'
      BY <2>1, <2>2 DEF PollKept
    <2> QED
      BY <2>1, <2>4, <2>5, <2>6
  <1>5. CASE StopWakeup
    <2>1. /\ owner = "waiting" /\ ~m_polling /\ pipe' = ClosedPipe /\ owner' = "callback"
          /\ UNCHANGED <<m_started, m_shutdown, m_events, m_results, m_polling, poller, fds, timed, ready>>
      BY <1>5 DEF StopWakeup
    <2>2. TypeOK'
      BY <1>2, <2>1 DEF TypeOK, OwnerState
    <2>3. StopIsOrderly' /\ FlagsAgree' /\ PollKept'
      BY <1>2, <2>1 DEF StopIsOrderly, FlagsAgree, PollKept
    <2> QED
      BY <2>1, <2>2, <2>3
  <1>6. CASE StopCallback
    <2>1. /\ owner = "callback" /\ owner' = "stopped"
          /\ UNCHANGED <<m_started, m_shutdown, m_events, m_results, m_polling, pipe, poller, fds, timed, ready>>
      BY <1>6 DEF StopCallback
    <2>2. TypeOK'
      BY <2>1 DEF TypeOK, OwnerState
    <2>3. StopIsOrderly' /\ FlagsAgree' /\ PollKept'
      BY <2>1 DEF StopIsOrderly, FlagsAgree, PollKept
    <2> QED
      BY <2>1, <2>2, <2>3
  <1>7. CASE Deliver
    <2>1. /\ pipe.sent > 0 /\ pipe' = [pipe EXCEPT !.sent = @ - 1, !.readable = @ + 1]
          /\ UNCHANGED <<m_started, m_shutdown, m_events, m_results, m_polling, poller, fds, timed, ready, owner>>
      BY <1>7 DEF Deliver
    <2>2. /\ pipe' \in [open : BOOLEAN, sent : 0 .. PipeCapacity, readable : 0 .. PipeCapacity]
          /\ pipe'.open = pipe.open
          /\ pipe'.sent + pipe'.readable <= PipeCapacity
      <3>1. pipe \in [open : BOOLEAN, sent : 0 .. PipeCapacity, readable : 0 .. PipeCapacity]
        BY DEF TypeOK
      <3>2. pipe'.open = pipe.open /\ pipe'.sent = pipe.sent - 1 /\ pipe'.readable = pipe.readable + 1
        BY <2>1, <3>1
      <3>3. /\ pipe'.sent \in 0 .. PipeCapacity /\ pipe'.readable \in 0 .. PipeCapacity
            /\ pipe'.sent + pipe'.readable <= PipeCapacity
        BY <2>1, <3>1, <3>2, PipeAssumption DEF PollKept
      <3> QED
        BY <2>1, <3>1, <3>2, <3>3
    <2>3. TypeOK'
      BY <2>1, <2>2 DEF TypeOK
    <2>4. StopIsOrderly' /\ FlagsAgree' /\ PollKept'
      BY <2>1, <2>2 DEF StopIsOrderly, FlagsAgree, PollKept
    <2> QED
      BY <2>1, <2>3, <2>4
  <1> QED
    BY <1>3, <1>4, <1>5, <1>6, <1>7

\* Every step of the service preserves the invariant, and reports only what was
\* registered.
LEMMA SelectNext ==
  ASSUME IInv, [Next]_vars
  PROVE  /\ IInv'
         /\ m_results' # m_results =>
               \A s \in Sockets : m_results'[s] \subseteq fds[s] \cap m_events[s]
  <1>1. CASE \/ Notify
             \/ \E s \in Sockets, events \in Request : Add(s, events) \/ Remove(s, events)
             \/ \E s \in Sockets : Close(s)
    <2>1. UNCHANGED m_results
      BY <1>1 DEF Notify, Add, Remove, Close, pollVars
    <2> QED
      BY <1>1, <2>1, SelectCalls
  <1>2. CASE Execute
    <2>1. UNCHANGED m_results
      BY <1>2 DEF Execute
    <2> QED
      BY <1>2, <2>1, SelectExecute
  <1>3. CASE SelectReady \/ SelectNotified \/ SelectTimeout \/ SelectError
    <2>1. UNCHANGED m_results
      BY <1>3 DEF SelectReady, SelectNotified, SelectTimeout, SelectError, SelectReturns
    <2> QED
      BY <1>3, <2>1, SelectCall
  <1>4. CASE ExecuteReturn
    BY <1>4, SelectReturn
  <1>5. CASE Start \/ Stop \/ StopWakeup \/ StopCallback \/ Deliver
    BY <1>5, SelectOwner DEF NoEvents
  <1>6. CASE UNCHANGED vars
    BY <1>6 DEF vars, IInv, TypeOK, StopIsOrderly, FlagsAgree, PollKept
  <1> QED
    BY <1>1, <1>2, <1>3, <1>4, <1>5, <1>6 DEF Next

\* A poll under way and Stop do each other no harm in the service on select().
THEOREM SelectStops == Spec => [](TypeOK /\ StopIsOrderly)
  <1>1. IInv /\ [Next]_vars => IInv'
    BY SelectNext
  <1>2. IInv => TypeOK /\ StopIsOrderly
    BY DEF IInv
  <1> QED
    BY <1>1, <1>2, SelectInit, PTL DEF Spec

\* Execute reports what was handed to select() and is still registered.
THEOREM SelectReports == Spec => ReportsRegistered
  <1>1. IInv /\ [Next]_vars => IInv'
    BY SelectNext
  <1>2. IInv /\ [Next]_vars =>
           (m_results' # m_results =>
               \A s \in Sockets : m_results'[s] \subseteq fds[s] \cap m_events[s])
    BY SelectNext
  <1> QED
    BY <1>1, <1>2, SelectInit, PTL DEF Spec, ReportsRegistered

-----------------------------------------------------------------------------
(***************************************************************************)
(* EPollSocketService.                                                     *)
(***************************************************************************)

\* The maps from some descriptors to operations.
LEMMA InterestIs ==
  ASSUME NEW D, NEW f
  PROVE  f \in EPoll!Interest(D) <=> f \in [DOMAIN f -> SUBSET Op] /\ DOMAIN f \subseteq D
  BY DEF EPoll!Interest

\* The empty map has no descriptors.
LEMMA EmptyIs ==
  ASSUME NEW D
  PROVE  EPoll!Empty \in EPoll!Interest(D) /\ DOMAIN EPoll!Empty = {}
  BY DEF EPoll!Empty, EPoll!Interest

\* An entry that is put into a map.
LEMMA PutIs ==
  ASSUME NEW D, NEW f \in EPoll!Interest(D), NEW s \in D, NEW ops \in SUBSET Op
  PROVE  /\ EPoll!Put(f, s, ops) \in EPoll!Interest(D)
         /\ DOMAIN EPoll!Put(f, s, ops) = DOMAIN f \cup {s}
         /\ EPoll!Put(f, s, ops)[s] = ops
         /\ \A x \in DOMAIN f : x # s => EPoll!Put(f, s, ops)[x] = f[x]
  <1>1. f \in [DOMAIN f -> SUBSET Op] /\ DOMAIN f \subseteq D
    BY InterestIs
  <1>2. /\ DOMAIN EPoll!Put(f, s, ops) = DOMAIN f \cup {s}
        /\ EPoll!Put(f, s, ops)[s] = ops
        /\ \A x \in DOMAIN f : x # s => EPoll!Put(f, s, ops)[x] = f[x]
        /\ EPoll!Put(f, s, ops) \in [DOMAIN f \cup {s} -> SUBSET Op]
    BY <1>1 DEF EPoll!Put
  <1> QED
    BY <1>1, <1>2, InterestIs

\* An entry that is taken out of a map.
LEMMA DropIs ==
  ASSUME NEW D, NEW f \in EPoll!Interest(D), NEW s
  PROVE  /\ EPoll!Drop(f, s) \in EPoll!Interest(D)
         /\ DOMAIN EPoll!Drop(f, s) = DOMAIN f \ {s}
         /\ \A x \in DOMAIN f : x # s => EPoll!Drop(f, s)[x] = f[x]
  <1>1. f \in [DOMAIN f -> SUBSET Op] /\ DOMAIN f \subseteq D
    BY InterestIs
  <1>2. /\ DOMAIN EPoll!Drop(f, s) = DOMAIN f \ {s}
        /\ \A x \in DOMAIN f : x # s => EPoll!Drop(f, s)[x] = f[x]
        /\ EPoll!Drop(f, s) \in [DOMAIN f \ {s} -> SUBSET Op]
    BY <1>1 DEF EPoll!Drop
  <1> QED
    BY <1>1, <1>2, InterestIs

\* The number of the elements of a set is the same in the instance.
LEMMA SameCardinality ==
  ASSUME NEW S PROVE EPoll!Cardinality(S) = Cardinality(S)
  BY DEF EPoll!Cardinality, Cardinality

\* There are finitely many descriptors.
LEMMA FdsFinite == IsFiniteSet(EPoll!Fds) /\ EPoll!Cardinality(EPoll!Fds) \in Nat
  <1>1. IsFiniteSet(EPoll!Fds)
    BY SocketsAssumption, FS_AddElement DEF EPoll!Fds
  <1> QED
    BY <1>1, FS_CardinalityType, SameCardinality

\* The number of registrations epoll_wait is told: no more than there are
\* descriptors, and none only if nothing is registered.
LEMMA RoomIs ==
  ASSUME NEW f \in EPoll!Interest(EPoll!Fds)
  PROVE  /\ EPoll!Cardinality(DOMAIN f) \in 0 .. EPoll!Cardinality(EPoll!Fds)
         /\ EPoll!Cardinality(DOMAIN f) = 0 => DOMAIN f = {}
  <1>1. DOMAIN f \subseteq EPoll!Fds
    BY InterestIs
  <1>2. IsFiniteSet(EPoll!Fds)
    BY FdsFinite
  <1>3. IsFiniteSet(DOMAIN f) /\ Cardinality(DOMAIN f) <= Cardinality(EPoll!Fds)
    BY <1>1, <1>2, FS_Subset
  <1>4. Cardinality(DOMAIN f) \in Nat /\ Cardinality(EPoll!Fds) \in Nat
    BY <1>2, <1>3, FS_CardinalityType
  <1> QED
    BY <1>3, <1>4, FS_EmptySet, SameCardinality

\* The constructor establishes the invariant.
LEMMA EPollInit == EPoll!Init => EPoll!IInv
  <1> SUFFICES ASSUME EPoll!Init PROVE EPoll!IInv
    OBVIOUS
  <1>1. EPoll!TypeOK
    <2>1. EPoll!Cardinality(EPoll!Fds) \in Nat
      BY FdsFinite
    <2>2. e_ready \in [res : EPoll!Outcome, events : EPoll!Interest(Sockets)]
      BY EmptyIs DEF EPoll!Init, EPoll!Nothing, EPoll!Outcome
    <2>3. capacity \in 0 .. EPoll!Cardinality(EPoll!Fds)
      BY <2>1 DEF EPoll!Init
    <2> QED
      BY <2>2, <2>3, EmptyIs
      DEF EPoll!Init, EPoll!TypeOK, EPoll!PollerState, EPoll!OwnerState, EPoll!Fds
  <1>2. EPoll!KernelMatches
    BY EmptyIs DEF EPoll!Init, EPoll!KernelMatches
  <1>3. EPoll!ForgetsClosed
    BY EmptyIs DEF EPoll!Init, EPoll!ForgetsClosed
  <1>4. EPoll!ClearedByStop /\ EPoll!WaitHasRoom /\ EPoll!FlagsAgree /\ EPoll!ReaderRegistered
    BY DEF EPoll!Init, EPoll!ClearedByStop, EPoll!WaitHasRoom, EPoll!FlagsAgree, EPoll!ReaderRegistered
  <1> QED
    BY <1>1, <1>2, <1>3, <1>4 DEF EPoll!IInv

\* Registering: a change of the map of the service is one of the kernel's map as
\* well, unless epoll_ctl fails, in which case the kernel has no entry.
LEMMA EPollAddEvents ==
  ASSUME EPoll!IInv, NEW s \in EPoll!Fds, NEW events \in SUBSET Op, EPoll!AddEvents(s, events)
  PROVE  /\ e_events' \in EPoll!Interest(EPoll!Fds) /\ kernel' \in EPoll!Interest(EPoll!Fds)
         /\ DOMAIN e_events \subseteq DOMAIN e_events'
         /\ s \in open /\ s \notin DOMAIN kernel => s \in DOMAIN e_events'
         /\ \A x \in DOMAIN kernel' : x \in DOMAIN e_events' /\ kernel'[x] = e_events'[x]
         /\ DOMAIN kernel' \subseteq open
  <1> DEFINE ops == IF s \in DOMAIN e_events THEN EPoll!Merge(e_events[s], events) ELSE events
             ok == IF s \in DOMAIN e_events THEN EPoll!CanChange(s) ELSE EPoll!CanAdd(s)
  <1>1. /\ e_events \in EPoll!Interest(EPoll!Fds) /\ kernel \in EPoll!Interest(EPoll!Fds)
        /\ e_started /\ ~e_shutdown
        /\ \A x \in DOMAIN kernel : x \in DOMAIN e_events /\ kernel[x] = e_events[x]
        /\ DOMAIN kernel \subseteq open
    BY DEF EPoll!IInv, EPoll!TypeOK, EPoll!KernelMatches, EPoll!ForgetsClosed, EPoll!AddEvents
  <1>2. ops \in SUBSET Op
    <2>1. CASE s \in DOMAIN e_events
      <3>1. e_events[s] \in SUBSET Op
        BY <1>1, <2>1, InterestIs
      <3> QED
        BY <2>1, <3>1 DEF EPoll!Merge
    <2>2. CASE s \notin DOMAIN e_events
      BY <2>2
    <2> QED
      BY <2>1, <2>2
  <1>3. /\ e_events' = IF s \in DOMAIN e_events \/ ok THEN EPoll!Put(e_events, s, ops) ELSE e_events
        /\ kernel' = IF ok THEN EPoll!Put(kernel, s, ops) ELSE kernel
    BY DEF EPoll!AddEvents
  <1>4. /\ ok => s \in open
        /\ ~ok => s \notin DOMAIN kernel
        /\ s \in open /\ s \notin DOMAIN kernel => s \in DOMAIN e_events \/ ok
    BY <1>1 DEF EPoll!CanChange, EPoll!CanAdd
  <1>5. /\ EPoll!Put(e_events, s, ops) \in EPoll!Interest(EPoll!Fds)
        /\ DOMAIN EPoll!Put(e_events, s, ops) = DOMAIN e_events \cup {s}
        /\ EPoll!Put(e_events, s, ops)[s] = ops
        /\ \A x \in DOMAIN e_events : x # s => EPoll!Put(e_events, s, ops)[x] = e_events[x]
    BY <1>1, <1>2, PutIs
  <1>6. /\ EPoll!Put(kernel, s, ops) \in EPoll!Interest(EPoll!Fds)
        /\ DOMAIN EPoll!Put(kernel, s, ops) = DOMAIN kernel \cup {s}
        /\ EPoll!Put(kernel, s, ops)[s] = ops
        /\ \A x \in DOMAIN kernel : x # s => EPoll!Put(kernel, s, ops)[x] = kernel[x]
    BY <1>1, <1>2, PutIs
  <1> HIDE DEF ops, ok
  <1>7. CASE ok
    BY <1>1, <1>3, <1>4, <1>5, <1>6, <1>7
  <1>8. CASE ~ok
    BY <1>1, <1>3, <1>4, <1>5, <1>8
  <1> QED
    BY <1>7, <1>8

\* A change of the registrations that keeps the two maps together keeps the
\* invariant.
LEMMA EPollChange ==
  ASSUME EPoll!IInv, ~e_shutdown,
         e_events' \in EPoll!Interest(EPoll!Fds), kernel' \in EPoll!Interest(EPoll!Fds),
         \A x \in DOMAIN kernel' : x \in DOMAIN e_events' /\ kernel'[x] = e_events'[x],
         DOMAIN kernel' \subseteq open,
         UNCHANGED <<open, e_polling, e_results, e_poller, capacity, e_ready, e_started, e_shutdown>>,
         e_owner' = "running", e_owner \in {"starting", "running"}, Reader \in DOMAIN e_events'
  PROVE  EPoll!IInv'
  <1> USE DEF EPoll!IInv
  <1>1. EPoll!TypeOK'
    BY DEF EPoll!TypeOK, EPoll!OwnerState
  <1>2. EPoll!KernelMatches' /\ EPoll!ClearedByStop' /\ EPoll!WaitHasRoom'
    BY DEF EPoll!KernelMatches, EPoll!ClearedByStop, EPoll!WaitHasRoom
  <1>3. EPoll!FlagsAgree' /\ EPoll!ReaderRegistered' /\ EPoll!ForgetsClosed'
    BY DEF EPoll!FlagsAgree, EPoll!ReaderRegistered, EPoll!ForgetsClosed
  <1> QED
    BY <1>1, <1>2, <1>3

\* Only a service that is running has registrations.
LEMMA EPollRunning ==
  ASSUME EPoll!IInv, e_started, ~e_shutdown,
         e_owner # "starting" \/ \E s \in EPoll!Fds : s \in DOMAIN e_events
  PROVE  e_owner = "running" /\ Reader \in DOMAIN e_events
  BY EmptyIs DEF EPoll!IInv, EPoll!TypeOK, EPoll!OwnerState, EPoll!FlagsAgree, EPoll!ReaderRegistered

\* Remove takes operations away, or the whole entry.
LEMMA EPollRemove ==
  ASSUME EPoll!IInv, NEW s \in EPoll!Fds, s # Reader, NEW events \in SUBSET Op,
         EPoll!Remove(s, events)
  PROVE  EPoll!IInv'
  <1> DEFINE ops == EPoll!Rest(e_events[s], events)
  <1>1. /\ e_events \in EPoll!Interest(EPoll!Fds) /\ kernel \in EPoll!Interest(EPoll!Fds)
        /\ e_started /\ ~e_shutdown /\ s \in DOMAIN e_events
        /\ \A x \in DOMAIN kernel : x \in DOMAIN e_events /\ kernel[x] = e_events[x]
        /\ DOMAIN kernel \subseteq open
    BY DEF EPoll!IInv, EPoll!TypeOK, EPoll!ForgetsClosed, EPoll!KernelMatches, EPoll!Remove
  <1>2. ops \in SUBSET Op
    <2>1. e_events[s] \in SUBSET Op
      BY <1>1, InterestIs
    <2> QED
      BY <2>1 DEF EPoll!Rest
  <1>3. /\ UNCHANGED <<open, e_polling, e_results, e_poller, capacity, e_ready, e_started, e_shutdown, e_owner>>
        /\ \/ e_events' = EPoll!Drop(e_events, s) /\ kernel' = EPoll!Drop(kernel, s)
           \/ /\ e_events' = EPoll!Put(e_events, s, ops)
              /\ \/ s \in open /\ kernel' = EPoll!Put(kernel, s, ops)
                 \/ s \notin DOMAIN kernel /\ kernel' = kernel
    BY <1>1 DEF EPoll!Remove, EPoll!CanChange, EPoll!pollVars, EPoll!stopVars
  <1>4. e_owner = "running" /\ Reader \in DOMAIN e_events
    BY <1>1, EPollRunning
  <1>5. /\ EPoll!Drop(e_events, s) \in EPoll!Interest(EPoll!Fds)
        /\ DOMAIN EPoll!Drop(e_events, s) = DOMAIN e_events \ {s}
        /\ \A x \in DOMAIN e_events : x # s => EPoll!Drop(e_events, s)[x] = e_events[x]
    BY <1>1, DropIs
  <1>6. /\ EPoll!Drop(kernel, s) \in EPoll!Interest(EPoll!Fds)
        /\ DOMAIN EPoll!Drop(kernel, s) = DOMAIN kernel \ {s}
        /\ \A x \in DOMAIN kernel : x # s => EPoll!Drop(kernel, s)[x] = kernel[x]
    BY <1>1, DropIs
  <1>7. ASSUME NEW f \in EPoll!Interest(EPoll!Fds), NEW o \in SUBSET Op
        PROVE  /\ EPoll!Put(f, s, o) \in EPoll!Interest(EPoll!Fds)
               /\ DOMAIN EPoll!Put(f, s, o) = DOMAIN f \cup {s}
               /\ EPoll!Put(f, s, o)[s] = o
               /\ \A x \in DOMAIN f : x # s => EPoll!Put(f, s, o)[x] = f[x]
    BY PutIs
  <1> HIDE DEF ops
  <1>8. /\ EPoll!Put(e_events, s, ops) \in EPoll!Interest(EPoll!Fds)
        /\ DOMAIN EPoll!Put(e_events, s, ops) = DOMAIN e_events \cup {s}
        /\ EPoll!Put(kernel, s, ops) \in EPoll!Interest(EPoll!Fds)
        /\ DOMAIN EPoll!Put(kernel, s, ops) = DOMAIN kernel \cup {s}
    BY <1>1, <1>2, <1>7
  <1>9. /\ e_events' \in EPoll!Interest(EPoll!Fds) /\ kernel' \in EPoll!Interest(EPoll!Fds)
        /\ DOMAIN kernel' \subseteq open /\ Reader \in DOMAIN e_events'
    BY <1>1, <1>3, <1>4, <1>5, <1>6, <1>7, <1>8
  <1>10. ASSUME NEW x \in DOMAIN kernel' PROVE x \in DOMAIN e_events' /\ kernel'[x] = e_events'[x]
    <2>1. CASE e_events' = EPoll!Drop(e_events, s) /\ kernel' = EPoll!Drop(kernel, s)
      BY <1>1, <1>5, <1>6, <2>1
    <2>2. CASE e_events' = EPoll!Put(e_events, s, ops) /\ kernel' = EPoll!Put(kernel, s, ops)
      <3>1. x \in DOMAIN kernel \cup {s} /\ x \in DOMAIN e_events'
        BY <1>1, <1>8, <2>2
      <3>2. CASE x = s
        <4>1. EPoll!Put(e_events, s, ops)[s] = ops
          BY <1>1, <1>2, <1>7
        <4>2. EPoll!Put(kernel, s, ops)[s] = ops
          BY <1>1, <1>2, <1>7
        <4> QED
          BY <2>2, <3>1, <3>2, <4>1, <4>2
      <3>3. CASE x # s
        <4>1. x \in DOMAIN kernel /\ x \in DOMAIN e_events /\ kernel[x] = e_events[x]
          BY <1>1, <3>1, <3>3
        <4>2. EPoll!Put(e_events, s, ops)[x] = e_events[x]
          BY <1>1, <1>2, <1>7, <3>3, <4>1
        <4>3. EPoll!Put(kernel, s, ops)[x] = kernel[x]
          BY <1>1, <1>2, <1>7, <3>3, <4>1
        <4> QED
          BY <2>2, <3>1, <4>1, <4>2, <4>3
      <3> QED
        BY <3>2, <3>3
    <2>3. CASE e_events' = EPoll!Put(e_events, s, ops) /\ s \notin DOMAIN kernel /\ kernel' = kernel
      <3>1. x \in DOMAIN e_events /\ kernel[x] = e_events[x] /\ x # s
        BY <1>1, <2>3
      <3>2. EPoll!Put(e_events, s, ops)[x] = e_events[x]
        BY <1>1, <1>2, <1>7, <3>1
      <3> QED
        BY <1>8, <2>3, <3>1, <3>2
    <2> QED
      BY <1>3, <2>1, <2>2, <2>3
  <1> QED
    BY <1>1, <1>3, <1>4, <1>9, <1>10, EPollChange

\* Add, Remove and Close, and the registration of the reader.
LEMMA EPollCalls ==
  ASSUME EPoll!IInv,
         \/ \E s \in Sockets, events \in EPoll!Request : EPoll!Add(s, events) \/ EPoll!Remove(s, events)
         \/ \E s \in Sockets : EPoll!Close(s)
         \/ EPoll!AddReader
  PROVE  EPoll!IInv'
  <1> USE DEF EPoll!pollVars, EPoll!stopVars
  <1>1. /\ e_events \in EPoll!Interest(EPoll!Fds) /\ kernel \in EPoll!Interest(EPoll!Fds)
        /\ DOMAIN kernel \subseteq open
        /\ ~e_shutdown => \A x \in DOMAIN kernel : x \in DOMAIN e_events /\ kernel[x] = e_events[x]
    BY DEF EPoll!IInv, EPoll!TypeOK, EPoll!ForgetsClosed, EPoll!KernelMatches
  <1>2. ASSUME NEW s \in Sockets PROVE s \in EPoll!Fds /\ s # Reader
    BY ReaderAssumption DEF EPoll!Fds
  <1>3. ASSUME NEW s \in Sockets, NEW events \in EPoll!Request, EPoll!Add(s, events)
        PROVE  EPoll!IInv'
    <2>1. /\ e_owner # "starting" /\ EPoll!AddEvents(s, events) /\ e_started /\ ~e_shutdown
          /\ UNCHANGED <<open, e_polling, e_results, e_poller, capacity, e_ready, e_started, e_shutdown, e_owner>>
      BY <1>3 DEF EPoll!Add, EPoll!AddEvents
    <2>2. e_owner = "running" /\ Reader \in DOMAIN e_events
      BY <2>1, EPollRunning
    <2>3. events \in SUBSET Op
      BY DEF EPoll!Request
    <2> QED
      BY <1>2, <2>1, <2>2, <2>3, EPollAddEvents, EPollChange
  <1>4. ASSUME NEW s \in Sockets, EPoll!Close(s)
        PROVE  EPoll!IInv'
    <2>1. /\ e_started /\ ~e_shutdown /\ s \in DOMAIN e_events
          /\ e_events' = EPoll!Drop(e_events, s) /\ kernel' = EPoll!Drop(kernel, s)
          /\ UNCHANGED <<open, e_polling, e_results, e_poller, capacity, e_ready, e_started, e_shutdown, e_owner>>
      BY <1>4 DEF EPoll!Close
    <2>2. e_owner = "running" /\ Reader \in DOMAIN e_events
      BY <1>2, <2>1, EPollRunning
    <2>3. /\ e_events' \in EPoll!Interest(EPoll!Fds) /\ DOMAIN e_events' = DOMAIN e_events \ {s}
          /\ \A x \in DOMAIN e_events : x # s => e_events'[x] = e_events[x]
      BY <1>1, <2>1, DropIs
    <2>4. /\ kernel' \in EPoll!Interest(EPoll!Fds) /\ DOMAIN kernel' = DOMAIN kernel \ {s}
          /\ \A x \in DOMAIN kernel : x # s => kernel'[x] = kernel[x]
      BY <1>1, <2>1, DropIs
    <2>5. /\ \A x \in DOMAIN kernel' : x \in DOMAIN e_events' /\ kernel'[x] = e_events'[x]
          /\ DOMAIN kernel' \subseteq open
      BY <1>1, <2>1, <2>3, <2>4
    <2>6. Reader \in DOMAIN e_events'
      BY <1>2, <2>2, <2>3
    <2> QED
      BY <2>1, <2>2, <2>3, <2>4, <2>5, <2>6, EPollChange
  <1>5. ASSUME NEW s \in Sockets, NEW events \in EPoll!Request, EPoll!Remove(s, events)
        PROVE  EPoll!IInv'
    BY <1>2, <1>5, EPollRemove DEF EPoll!Request
  <1>6. ASSUME EPoll!AddReader PROVE EPoll!IInv'
    <2>1. /\ e_owner = "starting" /\ EPoll!AddEvents(Reader, {"Read", "Error"})
          /\ e_owner' = "running" /\ e_started /\ ~e_shutdown
          /\ UNCHANGED <<open, e_polling, e_results, e_poller, capacity, e_ready, e_started, e_shutdown>>
      BY <1>6 DEF EPoll!AddReader, EPoll!AddEvents
    <2>2. Reader \in EPoll!Fds /\ {"Read", "Error"} \in SUBSET Op
      BY ReaderAssumption DEF EPoll!Fds
    <2>3. Reader \in open /\ e_events = EPoll!Empty
      BY <2>1 DEF EPoll!IInv, EPoll!ReaderRegistered
    <2>4. Reader \notin DOMAIN kernel
      BY <1>1, <2>1, <2>3, EmptyIs
    <2>5. /\ e_events' \in EPoll!Interest(EPoll!Fds) /\ kernel' \in EPoll!Interest(EPoll!Fds)
          /\ \A x \in DOMAIN kernel' : x \in DOMAIN e_events' /\ kernel'[x] = e_events'[x]
          /\ DOMAIN kernel' \subseteq open
          /\ Reader \in DOMAIN e_events'
      BY <2>1, <2>2, <2>3, <2>4, EPollAddEvents
    <2> QED
      BY <2>1, <2>5, EPollChange
  <1> QED
    BY <1>3, <1>4, <1>5, <1>6

\* Execute and epoll_wait: the size of the map is read while the reader is in it,
\* unless Stop was faster.
LEMMA EPollWaits ==
  ASSUME EPoll!IInv,
         EPoll!Execute \/ EPoll!ReadSize \/ EPoll!WaitReady \/ EPoll!WaitTimeout \/ EPoll!WaitError
  PROVE  EPoll!IInv'
  <1> USE DEF EPoll!stopVars
  <1>1. ASSUME EPoll!TypeOK', EPoll!WaitHasRoom', e_poller # "idle" \/ e_owner \notin {"new", "starting"},
               UNCHANGED <<e_started, e_shutdown, e_owner, e_events, e_results, open, kernel>>
        PROVE  EPoll!IInv'
    BY <1>1
    DEF EPoll!IInv, EPoll!KernelMatches, EPoll!ClearedByStop, EPoll!FlagsAgree, EPoll!ReaderRegistered,
        EPoll!ForgetsClosed
  <1>2. ASSUME EPoll!Execute PROVE EPoll!IInv'
    <2>1. EPoll!TypeOK'
      BY <1>2 DEF EPoll!Execute, EPoll!IInv, EPoll!TypeOK, EPoll!PollerState
    <2>2. EPoll!WaitHasRoom' /\ e_owner \notin {"new", "starting"}
      BY <1>2 DEF EPoll!Execute, EPoll!WaitHasRoom, EPoll!IInv, EPoll!FlagsAgree
    <2> QED
      BY <1>1, <1>2, <2>1, <2>2 DEF EPoll!Execute
  <1>3. ASSUME EPoll!ReadSize PROVE EPoll!IInv'
    <2>1. /\ capacity' \in 0 .. EPoll!Cardinality(EPoll!Fds)
          /\ capacity' = 0 => DOMAIN e_events = {}
      BY <1>3, RoomIs DEF EPoll!ReadSize, EPoll!IInv, EPoll!TypeOK
    <2>2. EPoll!TypeOK'
      BY <1>3, <2>1 DEF EPoll!ReadSize, EPoll!IInv, EPoll!TypeOK, EPoll!PollerState
    <2>3. ~e_shutdown => Reader \in DOMAIN e_events
      BY <1>3
      DEF EPoll!ReadSize, EPoll!IInv, EPoll!TypeOK, EPoll!OwnerState, EPoll!FlagsAgree, EPoll!ReaderRegistered
    <2>4. EPoll!WaitHasRoom'
      BY <1>3, <2>1, <2>3 DEF EPoll!ReadSize, EPoll!WaitHasRoom
    <2> QED
      BY <1>1, <1>3, <2>2, <2>4 DEF EPoll!ReadSize
  <1>4. ASSUME NEW res \in EPoll!Outcome, NEW events \in EPoll!Interest(Sockets),
               EPoll!WaitReturns(res, events)
        PROVE  EPoll!IInv'
    <2>1. e_ready' \in [res : EPoll!Outcome, events : EPoll!Interest(Sockets)]
      BY <1>4 DEF EPoll!WaitReturns
    <2>2. EPoll!TypeOK'
      BY <1>4, <2>1 DEF EPoll!WaitReturns, EPoll!IInv, EPoll!TypeOK, EPoll!PollerState
    <2>3. EPoll!WaitHasRoom'
      BY <1>4 DEF EPoll!WaitReturns, EPoll!WaitHasRoom
    <2> QED
      BY <1>1, <1>4, <2>2, <2>3 DEF EPoll!WaitReturns
  <1>5. CASE EPoll!WaitReady
    <2>1. PICK events \in EPoll!Interest(Sockets \cap DOMAIN kernel) : EPoll!WaitReturns("ready", events)
      BY <1>5 DEF EPoll!WaitReady
    <2>2. events \in EPoll!Interest(Sockets)
      BY <2>1, InterestIs
    <2> QED
      BY <1>4, <2>1, <2>2 DEF EPoll!Outcome
  <1>6. CASE EPoll!WaitTimeout \/ EPoll!WaitError
    BY <1>4, <1>6, EmptyIs DEF EPoll!WaitTimeout, EPoll!WaitError, EPoll!Outcome
  <1> QED
    BY <1>2, <1>3, <1>5, <1>6

\* The end of Execute: what epoll_wait returned becomes the results, unless the
\* service was stopped in the meantime.
LEMMA EPollReturn == EPoll!IInv /\ EPoll!ExecuteReturn => EPoll!IInv'
  <1> SUFFICES ASSUME EPoll!IInv, EPoll!ExecuteReturn PROVE EPoll!IInv'
    OBVIOUS
  <1> DEFINE D == {x \in DOMAIN e_ready.events : e_ready.events[x] # {}}
  <1>1. UNCHANGED <<e_started, e_shutdown, e_owner, e_events, open, kernel>>
    BY DEF EPoll!ExecuteReturn, EPoll!stopVars
  <1>2. [s \in D |-> e_ready.events[s]] \in EPoll!Interest(Sockets)
    <2>1. e_ready.events \in EPoll!Interest(Sockets)
      BY DEF EPoll!IInv, EPoll!TypeOK
    <2>2. e_ready.events \in [DOMAIN e_ready.events -> SUBSET Op] /\ DOMAIN e_ready.events \subseteq Sockets
      BY <2>1, InterestIs
    <2> DEFINE g == [s \in D |-> e_ready.events[s]]
    <2>3. DOMAIN g = D /\ g \in [D -> SUBSET Op] /\ D \subseteq Sockets
      BY <2>2
    <2> HIDE DEF g
    <2>4. g \in EPoll!Interest(Sockets)
      BY <2>3, InterestIs
    <2> QED
      BY <2>4 DEF g
  <1>3. e_results' \in EPoll!Interest(Sockets)
    BY <1>2 DEF EPoll!ExecuteReturn, EPoll!Collect, EPoll!IInv, EPoll!TypeOK
  <1>4. EPoll!TypeOK'
    <2>1. e_ready' \in [res : EPoll!Outcome, events : EPoll!Interest(Sockets)]
      BY EmptyIs DEF EPoll!ExecuteReturn, EPoll!Nothing, EPoll!Outcome
    <2>2. capacity' \in 0 .. EPoll!Cardinality(EPoll!Fds)
      BY FdsFinite DEF EPoll!ExecuteReturn
    <2> QED
      BY <1>1, <1>3, <2>1, <2>2 DEF EPoll!ExecuteReturn, EPoll!IInv, EPoll!TypeOK, EPoll!PollerState
  <1>5. EPoll!ClearedByStop'
    BY <1>1 DEF EPoll!ExecuteReturn, EPoll!Collect, EPoll!IInv, EPoll!ClearedByStop
  <1>6. EPoll!KernelMatches' /\ EPoll!WaitHasRoom'
    BY <1>1 DEF EPoll!ExecuteReturn, EPoll!IInv, EPoll!KernelMatches, EPoll!WaitHasRoom
  <1>7. EPoll!FlagsAgree' /\ EPoll!ReaderRegistered' /\ EPoll!ForgetsClosed'
    BY <1>1 DEF EPoll!ExecuteReturn, EPoll!IInv, EPoll!FlagsAgree, EPoll!ReaderRegistered, EPoll!ForgetsClosed
  <1> QED
    BY <1>4, <1>5, <1>6, <1>7 DEF EPoll!IInv

\* Start, Stop and the destructor.
LEMMA EPollOwner ==
  ASSUME EPoll!IInv, EPoll!Start \/ EPoll!Stop \/ EPoll!Destroy
  PROVE  EPoll!IInv'
  <1> USE DEF EPoll!IInv, EPoll!pollVars
  <1>1. CASE EPoll!Start
    <2>1. EPoll!TypeOK'
      BY <1>1 DEF EPoll!Start, EPoll!TypeOK, EPoll!OwnerState, EPoll!Fds
    <2>2. EPoll!KernelMatches' /\ EPoll!ClearedByStop' /\ EPoll!WaitHasRoom'
      BY <1>1 DEF EPoll!Start, EPoll!KernelMatches, EPoll!ClearedByStop, EPoll!WaitHasRoom
    <2>3. EPoll!FlagsAgree' /\ EPoll!ReaderRegistered' /\ EPoll!ForgetsClosed'
      BY <1>1 DEF EPoll!Start, EPoll!FlagsAgree, EPoll!ReaderRegistered, EPoll!ForgetsClosed
    <2> QED
      BY <2>1, <2>2, <2>3
  <1>2. CASE EPoll!Stop
    <2>1. EPoll!TypeOK'
      BY <1>2, EmptyIs DEF EPoll!Stop, EPoll!TypeOK, EPoll!OwnerState
    <2>2. EPoll!KernelMatches' /\ EPoll!ClearedByStop' /\ EPoll!WaitHasRoom'
      BY <1>2 DEF EPoll!Stop, EPoll!KernelMatches, EPoll!ClearedByStop, EPoll!WaitHasRoom
    <2>3. EPoll!FlagsAgree' /\ EPoll!ReaderRegistered'
      BY <1>2 DEF EPoll!Stop, EPoll!FlagsAgree, EPoll!ReaderRegistered
    <2>4. EPoll!ForgetsClosed'
      BY <1>2, EmptyIs DEF EPoll!Stop, EPoll!ForgetsClosed
    <2> QED
      BY <2>1, <2>2, <2>3, <2>4
  <1>3. CASE EPoll!Destroy
    <2>1. EPoll!TypeOK'
      BY <1>3 DEF EPoll!Destroy, EPoll!TypeOK, EPoll!OwnerState
    <2>2. EPoll!KernelMatches' /\ EPoll!ClearedByStop' /\ EPoll!WaitHasRoom'
      BY <1>3 DEF EPoll!Destroy, EPoll!KernelMatches, EPoll!ClearedByStop, EPoll!WaitHasRoom
    <2>3. EPoll!FlagsAgree' /\ EPoll!ReaderRegistered' /\ EPoll!ForgetsClosed'
      BY <1>3 DEF EPoll!Destroy, EPoll!FlagsAgree, EPoll!ReaderRegistered, EPoll!ForgetsClosed
    <2> QED
      BY <2>1, <2>2, <2>3
  <1> QED
    BY <1>1, <1>2, <1>3

\* The program closes a socket, or gets its number for a new one.
LEMMA EPollSockets ==
  ASSUME EPoll!IInv, NEW s \in Sockets, EPoll!CloseSocket(s) \/ EPoll!CreateSocket(s)
  PROVE  EPoll!IInv'
  <1> USE DEF EPoll!pollVars, EPoll!stopVars
  <1>1. s \in EPoll!Fds /\ s # Reader
    BY ReaderAssumption DEF EPoll!Fds
  <1>2. /\ UNCHANGED <<e_events, e_polling, e_results, e_poller, capacity, e_ready, e_started, e_shutdown, e_owner>>
        /\ open' \subseteq EPoll!Fds /\ (Reader \in open => Reader \in open')
    BY <1>1 DEF EPoll!CloseSocket, EPoll!CreateSocket, EPoll!IInv, EPoll!TypeOK
  <1>3. /\ kernel' \in EPoll!Interest(EPoll!Fds) /\ DOMAIN kernel' \subseteq open'
        /\ DOMAIN kernel' \subseteq DOMAIN kernel /\ \A x \in DOMAIN kernel' : kernel'[x] = kernel[x]
    <2>1. kernel \in EPoll!Interest(EPoll!Fds) /\ DOMAIN kernel \subseteq open
      BY DEF EPoll!IInv, EPoll!TypeOK, EPoll!ForgetsClosed
    <2>2. CASE EPoll!CloseSocket(s)
      <3>1. kernel' = EPoll!Drop(kernel, s) /\ open' = open \ {s}
        BY <2>2 DEF EPoll!CloseSocket
      <3>2. /\ kernel' \in EPoll!Interest(EPoll!Fds) /\ DOMAIN kernel' = DOMAIN kernel \ {s}
            /\ \A x \in DOMAIN kernel : x # s => kernel'[x] = kernel[x]
        BY <2>1, <3>1, DropIs
      <3> QED
        BY <2>1, <3>1, <3>2
    <2>3. CASE EPoll!CreateSocket(s)
      BY <2>1, <2>3 DEF EPoll!CreateSocket
    <2> QED
      BY <2>2, <2>3
  <1>4. EPoll!TypeOK'
    BY <1>2, <1>3 DEF EPoll!IInv, EPoll!TypeOK
  <1>5. EPoll!KernelMatches'
    BY <1>2, <1>3 DEF EPoll!IInv, EPoll!KernelMatches
  <1>6. EPoll!ClearedByStop' /\ EPoll!WaitHasRoom' /\ EPoll!FlagsAgree'
    BY <1>2 DEF EPoll!IInv, EPoll!ClearedByStop, EPoll!WaitHasRoom, EPoll!FlagsAgree
  <1>7. EPoll!ReaderRegistered' /\ EPoll!ForgetsClosed'
    BY <1>2, <1>3 DEF EPoll!IInv, EPoll!ReaderRegistered, EPoll!ForgetsClosed
  <1> QED
    BY <1>4, <1>5, <1>6, <1>7 DEF EPoll!IInv

\* Every step of the service keeps the invariant.
LEMMA EPollNext == EPoll!IInv /\ [EPoll!Next]_(EPoll!vars) => EPoll!IInv'
  <1> SUFFICES ASSUME EPoll!IInv, [EPoll!Next]_(EPoll!vars) PROVE EPoll!IInv'
    OBVIOUS
  <1>1. CASE UNCHANGED EPoll!vars
    <2>1. EPoll!TypeOK'
      BY <1>1 DEF EPoll!vars, EPoll!IInv, EPoll!TypeOK
    <2>2. EPoll!KernelMatches' /\ EPoll!ClearedByStop' /\ EPoll!WaitHasRoom'
      BY <1>1 DEF EPoll!vars, EPoll!IInv, EPoll!KernelMatches, EPoll!ClearedByStop, EPoll!WaitHasRoom
    <2>3. EPoll!FlagsAgree' /\ EPoll!ReaderRegistered' /\ EPoll!ForgetsClosed'
      BY <1>1 DEF EPoll!vars, EPoll!IInv, EPoll!FlagsAgree, EPoll!ReaderRegistered, EPoll!ForgetsClosed
    <2> QED
      BY <2>1, <2>2, <2>3 DEF EPoll!IInv
  <1>2. CASE \/ \E s \in Sockets, events \in EPoll!Request : EPoll!Add(s, events) \/ EPoll!Remove(s, events)
             \/ \E s \in Sockets : EPoll!Close(s)
             \/ EPoll!AddReader
    BY <1>2, EPollCalls, Zenon
  <1>3. CASE \E s \in Sockets : EPoll!CloseSocket(s) \/ EPoll!CreateSocket(s)
    BY <1>3, EPollSockets, Zenon
  <1>4. CASE EPoll!Execute \/ EPoll!ReadSize \/ EPoll!WaitReady \/ EPoll!WaitTimeout \/ EPoll!WaitError
    BY <1>4, EPollWaits
  <1>5. CASE EPoll!ExecuteReturn
    BY <1>5, EPollReturn
  <1>6. CASE EPoll!Start \/ EPoll!Stop \/ EPoll!Destroy
    BY <1>6, EPollOwner
  <1>7. CASE EPoll!Next
    BY <1>2, <1>3, <1>4, <1>5, <1>6, <1>7 DEF EPoll!Next
  <1> QED
    BY <1>1, <1>7

-----------------------------------------------------------------------------
(***************************************************************************)
(* Either service.                                                         *)
(***************************************************************************)

\* The invariants of both services hold throughout.
LEMMA BothKept == MCSpec => [](IInv /\ EPoll!IInv)
  <1>1. MCInit => IInv /\ EPoll!IInv
    BY SelectInit, EPollInit DEF MCInit
  <1>2. [MCNext]_<<service, vars, epollVars>> => [Next]_vars /\ [EPoll!Next]_(EPoll!vars)
    BY DEF MCNext, epollVars, EPoll!vars
  <1>3. IInv /\ [Next]_vars => IInv'
    BY SelectNext
  <1> QED
    BY <1>1, <1>2, <1>3, EPollNext, PTL DEF MCSpec

\* The state of both services is of its type: epoll_wait is never given room for
\* more events than there are descriptors.
THEOREM PollingTypes == MCSpec => []MCTypeOK
  <1>1. IInv /\ EPoll!IInv => MCTypeOK
    BY DEF IInv, EPoll!IInv, MCTypeOK
  <1> QED
    BY <1>1, BothKept, PTL

\* What epoll watches is what EPollSocketService has on record, and epoll_wait has
\* room for an event unless Stop came first, however many sockets there are and in
\* whatever order they are registered, closed and used again.
THEOREM WatchesAreRegistered == MCSpec => []WatchesRegistered
  <1>1. EPoll!IInv => WatchesRegistered
    BY DEF EPoll!IInv, WatchesRegistered
  <1> QED
    BY <1>1, BothKept, PTL

\* Stop leaves neither service with results, however it meets the poll that is
\* under way and the calls that wait for the mutex.
THEOREM StoppingIsClean == MCSpec => []StopsClean
  <1>1. IInv /\ EPoll!IInv => StopsClean
    BY DEF IInv, EPoll!IInv, StopsClean
  <1> QED
    BY <1>1, BothKept, PTL

\* select() reports no operation that is not registered when its results are taken.
THEOREM ReportsAreRegistered == MCSpec => ReportsRegistered
  <1>1. MCInit => Init
    BY DEF MCInit
  <1>2. [MCNext]_<<service, vars, epollVars>> => [Next]_vars
    BY DEF MCNext
  <1> QED
    BY <1>1, <1>2, SelectReports, PTL DEF MCSpec, Spec
==============================================================================
