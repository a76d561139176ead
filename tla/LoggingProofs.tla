---------------------------- MODULE LoggingProofs ----------------------------
(***************************************************************************)
(* Proofs about the life of the logging root (Logging.tla), for any number *)
(* of threads, loggers and roots.                                          *)
(***************************************************************************)
EXTENDS Logging, SequenceTheorems, TLAPS

\* The roots a process has made.
Roots == Seq([level : Levels, sinks : 0 .. MaxSinks])

\* The constants: NoThread is nobody, the bounds are numbers, one level is the highest.
Constants ==
    /\ NoThread \notin Threads /\ MaxRoots \in Nat /\ MaxSinks \in Nat
    /\ \E level \in Levels : \A k \in Levels : k <= level

\* Before Start there is no root.
LEMMA RootInit == ASSUME Constants PROVE Init => IInv
  <1> SUFFICES ASSUME Init PROVE IInv
    OBVIOUS
  <1> USE DEF Init
  <1>1. TypeOK
    <2>1. roots \in Roots /\ Len(roots) = 0
      BY DEF Roots
    <2>2. s_instance \in 0 .. Len(roots) /\ Len(roots) <= MaxRoots
      BY <2>1 DEF Constants
    <2>3. loggers \in [Loggers -> 0 .. Len(roots)]
      BY <2>1
    <2>4. seen \in [Threads -> 0 .. Len(roots)] /\ held \in [Threads -> 0 .. Len(roots)]
      BY <2>1
    <2> QED
      BY <2>1, <2>2, <2>3, <2>4 DEF Roots, TypeOK, ThreadState, Calls
  <1>2. FlagFollowsInstance /\ PointersSet
    BY DEF Constants, FlagFollowsInstance, PointersSet
  <1>3. Undisturbed
    BY DEF Undisturbed, Using
  <1> QED
    BY <1>1, <1>2, <1>3 DEF IInv

\* What a release destroys is neither the instance nor in the hands of a thread.
LEMMA RootRelease ==
  ASSUME NEW n \in Nat, Release(n), destroyed \subseteq 1 .. n
  PROVE  /\ destroyed' \subseteq 1 .. n
         /\ s_instance' \notin destroyed => s_instance' \notin destroyed'
         /\ \A t \in Threads : held'[t] \notin destroyed => held'[t] \notin destroyed'
  <1>1. destroyed' = destroyed \cup ((1 .. n) \ Referenced(s_instance', held', loggers'))
    BY DEF Release
  <1>2. s_instance' # 0 => s_instance' \in Referenced(s_instance', held', loggers')
    BY DEF Referenced
  <1>3. ASSUME NEW t \in Threads, held'[t] # 0
        PROVE  held'[t] \in Referenced(s_instance', held', loggers')
    BY <1>3 DEF Referenced
  <1>4. destroyed' \subseteq 1 .. n
    BY <1>1
  <1>5. 0 \notin destroyed'
    BY <1>4
  <1>6. s_instance' \notin destroyed => s_instance' \notin destroyed'
    BY <1>1, <1>2, <1>5
  <1>7. ASSUME NEW t \in Threads, held'[t] \notin destroyed PROVE held'[t] \notin destroyed'
    BY <1>1, <1>3, <1>5, <1>7
  <1> QED
    BY <1>4, <1>6, <1>7

\* The first look at the flag, of Start, of Stop and of Instance.
LEMMA RootLooks ==
  ASSUME IInv, NEW t \in Threads, Start(t) \/ Stop(t) \/ Instance(t)
  PROVE  IInv'
  <1> USE DEF IInv, Goto, Start, Stop, Instance
  <1>1. TypeOK'
    BY DEF TypeOK, ThreadState
  <1>2. FlagFollowsInstance'
    BY DEF TypeOK, FlagFollowsInstance
  <1>3. PointersSet'
    BY DEF TypeOK, PointersSet
  <1>4. Undisturbed'
    BY DEF TypeOK, FlagFollowsInstance, Undisturbed, Using
  <1> QED
    BY <1>1, <1>2, <1>3, <1>4

\* Start under the mutex: a new root, or nothing if somebody was faster.
LEMMA RootStartLocked ==
  ASSUME Constants, IInv, NEW t \in Threads, StartLocked(t)
  PROVE  IInv'
  <1> USE DEF Constants, IInv, Goto
  <1>1. CASE s_started
    <2>1. /\ pc' = [pc EXCEPT ![t] = "idle"] /\ pc[t] = "start"
          /\ UNCHANGED <<s_started, s_instance, s_mutex, roots, destroyed, loggers, op, seen, held, overlapped>>
      BY <1>1 DEF StartLocked
    <2>2. TypeOK' /\ PointersSet'
      BY <2>1 DEF TypeOK, ThreadState, PointersSet
    <2>3. FlagFollowsInstance'
      BY <2>1 DEF TypeOK, FlagFollowsInstance
    <2>4. Undisturbed'
      BY <2>1 DEF TypeOK, Undisturbed, Using
    <2> QED
      BY <2>2, <2>3, <2>4
  <1>2. CASE ~s_started
    <2>1. /\ pc' = [pc EXCEPT ![t] = "starting"] /\ pc[t] = "start" /\ s_mutex = NoThread /\ s_mutex' = t
          /\ Len(roots) < MaxRoots /\ s_instance' = Len(roots) + 1 /\ roots' = Append(roots, NewRoot)
          /\ UNCHANGED <<s_started, destroyed, loggers, op, seen, held, overlapped>>
      BY <1>2 DEF StartLocked
    <2>2. roots' \in Roots /\ Len(roots') = Len(roots) + 1 /\ Len(roots) \in Nat
      <3>1. NewRoot.level \in Levels
        BY DEF NewRoot
      <3>2. NewRoot \in [level : Levels, sinks : 0 .. MaxSinks]
        BY <3>1 DEF NewRoot
      <3> QED
        BY <2>1, <3>2 DEF Roots, TypeOK
    <2>3. TypeOK'
      <3>1. /\ s_instance' \in 0 .. Len(roots') /\ Len(roots') <= MaxRoots
            /\ destroyed' \subseteq 1 .. Len(roots')
        BY <2>1, <2>2 DEF TypeOK
      <3>2. 0 .. Len(roots) \subseteq 0 .. Len(roots')
        BY <2>2
      <3>3. /\ loggers' \in [Loggers -> 0 .. Len(roots')]
            /\ seen' \in [Threads -> 0 .. Len(roots')] /\ held' \in [Threads -> 0 .. Len(roots')]
        BY <2>1, <3>2 DEF TypeOK
      <3> QED
        BY <2>1, <2>2, <3>1, <3>3 DEF Roots, TypeOK, ThreadState
    <2>4. FlagFollowsInstance'
      BY <1>2, <2>1, <2>2 DEF TypeOK, FlagFollowsInstance
    <2>5. PointersSet'
      BY <2>1, <2>2 DEF TypeOK, PointersSet
    <2>6. Undisturbed'
      BY <1>2, <2>1 DEF TypeOK, Undisturbed, Using
    <2> QED
      BY <2>3, <2>4, <2>5, <2>6
  <1> QED
    BY <1>1, <1>2 DEF TypeOK

\* Stop under the mutex: every call that is under way is overlapped.
LEMMA RootStopLocked ==
  ASSUME Constants, IInv, NEW t \in Threads, StopLocked(t)
  PROVE  IInv'
  <1> USE DEF Constants, IInv, Goto
  <1>1. /\ pc[t] = "stop" /\ s_mutex = NoThread
        /\ UNCHANGED <<s_started, roots, loggers, op, seen, held>>
        /\ \/ ~s_started /\ pc' = [pc EXCEPT ![t] = "idle"] /\ UNCHANGED <<s_instance, s_mutex, overlapped>>
           \/ /\ s_started /\ pc' = [pc EXCEPT ![t] = "stopping"] /\ s_mutex' = t
              /\ s_instance' = 0 /\ overlapped' = overlapped \cup Using
    BY DEF StopLocked
  <1>2. /\ destroyed' \subseteq 1 .. Len(roots) /\ s_instance' \notin destroyed'
        /\ \A u \in Threads : held[u] \notin destroyed => held[u] \notin destroyed'
    <2>1. Len(roots) \in Nat /\ destroyed \subseteq 1 .. Len(roots) /\ Release(Len(roots))
      BY DEF TypeOK, StopLocked
    <2>2. s_instance' \notin destroyed
      BY <1>1, <2>1 DEF PointersSet
    <2> QED
      BY <1>1, <2>1, <2>2, RootRelease
  <1>3. TypeOK'
    BY <1>1, <1>2 DEF TypeOK, ThreadState
  <1>4. FlagFollowsInstance'
    BY <1>1 DEF TypeOK, FlagFollowsInstance
  <1>5. PointersSet'
    BY <1>1, <1>2 DEF TypeOK, PointersSet
  <1>6. Undisturbed'
    BY <1>1, <1>2 DEF TypeOK, Undisturbed, Using
  <1> QED
    BY <1>3, <1>4, <1>5, <1>6

\* The second store of Start and of Stop.
LEMMA RootStores ==
  ASSUME Constants, IInv, NEW t \in Threads, StartStore(t) \/ StopStore(t)
  PROVE  IInv'
  <1> USE DEF Constants, IInv, Goto, StartStore, StopStore
  <1>1. TypeOK'
    BY DEF TypeOK, ThreadState
  <1>2. FlagFollowsInstance'
    BY DEF TypeOK, FlagFollowsInstance
  <1>3. PointersSet'
    BY DEF TypeOK, PointersSet
  <1>4. Undisturbed'
    BY DEF TypeOK, FlagFollowsInstance, Undisturbed, Using
  <1> QED
    BY <1>1, <1>2, <1>3, <1>4

\* A call begins.
LEMMA RootCall ==
  ASSUME IInv, NEW t \in Threads, NEW c \in Calls, Call(t, c)
  PROVE  IInv'
  <1> USE DEF IInv, Goto, Call
  <1>1. TypeOK' /\ PointersSet'
    BY DEF TypeOK, ThreadState, PointersSet
  <1>2. FlagFollowsInstance'
    BY DEF TypeOK, FlagFollowsInstance
  <1>3. Undisturbed'
    BY DEF TypeOK, Undisturbed, Using
  <1> QED
    BY <1>1, <1>2, <1>3

\* The copy of the pointer.
LEMMA RootCopies ==
  ASSUME IInv, NEW t \in Threads, LoadPointer(t) \/ Retain(t)
  PROVE  IInv'
  <1> USE DEF IInv, Goto, LoadPointer, Retain
  <1>1. TypeOK'
    <2>1. seen' \in [Threads -> 0 .. Len(roots)] /\ held' \in [Threads -> 0 .. Len(roots)]
      BY DEF TypeOK
    <2> QED
      BY <2>1 DEF TypeOK, ThreadState
  <1>2. FlagFollowsInstance'
    BY DEF TypeOK, FlagFollowsInstance
  <1>3. PointersSet'
    BY DEF TypeOK, PointersSet
  <1>4. Undisturbed'
    BY DEF TypeOK, PointersSet, Undisturbed, Using
  <1> QED
    BY <1>1, <1>2, <1>3, <1>4

\* The end of a call, or of the first half of Get: the reference is given back.
LEMMA RootReturns ==
  ASSUME IInv, NEW t \in Threads, pc[t] = "use", Return(t),
         roots' \in Roots, Len(roots') = Len(roots),
         loggers' \in [Loggers -> 0 .. Len(roots)], op' \in [Threads -> Calls],
         \/ pc' = [pc EXCEPT ![t] = "idle"] /\ overlapped' = overlapped \ {t}
         \/ pc' = [pc EXCEPT ![t] = "instance"] /\ overlapped' = overlapped
  PROVE  IInv'
  <1> USE DEF IInv
  <1>1. held' = [held EXCEPT ![t] = 0] /\ UNCHANGED <<s_started, s_instance, s_mutex, seen>>
    BY DEF Return
  <1>2. /\ destroyed' \subseteq 1 .. Len(roots) /\ s_instance' \notin destroyed'
        /\ \A u \in Threads : held'[u] \notin destroyed => held'[u] \notin destroyed'
    <2>1. Len(roots) \in Nat /\ destroyed \subseteq 1 .. Len(roots) /\ Release(Len(roots))
      BY DEF TypeOK, Return
    <2>2. s_instance' \notin destroyed
      BY <1>1 DEF PointersSet
    <2> QED
      BY <2>1, <2>2, RootRelease
  <1>3. TypeOK'
    <2>1. held' \in [Threads -> 0 .. Len(roots)]
      BY <1>1 DEF TypeOK
    <2> QED
      BY <1>1, <1>2, <2>1 DEF TypeOK, ThreadState, Roots
  <1>4. FlagFollowsInstance'
    BY <1>1 DEF TypeOK, FlagFollowsInstance
  <1>5. PointersSet'
    BY <1>1, <1>2 DEF TypeOK, PointersSet
  <1>6. Undisturbed'
    BY <1>1, <1>2 DEF TypeOK, Undisturbed, Using
  <1> QED
    BY <1>3, <1>4, <1>5, <1>6

\* The calls that use a root, and a logger that gives up its own.
LEMMA RootUses ==
  ASSUME Constants, IInv, NEW t \in Threads,
         \/ AddSink(t) \/ GetLogLevel(t)
         \/ \E level \in Levels : SetLogLevel(t, level)
         \/ \E l \in Loggers : Get(t, l)
  PROVE  IInv'
  <1>1. /\ roots \in Roots /\ loggers \in [Loggers -> 0 .. Len(roots)]
        /\ op \in [Threads -> Calls] /\ held \in [Threads -> 0 .. Len(roots)]
        /\ pc[t] = "use" => held[t] \in 1 .. Len(roots)
    BY DEF IInv, TypeOK, PointersSet, Roots
  <1> DEFINE made == roots[held[t]]
  <1>2. pc[t] = "use" => made \in [level : Levels, sinks : 0 .. MaxSinks]
    <2>1. ASSUME NEW S, NEW r \in Seq(S), NEW i \in 1 .. Len(r) PROVE r[i] \in S
      OBVIOUS
    <2> QED
      BY <1>1, <2>1, Zenon DEF Roots
  <1>3. CASE AddSink(t)
    <2>1. /\ pc[t] = "use" /\ made.sinks < MaxSinks /\ loggers' = loggers
          /\ roots' = [roots EXCEPT ![held[t]] = [made EXCEPT !.sinks = @ + 1]]
          /\ Return(t) /\ op' \in [Threads -> Calls]
          /\ pc' = [pc EXCEPT ![t] = "idle"] /\ overlapped' = overlapped \ {t}
      BY <1>1, <1>3 DEF AddSink, Done, Goto, Calls
    <2>2. [made EXCEPT !.sinks = @ + 1] \in [level : Levels, sinks : 0 .. MaxSinks]
      BY <1>2, <2>1 DEF Constants
    <2>3. roots' \in Roots /\ Len(roots') = Len(roots)
      BY <1>1, <2>1, <2>2 DEF Roots
    <2> QED
      BY <1>1, <2>1, <2>3, RootReturns
  <1>4. ASSUME NEW level \in Levels, SetLogLevel(t, level) PROVE IInv'
    <2>1. /\ pc[t] = "use" /\ loggers' = loggers
          /\ roots' = [roots EXCEPT ![held[t]] = [made EXCEPT !.level = level]]
          /\ Return(t) /\ op' \in [Threads -> Calls]
          /\ pc' = [pc EXCEPT ![t] = "idle"] /\ overlapped' = overlapped \ {t}
      BY <1>1, <1>4 DEF SetLogLevel, Done, Goto, Calls
    <2>2. [made EXCEPT !.level = level] \in [level : Levels, sinks : 0 .. MaxSinks]
      BY <1>2, <2>1
    <2>3. roots' \in Roots /\ Len(roots') = Len(roots)
      BY <1>1, <2>1, <2>2 DEF Roots
    <2> QED
      BY <1>1, <2>1, <2>3, RootReturns
  <1>5. CASE GetLogLevel(t)
    <2>1. /\ pc[t] = "use" /\ loggers' = loggers /\ roots' = roots
          /\ Return(t) /\ op' \in [Threads -> Calls]
          /\ pc' = [pc EXCEPT ![t] = "idle"] /\ overlapped' = overlapped \ {t}
      BY <1>1, <1>5 DEF GetLogLevel, Done, Goto, Calls
    <2> QED
      BY <1>1, <2>1, RootReturns
  <1>6. ASSUME NEW l \in Loggers, Get(t, l) PROVE IInv'
    <2>1. /\ pc[t] = "use" /\ loggers' = [loggers EXCEPT ![l] = held[t]] /\ roots' = roots
          /\ Return(t) /\ op' \in [Threads -> Calls]
          /\ pc' = [pc EXCEPT ![t] = "instance"] /\ overlapped' = overlapped
      BY <1>1, <1>6 DEF Get, Goto, Calls
    <2>2. loggers' \in [Loggers -> 0 .. Len(roots)]
      BY <1>1, <2>1
    <2> QED
      BY <1>1, <2>1, <2>2, RootReturns
  <1> QED
    BY <1>3, <1>4, <1>5, <1>6

\* A logger gives its reference back.
LEMMA RootDestroyLogger ==
  ASSUME IInv, NEW l \in Loggers, DestroyLogger(l)
  PROVE  IInv'
  <1> USE DEF IInv
  <1>1. /\ loggers' = [loggers EXCEPT ![l] = 0]
        /\ UNCHANGED <<s_started, s_instance, s_mutex, roots, pc, op, seen, held, overlapped>>
    BY DEF DestroyLogger
  <1>2. /\ destroyed' \subseteq 1 .. Len(roots) /\ s_instance' \notin destroyed'
        /\ \A u \in Threads : held'[u] \notin destroyed => held'[u] \notin destroyed'
    <2>1. Len(roots) \in Nat /\ destroyed \subseteq 1 .. Len(roots) /\ Release(Len(roots))
      BY DEF TypeOK, DestroyLogger
    <2>2. s_instance' \notin destroyed
      BY <1>1 DEF PointersSet
    <2> QED
      BY <2>1, <2>2, RootRelease
  <1>3. TypeOK'
    <2>1. loggers' \in [Loggers -> 0 .. Len(roots)]
      BY <1>1 DEF TypeOK
    <2> QED
      BY <1>1, <1>2, <2>1 DEF TypeOK
  <1>4. FlagFollowsInstance' /\ PointersSet'
    BY <1>1, <1>2 DEF FlagFollowsInstance, PointersSet
  <1>5. Undisturbed'
    BY <1>1, <1>2 DEF Undisturbed, Using
  <1> QED
    BY <1>3, <1>4, <1>5

\* Every step of the threads keeps the invariant.
LEMMA RootNext == ASSUME Constants PROVE IInv /\ [Next]_vars => IInv'
  <1> SUFFICES ASSUME IInv, [Next]_vars PROVE IInv'
    OBVIOUS
  <1>1. ASSUME NEW t \in Threads, StartLocked(t) PROVE IInv'
    BY <1>1, RootStartLocked
  <1>2. ASSUME NEW t \in Threads, StopLocked(t) PROVE IInv'
    BY <1>2, RootStopLocked
  <1>3. ASSUME NEW t \in Threads, StartStore(t) \/ StopStore(t) PROVE IInv'
    BY <1>3, RootStores
  <1>4. ASSUME NEW t \in Threads, Start(t) \/ Stop(t) \/ Instance(t) PROVE IInv'
    BY <1>4, RootLooks
  <1>5. ASSUME NEW t \in Threads, NEW c \in Calls, Call(t, c) PROVE IInv'
    BY <1>5, RootCall
  <1>6. ASSUME NEW t \in Threads, LoadPointer(t) \/ Retain(t) PROVE IInv'
    BY <1>6, RootCopies
  <1>7. ASSUME NEW t \in Threads,
               \/ AddSink(t) \/ GetLogLevel(t)
               \/ \E level \in Levels : SetLogLevel(t, level)
               \/ \E l \in Loggers : Get(t, l)
        PROVE  IInv'
    BY <1>7, RootUses
  <1>8. ASSUME NEW l \in Loggers, DestroyLogger(l) PROVE IInv'
    BY <1>8, RootDestroyLogger
  <1>9. CASE Next
    BY <1>1, <1>2, <1>3, <1>4, <1>5, <1>6, <1>7, <1>8, <1>9 DEF Next
  <1>10. CASE UNCHANGED vars
    <2> USE <1>10 DEF vars, IInv
    <2>1. TypeOK' /\ FlagFollowsInstance'
      BY DEF TypeOK, FlagFollowsInstance
    <2>2. PointersSet' /\ Undisturbed'
      BY DEF PointersSet, Undisturbed, Using
    <2> QED
      BY <2>1, <2>2
  <1> QED
    BY <1>9, <1>10

\* Only a Stop that overlaps a call takes the root from it, however many threads
\* start, stop and use the system, and although Instance reads the flag and copies
\* the pointer without the mutex (Logging::Start, Stop and Instance).
THEOREM StopTakesRoot == ASSUME Constants PROVE Spec => [](TypeOK /\ OnlyStopTakesRoot)
  <1>1. IInv => TypeOK /\ OnlyStopTakesRoot
    BY DEF IInv, TypeOK, PointersSet, Undisturbed, OnlyStopTakesRoot
  <1> QED
    BY <1>1, RootInit, RootNext, PTL DEF Spec
==============================================================================
