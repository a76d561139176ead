--------------------------- MODULE ThreadPoolProofs ---------------------------
(***************************************************************************)
(* Proofs about ThreadPool, for any number of workers, clients and tasks:  *)
(* what emplace and erase do to the ids in the queue, that every step      *)
(* preserves IInv, and what follows from it.                               *)
(***************************************************************************)
EXTENDS ThreadPool, TLAPS

-----------------------------------------------------------------------------
(***************************************************************************)
(* Inserting and erasing by position.                                      *)
(***************************************************************************)

\* The elements of a sequence are what it has at its positions.
LEMMA SequenceRange ==
  ASSUME NEW S, NEW s \in Seq(S)
  PROVE  /\ \A k \in 1 .. Len(s) : s[k] \in Range(s)
         /\ \A x \in Range(s) : \E k \in 1 .. Len(s) : s[k] = x
  BY DEF Range

\* What multimap::emplace leaves at each position.
LEMMA InsertAtProperties ==
  ASSUME NEW S, NEW s \in Seq(S), NEW e \in S, NEW n \in 1 .. Len(s) + 1
  PROVE  /\ InsertAt(s, n, e) \in Seq(S)
         /\ Len(InsertAt(s, n, e)) = Len(s) + 1
         /\ \A j \in 1 .. n - 1 : InsertAt(s, n, e)[j] = s[j]
         /\ InsertAt(s, n, e)[n] = e
         /\ \A j \in n .. Len(s) : InsertAt(s, n, e)[j + 1] = s[j]
  <1> DEFINE a == SubSeq(s, 1, n - 1)
             b == SubSeq(s, n, Len(s))
             c == a \o <<e>>
             d == c \o b
  <1>1. /\ a \in Seq(S) /\ Len(a) = n - 1
        /\ \A j \in 1 .. n - 1 : a[j] = s[j]
    OBVIOUS
  <1>2. /\ b \in Seq(S) /\ Len(b) = Len(s) - (n - 1)
        /\ \A j \in 1 .. Len(s) - (n - 1) : b[j] = s[(n - 1) + j]
    OBVIOUS
  <1>3. InsertAt(s, n, e) = d
    BY DEF InsertAt
  <1> HIDE DEF a, b
  <1>4. /\ c \in Seq(S) /\ Len(c) = n
        /\ \A j \in 1 .. n : c[j] = IF j <= n - 1 THEN s[j] ELSE e
    BY <1>1
  <1> HIDE DEF c
  <1>5. /\ d \in Seq(S) /\ Len(d) = Len(s) + 1
        /\ \A j \in 1 .. Len(s) + 1 : d[j] = IF j <= n THEN c[j] ELSE b[j - n]
    BY <1>2, <1>4
  <1> HIDE DEF d
  <1>6. ASSUME NEW j \in n .. Len(s)
        PROVE  d[j + 1] = s[j]
    <2>1. PICK m \in 1 .. Len(s) - (n - 1) : m = (j + 1) - n /\ (n - 1) + m = j
      OBVIOUS
    <2>2. d[j + 1] = b[m]
      BY <1>5, <2>1
    <2>3. b[m] = s[j]
      BY <1>2, <2>1
    <2> QED
      BY <2>2, <2>3
  <1>7. /\ \A j \in 1 .. n - 1 : d[j] = s[j]
        /\ d[n] = e
    BY <1>4, <1>5
  <1> QED
    BY <1>3, <1>5, <1>6, <1>7

\* What erasing the k-th element leaves at each position.
LEMMA RemoveAtProperties ==
  ASSUME NEW S, NEW s \in Seq(S), NEW k \in 1 .. Len(s)
  PROVE  /\ RemoveAt(s, k) \in Seq(S)
         /\ Len(RemoveAt(s, k)) = Len(s) - 1
         /\ \A j \in 1 .. Len(s) - 1 :
               RemoveAt(s, k)[j] = IF j < k THEN s[j] ELSE s[j + 1]
  <1> DEFINE a == SubSeq(s, 1, k - 1)
             b == SubSeq(s, k + 1, Len(s))
  <1>1. /\ a \in Seq(S) /\ Len(a) = k - 1
        /\ \A j \in 1 .. k - 1 : a[j] = s[j]
    OBVIOUS
  <1>2. /\ b \in Seq(S) /\ Len(b) = Len(s) - k
        /\ \A j \in 1 .. Len(s) - k : b[j] = s[k + j]
    OBVIOUS
  <1>3. RemoveAt(s, k) = a \o b
    BY DEF RemoveAt
  <1> DEFINE d == a \o b
  <1> HIDE DEF a, b
  <1>4. /\ d \in Seq(S) /\ Len(d) = Len(s) - 1
        /\ \A j \in 1 .. Len(s) - 1 :
              d[j] = IF j <= k - 1 THEN a[j] ELSE b[j - (k - 1)]
    <2>1. Len(a) \in Nat /\ Len(b) \in Nat /\ Len(a) + Len(b) = Len(s) - 1
      BY <1>1, <1>2
    <2>2. a \in Seq(S) /\ b \in Seq(S)
      BY <1>1, <1>2
    <2>3. /\ d \in Seq(S) /\ Len(d) = Len(a) + Len(b)
          /\ \A j \in 1 .. Len(a) + Len(b) :
                d[j] = IF j <= Len(a) THEN a[j] ELSE b[j - Len(a)]
      BY <2>2
    <2> QED
      BY <1>1, <2>1, <2>3
  <1> HIDE DEF d
  <1>5. ASSUME NEW j \in 1 .. Len(s) - 1
        PROVE  d[j] = IF j < k THEN s[j] ELSE s[j + 1]
    <2>1. CASE j < k
      BY <1>1, <1>4, <2>1
    <2>2. CASE j >= k
      <3>1. PICK m \in 1 .. Len(s) - k : m = j - (k - 1) /\ k + m = j + 1
        BY <2>2
      <3>2. d[j] = b[m]
        BY <1>4, <2>2, <3>1
      <3>3. b[m] = s[j + 1]
        BY <1>2, <3>1
      <3> QED
        BY <2>2, <3>2, <3>3
    <2> QED
      BY <2>1, <2>2
  <1> QED
    BY <1>3, <1>4, <1>5 DEF d

\* Emplacing a new id adds it to the ids in the queue, and nothing else.
LEMMA EmplaceIds ==
  ASSUME NEW S, NEW s \in Seq(S), NEW e \in S, NEW n \in 1 .. Len(s) + 1, NEW r,
         r = InsertAt(s, n, e), e \notin Range(s), IsInjective(s)
  PROVE  r \in Seq(S) /\ Range(r) = Range(s) \cup {e} /\ IsInjective(r)
  <1>1. /\ r \in Seq(S) /\ Len(r) = Len(s) + 1
        /\ \A j \in 1 .. n - 1 : r[j] = s[j]
        /\ r[n] = e
        /\ \A j \in n .. Len(s) : r[j + 1] = s[j]
    BY InsertAtProperties
  <1>2. DOMAIN r = 1 .. Len(s) + 1 /\ DOMAIN s = 1 .. Len(s) /\ Len(s) \in Nat
    BY <1>1
  <1>3. /\ \A j \in 1 .. Len(s) : s[j] # e
        /\ \A i, j \in 1 .. Len(s) : s[i] = s[j] => i = j
    BY <1>2 DEF Range, IsInjective
  \* Every position of r but n is a position of s.
  <1>4. \A j \in 1 .. Len(s) + 1 : j # n =>
           \E m \in 1 .. Len(s) : r[j] = s[m] /\ m = IF j < n THEN j ELSE j - 1
    <2> TAKE j \in 1 .. Len(s) + 1
    <2>1. CASE j < n
      BY <1>1, <2>1
    <2>2. CASE j > n
      <3>1. PICK m \in n .. Len(s) : m = j - 1 /\ j = m + 1
        BY <2>2
      <3>2. m \in 1 .. Len(s) /\ r[j] = s[m] /\ m = IF j < n THEN j ELSE j - 1
        BY <1>1, <2>2, <3>1
      <3> QED
        BY <3>2
    <2> QED
      BY <2>1, <2>2
  <1>5. ASSUME NEW x \in Range(r) PROVE x \in Range(s) \cup {e}
    <2>1. PICK j \in 1 .. Len(s) + 1 : r[j] = x
      BY <1>2 DEF Range
    <2>2. CASE j = n
      BY <1>1, <2>1, <2>2
    <2>3. CASE j # n
      BY <1>2, <1>4, <2>1, <2>3 DEF Range
    <2> QED
      BY <2>2, <2>3
  <1>6. ASSUME NEW x \in Range(s) PROVE x \in Range(r)
    <2>1. PICK j \in 1 .. Len(s) : s[j] = x
      BY <1>2 DEF Range
    <2>2. CASE j < n
      BY <1>1, <1>2, <2>1, <2>2 DEF Range
    <2>3. CASE j >= n
      BY <1>1, <1>2, <2>1, <2>3 DEF Range
    <2> QED
      BY <2>2, <2>3
  <1>7. e \in Range(r)
    BY <1>1, <1>2 DEF Range
  <1>8. ASSUME NEW i \in 1 .. Len(s) + 1, NEW j \in 1 .. Len(s) + 1, r[i] = r[j]
        PROVE  i = j
    <2>1. CASE i = n \/ j = n
      <3>1. \A m \in 1 .. Len(s) + 1 : m # n => r[m] # e
        BY <1>3, <1>4
      <3> QED
        BY <1>1, <1>8, <2>1, <3>1
    <2>2. CASE i # n /\ j # n
      <3>1. PICK k \in 1 .. Len(s) : r[i] = s[k] /\ k = IF i < n THEN i ELSE i - 1
        BY <1>4, <2>2
      <3>2. PICK m \in 1 .. Len(s) : r[j] = s[m] /\ m = IF j < n THEN j ELSE j - 1
        BY <1>4, <2>2
      <3>3. k = m
        BY <1>3, <1>8, <3>1, <3>2, Zenon
      <3> QED
        BY <2>2, <3>1, <3>2, <3>3
    <2> QED
      BY <2>1, <2>2
  <1>9. IsInjective(r)
    BY <1>2, <1>8 DEF IsInjective
  <1> QED
    BY <1>1, <1>5, <1>6, <1>7, <1>9

\* Erasing an element removes its id from the ids in the queue, and no other.
LEMMA EraseIds ==
  ASSUME NEW S, NEW s \in Seq(S), NEW k \in 1 .. Len(s), NEW r,
         r = RemoveAt(s, k), IsInjective(s)
  PROVE  r \in Seq(S) /\ Range(r) = Range(s) \ {s[k]} /\ IsInjective(r)
  <1>1. /\ r \in Seq(S) /\ Len(r) = Len(s) - 1
        /\ \A j \in 1 .. Len(s) - 1 : r[j] = IF j < k THEN s[j] ELSE s[j + 1]
    BY RemoveAtProperties, Zenon
  <1>2. DOMAIN r = 1 .. Len(s) - 1 /\ DOMAIN s = 1 .. Len(s) /\ Len(s) \in Nat
    BY <1>1
  <1> DEFINE once == \A i, j \in 1 .. Len(s) : s[i] = s[j] => i = j
  <1>9. once
    BY <1>2 DEF IsInjective
  <1>3. ASSUME NEW x \in Range(r) PROVE x \in Range(s) \ {s[k]}
    <2>1. PICK j \in 1 .. Len(s) - 1 : r[j] = x
      BY <1>2 DEF Range
    <2>2. CASE j < k
      <3>1. j \in 1 .. Len(s) /\ r[j] = s[j] /\ j # k
        BY <1>1, <1>2, <2>1, <2>2
      <3> QED
        BY <1>9, <1>2, <2>1, <3>1 DEF Range
    <2>3. CASE j >= k
      <3>1. j + 1 \in 1 .. Len(s) /\ r[j] = s[j + 1] /\ j + 1 # k
        BY <1>1, <1>2, <2>1, <2>3
      <3> QED
        BY <1>9, <1>2, <2>1, <3>1 DEF Range
    <2> QED
      BY <1>2, <2>2, <2>3
  <1>4. ASSUME NEW x \in Range(s) \ {s[k]} PROVE x \in Range(r)
    <2>1. PICK j \in 1 .. Len(s) : s[j] = x
      BY <1>2 DEF Range
    <2>2. CASE j < k
      BY <1>1, <1>2, <2>1, <2>2 DEF Range
    <2>3. CASE j > k
      <3>1. j - 1 \in 1 .. Len(s) - 1 /\ ~(j - 1 < k) /\ (j - 1) + 1 = j
        BY <2>3
      <3>2. r[j - 1] = s[j]
        BY <1>1, <3>1
      <3> QED
        BY <1>2, <2>1, <3>1, <3>2 DEF Range
    <2> QED
      BY <1>2, <1>4, <2>1, <2>2, <2>3
  <1>5. ASSUME NEW i \in 1 .. Len(r), NEW j \in 1 .. Len(r), r[i] = r[j], i < j
        PROVE  FALSE
    <2>1. /\ i \in 1 .. Len(s) - 1 /\ j \in 1 .. Len(s) - 1
          /\ i \in 1 .. Len(s) /\ j \in 1 .. Len(s)
          /\ i + 1 \in 1 .. Len(s) /\ j + 1 \in 1 .. Len(s)
      BY <1>1
    <2>2. CASE j < k
      BY <1>9, <1>1, <1>5, <2>1, <2>2
    <2>3. CASE j >= k /\ i < k
      BY <1>9, <1>1, <1>5, <2>1, <2>3
    <2>4. CASE i >= k
      BY <1>9, <1>1, <1>5, <2>1, <2>4
    <2> QED
      BY <1>2, <2>1, <2>2, <2>3, <2>4
  <1>6. IsInjective(r)
    BY <1>1, <1>2, <1>5 DEF IsInjective
  <1> QED
    BY <1>1, <1>3, <1>4, <1>6

-----------------------------------------------------------------------------
(***************************************************************************)
(* The inductive invariant, action by action.                              *)
(***************************************************************************)

\* The ids in the queue are those in the index, and the swapped ones are ids too.
LEMMA QueuedAre ==
  ASSUME IInv
  PROVE  /\ \A k \in 1 .. Len(tasks) : tasks[k] \in idMap /\ tasks[k] \in TaskId
         /\ \A i \in idMap : \E k \in 1 .. Len(tasks) : tasks[k] = i
  <1>1. tasks \in Seq(TaskId) /\ idMap = Range(tasks)
    BY DEF IInv, TypeOK, IndexMatchesQueue
  <1>2. \A k \in 1 .. Len(tasks) : tasks[k] \in TaskId
    BY <1>1
  <1> QED
    BY <1>1, <1>2, SequenceRange

LEMMA SwappedAre ==
  ASSUME IInv
  PROVE  \A k \in 1 .. Len(swapped) : swapped[k] \in TaskId /\ swapped[k] # NoTask
  <1>1. swapped \in Seq(TaskId)
    BY DEF IInv, TypeOK
  <1>2. NoTask \notin TaskId
    BY DEF NoTask, TaskId
  <1> QED
    BY <1>1, <1>2

\* The constructor establishes the invariant.
LEMMA InitIInv == Init => IInv
  <1> SUFFICES ASSUME Init PROVE IInv
    OBVIOUS
  <1>1. TypeOK
    BY PoolAssumption
    DEF Init, TypeOK, TaskId, Priority, Result, Callers, WorkerState, CallState, DtorState
  <1>2. IndexMatchesQueue
    BY DEF Init, IndexMatchesQueue, Range, IsInjective
  <1>3. Unborn /\ QueuedUnsettled /\ SwappedUnsettled
    BY DEF Init, Unborn, QueuedUnsettled, SwappedUnsettled, TaskId, NoTask, IsInjective
  <1>4. WorkersConsistent /\ DtorConsistent /\ OneOwner
    BY DEF Init, WorkersConsistent, Callers, DtorConsistent, OneOwner
  <1>5. NothingLost /\ PromiseSetOnce
    BY DEF Init, NothingLost, PromiseSetOnce, Submitted
  <1> QED
    BY <1>1, <1>2, <1>3, <1>4, <1>5 DEF IInv

\* Steps that leave the queue, the destructor's tasks and every promise as
\* they are: notifications, waits, and the calls on a Future that do not
\* cancel.
LEMMA QuietSteps ==
  ASSUME IInv,
         \/ \E t \in Callers : NotifyOne(t)
         \/ \E t \in Callers : FutureReady(t)
         \/ \E t \in Callers, i \in TaskId : FutureGet(t, i) \/ FutureRelease(t, i)
         \/ \E w \in Workers : DequeueWait(w) \/ DequeueExit(w) \/ SpuriousWakeup(w)
         \/ NotifyAll
  PROVE  IInv'
  <1> USE DEF IInv, queueVars, futureVars, callVars, workVars, dtorVars
  <1>1. UNCHANGED <<nextTaskId, tasks, idMap, running, priority, result, current, swapped, pos>>
    BY DEF NotifyOne, FutureReady, FutureGet, FutureRelease, DequeueWait, DequeueExit,
           SpuriousWakeup, NotifyAll
  <1>2. TypeOK'
    <2>1. ASSUME NEW t \in Callers, NotifyOne(t) PROVE TypeOK'
      <3>1. worker' \in [Workers -> WorkerState]
        BY <2>1 DEF NotifyOne, TypeOK, WorkerState
      <3>2. calling' \in [Callers -> CallState]
        BY <2>1 DEF NotifyOne, TypeOK, CallState
      <3>3. UNCHANGED futureVars /\ UNCHANGED target /\ UNCHANGED dtorVars
        BY <2>1, Zenon DEF NotifyOne
      <3> QED
        BY <1>1, <3>1, <3>2, <3>3, Zenon DEF TypeOK
    <2>2. ASSUME NEW t \in Callers, FutureReady(t) PROVE TypeOK'
      <3>1. /\ calling' \in [Callers -> CallState]
            /\ target' \in [Callers -> TaskId \cup {NoTask}]
        BY <2>2 DEF FutureReady, TypeOK, CallState
      <3>2. holder' \in [TaskId -> Callers \cup {Nobody}]
        BY <2>2, Zenon DEF FutureReady, TypeOK
      <3>3. UNCHANGED result /\ UNCHANGED workVars /\ UNCHANGED dtorVars
        BY <2>2, Zenon DEF FutureReady
      <3> QED
        BY <1>1, <3>1, <3>2, <3>3, Zenon DEF TypeOK
    <2>3. CASE \E t \in Callers, i \in TaskId : FutureGet(t, i)
      BY <2>3 DEF TypeOK, FutureGet, CallState
    <2>4. CASE \E t \in Callers, i \in TaskId : FutureRelease(t, i)
      BY <2>4 DEF TypeOK, FutureRelease
    <2>5. CASE \E w \in Workers : DequeueWait(w)
      BY <2>5 DEF TypeOK, DequeueWait, WorkerState
    <2>6. CASE \E w \in Workers : DequeueExit(w)
      BY <2>6 DEF TypeOK, DequeueExit, WorkerState
    <2>7. CASE \E w \in Workers : SpuriousWakeup(w)
      BY <2>7 DEF TypeOK, SpuriousWakeup, WorkerState
    <2>8. CASE NotifyAll
      BY <2>8 DEF TypeOK, NotifyAll, WorkerState, DtorState
    <2> QED
      BY <2>1, <2>2, <2>3, <2>4, <2>5, <2>6, <2>7, <2>8
  <1>3. \/ dtor' = dtor
        \/ dtor = "notify" /\ dtor' = "cancel"
    BY DEF NotifyOne, FutureReady, FutureGet, FutureRelease, DequeueWait, DequeueExit,
           SpuriousWakeup, NotifyAll
  <1>4. WorkersConsistent'
    <2>1. CASE \E t \in Callers : NotifyOne(t)
      BY <2>1 DEF NotifyOne, TypeOK, WorkersConsistent, Callers
    <2>2. CASE \E t \in Callers : FutureReady(t)
      BY <2>2 DEF FutureReady, TypeOK, WorkersConsistent, Callers
    <2>3. CASE \E t \in Callers, i \in TaskId : FutureGet(t, i)
      BY <2>3 DEF FutureGet, TypeOK, WorkersConsistent, Callers
    <2>4. CASE \E t \in Callers, i \in TaskId : FutureRelease(t, i)
      BY <2>4 DEF FutureRelease, TypeOK, WorkersConsistent, Callers
    <2>5. CASE \E w \in Workers : DequeueWait(w)
      BY <2>5 DEF DequeueWait, TypeOK, WorkersConsistent, Callers
    <2>6. CASE \E w \in Workers : DequeueExit(w)
      BY <2>6 DEF DequeueExit, TypeOK, WorkersConsistent, Callers
    <2>7. CASE \E w \in Workers : SpuriousWakeup(w)
      BY <2>7 DEF SpuriousWakeup, TypeOK, WorkersConsistent, Callers
    <2>8. CASE NotifyAll
      BY <2>8 DEF NotifyAll, TypeOK, WorkersConsistent, Callers
    <2> QED
      BY <2>1, <2>2, <2>3, <2>4, <2>5, <2>6, <2>7, <2>8
  <1>5. DtorConsistent'
    <2>1. CASE \E t \in Callers : NotifyOne(t)
      BY <1>1, <1>3, <2>1 DEF NotifyOne, TypeOK, DtorConsistent, Callers
    <2>2. CASE \E t \in Callers : FutureReady(t)
      BY <1>1, <1>3, <2>2 DEF FutureReady, TypeOK, DtorConsistent, Callers
    <2>3. CASE \E t \in Callers, i \in TaskId : FutureGet(t, i)
      BY <1>1, <1>3, <2>3 DEF FutureGet, TypeOK, DtorConsistent, Callers
    <2>4. CASE \E t \in Callers, i \in TaskId : FutureRelease(t, i)
      BY <1>1, <1>3, <2>4 DEF FutureRelease, TypeOK, DtorConsistent, Callers
    <2>5. CASE \E w \in Workers : DequeueWait(w)
      BY <1>1, <1>3, <2>5 DEF DequeueWait, TypeOK, DtorConsistent, Callers
    <2>6. CASE \E w \in Workers : DequeueExit(w)
      BY <1>1, <1>3, <2>6 DEF DequeueExit, TypeOK, DtorConsistent, Callers
    <2>7. CASE \E w \in Workers : SpuriousWakeup(w)
      BY <1>1, <1>3, <2>7 DEF SpuriousWakeup, TypeOK, DtorConsistent, Callers
    <2>8. CASE NotifyAll
      BY <1>1, <1>3, <2>8 DEF NotifyAll, TypeOK, DtorConsistent, Callers
    <2> QED
      BY <2>1, <2>2, <2>3, <2>4, <2>5, <2>6, <2>7, <2>8
  <1> QED
    BY <1>1, <1>2, <1>3, <1>4, <1>5
    DEF IndexMatchesQueue, Unborn, QueuedUnsettled, SwappedUnsettled, OneOwner, NothingLost,
        PromiseSetOnce, ToCancel, Submitted, Range

\* SubmitTask: the new id is in the queue and nowhere else.
LEMMA SubmitStep ==
  ASSUME IInv, NEW t \in Callers, NEW p \in Priorities, SubmitTask(t, p)
  PROVE  IInv'
  <1> DEFINE new == nextTaskId
  <1> USE DEF IInv, futureVars, callVars, workVars, dtorVars
  <1>1. /\ UNCHANGED <<running, result, target, worker, current, dtor, swapped, pos>>
        /\ new \in TaskId /\ nextTaskId' = new + 1 /\ idMap' = idMap \cup {new}
    BY DEF SubmitTask
  <1>2. PICK n \in 1 .. Len(tasks) + 1 : tasks' = InsertAt(tasks, n, new)
    BY DEF SubmitTask, Emplace
  <1>3. new \notin idMap /\ result[new] = "none"
    BY <1>1 DEF Unborn, TypeOK, TaskId
  <1>4. tasks' \in Seq(TaskId) /\ Range(tasks') = idMap' /\ IsInjective(tasks')
    <2>1. tasks \in Seq(TaskId) /\ new \notin Range(tasks) /\ IsInjective(tasks)
      BY <1>3 DEF TypeOK, IndexMatchesQueue
    <2>2. tasks' \in Seq(TaskId) /\ Range(tasks') = Range(tasks) \cup {new} /\ IsInjective(tasks')
      BY <1>1, <1>2, <2>1, EmplaceIds
    <2> QED
      BY <1>1, <2>2 DEF IndexMatchesQueue
  <1>5. TypeOK'
    BY <1>1, <1>4, PoolAssumption DEF TypeOK, SubmitTask, TaskId, CallState
  <1>6. dtor \notin {"late", "destroyed"}
    BY DEF SubmitTask, CanCall, DtorConsistent, Callers
  <1>7. IndexMatchesQueue'
    BY <1>4 DEF IndexMatchesQueue
  <1>8. QueuedUnsettled'
    <2>1. \A i \in idMap : result[i] = "none"
      BY <1>6 DEF IndexMatchesQueue, QueuedUnsettled, Range, TypeOK
    <2>2. \A j \in 1 .. Len(tasks') : tasks'[j] \in idMap'
      BY <1>4 DEF Range
    <2> QED
      BY <1>1, <1>3, <1>6, <2>1, <2>2 DEF QueuedUnsettled
  <1>9. Unborn'
    BY <1>1 DEF Unborn, TypeOK, TaskId
  <1>11. SwappedUnsettled'
    BY <1>1 DEF SwappedUnsettled, Unborn, TypeOK, TaskId
  <1>12. WorkersConsistent'
    BY <1>1 DEF WorkersConsistent, SubmitTask, CanCall, TypeOK, Callers
  <1>13. DtorConsistent'
    BY <1>1, <1>6 DEF DtorConsistent
  <1>14. OneOwner'
    <2>1. \A w \in Workers : current[w] # new
      BY <1>1 DEF Unborn, TypeOK, TaskId
    <2>2. ToCancel' = ToCancel
      BY <1>1, Zenon DEF ToCancel
    <2> QED
      BY <1>1, <2>1, <2>2 DEF OneOwner
  <1>15. NothingLost'
    <2>1. \A i \in Submitted' : i \in Submitted \/ i = new
      BY <1>1 DEF Submitted, TypeOK
    <2>2. ToCancel' = ToCancel
      BY <1>1 DEF ToCancel
    <2> QED
      BY <1>1, <2>1, <2>2 DEF NothingLost
  <1> QED
    BY <1>1, <1>5, <1>7, <1>8, <1>9, <1>11, <1>12, <1>13, <1>14, <1>15 DEF PromiseSetOnce

\* Cancel and ~Future: the task leaves the queue and its promise is set.
LEMMA CancelSteps ==
  ASSUME IInv, NEW t \in Callers, NEW id \in TaskId, Cancel(t, id) \/ FutureDestroy(t, id)
  PROVE  IInv'
  <1> USE DEF IInv, futureVars, callVars, workVars, dtorVars
  <1>1. /\ UNCHANGED <<nextTaskId, running, priority, holder, worker, current, dtor, swapped, pos>>
        /\ CanCall(t) /\ CancelTask(id)
    BY DEF Cancel, FutureDestroy
  <1>2. dtor \notin {"late", "destroyed"}
    BY <1>1 DEF CanCall, DtorConsistent, Callers
  <1>3. calling' \in [Callers -> CallState] /\ target' \in [Callers -> TaskId \cup {NoTask}]
    <2>1. calling \in [Callers -> CallState] /\ target \in [Callers -> TaskId \cup {NoTask}]
      BY DEF TypeOK
    <2>2. CASE Cancel(t, id)
      BY <2>1, <2>2 DEF Cancel
    <2>3. CASE FutureDestroy(t, id)
      BY <2>1, <2>3 DEF FutureDestroy, CallState
    <2> QED
      BY <2>2, <2>3
  <1>4. WorkersConsistent'
    BY <1>1 DEF WorkersConsistent, Cancel, FutureDestroy, CanCall, TypeOK, Callers
  <1>5. DtorConsistent'
    BY <1>1, <1>2, Zenon DEF DtorConsistent
  <1>6. CASE id \notin idMap
    <2>1. UNCHANGED <<idMap, result, tasks>>
      BY <1>1, <1>6 DEF CancelTask
    <2>2. TypeOK'
      BY <1>1, <1>3, <2>1 DEF TypeOK
    <2>3. IndexMatchesQueue' /\ Unborn' /\ QueuedUnsettled'
      BY <1>1, <2>1, Zenon DEF IndexMatchesQueue, Unborn, QueuedUnsettled
    <2>4. SwappedUnsettled' /\ PromiseSetOnce'
      BY <1>1, <2>1, Zenon DEF SwappedUnsettled, PromiseSetOnce
    <2>5. ToCancel' = ToCancel /\ Submitted' = Submitted
      BY <1>1, Zenon DEF ToCancel, Submitted
    <2>6. OneOwner'
      BY <1>1, <2>1, <2>5, Zenon DEF OneOwner
    <2>7. NothingLost'
      BY <1>1, <2>1, <2>5, Zenon DEF NothingLost
    <2> QED
      BY <1>4, <1>5, <2>2, <2>3, <2>4, <2>6, <2>7
  <1>7. CASE id \in idMap
    <2>1. /\ idMap' = idMap \ {id}
          /\ \E k \in 1 .. Len(tasks) : tasks[k] = id /\ tasks' = RemoveAt(tasks, k)
      BY <1>1, <1>7 DEF CancelTask
    <2>2. tasks' \in Seq(TaskId) /\ Range(tasks') = idMap' /\ IsInjective(tasks')
      BY <2>1, EraseIds DEF TypeOK, IndexMatchesQueue
    <2>3. \A i \in idMap : result[i] = "none"
      <3>1. tasks \in Seq(TaskId) /\ idMap = Range(tasks)
        BY DEF TypeOK, IndexMatchesQueue
      <3> QED
        BY <1>2, <3>1, SequenceRange DEF QueuedUnsettled
    <2>4. result' = [result EXCEPT ![id] = "cancelled"]
      BY <1>1, <1>7, <2>3 DEF CancelTask, Complete
    <2>5. TypeOK'
      BY <1>1, <1>3, <2>1, <2>2, <2>4 DEF TypeOK, Result
    <2>6. IndexMatchesQueue'
      BY <2>2, Zenon DEF IndexMatchesQueue
    <2>7. QueuedUnsettled'
      <3>1. \A k \in 1 .. Len(tasks') : tasks'[k] \in idMap \ {id}
        BY <2>1, <2>2, SequenceRange
      <3> QED
        BY <1>1, <1>2, <2>3, <2>4, <3>1, Zenon DEF QueuedUnsettled, TypeOK
    <2>8. Unborn' /\ SwappedUnsettled' /\ OneOwner' /\ PromiseSetOnce'
      <3>1. result \in [TaskId -> Result]
        BY DEF TypeOK
      <3>2. Unborn' /\ PromiseSetOnce'
        BY <1>1, <1>7, <2>1, <2>4, <3>1 DEF Unborn, PromiseSetOnce
      <3>3. SwappedUnsettled'
        <4>1. \A k \in 1 .. Len(swapped) : swapped[k] \in TaskId
          BY DEF TypeOK
        <4>2. \A i \in TaskId : i \notin idMap => result'[i] = result[i]
          BY <1>7, <2>4, <3>1
        <4> QED
          BY <1>1, <1>7, <2>1, <4>1, <4>2 DEF SwappedUnsettled
      <3>4. OneOwner'
        <4>1. ToCancel' = ToCancel
          BY <1>1, Zenon DEF ToCancel
        <4>2. \A w \in Workers : current[w] # NoTask =>
                 current[w] \in TaskId /\ result'[current[w]] = result[current[w]]
          BY <1>7, <2>4, <3>1 DEF OneOwner, TypeOK
        <4> QED
          BY <1>1, <2>1, <4>1, <4>2, Zenon DEF OneOwner
      <3> QED
        BY <3>2, <3>3, <3>4
    <2>9. NothingLost'
      <3>0. result \in [TaskId -> Result] /\ nextTaskId \in 1 .. MaxTasks + 1
        BY DEF TypeOK
      <3>1. result \in [TaskId -> Result] /\ Submitted \subseteq TaskId
        BY <3>0, PoolAssumption DEF Submitted, TaskId
      <3>2. Submitted' = Submitted /\ ToCancel' = ToCancel
        BY <1>1, Zenon DEF Submitted, ToCancel
      <3>3. SUFFICES ASSUME NEW i \in Submitted, result'[i] = "none"
                     PROVE  \/ i \in idMap'
                            \/ \E w \in Workers : current[w] = i
                            \/ i \in ToCancel
        BY <1>1, <3>2, Zenon DEF NothingLost
      <3>4. i # id /\ result[i] = "none"
        BY <2>4, <3>1, <3>3
      <3> QED
        BY <2>1, <3>4, Zenon DEF NothingLost
    <2> QED
      BY <1>4, <1>5, <2>5, <2>6, <2>7, <2>8, <2>9
  <1> QED
    BY <1>6, <1>7

\* DequeueTask: the first task goes from the queue to the worker.
LEMMA DequeueStep ==
  ASSUME IInv, NEW w \in Workers, DequeueTask(w)
  PROVE  IInv'
  <1> DEFINE id == tasks[1]
  <1> USE DEF IInv, futureVars, callVars, dtorVars
  <1>1. /\ UNCHANGED <<nextTaskId, running, priority, result, holder, calling, target, dtor, swapped, pos>>
        /\ running /\ tasks # <<>> /\ worker[w] = "dequeue"
        /\ worker' = [worker EXCEPT ![w] = "running"]
    BY DEF DequeueTask
  <1>2. dtor = "none" /\ swapped = <<>>
    BY <1>1 DEF DtorConsistent
  <1>3. /\ Len(tasks) \in Nat \ {0} /\ 1 \in 1 .. Len(tasks) /\ id \in TaskId
        /\ Head(tasks) = id
        /\ tasks' = Tail(tasks) /\ idMap' = idMap \ {id}
        /\ current' = [current EXCEPT ![w] = id]
    BY <1>1 DEF DequeueTask, PopFront, TypeOK
  <1>4. /\ tasks' \in Seq(TaskId) /\ Len(tasks') = Len(tasks) - 1
        /\ \A k \in 1 .. Len(tasks) - 1 : tasks'[k] = tasks[k + 1]
    BY <1>1, <1>3 DEF TypeOK
  <1>5. IndexMatchesQueue'
    <2>1. /\ DOMAIN tasks = 1 .. Len(tasks) /\ DOMAIN tasks' = 1 .. Len(tasks) - 1
          /\ \A j, k \in 1 .. Len(tasks) : tasks[j] = tasks[k] => j = k
      <3>1. DOMAIN tasks = 1 .. Len(tasks)
        BY DEF TypeOK
      <3>2. DOMAIN tasks' = 1 .. Len(tasks) - 1
        BY <1>4
      <3>3. \A j, k \in DOMAIN tasks : tasks[j] = tasks[k] => j = k
        BY Zenon DEF IndexMatchesQueue, IsInjective
      <3> QED
        BY <3>1, <3>2, <3>3
    <2>2. IsInjective(tasks')
      BY <1>3, <1>4, <2>1 DEF IsInjective
    <2>3. ASSUME NEW i \in Range(tasks') PROVE i \in idMap \ {id}
      <3>1. PICK k \in 1 .. Len(tasks) - 1 : i = tasks[k + 1]
        BY <1>4, <2>1 DEF Range
      <3> QED
        BY <1>3, <2>1, <3>1, QueuedAre
    <2>4. ASSUME NEW i \in idMap \ {id} PROVE i \in Range(tasks')
      <3>1. PICK k \in 1 .. Len(tasks) : i = tasks[k] /\ k # 1
        BY <2>1 DEF IndexMatchesQueue, Range
      <3>2. k - 1 \in 1 .. Len(tasks) - 1 /\ (k - 1) + 1 = k
        BY <1>3, <3>1
      <3>3. tasks'[k - 1] = i
        BY <1>4, <3>1, <3>2
      <3> QED
        BY <2>1, <3>2, <3>3 DEF Range
    <2> QED
      BY <1>3, <2>2, <2>3, <2>4 DEF IndexMatchesQueue
  <1>6. id \in idMap /\ result[id] = "none"
    BY <1>2, <1>3, QueuedAre DEF QueuedUnsettled
  <1>7. TypeOK'
    BY <1>1, <1>3, <1>4 DEF TypeOK, WorkerState
  <1>8. QueuedUnsettled'
    <2>1. \A k \in 1 .. Len(tasks) : result[tasks[k]] = "none"
      BY <1>2 DEF QueuedUnsettled
    <2>2. \A k \in 1 .. Len(tasks') : k + 1 \in 1 .. Len(tasks) /\ tasks'[k] = tasks[k + 1]
      BY <1>3, <1>4
    <2> QED
      BY <1>1, <1>2, <2>1, <2>2 DEF QueuedUnsettled
  <1>9. Unborn' /\ SwappedUnsettled'
    BY <1>1, <1>2, <1>3, <1>6 DEF Unborn, SwappedUnsettled, TypeOK, IsInjective
  <1>10. WorkersConsistent' /\ DtorConsistent'
    BY <1>1, <1>2, <1>3 DEF WorkersConsistent, DtorConsistent, TypeOK, NoTask, TaskId
  <1>11. OneOwner'
    BY <1>1, <1>2, <1>3, <1>6 DEF OneOwner, ToCancel, TypeOK
  <1>12. NothingLost'
    <2>1. current[w] = NoTask
      BY <1>1 DEF WorkersConsistent
    <2> QED
      BY <1>1, <1>2, <1>3, <2>1
      DEF NothingLost, Submitted, ToCancel, TypeOK, NoTask, TaskId
  <1> QED
    BY <1>1, <1>5, <1>7, <1>8, <1>9, <1>10, <1>11, <1>12 DEF PromiseSetOnce

\* The end of a task's function: the worker gives the task away with a result.
LEMMA FinishStep ==
  ASSUME IInv, NEW w \in Workers, FinishTask(w)
  PROVE  IInv'
  <1> DEFINE id == current[w]
  <1> USE DEF IInv, queueVars, callVars, dtorVars
  <1>1. /\ UNCHANGED <<nextTaskId, tasks, idMap, running, priority, holder, calling, target, dtor, swapped, pos>>
        /\ worker[w] = "running" /\ calling[w] = "none"
        /\ worker' = [worker EXCEPT ![w] = "dequeue"]
        /\ current' = [current EXCEPT ![w] = NoTask]
    BY DEF FinishTask
  <1>2. id # NoTask /\ id \in TaskId /\ result[id] = "none" /\ id \notin idMap \cup ToCancel
    BY <1>1 DEF WorkersConsistent, OneOwner, TypeOK
  <1>3. result' = [result EXCEPT ![id] = "value"]
    BY <1>2 DEF FinishTask, Complete
  <1>4. dtor \notin {"late", "destroyed"}
    BY <1>1 DEF DtorConsistent
  <1>5. TypeOK'
    BY <1>1, <1>2, <1>3 DEF TypeOK, WorkerState, Result
  <1>6. IndexMatchesQueue'
    BY <1>1, Zenon DEF IndexMatchesQueue, Range, IsInjective
  <1>7. Unborn'
    BY <1>1, <1>2, <1>3 DEF Unborn, TypeOK, NoTask, TaskId
  <1>8. QueuedUnsettled'
    <2>1. \A k \in 1 .. Len(tasks) : tasks[k] \in idMap /\ tasks[k] # id
      BY <1>2, QueuedAre
    <2> QED
      BY <1>1, <1>3, <1>4, <2>1 DEF QueuedUnsettled, TypeOK
  <1>9. SwappedUnsettled'
    <2>1. \A k \in 1 .. Len(swapped) : swapped[k] # id
      BY DEF SwappedUnsettled
    <2>2. \A k \in 1 .. Len(swapped) : result'[swapped[k]] = result[swapped[k]]
      BY <1>3, <2>1, SwappedAre DEF TypeOK
    <2>3. \A v \in Workers : current'[v] = current[v] \/ current'[v] = NoTask
      BY <1>1 DEF TypeOK
    <2>4. \A k \in 1 .. Len(swapped) : \A v \in Workers : current'[v] # swapped[k]
      BY <2>3, SwappedAre DEF SwappedUnsettled
    <2> QED
      BY <1>1, <2>2, <2>4, Zenon DEF SwappedUnsettled
  <1>10. WorkersConsistent' /\ DtorConsistent'
    BY <1>1, <1>4 DEF WorkersConsistent, DtorConsistent, TypeOK, Callers
  <1>11. OneOwner'
    BY <1>1, <1>2, <1>3 DEF OneOwner, ToCancel, TypeOK
  <1>12. NothingLost'
    BY <1>1, <1>2, <1>3 DEF NothingLost, Submitted, ToCancel, TypeOK
  <1>13. PromiseSetOnce'
    BY <1>2, <1>3 DEF PromiseSetOnce, TypeOK
  <1> QED
    BY <1>5, <1>6, <1>7, <1>8, <1>9, <1>10, <1>11, <1>12, <1>13

\* The first block of ~ThreadPool: the queue becomes the destructor's own.
LEMMA ShutdownStep ==
  ASSUME IInv, Shutdown
  PROVE  IInv'
  <1> USE DEF IInv, futureVars, callVars, workVars
  <1>1. /\ UNCHANGED <<nextTaskId, priority, result, holder, worker, current, calling, target, pos>>
        /\ dtor = "none" /\ dtor' = "notify" /\ running' = FALSE
        /\ swapped' = tasks /\ tasks' = <<>> /\ idMap' = {}
    BY DEF Shutdown
  <1>2. pos = 0 /\ swapped = <<>>
    BY <1>1 DEF DtorConsistent
  <1>3. TypeOK'
    <2>1. <<>> \in Seq(TaskId)
      OBVIOUS
    <2>2. dtor' \in DtorState /\ running' \in BOOLEAN
      BY <1>1, Zenon DEF DtorState
    <2> QED
      BY <1>1, <2>1, <2>2, Zenon DEF TypeOK
  <1>4. IndexMatchesQueue'
    BY <1>1 DEF IndexMatchesQueue, Range, IsInjective
  <1>5. \A k \in 1 .. Len(tasks) : tasks[k] \in idMap /\ result[tasks[k]] = "none"
    BY <1>1, QueuedAre DEF QueuedUnsettled
  <1>6. Unborn'
    BY <1>1, <1>5 DEF Unborn, TypeOK
  <1>7. QueuedUnsettled'
    BY <1>1 DEF QueuedUnsettled
  <1>8. SwappedUnsettled'
    <2>1. \A k \in 1 .. Len(tasks) : \A w \in Workers : current[w] # tasks[k]
      BY <1>5 DEF OneOwner, TypeOK, NoTask, TaskId
    <2> QED
      BY <1>1, <1>5, <2>1 DEF SwappedUnsettled, IndexMatchesQueue
  <1>9. WorkersConsistent' /\ DtorConsistent' /\ PromiseSetOnce'
    BY <1>1, <1>2 DEF WorkersConsistent, DtorConsistent, PromiseSetOnce, TypeOK
  <1>10. ToCancel' = idMap
    <2>1. ToCancel' = {tasks[k] : k \in 1 .. Len(tasks)}
      <3>1. dtor' \in {"notify", "cancel"} /\ pos' + 1 = 1 /\ swapped' = tasks
        BY <1>1, <1>2
      <3> QED
        BY <3>1, Zenon DEF ToCancel
    <2> QED
      BY <2>1, QueuedAre, Zenon
  <1>11. OneOwner' /\ NothingLost'
    BY <1>1, <1>10 DEF OneOwner, NothingLost, Submitted, ToCancel
  <1> QED
    BY <1>3, <1>4, <1>6, <1>7, <1>8, <1>9, <1>11

\* The loop that cancels the tasks that were swapped out.
LEMMA CancelSwappedStep ==
  ASSUME IInv, CancelSwapped
  PROVE  IInv'
  <1> DEFINE id == swapped[pos + 1]
  <1> USE DEF IInv, queueVars, callVars, workVars
  <1>1. /\ UNCHANGED <<nextTaskId, tasks, idMap, running, priority, holder, worker, current, calling, target, dtor, swapped>>
        /\ dtor = "cancel" /\ pos < Len(swapped) /\ pos' = pos + 1
    BY DEF CancelSwapped
  <1>2. pos + 1 \in 1 .. Len(swapped) /\ pos + 1 > pos /\ id \in TaskId
    BY <1>1 DEF TypeOK
  <1>3. result[id] = "none" /\ id \notin idMap /\ \A w \in Workers : current[w] # id
    BY <1>1, <1>2 DEF SwappedUnsettled
  <1>4. result' = [result EXCEPT ![id] = "cancelled"]
    BY <1>3 DEF CancelSwapped, Complete
  <1>5. TypeOK'
    BY <1>1, <1>2, <1>4 DEF TypeOK, Result
  <1>6. IndexMatchesQueue'
    BY <1>1 DEF IndexMatchesQueue, Range, IsInjective
  <1>7. Unborn'
    BY <1>1, <1>2, <1>4 DEF Unborn, TypeOK
  <1>8. QueuedUnsettled'
    <2>1. \A k \in 1 .. Len(tasks) : tasks[k] # id
      BY <1>3, QueuedAre
    <2>2. \A k \in 1 .. Len(tasks) : result'[tasks[k]] = result[tasks[k]]
      BY <1>4, <2>1, QueuedAre DEF TypeOK
    <2> QED
      BY <1>1, <2>2 DEF QueuedUnsettled
  <1>9. SwappedUnsettled'
    <2>1. \A k \in 1 .. Len(swapped) : k > pos + 1 => swapped[k] # id
      BY <1>2 DEF SwappedUnsettled, IsInjective, TypeOK
    <2> QED
      BY <1>1, <1>4, <2>1 DEF SwappedUnsettled, TypeOK
  <1>10. WorkersConsistent' /\ DtorConsistent'
    BY <1>1, <1>2 DEF WorkersConsistent, DtorConsistent, TypeOK
  <1>11. ToCancel' \subseteq ToCancel /\ ToCancel \subseteq ToCancel' \cup {id}
    <2>1. /\ ToCancel = {swapped[k] : k \in pos + 1 .. Len(swapped)}
          /\ ToCancel' = {swapped[k] : k \in (pos + 1) + 1 .. Len(swapped)}
      BY <1>1, Zenon DEF ToCancel
    <2>2. pos \in Nat /\ Len(swapped) \in Nat
      BY DEF TypeOK
    <2>3. (pos + 1) + 1 .. Len(swapped) \subseteq pos + 1 .. Len(swapped)
      BY <2>2
    <2>4. \A k \in pos + 1 .. Len(swapped) : k = pos + 1 \/ k \in (pos + 1) + 1 .. Len(swapped)
      BY <2>2
    <2> QED
      BY <2>1, <2>3, <2>4, Zenon
  <1>12. OneOwner'
    BY <1>1, <1>3, <1>4, <1>11 DEF OneOwner, TypeOK
  <1>13. NothingLost'
    BY <1>1, <1>4, <1>11 DEF NothingLost, Submitted, TypeOK
  <1>14. PromiseSetOnce'
    BY <1>4 DEF PromiseSetOnce, TypeOK
  <1> QED
    BY <1>5, <1>6, <1>7, <1>8, <1>9, <1>10, <1>12, <1>13, <1>14

\* The steps of the destructor between its loops.
LEMMA DtorQuietSteps ==
  ASSUME IInv, SwappedDone \/ Join \/ Destroyed
  PROVE  IInv'
  <1> USE DEF IInv, queueVars, futureVars, callVars, workVars
  <1>1. /\ UNCHANGED <<nextTaskId, tasks, idMap, running, priority, result, holder, worker,
                       current, calling, target, swapped>>
        /\ \/ dtor = "cancel" /\ dtor' = "join" /\ pos' = pos /\ pos = Len(swapped)
           \/ /\ dtor = "join" /\ dtor' = "late" /\ pos' = 0
              /\ \A w \in Workers : worker[w] = "exited"
              /\ \A t \in Clients : calling[t] # "notify"
           \/ dtor = "late" /\ dtor' = "destroyed" /\ pos' = pos /\ pos = Len(tasks)
    BY DEF SwappedDone, Join, Destroyed
  <1>2. TypeOK'
    BY <1>1 DEF TypeOK, DtorState
  <1>3. ToCancel = {} /\ ToCancel' = {}
    <2>1. dtor' \notin {"notify", "cancel"}
      BY <1>1
    <2>2. CASE dtor = "cancel"
      <3>1. pos = Len(swapped) /\ Len(swapped) \in Nat
        BY <1>1, <2>2 DEF TypeOK
      <3>2. pos + 1 .. Len(swapped) = {}
        BY <3>1
      <3> QED
        BY <2>1, <3>2, Zenon DEF ToCancel
    <2>3. CASE dtor # "cancel"
      <3>1. dtor \notin {"notify", "cancel"}
        BY <1>1, <2>3
      <3> QED
        BY <2>1, <3>1, Zenon DEF ToCancel
    <2> QED
      BY <2>2, <2>3, Zenon
  <1>4. IndexMatchesQueue' /\ Unborn' /\ WorkersConsistent' /\ PromiseSetOnce'
    BY <1>1, Zenon DEF IndexMatchesQueue, Unborn, WorkersConsistent, PromiseSetOnce
  <1>5. QueuedUnsettled'
    BY <1>1 DEF QueuedUnsettled, TypeOK
  <1>6. SwappedUnsettled'
    BY <1>1, Zenon DEF SwappedUnsettled
  <1>7. DtorConsistent'
    BY <1>1 DEF DtorConsistent, TypeOK
  <1>8. OneOwner' /\ NothingLost'
    BY <1>1, <1>3 DEF OneOwner, NothingLost, Submitted
  <1> QED
    BY <1>2, <1>4, <1>5, <1>6, <1>7, <1>8

\* The loop that fails the tasks that came in late.
LEMMA FailLateStep ==
  ASSUME IInv, FailLate
  PROVE  IInv'
  <1> DEFINE id == tasks[pos + 1]
  <1> USE DEF IInv, queueVars, callVars, workVars
  <1>1. /\ UNCHANGED <<nextTaskId, tasks, idMap, running, priority, holder, worker, current, calling, target, dtor, swapped>>
        /\ dtor = "late" /\ pos < Len(tasks) /\ pos' = pos + 1
    BY DEF FailLate
  <1>2. pos + 1 \in 1 .. Len(tasks) /\ ~(pos + 1 <= pos) /\ id \in TaskId /\ id \in idMap
    <2>1. pos + 1 \in 1 .. Len(tasks) /\ ~(pos + 1 <= pos)
      BY <1>1 DEF TypeOK
    <2> QED
      BY <2>1, QueuedAre
  <1>3. result[id] = "none"
    BY <1>1, <1>2 DEF QueuedUnsettled
  <1>4. result' = [result EXCEPT ![id] = "cancelled"]
    BY <1>3 DEF FailLate, Complete
  <1>5. TypeOK'
    BY <1>1, <1>2, <1>4 DEF TypeOK, Result
  <1>6. IndexMatchesQueue' /\ WorkersConsistent'
    BY <1>1 DEF IndexMatchesQueue, WorkersConsistent
  <1>7. Unborn'
    BY <1>1, <1>2, <1>4 DEF Unborn, TypeOK
  <1>8. QueuedUnsettled'
    <2>1. \A k \in 1 .. Len(tasks) : k # pos + 1 => tasks[k] # id
      BY <1>2 DEF IndexMatchesQueue, IsInjective, TypeOK
    <2> QED
      BY <1>1, <1>2, <1>4, <2>1 DEF QueuedUnsettled, TypeOK
  <1>9. SwappedUnsettled'
    BY <1>1, Zenon DEF SwappedUnsettled
  <1>10. DtorConsistent'
    BY <1>1, <1>2 DEF DtorConsistent, TypeOK
  <1>11. OneOwner'
    BY <1>1, <1>2, <1>4, Zenon DEF OneOwner, ToCancel, TypeOK
  <1>12. NothingLost'
    <2>1. ToCancel' = ToCancel /\ Submitted' = Submitted
      BY <1>1 DEF ToCancel, Submitted
    <2>2. \A i \in Submitted : result'[i] = "none" => result[i] = "none"
      BY <1>3, <1>4 DEF TypeOK, Submitted
    <2> QED
      BY <1>1, <2>1, <2>2, Zenon DEF NothingLost
  <1>13. PromiseSetOnce'
    BY <1>4 DEF PromiseSetOnce, TypeOK
  <1> QED
    BY <1>5, <1>6, <1>7, <1>8, <1>9, <1>10, <1>11, <1>12, <1>13

\* Every step of the pool preserves the invariant.
LEMMA NextIInv == IInv /\ [Next]_vars => IInv'
  <1> SUFFICES ASSUME IInv, [Next]_vars PROVE IInv'
    OBVIOUS
  <1>1. ASSUME NEW t \in Callers, ClientStep(t) PROVE IInv'
    BY <1>1, SubmitStep, CancelSteps, QuietSteps DEF ClientStep
  <1>2. ASSUME NEW w \in Workers, WorkerStep(w) PROVE IInv'
    BY <1>2, DequeueStep, FinishStep, QuietSteps DEF WorkerStep
  <1>3. CASE DtorStep
    BY <1>3, ShutdownStep, CancelSwappedStep, DtorQuietSteps, FailLateStep, QuietSteps DEF DtorStep
  <1>4. CASE UNCHANGED vars
    <2>1. TypeOK' /\ IndexMatchesQueue'
      BY <1>4, Zenon DEF vars, IInv, TypeOK, IndexMatchesQueue, Range, IsInjective
    <2>2. Unborn' /\ QueuedUnsettled' /\ SwappedUnsettled'
      BY <1>4 DEF vars, IInv, Unborn, QueuedUnsettled, SwappedUnsettled, IsInjective
    <2>3. WorkersConsistent' /\ DtorConsistent'
      BY <1>4 DEF vars, IInv, WorkersConsistent, DtorConsistent
    <2>4. OneOwner' /\ NothingLost' /\ PromiseSetOnce'
      BY <1>4 DEF vars, IInv, OneOwner, NothingLost, PromiseSetOnce, Submitted, ToCancel
    <2> QED
      BY <2>1, <2>2, <2>3, <2>4 DEF IInv
  <1> QED
    BY <1>1, <1>2, <1>3, <1>4 DEF Next, Terminated

\* The inductive invariant holds in every state of the pool.
THEOREM Invariance == Spec => []IInv
  BY InitIInv, NextIInv, PTL DEF Spec

\* Type correctness.
THEOREM TypeCorrect == Spec => []TypeOK
  <1>1. IInv => TypeOK
    BY DEF IInv
  <1> QED
    BY <1>1, Invariance, PTL

\* No completer is called a second time, no task is lost and none is in two
\* hands at once, whatever Cancel, the workers and the destructor do.
THEOREM TaskSafety == Spec => [](TaskSafe /\ IndexMatchesQueue)
  <1>1. IInv => TaskSafe /\ IndexMatchesQueue
    BY DEF IInv, TaskSafe
  <1> QED
    BY <1>1, Invariance, PTL

\* When the destructor returns every future has its result.
THEOREM DestructorSettles == Spec => []DestroyedSettled
  <1>1. IInv => DestroyedSettled
    <2> SUFFICES ASSUME IInv, dtor = "destroyed", NEW i \in Submitted, result[i] = "none"
                 PROVE  FALSE
      BY DEF DestroyedSettled
    <2> USE DEF IInv
    <2>1. ToCancel = {} /\ \A w \in Workers : current[w] = NoTask
      BY Zenon DEF ToCancel, DtorConsistent, WorkersConsistent
    <2>2. i # NoTask
      BY DEF Submitted, NoTask
    <2>3. i \in idMap
      BY <2>1, <2>2 DEF NothingLost
    <2>4. PICK k \in 1 .. Len(tasks) : tasks[k] = i
      <3>1. DOMAIN tasks = 1 .. Len(tasks)
        BY DEF TypeOK
      <3>2. \E k \in DOMAIN tasks : tasks[k] = i
        BY <2>3, Zenon DEF IndexMatchesQueue, Range
      <3> QED
        BY <3>1, <3>2, Zenon
    <2>5. k <= pos
      BY <2>4 DEF DtorConsistent, TypeOK
    <2>6. result[tasks[k]] # "none"
      BY <2>5, Zenon DEF QueuedUnsettled
    <2> QED
      BY <2>4, <2>6, Zenon
  <1> QED
    BY <1>1, Invariance, PTL

-----------------------------------------------------------------------------
(***************************************************************************)
(* The order of the queue.                                                 *)
(***************************************************************************)

\* QueueOrdered as a fact about a sequence of ids and their priorities.
InOrder(p, s) ==
    \A j, k \in 1 .. Len(s) :
        j < k => p[s[j]] > p[s[k]] \/ (p[s[j]] = p[s[k]] /\ s[j] < s[k])

\* Erasing a task leaves the others in their order.
LEMMA EraseOrdered ==
  ASSUME NEW S, NEW s \in Seq(S), NEW p, NEW n \in 1 .. Len(s), NEW r,
         r = RemoveAt(s, n), InOrder(p, s)
  PROVE  InOrder(p, r)
  <1>1. /\ r \in Seq(S) /\ Len(r) = Len(s) - 1
        /\ \A j \in 1 .. Len(s) - 1 : r[j] = IF j < n THEN s[j] ELSE s[j + 1]
    BY RemoveAtProperties, Zenon
  <1> SUFFICES ASSUME NEW j \in 1 .. Len(s) - 1, NEW k \in 1 .. Len(s) - 1, j < k
               PROVE  p[r[j]] > p[r[k]] \/ (p[r[j]] = p[r[k]] /\ r[j] < r[k])
    BY <1>1 DEF InOrder
  <1>2. \E a, b \in 1 .. Len(s) : a < b /\ r[j] = s[a] /\ r[k] = s[b]
    <2>1. CASE k < n
      BY <1>1, <2>1
    <2>2. CASE j < n /\ ~(k < n)
      <3>1. r[j] = s[j] /\ r[k] = s[k + 1] /\ j < k + 1
        BY <1>1, <2>2
      <3> QED
        BY <3>1
    <2>3. CASE ~(j < n)
      <3>1. r[j] = s[j + 1] /\ r[k] = s[k + 1] /\ j + 1 < k + 1
        BY <1>1, <2>3
      <3> QED
        BY <3>1
    <2> QED
      BY <2>1, <2>2, <2>3, Zenon
  <1> QED
    BY <1>2 DEF InOrder

\* Taking the first task leaves the others in their order.
LEMMA TailOrdered ==
  ASSUME NEW S, NEW s \in Seq(S), NEW p, s # <<>>, InOrder(p, s)
  PROVE  InOrder(p, Tail(s))
  <1>1. /\ Len(Tail(s)) = Len(s) - 1
        /\ \A j \in 1 .. Len(s) - 1 : Tail(s)[j] = s[j + 1]
    OBVIOUS
  <1> QED
    BY <1>1 DEF InOrder

\* Where a new task goes, with p the priorities so far and q those with its own.
Fits(p, q, s, n, e) ==
    /\ \A j \in 1 .. Len(s) : s[j] < e /\ q[s[j]] = p[s[j]]
    /\ \A j \in 1 .. n - 1 : p[s[j]] >= q[e]
    /\ \A j \in n .. Len(s) : p[s[j]] < q[e]

\* A task with the highest id yet, emplaced behind those of its priority and in
\* front of lower ones, keeps the order.
LEMMA EmplaceOrdered ==
  ASSUME NEW S \in SUBSET Int, NEW s \in Seq(S), NEW e \in S, NEW n \in 1 .. Len(s) + 1,
         NEW p \in [S -> Int], NEW q \in [S -> Int], InOrder(p, s), Fits(p, q, s, n, e)
  PROVE  InOrder(q, InsertAt(s, n, e))
  <1> DEFINE r == InsertAt(s, n, e)
  <1> USE DEF Fits
  <1>0. /\ \A x \in S : p[x] \in Int /\ q[x] \in Int
        /\ \A j \in 1 .. Len(s) : s[j] \in S
    OBVIOUS
  <1>1. /\ r \in Seq(S) /\ Len(r) = Len(s) + 1
        /\ \A j \in 1 .. n - 1 : r[j] = s[j]
        /\ r[n] = e
        /\ \A j \in n .. Len(s) : r[j + 1] = s[j]
    BY InsertAtProperties
  <1> HIDE DEF r
  <1>2. ASSUME NEW j \in 1 .. Len(s) + 1, j > n
        PROVE  \E m \in n .. Len(s) : j = m + 1 /\ r[j] = s[m]
    <2>1. j - 1 \in n .. Len(s) /\ j = (j - 1) + 1
      BY <1>2
    <2> QED
      BY <1>1, <2>1
  <1> SUFFICES ASSUME NEW j \in 1 .. Len(s) + 1, NEW k \in 1 .. Len(s) + 1, j < k
               PROVE  q[r[j]] > q[r[k]] \/ (q[r[j]] = q[r[k]] /\ r[j] < r[k])
    BY <1>1 DEF InOrder, r
  <1>3. CASE k < n
    <2>1. r[j] = s[j] /\ r[k] = s[k] /\ j \in 1 .. Len(s) /\ k \in 1 .. Len(s)
      BY <1>1, <1>3
    <2> QED
      BY <2>1 DEF InOrder
  <1>4. CASE k = n
    <2>1. r[j] = s[j] /\ r[k] = e /\ j \in 1 .. n - 1 /\ j \in 1 .. Len(s)
      BY <1>1, <1>4
    <2>2. p[s[j]] \in Int /\ q[e] \in Int
      BY <1>0, <2>1, Zenon
    <2> QED
      BY <2>1, <2>2
  <1>5. CASE j < n /\ k > n
    <2>1. PICK m \in n .. Len(s) : k = m + 1 /\ r[k] = s[m]
      BY <1>2, <1>5
    <2>2. r[j] = s[j] /\ j < m /\ j \in 1 .. Len(s) /\ m \in 1 .. Len(s)
      BY <1>1, <1>5, <2>1
    <2> QED
      BY <2>1, <2>2 DEF InOrder
  <1>6. CASE j = n
    <2>1. PICK m \in n .. Len(s) : k = m + 1 /\ r[k] = s[m]
      BY <1>2, <1>6
    <2>2. m \in 1 .. Len(s)
      OBVIOUS
    <2>3. p[s[m]] \in Int /\ q[e] \in Int
      BY <1>0, <2>2, Zenon
    <2> QED
      BY <1>1, <1>6, <2>1, <2>2, <2>3
  <1>7. CASE j > n
    <2>1. PICK m \in n .. Len(s) : k = m + 1 /\ r[k] = s[m]
      BY <1>2, <1>7
    <2>2. PICK i \in n .. Len(s) : j = i + 1 /\ r[j] = s[i]
      BY <1>2, <1>7
    <2> QED
      BY <2>1, <2>2 DEF InOrder
  <1> QED
    BY <1>3, <1>4, <1>5, <1>6, <1>7

\* Every step of the pool keeps the queue in order.
LEMMA NextOrdered == IInv /\ QueueOrdered /\ [Next]_vars => QueueOrdered'
  <1> SUFFICES ASSUME IInv, QueueOrdered, [Next]_vars PROVE QueueOrdered'
    OBVIOUS
  <1>1. InOrder(priority, tasks) /\ tasks \in Seq(TaskId)
    BY DEF QueueOrdered, InOrder, IInv, TypeOK
  <1>2. ASSUME InOrder(priority', tasks') PROVE QueueOrdered'
    BY <1>2 DEF QueueOrdered, InOrder
  <1>3. ASSUME UNCHANGED <<tasks, priority>> PROVE QueueOrdered'
    BY <1>1, <1>2, <1>3, Zenon
  <1>4. ASSUME NEW t \in Callers, NEW p \in Priorities, SubmitTask(t, p) PROVE QueueOrdered'
    <2> DEFINE new == nextTaskId
    <2>1. PICK m \in 0 .. Len(tasks) :
             /\ \A j \in 1 .. m : priority[tasks[j]] >= p
             /\ \A j \in m + 1 .. Len(tasks) : priority[tasks[j]] < p
             /\ tasks' = InsertAt(tasks, m + 1, new)
      BY <1>4 DEF SubmitTask, Emplace
    <2>2. new \in TaskId /\ priority' = [priority EXCEPT ![new] = p]
      BY <1>4 DEF SubmitTask
    <2>3. \A j \in 1 .. Len(tasks) : tasks[j] \in TaskId /\ tasks[j] < new
      <3>1. \A j \in 1 .. Len(tasks) : tasks[j] \in idMap /\ tasks[j] \in TaskId
        BY <1>1, SequenceRange DEF IInv, IndexMatchesQueue
      <3> QED
        BY <2>2, <3>1 DEF IInv, Unborn, TaskId
    <2>4. TaskId \in SUBSET Int /\ priority \in [TaskId -> Int] /\ p \in Int
      BY PoolAssumption DEF TaskId, IInv, TypeOK, Priority
    <2>5. priority' \in [TaskId -> Int] /\ priority'[new] = p
      BY <2>2, <2>4
    <2>6. \A j \in 1 .. Len(tasks) : tasks[j] < new /\ priority'[tasks[j]] = priority[tasks[j]]
      BY <2>2, <2>3, <2>4 DEF TaskId
    <2>7. m + 1 \in 1 .. Len(tasks) + 1 /\ (m + 1) - 1 = m
      BY <1>1
    <2>8. Fits(priority, priority', tasks, m + 1, new)
      BY <2>1, <2>5, <2>6, <2>7 DEF Fits
    <2>9. InOrder(priority', InsertAt(tasks, m + 1, new))
      BY <1>1, <2>2, <2>4, <2>5, <2>7, <2>8, EmplaceOrdered, Zenon
    <2> QED
      BY <1>2, <2>1, <2>9
  <1>5. ASSUME NEW id \in TaskId, CancelTask(id), UNCHANGED priority PROVE QueueOrdered'
    <2>1. CASE id \in idMap
      <3>1. PICK k \in 1 .. Len(tasks) : tasks' = RemoveAt(tasks, k)
        BY <1>5, <2>1 DEF CancelTask
      <3> QED
        BY <1>1, <1>2, <1>5, <3>1, EraseOrdered
    <2>2. CASE id \notin idMap
      BY <1>3, <1>5, <2>2 DEF CancelTask
    <2> QED
      BY <2>1, <2>2
  <1>6. ASSUME NEW w \in Workers, DequeueTask(w) PROVE QueueOrdered'
    BY <1>1, <1>2, <1>6, TailOrdered DEF DequeueTask, PopFront
  <1>7. CASE Shutdown
    BY <1>7 DEF Shutdown, QueueOrdered
  <1>8. ASSUME NEW t \in Callers, ClientStep(t) PROVE QueueOrdered'
    <2>1. ASSUME NEW i \in TaskId, Cancel(t, i) \/ FutureDestroy(t, i) PROVE QueueOrdered'
      BY <1>5, <2>1 DEF Cancel, FutureDestroy
    <2>2. CASE NotifyOne(t) \/ FutureReady(t) \/ \E i \in TaskId : FutureGet(t, i) \/ FutureRelease(t, i)
      BY <1>3, <2>2 DEF NotifyOne, FutureReady, FutureGet, FutureRelease, queueVars
    <2> QED
      BY <1>4, <1>8, <2>1, <2>2 DEF ClientStep
  <1>9. ASSUME NEW w \in Workers, WorkerStep(w) PROVE QueueOrdered'
    BY <1>3, <1>6, <1>9, Zenon
    DEF WorkerStep, DequeueWait, DequeueExit, SpuriousWakeup, FinishTask, queueVars
  <1>10. CASE DtorStep
    BY <1>3, <1>7, <1>10, Zenon
    DEF DtorStep, NotifyAll, CancelSwapped, SwappedDone, Join, FailLate, Destroyed, queueVars
  <1>11. CASE UNCHANGED vars
    BY <1>3, <1>11 DEF vars
  <1> QED
    BY <1>8, <1>9, <1>10, <1>11 DEF Next, Terminated

\* The index and the queue agree, and the queue is always in the order in which
\* Schedule promises to run its tasks: by priority, and within a priority as they
\* were submitted (Queue::tasks, Queue::idMap).
THEOREM QueueIsConsistent == Spec => []QueueConsistent
  <1>1. Init => QueueOrdered
    BY DEF Init, QueueOrdered
  <1>2. IInv /\ QueueOrdered => QueueConsistent
    BY DEF IInv, QueueConsistent
  <1> QED
    BY <1>1, <1>2, NextOrdered, Invariance, PTL DEF Spec

-----------------------------------------------------------------------------
(***************************************************************************)
(* The pool implements TaskService.                                        *)
(***************************************************************************)

\* A step after which one task has another life and the others have the same.
LEMMA OneMoves ==
  ASSUME NEW i \in TaskId, NEW from, NEW to,
         Life(i) = from, Life(i)' = to,
         \A j \in TaskId : j # i => Life(j)' = Life(j)
  PROVE  Service!Move(i, from, to)
  BY Zenon DEF Service!Move, TaskId

\* A step that gives no result, starts no task and accepts none is not seen.
LEMMA NothingMoves ==
  ASSUME UNCHANGED <<nextTaskId, result, current>>
  PROVE  \A j \in TaskId : Life(j)' = Life(j)
  BY DEF Life

\* A task that is queued, or that the destructor took out of the queue and has
\* not come to yet, is pending, and giving it up cancels it.
LEMMA GivingUpCancels ==
  ASSUME IInv, NEW i \in TaskId, i < nextTaskId, result[i] = "none",
         \A w \in Workers : current[w] # i,
         result' = [result EXCEPT ![i] = "cancelled"],
         UNCHANGED <<nextTaskId, current>>
  PROVE  Service!Cancel(i)
  <1>1. result \in [TaskId -> Result] /\ nextTaskId \in Int
    BY DEF IInv, TypeOK
  <1>2. Life(i) = "pending" /\ Life(i)' = "cancelled"
    BY <1>1 DEF Life, TaskId
  <1>3. \A j \in TaskId : j # i => Life(j)' = Life(j)
    BY <1>1 DEF Life
  <1> QED
    BY <1>2, <1>3, OneMoves DEF Service!Cancel

\* Every step of the pool is a step of TaskService or is not seen there.
LEMMA NextServes == IInv /\ [Next]_vars => [Service!Next]_([i \in TaskId |-> Life(i)])
  <1> DEFINE Serves == [Service!Next]_([i \in TaskId |-> Life(i)])
  <1> SUFFICES ASSUME IInv, [Next]_vars PROVE Serves
    OBVIOUS
  <1> USE DEF IInv
  <1>1. ASSUME UNCHANGED <<nextTaskId, result, current>> PROVE Serves
    BY <1>1, NothingMoves
  <1>2. ASSUME NEW i \in TaskId,
               Service!Accept(i) \/ Service!Start(i) \/ Service!Return(i) \/ Service!Cancel(i)
        PROVE  Serves
    BY <1>2 DEF Service!Next, TaskId, Service!TaskId
  <1> HIDE DEF Serves
  <1>3. /\ nextTaskId \in Int /\ result \in [TaskId -> Result]
        /\ current \in [Workers -> TaskId \cup {NoTask}] /\ NoTask \notin TaskId
        /\ tasks \in Seq(TaskId) /\ swapped \in Seq(TaskId) /\ pos \in Nat
    BY DEF TypeOK, NoTask, TaskId
  <1>4. ASSUME NEW t \in Callers, NEW p \in Priorities, SubmitTask(t, p) PROVE Serves
    <2>1. PICK new \in TaskId :
             nextTaskId = new /\ nextTaskId' = new + 1 /\ result' = result /\ current' = current
      BY <1>4 DEF SubmitTask, workVars
    <2>2. result[new] = "none" /\ \A w \in Workers : current[w] # new
      BY <1>3, <2>1 DEF Unborn
    <2>3. Life(new) = "unborn" /\ Life(new)' = "pending"
      BY <1>3, <2>1, <2>2 DEF Life
    <2>4. \A j \in TaskId : j # new => Life(j)' = Life(j)
      BY <1>3, <2>1 DEF Life, TaskId
    <2>5. Service!Move(new, "unborn", "pending")
      BY <2>1, <2>3, <2>4, OneMoves
    <2>6. ASSUME NEW j \in 1 .. new - 1 PROVE j \in TaskId /\ Life(j) # "unborn"
      <3>1. j \in TaskId /\ ~(j >= nextTaskId)
        BY <1>3, <2>1, PoolAssumption DEF TaskId
      <3>2. result[j] # "unborn"
        BY <1>3, <3>1 DEF Result
      <3> QED
        BY <3>1, <3>2 DEF Life
    <2>7. Service!Accept(new)
      BY <2>5, <2>6 DEF Service!Accept
    <2> QED
      BY <1>2, <2>1, <2>7
  <1>5. ASSUME NEW id \in TaskId, CancelTask(id), UNCHANGED <<nextTaskId, current>>,
               dtor \notin {"late", "destroyed"}
        PROVE  Serves
    <2>1. CASE id \notin idMap
      BY <1>1, <1>5, <2>1 DEF CancelTask
    <2>2. CASE id \in idMap
      <3>1. \A w \in Workers : current[w] # id
        BY <1>3, <2>2 DEF OneOwner
      <3>2. id < nextTaskId
        BY <1>3, <2>2 DEF Unborn, TaskId
      <3>3. PICK k \in 1 .. Len(tasks) : tasks[k] = id
        BY <1>5, <2>2 DEF CancelTask
      <3>4. result[id] = "none"
        BY <1>5, <3>3 DEF QueuedUnsettled
      <3>5. result' = [result EXCEPT ![id] = "cancelled"]
        BY <1>5, <2>2, <3>4 DEF CancelTask, Complete
      <3> QED
        BY <1>2, <1>5, <3>1, <3>2, <3>4, <3>5, GivingUpCancels, Zenon
    <2> QED
      BY <2>1, <2>2
  <1>6. ASSUME NEW t \in Callers, ClientStep(t) PROVE Serves
    <2>1. ASSUME NEW i \in TaskId, Cancel(t, i) \/ FutureDestroy(t, i) PROVE Serves
      <3>1. CanCall(t) /\ CancelTask(i) /\ UNCHANGED <<nextTaskId, current>>
        BY <2>1 DEF Cancel, FutureDestroy, workVars
      <3>2. dtor \notin {"late", "destroyed"}
        BY <3>1 DEF CanCall, Callers, DtorConsistent
      <3> QED
        BY <1>5, <3>1, <3>2
    <2>2. CASE NotifyOne(t) \/ FutureReady(t) \/ \E i \in TaskId : FutureGet(t, i) \/ FutureRelease(t, i)
      BY <1>1, <2>2
      DEF NotifyOne, FutureReady, FutureGet, FutureRelease, queueVars, futureVars, workVars
    <2> QED
      BY <1>4, <1>6, <2>1, <2>2 DEF ClientStep
  <1>7. ASSUME NEW w \in Workers, DequeueTask(w) PROVE Serves
    <2>1. /\ tasks # <<>> /\ dtor = "none" /\ worker[w] = "dequeue"
          /\ UNCHANGED <<nextTaskId, result>>
          /\ current' = [current EXCEPT ![w] = Head(tasks)]
      BY <1>7 DEF DequeueTask, DtorConsistent, futureVars
    <2>2. PICK id \in TaskId : 1 \in 1 .. Len(tasks) /\ Head(tasks) = id /\ tasks[1] = id
      BY <1>3, <2>1
    <2>3. id \in idMap /\ result[id] = "none" /\ current[w] = NoTask
      BY <1>3, <2>1, <2>2, SequenceRange
      DEF IndexMatchesQueue, QueuedUnsettled, WorkersConsistent
    <2>4. id < nextTaskId /\ \A v \in Workers : current[v] # id
      BY <1>3, <2>2, <2>3 DEF Unborn, OneOwner, TaskId
    <2>5. Life(id) = "pending" /\ Life(id)' = "running"
      BY <1>3, <2>1, <2>2, <2>3, <2>4 DEF Life, TaskId
    <2>6. \A j \in TaskId : j # id => Life(j)' = Life(j)
      BY <1>3, <2>1, <2>2, <2>3 DEF Life
    <2>7. Service!Start(id)
      BY <2>2, <2>5, <2>6, OneMoves DEF Service!Start
    <2> QED
      BY <1>2, <2>2, <2>7
  <1>8. ASSUME NEW w \in Workers, FinishTask(w) PROVE Serves
    <2>1. /\ worker[w] = "running" /\ UNCHANGED nextTaskId
          /\ current' = [current EXCEPT ![w] = NoTask]
          /\ Complete(current[w], "value")
      BY <1>8 DEF FinishTask, queueVars
    <2>2. PICK id \in TaskId :
             /\ current[w] = id /\ result[id] = "none"
             /\ \A v \in Workers : current[v] = id => v = w
      BY <1>3, <2>1 DEF WorkersConsistent, OneOwner
    <2>3. result' = [result EXCEPT ![id] = "value"]
      BY <2>1, <2>2 DEF Complete
    <2>4. id < nextTaskId
      BY <1>3, <2>2 DEF Unborn, TaskId
    <2>5. Life(id) = "running" /\ Life(id)' = "value"
      BY <1>3, <2>1, <2>2, <2>3, <2>4 DEF Life, TaskId
    <2>6. \A j \in TaskId : j # id => Life(j)' = Life(j)
      BY <1>3, <2>1, <2>2, <2>3 DEF Life
    <2>7. Service!Return(id)
      BY <2>2, <2>5, <2>6, OneMoves DEF Service!Return
    <2> QED
      BY <1>2, <2>2, <2>7
  <1>9. ASSUME NEW w \in Workers, WorkerStep(w) PROVE Serves
    BY <1>1, <1>7, <1>8, <1>9
    DEF WorkerStep, DequeueWait, DequeueExit, SpuriousWakeup, queueVars, futureVars
  <1>10. CASE CancelSwapped
    <2>1. dtor = "cancel" /\ pos < Len(swapped) /\ UNCHANGED <<nextTaskId, current>>
          /\ Complete(swapped[pos + 1], "cancelled")
      BY <1>10 DEF CancelSwapped, queueVars, workVars
    <2>2. PICK id \in TaskId : pos + 1 \in 1 .. Len(swapped) /\ pos + 1 > pos /\ swapped[pos + 1] = id
      BY <1>3, <2>1
    <2>3. result[id] = "none" /\ \A w \in Workers : current[w] # id
      BY <2>1, <2>2 DEF SwappedUnsettled
    <2>4. id < nextTaskId
      BY <1>3, <2>2 DEF Unborn, TaskId
    <2>5. result' = [result EXCEPT ![id] = "cancelled"]
      BY <2>1, <2>2, <2>3 DEF Complete
    <2> QED
      BY <1>2, <2>1, <2>2, <2>3, <2>4, <2>5, GivingUpCancels, Zenon
  <1>11. CASE FailLate
    <2>1. dtor = "late" /\ pos < Len(tasks) /\ UNCHANGED <<nextTaskId, current>>
          /\ Complete(tasks[pos + 1], "cancelled")
      BY <1>11 DEF FailLate, queueVars, workVars
    <2>2. PICK id \in TaskId : pos + 1 \in 1 .. Len(tasks) /\ ~(pos + 1 <= pos) /\ tasks[pos + 1] = id
      BY <1>3, <2>1
    <2>3. id \in idMap /\ result[id] = "none"
      BY <1>3, <2>1, <2>2, SequenceRange DEF IndexMatchesQueue, QueuedUnsettled
    <2>4. id < nextTaskId /\ \A w \in Workers : current[w] # id
      BY <1>3, <2>2, <2>3 DEF Unborn, OneOwner, TaskId
    <2>5. result' = [result EXCEPT ![id] = "cancelled"]
      BY <2>1, <2>2, <2>3 DEF Complete
    <2> QED
      BY <1>2, <2>1, <2>2, <2>3, <2>4, <2>5, GivingUpCancels, Zenon
  <1>12. CASE DtorStep
    BY <1>1, <1>10, <1>11, <1>12
    DEF DtorStep, Shutdown, NotifyAll, SwappedDone, Join, Destroyed, queueVars, futureVars, workVars
  <1>13. CASE UNCHANGED vars
    BY <1>1, <1>13 DEF vars
  <1> QED
    BY <1>6, <1>9, <1>12, <1>13 DEF Next, Terminated

\* The pool implements TaskService: it accepts tasks in the order of their ids,
\* runs one at most once, never runs one that was cancelled, never cancels one that
\* was started, and a result is final, for every number of threads and tasks.
THEOREM Refinement == Spec => ImplementsTaskService
  <1>1. Init => Service!Init
    BY DEF Init, Service!Init, Life, TaskId, Service!TaskId
  <1> QED
    BY <1>1, NextServes, Invariance, PTL DEF Spec, ImplementsTaskService, Service!Spec
=============================================================================
