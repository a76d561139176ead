------------------------------ MODULE ThreadPool ------------------------------
(***************************************************************************)
(* Fusion::ThreadPool (Thread.cpp, Thread.h, Impl/Thread.h): the priority  *)
(* queue of tasks and its index by id, the worker threads that wait on its *)
(* condition variable, Await/SubmitTask, Cancel, the Future handed to the  *)
(* caller, and the destructor that shuts all of it down.                   *)
(*                                                                         *)
(* A block of code that runs under the queue's mutex is one action: every  *)
(* such block is short and none of them waits for another thread.  What    *)
(* the code does outside the mutex (notify_one, notify_all, the loops of   *)
(* the destructor, a task's own function) is a step of its own, because    *)
(* any other thread may come in between.                                   *)
(*                                                                         *)
(* Tasks are functions of the user.  While a worker runs one it may do     *)
(* what any other thread does with the pool: submit, cancel, hold futures, *)
(* destroy them.  Whether it may also block in future.get() is the         *)
(* constant BlockingTasks.                                                 *)
(***************************************************************************)
EXTENDS Integers, Sequences, FiniteSets, Positions

CONSTANTS
    Threads,              \* Options::threads
    HardwareConcurrency,  \* std::thread::hardware_concurrency()
    MaxThreads,           \* Options::maxThreads
    Clients,              \* the threads outside the pool that use it
    Priorities,           \* the priorities that are used
    MaxTasks,             \* bound: the number of tasks ever submitted
    BlockingTasks         \* may the function of a task call future.get()?

\* ThreadPool::Priority: Low, Normal, High.
Priority == 0 .. 2

ASSUME PoolAssumption ==
    /\ Threads \in Nat
    /\ HardwareConcurrency \in Nat
    /\ MaxThreads \in 1 .. 255
    /\ Priorities \subseteq Priority
    /\ MaxTasks \in Nat
    /\ BlockingTasks \in BOOLEAN

Clamp(x, low, high) == IF x < low THEN low ELSE IF high < x THEN high ELSE x

\* The constructor's thread count.  A request of n > 0 threads is answered
\* with as many as the machine has; a request of none is taken literally.
threadCount ==
    IF Threads # 0 THEN Clamp(HardwareConcurrency, 1, MaxThreads) ELSE Threads

Workers == 1 .. threadCount

ASSUME ClientsAssumption == Clients \cap Int = {}

Callers == Workers \cup Clients

TaskId == 1 .. MaxTasks

NoTask == 0

Nobody == -1

VARIABLES
    nextTaskId,  \* Queue::nextTaskId
    tasks,       \* Queue::tasks, the ids in the order of the multimap
    idMap,       \* Queue::idMap, the ids it has an iterator for
    running,     \* Queue::running
    priority,    \* [TaskId -> Priority]: the key of the task in the multimap
    result,      \* [TaskId -> Result]: what the task's promise holds
    holder,      \* [TaskId -> thread whose Future of the task is valid]
    worker,      \* [Workers -> control state of RunThread/DequeueTask]
    current,     \* [Workers -> the task it has dequeued, or NoTask]
    calling,     \* [Callers -> what the thread is doing in the pool's API]
    target,      \* [Callers -> the task it waits for, or NoTask]
    dtor,        \* control state of ~ThreadPool
    swapped,     \* the destructor's local map of tasks
    pos          \* the position of the destructor's current loop

vars == <<nextTaskId, tasks, idMap, running, priority, result, holder, worker,
          current, calling, target, dtor, swapped, pos>>

queueVars  == <<nextTaskId, tasks, idMap, running, priority>>
futureVars == <<result, holder>>
callVars   == <<calling, target>>
workVars   == <<worker, current>>
dtorVars   == <<dtor, swapped, pos>>

\* "satisfied" is the future_error of setting a promise a second time.
Result == {"none", "value", "cancelled", "satisfied"}

WorkerState == {"dequeue", "waiting", "running", "exited"}

CallState == {"none", "notify", "get"}

DtorState == {"none", "notify", "cancel", "join", "late", "destroyed"}

\* Mutant: ids start at zero.
Init_ZeroId ==
    /\ nextTaskId = 0
    /\ tasks = <<>>
    /\ idMap = {}
    /\ running = TRUE
    /\ priority = [i \in TaskId |-> 0]
    /\ result = [i \in TaskId |-> "none"]
    /\ holder = [i \in TaskId |-> Nobody]
    /\ worker = [w \in Workers |-> "dequeue"]
    /\ current = [w \in Workers |-> NoTask]
    /\ calling = [t \in Callers |-> "none"]
    /\ target = [t \in Callers |-> NoTask]
    /\ dtor = "none"
    /\ swapped = <<>>
    /\ pos = 0

\* The constructor: an empty queue and its threads, all of them started.
Init ==
    /\ nextTaskId = 1
    /\ tasks = <<>>
    /\ idMap = {}
    /\ running = TRUE
    /\ priority = [i \in TaskId |-> 0]
    /\ result = [i \in TaskId |-> "none"]
    /\ holder = [i \in TaskId |-> Nobody]
    /\ worker = [w \in Workers |-> "dequeue"]
    /\ current = [w \in Workers |-> NoTask]
    /\ calling = [t \in Callers |-> "none"]
    /\ target = [t \in Callers |-> NoTask]
    /\ dtor = "none"
    /\ swapped = <<>>
    /\ pos = 0

-----------------------------------------------------------------------------
(***************************************************************************)
(* The pieces the operations are made of.                                  *)
(***************************************************************************)

\* The CompletionHandler of Await: it sets the promise of the task.
Complete(i, value) ==
    result' = [result EXCEPT ![i] = IF @ = "none" THEN value ELSE "satisfied"]

\* Mutant: inserted in front of the tasks of the same priority.
Emplace_LowerBound(id, p) ==
    \E k \in 0 .. Len(tasks) :
        /\ \A j \in 1 .. k : priority[tasks[j]] > p
        /\ \A j \in k + 1 .. Len(tasks) : priority[tasks[j]] <= p
        /\ tasks' = InsertAt(tasks, k + 1, id)

\* multimap::emplace with std::greater: behind every task of at least this
\* priority, in front of the others.
Emplace(id, p) ==
    \E k \in 0 .. Len(tasks) :
        /\ \A j \in 1 .. k : priority[tasks[j]] >= p
        /\ \A j \in k + 1 .. Len(tasks) : priority[tasks[j]] < p
        /\ tasks' = InsertAt(tasks, k + 1, id)

\* Mutant: the id is left in the index.
\* Mutant: the first task is copied, not extracted.
\* Queue::PopFront.
PopFront ==
    /\ tasks' = Tail(tasks)
    /\ idMap' = idMap \ {Head(tasks)}

\* Mutant: the task stays in the queue.
CancelTask_NoErase(id) ==
    IF id \in idMap
    THEN /\ idMap' = idMap \ {id}
         /\ Complete(id, "cancelled")
         /\ UNCHANGED tasks
    ELSE UNCHANGED <<idMap, result, tasks>>

\* Mutant: a task that is already being run is reported as cancelled.
CancelTask_Running(id) ==
    IF \E w \in Workers : current[w] = id
    THEN /\ Complete(id, "cancelled")
         /\ UNCHANGED <<idMap, tasks>>
    ELSE UNCHANGED <<idMap, result, tasks>>

\* The body of ThreadPool::Cancel, under the mutex.  The completer is called
\* before the task is erased.
CancelTask(id) ==
    IF id \in idMap
    THEN /\ idMap' = idMap \ {id}
         /\ Complete(id, "cancelled")
         /\ \E k \in 1 .. Len(tasks) :
                tasks[k] = id /\ tasks' = RemoveAt(tasks, k)
    ELSE UNCHANGED <<idMap, result, tasks>>

\* A worker is in the user's code only while it runs a task.  A client makes
\* no calls on a pool whose destructor has joined its threads.
CanCall(t) ==
    /\ calling[t] = "none"
    /\ t \in Workers => worker[t] = "running"
    /\ t \in Clients => dtor \notin {"late", "destroyed"}

-----------------------------------------------------------------------------
(***************************************************************************)
(* The interface: Await, Cancel and the operations of a Future.            *)
(***************************************************************************)

\* Await up to the unlock in SubmitTask.
SubmitTask(t, p) ==
    /\ CanCall(t)
    /\ nextTaskId \in TaskId
    /\ nextTaskId' = nextTaskId + 1
    /\ Emplace(nextTaskId, p)
    /\ idMap' = idMap \cup {nextTaskId}
    /\ priority' = [priority EXCEPT ![nextTaskId] = p]
    /\ holder' = [holder EXCEPT ![nextTaskId] = t]
    /\ calling' = [calling EXCEPT ![t] = "notify"]
    /\ UNCHANGED <<running, result, target, workVars, dtorVars>>

\* Mutant: nobody is notified.
NotifyOne_Lost(t) ==
    /\ calling[t] = "notify"
    /\ calling' = [calling EXCEPT ![t] = "none"]
    /\ UNCHANGED <<queueVars, futureVars, target, workVars, dtorVars>>

\* notify_one at the end of SubmitTask: one of the waiting workers, if any.
NotifyOne(t) ==
    /\ calling[t] = "notify"
    /\ calling' = [calling EXCEPT ![t] = "none"]
    /\ LET waiting == {w \in Workers : worker[w] = "waiting"}
       IN  IF waiting = {}
           THEN UNCHANGED worker
           ELSE \E w \in waiting : worker' = [worker EXCEPT ![w] = "dequeue"]
    /\ UNCHANGED <<queueVars, futureVars, target, current, dtorVars>>

\* ThreadPool::Cancel; also Future::Cancel, which calls it with its own id.
Cancel(t, id) ==
    /\ CanCall(t)
    /\ id < nextTaskId
    /\ CancelTask(id)
    /\ UNCHANGED <<nextTaskId, running, priority, holder, workVars, callVars,
                   dtorVars>>

\* future.get() or future.wait() of the std::future inside: the pool is not
\* involved, the thread sleeps until the promise is set.
FutureGet(t, id) ==
    /\ calling[t] = "none"
    /\ t \in Workers => worker[t] = "running" /\ BlockingTasks
    /\ holder[id] = t
    /\ calling' = [calling EXCEPT ![t] = "get"]
    /\ target' = [target EXCEPT ![t] = id]
    /\ UNCHANGED <<queueVars, futureVars, workVars, dtorVars>>

\* ~Future of a valid future: Cancel, then wait.
FutureDestroy(t, id) ==
    /\ CanCall(t)
    /\ holder[id] = t
    /\ CancelTask(id)
    /\ calling' = [calling EXCEPT ![t] = "get"]
    /\ target' = [target EXCEPT ![t] = id]
    /\ UNCHANGED <<nextTaskId, running, priority, holder, workVars, dtorVars>>

\* The wait of FutureGet or FutureDestroy ends.
FutureReady(t) ==
    /\ calling[t] = "get"
    /\ result[target[t]] # "none"
    /\ calling' = [calling EXCEPT ![t] = "none"]
    /\ target' = [target EXCEPT ![t] = NoTask]
    /\ holder' = [holder EXCEPT ![target[t]] = Nobody]
    /\ UNCHANGED <<queueVars, result, workVars, dtorVars>>

\* Future::Release, and the std::future it returns is dropped.
FutureRelease(t, id) ==
    /\ calling[t] = "none"
    /\ t \in Workers => worker[t] = "running"
    /\ holder[id] = t
    /\ holder' = [holder EXCEPT ![id] = Nobody]
    /\ UNCHANGED <<queueVars, result, workVars, callVars, dtorVars>>

-----------------------------------------------------------------------------
(***************************************************************************)
(* The worker threads: RunThread and DequeueTask.                          *)
(***************************************************************************)

\* The predicate of cond.wait is false: the worker sleeps.
DequeueWait(w) ==
    /\ worker[w] = "dequeue"
    /\ tasks = <<>> /\ running
    /\ worker' = [worker EXCEPT ![w] = "waiting"]
    /\ UNCHANGED <<queueVars, futureVars, current, callVars, dtorVars>>

\* DequeueTask returns nullopt and RunThread's loop ends.
DequeueExit(w) ==
    /\ worker[w] = "dequeue"
    /\ ~running
    /\ worker' = [worker EXCEPT ![w] = "exited"]
    /\ UNCHANGED <<queueVars, futureVars, current, callVars, dtorVars>>

DequeueTask(w) ==
    /\ worker[w] = "dequeue"
    /\ tasks # <<>> /\ running
    /\ PopFront
    /\ worker' = [worker EXCEPT ![w] = "running"]
    /\ current' = [current EXCEPT ![w] = Head(tasks)]
    /\ UNCHANGED <<nextTaskId, running, priority, futureVars, callVars, dtorVars>>

\* The wait on the condition variable may end for no reason.
SpuriousWakeup(w) ==
    /\ worker[w] = "waiting"
    /\ worker' = [worker EXCEPT ![w] = "dequeue"]
    /\ UNCHANGED <<queueVars, futureVars, current, callVars, dtorVars>>

\* The function of the task returns (every Future on its stack is gone by
\* then) and the wrapper that Await put around it calls the completer.
FinishTask(w) ==
    /\ worker[w] = "running"
    /\ calling[w] = "none"
    /\ \A i \in TaskId : holder[i] # w
    /\ Complete(current[w], "value")
    /\ worker' = [worker EXCEPT ![w] = "dequeue"]
    /\ current' = [current EXCEPT ![w] = NoTask]
    /\ UNCHANGED <<queueVars, holder, callVars, dtorVars>>

-----------------------------------------------------------------------------
(***************************************************************************)
(* ~ThreadPool.                                                            *)
(***************************************************************************)

\* Mutant: the queue is cleared, what was in it is forgotten.
\* The block under the mutex.
Shutdown ==
    /\ dtor = "none"
    /\ dtor' = "notify"
    /\ running' = FALSE
    /\ swapped' = tasks
    /\ tasks' = <<>>
    /\ idMap' = {}
    /\ UNCHANGED <<nextTaskId, priority, futureVars, workVars, callVars, pos>>

\* Mutant: the sleeping workers are not notified.
NotifyAll_Lost ==
    /\ dtor = "notify"
    /\ dtor' = "cancel"
    /\ UNCHANGED <<queueVars, futureVars, workVars, callVars, swapped, pos>>

\* notify_all: every sleeping worker looks at the queue again.
NotifyAll ==
    /\ dtor = "notify"
    /\ dtor' = "cancel"
    /\ worker' = [w \in Workers |->
                     IF worker[w] = "waiting" THEN "dequeue" ELSE worker[w]]
    /\ UNCHANGED <<queueVars, futureVars, current, callVars, swapped, pos>>

\* One turn of the loop over the tasks that were swapped out.
CancelSwapped ==
    /\ dtor = "cancel"
    /\ pos < Len(swapped)
    /\ Complete(swapped[pos + 1], "cancelled")
    /\ pos' = pos + 1
    /\ UNCHANGED <<queueVars, holder, workVars, callVars, dtor, swapped>>

SwappedDone ==
    /\ dtor = "cancel"
    /\ pos = Len(swapped)
    /\ dtor' = "join"
    /\ UNCHANGED <<queueVars, futureVars, workVars, callVars, swapped, pos>>

\* Every thread has been joined.  A client that is still inside SubmitTask
\* would be left with a dangling pool: the owner of the pool rules that out.
Join ==
    /\ dtor = "join"
    /\ \A w \in Workers : worker[w] = "exited"
    /\ \A t \in Clients : calling[t] # "notify"
    /\ dtor' = "late"
    /\ pos' = 0
    /\ UNCHANGED <<queueVars, futureVars, workVars, callVars, swapped>>

\* One turn of the loop that fails the tasks that came in meanwhile.
FailLate ==
    /\ dtor = "late"
    /\ pos < Len(tasks)
    /\ Complete(tasks[pos + 1], "cancelled")
    /\ pos' = pos + 1
    /\ UNCHANGED <<queueVars, holder, workVars, callVars, dtor, swapped>>

\* Mutant: the late tasks are not looked at.
Destroyed_SkipsLate ==
    /\ dtor = "late"
    /\ dtor' = "destroyed"
    /\ UNCHANGED <<queueVars, futureVars, workVars, callVars, swapped, pos>>

\* The destructor returns and the queue is gone.
Destroyed ==
    /\ dtor = "late"
    /\ pos = Len(tasks)
    /\ dtor' = "destroyed"
    /\ UNCHANGED <<queueVars, futureVars, workVars, callVars, swapped, pos>>

-----------------------------------------------------------------------------
\* The pool is gone and nobody waits for anything.
Terminated ==
    /\ dtor = "destroyed"
    /\ \A t \in Callers : calling[t] = "none"
    /\ UNCHANGED vars

ClientStep(t) ==
    \/ \E p \in Priorities : SubmitTask(t, p)
    \/ NotifyOne(t)
    \/ \E i \in TaskId : \/ Cancel(t, i)
                         \/ FutureGet(t, i)
                         \/ FutureDestroy(t, i)
                         \/ FutureRelease(t, i)
    \/ FutureReady(t)

WorkerStep(w) ==
    \/ DequeueWait(w)
    \/ DequeueExit(w)
    \/ DequeueTask(w)
    \/ SpuriousWakeup(w)
    \/ FinishTask(w)

DtorStep ==
    \/ Shutdown
    \/ NotifyAll
    \/ CancelSwapped
    \/ SwappedDone
    \/ Join
    \/ FailLate
    \/ Destroyed

Next ==
    \/ \E t \in Callers : ClientStep(t)
    \/ \E w \in Workers : WorkerStep(w)
    \/ DtorStep
    \/ Terminated

Spec == Init /\ [][Next]_vars

(***************************************************************************)
(* What the scheduler and the user's code are trusted with: a thread that  *)
(* can run does, the functions of tasks return and destroy the futures     *)
(* they hold, and a destructor that was entered goes on.  Nobody is        *)
(* obliged to submit, to cancel, or to destroy the pool.                   *)
(***************************************************************************)
Fairness ==
    /\ \A t \in Callers : WF_vars(NotifyOne(t)) /\ WF_vars(FutureReady(t))
    /\ \A w \in Workers :
          /\ WF_vars(DequeueWait(w) \/ DequeueExit(w) \/ DequeueTask(w))
          /\ WF_vars(FinishTask(w))
          /\ WF_vars(\E i \in TaskId : FutureDestroy(w, i))
    /\ WF_vars(DtorStep /\ dtor # "none")

FairSpec == Spec /\ Fairness

-----------------------------------------------------------------------------
(***************************************************************************)
(* Properties.                                                             *)
(***************************************************************************)

Submitted == 1 .. nextTaskId - 1

\* The tasks the destructor took out of the queue and has yet to cancel.
ToCancel ==
    IF dtor \in {"notify", "cancel"}
    THEN {swapped[k] : k \in pos + 1 .. Len(swapped)}
    ELSE {}

\* Type correctness of the pool's state.
TypeOK ==
    /\ nextTaskId \in 1 .. MaxTasks + 1
    /\ tasks \in Seq(TaskId)
    /\ idMap \in SUBSET TaskId
    /\ running \in BOOLEAN
    /\ priority \in [TaskId -> Priority]
    /\ result \in [TaskId -> Result]
    /\ holder \in [TaskId -> Callers \cup {Nobody}]
    /\ worker \in [Workers -> WorkerState]
    /\ current \in [Workers -> TaskId \cup {NoTask}]
    /\ calling \in [Callers -> CallState]
    /\ target \in [Callers -> TaskId \cup {NoTask}]
    /\ dtor \in DtorState
    /\ swapped \in Seq(TaskId)
    /\ pos \in Nat

\* No promise is set a second time: whatever Cancel, the workers and the
\* destructor do to a task, its completer is called at most once.
PromiseSetOnce == \A i \in TaskId : result[i] # "satisfied"

\* Queue::idMap has an iterator for exactly the tasks in Queue::tasks, and no
\* task is queued twice: the iterator Cancel erases is always a live one.
IndexMatchesQueue ==
    /\ idMap = Range(tasks)
    /\ IsInjective(tasks)

\* The multimap's order: higher priorities first, and tasks of one priority
\* in the order in which they were submitted.
QueueOrdered ==
    \A j, k \in 1 .. Len(tasks) :
        j < k => \/ priority[tasks[j]] > priority[tasks[k]]
                 \/ /\ priority[tasks[j]] = priority[tasks[k]]
                    /\ tasks[j] < tasks[k]

\* A submitted task whose future has no result yet is still in somebody's
\* hands: queued, being run by one worker, or waiting to be cancelled by the
\* destructor.
NothingLost ==
    \A i \in Submitted :
        result[i] = "none" =>
            \/ i \in idMap
            \/ \E w \in Workers : current[w] = i
            \/ i \in ToCancel

\* A task is never in two hands at once: what a worker runs is not queued,
\* not about to be cancelled, not run by another worker, and has no result.
OneOwner ==
    \A w \in Workers :
        current[w] # NoTask =>
            /\ result[current[w]] = "none"
            /\ current[w] \notin idMap \cup ToCancel
            /\ \A v \in Workers : current[v] = current[w] => v = w

\* A submitted task is in exactly one hand until its promise is set, and the
\* promise is set once, whatever Cancel, the workers and the destructor do.
TaskSafe == PromiseSetOnce /\ NothingLost /\ OneOwner

\* The index has the tasks of the queue, and the queue is in the order in which
\* Schedule promises to run them.
QueueConsistent == IndexMatchesQueue /\ QueueOrdered

\* When the destructor returns, every future ever handed out has a result:
\* nobody is left waiting for a pool that no longer exists.
DestroyedSettled ==
    dtor = "destroyed" => \A i \in Submitted : result[i] # "none"

\* Every task that is submitted is given a result.
EveryTaskSettles ==
    \A i \in TaskId : (i < nextTaskId) ~> (result[i] # "none")

\* The destructor returns once it was entered.
DestructorReturns == (dtor # "none") ~> (dtor = "destroyed")

\* Tasks that come in while the destructor runs are failed: once it was
\* entered, every submitted task gets a result.
LateTasksFail ==
    \A i \in TaskId : (dtor # "none" /\ i < nextTaskId) ~> (result[i] # "none")

-----------------------------------------------------------------------------
(***************************************************************************)
(* The inductive invariant behind the safety properties.  The properties   *)
(* say where an unsettled task is; to keep that true the converse is       *)
(* needed as well: what is still queued, swapped out or running is         *)
(* unsettled, and an id that was not handed out yet is nowhere.            *)
(***************************************************************************)

Unborn ==
    \A i \in TaskId : i >= nextTaskId =>
        /\ result[i] = "none"
        /\ i \notin idMap
        /\ \A w \in Workers : current[w] # i
        /\ \A k \in 1 .. Len(swapped) : swapped[k] # i

\* The loop over the late tasks leaves those it has failed in the queue.
QueuedUnsettled ==
    \A k \in 1 .. Len(tasks) :
        result[tasks[k]] = "none" <=> ~(dtor \in {"late", "destroyed"} /\ k <= pos)

SwappedUnsettled ==
    /\ IsInjective(swapped)
    /\ \A k \in 1 .. Len(swapped) :
          /\ swapped[k] \notin idMap
          /\ \A w \in Workers : current[w] # swapped[k]
          /\ dtor \in {"notify", "cancel"} /\ k > pos => result[swapped[k]] = "none"

WorkersConsistent ==
    \A w \in Workers :
        /\ worker[w] = "running" <=> current[w] # NoTask
        /\ calling[w] # "none" => worker[w] = "running"

DtorConsistent ==
    /\ running <=> dtor = "none"
    /\ dtor = "none" => swapped = <<>>
    /\ dtor \in {"none", "notify"} => pos = 0
    /\ dtor = "cancel" => pos <= Len(swapped)
    /\ dtor \in {"late", "destroyed"} =>
          /\ pos <= Len(tasks)
          /\ \A w \in Workers : worker[w] = "exited"
          /\ \A t \in Clients : calling[t] # "notify"
    /\ dtor = "destroyed" => pos = Len(tasks)

\* The inductive invariant of the proofs.
IInv ==
    /\ TypeOK
    /\ IndexMatchesQueue
    /\ Unborn
    /\ QueuedUnsettled
    /\ SwappedUnsettled
    /\ WorkersConsistent
    /\ DtorConsistent
    /\ OneOwner
    /\ NothingLost
    /\ PromiseSetOnce

-----------------------------------------------------------------------------
\* The life of a task as the code that submitted it sees it.
Life(i) ==
    IF i >= nextTaskId THEN "unborn"
    ELSE IF result[i] # "none" THEN result[i]
    ELSE IF \E w \in Workers : current[w] = i THEN "running"
    ELSE "pending"

Service == INSTANCE TaskService WITH status <- [i \in TaskId |-> Life(i)]

\* The pool implements TaskService: a task runs at most once, a cancelled one
\* never ran, and a result is final.
ImplementsTaskService == Service!Spec

=============================================================================
