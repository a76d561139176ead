# A TLA+ verification of the Fusion core library

Fusion (`src/libraries/core`) is a C++ library for bootstrapping programs: a thread pool,
sockets and the services that poll them, logging, signals, memory readers and writers,
vectors, hashes, random numbers, strings, paths, addresses, command line arguments. This
directory holds TLA+ models of its parts that have state or arithmetic worth checking, the TLC
configurations that check them on small instances, and TLAPS proofs, for every instance, of the
safety of the concurrent parts: the pool and its refinement of an abstract service, the socket
services and their socket pair, signals, the logging root, the queueing sink and contexts; and of
the generators.

File names below are relative to `src/libraries/core/source/`. The models are of the Linux
build. `PROJECT.json` has, for every definition, the lines it models; for every property, a
mutated definition that violates it; and the hazards of the code, line by line.

## 1. Inventory

| Part | State | Operations | What is hard about it |
|---|---|---|---|
| ThreadPool (`Thread.cpp`) | multimap of tasks by priority, index by id, workers, futures | submit, cancel, run, get, destroy | all of it concurrent with the destructor, which works outside the mutex |
| SelectSocketService | registrations, results, started/shutdown/polling, a socket pair | Add, Remove, Close, Notify, Execute, Stop | `select()` waits on a copy made before the unlock |
| EPollSocketService | registrations, the kernel's own list, a descriptor | the same | two lists that must agree, reused descriptors, a size read without the mutex |
| SocketPair (`Network.cpp`) | two descriptors | Start, Stop, Drain | ten calls, each of which may fail; descriptors are reused at once |
| StandardNetwork (`posix/StandardNetwork.cpp`) | none but the system's sockets | create, bind, connect, accept, send, receive, options, shutdown | partial sends, ends and resets of streams, what 0 and -1 mean |
| Logging root (`Logging.cpp`) | an instance, a flag, sinks | Start, Stop, Instance | double-checked start, lookups without the mutex |
| Logger (`Logging.cpp`) | a level, a flag, sinks | Log, AddSink, SetLogLevel, copies and moves | levels change while a record is on its way to several sinks |
| QueuedLogSink | a bounded queue | Log, Flush | callbacks run after the unlock |
| SignalManager (`Signals.cpp`) | handlers by signal | Register, Clear, Raise, ReceiveSignal | handlers are taken out while they run; deliveries interrupt anything |
| RingBuffer, MemoryReader, MemoryWriter (`Memory.cpp`) | offsets into a buffer | Read, Write, Put, Seek, Skip | wrapping, range checks that differ by one, byte order |
| EmbeddedVector (`Impl/Vector.h`) | elements inside or outside the object | insert, erase, copy, move, assign, reserve | which storage is whose after a move |
| ArgumentParser (`Argparse.cpp`) | arguments, commands, what was found | Add, Parse | aliases, commands, a second line, order of building |
| MDHash (`Impl/Hash.h`, MD5, SHA1, SHA256), HMAC | a block and a length | Process, Finish, Reset | pieces that end inside a block; when padding needs one more |
| SocketAddress (`Network.cpp`) | a variant and a family | from and to text, numbers, `sockaddr` | byte order, the alternative that is held |
| Network enums, AddressInfo (`Network.cpp`) | none | enumerators to numbers and names and back | tables beside enums, in an order of their own |
| StringUtil | none | Split, Join, Trim, Compare, parse | first and last characters, overflow |
| FixedStringBuilder (`StringUtil.cpp`) | an offset into a caller's buffer | Append, Offset, Subspan | builders that work on each other's rest |
| Hex, UUID, Ascii | a few bytes | to and from text | odd digits, buffers that are too small |
| PathUtil | none | Normalize, Join, Dirname, Basename, directories of the user | "..", "~" and "/" at both ends |
| Random (`Random.cpp`) | one, two or sixteen words | Bits, Bytes, SecureBytes, numbers in a range | a state of zeros; sources that fail in the middle |
| Context (`Context.cpp`) | a flag and a deadline, shared by handles | Cancel, CancelAt, IsCancelled, copies and moves | three reads that others come between |

Parts that are not modelled are in section 8.

How they interact: both socket services wake their poller through a SocketPair, which is built
of calls of StandardNetwork; loggers hand their records to the root; HMAC drives two MDHash
objects; Hex is built of Ascii's conversions; SocketAddress and the memory classes share the
byte-order operators. The thread pool, logging, contexts and signals are used by the program
directly.

## 2. Modules

| Module | Models |
|---|---|
| `TaskService` | what a pool promises of a task: pending, running at most once, one final result |
| `ThreadPool` | the pool, one action per critical section and per step outside the mutex |
| `Positions` | inserting into and erasing from a sequence by position |
| `ThreadPoolProofs` | the proofs about the pool |
| `SocketOps` | operations and registrations, shared by the two services |
| `SelectSocketService`, `EPollSocketService`, `PollingProofs` | the two services, each with its kernel, and the proofs about them |
| `SocketPair`, `NetworkProofs` | Start call by call, on a table of descriptors others use too, and the proof about it |
| `NetworkTypes`, `AddressInfo` | the enums and their tables; the hints of a lookup |
| `StandardNetwork` | every call on streams and datagrams, over a system that keeps, delays and resets them, and `SocketPair::Drain` |
| `Logging`, `Logger`, `LoggingProofs` | the life of the root; loggers and the way of a record to the sinks; the proof about the root |
| `QueuedLogSink`, `QueuedLogSinkProofs` | the queueing sink and the proofs about it |
| `SignalManager`, `SignalManagerProofs` | handlers, nested deliveries, the numbers of Linux, and the proofs about them |
| `ByteQueue`, `RingBuffer` | a queue of bytes, and the ring that implements it |
| `ByteOrder`, `MemoryWriter`, `MemoryReader` | integers as bytes; the two cursors |
| `EmbeddedVector` | two vectors and the blocks they own |
| `ArgumentParser` | building parsers, and parsing lines with them |
| `MDHash`, `HMAC` | blocks, padding and length; the keyed hash |
| `SocketAddress`, `StringUtil`, `Hex`, `PathUtil` | conversions, as actions and operators |
| `FixedStringBuilder` | a stack of builders on one buffer, and what each was given |
| `Random`, `RandomProofs` | generators bit by bit, buffers chunk by chunk; why a generator never comes to zeros |
| `Context`, `ContextProofs` | handles, the States they share, threads in the middle of a question, and the proofs about them |
| `MC*` | symmetry, and the *sum runs*: `MCPolling`, `MCServices`, `MCNetwork` and `MCValues` |

In a sum run `part` (in `MCPolling`, `service`) is chosen in the initial state and never changes;
the behaviour is one of that component, and the others have no state or stay in their initial
ones. It checks independent components together without multiplying their states.

How code becomes actions: code under a mutex that does not wait is one action. An unlock, a
wait, a system call, a callback and a read of shared state outside the mutex end an action,
since others may come in between. A data race (the unlocked `m_events.size()` and `s_instance`)
is a step of its own that sees whatever value is there then. Definitions have the names of the
functions they model; `X_Something` before `X` is a mutated form of `X` that no specification
uses.

## 3. Runs

| Run | Instance | Shows |
|---|---|---|
| `thread_pool` | two workers, a client, two tasks, two priorities | `TaskSafe`: no task lost, in two hands or completed twice; `QueueConsistent`: queue and index agree and are in order; `DestroyedSettled`: everything has a result after the destructor; `ImplementsTaskService`; `EveryTaskSettles` and `DestructorReturns` |
| `polling` | select() and epoll, two sockets, two operations; room for one wake-up; descriptors that are closed and reused | `ReportsRegistered`: nothing is reported that was removed meanwhile; `StopsClean`: a poll during Stop is harmless; `WatchesRegistered`: the kernel's list never contradicts the service's and `epoll_wait` has room; `ChangeWakesPoller` and `ShutdownEndsPoll`: a change or Stop ends a `select()` without limit |
| `services` | signals, logging root, loggers, queueing sink, command line | see below |
| `network` | three descriptors, one stream both ways or datagrams; a pair among four descriptors; addresses of both families; all flags | see below |
| `values` | ring, writer, readers, vectors, hashes, HMAC, strings, builders, Hex, UUID, paths, generators, contexts | see below |
| `thread_pool_blocking`, `select_stop`, `select_assert`, `epoll_destroy`, `signal_clear`, `hash_pieces`, `path_doubled` | small | violations, section 6 |

`services`: no handler is lost or in two places in nested deliveries, and every signal that has
one is delivered (`HandlersKept`); a thread waits for itself only in a delivery that interrupted
it (`NoSelfDeadlock`); only a Stop that overlaps a call takes the root from it
(`OnlyStopTakesRoot`); a record reaches all the sinks of its logger or none, and the root's only
with them (`RecordsRouted`); the queueing sink holds the newest messages in order, delivers each
at most once and loses only the oldest of a full queue (`SinkSafe`, `DropsOnlyWhenFull`); what a
parser has found are the names it has read on this line and on earlier ones that no failure or
Reset followed, and required arguments are among them, in whatever order the parser was built
(`FoundIsLine`, `RequiredGiven`).

`network`: bytes arrive as they were sent and as the senders were told, and of a stream only its
end is a disconnect (`StreamKept`); would-block only where it was asked for, no signal where
none was (`RepliesAsked`); `Drain` leaves nothing that had arrived (`DrainEmpties`); a pair is
connected, closes only its own and is as asked (`PairOwnsItsEnds`); addresses keep their family,
and IPv4 and IPv6 ones their port and bytes, through every conversion (`AddressKept`); flags and
hints become the numbers and names of the same enumerators, protocols and socket options apart
(`NumbersAgree`).

`values`: the ring implements a queue that begins full and ends when it is read empty (`IsQueue`); integers read back in both byte orders
(`RoundTrip`); readers stay inside (`SpansInside`); vectors are sequences, whoever owns the block
(`IsSequence`); the blocks that are compressed are those of the padded message, for a hash in
pieces and for an HMAC (`DigestOfMessage`); strings are split by one character, joined, ordered,
trimmed and parsed as their reference definitions say, and builders that are given strings show
them and stay in the buffer (`StringsAgree`); an even number of bytes, numbers and UUIDs read back
from their texts (`TextsReadBack`); a path that does not begin with two slashes has one normal
form, and every path is put together again from its parts (`PathsAgree`); generators are never zero, buffers are
filled exactly and from one source, ranges are kept (`RandomKept`); a cancelled context says so
through every handle, and no other does (`CancelSeen`).

### Bounds and why they are enough

* ThreadPool: `MaxTasks` = 2. Its safety is proved for any number; two tasks and two workers
  have every race of two over one task, and two tasks in the queue for its order.
* Select: `PipeCapacity` = 1 makes every second wake-up one that does not fit. EPoll: two
  operations and two descriptors let one be reused while the other is registered.
* Logging: `MaxRoots` = 2 is one restart, `MaxSinks` = 1. Loggers: two variables to copy and move
  between, `MaxOwnSinks` = 2, `MaxRootSinks` = 1, one thread that logs while levels change;
  records are logged while one logger exists. Sink: `m_count` = 2 and `MaxMessages` = 6 fill it
  three times over, between any two steps of two flushes.
* Signals: `MaxDepth` = 2 is a delivery inside a delivery; 15 and 17 are an enumerator that is
  the system's number and one that is not.
* Parser: `MaxArgs` = 5 counts the help options the parsers add themselves: it is the root's
  help, a command with its own, and two arguments beside them, or four without a command.
  `Flags` is empty in the run, so the only flag is help's `-h`; flags are compared the way names
  and aliases are.
* Network: three descriptors are a listener and the two ends; `MaxSent` = 3 bytes with `Room` = 2
  at the receiver make sends partial or blocked, `DrainSize` = 1 makes Drain loop. `MaxOpened` = 3.
  The pair has four descriptors: its ends, its listener and one of somebody else.
* Memory: `SizeMax` = 32 is the wrap of `size_t`, `Radix` = 2 makes a byte a bit so that
  integers of 2, 4 and 8 bytes stay in TLC's range; `Length` = 2 with `MaxLength` = 4 goes
  through the move to the heap and back.
* Hashes: a block of 8 bytes, words of 4 and a length of 2 keep the cases of the padding (the
  length fits, does not fit, nothing is left); `MaxMessage` = 33 is four blocks and a byte.
* Strings: `MaxText` = 3 and `MaxOther` = 2 over a sign, a digit, both cases and a delimiter;
  `Modulus` = 100 and `Limit` = 40 stand for 2^64 and a type's maximum, so that three digits
  wrap and two go out of range. Builders: `MaxAppend` = 2 characters at a time in buffers of
  1, 2 and 7, `MaxNested` = 2 builders on each other's rest.
* Hex: `N` = 2 bytes, two variables. Paths: up to `MaxSegments` = 4 of seven segments, in three
  environments of the process.
* Random: `MaxDraws` = 17 takes the sixteen words around once; sizes lie around the chunks of 4
  and 8, and `SystemChunk` = 8 stands for a megabyte. Words have all their bits. Ranges are
  checked for a type of eight values.
* Context: two handles, two States, two threads; `MaxTime` = 2 is a clock that passes a deadline.

Deadlock is checked for the pool and in `select_stop`. The other configurations say
`CHECK_DEADLOCK FALSE`: their behaviours end because a service was stopped and destroyed, a
bound is used up, or a failed assertion ended the program.

## 4. Fairness

Only the runs with liveness properties (`thread_pool`, `polling` and two of the violations,
`thread_pool_blocking` and `select_stop`) use a specification with fairness, and all of it is
weak.

* ThreadPool: a thread that can run does; a task's function returns and destroys the futures it
  holds; a destructor that was entered goes on. Nobody has to submit, cancel or destroy. A
  function that waits for a future of its own pool need not return, so `EveryTaskSettles` and
  `DestructorReturns` are checked with `BlockingTasks = FALSE`. No fairness is given to spurious
  wake-ups: a lost notification would be a lost task.
* Select: a thread inside a call goes on, the kernel delivers what was sent and reports what is
  readable, and a `select()` with a timeout ends. No socket has to become ready, and a condition
  variable owes nobody a spurious wake-up. The liveness properties are about the service on
  select(): the one on epoll cannot wake its poller (section 6).

## 5. What is proved

TLAPS proves, for every value of the constants that the named assumptions admit:

* `ThreadPoolProofs`: `TypeCorrect`, `TaskSafety` (`TaskSafe` and `IndexMatchesQueue`),
  `DestructorSettles`, `QueueIsConsistent` and `Refinement` (the pool implements `TaskService`),
  from `PoolAssumption` (the types of the options) and `ClientsAssumption` (clients are not
  workers).
* `PollingProofs`: `PollingTypes`, `WatchesAreRegistered`, `StoppingIsClean` and
  `ReportsAreRegistered`, about the specification the run `polling` checks, from
  `SocketsAssumption` (finitely many sockets), `ReaderAssumption` (the reader of the pair is not
  one of the program's sockets), `OpAssumption` and `PipeAssumption`.
* `NetworkProofs`: `PairOwnership`, about the specification the run `network` checks, from
  `FdsAssumption` (`INVALID_SOCKET` is no descriptor).
* `SignalManagerProofs`: `HandlersAreKept` and `OnlyDeliveriesDeadlock`, for any set of threads
  that `NoThread` is not in, any handlers and signals, and any depth of deliveries.
* `LoggingProofs`: `StopTakesRoot`, for any threads (without `NoThread`), loggers, roots and sinks,
  and any set of levels that has a highest one.
* `QueuedLogSinkProofs`: `SinkSafety` (types and `SinkSafe`) and `DropsWhenFull`, from
  `CountAssumption` and `BoundAssumption`.
* `ContextProofs`: `CancellationIsSeen` and `HandlesShareState`, for any handles, States and
  threads, delays that are not negative, and a clock that has at least one value.
* `RandomProofs`: `NeverZero`, a generator of one, two or sixteen words that does not start with
  zeros never comes to zeros, for every set of seeds and sizes and any number of draws. It needs
  no assumption about the constants.

The theorems about signals, the root, the sink and contexts are about these components' own
specifications. In the runs `services` and `values` each is one of the parts of a sum, whose
behaviours are exactly the component's, with the constants the configuration gives it; the
assumptions of `MCServices` and `MCValues` include the hypotheses of the theorems, so TLC has
evaluated them there.

*The pool.* `TaskSafe` says where a task without a result is. It is not inductive: a step that
sets a promise needs to know that the promise is not set yet. `IInv` therefore adds the converse:
what is queued (`QueuedUnsettled`), taken out by the destructor and not cancelled yet
(`SwappedUnsettled`) or run by a worker has no result, an id not handed out yet is nowhere
(`Unborn`), and the control states of workers and destructor agree with the data
(`WorkersConsistent`, `DtorConsistent`). The one subtle conjunct is in `QueuedUnsettled`: the
loop over late tasks leaves those it has failed in the queue, so up to `pos` they are settled.
`DestructorSettles` follows from `IInv` alone: when the destructor is done all workers have
exited and `pos` is the end of the queue, so a task without a result has nowhere left to be. The
proof has one lemma per action or group of actions, after lemmas about inserting into and erasing
from a sequence of distinct elements. The order of the queue is inductive beside `IInv`: a new
task has the highest id (`Unborn`), so behind all of its priority is its place. For the
refinement, what a client sees of a task (`Life`) changes in a step only for the tasks that are
taken, finished or given up in it, and `IInv` gives the state it had before.

*The socket services.* For select(), `IInv` adds to `StopIsOrderly` how the flags follow the life
of the service (`FlagsAgree`) and that what select() returned is part of what it was given
(`PollKept`), which `ReportsRegistered` needs of the state before the step. For epoll,
`KernelMatches` is not inductive: a failing `epoll_ctl` leaves the kernel's entry as it is while
the service's own changes. Calls fail only on closed descriptors or absent entries, so
`ForgetsClosed`, the kernel has no entry of a closed descriptor, closes the gap.
`WaitHasRoom` rests on `ReaderRegistered`: the size of the map is read without the mutex, and it
is not 0 because the reader is registered from Start to Stop and no other call touches it.

*The pair.* Of a descriptor the pair owns, `ClosesOnlyItsOwn` must know which of the four
variables hold it: `LocalsOfStart` says what the locals of Start are at each of its ten calls,
`OwnersAgree` that what has an owner is open, and `AllAccounted` that without a failure the pair
knows all it owns, with the modes set one after the other.

*Signals.* `OnePlace` and `NoneLost`, that a handler is in one place of the vector, of one call in
progress or of the destroyed ones, and that none is missing, are almost inductive together. They
need to know what a call has in hand at each of its points (`CallsFit`): a call that is about to
be over has none, or they would be lost with it. Every step is the same move: what one call has,
the vector and the destroyed handlers are shared out anew, and no other call's part changes
(`MoveApart`, `MoveWhole`); sorting may put equal signals in any order, and that it neither loses
nor repeats one follows from the number of elements. `NoSelfDeadlock` needs `MutexHeld`: the
mutex is held in one call of a thread, and all that is nested in it are deliveries that wait. The
erase-remove loops are stated by what they leave (`Selected`), since what a filtering loop
returns for every input is an induction the provers do not have.

*The root.* `OnlyStopTakesRoot` speaks of the pointer a call has loaded. `Undisturbed` says why it
is alive: as long as no Stop has overlapped the call nobody is stopping, so the flag and the
pointer it read are still the current ones, and the current instance is not destroyed
(`PointersSet`); `FlagFollowsInstance` ties the flag to the pointer, with the mutex held where
they differ.

*The sink.* `IInv` is the type invariant with the three conjuncts of `SinkSafe`, which is
inductive because `HoldsNewest` says the queue is a run of consecutive numbers that ends with the
last one logged: a new message is in no other place, and the one pushed out is the oldest.

*Contexts.* `StatesShared`, every handle leads to the State it was made for, makes the flag and the
deadline of the State equal to what was asked for through any handle. `AnswerHolds` says what a
question knows after each of its loads: before the load of the flag a cancellation it had been
told of is still there, because a State that a handle in use leads to is not given back; before
the comparison the deadline it has loaded is one of those there were meanwhile, and passed if one
that stayed had passed.

*The generators.* A word is a set of bit numbers. The exclusive or of a word with its own left
shift keeps the word's lowest bit and the one with its right shift the highest, so neither makes
zero of anything else; `Least` and `Greatest` give these bits, from the well-foundedness of the
naturals. Each step of a generator is made of such terms and of rotations (`Step32Keeps`,
`Step128Keeps`, `Step1024Keeps`). `GeneratorInv` adds to `NonZero` the shape of the words and
that a constructor under way writes behind its first word. That a seed does not start a generator
with zeros is checked by TLC on the seeds of the run, by computing `Mix64`.

The inductive invariants of the pool, the socket services, the pair, the signals, the root and
the contexts were checked by TLC on small instances before they were proved. Only model-checked: liveness under fairness, which is out of the prover's reach; that the ring
implements `ByteQueue`; `RecordsRouted`, `StreamKept`, `RepliesAsked`, `IsSequence` and
`SpansInside`, which have no inductive invariant yet; and all other properties of the modules
without a proof module. What the recursive functions compute (texts, paths, hashes, the tables of
a parser) is checked on all inputs up to the bounds, since the provers have no induction over data.

## 6. Where the code differs from its own statements

Seven runs expect a violation of something a comment, an assertion or a test says.

* `thread_pool_blocking`: the destructor says it fails tasks that came in late
  (`Thread.cpp:156`). If a running task waits for one of them, it is never reached.
* `select_stop`: `Stop` waits on a condition variable that nothing notifies
  (`SelectSocketService.cpp:373`).
* `select_assert`: `Add` does not look at `m_shutdown`, unlike EPoll's. One that gets the mutex
  between `Stop`'s unlock and its callback registers a socket with the stopped service, against
  the callback's `FUSION_ASSERT(m_events.empty())` (`SelectSocketService.cpp:352`).
* `epoll_destroy`: `Stop` does not wait for the poller, and the destructor asserts `!m_polling`
  (`EPollSocketService.cpp:77`).
* `signal_clear`: handlers that run while they are cleared are registered again
  (`Signals.cpp:154`, against `Signals.h:63`).
* `hash_pieces`: two pieces inside one block fail an assertion (`Impl/Hash.h:237`).
* `path_doubled`: `Normalize` drops one of the two slashes of "//foo/bar" and adds none at the
  end, against its test on every platform (`TestPathUtil.cpp:302`).

The models follow the code in these too, without a run of their own; where a property is about
such a place it is stated with the behaviour as it is:

* EPoll: `NotifyLocked` sends `writeSize` bytes and `writeSize` is 0 (line 313), so nothing wakes
  a poller that waits without limit. An "optimization" of `Remove` for a socket with only an error
  event applies to every socket with one among others (`EPollSocketService.cpp:365`). When
  `epoll_ctl` fails in `Add`, the map keeps what the kernel refused (line 126).
* Logging: between `Instance()`'s look at the flag and its copy of the pointer, `Stop` makes it
  return null, and `AddSink` asserts otherwise (`Logging.cpp:472`).
* Signals: `Raise` is to "Call the associated signal handlers" (`Signals.h:68`), but passes the
  enum's value where a signal number is expected (`Signals.cpp:103`), which `MapEvent` translates:
  raising USR2, 17, runs CHILD's handlers, and raising USR1 or CHILD runs none. A delivery to the
  thread that holds `m_mutex` waits for itself (line 128).
* ThreadPool: `Options::threads` = 0, the default, makes no workers (`Thread.cpp:101`).
* SocketPair and StandardNetwork: `accept` and `socket` are tested for 0 where they report -1
  (`StandardNetwork.cpp:44` and `:147`); a Start that fails between the writer's creation and
  Accept loses the writer, so `StartedAsAsked` is stated for pairs whose calls have not failed.
* StandardNetwork: `Recv` reports an empty datagram as `E_NET_DISCONNECTED`
  (`StandardNetwork.cpp:298`), of a socket that has no connection to lose. `RecvFrom` has no such
  test: of an empty datagram, and of a stream at its end, it succeeds with nothing received.
* Network enums: the table of protocols is not in the order of its enum (`Network.cpp:610`), so
  that Udp is written as the number of Raw, although it is to map values "to their corresponding"
  integers (`Internal/Network.h:205`).
* RingBuffer: a new ring is not marked empty (`Memory.h:589`) and offers bytes nobody has written;
  one that was read empty has no room and no bytes any more (`Memory.cpp:695`). `IsQueue` says so.
* MemoryReader: `Read()` admits an offset at the end and reads the byte behind it (`Memory.cpp:36`).
  `Read(offset)` admits the end too, where `Seek` asserts `offset < m_size` (`Memory.cpp:304`): it
  stops there, or reads that byte when built without assertions. `Read64_LE(offset)` and
  `Read64_BE(offset)` look for four bytes and read eight. `SpansInside` leaves all of them out.
* EmbeddedVector: a vector that took over another's block keeps `m_dynamic` as `Reset` left it
  (`Impl/Vector.h:376`), says it is embedded and does not free the block. Assigning a
  `std::span<T>` appends (`:695`), assigning an array empties the vector and copies nothing
  (`:717`); `IsSequence` expects it so.
* ArgumentParser: `Parse` of a `char**` drops `offset` strings, 1 unless told otherwise, and passes
  the offset on to the `Parse` of a vector, which drops as many again (`Argparse.cpp:540` and
  `:562`): the first argument is not read. A `Parse` that succeeds does not reset, so that a name
  of an earlier line is a duplicate on the next and counts as given there. An argument of the root is added to commands without checking the names they
  have (`Impl/Argparse.h:796`).
* SocketAddress: `FromString` throws on an address that does not hold the family it parsed, the
  default one included; no IPv6 text parses, since the text is cut at its first colon (the test
  for it is commented out, `TestSocketAddress.cpp:84`); a port above 65535 is truncated.
  `FromSockAddr` takes the length of a Unix path from the empty one it is to fill
  (`Network.cpp:1148`), so that the path is lost.
* StringUtil: `"-"` parses to 0 and digits beyond 2^64 wrap; trimming a view of only tokens
  from the left throws where "a new view" is announced (`StringUtil.h:328` and `:352`); a delimiter of several characters leaves its tail in the next part; comparing views
  looks at their common length only.
* FixedStringBuilder: `Append(char)` writes at `Head()[m_offset]`, which counts the offset twice
  (`StringUtil.cpp:662`), so that from the second one on characters are put astray, behind the
  buffer too; a text that exactly fills the buffer, or is cut off, fails the assertion
  `m_offset + length < m_capacity` (line 675); a builder on an empty span has a capacity of
  `SIZE_MAX`. `Failure::Summary` resizes the string it built behind the string's back, which
  overwrites the text with zeros (`Error.cpp:206`).
* Hex and UUID: copying a `Hex` gives an empty one; `ToHexString` of an odd number of bytes is
  empty (`Ascii.cpp:158`), and of 0 into a buffer of one character writes its terminator behind it
  (line 125); `UUID::FromString` accepts what follows sixteen bytes, and its assertion
  `index <= UUID::SIZE` lets one byte too many pass (`Uuid.cpp:54`).
* PathUtil: three tests disagree with what the posix build does (`TestPathUtil.cpp:103`, `:302`
  and `:322`); `Normalize` is not idempotent where its result begins with ".." or with "~" and a
  name; when neither the working directory nor the home is known, `Normalize` and `Join` call each
  other without end (`PathUtil.cpp:349`).
* Random: the last read of `SystemSecureBytes` asks for a whole chunk and not for what is left
  (`posix/Random.cpp:49`), so that for a buffer of more than a megabyte that is no multiple of it
  the bytes that come are written behind its end before the call fails; hardware that fails every attempt counts as supported (`Random.cpp:132`), and every
  call then falls back to the system.

## 7. Assumptions of the models

* The build has assertions: a failed `FUSION_ASSERT` ends the behaviour (memory, hashes, strings,
  addresses), and what the code would do after it is not modelled. StandardNetwork and SocketPair
  are modelled without them, since theirs are on what the system answers. In the socket services
  the two that can fail, in select()'s Stop and in epoll's destructor, are properties
  (`StoppedEmpty`, `DestroyedIdle`); the model goes on as a build without them does.
* The system under StandardNetwork keeps the bytes of a stream in order, delivers them some time
  after they were sent, and may reset a connection whose other end was closed.
* Nobody else connects to the listener of a SocketPair while it starts.
* The owner of a socket service stops it once and has one thread that polls.
* A logger's vector of sinks is changed, and a Context is assigned, moved and destroyed, while no
  other thread uses that object; neither class synchronises it.
* The elements of a vector are of a trivial type.
* `std::sort` keeps the order of equal arguments of a parser for up to 16 of them, as libstdc++
  does; the order of a signal's handlers is left open.
* The host is little-endian, and signal numbers and `AF_` values are those of Linux.
* The compression functions of the hashes are not modelled: the blocks given to them stand for
  the digest. The numbers a generator returns are not modelled, only its state.
* Paths have no backslashes, and the working directory and the home are known and absolute.

## 8. What is not modelled

* MemoryUtil and Array: templates that construct, copy and compare elements one by one and keep
  no state; the sized `MemoryUtil::Less` is no order, since it answers by length whenever the
  common part is not less (`Impl/MemoryUtil.h:75`).
* Error, Failure and Result carry values; Global runs a list of two initialisers; ThreadSafe locks
  a mutex around one call. What an operation returns is part of its own module.
* Log formatters, SyslogSink, Console, Environment, Library, Debug, Json: input, output and text
  layout.
* FNV and XXHASH: arithmetic modulo 2^32 and 2^64 on every byte is out of the range of TLC's
  integers, and XXHASH is an external library. Unicode calls libraries.
* KQueueSocketService and IocpSocketService are stubs that return `E_NOT_IMPLEMENTED`.
* The Windows and Apple files, the examples, the Rust crates and the scripts.
* `ThreadPool::Strand`: nothing puts a task into its queue and nothing calls its private `Run`.
* `ThreadPool::Dispatch` calls a function that does not exist and does not compile when used.

## 9. Plan

The order was: the pool with its abstract specification and proofs, since everything in it is
concurrent; the socket services and their socket pair; logging and signals; the network calls;
then the sequential parts. What is left, most important first:

1. Proofs: the ring implements the queue; `RecordsRouted` of Logger; `StreamKept` of
   StandardNetwork; `IsSequence` of EmbeddedVector.
2. The socket services composed with StandardNetwork instead of with counts of wake-ups.
3. Result and Array, as a variant and a block of cells, if they come to hold more than they do.
