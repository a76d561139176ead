----------------------------- MODULE SocketPair -----------------------------
(***************************************************************************)
(* SocketPair (Network.cpp): the two connected sockets that wake a socket   *)
(* service.  Start builds the pair with a listener on the loopback          *)
(* interface; each of its calls of the network (platforms/posix/            *)
(* StandardNetwork.cpp) may fail.  Descriptors are numbers the system       *)
(* reuses, and the rest of the program opens and closes its own at any      *)
(* time.                                                                    *)
(***************************************************************************)
EXTENDS Naturals

CONSTANT Fds     \* descriptor numbers

INVALID_SOCKET == 0

VARIABLES m_reader, m_writer,   \* m_sockets[0] and m_sockets[1]
          read, write,          \* the locals of Start
          at,                   \* the next call of Start, "idle" outside of it
          nonblocking,          \* the type Start was called with
          fd,                   \* what each descriptor is
          owner,                \* whose each open descriptor is
          peer,                 \* the other end of a connected descriptor
          blocks,               \* descriptors in blocking mode
          failed                \* a call of Start has failed

vars == <<m_reader, m_writer, read, write, at, nonblocking, fd, owner, peer, blocks, failed>>

kernel == <<fd, owner, peer, blocks>>

Calls == {"listener", "bind", "listen", "name", "writer", "connect", "nonblock", "accept",
          "writer mode", "reader mode"}

FdState == {"closed", "open", "bound", "listening", "connected"}

Init ==
    /\ m_reader = INVALID_SOCKET /\ m_writer = INVALID_SOCKET
    /\ read = INVALID_SOCKET /\ write = INVALID_SOCKET
    /\ at = "idle" /\ nonblocking = TRUE
    /\ fd = [f \in Fds |-> "closed"] /\ owner = [f \in Fds |-> "none"]
    /\ peer = [f \in Fds |-> INVALID_SOCKET] /\ blocks = {}
    /\ failed = FALSE

-----------------------------------------------------------------------------
(* The network.                                                             *)

\* CreateSocket and Accept give a new descriptor, in blocking mode.
Opens(f, as, who) ==
    /\ fd[f] = "closed"
    /\ fd' = [fd EXCEPT ![f] = as]
    /\ owner' = [owner EXCEPT ![f] = who]
    /\ blocks' = blocks \cup {f}

\* Close.  A descriptor that is not open, INVALID_SOCKET among them, is refused.
Closing(fs) ==
    /\ fd' = [f \in Fds |-> IF f \in fs THEN "closed" ELSE fd[f]]
    /\ owner' = [f \in Fds |-> IF f \in fs THEN "none" ELSE owner[f]]
    /\ peer' = [f \in Fds |-> IF f \in fs \/ peer[f] \in fs THEN INVALID_SOCKET ELSE peer[f]]
    /\ blocks' = blocks \ fs

Becomes(f, as) == fd' = [fd EXCEPT ![f] = as] /\ UNCHANGED <<owner, peer, blocks>>

SetBlocking(f, blocking) ==
    /\ blocks' = IF blocking THEN blocks \cup {f} ELSE blocks \ {f}
    /\ UNCHANGED <<fd, owner, peer>>

-----------------------------------------------------------------------------
(* Start.  The scope guard closes the listener on the way out.              *)

Start(nb) ==
    /\ at = "idle" /\ m_reader = INVALID_SOCKET
    /\ at' = "listener" /\ nonblocking' = nb
    /\ UNCHANGED <<m_reader, m_writer, read, write, kernel, failed>>

Leave ==
    /\ Closing({read} \cap Fds)
    /\ at' = "idle" /\ read' = INVALID_SOCKET /\ write' = INVALID_SOCKET
    /\ UNCHANGED nonblocking

\* Every call but Accept.  A CreateSocket that fails reports success with
\* INVALID_SOCKET, which the call after it refuses.
CallFails ==
    /\ at \in Calls \ {"accept"}
    /\ Leave
    /\ failed' = TRUE
    /\ UNCHANGED <<m_reader, m_writer>>

Step(from, to) == at = from /\ at' = to /\ UNCHANGED <<nonblocking, failed>>

CreateListener(f) ==
    /\ Step("listener", "bind")
    /\ Opens(f, "open", "pair")
    /\ read' = f
    /\ UNCHANGED <<m_reader, m_writer, write, peer>>

Bind ==
    /\ Step("bind", "listen")
    /\ Becomes(read, "bound")
    /\ UNCHANGED <<m_reader, m_writer, read, write>>

Listen ==
    /\ Step("listen", "name")
    /\ Becomes(read, "listening")
    /\ UNCHANGED <<m_reader, m_writer, read, write>>

GetSockName ==
    /\ Step("name", "writer")
    /\ UNCHANGED <<m_reader, m_writer, read, write, kernel>>

CreateWriter(f) ==
    /\ Step("writer", "connect")
    /\ Opens(f, "open", "pair")
    /\ write' = f
    /\ UNCHANGED <<m_reader, m_writer, read, peer>>

Connect ==
    /\ Step("connect", "nonblock")
    /\ Becomes(write, "connected")
    /\ UNCHANGED <<m_reader, m_writer, read, write>>

SetNonBlocking ==
    /\ Step("nonblock", "accept")
    /\ SetBlocking(write, FALSE)
    /\ UNCHANGED <<m_reader, m_writer, read, write>>

Accept(f) ==
    /\ Step("accept", "writer mode")
    /\ Opens(f, "connected", "pair")
    /\ peer' = [peer EXCEPT ![f] = write, ![write] = f]
    /\ m_reader' = f /\ m_writer' = write
    /\ UNCHANGED <<read, write>>

\* An accept() that fails is taken for a success with INVALID_SOCKET, in a build
\* without assertions.
AcceptFails ==
    /\ Step("accept", "writer mode")
    /\ m_reader' = INVALID_SOCKET /\ m_writer' = write
    /\ UNCHANGED <<read, write, kernel>>

SetWriterMode ==
    /\ Step("writer mode", "reader mode")
    /\ SetBlocking(m_writer, ~nonblocking)
    /\ UNCHANGED <<m_reader, m_writer, read, write>>

\* The last call, and the guard.
SetReaderMode ==
    /\ at = "reader mode" /\ m_reader # INVALID_SOCKET
    /\ at' = "idle" /\ read' = INVALID_SOCKET /\ write' = INVALID_SOCKET
    /\ fd' = [fd EXCEPT ![read] = "closed"] /\ owner' = [owner EXCEPT ![read] = "none"]
    /\ blocks' = (IF nonblocking THEN blocks \ {m_reader} ELSE blocks \cup {m_reader}) \ {read}
    /\ UNCHANGED <<m_reader, m_writer, nonblocking, peer, failed>>

-----------------------------------------------------------------------------

Stop_KeepsWriter ==
    /\ at = "idle"
    /\ Closing({m_reader, m_writer} \cap Fds)
    /\ m_reader' = INVALID_SOCKET
    /\ UNCHANGED <<m_writer, read, write, at, nonblocking, failed>>

\* Stop, which the destructor calls too.
Stop ==
    /\ at = "idle"
    /\ Closing({m_reader, m_writer} \cap Fds)
    /\ m_reader' = INVALID_SOCKET /\ m_writer' = INVALID_SOCKET
    /\ UNCHANGED <<read, write, at, nonblocking, failed>>

OtherOpens(f) ==
    /\ Opens(f, "open", "other")
    /\ UNCHANGED <<m_reader, m_writer, read, write, at, nonblocking, peer, failed>>

OtherCloses(f) ==
    /\ fd[f] # "closed" /\ owner[f] = "other"
    /\ Closing({f})
    /\ UNCHANGED <<m_reader, m_writer, read, write, at, nonblocking, failed>>

Next ==
    \/ \E nb \in BOOLEAN : Start(nb)
    \/ \E f \in Fds : CreateListener(f) \/ CreateWriter(f) \/ Accept(f) \/ OtherOpens(f) \/ OtherCloses(f)
    \/ Bind \/ Listen \/ GetSockName \/ Connect \/ SetNonBlocking \/ AcceptFails
    \/ SetWriterMode \/ SetReaderMode \/ CallFails \/ Stop

Spec == Init /\ [][Next]_vars

-----------------------------------------------------------------------------
(* Properties.                                                              *)

\* Type correctness of the pair and of the descriptor table.
TypeOK ==
    /\ {m_reader, m_writer, read, write} \subseteq Fds \cup {INVALID_SOCKET}
    /\ at \in Calls \cup {"idle"}
    /\ nonblocking \in BOOLEAN /\ failed \in BOOLEAN
    /\ fd \in [Fds -> FdState] /\ owner \in [Fds -> {"none", "pair", "other"}]
    /\ peer \in [Fds -> Fds \cup {INVALID_SOCKET}] /\ blocks \subseteq Fds

Mine == {f \in Fds : owner[f] = "pair"}

\* The pair never closes a descriptor of someone else: the numbers it keeps are
\* its own, however often it is started, stopped and destroyed while other
\* parts of the program get the numbers it gave back.
ClosesOnlyItsOwn == {m_reader, m_writer, read, write} \cap Fds \subseteq Mine

\* A pair that has a reader has a writer, connected to it, and both are open.
EndsConnected ==
    at = "idle" /\ m_reader # INVALID_SOCKET =>
        /\ m_writer # INVALID_SOCKET
        /\ peer[m_reader] = m_writer /\ peer[m_writer] = m_reader
        /\ fd[m_reader] = "connected" /\ fd[m_writer] = "connected"

\* The listener does not outlive Start, whichever call fails.  As long as no call
\* of Start has failed, a pair that is not being started owns its two ends and
\* nothing else, and both are in the mode Start was asked for.
StartedAsAsked ==
    at = "idle" =>
        /\ \A f \in Mine : fd[f] \notin {"bound", "listening"}
        /\ ~failed => /\ Mine = {m_reader, m_writer} \cap Fds
                      /\ \A f \in Mine : f \in blocks <=> ~nonblocking

-----------------------------------------------------------------------------
(***************************************************************************)
(* The inductive invariant behind the safety properties.                   *)
(***************************************************************************)

\* Start has a listener from its first call on, and a writer from the second
\* CreateSocket on, which Accept makes the writer of the pair.
LocalsOfStart ==
    /\ read \in Fds <=> at \notin {"idle", "listener"}
    /\ write \in Fds <=> at \in {"connect", "nonblock", "accept", "writer mode", "reader mode"}
    /\ read \in Fds => read \notin {write, m_reader, m_writer}
    /\ at \in {"nonblock", "accept"} => fd[write] = "connected"
    /\ at \in {"writer mode", "reader mode"} => m_writer = write
    /\ at \notin {"idle", "writer mode", "reader mode"} => m_reader = INVALID_SOCKET

\* The ends of a pair are connected as soon as there is a reader.
ReaderConnected ==
    m_reader # INVALID_SOCKET =>
        /\ m_writer # INVALID_SOCKET
        /\ peer[m_reader] = m_writer /\ peer[m_writer] = m_reader
        /\ fd[m_reader] = "connected" /\ fd[m_writer] = "connected"

\* Who has a descriptor has an open one, and of the pair's only the listener listens.
OwnersAgree ==
    /\ \A f \in Fds : owner[f] = "none" <=> fd[f] = "closed"
    /\ \A f \in Mine : fd[f] \in {"bound", "listening"} => f = read

\* As long as nothing has failed, the pair knows of every descriptor it owns, and
\* their modes are set one by one.
AllAccounted ==
    /\ ~failed => /\ Mine = {m_reader, m_writer, read, write} \cap Fds
                  /\ m_reader = INVALID_SOCKET /\ at \notin {"writer mode", "reader mode"} =>
                        m_writer = INVALID_SOCKET
    /\ ~failed /\ at = "idle" => \A f \in Mine : f \in blocks <=> ~nonblocking
    /\ at = "reader mode" => (m_writer \in blocks <=> ~nonblocking)

IInv == TypeOK /\ ClosesOnlyItsOwn /\ LocalsOfStart /\ ReaderConnected /\ OwnersAgree /\ AllAccounted
==============================================================================
