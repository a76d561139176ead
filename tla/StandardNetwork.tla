--------------------------- MODULE StandardNetwork ---------------------------
(***************************************************************************)
(* StandardNetwork (platforms/posix/StandardNetwork.cpp): the calls of the *)
(* system's sockets behind the interface Network, and SocketPair::Drain,   *)
(* which loops over one of them.  Any number of threads call; a call that  *)
(* blocks is not enabled until it can return.  The system underneath keeps *)
(* streams, whose bytes arrive some time after they are sent, and queues   *)
(* of datagrams.  The bytes of a stream are numbered by its sender, so a   *)
(* buffer is a sequence of numbers.  Built without assertions.             *)
(***************************************************************************)
EXTENDS NetworkTypes

CONSTANTS Fds,          \* descriptor numbers
          Configs,      \* arguments of CreateSocket
          Links,        \* connections, 1 .. some number
          Ports,        \* ports that are bound and connected to
          Sizes,        \* of buffers
          MaxOpened,    \* bound: sockets that are created and accepted
          Room,         \* bound: bytes, or datagrams, the system keeps for a receiver
          MaxSent,      \* bound: bytes sent on a connection, both ways
          DrainSize,    \* of the buffer of Drain
          Options       \* of Recv and Send: sets of bits of MessageOption

INVALID_SOCKET == -1

VARIABLES sock,       \* the system's sockets
          opened,     \* how many there have been
          inq,        \* by end of a connection: bytes on their way and arrived
          arrived,    \* how many of them have arrived
          fin,        \* how the other end has finished: "no", "fin", "rst"
          lost,       \* ends whose bytes go nowhere
          told,       \* by end: bytes its callers of Send were told of
          heard,      \* by end: bytes its callers of Recv were given
          asked,      \* sockets for which SetBlocking(false) was called last
          draining,   \* the socket Drain is at, or INVALID_SOCKET
          reply,      \* of the last call that returned
          piped       \* SIGPIPE was raised by a send with NoSignal

kernel == <<opened, inq, arrived, fin, lost>>

vars == <<sock, kernel, told, heard, asked, draining, reply, piped>>

\* A connection has a client's end and a server's end; NoEnd is no end.
NoEnd == 0

Ends == {2 * l - 1 : l \in Links} \cup {2 * l : l \in Links}

Other(e) == IF e % 2 = 1 THEN e + 1 ELSE e - 1

Closed == [kind |-> "closed", state |-> "none", port |-> 0, end |-> NoEnd, flags |-> {}, shut |-> {},
           queue |-> <<>>, err |-> 0, keepAlive |-> 0]

ECONNREFUSED == 111

\* An answer is kept as far as a property is about it: the errors that say why
\* nothing was received or sent, with their socket, and a value.
Answer(f, err) ==
    IF err \in {"E_NET_DISCONNECTED", "E_NET_WOULD_BLOCK"} THEN [sock |-> f, err |-> err, value |-> 0]
    ELSE [sock |-> INVALID_SOCKET, err |-> IF err = "E_SUCCESS" THEN err ELSE "failure", value |-> 0]

Init ==
    /\ sock = [f \in Fds |-> Closed] /\ opened = 0
    /\ inq = [e \in Ends |-> <<>>] /\ arrived = [e \in Ends |-> 0]
    /\ fin = [e \in Ends |-> "no"] /\ lost = {}
    /\ told = [e \in Ends |-> 0] /\ heard = [e \in Ends |-> <<>>]
    /\ asked = {} /\ draining = INVALID_SOCKET
    /\ reply = Answer(INVALID_SOCKET, "E_SUCCESS") /\ piped = FALSE

GetLastNetworkFailure(errno) ==
    CASE errno = "EWOULDBLOCK" -> "E_NET_WOULD_BLOCK"
      [] errno \in {"EADDRINUSE", "EADDRNOTAVAIL"} -> "E_RESOURCE_NOT_AVAILABLE"
      [] errno \in {"EALREADY", "EINPROGRESS"} -> "E_NET_INPROGRESS"
      [] errno \in {"ECONNABORTED", "EHOSTUNREACH", "ENETDOWN"} -> "E_NET_CONN_ABORTED"
      [] errno = "ECONNREFUSED" -> "E_NET_CONN_REFUSED"
      [] errno = "ECONNRESET" -> "E_NET_CONN_RESET"
      [] errno = "EISCONN" -> "E_NET_CONNECTED"
      [] errno = "ETIMEDOUT" -> "E_NET_TIMEOUT"
      [] OTHER -> "E_FAILURE"

-----------------------------------------------------------------------------
(* The system.                                                              *)

Min2(a, b) == IF a < b THEN a ELSE b

Open(f) == f \in Fds /\ sock[f].kind # "closed"

NonBlocking(f) == "O_NONBLOCK" \in sock[f].flags

Connected(f) == sock[f].state = "connected"

\* What a system call returns: a number, or a reason for a failure.
Gives(n) == [n |-> n, errno |-> "none"]

Fails(errno) == [n |-> -1, errno |-> errno]

\* socket(): the sockets the system has.
Socket(family, type, protocol) ==
    CASE family \in {"AF_INET", "AF_INET6"} /\ type = "SOCK_STREAM" /\ protocol \in {"IPPROTO_IP", "IPPROTO_TCP"} -> "stream"
      [] family \in {"AF_INET", "AF_INET6"} /\ type = "SOCK_DGRAM" /\ protocol \in {"IPPROTO_IP", "IPPROTO_UDP"} -> "datagram"
      [] OTHER -> "none"

\* recv(): what has arrived comes before the end of the stream.  No result is a
\* call that blocks.
RecvResults(f, size) ==
    LET e == sock[f].end
    IN  IF sock[f].kind = "datagram"
        THEN IF sock[f].queue # <<>> THEN {Gives(Min2(size, Head(sock[f].queue).size))}
             ELSE IF NonBlocking(f) THEN {Fails("EWOULDBLOCK")} ELSE {}
        ELSE IF ~Connected(f) THEN {Fails("ENOTCONN")}
        ELSE IF arrived[e] > 0 THEN {Gives(Min2(size, arrived[e]))}
        ELSE IF fin[e] = "rst" THEN {Fails("ECONNRESET")}
        ELSE IF "Read" \in sock[f].shut \/ (fin[e] = "fin" /\ inq[e] = <<>>) THEN {Gives(0)}
        ELSE IF NonBlocking(f) THEN {Fails("EWOULDBLOCK")} ELSE {}

\* What recv() takes from the system's buffers; an error is reported once.
Taken(f, r, msg) ==
    LET e == sock[f].end
    IN  /\ sock' = IF sock[f].kind = "datagram" /\ r.errno = "none" /\ "MSG_PEEK" \notin msg
                   THEN [sock EXCEPT ![f].queue = Tail(@)] ELSE sock
        /\ IF sock[f].kind = "stream" /\ r.n > 0 /\ "MSG_PEEK" \notin msg
           THEN /\ inq' = [inq EXCEPT ![e] = SubSeq(@, r.n + 1, Len(@))]
                /\ arrived' = [arrived EXCEPT ![e] = @ - r.n]
           ELSE UNCHANGED <<inq, arrived>>
        /\ fin' = IF r.errno = "ECONNRESET" THEN [fin EXCEPT ![e] = "fin"] ELSE fin
        /\ UNCHANGED <<lost, opened>>

\* An end is held by a socket, or by a listener until it is accepted.
Held(e) ==
    \E f \in Fds : IF sock[f].state = "listening" THEN \E i \in DOMAIN sock[f].queue : sock[f].queue[i] = e
                  ELSE sock[f].end = e

\* send() on a stream takes a part of the bytes.  To an end that is gone it takes
\* them once, and fails from then on.
SendResults(f, size) ==
    LET e == sock[f].end
        o == Other(e)
    IN  IF ~Connected(f) \/ "Write" \in sock[f].shut \/ e \in lost THEN {Fails("EPIPE")}
        ELSE IF fin[e] = "rst" THEN {Fails("ECONNRESET")}
        ELSE IF ~Held(o) THEN {Gives(size)}
        ELSE IF Len(inq[o]) < Room THEN {Gives(n) : n \in 1 .. Min2(size, Room - Len(inq[o]))}
        ELSE IF NonBlocking(f) THEN {Fails("EWOULDBLOCK")} ELSE {}

\* Ends are gone: one that was never accepted, or has not read everything, resets
\* its connection.
Gone(ends, abort) ==
    LET reset(e) == Other(e) \in ends /\ (abort \/ inq[Other(e)] # <<>>)
    IN  /\ fin' = [e \in Ends |-> CASE reset(e) /\ fin[e] = "no" -> "rst"
                                    [] ~reset(e) /\ Other(e) \in ends /\ fin[e] = "no" -> "fin"
                                    [] OTHER -> fin[e]]
        /\ inq' = [e \in Ends |-> IF e \in ends THEN <<>> ELSE IF reset(e) THEN SubSeq(inq[e], 1, arrived[e]) ELSE inq[e]]
        /\ arrived' = [e \in Ends |-> IF e \in ends THEN 0 ELSE arrived[e]]
        /\ UNCHANGED <<lost, opened>>

Deliver(e) ==
    /\ arrived[e] < Len(inq[e])
    /\ arrived' = [arrived EXCEPT ![e] = Len(inq[e])]
    /\ UNCHANGED <<sock, opened, inq, fin, lost, told, heard, asked, draining, reply, piped>>

-----------------------------------------------------------------------------
(* Calls.  All but CreateSocket refuse INVALID_SOCKET; the system refuses a  *)
(* number that is not open.                                                  *)

Returns(err) == reply' = Answer(INVALID_SOCKET, err) /\ UNCHANGED <<told, heard, draining, piped>>

ReturnsValue(n) ==
    /\ reply' = [Answer(INVALID_SOCKET, "E_SUCCESS") EXCEPT !.value = n]
    /\ UNCHANGED <<told, heard, draining, piped>>

\* With a socket that is none.
ReturnsInvalid == ReturnsValue(INVALID_SOCKET)

Refused(f) ==
    /\ ~Open(f)
    /\ Returns(IF f = INVALID_SOCKET THEN "E_INVALID_ARGUMENT" ELSE GetLastNetworkFailure("EBADF"))
    /\ UNCHANGED <<sock, kernel, asked>>

\* The failure of socket(), -1, is not zero: it is returned as a socket.
CreateSocket(config) ==
    LET kind == Socket(GetAddressFamily(config.family), GetSocketType(config.type), GetSocketProtocol(config.protocol))
    IN  \/ /\ kind = "none"
           /\ ReturnsInvalid
           /\ UNCHANGED <<sock, kernel, asked>>
        \/ /\ kind # "none" /\ opened < MaxOpened /\ opened' = opened + 1
           /\ \E f \in Fds :
                 /\ sock[f] = Closed /\ \A g \in Fds : g < f => sock[g] # Closed
                 /\ sock' = [sock EXCEPT ![f] = [Closed EXCEPT !.kind = kind, !.state = "new", !.flags = {"O_RDWR"}]]
                 /\ Returns("E_SUCCESS")
           /\ UNCHANGED <<inq, arrived, fin, lost, asked>>

Bind(f, port) ==
    /\ Open(f)
    /\ \/ /\ sock[f].port # 0
          /\ Returns(GetLastNetworkFailure("EINVAL")) /\ UNCHANGED sock
       \/ /\ sock[f].port = 0 /\ \E g \in Fds : sock[g].kind = sock[f].kind /\ sock[g].port = port
          /\ Returns(GetLastNetworkFailure("EADDRINUSE")) /\ UNCHANGED sock
       \/ /\ sock[f].port = 0 /\ \A g \in Fds : sock[g].kind = sock[f].kind => sock[g].port # port
          /\ sock' = [sock EXCEPT ![f].port = port]
          /\ Returns("E_SUCCESS")
    /\ UNCHANGED <<kernel, asked>>

Listen(f) ==
    /\ Open(f)
    /\ \/ /\ sock[f].kind = "stream" /\ sock[f].state \in {"new", "listening"}
          /\ sock' = [sock EXCEPT ![f].state = "listening"]
          /\ Returns("E_SUCCESS")
       \/ /\ ~(sock[f].kind = "stream" /\ sock[f].state \in {"new", "listening"})
          /\ Returns(GetLastNetworkFailure("EINVAL")) /\ UNCHANGED sock
    /\ UNCHANGED <<kernel, asked>>

\* connect() on a stream.  Without blocking, the system answers before it knows.
Connect(f, port) ==
    LET listeners == {g \in Fds : sock[g].state = "listening" /\ sock[g].port = port /\ sock[g].queue = <<>>}
        answer == IF NonBlocking(f) THEN GetLastNetworkFailure("EINPROGRESS") ELSE "E_SUCCESS"
    IN  /\ Open(f) /\ sock[f].kind = "stream"
        /\ \/ /\ sock[f].state # "new"
              /\ Returns(GetLastNetworkFailure("EISCONN"))
              /\ UNCHANGED <<sock, kernel>>
           \/ /\ sock[f].state = "new" /\ \A g \in Fds : ~(sock[g].state = "listening" /\ sock[g].port = port)
              /\ Returns(IF NonBlocking(f) THEN answer ELSE GetLastNetworkFailure("ECONNREFUSED"))
              /\ sock' = IF NonBlocking(f) THEN [sock EXCEPT ![f].err = ECONNREFUSED] ELSE sock
              /\ UNCHANGED kernel
           \/ /\ sock[f].state = "new"
              /\ \E l \in Links, g \in listeners :
                    LET c == 2 * l - 1
                        s == 2 * l
                    IN  /\ ~Held(c) /\ ~Held(s) /\ \A k \in Links : k < l => Held(2 * k - 1) \/ Held(2 * k)
                        /\ sock' = [sock EXCEPT ![f].state = "connected", ![f].end = c, ![g].queue = Append(@, s)]
                        /\ inq' = [inq EXCEPT ![c] = <<>>, ![s] = <<>>]
                        /\ arrived' = [arrived EXCEPT ![c] = 0, ![s] = 0]
                        /\ fin' = [fin EXCEPT ![c] = "no", ![s] = "no"]
                        /\ lost' = lost \ {c, s}
                        /\ told' = [told EXCEPT ![c] = 0, ![s] = 0]
                        /\ heard' = [heard EXCEPT ![c] = <<>>, ![s] = <<>>]
              /\ reply' = Answer(INVALID_SOCKET, answer)
              /\ UNCHANGED <<opened, draining, piped>>
        /\ UNCHANGED asked

\* The failure of accept(), -1, is not zero: it is returned as a socket.
Accept(f) ==
    /\ Open(f)
    /\ \/ /\ sock[f].state = "listening" /\ sock[f].queue # <<>>
          /\ opened < MaxOpened /\ opened' = opened + 1
          /\ \E g \in Fds :
                /\ sock[g] = Closed /\ \A h \in Fds : h < g => sock[h] # Closed
                /\ sock' = [sock EXCEPT ![f].queue = Tail(@),
                                        ![g] = [Closed EXCEPT !.kind = "stream", !.state = "connected", !.flags = {"O_RDWR"},
                                                              !.port = sock[f].port, !.end = Head(sock[f].queue)]]
                /\ Returns("E_SUCCESS")
       \/ /\ sock[f].state # "listening" \/ (sock[f].queue = <<>> /\ NonBlocking(f))
          /\ ReturnsInvalid
          /\ UNCHANGED <<sock, opened>>
    /\ UNCHANGED <<inq, arrived, fin, lost, asked>>

Close(f) ==
    /\ Open(f) /\ f # draining
    /\ sock' = [sock EXCEPT ![f] = Closed]
    /\ IF sock[f].state = "listening" THEN Gone({sock[f].queue[i] : i \in DOMAIN sock[f].queue}, TRUE)
       ELSE Gone({sock[f].end} \ {NoEnd}, FALSE)
    /\ asked' = asked \ {f}
    /\ Returns("E_SUCCESS")

\* The callers' view of a Recv: what they were given, unless they only peeked.
Hears(f, n, options) ==
    LET e == sock[f].end
    IN  heard' = IF sock[f].kind = "stream" /\ n > 0 /\ ~Has(options, MessageOption.Peek)
                 THEN [heard EXCEPT ![e] = @ \o SubSeq(inq[e], 1, n)] ELSE heard

\* What Recv does after its first test; Drain calls it too.  An empty buffer is not
\* the end of the stream.
Received(f, size, options) ==
    \/ /\ size = 0
       /\ reply' = Answer(f, "E_SUCCESS")
       /\ UNCHANGED <<sock, kernel, heard>>
    \/ /\ size # 0
       /\ \E r \in RecvResults(f, size) :
             /\ Taken(f, r, GetMessageOption(options))
             /\ Hears(f, r.n, options)
             /\ reply' = Answer(f, CASE r.errno # "none" -> GetLastNetworkFailure(r.errno)
                                              [] r.n = 0 -> "E_NET_DISCONNECTED"
                                              [] OTHER -> "E_SUCCESS")

Recv(f, size, options) ==
    /\ Open(f)
    /\ Received(f, size, options)
    /\ UNCHANGED <<told, asked, draining, piped>>

\* The end of a stream is a success with nothing received.
RecvFrom(f, size, options) ==
    /\ Open(f)
    /\ \/ /\ size = 0
          /\ reply' = Answer(f, "E_SUCCESS")
          /\ UNCHANGED <<sock, kernel, heard>>
       \/ /\ size # 0
          /\ \E r \in RecvResults(f, size) :
                /\ Taken(f, r, GetMessageOption(options))
                /\ Hears(f, r.n, options)
                /\ reply' = Answer(f, IF r.errno # "none" THEN GetLastNetworkFailure(r.errno)
                                                   ELSE "E_SUCCESS")
    /\ UNCHANGED <<told, asked, draining, piped>>

\* send() puts the bytes that follow the ones the callers were told of in the
\* queue of the other end.
Puts(f, r) ==
    LET e == sock[f].end
        o == Other(e)
    IN  /\ IF r.n > 0 /\ Held(o)
           THEN inq' = [inq EXCEPT ![o] = @ \o [i \in 1 .. r.n |-> told[e] + i]] ELSE UNCHANGED inq
        /\ lost' = IF r.n > 0 /\ ~Held(o) THEN lost \cup {e} ELSE lost
        /\ fin' = IF r.errno = "ECONNRESET" THEN [fin EXCEPT ![e] = "fin"] ELSE fin
        /\ UNCHANGED <<arrived, opened>>

\* EPIPE comes with a SIGPIPE, unless the caller asked for none.
Raises(r, msg, options) ==
    piped' = (piped \/ (r.errno = "EPIPE" /\ "MSG_NOSIGNAL" \notin msg /\ Has(options, MessageOption.NoSignal)))

Send_ReturnsSize(f, size, options) ==
    /\ Open(f) /\ sock[f].kind = "stream" /\ size > 0
    /\ Connected(f) => told[sock[f].end] + told[Other(sock[f].end)] + size <= MaxSent
    /\ \E r \in SendResults(f, size) :
          /\ Puts(f, r)
          /\ Raises(r, GetMessageOption(options), options)
          /\ told' = IF r.n > 0 THEN [told EXCEPT ![sock[f].end] = @ + size] ELSE told
          /\ reply' = Answer(f, IF r.errno # "none" THEN GetLastNetworkFailure(r.errno) ELSE "E_SUCCESS")
    /\ UNCHANGED <<sock, heard, asked, draining>>

\* On a stream.  A Send of nothing does not reach the system.
Send(f, size, options) ==
    /\ Open(f) /\ sock[f].kind = "stream"
    /\ Connected(f) => told[sock[f].end] + told[Other(sock[f].end)] + size <= MaxSent
    /\ \/ /\ size = 0
          /\ reply' = Answer(f, "E_SUCCESS")
          /\ UNCHANGED <<kernel, told, piped>>
       \/ /\ size # 0
          /\ \E r \in SendResults(f, size) :
                /\ Puts(f, r)
                /\ Raises(r, GetMessageOption(options), options)
                /\ told' = IF r.n > 0 THEN [told EXCEPT ![sock[f].end] = @ + r.n] ELSE told
                /\ reply' = Answer(f, IF r.errno # "none" THEN GetLastNetworkFailure(r.errno)
                                               ELSE "E_SUCCESS")
    /\ UNCHANGED <<sock, heard, asked, draining>>

\* Datagrams for a full queue, or for a port that nobody has, are lost.
Arrives(f, port, size) ==
    LET from == IF sock[f].port = 0 THEN f ELSE sock[f].port
    IN  sock' = [g \in Fds |->
                    IF sock[g].kind = "datagram" /\ sock[g].port = port /\ Len(sock[g].queue) < Room
                    THEN [sock[g] EXCEPT !.queue = Append(@, [from |-> from, size |-> size])] ELSE sock[g]]

\* Another program may send an empty datagram, which SendTo never does.
EmptyArrives(port) ==
    /\ \E g \in Fds : sock[g].kind = "datagram" /\ sock[g].port = port /\ Len(sock[g].queue) < Room
    /\ sock' = [g \in Fds |->
                    IF sock[g].kind = "datagram" /\ sock[g].port = port
                    THEN [sock[g] EXCEPT !.queue = Append(@, [from |-> 0, size |-> 0])] ELSE sock[g]]
    /\ UNCHANGED <<kernel, told, heard, asked, draining, reply, piped>>

\* On a datagram socket.  An empty datagram does not reach the system.
SendTo(f, port, size) ==
    /\ Open(f) /\ sock[f].kind = "datagram"
    /\ IF size = 0 THEN UNCHANGED sock ELSE Arrives(f, port, size)
    /\ Returns("E_SUCCESS")
    /\ UNCHANGED <<kernel, asked>>

GetFlags(f) == sock[f].flags

SetFlags(f, flags) == sock' = [sock EXCEPT ![f].flags = flags]

SetBlocking_Toggles(f, blocking) ==
    /\ Open(f)
    /\ SetFlags(f, IF ~blocking THEN GetFlags(f) \cup {"O_NONBLOCK"} ELSE GetFlags(f) \cap {"O_NONBLOCK"})
    /\ asked' = IF blocking THEN asked \ {f} ELSE asked \cup {f}
    /\ Returns("E_SUCCESS")
    /\ UNCHANGED kernel

SetBlocking(f, blocking) ==
    /\ Open(f)
    /\ SetFlags(f, IF ~blocking THEN GetFlags(f) \cup {"O_NONBLOCK"} ELSE GetFlags(f) \ {"O_NONBLOCK"})
    /\ asked' = IF blocking THEN asked \ {f} ELSE asked \cup {f}
    /\ Returns("E_SUCCESS")
    /\ UNCHANGED kernel

\* On a stream that is not listening.
Shutdown(f, mode) ==
    LET how == CASE mode = "Read" -> {"Read"} [] mode = "Write" -> {"Write"} [] mode = "Both" -> {"Read", "Write"} [] OTHER -> {}
        o == Other(sock[f].end)
    IN  /\ Open(f) /\ sock[f].kind = "stream" /\ sock[f].state # "listening"
        /\ \/ /\ how = {}
              /\ Returns("E_INVALID_ARGUMENT") /\ UNCHANGED <<sock, fin>>
           \/ /\ how # {} /\ ~Connected(f)
              /\ Returns(GetLastNetworkFailure("ENOTCONN")) /\ UNCHANGED <<sock, fin>>
           \/ /\ how # {} /\ Connected(f)
              /\ sock' = [sock EXCEPT ![f].shut = @ \cup how]
              /\ fin' = IF "Write" \in how /\ fin[o] = "no" THEN [fin EXCEPT ![o] = "fin"] ELSE fin
              /\ Returns("E_SUCCESS")
        /\ UNCHANGED <<opened, inq, arrived, lost, asked>>

GetSockName(f) == Open(f) /\ ReturnsValue(sock[f].port) /\ UNCHANGED <<sock, kernel, asked>>

GetPeerName(f) ==
    /\ Open(f)
    /\ Returns(IF Connected(f) THEN "E_SUCCESS" ELSE GetLastNetworkFailure("ENOTCONN"))
    /\ UNCHANGED <<sock, kernel, asked>>

\* The forms for a bool go through an int32_t.
BoolToOption(value) == IF value THEN 1 ELSE 0

OptionToBool(value) == value # 0

\* The forms for a duration and a multicast group.
OptionNotImplemented(f) ==
    /\ Open(f)
    /\ Returns("E_NOT_IMPLEMENTED")
    /\ UNCHANGED <<sock, kernel, asked>>

\* The system knows no option -1.
SetSocketOption(f, option, value) ==
    LET known == GetSocketOpt(option) = "SO_KEEPALIVE" /\ GetSocketOptLevel(option) = "SOL_SOCKET"
    IN  /\ Open(f)
        /\ sock' = IF known THEN [sock EXCEPT ![f].keepAlive = BoolToOption(value)] ELSE sock
        /\ Returns(IF known THEN "E_SUCCESS" ELSE GetLastNetworkFailure("ENOPROTOOPT"))
        /\ UNCHANGED <<kernel, asked>>

\* Reading the pending error of a socket clears it.
GetSocketOption(f, option) ==
    LET number == GetSocketOpt(option)
    IN  /\ Open(f)
        /\ sock' = IF number = "SO_ERROR" THEN [sock EXCEPT ![f].err = 0] ELSE sock
        /\ CASE number = "SO_ERROR" -> ReturnsValue(sock[f].err)
             [] number = "SO_KEEPALIVE" -> ReturnsValue(IF OptionToBool(sock[f].keepAlive) THEN 1 ELSE 0)
             [] OTHER -> Returns(GetLastNetworkFailure("ENOPROTOOPT"))
        /\ UNCHANGED <<kernel, asked>>

-----------------------------------------------------------------------------
(* SocketPair::Drain, on the end of a stream.                               *)

Drain(f) ==
    /\ draining = INVALID_SOCKET
    /\ Open(f) /\ sock[f].kind = "stream" /\ Connected(f)
    /\ draining' = f
    /\ UNCHANGED <<sock, kernel, told, heard, asked, reply, piped>>

DrainStep_Once ==
    /\ draining # INVALID_SOCKET
    /\ Received(draining, DrainSize, {})
    /\ draining' = INVALID_SOCKET
    /\ UNCHANGED <<told, asked, piped>>

\* One Recv: again when it gave something, done when it would block or failed.
DrainStep ==
    /\ draining # INVALID_SOCKET
    /\ Received(draining, DrainSize, {})
    /\ draining' = IF reply'.err = "E_SUCCESS" THEN draining ELSE INVALID_SOCKET
    /\ UNCHANGED <<told, asked, piped>>

-----------------------------------------------------------------------------

\* The calls, in groups that are looked at one by one.  Bounds: bytes are sent by
\* clients, since the two directions of a connection are alike; the ends that are
\* drained are the accepted ones, as a pair's; and one end is shut down.
ServerEnd(f) == Connected(f) /\ sock[f].end % 2 = 0

\* How sockets come and go, and what is sent on streams.
ConnectNext ==
    \/ \E config \in Configs : CreateSocket(config)
    \/ \E e \in Ends : Deliver(e)
    \/ \E f \in Fds :
          \/ Listen(f) \/ Accept(f) \/ Close(f)
          \/ \E p \in Ports : Bind(f, p) \/ Connect(f, p)
          \/ ~ServerEnd(f) /\ \E size \in Sizes, o \in Options : Send(f, size, o)

StreamNext ==
    \E f \in Fds :
        \/ \E size \in Sizes, o \in Options : Recv(f, size, o) \/ RecvFrom(f, size, o)
        \/ (\A g \in Fds : sock[g].shut = {}) /\ \E mode \in Enumerators(SocketShutdownMode) : Shutdown(f, mode)
        \/ Connected(f) /\ \E b \in BOOLEAN : SetBlocking(f, b)

DrainNext ==
    \/ \E f \in Fds : \/ ServerEnd(f) /\ Drain(f)
                      \/ GetSocketOption(f, "SocketError")
                      \/ \E b \in BOOLEAN : SetBlocking(f, b)
    \/ DrainStep

DatagramNext ==
    \/ \E config \in Configs : CreateSocket(config)
    \/ \E f \in Fds \cup {INVALID_SOCKET} : Refused(f)
    \/ \E p \in Ports : EmptyArrives(p)
    \/ \E f \in Fds :
          \/ Close(f) \/ GetSockName(f) \/ GetPeerName(f) \/ OptionNotImplemented(f)
          \/ \E p \in Ports : Bind(f, p) \/ \E size \in Sizes : SendTo(f, p, size)
          \/ \E size \in Sizes, o \in Options : Recv(f, size, o) \/ RecvFrom(f, size, o)
          \/ \E b \in BOOLEAN : SetBlocking(f, b)
          \/ \E o \in {"KeepAlive", "TcpKeepIdle"}, v \in BOOLEAN : SetSocketOption(f, o, v)
          \/ \E o \in {"KeepAlive", "TcpKeepIdle"} : GetSocketOption(f, o)

Next == ConnectNext \/ StreamNext \/ DrainNext \/ DatagramNext

Spec == Init /\ [][Next]_vars

-----------------------------------------------------------------------------
(* Properties.                                                              *)

\* Type correctness of the sockets and of the streams.
TypeOK ==
    /\ \A f \in Fds : /\ sock[f].kind \in {"closed", "stream", "datagram"}
                      /\ sock[f].state \in {"none", "new", "listening", "connected"}
                      /\ sock[f].end \in Ends \cup {NoEnd}
                      /\ sock[f].kind # "closed" => "O_RDWR" \in sock[f].flags
    /\ \A e \in Ends : arrived[e] \in 0 .. Len(inq[e]) /\ Len(inq[e]) <= Room
    /\ told \in [Ends -> 0 .. MaxSent]
    /\ draining \in Fds \cup {INVALID_SOCKET}

Numbers(n) == [i \in 1 .. n |-> i]

\* A stream keeps its bytes: what the callers of Recv were given at one end, and
\* what still waits there, is what the callers of Send were told was sent at the
\* other, in that order, whatever was peeked at, sent in part, drained or shut
\* down in between.  A reset loses a part at the end, never one in the middle.
StreamKept ==
    \A e \in Ends :
        LET o == Other(e)
            there == heard[o] \o inq[o]
        IN  Held(o) => /\ there = Numbers(Len(there)) /\ Len(there) <= told[e]
                       /\ Held(e) => Len(there) = told[e]

\* Recv says E_NET_DISCONNECTED of a stream at its end only: everything the other
\* end sent has been read and it sends no more, or reading was shut down; so never
\* for an empty buffer.  Of a datagram socket, which has no end, it says so for an
\* empty datagram, for recv() returns 0 then too.
EndIsEnd ==
    LET s == sock[reply.sock]
    IN  reply.err = "E_NET_DISCONNECTED" /\ s.kind = "stream" =>
            (fin[s.end] = "fin" /\ inq[s.end] = <<>>) \/ "Read" \in s.shut

\* A call says that it would block only on a socket that was asked not to, and no
\* send that asked for no signal raises one.
RepliesAsked ==
    /\ reply.err = "E_NET_WOULD_BLOCK" => reply.sock \in asked
    /\ ~piped

\* A Drain that ends well has left nothing that had arrived.
DrainEmpties ==
    [][draining # INVALID_SOCKET /\ draining' = INVALID_SOCKET /\ reply'.err \in {"E_SUCCESS", "E_NET_WOULD_BLOCK"} =>
          arrived'[sock[draining].end] = 0]_vars
==============================================================================
