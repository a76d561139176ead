------------------------------ MODULE MCNetwork ------------------------------
(***************************************************************************)
(* The network: streams and datagrams through StandardNetwork, the socket  *)
(* pair, socket addresses and the hints for a lookup.  They are looked at  *)
(* one by one: a behaviour is one of one of them and leaves the others as  *)
(* they were made.                                                         *)
(***************************************************************************)
EXTENDS Integers

CONSTANTS Fds, MaxOpened, Room, MaxSent, Sizes, DrainSize, Options, NetPorts,   \* StandardNetwork
          PairFds,                                                    \* SocketPair
          Radix, Octets, Ports, Paths,                                \* SocketAddress
          Bits                                                        \* AddressInfo

VARIABLES part,       \* what this behaviour is about
          sock, opened, inq, arrived, fin, lost, told, heard, asked, draining, reply, piped,
          m_reader, m_writer, read, write, at, nonblocking, fd, owner, peer, blocks, failed,
          m_address, m_family, wire, outcome,
          hints, info

netVars == <<sock, opened, inq, arrived, fin, lost, told, heard, asked, draining, reply, piped>>

pairVars == <<m_reader, m_writer, read, write, at, nonblocking, fd, owner, peer, blocks, failed>>

addressVars == <<m_address, m_family, wire, outcome>>

hintVars == <<hints, info>>

TCPv4 == [family |-> "Inet4", protocol |-> "Tcp", type |-> "Stream"]

UDPv4 == [family |-> "Inet4", protocol |-> "Udp", type |-> "Datagram"]

\* What the tables make a datagram socket of.
IPv4 == [family |-> "Inet4", protocol |-> "Ip", type |-> "Datagram"]

Streams == INSTANCE StandardNetwork WITH Configs <- {TCPv4}, Links <- {1}, Ports <- NetPorts

Datagrams == INSTANCE StandardNetwork WITH Configs <- {UDPv4, IPv4}, Links <- {1}, Ports <- NetPorts

Pair == INSTANCE SocketPair WITH Fds <- PairFds

Address == INSTANCE SocketAddress

Hints == INSTANCE AddressInfo

ASSUME FdsAssumption == Pair!INVALID_SOCKET \notin PairFds /\ Streams!INVALID_SOCKET \notin Fds

Init ==
    /\ part \in {"streams", "drain", "datagrams", "pair", "address", "hints"}
    /\ Streams!Init /\ Pair!Init /\ Address!Init /\ Hints!Init

Next ==
    /\ UNCHANGED part
    /\ \/ part = "streams" /\ (Streams!ConnectNext \/ Streams!StreamNext) /\ UNCHANGED <<pairVars, addressVars, hintVars>>
       \/ part = "drain" /\ (Streams!ConnectNext \/ Streams!DrainNext) /\ UNCHANGED <<pairVars, addressVars, hintVars>>
       \/ part = "datagrams" /\ Datagrams!DatagramNext /\ UNCHANGED <<pairVars, addressVars, hintVars>>
       \/ part = "pair" /\ Pair!Next /\ UNCHANGED <<netVars, addressVars, hintVars>>
       \/ part = "address" /\ Address!Next /\ UNCHANGED <<netVars, pairVars, hintVars>>
       \/ part = "hints" /\ Hints!Next /\ UNCHANGED <<netVars, pairVars, addressVars>>

Spec == Init /\ [][Next]_<<part, netVars, pairVars, addressVars, hintVars>>

-----------------------------------------------------------------------------

\* Type correctness of all of them.
TypeOK ==
    /\ part \in {"streams", "drain", "datagrams"} => Streams!TypeOK
    /\ part = "pair" => Pair!TypeOK
    /\ part = "address" => Address!TypeOK
    /\ part = "hints" => Hints!TypeOK

\* A stream keeps its bytes: what the callers of Recv were given at one end, and
\* what still waits there, is what the callers of Send were told was sent at the
\* other, in that order, whatever was peeked at, sent in part, drained, shut down
\* or reset in between.  Recv says E_NET_DISCONNECTED of a stream at its end only:
\* everything that was sent has been read, or reading was shut down.
StreamKept == part \in {"streams", "drain"} => Streams!StreamKept /\ Streams!EndIsEnd

\* A call says that it would block only on a socket that was asked not to, and no
\* send that asked for no signal raises one.
RepliesAsked == part \in {"streams", "drain", "datagrams"} => Streams!RepliesAsked

\* A Drain that ends well has left nothing that had arrived.
DrainEmpties == Streams!DrainEmpties

\* A pair that has a reader has a writer, connected to it, and both are open; the
\* pair never closes a descriptor of someone else, and its listener does not outlive
\* Start, whichever call fails; as long as none has, the pair owns its two ends
\* only, in the mode Start was asked for.
PairOwnsItsEnds == part = "pair" => Pair!EndsConnected /\ Pair!ClosesOnlyItsOwn /\ Pair!StartedAsAsked

\* m_family names the alternative of an address's variant and survives every
\* conversion.  What ToSockAddr writes of an IPv4 or IPv6 address FromSockAddr reads
\* back, port and bytes; of a Unix address it loses the path.  An IPv4 address
\* survives its way through IPv6 and through a number, and comparing tells
\* addresses apart that differ.
AddressKept == part = "address" => Address!AddressKept

\* The numbers of the system, and the names, stand for the enumerators they were
\* made from: what is written to an addrinfo reads back.
NumbersAgree == part = "hints" => Hints!NumbersAgree
==============================================================================
