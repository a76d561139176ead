---------------------------- MODULE SocketAddress ----------------------------
(***************************************************************************)
(* InetAddress, Inet6Address and SocketAddress (Network.cpp): an address   *)
(* that is made from numbers, from text and from what the system wrote in  *)
(* a sockaddr, and that is written to a sockaddr.  Addresses, ports, flow  *)
(* labels and scopes are bytes in a sockaddr, the text of an address is    *)
(* what its parser makes of it.  The program is built with assertions.     *)
(***************************************************************************)
EXTENDS ByteOrder, NetworkTypes

CONSTANTS Octets,      \* bytes that addresses are made of
          Ports,       \* 32-bit arguments of the constructors
          Paths        \* of Unix sockets; "" is the empty one

VARIABLES m_address,   \* the variant: its alternative and the fields of that
          m_family,
          wire,        \* a sockaddr
          outcome      \* of the last call: "ok", "failure", "thrown", "aborted"

vars == <<m_address, m_family, wire, outcome>>

-----------------------------------------------------------------------------
(* InetAddress and Inet6Address: four and sixteen bytes.                    *)

Fill(n) == [k \in 1 .. n |-> 0]

Empty(bytes) == \A k \in DOMAIN bytes : bytes[k] = 0

AsV6(a) == IF Empty(a) THEN Fill(16) ELSE Fill(10) \o <<255, 255>> \o a

IsMappedV4(b) == ~Empty(b) /\ Empty(SubSeq(b, 1, 10)) /\ b[11] = 255 /\ b[12] = 255

AsV4(b) == IF IsMappedV4(b) THEN SubSeq(b, 13, 16) ELSE Fill(4)

\* A number of 32 bits is its two halves: TLC's integers are too narrow for it.
ToDecimal(a) == <<(a[1] * 2 ^ 8) + a[2], (a[3] * 2 ^ 8) + a[4]>>

FromDecimal(d) == <<(d[1] \div 2 ^ 8) % 256, d[1] % 256, (d[2] \div 2 ^ 8) % 256, d[2] % 256>>

\* BigEndian<uint32_t>.
Store(v) == PutBytes("BE", 2, v[1]) \o PutBytes("BE", 2, v[2])

Load(bytes) == <<GetValue("BE", 2, SubSeq(bytes, 1, 2)), GetValue("BE", 2, SubSeq(bytes, 3, 4))>>

V4 == {<<a, 0, 0, b>> : a, b \in Octets}

V6 == {AsV6(a) : a \in V4} \cup {<<a>> \o Fill(14) \o <<b>> : a, b \in Octets}

-----------------------------------------------------------------------------
(* The alternatives of the variant.                                         *)

Monostate == [is |-> "monostate"]

InetAddr(a, p) == [is |-> "Inet4", address |-> a, port |-> p]

Inet6Addr(a, p, flow, scope) ==
    [is |-> "Inet6", address |-> a, port |-> p, flowInfo |-> flow, scope |-> scope]

UnixAddr(p) == [is |-> "Unix", path |-> p]

\* What ToSockAddr writes for an address, and the bytes it needs.
Encoded(addr) ==
    CASE addr.is = "Inet4" ->
           [family |-> GetAddressFamily("Inet4"), port |-> PutBytes("BE", 2, addr.port), address |-> addr.address]
      [] addr.is = "Inet6" ->
           [family |-> GetAddressFamily("Inet6"), port |-> PutBytes("BE", 2, addr.port), address |-> addr.address,
            flowInfo |-> Store(addr.flowInfo), scope |-> Store(addr.scope)]
      [] addr.is = "Unix" -> [family |-> GetAddressFamily("Unix"), path |-> addr.path]

SOCKLEN(family) == CASE family = "Inet4" -> 16 [] family = "Inet6" -> 28 [] family = "Unix" -> 110

\* What FromSockAddr reads.  The length of a path is taken from the one it is to
\* be copied to, which is empty.
Decoded(saddr) ==
    CASE FamilyOf(saddr.family) = "Inet4" -> InetAddr(saddr.address, GetValue("BE", 2, saddr.port))
      [] FamilyOf(saddr.family) = "Inet6" ->
           Inet6Addr(saddr.address, GetValue("BE", 2, saddr.port),
                     Load(saddr.flowInfo), Load(saddr.scope))
      [] FamilyOf(saddr.family) = "Unix" -> UnixAddr("")

-----------------------------------------------------------------------------
(* Comparing.  The family of an address is that of its alternative.         *)

IsEmpty(addr) == addr.is = "monostate"

LessBytes(a, b) == \E k \in DOMAIN a : a[k] < b[k] /\ \A j \in 1 .. k - 1 : a[j] = b[j]

\* An address without a family is equal to none; flow labels and scopes are not
\* looked at.
Equals(a, b) ==
    /\ a.is = b.is
    /\ CASE a.is \in {"Inet4", "Inet6"} -> a.port = b.port /\ a.address = b.address
         [] a.is = "Unix" -> a.path = b.path
         [] OTHER -> FALSE

\* Addresses with different ports are not ordered.
LessThan(a, b) ==
    /\ a.is = b.is
    /\ CASE a.is \in {"Inet4", "Inet6"} -> a.port = b.port /\ LessBytes(a.address, b.address)
         [] a.is = "Unix" -> a.path = "" /\ b.path # ""
         [] OTHER -> FALSE

-----------------------------------------------------------------------------
(* SocketAddress.                                                           *)

\* sockaddrs that the system hands out, the ones of other families included.
FromSystem ==
    {Encoded(Inet6Addr(a, 80, flow, <<1, 0>>)) : a \in V6, flow \in {<<0, 0>>, <<1, 258>>}} \cup
    {Encoded(UnixAddr(p)) : p \in Paths} \cup {[family |-> f] : f \in {"AF_UNSPEC", "AF_PACKET"}}

Init ==
    /\ m_address = Monostate /\ m_family = "None"
    /\ wire = [family |-> "AF_UNSPEC"]
    /\ outcome = "ok"

Call == outcome # "aborted"

\* The constructors; the port is cut to 16 bits.
Construct ==
    /\ Call
    /\ \E p \in Ports :
          \/ \E a \in V4 : m_address' = InetAddr(a, p % 2 ^ 16) /\ m_family' = "Inet4"
          \/ \E a \in V6 : m_address' = Inet6Addr(a, p % 2 ^ 16, <<0, 0>>, <<0, 0>>) /\ m_family' = "Inet6"
    /\ outcome' = "ok"
    /\ UNCHANGED wire

\* The user writes to the path that Unix() refers to.
SetPath(p) ==
    /\ Call /\ m_address.is = "Unix"
    /\ m_address' = UnixAddr(p)
    /\ outcome' = "ok"
    /\ UNCHANGED <<m_family, wire>>

SystemWrites(saddr) == Call /\ wire' = saddr /\ UNCHANGED <<m_address, m_family, outcome>>

FromSockAddr ==
    /\ Call
    /\ m_family' = FamilyOf(wire.family)
    /\ \/ /\ m_family' \in {"Inet4", "Inet6", "Unix"}
          /\ m_address' = Decoded(wire)
          /\ outcome' = "ok"
       \/ /\ m_family' \notin {"Inet4", "Inet6", "Unix"}
          /\ outcome' = "aborted"
          /\ UNCHANGED m_address
    /\ UNCHANGED wire

ToSockAddr(len) ==
    /\ Call
    /\ \/ /\ len = 0
          /\ outcome' = "failure" /\ UNCHANGED wire
       \/ /\ len # 0 /\ m_family \in {"Inet4", "Inet6", "Unix"} /\ len < SOCKLEN(m_family)
          /\ outcome' = "failure" /\ UNCHANGED wire
       \/ /\ m_family \in {"Inet4", "Inet6", "Unix"} /\ len >= SOCKLEN(m_family)
          /\ wire' = Encoded(m_address)
          /\ outcome' = "ok"
       \/ /\ len # 0 /\ m_family \notin {"Inet4", "Inet6", "Unix"}
          /\ outcome' = "aborted" /\ UNCHANGED wire
    /\ UNCHANGED <<m_address, m_family>>

\* A text is cut at its first colon.  The text of an IPv6 address has two colons
\* or more, so what follows the first is no number and the parse fails; so does
\* one in brackets, which are left on.  NoPort stands for a text without a colon.
NoPort == -1

NotANumber == -2

ParsePort(number) == IF number = NoPort THEN 0 ELSE number

PortParses(number) == number = NoPort \/ number \in 0 .. 2 ^ 16 - 1

FromString_FamilyFirst(host, number) ==
    /\ Call
    /\ \/ /\ ~(PortParses(number) /\ host \in V4)
          /\ outcome' = "failure" /\ UNCHANGED <<m_address, m_family>>
       \/ /\ PortParses(number) /\ host \in V4 /\ m_address.is = "Inet4"
          /\ m_family' = "Inet4"
          /\ m_address' = InetAddr(host, ParsePort(number))
          /\ outcome' = "ok"
       \/ /\ PortParses(number) /\ host \in V4 /\ m_address.is # "Inet4"
          /\ m_family' = "Inet4"
          /\ outcome' = "thrown" /\ UNCHANGED m_address
    /\ UNCHANGED wire

\* Inet(), which throws when the variant has another alternative, comes before
\* the assignment of m_family.
FromString(host, number) ==
    /\ Call
    /\ \/ /\ ~(PortParses(number) /\ host \in V4)
          /\ outcome' = "failure" /\ UNCHANGED <<m_address, m_family>>
       \/ /\ PortParses(number) /\ host \in V4 /\ m_address.is = "Inet4"
          /\ m_family' = "Inet4"
          /\ m_address' = InetAddr(host, ParsePort(number))
          /\ outcome' = "ok"
       \/ /\ PortParses(number) /\ host \in V4 /\ m_address.is # "Inet4"
          /\ outcome' = "thrown" /\ UNCHANGED <<m_address, m_family>>
    /\ UNCHANGED wire

Next ==
    \/ Construct \/ FromSockAddr
    \/ \E p \in Paths : SetPath(p)
    \/ \E saddr \in FromSystem : SystemWrites(saddr)
    \/ \E len \in {0, 16, 28, 128} : ToSockAddr(len)
    \/ \E host \in V4 \cup {<<"an IPv6 address">>, <<"[an address]">>, <<"no address">>},
          number \in {NoPort, NotANumber, 443, 2 ^ 16 - 1, 2 ^ 16} : FromString(host, number)

Spec == Init /\ [][Next]_vars

-----------------------------------------------------------------------------
(* Properties.                                                              *)

\* Type correctness of the address.
TypeOK ==
    /\ m_family \in {"None", "Unspecified", "Inet4", "Inet6", "Unix"}
    /\ m_address.is \in {"monostate", "Inet4", "Inet6", "Unix"}
    /\ m_address.is \in {"Inet4", "Inet6"} => m_address.port \in 0 .. 2 ^ 16 - 1
    /\ outcome \in {"ok", "failure", "thrown", "aborted"}

\* m_family names the alternative of the variant, so that the accessors, which
\* every operation picks by m_family, do not throw.
FamilyMatches ==
    outcome # "aborted" => m_address.is = IF m_family = "None" THEN "monostate" ELSE m_family

\* What ToSockAddr writes of an IPv4 or IPv6 address, FromSockAddr reads back.  The
\* number of a family stands for it in both directions, so that of a Unix address
\* the family survives, but not the path: ToSockAddr writes it whole, FromSockAddr
\* copies none of it.
ReadsBack ==
    ~IsEmpty(m_address) /\ outcome # "aborted" =>
        LET saddr == Encoded(m_address) IN
        /\ FamilyOf(saddr.family) = m_address.is /\ Decoded(saddr).is = m_address.is
        /\ IF m_address.is = "Unix" THEN saddr.path = m_address.path ELSE Decoded(saddr) = m_address

\* An IPv4 address survives its way through IPv6 and through a number.
Converts ==
    m_address.is = "Inet4" =>
        LET a == m_address.address IN
        /\ AsV4(AsV6(a)) = a /\ FromDecimal(ToDecimal(a)) = a
        /\ IsMappedV4(AsV6(a)) <=> ~Empty(a)

Candidates ==
    {InetAddr(a, p % 2 ^ 16) : a \in V4, p \in Ports} \cup {Inet6Addr(a, p % 2 ^ 16, <<0, 0>>, <<0, 0>>) : a \in V6, p \in Ports}
        \cup {UnixAddr(p) : p \in Paths}

\* Two addresses that are equal are written alike, but for flow label and scope;
\* no address is both equal to another and ordered before it, and of two with one
\* family and one port that differ, exactly one is.
Compares ==
    ~IsEmpty(m_address) =>
        \A other \in Candidates :
            LET alike == {LessThan(m_address, other), LessThan(other, m_address)}
                same == other.is = m_address.is /\ (other.is = "Unix" \/ other.port = m_address.port)
            IN  /\ Equals(m_address, other) = Equals(other, m_address)
                /\ Equals(m_address, other) => same /\ alike = {FALSE}
                /\ same /\ ~Equals(m_address, other) => alike = BOOLEAN
                /\ Equals(m_address, other) /\ other.is = "Inet4" => Encoded(m_address) = Encoded(other)

\* An address keeps its family through every conversion, and its port and its bytes
\* unless it is a Unix address, which loses its path to FromSockAddr; comparing
\* tells addresses apart that differ in them.
AddressKept == FamilyMatches /\ ReadsBack /\ Converts /\ Compares
==============================================================================
