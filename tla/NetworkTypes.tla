---------------------------- MODULE NetworkTypes ----------------------------
(***************************************************************************)
(* The enums of Network.h and the tables of Network.cpp that give their    *)
(* names and the numbers that stand for them in the system.  A table is    *)
(* indexed by the value of an enumerator, so an enum is the sequence of    *)
(* its enumerators and a table a sequence beside it.  A number of the      *)
(* system is its name; IPPROTO_IP is the zero that lets socket() choose.   *)
(* Flags are sets of bits.                                                 *)
(***************************************************************************)
EXTENDS Integers, Sequences

AddressFamily == <<"None", "Unspecified", "Inet4", "Inet6", "Unix">>

SocketProtocol == <<"None", "Icmp", "Ip", "Raw", "Tcp", "Udp">>

SocketType == <<"None", "Datagram", "Raw", "Stream">>

SocketShutdownMode == <<"None", "Read", "Write", "Both">>

SocketOpt ==
    <<"Broadcast", "Debug", "DontRoute", "KeepAlive", "Linger", "Multicast", "MulticastLoopback",
      "MulticastTTL", "NoDelay", "OobInline", "RecvBuf", "RecvLowMark", "RecvTimeout", "ReuseAddress",
      "ReusePort", "SendBuf", "SendLowMark", "SendTimeout", "SocketError", "TcpKeepAlive",
      "TcpKeepCount", "TcpKeepIdle", "TcpKeepInterval", "TimeToLive">>

\* The enumerators of an enum, and the entry of a table for one of them.
Enumerators(enum) == {enum[i] : i \in DOMAIN enum}

Entry(table, enum, e) == table[CHOOSE i \in DOMAIN enum : enum[i] = e]

AddressInfoFlags ==
    [None |-> {}, AddressConfig |-> {1}, AddressMapped |-> {2}, CanonicalName |-> {3}, Fdqn |-> {4},
     NumericHost |-> {5}, NumericService |-> {6}, Passive |-> {7}, All |-> 0 .. 3]

MessageOption == [None |-> {}, Confirm |-> {1}, NoSignal |-> {2}, OutOfBand |-> {3}, Peek |-> {4}]

PollFlags == [None |-> {}, Error |-> {1}, HangUp |-> {2}, Invalid |-> {3}, Read |-> {4}, Write |-> {5}]

SocketOperation == [None |-> {}, Read |-> {1}, Write |-> {2}, Error |-> {3}]

\* +(flags & enumerator) is not zero.
Has(flags, bits) == flags \cap bits # {}

-----------------------------------------------------------------------------
(* Numbers of the system.                                                   *)

GetAddressFamily(family) ==
    Entry(<<"AF_UNSPEC", "AF_UNSPEC", "AF_INET", "AF_INET6", "AF_UNIX">>, AddressFamily, family)

FamilyOf(number) ==
    CASE number = "AF_INET" -> "Inet4"
      [] number = "AF_INET6" -> "Inet6"
      [] number = "AF_UNIX" -> "Unix"
      [] number = "AF_UNSPEC" -> "Unspecified"
      [] OTHER -> "None"

\* The table is in another order than the enum.
GetSocketProtocol(protocol) ==
    Entry(<<"IPPROTO_NONE", "IPPROTO_TCP", "IPPROTO_UDP", "IPPROTO_ICMP", "IPPROTO_IP", "IPPROTO_RAW">>,
          SocketProtocol, protocol)

ProtocolOf(number) ==
    CASE number = "IPPROTO_TCP" -> "Tcp"
      [] number = "IPPROTO_UDP" -> "Udp"
      [] number = "IPPROTO_ICMP" -> "Icmp"
      [] number = "IPPROTO_IP" -> "Ip"
      [] number = "IPPROTO_RAW" -> "Raw"
      [] OTHER -> "None"

GetSocketType(type) == Entry(<<"SOCKET_ERROR", "SOCK_DGRAM", "SOCK_RAW", "SOCK_STREAM">>, SocketType, type)

TypeOf(number) ==
    CASE number = "SOCK_DGRAM" -> "Datagram"
      [] number = "SOCK_RAW" -> "Raw"
      [] number = "SOCK_STREAM" -> "Stream"
      [] OTHER -> "None"

GetSocketOptLevel(option) ==
    Entry([i \in DOMAIN SocketOpt |->
              CASE i \in {6, 7, 8, 24} -> "IPPROTO_IP"
                [] i \in {9, 20, 21, 22, 23} -> "IPPROTO_TCP"
                [] OTHER -> "SOL_SOCKET"],
          SocketOpt, option)

\* On Linux; the numbers that are not asked of the system are -1.
GetSocketOpt(option) ==
    Entry(<<"SO_BROADCAST", "SO_DEBUG", "SO_DONTROUTE", "SO_KEEPALIVE", "SO_LINGER", "IP_ADD_MEMBERSHIP",
            "IP_MULTICAST_LOOP", "IP_MULTICAST_TTL", "TCP_NODELAY", "SO_OOBINLINE", "SO_RCVBUF",
            "SO_RCVLOWAT", "SO_RCVTIMEO", "SO_REUSEADDR", "SO_REUSEPORT", "SO_SNDBUF", "SO_SNDLOWAT",
            "SO_SNDTIMEO", "SO_ERROR", "-1", "TCP_KEEPCNT", "-1", "TCP_KEEPINTVL", "IP_TTL">>,
          SocketOpt, option)

\* All has the bits of three other flags, each of which asks for AI_ALL.
GetAddressInfoFlags(flags) ==
    LET numbers == [AI_PASSIVE |-> "Passive", AI_CANONNAME |-> "CanonicalName", AI_NUMERICHOST |-> "NumericHost",
                    AI_NUMERICSERV |-> "NumericService", AI_ALL |-> "All", AI_ADDRCONFIG |-> "AddressConfig",
                    AI_V4MAPPED |-> "AddressMapped"]
    IN  {ai \in DOMAIN numbers : Has(flags, AddressInfoFlags[numbers[ai]])}

GetMessageOption(opt) ==
    LET numbers == [MSG_CONFIRM |-> "Confirm", MSG_NOSIGNAL |-> "NoSignal", MSG_OOB |-> "OutOfBand",
                    MSG_PEEK |-> "Peek"]
    IN  {msg \in DOMAIN numbers : Has(opt, MessageOption[numbers[msg]])}

-----------------------------------------------------------------------------
(* Names.  What Join puts together is a sequence of names.                  *)

FamilyNames == <<"None", "Unspecified", "Inet4", "Inet6", "Unix">>

ProtocolNames == <<"None", "Icmp", "Ip", "Raw", "Tcp", "Udp">>

TypeNames == <<"None", "Datagram", "Raw", "Stream">>

ModeNames == <<"None", "Read", "Write", "Both">>

\* The name of one flag, by its value.
NameOf(enum, bits) ==
    IF \E e \in DOMAIN enum : enum[e] = bits THEN CHOOSE e \in DOMAIN enum : enum[e] = bits ELSE "None"

AddressInfoFlagName(flag) == NameOf(AddressInfoFlags, flag)

MessageOptionName(option) == NameOf(MessageOption, option)

PollFlagName(flag) == NameOf(PollFlags, flag)

SocketOperationName(operation) == NameOf(SocketOperation, operation)

\* The flags of order that are set.
Listed(enum, order, flags) == SelectSeq(order, LAMBDA e : Has(flags, enum[e]))

AddressInfoFlagsToString(flags) ==
    LET listed == SelectSeq(<<"AddressConfig", "AddressMapped", "CanonicalName", "Fdqn", "NumericHost",
                              "NumericService", "Passive">>,
                            LAMBDA e : Has(flags, AddressInfoFlags[e]) \/ (e = "AddressMapped" /\ Has(flags, AddressInfoFlags.All)))
    IN  IF listed = <<>> THEN <<"None">> ELSE listed

MessageOptionToString_OobAsPeek(options) ==
    IF options = {} THEN <<"None">>
    ELSE SelectSeq(<<"Confirm", "NoSignal", "OutOfBand", "Peek">>,
                   LAMBDA e : Has(options, MessageOption[IF e = "Peek" THEN "OutOfBand" ELSE e]))

MessageOptionToString(options) ==
    IF options = {} THEN <<"None">>
    ELSE Listed(MessageOption, <<"Confirm", "NoSignal", "OutOfBand", "Peek">>, options)

PollFlagsToString(flags) ==
    IF flags = {} THEN <<"None">>
    ELSE Listed(PollFlags, <<"Error", "HangUp", "Invalid", "Read", "Write">>, flags)

SocketOperationToString(operations) ==
    IF operations = {} THEN <<"None">>
    ELSE Listed(SocketOperation, <<"Read", "Write", "Error">>, operations)
==============================================================================
