----------------------------- MODULE AddressInfo -----------------------------
(***************************************************************************)
(* AddressInfo (Network.h), the hints for a lookup of addresses, which     *)
(* callers fill in field by field, and MapAddressInfo (Network.cpp), which *)
(* writes them to the system's addrinfo.                                   *)
(***************************************************************************)
EXTENDS NetworkTypes

CONSTANT Bits     \* of the flags that callers set

VARIABLES hints,  \* an AddressInfo
          info    \* the addrinfo written last

vars == <<hints, info>>

MapAddressInfo(addr) ==
    [ai_flags |-> GetAddressInfoFlags(addr.flags),
     ai_family |-> GetAddressFamily(IF addr.family # "None" THEN addr.family ELSE "Unspecified"),
     ai_protocol |-> IF addr.protocol # "None" THEN GetSocketProtocol(addr.protocol) ELSE "0",
     ai_socktype |-> IF addr.type # "None" THEN GetSocketType(addr.type) ELSE "0"]

Init ==
    /\ hints = [flags |-> {}, family |-> "None", type |-> "None", protocol |-> "None"]
    /\ info = MapAddressInfo(hints)

SetHints ==
    /\ \/ \E b \in Bits : hints' = [hints EXCEPT !.flags = @ \cup {b}]
       \/ \E f \in Enumerators(AddressFamily) : hints' = [hints EXCEPT !.family = f]
       \/ \E t \in Enumerators(SocketType) : hints' = [hints EXCEPT !.type = t]
       \/ \E p \in Enumerators(SocketProtocol) : hints' = [hints EXCEPT !.protocol = p]
    /\ info' = MapAddressInfo(hints')

Next == SetHints

Spec == Init /\ [][Next]_vars

-----------------------------------------------------------------------------

\* Type correctness of the hints.
TypeOK == hints.flags \subseteq Bits /\ hints.family \in Enumerators(AddressFamily)

\* The names of the flags of an enum that are set, in any order.
Names(enum, flags) == {e \in DOMAIN enum : Has(flags, enum[e])}

Elements(seq) == {seq[i] : i \in DOMAIN seq}

\* The numbers of the system stand for the enumerators they were made from: what
\* is written to an addrinfo reads back as the family and the type of the hints,
\* a flag that is set asks for its AI_ number (Fdqn has none here), the name of
\* each enumerator is its own, and the text of a set of flags has each name of a
\* flag that is set once and no other, but for All, whose bits are those of others.
NumbersAgree ==
    /\ FamilyOf(info.ai_family) = IF hints.family = "None" THEN "Unspecified" ELSE hints.family
    /\ hints.type # "None" => TypeOf(info.ai_socktype) = hints.type
    /\ ("Passive" \in Names(AddressInfoFlags, hints.flags)) = ("AI_PASSIVE" \in info.ai_flags)
    /\ ("AddressMapped" \in Names(AddressInfoFlags, hints.flags)) = ("AI_V4MAPPED" \in info.ai_flags)
    /\ Entry(FamilyNames, AddressFamily, hints.family) = hints.family
    /\ Entry(TypeNames, SocketType, hints.type) = hints.type
    /\ Entry(ProtocolNames, SocketProtocol, hints.protocol) = hints.protocol
    /\ \A m \in Enumerators(SocketShutdownMode) : Entry(ModeNames, SocketShutdownMode, m) = m
    /\ \A b \in hints.flags : /\ AddressInfoFlagName({b}) \in Names(AddressInfoFlags, {b}) \cup {"None"}
                              /\ MessageOptionName({b}) \in Names(MessageOption, {b}) \cup {"None"}
                              /\ PollFlagName({b}) \in Names(PollFlags, {b}) \cup {"None"}
                              /\ SocketOperationName({b}) \in Names(SocketOperation, {b}) \cup {"None"}
    /\ Names(AddressInfoFlags, hints.flags) \ {"All"} \subseteq Elements(AddressInfoFlagsToString(hints.flags))
    /\ hints.flags # {} =>
           /\ Elements(MessageOptionToString(hints.flags)) = Names(MessageOption, hints.flags)
           /\ Elements(PollFlagsToString(hints.flags)) = Names(PollFlags, hints.flags)
           /\ Elements(SocketOperationToString(hints.flags)) = Names(SocketOperation, hints.flags)
==============================================================================
