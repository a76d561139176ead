---------------------------- MODULE MemoryWriter ----------------------------
(***************************************************************************)
(* MemoryWriter (Memory.cpp): integers in either byte order, spans and      *)
(* zeros written at the writer's offset or at one that is given.  A write   *)
(* that does not fit is left out silently.  Offsets are size_t and wrap.    *)
(***************************************************************************)
EXTENDS ByteOrder

CONSTANTS m_size,
          SizeMax,      \* size_t counts modulo this number, 2^64 in the program
          Widths,       \* the widths of the integers: 2, 4 and 8 bytes
          Samples       \* the values that are written, each in the widths it fits

VARIABLES m_data, m_offset,
          aborted,      \* an assertion has failed
          intact        \* the integers written and not overwritten since

vars == <<m_data, m_offset, aborted, intact>>

Places == 0 .. m_size - 1

Integer == [at : Places, order : Orders, width : Widths, value : Samples]

Init ==
    /\ m_data = [p \in Places |-> 0]
    /\ m_offset = 0
    /\ aborted = FALSE
    /\ intact = {}

\* Arguments for offsets: those around the buffer and those that wrap.
Arguments == 0 .. m_size + 1 \cup {SizeMax - 1}

Overlaps(i, at, n) == i.at < at + n /\ at < i.at + i.width

-----------------------------------------------------------------------------

Seek(offset) ==
    /\ aborted' = ~(offset <= m_size)
    /\ m_offset' = IF offset <= m_size THEN offset ELSE m_offset
    /\ UNCHANGED <<m_data, intact>>

SeekTo(offset) == ~aborted /\ Seek(offset)

Skip(count) == ~aborted /\ Seek((m_offset + count) % SizeMax)

Put_NoCheck(offset, bytes) ==
    /\ offset <= m_size
    /\ m_data' = [p \in Places |->
                    IF p >= offset /\ p < offset + Len(bytes) THEN bytes[p - offset + 1] ELSE m_data[p]]
    /\ m_offset' = offset + Len(bytes)
    /\ UNCHANGED aborted

Put_Seeks(offset, bytes) ==
    /\ (offset + Len(bytes)) % SizeMax <= m_size
    /\ IF offset <= m_size
       THEN /\ m_data' = [p \in Places |->
                            IF p >= m_offset /\ p < m_offset + Len(bytes) THEN bytes[p - m_offset + 1] ELSE m_data[p]]
            /\ m_offset' = offset + Len(bytes)
            /\ UNCHANGED aborted
       ELSE aborted' = TRUE /\ UNCHANGED <<m_data, m_offset>>

\* Put(offset, data, size), when the bytes fit.  The sum wraps, the assertion
\* of Seek does not.
Put(offset, bytes) ==
    /\ (offset + Len(bytes)) % SizeMax <= m_size
    /\ IF offset <= m_size
       THEN /\ m_data' = [p \in Places |->
                            IF p >= offset /\ p < offset + Len(bytes) THEN bytes[p - offset + 1] ELSE m_data[p]]
            /\ m_offset' = offset + Len(bytes)
            /\ UNCHANGED aborted
       ELSE aborted' = TRUE /\ UNCHANGED <<m_data, m_offset>>

\* PutN_LE(offset, value), PutN_BE(offset, value); PutN_LE(value) passes m_offset.
PutInteger(order, n, offset, value) ==
    /\ ~aborted
    /\ Put(offset, PutBytes(order, n, value))
    /\ intact' = IF aborted' THEN intact
                 ELSE {i \in intact : ~Overlaps(i, offset, n)}
                        \cup {[at |-> offset, order |-> order, width |-> n, value |-> value]}

\* PutZero; Put(span) and PutString differ in the bytes only.
PutZero(offset, count) ==
    /\ ~aborted
    /\ Put(offset, [k \in 1 .. count |-> 0])
    /\ intact' = IF aborted' THEN intact ELSE {i \in intact : ~Overlaps(i, offset, count)}

Next ==
    \/ \E offset \in Arguments : SeekTo(offset) \/ Skip(offset) \/ \E count \in 1 .. 2 : PutZero(offset, count)
    \/ \E order \in Orders, n \in Widths, offset \in Arguments \cup {m_offset}, value \in Samples :
          value < Radix ^ n /\ PutInteger(order, n, offset, value)

Spec == Init /\ [][Next]_vars

-----------------------------------------------------------------------------
(* Properties.                                                              *)

\* Type correctness; the offset is never past the end of the buffer, so that
\* Remaining() does not wrap.
TypeOK ==
    /\ m_data \in [Places -> 0 .. Radix - 1]
    /\ m_offset \in 0 .. m_size
    /\ aborted \in BOOLEAN
    /\ intact \subseteq Integer

\* An integer that was written reads back, in the order it was written in, as
\* the same value, whatever was written around it since, and in the other order
\* as the value with its bytes swapped, as Endian::ConstSwap computes it.
RoundTrip ==
    \A i \in intact :
       /\ i.at + i.width <= m_size
       /\ \A order \in Orders :
             GetValue(order, i.width, [k \in 1 .. i.width |-> m_data[i.at + k - 1]])
                = IF order = i.order THEN i.value ELSE ConstSwap(i.width, i.value)
==============================================================================
