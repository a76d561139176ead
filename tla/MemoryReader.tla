---------------------------- MODULE MemoryReader ----------------------------
(***************************************************************************)
(* MemoryReader (Memory.cpp): the offset of a reader under any sequence of  *)
(* calls, with the range checks of each call as they are in the code and    *)
(* the assertions of Seek and Span.  The bytes are not looked at here.      *)
(***************************************************************************)
EXTENDS Naturals

CONSTANTS Sizes,        \* sizes of the buffer
          SizeMax       \* size_t counts modulo this number, 2^64 in the program

VARIABLES m_size, m_offset,
          range,        \* the bytes the last call returned: a set of places
          aborted       \* an assertion has failed

vars == <<m_size, m_offset, range, aborted>>

IntegerWidths == {2, 4, 8}

Lengths == 0 .. 4

Offsets == 0 .. m_size + 1 \cup {SizeMax - 1}

Init ==
    /\ m_size \in Sizes
    /\ m_offset = 0
    /\ range = {} /\ aborted = FALSE

Add(a, b) == (a + b) % SizeMax

\* The call returns bytes from an offset on and moves behind them.
Returns(offset, count) ==
    /\ m_offset' = Add(offset, count)
    /\ range' = offset .. offset + count - 1
    /\ UNCHANGED <<m_size, aborted>>

\* A call that finds too few bytes returns zero, or nothing.
TooFew == range' = {} /\ UNCHANGED <<m_size, m_offset, aborted>>

SeekFails == aborted' = TRUE /\ range' = {} /\ UNCHANGED <<m_size, m_offset>>

\* Seek(offset) and then count bytes.
SeekThen(offset, count) == IF offset < m_size THEN Returns(offset, count) ELSE SeekFails

-----------------------------------------------------------------------------

Read ==
    /\ ~aborted
    /\ IF m_offset <= m_size THEN Returns(m_offset, 1) ELSE TooFew

ReadAt(offset) ==
    /\ ~aborted
    /\ IF offset <= m_size THEN SeekThen(offset, 1) ELSE TooFew

ReadInteger_Less(n) ==
    /\ ~aborted
    /\ IF Add(m_offset, n - 1) <= m_size THEN Returns(m_offset, n) ELSE TooFew

\* Read16_LE() ... Read64_BE().
ReadInteger(n) ==
    /\ ~aborted
    /\ IF Add(m_offset, n) <= m_size THEN Returns(m_offset, n) ELSE TooFew

\* Read16_LE(offset) ... Read64_BE(offset); the last two look for four bytes.
ReadIntegerAt(n, offset) ==
    /\ ~aborted
    /\ IF Add(offset, IF n = 8 THEN 4 ELSE n) <= m_size
       THEN SeekThen(offset, n)
       ELSE TooFew

\* ReadSpan and ReadString.
ReadSpan(offset, length) ==
    /\ ~aborted
    /\ IF Add(offset, length) <= m_size THEN SeekThen(offset, length) ELSE TooFew

Seek(offset) == ~aborted /\ SeekThen(offset, 0)

Skip(count) == ~aborted /\ SeekThen(Add(m_offset, count), 0)

\* Span moves the reader behind the bytes of the new one.
Span(offset, size) ==
    /\ ~aborted
    /\ IF offset < m_size /\ Add(offset, size) <= m_size
       THEN Returns(offset, size)
       ELSE /\ aborted' = TRUE /\ range' = {}
            /\ m_offset' = IF offset < m_size THEN offset ELSE m_offset
            /\ UNCHANGED m_size

Next ==
    \/ Read
    \/ \E n \in IntegerWidths : ReadInteger(n)
    \/ \E offset \in Offsets :
          \/ ReadAt(offset) \/ Seek(offset) \/ Skip(offset)
          \/ \E n \in IntegerWidths : ReadIntegerAt(n, offset)
          \/ \E length \in Lengths : ReadSpan(offset, length) \/ Span(offset, length)
    \/ \E length \in Lengths : ReadSpan(m_offset, length) \/ Span(m_offset, length)

\* The calls whose own check keeps them inside of the buffer.
SpanStep ==
    \/ \E n \in IntegerWidths : ReadInteger(n)
    \/ \E offset \in Offsets \cup {m_offset}, length \in Lengths : ReadSpan(offset, length)

Spec == Init /\ [][Next]_vars

-----------------------------------------------------------------------------
(* Properties.                                                              *)

\* Type correctness.  The offset is at most four bytes past the end: Read()
\* leaves it one past, Read64_LE(offset) and Read64_BE(offset) up to four.
TypeOK ==
    /\ m_size \in Sizes /\ m_offset \in 0 .. m_size + 4
    /\ range \subseteq 0 .. m_size + 4
    /\ aborted \in BOOLEAN
==============================================================================
