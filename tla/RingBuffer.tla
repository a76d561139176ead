----------------------------- MODULE RingBuffer -----------------------------
(***************************************************************************)
(* RingBuffer (Memory.cpp): a ring of m_size bytes with a read offset, a   *)
(* write offset and a flag that tells an empty ring from a full one.       *)
(* Write copies bytes behind the write offset and does not move it; the    *)
(* caller commits them with Advance.  The ring of the constructor is not   *)
(* marked empty: it is full of whatever the memory held.                   *)
(***************************************************************************)
EXTENDS Integers, Sequences

CONSTANTS Bytes,      \* values of a byte
          Unwritten,  \* what the memory of a new ring holds
          m_size      \* Capacity(), at least 1

VARIABLES m_buffer, m_readOffset, m_writeOffset, m_empty,
          staged      \* how many bytes behind the write offset were written

vars == <<m_buffer, m_readOffset, m_writeOffset, m_empty, staged>>

Offsets == 0 .. m_size - 1

Init ==
    /\ m_buffer = [o \in Offsets |-> Unwritten]
    /\ m_readOffset = 0 /\ m_writeOffset = 0
    /\ m_empty = FALSE
    /\ staged = 0

Min(a, b) == IF a < b THEN a ELSE b

ReadableSize ==
    IF m_empty THEN 0
    ELSE IF m_readOffset < m_writeOffset
         THEN m_writeOffset - m_readOffset
         ELSE m_size - m_readOffset + m_writeOffset

WritableSize ==
    IF m_empty THEN 0
    ELSE IF m_writeOffset <= m_readOffset
         THEN m_readOffset - m_writeOffset
         ELSE m_size - m_writeOffset + m_readOffset

\* length bytes of the ring from an offset on, which is less than m_size.
Part(from, length) == [i \in 1 .. length |-> m_buffer[from + i - 1]]

Peek(count) ==
    LET readLength == Min(count, ReadableSize)
        firstRead == m_size - m_readOffset
    IN  IF m_readOffset + readLength < m_size
        THEN Part(m_readOffset, readLength)
        ELSE Part(m_readOffset, firstRead) \o Part(0, readLength - firstRead)

-----------------------------------------------------------------------------

\* memcpy to an offset.
Copied(buffer, to, data) ==
    [o \in Offsets |-> IF o \in to .. to + Len(data) - 1 THEN data[o - to + 1] ELSE buffer[o]]

Write_Whole(data) ==
    /\ data # <<>> /\ WritableSize # 0
    /\ m_buffer' = [o \in Offsets |-> LET i == ((o - m_writeOffset + m_size) % m_size) + 1
                                      IN IF i <= Len(data) THEN data[i] ELSE m_buffer[o]]
    /\ staged' = IF staged < Min(Len(data), WritableSize) THEN Min(Len(data), WritableSize) ELSE staged
    /\ UNCHANGED <<m_readOffset, m_writeOffset, m_empty>>

Write(data) ==
    LET writeLength == Min(Len(data), WritableSize)
        firstWrite == m_size - m_writeOffset
    IN  /\ writeLength # 0
        /\ m_buffer' = IF m_writeOffset + writeLength < m_size
                       THEN Copied(m_buffer, m_writeOffset, SubSeq(data, 1, writeLength))
                       ELSE Copied(Copied(m_buffer, m_writeOffset, SubSeq(data, 1, firstWrite)),
                                   0, SubSeq(data, firstWrite + 1, writeLength))
        /\ staged' = IF staged < writeLength THEN writeLength ELSE staged
        /\ UNCHANGED <<m_readOffset, m_writeOffset, m_empty>>

\* The caller advances over bytes it has written, which the assertion that
\* there is room for them follows from.
Advance(count) ==
    /\ count \in 1 .. staged
    /\ m_empty' = FALSE
    /\ m_writeOffset' = IF m_writeOffset + count < m_size
                        THEN m_writeOffset + count
                        ELSE count - (m_size - m_writeOffset)
    /\ staged' = staged - count
    /\ UNCHANGED <<m_buffer, m_readOffset>>

\* Skip, and Read, which is Peek and Skip.
Skip(count) ==
    LET skipCount == Min(count, ReadableSize)
        readOffset == (m_readOffset + skipCount) % m_size
        emptied == readOffset = m_writeOffset
    IN  /\ skipCount # 0
        /\ m_readOffset' = IF emptied THEN 0 ELSE readOffset
        /\ m_writeOffset' = IF emptied THEN 0 ELSE m_writeOffset
        /\ m_empty' = IF emptied THEN TRUE ELSE m_empty
        /\ staged' = IF emptied THEN 0 ELSE staged
        /\ UNCHANGED m_buffer

Next ==
    \/ \E n \in 1 .. m_size : \E data \in [1 .. n -> Bytes] : Write(data)
    \/ \E count \in 1 .. m_size : Advance(count) \/ Skip(count)

Spec == Init /\ [][Next]_vars

-----------------------------------------------------------------------------
(* Properties.                                                              *)

\* Type correctness; the offsets stay in the ring.
TypeOK ==
    /\ m_buffer \in [Offsets -> Bytes \cup {Unwritten}]
    /\ m_readOffset \in Offsets /\ m_writeOffset \in Offsets
    /\ m_empty \in BOOLEAN /\ staged \in 0 .. m_size

\* What Write has put behind the write offset, around the end of the ring.
Staged == [i \in 1 .. staged |-> m_buffer[(m_writeOffset + i - 1) % m_size]]

\* The bytes in the queue are those that Peek copies out, in one piece or two.
Queue == INSTANCE ByteQueue WITH Size <- m_size, queue <- Peek(m_size), staged <- Staged

\* What is not readable is writable, until the ring was read empty: then nothing is.
RoomLeft == WritableSize = IF ReadableSize = 0 THEN 0 ELSE m_size - ReadableSize

\* The ring is a queue of bytes: what is read is first what the memory of the new
\* ring held, then what was committed, in that order, however writes, commits and
\* reads wrap around.  It takes as many bytes as were read, but none any more once
\* it was read empty.
IsQueue == Queue!QSpec /\ []RoomLeft
==============================================================================
