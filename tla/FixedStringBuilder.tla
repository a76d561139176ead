-------------------------- MODULE FixedStringBuilder --------------------------
(***************************************************************************)
(* FixedStringBuilder (StringUtil.cpp): a string put together in a buffer  *)
(* of the caller.  A second builder may work on the Subspan() of the       *)
(* first, which takes the text over with Offset; so may anyone who writes  *)
(* at Head(), at most Remaining() characters.  Failure::Summary uses it    *)
(* this way.  An assertion that fails ends the program.                    *)
(***************************************************************************)
EXTENDS Integers, SequencesExt

CONSTANTS Characters,   \* character codes; 0 is not among them
          Junk,         \* what an uninitialised character holds
          BufferSizes,  \* sizes of the buffers of callers, which are not empty
          MaxAppend,    \* bound: the length of what is appended at once
          MaxNested     \* bound: builders that work on each other's rest

VARIABLES memory,       \* the buffer, indexed from 0, and what lies behind it, as
                        \* far as a builder writes
          builders,     \* the builder and those that work on its rest: where each
                        \* one's m_buffer begins, its m_capacity and its m_offset
          texts,        \* what was appended to each of them
          spoilt,       \* a character was appended behind others
          failed        \* an assertion

vars == <<memory, builders, texts, spoilt, failed>>

Strings == UNION {[1 .. n -> Characters] : n \in 0 .. MaxAppend}

Builder(base, size) == [base |-> base, m_capacity |-> size - 1, m_offset |-> 0]

Init ==
    /\ \E size \in BufferSizes :
          /\ memory = [i \in 0 .. 2 * size |-> Junk]
          /\ builders = <<Builder(0, size)>>
    /\ texts = <<<<>>>> /\ spoilt = FALSE /\ failed = FALSE

Remaining(b) == b.m_capacity - b.m_offset

HeadOf(b) == b.base + b.m_offset

Top == builders[Len(builders)]

\* str from position at on, and a zero behind it.
Put(at, str) ==
    [i \in DOMAIN memory |->
        IF i \in at .. at + Len(str) - 1 THEN str[i - at + 1] ELSE IF i = at + Len(str) THEN 0 ELSE memory[i]]

Abort == failed' = TRUE /\ UNCHANGED <<memory, builders, texts, spoilt>>

-----------------------------------------------------------------------------

\* The second index counts m_offset twice, so a character that is not the first
\* goes astray, in the buffer or behind it, and the one in its place keeps what it
\* held.
AppendChar(c) ==
    /\ Remaining(Top) > 1
    /\ memory' = Put(HeadOf(Top) + Top.m_offset, <<c>>)
    /\ builders' = [builders EXCEPT ![Len(builders)].m_offset = @ + 1]
    /\ texts' = [texts EXCEPT ![Len(texts)] = Append(@, c)]
    /\ spoilt' = (spoilt \/ Top.m_offset > 0)
    /\ UNCHANGED failed

\* The assertion of Append and Offset.
Fits(b, length) == b.m_offset + length < b.m_capacity

\* As much as there is room for.
Cut(b, length) == Min({length, Remaining(b)})

\* The text grows by str, which is in its place.
Extend(str) ==
    /\ Fits(Top, Len(str))
    /\ memory' = Put(HeadOf(Top), str)
    /\ builders' = [builders EXCEPT ![Len(builders)].m_offset = @ + Len(str)]
    /\ texts' = [texts EXCEPT ![Len(texts)] = @ \o str]
    /\ UNCHANGED <<spoilt, failed>>

AppendString(str) == Extend(SubSeq(str, 1, Cut(Top, Len(str))))

\* The caller has written str at Head(), or what of it there was room for.
Offset(str) == Extend(SubSeq(str, 1, Cut(Top, Len(str))))

\* Append and Offset alike.
Asserts(str) == ~Fits(Top, Cut(Top, Len(str))) /\ Abort

\* A builder on what Subspan() gives.  Nobody makes one of nothing: its capacity
\* would be the largest size_t.
Nest ==
    /\ Len(builders) <= MaxNested /\ Remaining(Top) > 0
    /\ builders' = Append(builders, Builder(HeadOf(Top), Remaining(Top)))
    /\ texts' = Append(texts, <<>>)
    /\ UNCHANGED <<memory, spoilt, failed>>

\* builder.Offset(nested.Size()), the last use of the nested one.
TakeOver ==
    /\ Len(builders) > 1
    /\ LET outer == Len(builders) - 1
           size  == Cut(builders[outer], Top.m_offset)
           grown == [builders[outer] EXCEPT !.m_offset = @ + size]
       IN  IF Fits(builders[outer], size)
           THEN /\ builders' = [SubSeq(builders, 1, outer) EXCEPT ![outer] = grown]
                /\ memory' = [memory EXCEPT ![HeadOf(grown)] = 0]
                /\ texts' = [SubSeq(texts, 1, outer) EXCEPT ![outer] = @ \o texts[outer + 1]]
                /\ UNCHANGED <<spoilt, failed>>
           ELSE Abort

Next ==
    /\ ~failed
    /\ \/ \E c \in Characters : AppendChar(c)
       \/ \E str \in Strings : AppendString(str) \/ Offset(str) \/ Asserts(str)
       \/ Nest \/ TakeOver

Spec == Init /\ [][Next]_vars

-----------------------------------------------------------------------------
(* Properties.                                                              *)

View(b) == [i \in 1 .. b.m_offset |-> memory[b.base + i - 1]]

\* The size of the caller's buffer.
Size == builders[1].m_capacity + 1

\* Type correctness: the part of the buffer that each builder counts on is within
\* the buffer.  Where the builders write is the subject of BuilderText.
TypeOK ==
    /\ \A i \in DOMAIN memory : memory[i] \in Characters \cup {0, Junk}
    /\ Len(texts) = Len(builders) /\ spoilt \in BOOLEAN /\ failed \in BOOLEAN
    /\ \A i \in DOMAIN builders :
          /\ builders[i].m_capacity >= 0
          /\ builders[i].m_offset \in 0 .. builders[i].m_capacity
          /\ builders[i].base + builders[i].m_capacity < Size

\* However appending strings, writing at Head() and nested builders follow each
\* other, View() is what was appended, with a zero behind it: the nested builder's
\* text lies where the outer one takes it over.  And nothing is written behind the
\* buffer.  Neither is said of a builder that has appended a character to a text
\* that was not empty, which AppendChar puts astray, or after an assertion failed.
BuilderText ==
    ~spoilt /\ ~failed =>
        /\ \A i \in DOMAIN builders : View(builders[i]) = texts[i]
        /\ Top.m_offset > 0 => memory[HeadOf(Top)] = 0
        /\ \A i \in DOMAIN memory : i >= Size => memory[i] = Junk
==============================================================================
