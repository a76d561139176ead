--------------------------- MODULE EmbeddedVector ---------------------------
(***************************************************************************)
(* EmbeddedVector (Impl/Vector.h): vectors that keep up to Length elements  *)
(* in themselves and more of them in a block of the heap.  The functions    *)
(* of the base class are operators from a vector to a vector; an action is  *)
(* an operation of the class.  Elements are of a trivial type, the only     *)
(* kind for which Insert compiles.                                          *)
(***************************************************************************)
EXTENDS Naturals, Sequences

CONSTANTS Vectors, Values,
          Length,       \* elements a vector has room for in itself
          Undefined,    \* what a cell holds before it is written
          MaxLength     \* bound: the elements of a vector

VARIABLES vec,          \* the vectors
          expected      \* the sequence each of them stands for

vars == <<vec, expected>>

Fresh(n) == [i \in 1 .. n |-> Undefined]

\* m_storage, the block of the heap if m_data points to one, and the members.
Empty == [m_storage |-> Fresh(Length), block |-> <<>>, m_data |-> "storage",
          m_offset |-> 0, m_capacity |-> Length, m_dynamic |-> FALSE]

Cells(v) == IF v.m_data = "storage" THEN v.m_storage ELSE v.block

\* What begin() to end() range over.
Content(v) == SubSeq(Cells(v), 1, v.m_offset)

Init ==
    /\ vec = [n \in Vectors |-> Empty]
    /\ expected = [n \in Vectors |-> <<>>]

Max(a, b) == IF a < b THEN b ELSE a

-----------------------------------------------------------------------------
(* The base class.                                                          *)

WithCells(v, cells) == IF v.m_data = "storage" THEN [v EXCEPT !.m_storage = cells] ELSE [v EXCEPT !.block = cells]

Realloc(v, size) ==
    [v EXCEPT !.block = [i \in 1 .. size |-> IF i <= v.m_offset THEN Cells(v)[i] ELSE Undefined],
              !.m_data = "block", !.m_capacity = size, !.m_dynamic = TRUE]

\* Reserve(size, exact).  Growing by a half doubles and halves: it is exact too.
Reserve(v, size, exact) ==
    IF size > v.m_capacity
    THEN Realloc(v, IF exact THEN size ELSE Max(size, (v.m_capacity + v.m_capacity) \div 2))
    ELSE v

Reset_KeepsCapacity(v) ==
    [v EXCEPT !.block = <<>>, !.m_data = "storage", !.m_offset = 0, !.m_dynamic = FALSE]

\* Reset(m_storage, Length).  A block of the heap is not freed.
Reset(v) ==
    [v EXCEPT !.block = <<>>, !.m_data = "storage", !.m_capacity = Length, !.m_offset = 0, !.m_dynamic = FALSE]

\* Insert at a position: room for the elements, those behind it moved, and copies.
InsertAt(v, pos, data) ==
    LET count == Len(data)
        room == IF v.m_offset + count >= v.m_capacity THEN Reserve(v, v.m_offset + count, TRUE) ELSE v
        moved == [i \in DOMAIN Cells(room) |->
                    IF i > pos + count /\ i <= v.m_offset + count THEN Cells(room)[i - count] ELSE Cells(room)[i]]
    IN  [WithCells(room, [i \in DOMAIN moved |-> IF i > pos /\ i <= pos + count THEN data[i - pos] ELSE moved[i]])
            EXCEPT !.m_offset = @ + count]

\* Resize(size, value), and Clear with size 0.
ResizeTo(v, size, value) ==
    LET room == IF size > v.m_offset THEN Reserve(v, size, TRUE) ELSE v
    IN  [WithCells(room, [i \in DOMAIN Cells(room) |->
                            IF i > v.m_offset /\ i <= size THEN value ELSE Cells(room)[i]])
            EXCEPT !.m_offset = size]

\* Assign(size, m_storage, Length).
Assign(v, size) == Reserve(Reset(v), size, TRUE)

\* Move: what becomes of the vector that is moved to.  A block changes hands;
\* m_dynamic is left as Reset has set it.
MoveInto(v, from) ==
    IF from.m_dynamic
    THEN [Reset(v) EXCEPT !.m_data = from.m_data, !.block = from.block,
                          !.m_offset = from.m_offset, !.m_capacity = from.m_capacity]
    ELSE InsertAt(Reserve(Reset(v), from.m_offset, TRUE), 0, Content(from))

-----------------------------------------------------------------------------
(* The operations.                                                          *)

\* A cell that holds no element is as good as one that was never written: to read
\* it would show.
Settled(v) ==
    LET cells == [i \in DOMAIN Cells(v) |-> IF i <= v.m_offset THEN Cells(v)[i] ELSE Undefined]
    IN  WithCells([v EXCEPT !.m_storage = Fresh(Length)], cells)

Becomes(n, v, sequence) ==
    /\ Len(sequence) <= MaxLength
    /\ vec' = [vec EXCEPT ![n] = Settled(v)]
    /\ expected' = [expected EXCEPT ![n] = sequence]

\* PushBack(value), EmplaceBack.
PushBack(n, value) ==
    LET room == Reserve(vec[n], vec[n].m_offset + 1, FALSE)
    IN  Becomes(n, [WithCells(room, [Cells(room) EXCEPT ![vec[n].m_offset + 1] = value]) EXCEPT !.m_offset = @ + 1],
                Append(expected[n], value))

\* Insert, and PushBack of a span, which inserts at the end.
Insert(n, pos, data) ==
    /\ pos <= vec[n].m_offset
    /\ Becomes(n, InsertAt(vec[n], pos, data),
               SubSeq(expected[n], 1, pos) \o data \o SubSeq(expected[n], pos + 1, Len(expected[n])))

\* Erase(first, last); Erase(pos) erases from pos to the end.
Erase(n, first, last) ==
    LET v == vec[n]
        removed == last - first
    IN  /\ first <= last /\ last <= v.m_offset
        /\ Becomes(n, [WithCells(v, [i \in DOMAIN Cells(v) |->
                                       IF i > first /\ i <= v.m_offset - removed THEN Cells(v)[i + removed] ELSE Cells(v)[i]])
                         EXCEPT !.m_offset = @ - removed],
                   SubSeq(expected[n], 1, first) \o SubSeq(expected[n], last + 1, Len(expected[n])))

\* PopBack() and PopBack(count), which stops at the front.
PopBack(n, count) ==
    LET size == IF count < vec[n].m_offset THEN vec[n].m_offset - count ELSE 0
    IN  /\ vec[n].m_offset > 0
        /\ Becomes(n, [vec[n] EXCEPT !.m_offset = size], SubSeq(expected[n], 1, size))

Resize(n, size, value) ==
    Becomes(n, ResizeTo(vec[n], size, value),
            [i \in 1 .. size |-> IF i <= Len(expected[n]) THEN expected[n][i] ELSE value])

ReserveFor(n, size) == size <= MaxLength /\ Becomes(n, Reserve(vec[n], size, TRUE), expected[n])

ResetVector(n) == Becomes(n, Reset(vec[n]), <<>>)

\* operator=(span<const T>), and the copy constructors on a fresh vector.
AssignConst(n, data) == Becomes(n, InsertAt(Assign(vec[n], Len(data)), 0, data), data)

\* operator=(span<T>) does not clear the vector first.
AssignMutable(n, data) ==
    Becomes(n, InsertAt(Reserve(vec[n], Len(data), TRUE), vec[n].m_offset, data), expected[n] \o data)

\* operator=(const T(&)[N]) makes room for the array and does not copy it.
AssignArray(n, size) == size <= MaxLength /\ Becomes(n, Assign(vec[n], size), <<>>)

\* operator=(const EmbeddedVector&), a no-op for vectors that compare equal.
CopyAssign(n, from) ==
    /\ Content(vec[n]) # Content(vec[from])
    /\ Becomes(n, InsertAt(Assign(vec[n], vec[from].m_offset), 0, Content(vec[from])), expected[from])

\* operator=(EmbeddedVector&&), and the move constructor on a fresh vector.
MoveAssign(n, from) ==
    /\ Content(vec[n]) # Content(vec[from])
    /\ vec' = [vec EXCEPT ![n] = Settled(MoveInto(vec[n], vec[from])), ![from] = Settled(Reset(vec[from]))]
    /\ expected' = [expected EXCEPT ![n] = expected[from], ![from] = <<>>]

Data == UNION {[1 .. k -> Values] : k \in 0 .. 2}

Next ==
    \E n \in Vectors :
       \/ \E value \in Values : PushBack(n, value) \/ \E size \in 0 .. MaxLength : Resize(n, size, value)
       \/ \E data \in Data : AssignConst(n, data) \/ AssignMutable(n, data)
                               \/ \E pos \in 0 .. MaxLength : Insert(n, pos, data)
       \/ \E first, last \in 0 .. MaxLength : Erase(n, first, last)
       \/ \E count \in 1 .. MaxLength : PopBack(n, count) \/ ReserveFor(n, count) \/ AssignArray(n, count)
       \/ ResetVector(n)
       \/ \E from \in Vectors : CopyAssign(n, from) \/ MoveAssign(n, from)

Spec == Init /\ [][Next]_vars

-----------------------------------------------------------------------------
(* Properties.                                                              *)

\* Type correctness; the elements of a vector are defined values.
TypeOK ==
    \A n \in Vectors :
       /\ vec[n].m_offset \in 0 .. MaxLength /\ vec[n].m_dynamic \in BOOLEAN
       /\ vec[n].m_data \in {"storage", "block"}
       /\ Content(vec[n]) \in Seq(Values)

\* A vector holds the sequence that its operations describe, across the way from
\* its own storage to the heap and back, and after moves in both directions; the
\* elements fit in what m_data points to, whose size m_capacity is.
IsSequence ==
    \A n \in Vectors :
       /\ Content(vec[n]) = expected[n]
       /\ vec[n].m_capacity = Len(Cells(vec[n])) /\ vec[n].m_offset <= vec[n].m_capacity
==============================================================================
