------------------------------- MODULE Random -------------------------------
(***************************************************************************)
(* Random (Random.h, Random.cpp, posix/Random.cpp): the XorShift           *)
(* generators, the buffers filled from them, and the bytes of the hardware *)
(* or of the system.                                                       *)
(*                                                                         *)
(* A word is the set of the numbers of its bits, so that shifts, rotations *)
(* and exclusive or are what they are in the code, at its widths.  Sums    *)
(* and products go into results only and are left out, except in Mix64,    *)
(* which makes the first words of a generator.  A byte of the buffer is    *)
(* known by where it is from.                                              *)
(***************************************************************************)
EXTENDS Integers, Sequences

CONSTANTS Seeds,        \* words
          Sizes,        \* of buffers
          MaxSize,      \* the largest of them
          SystemChunk,  \* what is read from the system at once: 1 MB in the code
          MaxDraws      \* bound: numbers drawn from a generator

VARIABLES words, p,     \* the generator: state, p
          drawn,        \* how many numbers it gave
          buffer, size, at,     \* the buffer, its length, and how much of it is done
          call,         \* what fills it, or the answer
          supported     \* s_RdRandSupported

generator == <<words, p, drawn>>

filling == <<buffer, size, at, call>>

vars == <<generator, filling, supported>>

-----------------------------------------------------------------------------
(* Words.                                                                   *)

Xor(a, b) == (a \ b) \cup (b \ a)

Shl(v, k, width) == {i + k : i \in {j \in v : j + k < width}}

Shr(v, k) == {i - k : i \in {j \in v : j >= k}}

rotl(v, k) == {(i + k) % 64 : i \in v}

\* The bytes of a product, from the lowest one, with what is carried to the next.
Product(a, b) ==
    LET byte(v, i) == LET bit(k) == IF 8 * i + k \in v THEN 2 ^ k ELSE 0
                      IN  bit(0) + bit(1) + bit(2) + bit(3) + bit(4) + bit(5) + bit(6) + bit(7)
        column(k) == LET sum[i \in -1 .. k] == IF i < 0 THEN 0 ELSE sum[i - 1] + (byte(a, i) * byte(b, k - i))
                     IN  sum[k]
        total[k \in 0 .. 7] == column(k) + (IF k = 0 THEN 0 ELSE total[k - 1] \div 256)
    IN  <<total[0], total[1], total[2], total[3], total[4], total[5], total[6], total[7]>>

\* Modulo 2^64.
Times(a, b) ==
    LET product == Product(a, b)
    IN  {i \in 0 .. 63 : (product[(i \div 8) + 1] \div 2 ^ (i % 8)) % 2 = 1}

\* From its hexadecimal digits.
Literal(digits) ==
    {i \in 0 .. 4 * Len(digits) - 1 : (digits[Len(digits) - (i \div 4)] \div 2 ^ (i % 4)) % 2 = 1}

Multiplier1 == Literal(<<15, 15, 5, 1, 10, 15, 13, 7, 14, 13, 5, 5, 8, 12, 12, 13>>)

Multiplier2 == Literal(<<12, 4, 12, 14, 11, 9, 15, 14, 1, 10, 8, 5, 14, 12, 5, 3>>)

Fold(v) == Xor(v, Shr(v, 33))

Mix64(v) == Fold(Times(Fold(Times(Fold(v), Multiplier1)), Multiplier2))

-----------------------------------------------------------------------------
(* Generators, told apart by their number of words.                         *)

NotZero(seed) == IF seed = {} THEN {0} ELSE seed

XorShift32(seed) == <<NotZero({i \in 0 .. 31 : i \in seed})>>

\* XorShift128 and XorShift1024: the first of n words, and each of the others
\* from the one before it.
XorShift(n, seed) == [i \in 1 .. n |-> IF i = 1 THEN Mix64(NotZero(seed)) ELSE {}]

Seed ==
    /\ call = "seeding"
    /\ words' = [words EXCEPT ![at + 1] = Mix64(words[at])]
    /\ IF at + 1 = Len(words) THEN at' = 0 /\ call' = "idle" ELSE at' = at + 1 /\ call' = call
    /\ UNCHANGED <<p, drawn, buffer, size, supported>>

Step32(s) ==
    LET a == Xor(s, Shl(s, 13, 32))
        b == Xor(a, Shr(a, 17))
    IN  Xor(b, Shl(b, 5, 32))

Step128(s) ==
    LET s1 == Xor(s[1], s[2])
    IN  <<Xor(Xor(rotl(s[1], 55), s1), Shl(s1, 14, 64)), rotl(s1, 36)>>

Step1024(s, i, j) ==
    LET s0 == s[i + 1]
        s1 == Xor(s[j + 1], Shl(s[j + 1], 31, 64))
    IN  [s EXCEPT ![j + 1] = Xor(Xor(Xor(s1, s0), Shr(s1, 11)), Shr(s0, 30))]

\* The number a generator gives at a time: Bits32 of XorShift32, Bits64 of the
\* others.
Draw ==
    /\ drawn < MaxDraws /\ drawn' = drawn + 1
    /\ \/ Len(words) = 1 /\ words' = <<Step32(words[1])>> /\ p' = p
       \/ Len(words) = 2 /\ words' = Step128(words) /\ p' = p
       \/ Len(words) = 16 /\ p' = (p + 1) % 16 /\ words' = Step1024(words, p, p')

Bits == Draw /\ call = "idle" /\ UNCHANGED <<filling, supported>>

\* UInt32 and UInt64, and Int32 and Int64, of a number that was drawn, for a
\* type with the given number of values.
UnsignedInt(value, min, max, range) ==
    LET ret == (max - min + 1) % range
    IN  ((IF ret # 0 THEN value % ret ELSE value) + min) % range

SignedInt(value, min, max, range) ==
    LET u == UnsignedInt(value, min % range, max % range, range)
    IN  IF u < range \div 2 THEN u ELSE u - range

-----------------------------------------------------------------------------
(* Buffers.                                                                 *)

Old == <<"old", 0, 0>>

Clean == [i \in 1 .. MaxSize + SystemChunk |-> Old]

Put(count, source, number) ==
    buffer' = [i \in DOMAIN buffer |-> IF i \in at + 1 .. at + count THEN <<source, number, i - at>> ELSE buffer[i]]

Fill(n, next) ==
    /\ call = "idle"
    /\ size' = n /\ at' = 0 /\ buffer' = Clean /\ call' = next
    /\ UNCHANGED <<generator, supported>>

Chunk == IF Len(words) = 1 THEN 4 ELSE 8

FillBytes(n) == Fill(n, IF n = 0 THEN "filled" ELSE "bytes")

BytesChunk ==
    /\ call = "bytes" /\ size - at > Chunk
    /\ Draw /\ Put(Chunk, "drawn", drawn)
    /\ at' = at + Chunk
    /\ UNCHANGED <<size, call, supported>>

BytesRest ==
    /\ call = "bytes" /\ size - at <= Chunk
    /\ Draw /\ Put(size - at, "drawn", drawn)
    /\ at' = size /\ call' = "filled"
    /\ UNCHANGED <<size, supported>>

SecureBytes(n) == Fill(n, IF supported THEN "hardware" ELSE "system")

\* _RdRand succeeds within five attempts, or what was written is left to the
\* system to write again.
RdRand(count, next) ==
    /\ call = "hardware"
    /\ \/ Put(count, "hardware", 0) /\ at' = at + count /\ call' = next
       \/ call' = "system" /\ at' = 0 /\ UNCHANGED buffer
    /\ UNCHANGED <<generator, size, supported>>

HardwareChunk == size - at >= 8 /\ RdRand(8, "hardware")

HardwareRest == size - at \in 1 .. 7 /\ RdRand(size - at, "success")

HardwareDone ==
    /\ call = "hardware" /\ size = at
    /\ call' = "success"
    /\ UNCHANGED <<generator, buffer, size, at, supported>>

SystemFails ==
    /\ call = "system" /\ at = 0
    /\ call' = "failed"
    /\ UNCHANGED <<generator, buffer, size, at, supported>>

ReadSize == IF size < SystemChunk THEN size ELSE SystemChunk

SystemChunkRead ==
    /\ call = "system" /\ size - at > ReadSize
    /\ \E result \in 0 .. ReadSize :
          /\ Put(result, "system", 0)
          /\ IF result = ReadSize THEN at' = at + ReadSize /\ call' = call ELSE at' = at /\ call' = "failed"
    /\ UNCHANGED <<generator, size, supported>>

SystemRestRead_Whole ==
    /\ call = "system" /\ size > 0 /\ size - at <= ReadSize
    /\ \E result \in 0 .. ReadSize :
          /\ Put(result, "system", 0)
          /\ call' = IF result = ReadSize THEN "success" ELSE "failed"
    /\ UNCHANGED <<generator, size, at, supported>>

\* Reads what the others read, and not what is left.
SystemRestRead ==
    /\ call = "system" /\ size > 0 /\ size - at <= ReadSize
    /\ \E result \in 0 .. ReadSize :
          /\ Put(result, "system", 0)
          /\ call' = IF result = size - at THEN "success" ELSE "failed"
    /\ UNCHANGED <<generator, size, at, supported>>

Return ==
    /\ call \in {"filled", "success", "failed"}
    /\ call' = "idle" /\ size' = 0 /\ at' = 0 /\ buffer' = Clean
    /\ UNCHANGED <<generator, supported>>

Init ==
    /\ \E seed \in Seeds :
          \/ words = XorShift32(seed) /\ at = 0 /\ call = "idle"
          \/ \E n \in {2, 16} : words = XorShift(n, seed) /\ at = 1 /\ call = "seeding"
    /\ p = 0 /\ drawn = 0 /\ supported \in BOOLEAN
    /\ buffer = Clean /\ size = 0

Next ==
    \/ Seed \/ Bits \/ BytesChunk \/ BytesRest \/ HardwareChunk \/ HardwareRest \/ HardwareDone
    \/ SystemFails \/ SystemChunkRead \/ SystemRestRead \/ Return
    \/ \E n \in Sizes : FillBytes(n) \/ SecureBytes(n)

Spec == Init /\ [][Next]_vars

-----------------------------------------------------------------------------

Width == IF Len(words) = 1 THEN 32 ELSE 64

TypeOK ==
    /\ Len(words) \in {1, 2, 16}
    /\ \A i \in DOMAIN words : words[i] \subseteq 0 .. Width - 1
    /\ p \in 0 .. 15 /\ drawn \in 0 .. MaxDraws /\ supported \in BOOLEAN
    /\ size \in Sizes \cup {0} /\ at \in 0 .. IF call = "seeding" THEN Len(words) - 1 ELSE size

\* A generator whose words are all zero gives zeros for ever: no seed starts
\* one, and no number of draws leads there.
NonZero == \E i \in DOMAIN words : words[i] # {}

\* Bytes and SecureBytes that succeed have written every byte of the buffer
\* and none behind it, whatever the chunks are; numbers are not used twice nor
\* drawn in vain, and bytes of the hardware, when it fails in the middle, are
\* not mixed with those of the system.
BytesFilled ==
    /\ call = "filled" =>
          /\ \A i \in 1 .. size : buffer[i][1] = "drawn"
          /\ \A i, j \in 1 .. size : i # j => buffer[i] # buffer[j]
          /\ \A number \in {buffer[i][2] : i \in 1 .. size} :
                \/ number = drawn - 1
                \/ \A k \in 1 .. Chunk : \E i \in 1 .. size : buffer[i] = <<"drawn", number, k>>
    /\ call = "success" =>
          \E source \in {"hardware", "system"} : \A i \in 1 .. size : buffer[i][1] = source
    /\ call \in {"filled", "success"} => \A i \in DOMAIN buffer \ (1 .. size) : buffer[i] = Old

\* Numbers in a range are in it, and every one of it can come, up to ranges of
\* all values of the type and with negative bounds (Random::Int32, UInt32 and
\* those of 64 bits).
RangesKept ==
    \A signed \in BOOLEAN :
        LET first == IF signed THEN -4 ELSE 0
            values == first .. first + 7
        IN  \A min \in values : \A max \in {v \in values : v >= min} :
                {IF signed THEN SignedInt(v, min, max, 8) ELSE UnsignedInt(v, min, max, 8) : v \in 0 .. 7} = min .. max
=============================================================================
