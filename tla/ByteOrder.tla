------------------------------ MODULE ByteOrder ------------------------------
(***************************************************************************)
(* Unsigned integers of n bytes in memory (Memory.cpp, Endian.h).  A byte  *)
(* is a digit to the base Radix, 256 in the program: a shift by 8 bits is  *)
(* a division or a multiplication by Radix.                                *)
(***************************************************************************)
EXTENDS Naturals, Sequences, FiniteSetsExt

CONSTANT Radix      \* at least 2

Orders == {"LE", "BE"}

\* The digit of the value that byte k of n holds, counted from the lowest.
Digit(order, n, k) == IF order = "BE" THEN n - k ELSE k - 1

\* The bytes PutN_LE and PutN_BE write.
PutBytes(order, n, value) == [k \in 1 .. n |-> (value \div Radix ^ Digit(order, n, k)) % Radix]

\* The value ReadN_LE and ReadN_BE assemble, modulo the width of the type.
GetValue(order, n, bytes) ==
    MapThenSumSet(LAMBDA k : bytes[k] * Radix ^ Digit(order, n, k), 1 .. n) % Radix ^ n

\* Endian::ConstSwap: digits move from the end of x to the end of result.
ConstSwap(n, value) ==
    LET swap[step \in 0 .. n] ==
            IF step = 0 THEN [x |-> value, result |-> 0]
            ELSE [x |-> swap[step - 1].x \div Radix,
                  result |-> (swap[step - 1].result * Radix) + (swap[step - 1].x % Radix)]
    IN  swap[n].result
==============================================================================
