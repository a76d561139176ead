--------------------------------- MODULE Hex ---------------------------------
(***************************************************************************)
(* Bytes and their text: Hex<N> and HexView (Hex.h, Hex.cpp), UUID         *)
(* (Uuid.cpp), and the conversions of Ascii (Ascii.h, Ascii.cpp) that they *)
(* are made of.  A text is a sequence of character codes.  A Hex<N> keeps  *)
(* N bytes, of which the first size count; the others may be left from     *)
(* what it held before.                                                    *)
(***************************************************************************)
EXTENDS Integers, SequencesExt

CONSTANTS Hexes,        \* variables of type Hex<N>
          N,
          ByteValues,   \* the bytes in use
          Numbers,      \* values that are printed in base 16 and 8
          PrintSizes       \* sizes of the buffers they are printed to

VARIABLES data, size,   \* of every Hex
          value,        \* the bytes that were put into it last
          uuid,         \* the bytes of a UUID
          text, result  \* what UUID::FromString was called with, or V4 has made, and how it ended

vars == <<data, size, value, uuid, text, result>>

-----------------------------------------------------------------------------
(* Characters and numbers.                                                  *)

HEX_CHARACTERS == [d \in 0 .. 15 |-> IF d < 10 THEN 48 + d ELSE 87 + d]

IsHex(c) == c \in (97 .. 102) \cup (65 .. 70) \cup (48 .. 57)

\* 0 for what is no digit.
ToNibble(c) ==
    CASE c \in 48 .. 57 -> c - 48
      [] c \in 97 .. 102 -> c - 87
      [] c \in 65 .. 70 -> c - 55
      [] OTHER -> 0

ToHexByte(high, low) == (high * 16) + low

\* The text of bytes: two digits for each one.
HexDigits(bytes) ==
    [i \in 1 .. 2 * Len(bytes) |->
        HEX_CHARACTERS[IF i % 2 = 1 THEN bytes[(i + 1) \div 2] \div 16 ELSE bytes[i \div 2] % 16]]

\* Nothing for an odd number of bytes.  It is the text of a HexView.
ToHexString(bytes) == IF Len(bytes) % 2 = 0 THEN HexDigits(bytes) ELSE <<>>

\* As many whole bytes as the buffer of length characters has room for.
ToHexStringIn(bytes, length) ==
    IF bytes = <<>> \/ length = 0 THEN <<>>
    ELSE SubSeq(HexDigits(bytes), 1, 2 * (Min({length - 1, (2 * Len(bytes)) + 1}) \div 2))

\* ToHexString and ToOctalString of a number: its last digits, if the buffer is
\* too short for all of them.
ToDigits(number, base, length) ==
    LET digits[n \in Nat] == IF n = 0 THEN <<>> ELSE Append(digits[n \div base], HEX_CHARACTERS[n % base])
        all == digits[number]
        kept == Min({length - 1, Len(all)})
    IN  IF length = 0 THEN <<>>
        ELSE IF number = 0 THEN <<48>>
        ELSE SubSeq(all, Len(all) - kept + 1, Len(all))

\* Bytes of str, which is not empty and has an even length.
FromHexString(str) ==
    [i \in 1 .. Len(str) \div 2 |-> ToHexByte(ToNibble(str[(2 * i) - 1]), ToNibble(str[2 * i]))]

-----------------------------------------------------------------------------
(* Hex<N>.                                                                  *)

Zeros == [i \in 1 .. N |-> 0]

Contents == UNION {[1 .. n -> ByteValues] : n \in 0 .. N}

View(h) == SubSeq(data[h], 1, size[h])

\* The bytes behind what is copied stay.
Over(old, bytes) == bytes \o SubSeq(old, Len(bytes) + 1, N)

Put(h, bytes, count, old) ==
    /\ data' = [data EXCEPT ![h] = Over(old, bytes)]
    /\ size' = [size EXCEPT ![h] = count]
    /\ UNCHANGED <<uuid, text, result>>

Assign(h, bytes) ==
    /\ Put(h, bytes, Len(bytes), data[h])
    /\ value' = [value EXCEPT ![h] = bytes]

\* Constructors clear the bytes first.
Construct(h, bytes) ==
    /\ Put(h, bytes, Len(bytes), Zeros)
    /\ value' = [value EXCEPT ![h] = bytes]

ConstructSize(h, count) ==
    /\ Put(h, <<>>, count, Zeros)
    /\ value' = [value EXCEPT ![h] = SubSeq(Zeros, 1, count)]

\* The text is even and no longer than N bytes; digits of either case.
FromString(h, str) ==
    /\ Put(h, FromHexString(str), Len(str) \div 2, Zeros)
    /\ value' = [value EXCEPT ![h] = FromHexString(str)]

\* The copy constructor does not look at the other: the copy is empty.
CopyConstruct(h, other) ==
    /\ h # other
    /\ Put(h, <<>>, 0, Zeros)
    /\ value' = [value EXCEPT ![h] = <<>>]

\* The move constructor copies.
MoveConstruct(h, other) ==
    /\ h # other
    /\ Put(h, View(other), size[other], Zeros)
    /\ value' = [value EXCEPT ![h] = value[other]]

CopyAssign(h, other) ==
    /\ h # other
    /\ Put(h, View(other), size[other], data[h])
    /\ value' = [value EXCEPT ![h] = value[other]]

MoveAssign_Unguarded(h, other) ==
    /\ data' = [data EXCEPT ![h] = data[other], ![other] = Zeros]
    /\ size' = [size EXCEPT ![h] = size[other], ![other] = 0]
    /\ value' = IF h = other THEN value ELSE [value EXCEPT ![h] = value[other], ![other] = <<>>]
    /\ UNCHANGED <<uuid, text, result>>

\* Assigning a Hex to itself leaves it alone.
MoveAssign(h, other) ==
    /\ IF h = other THEN UNCHANGED <<data, size, value>>
       ELSE /\ data' = [data EXCEPT ![h] = data[other], ![other] = Zeros]
            /\ size' = [size EXCEPT ![h] = size[other], ![other] = 0]
            /\ value' = [value EXCEPT ![h] = value[other], ![other] = <<>>]
    /\ UNCHANGED <<uuid, text, result>>

\* operator==
Equal(h, other) == size[h] = size[other] /\ View(h) = View(other)

-----------------------------------------------------------------------------
(* UUID.                                                                    *)

SIZE == 16

Dash == 45

\* The canonical text, 8-4-4-4-12.
UuidString(bytes) ==
    LET d == HexDigits(bytes)
    IN  SubSeq(d, 1, 8) \o <<Dash>> \o SubSeq(d, 9, 12) \o <<Dash>> \o SubSeq(d, 13, 16) \o <<Dash>>
            \o SubSeq(d, 17, 20) \o <<Dash>> \o SubSeq(d, 21, 32)

\* The character at a position; behind the text there is a zero.
At(str, i) == IF i <= Len(str) THEN str[i] ELSE 0

\* The loop of FromString from position i on, with the bytes it has read.  Its
\* assertion lets one byte too many pass, which is written behind the array.
RECURSIVE ReadBytes(_, _, _)
ReadBytes(str, i, bytes) ==
    CASE i > Len(str) \/ At(str, i) = 0 -> [kind |-> "end", bytes |-> bytes]
      [] i <= Len(str) /\ At(str, i) # 0 /\ Len(bytes) > SIZE -> [kind |-> "abort", bytes |-> bytes]
      [] OTHER ->
            IF At(str, i) = Dash THEN ReadBytes(str, i + 1, bytes)
            ELSE IF ~IsHex(At(str, i)) \/ ~IsHex(At(str, i + 1)) THEN [kind |-> "end", bytes |-> bytes]
            ELSE ReadBytes(str, i + 2, Append(bytes, ToHexByte(ToNibble(At(str, i)), ToNibble(At(str, i + 1)))))

UuidFromString(str) ==
    /\ text' = str
    /\ IF Len(str) % 2 # 0 THEN result' = "failure" /\ UNCHANGED uuid
       ELSE LET read == ReadBytes(str, 1, <<>>)
            IN  IF read.kind = "abort" THEN result' = "abort" /\ UNCHANGED uuid
                ELSE IF Len(read.bytes) = SIZE THEN result' = "ok" /\ uuid' = read.bytes
                ELSE result' = "failure" /\ UNCHANGED uuid
    /\ UNCHANGED <<data, size, value>>

\* V4 of random bytes.
V4(bytes) ==
    /\ uuid' = [bytes EXCEPT ![7] = (@ % 16) + 64]
    /\ text' = UuidString(uuid') /\ result' = "v4"
    /\ UNCHANGED <<data, size, value>>

Version(bytes) == bytes[7] \div 16

-----------------------------------------------------------------------------

Init ==
    /\ data = [h \in Hexes |-> Zeros] /\ size = [h \in Hexes |-> 0] /\ value = [h \in Hexes |-> <<>>]
    /\ uuid = [i \in 1 .. SIZE |-> 0] /\ text = <<>> /\ result = "none"

Upper(str) == [i \in DOMAIN str |-> IF str[i] \in 97 .. 102 THEN str[i] - 32 ELSE str[i]]

\* Bytes that differ in one place.
SampleUuids == {[i \in 1 .. SIZE |-> IF i = k THEN b ELSE a] : k \in 1 .. SIZE, a, b \in ByteValues}

\* Texts of a UUID: as printed, in capitals, without dashes, and with a dash, a zero
\* or a letter that is no digit somewhere, with a dash inside a byte, and with
\* something missing or added.
Texts(bytes) ==
    LET str == UuidString(bytes)
        plain == HexDigits(bytes)
    IN  {str, Upper(str), plain, <<>>, SubSeq(plain, 1, 30), SubSeq(str, 1, 35), Append(str, Dash),
         str \o <<48, 48>>, plain \o <<48, 48, 48, 48>>, <<plain[1], Dash>> \o Tail(plain) \o <<Dash>>,
         plain \o <<Dash, Dash>>, plain \o <<48, 122>>, plain \o <<122, 48>>, plain \o <<0, 48>>}
            \cup {[plain EXCEPT ![k] = c] : k \in {1, 2, 31, 32}, c \in {Dash, 0, 122}}

HexNext ==
    \E h \in Hexes :
       \/ \E bytes \in Contents : Assign(h, bytes) \/ Construct(h, bytes)
                               \/ FromString(h, HexDigits(bytes)) \/ FromString(h, Upper(HexDigits(bytes)))
       \/ \E count \in 0 .. N : ConstructSize(h, count)
       \/ \E other \in Hexes : CopyConstruct(h, other) \/ MoveConstruct(h, other)
                               \/ CopyAssign(h, other) \/ MoveAssign(h, other)

\* One call: what it returns depends on its arguments only.
UuidNext ==
    /\ result = "none"
    /\ \E bytes \in SampleUuids : V4(bytes) \/ \E str \in Texts(bytes) : UuidFromString(str)

-----------------------------------------------------------------------------
(* Properties.                                                              *)

\* Type correctness.
TypeOK ==
    /\ data \in [Hexes -> [1 .. N -> ByteValues \cup {0}]] /\ size \in [Hexes -> 0 .. N]
    /\ value \in [Hexes -> Contents \cup {SubSeq(Zeros, 1, n) : n \in 0 .. N}]
    /\ uuid \in [1 .. SIZE -> 0 .. 255] /\ result \in {"none", "v4", "ok", "failure", "abort"}

\* The number that digits denote.
Denotes(str, base) == FoldLeft(LAMBDA n, c : (n * base) + ToNibble(c), 0, str)

\* A Hex holds what was put into it last, whatever it held before and whatever it was
\* assigned to.  If it has an even number of bytes, its text reads back as itself,
\* and two such are equal exactly when their texts are; with an odd number it has
\* none.  Into a buffer goes the text of the first bytes, of any number of them.
HexText ==
    \A h \in Hexes :
        /\ View(h) = value[h]
        /\ size[h] % 2 = 0 => FromHexString(ToHexString(View(h))) = View(h)
        /\ \A length \in PrintSizes :
              LET str == ToHexStringIn(View(h), length)
              IN  /\ Len(str) < Max({length, 1})
                  /\ IsPrefix(FromHexString(str), View(h))
                  /\ length > 2 * size[h] => str = HexDigits(View(h))
        /\ \A g \in Hexes :
              size[h] % 2 = 0 /\ size[g] % 2 = 0 => (Equal(h, g) <=> ToHexString(View(h)) = ToHexString(View(g)))

\* A number is printed as the digits that denote it, or its remainder if there is
\* no room for all of them, and the zero that ends them is in the buffer too, but
\* for a buffer of one character: 0 fills it, and the zero is written behind it.
NumbersPrinted ==
    \A n \in Numbers, length \in PrintSizes \ {0}, base \in {8, 16} :
        LET str == ToDigits(n, base, length)
        IN  /\ Denotes(str, base) = n % (base ^ (length - 1))
            /\ IF n = 0 /\ length = 1 THEN Len(str) = length ELSE Len(str) < length

Digits(str) == SelectSeq(str, LAMBDA c : c # Dash)

\* Sixteen bytes, of two digits each, with dashes before, between and behind them.
WellFormed(str) ==
    /\ Len(Digits(str)) = 2 * SIZE /\ \A c \in Range(Digits(str)) : IsHex(c)
    /\ \A i \in DOMAIN str : str[i] = Dash => Len(Digits(SubSeq(str, 1, i))) % 2 = 0

\* UUID::FromString takes a text exactly if it is even and begins with the digits of
\* sixteen bytes, and no further byte follows; then it has these bytes, whatever
\* else comes behind them.  The text of a UUID reads back as the UUID, and V4 makes
\* one whose Version() is 4.
UuidText ==
    LET ends == {n \in DOMAIN text :
                    /\ WellFormed(SubSeq(text, 1, n))
                    /\ At(text, n + 1) # Dash /\ ~(IsHex(At(text, n + 1)) /\ IsHex(At(text, n + 2)))}
    IN  /\ result \in {"ok", "failure"} => (result = "ok" <=> Len(text) % 2 = 0 /\ ends # {})
        /\ result = "ok" => \A n \in ends : uuid = FromHexString(Digits(SubSeq(text, 1, n)))
        /\ ReadBytes(UuidString(uuid), 1, <<>>).bytes = uuid
        /\ result = "v4" => Version(uuid) = 4

\* What the conversions between bytes and text promise.
TextsReadBack == HexText /\ NumbersPrinted /\ UuidText
==============================================================================
