----------------------------- MODULE StringUtil -----------------------------
(***************************************************************************)
(* StringUtil (StringUtil.cpp): comparing, splitting, joining, trimming    *)
(* and parsing.  A string is a sequence of character codes.  The           *)
(* operations that work in place are actions on text; the others are       *)
(* operators, looked at for every text, every other and every count.       *)
(***************************************************************************)
EXTENDS Integers, SequencesExt

CONSTANTS Alphabet,     \* character codes; 0 is not among them
          MaxText,      \* bound: the length of the text
          MaxOther,     \* bound: the length of the second argument
          Counts,       \* third arguments of Split
          Modulus,      \* of uint64_t, 2^64 in the program
          Limit         \* the largest value of the type that is parsed

VARIABLES text, other, count

vars == <<text, other, count>>

Strings(n) == UNION {[1 .. k -> Alphabet] : k \in 0 .. n}

ToLowerChar(c) == IF c \in 65 .. 90 THEN c + 32 ELSE c

ToUpperChar(c) == IF c \in 97 .. 122 THEN c - 32 ELSE c

Lower(s) == [i \in DOMAIN s |-> ToLowerChar(s[i])]

Upper(s) == [i \in DOMAIN s |-> ToUpperChar(s[i])]

-----------------------------------------------------------------------------
(* Comparing.                                                               *)

\* At most length characters, up to the first that differs or ends a.
Compare(a, b, length) ==
    LET stops == {i \in 1 .. length : a[i] = 0 \/ a[i] # b[i]}
    IN  IF stops = {} THEN 0 ELSE a[Min(stops)] - b[Min(stops)]

\* Of the forms with string_views; the longer one is cut.
CompareViews(a, b) == Compare(a, b, Min({Len(a), Len(b)}))

CompareI(a, b) == CompareViews(Lower(a), Lower(b))

\* Of strings that end with a zero.
CompareStrings(a, b) == CompareViews(Append(a, 0), Append(b, 0))

Equal(a, b) == CompareViews(a, b) = 0

Less(a, b) == CompareViews(a, b) < 0

EndsWith(str, suffix) ==
    Len(suffix) <= Len(str) /\ Equal(SubSeq(str, Len(str) - Len(suffix) + 1, Len(str)), suffix)

StartsWith(str, prefix) == Len(prefix) <= Len(str) /\ Equal(SubSeq(str, 1, Len(prefix)), prefix)

StartsWithI(str, prefix) == Len(prefix) <= Len(str) /\ CompareI(SubSeq(str, 1, Len(prefix)), prefix) = 0

\* What fits in dstLen characters, the terminating zero among them.
Copy(dstLen, src) == IF dstLen = 0 THEN <<>> ELSE SubSeq(src, 1, Min({dstLen - 1, Len(src)}))

-----------------------------------------------------------------------------
(* Splitting and joining.                                                   *)

\* Where delim occurs.  Each search starts one character behind the last find.
Finds(in, delim) ==
    SetToSortSeq({i \in 1 .. Len(in) - Len(delim) + 1 : SubSeq(in, i, i + Len(delim) - 1) = delim}, <)

SplitViews_KeepsEmpty(in, delim, n) ==
    IF in = <<>> \/ n = 0 THEN <<>>
    ELSE IF delim = <<>> THEN <<in>>
    ELSE LET at == <<0>> \o Finds(in, delim)
             parts == [k \in 1 .. Min({n, Len(at) - 1}) |-> SubSeq(in, at[k] + 1, at[k + 1] - 1)]
             part == SubSeq(in, Last(at) + 1, Len(in))
         IN  IF Len(parts) < n THEN Append(parts, part) ELSE parts

SplitViews(in, delim, n) ==
    IF in = <<>> \/ n = 0 THEN <<>>
    ELSE IF delim = <<>> THEN <<in>>
    ELSE LET at == <<0>> \o Finds(in, delim)
             parts == [k \in 1 .. Min({n, Len(at) - 1}) |-> SubSeq(in, at[k] + 1, at[k + 1] - 1)]
             part == SubSeq(in, Last(at) + 1, Len(in))
         IN  IF part # <<>> /\ Len(parts) < n THEN Append(parts, part) ELSE parts

Join(values, delim) ==
    FlattenSeq([i \in DOMAIN values |-> IF i < Len(values) THEN values[i] \o delim ELSE values[i]])

-----------------------------------------------------------------------------
(* Parsing.                                                                 *)

IsDigit(c) == c \in 48 .. 57

\* The digits at the beginning, and what they add up to.
Digits(in) == Min({i \in 1 .. Len(in) : ~IsDigit(in[i])} \cup {Len(in) + 1}) - 1

Value(in) == FoldLeft(LAMBDA v, c : (v * 10) + (c - 48), 0, SubSeq(in, 1, Digits(in)))

Failed(why) == [ok |-> FALSE, why |-> why]

Parsed(v) == [ok |-> TRUE, value |-> v]

\* Overflow is not looked for: the value is the one modulo 2^64.
ToUnsignedNumber(in, max) ==
    IF in = <<>> THEN Failed("empty string")
    ELSE IF Value(in) % Modulus > max THEN Failed("out of range")
    ELSE IF Digits(in) # Len(in) THEN Failed("not a number")
    ELSE Parsed(Value(in) % Modulus)

\* A sign alone is a zero.  Overflow, which is undefined, wraps as on the machine.
ToSignedNumber(in, min, max) ==
    IF in = <<>> THEN Failed("empty string")
    ELSE LET sign == Head(in) = 45
             rest == IF sign THEN Tail(in) ELSE in
             wrapped == ((Value(rest) + (Modulus \div 2)) % Modulus) - (Modulus \div 2)
             v == IF sign THEN -wrapped ELSE wrapped
         IN  IF v < min \/ v > max THEN Failed("out of range")
             ELSE IF Digits(rest) # Len(rest) THEN Failed("not a number")
             ELSE Parsed(v)

-----------------------------------------------------------------------------
(* Trimming.                                                                *)

Others(s, tokens) == {i \in DOMAIN s : ~Contains(tokens, s[i])}

\* The form for a string erases it when it has nothing else; the form for a
\* string_view throws then, and for an empty one.
Left(s, tokens) == IF Others(s, tokens) = {} THEN <<>> ELSE SubSeq(s, Min(Others(s, tokens)), Len(s))

LeftViewThrows(s, tokens) == Others(s, tokens) = {}

Right(s, tokens) == IF Others(s, tokens) = {} THEN <<>> ELSE SubSeq(s, 1, Max(Others(s, tokens)))

Init == text \in Strings(MaxText) /\ other \in Strings(MaxOther) /\ count \in Counts

ToLower == text' = Lower(text) /\ UNCHANGED <<other, count>>

ToUpper == text' = Upper(text) /\ UNCHANGED <<other, count>>

TrimLeft == text' = Left(text, other) /\ UNCHANGED <<other, count>>

TrimRight == text' = Right(text, other) /\ UNCHANGED <<other, count>>

Trim == text' = Right(Left(text, other), other) /\ UNCHANGED <<other, count>>

Next == ToLower \/ ToUpper \/ TrimLeft \/ TrimRight \/ Trim

Spec == Init /\ [][Next]_vars

-----------------------------------------------------------------------------
(* Properties.                                                              *)

\* Type correctness of the arguments: letters keep to the alphabet.
TypeOK == text \in Strings(MaxText) /\ other \in Strings(MaxOther) /\ count \in Counts

Many == MaxText + 2

\* A count takes the first of all parts.  Join undoes Split when the delimiter is
\* one character, but for one such character at the end, and no part has it.
\* Nothing more is said of longer delimiters: Split removes their first character
\* only.
JoinInvertsSplit ==
    LET parts == SplitViews(text, other, Many) IN
    /\ SplitViews(text, other, count) = SubSeq(parts, 1, Min({count, Len(parts)}))
    /\ Len(other) = 1 /\ text # <<>> =>
         /\ Join(parts, other) = IF Last(text) = other[1] THEN Front(text) ELSE text
         /\ \A i \in DOMAIN parts : ~Contains(parts[i], other[1])

\* StartsWith, EndsWith and Equal agree with what is in the strings, and the
\* comparison of C strings is a total order that refines the one of views.
Ordered ==
    /\ StartsWith(text, other) <=> IsPrefix(other, text)
    /\ EndsWith(text, other) <=> IsSuffix(other, text)
    /\ StartsWith(text, other) => StartsWithI(text, other)
    /\ CompareStrings(text, other) = 0 <=> text = other
    /\ CompareStrings(text, other) < 0 <=> CompareStrings(other, text) > 0
    /\ Less(text, other) => CompareStrings(text, other) < 0

\* What Trim leaves of a string is the longest part with something else at both
\* ends.  The form for a string_view gives the same, but throws where nothing else
\* is in it.
Trimmed ==
    LET rest == Right(Left(text, other), other) IN
    /\ rest # <<>> => ~Contains(other, Head(rest)) /\ ~Contains(other, Last(rest))
    /\ Len(SelectSeq(rest, LAMBDA c : ~Contains(other, c))) = Cardinality(Others(text, other))
\* A text that is a number below 2^64 is parsed to that number or is out of
\* range; whatever else is parsed is a number modulo 2^64.
NumbersParsed ==
    LET unsigned == ToUnsignedNumber(text, Limit)
        signed == ToSignedNumber(text, -Limit - 1, Limit)
        number == text # <<>> /\ \A i \in DOMAIN text : IsDigit(text[i])
    IN  /\ unsigned.ok => number /\ unsigned.value = Value(text) % Modulus
        /\ number /\ Value(text) < Modulus =>
             unsigned = IF Value(text) <= Limit THEN Parsed(Value(text)) ELSE Failed("out of range")
        /\ unsigned.ok /\ Value(text) <= Limit => signed = unsigned
        /\ signed.ok => signed.value \in -Limit - 1 .. Limit

\* Splitting by one character, comparing, trimming and parsing (StringUtil.cpp)
\* agree with the reference definitions above, on every text, other and count.
StringsAgree == JoinInvertsSplit /\ Ordered /\ Trimmed /\ NumbersParsed
==============================================================================
