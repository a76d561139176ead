---------------------------- MODULE RandomProofs ----------------------------
(***************************************************************************)
(* Why a generator never comes to a state of zeros: an exclusive or of a   *)
(* word with its own shift keeps the lowest bit, or the highest one, and a *)
(* step of each generator is made of these.                                *)
(***************************************************************************)
EXTENDS Random, WellFoundedInduction, SequenceTheorems, TLAPS

Word == SUBSET (0 .. 63)

\* One of sixteen words is not zero.
SomeBit(s) == \E i \in 1 .. 16 : s[i] # {}

-----------------------------------------------------------------------------
(* Bits.                                                                    *)

\* A set of natural numbers has a least element.
LEMMA Least ==
    ASSUME NEW S \in SUBSET Nat, S # {}
    PROVE  \E m \in S : \A n \in S : m <= n
<1> DEFINE R == {ss \in Nat \X Nat : ss[1] < ss[2]}
<1>1. IsWellFoundedOn(R, Nat)  BY NatLessThanWellFounded, Zenon DEF OpToRel
<1> HIDE DEF R
<1>2. PICK m \in S : \A n \in S : ~ (<<n, m>> \in R)  BY <1>1, WFMin
<1>3. \A n \in S : ~ (n < m)  BY <1>2 DEF R
<1> QED  BY <1>2, <1>3

\* The bits of a word have a highest one.
LEMMA Greatest ==
    ASSUME NEW v \in Word, v # {}
    PROVE  \E m \in v : \A n \in v : n <= m
<1> DEFINE S == {63 - i : i \in v}
<1>1. S \in SUBSET Nat
  <2> SUFFICES ASSUME NEW i \in v PROVE 63 - i \in Nat  OBVIOUS
  <2> QED  BY DEF Word
<1>2. S # {}  OBVIOUS
<1> HIDE DEF S
<1>3. PICK m \in S : \A n \in S : m <= n  BY <1>1, <1>2, Least
<1>4. PICK i \in v : m = 63 - i  BY <1>3 DEF S
<1>5. \A j \in v : 63 - i <= 63 - j  BY <1>3, <1>4 DEF S
<1>6. \A j \in v : j <= i  BY <1>4, <1>5 DEF Word
<1> QED  BY <1>4, <1>6

\* Words are words after every operation.
LEMMA XorWord == ASSUME NEW a \in Word, NEW b \in Word PROVE Xor(a, b) \in Word
BY DEF Word, Xor

LEMMA ShlWord == ASSUME NEW a \in Word, NEW k \in Nat, NEW width \in 0 .. 64 PROVE Shl(a, k, width) \in Word
BY DEF Word, Shl

LEMMA ShrWord == ASSUME NEW a \in Word, NEW k \in Nat PROVE Shr(a, k) \in Word
BY DEF Word, Shr

LEMMA rotlWord == ASSUME NEW a \in Word, NEW k \in Nat PROVE rotl(a, k) \in Word
BY DEF Word, rotl

\* v ^ (v << k) is zero for zero only: the lowest bit of v stays.
LEMMA ShlKeeps ==
    ASSUME NEW v \in Word, NEW k \in Nat \ {0}, NEW width, Xor(v, Shl(v, k, width)) = {}
    PROVE  v = {}
<1> SUFFICES ASSUME v # {} PROVE FALSE  OBVIOUS
<1>1. PICK m \in v : \A n \in v : m <= n  BY Least DEF Word
<1>2. m \notin Shl(v, k, width)  BY <1>1 DEF Shl, Word
<1> QED  BY <1>1, <1>2 DEF Xor

\* v ^ (v >> k) is zero for zero only: the highest bit of v stays.
LEMMA ShrKeeps ==
    ASSUME NEW v \in Word, NEW k \in Nat \ {0}, Xor(v, Shr(v, k)) = {}
    PROVE  v = {}
<1> SUFFICES ASSUME v # {} PROVE FALSE  OBVIOUS
<1>1. PICK m \in v : \A n \in v : n <= m  BY Greatest
<1>2. m \notin Shr(v, k)  BY <1>1 DEF Shr, Word
<1> QED  BY <1>1, <1>2 DEF Xor

-----------------------------------------------------------------------------
(* Steps of the generators.                                                 *)

\* Random::Bits32(XorShift32&).
LEMMA Step32Keeps ==
    ASSUME NEW s \in Word, s # {}
    PROVE  Step32(s) \in Word /\ Step32(s) # {}
<1> DEFINE a == Xor(s, Shl(s, 13, 32))
           b == Xor(a, Shr(a, 17))
<1>1. a \in Word  BY XorWord, ShlWord
<1> HIDE DEF a
<1>2. b \in Word  BY <1>1, XorWord, ShrWord
<1> HIDE DEF b
<1>3. Xor(b, Shl(b, 5, 32)) \in Word  BY <1>2, XorWord, ShlWord
<1>4. a # {}  BY ShlKeeps DEF a
<1>5. b # {}  BY <1>1, <1>4, ShrKeeps DEF b
<1>6. Xor(b, Shl(b, 5, 32)) # {}  BY <1>2, <1>5, ShlKeeps
<1> QED  BY <1>3, <1>6 DEF Step32, a, b

\* Random::Bits64(XorShift128&).
LEMMA Step128Keeps ==
    ASSUME NEW s \in Seq(Word), Len(s) = 2, s[1] # {} \/ s[2] # {}
    PROVE  /\ Step128(s) \in Seq(Word) /\ Len(Step128(s)) = 2
           /\ Step128(s)[1] # {} \/ Step128(s)[2] # {}
<1> DEFINE s1 == Xor(s[1], s[2])
           first == Xor(Xor(rotl(s[1], 55), s1), Shl(s1, 14, 64))
           second == rotl(s1, 36)
<1>1. s[1] \in Word /\ s[2] \in Word
  <2>1. 1 \in 1 .. Len(s) /\ 2 \in 1 .. Len(s)  OBVIOUS
  <2> QED  BY <2>1, ElementOfSeq
<1>2. s1 \in Word /\ first \in Word /\ second \in Word
  <2>1. s1 \in Word  BY <1>1, XorWord
  <2> HIDE DEF s1
  <2>2. rotl(s[1], 55) \in Word  BY <1>1, rotlWord
  <2>3. second \in Word  BY <2>1, rotlWord
  <2>4. Shl(s1, 14, 64) \in Word  BY <2>1, ShlWord
  <2>5. Xor(rotl(s[1], 55), s1) \in Word  BY <2>1, <2>2, XorWord
  <2>6. first \in Word  BY <2>4, <2>5, XorWord
  <2> QED  BY <2>1, <2>3, <2>6
<1>3. ASSUME first = {}, second = {} PROVE FALSE
  <2>1. s1 = {}  BY <1>3 DEF rotl
  <2>2. rotl(s[1], 55) = {}  BY <1>3, <2>1 DEF Xor, Shl
  <2>3. s[1] = {}  BY <2>2 DEF rotl
  <2> QED  BY <2>1, <2>3 DEF Xor
<1>4. Step128(s) = <<first, second>>  BY DEF Step128
<1> QED  BY <1>2, <1>3, <1>4

\* One word of sixteen is replaced.
LEMMA Replaced ==
    ASSUME NEW S, NEW s \in Seq(S), Len(s) = 16, NEW k \in 1 .. 16, NEW w \in S
    PROVE  /\ [s EXCEPT ![k] = w] \in Seq(S) /\ Len([s EXCEPT ![k] = w]) = 16
           /\ \A i \in 1 .. 16 : [s EXCEPT ![k] = w][i] = IF i = k THEN w ELSE s[i]
<1>1. [s EXCEPT ![k] = w] \in Seq(S)  BY ExceptSeq
<1>2. Len([s EXCEPT ![k] = w]) = 16  BY ExceptSeq
<1>3. \A i \in 1 .. 16 : [s EXCEPT ![k] = w][i] = IF i = k THEN w ELSE s[i]  OBVIOUS
<1> QED  BY <1>1, <1>2, <1>3

\* Random::Bits64(XorShift1024&).  The word that is replaced is not the one it
\* is mixed with.
LEMMA Step1024Keeps ==
    ASSUME NEW s \in Seq(Word), Len(s) = 16, SomeBit(s),
           NEW n \in 0 .. 15, NEW q \in 0 .. 15, n # q
    PROVE  /\ Step1024(s, n, q) \in Seq(Word) /\ Len(Step1024(s, n, q)) = 16
           /\ SomeBit(Step1024(s, n, q))
<1> DEFINE s0 == s[n + 1]
           s1 == Xor(s[q + 1], Shl(s[q + 1], 31, 64))
           new == Xor(Xor(Xor(s1, s0), Shr(s1, 11)), Shr(s0, 30))
           t == [s EXCEPT ![q + 1] = new]
<1>1. q + 1 \in 1 .. Len(s) /\ n + 1 \in 1 .. Len(s) /\ q + 1 # n + 1  OBVIOUS
<1>2. s[q + 1] \in Word /\ s0 \in Word  BY <1>1, ElementOfSeq
<1>3. s1 \in Word
  <2>1. Shl(s[q + 1], 31, 64) \in Word  BY <1>2, ShlWord
  <2> QED  BY <1>2, <2>1, XorWord
<1>4. new \in Word
  <2> HIDE DEF s1, s0
  <2>1. Shr(s1, 11) \in Word  BY <1>3, ShrWord
  <2>2. Shr(s0, 30) \in Word  BY <1>2, ShrWord
  <2>3. Xor(s1, s0) \in Word  BY <1>2, <1>3, XorWord
  <2>4. Xor(Xor(s1, s0), Shr(s1, 11)) \in Word  BY <2>1, <2>3, XorWord
  <2> QED  BY <2>2, <2>4, XorWord
<1> HIDE DEF new
<1>5. /\ t \in Seq(Word) /\ Len(t) = 16
      /\ \A i \in 1 .. 16 : t[i] = IF i = q + 1 THEN new ELSE s[i]
  <2>1. q + 1 \in 1 .. 16  BY <1>1
  <2> QED  BY <1>4, <2>1, Replaced
<1> HIDE DEF t
<1>6. ASSUME \A i \in 1 .. 16 : t[i] = {} PROVE FALSE
  <2>0. \A i \in 1 .. 16 : i # q + 1 => s[i] = {}  BY <1>5, <1>6
  <2>1. new = {} /\ s0 = {}  BY <1>1, <1>5, <1>6, <2>0
  <2>2. Xor(s1, Shr(s1, 11)) = {}
    <3> HIDE DEF s1, s0
    <3>1. Xor(s1, s0) = s1 /\ Shr(s0, 30) = {}  BY <2>1 DEF Xor, Shr
    <3>2. Xor(Xor(s1, Shr(s1, 11)), {}) = {}  BY <2>1, <3>1 DEF new
    <3> QED  BY <3>2 DEF Xor
  <2>3. s1 = {}
    <3> HIDE DEF s1
    <3> QED  BY <1>3, <2>2, ShrKeeps
  <2>4. s[q + 1] = {}
    <3>1. Xor(s[q + 1], Shl(s[q + 1], 31, 64)) = {}  BY <2>3
    <3> QED  BY <1>2, <3>1, ShlKeeps
  <2> QED  BY <1>1, <2>0, <2>4 DEF SomeBit
<1>7. Step1024(s, n, q) = t  BY DEF Step1024, new, t
<1> QED  BY <1>5, <1>6, <1>7 DEF SomeBit

\* Mix64 gives a word, whatever it is given.
LEMMA Mix64Type == ASSUME NEW v PROVE Mix64(v) \in Word
<1> DEFINE w == Times(Fold(Times(Fold(v), Multiplier1)), Multiplier2)
<1>1. w \in Word
  <2>1. ASSUME NEW a, NEW b PROVE Times(a, b) \in Word  BY DEF Times, Word
  <2> QED  BY <2>1
<1>2. Mix64(v) = Fold(w)  BY DEF Mix64
<1> HIDE DEF w
<1>3. Shr(w, 33) \in Word  BY <1>1, ShrWord
<1>4. Xor(w, Shr(w, 33)) \in Word  BY <1>1, <1>3, XorWord
<1> QED  BY <1>2, <1>4 DEF Fold

-----------------------------------------------------------------------------

\* A constructor writes behind the word it began with, which is not zero.
GeneratorInv ==
    /\ words \in Seq(Word) /\ Len(words) \in {1, 2, 16}
    /\ p \in 0 .. 15
    /\ \E i \in 1 .. Len(words) : words[i] # {}
    /\ call = "seeding" => at \in 1 .. Len(words) - 1 /\ words[1] # {}

\* Drawing a number keeps a generator away from zero.
LEMMA DrawKeeps ==
    ASSUME GeneratorInv, Draw
    PROVE  /\ words' \in Seq(Word) /\ Len(words') = Len(words) /\ p' \in 0 .. 15
           /\ \E i \in 1 .. Len(words') : words'[i] # {}
<1>1. CASE Len(words) = 1
  <2>0. words \in Seq(Word) /\ 1 \in 1 .. Len(words)  BY <1>1 DEF GeneratorInv
  <2>1. words[1] \in Word /\ words[1] # {}
    <3>1. words[1] \in Word  BY <2>0, ElementOfSeq
    <3>2. words[1] # {}  BY <1>1 DEF GeneratorInv
    <3> QED  BY <3>1, <3>2
  <2>2. Step32(words[1]) \in Word /\ Step32(words[1]) # {}  BY <2>1, Step32Keeps
  <2>3. words' = <<Step32(words[1])>> /\ p' = p  BY <1>1 DEF Draw
  <2> HIDE DEF Step32
  <2>4. words' \in Seq(Word) /\ Len(words') = 1 /\ words'[1] = Step32(words[1])  BY <2>2, <2>3
  <2> QED  BY <1>1, <2>2, <2>3, <2>4 DEF GeneratorInv
<1>2. CASE Len(words) = 2
  <2>1. words[1] # {} \/ words[2] # {}  BY <1>2 DEF GeneratorInv
  <2>2. words' = Step128(words) /\ p' = p  BY <1>2 DEF Draw
  <2> QED  BY <1>2, <2>1, <2>2, Step128Keeps DEF GeneratorInv
<1>3. CASE Len(words) = 16
  <2>1. SomeBit(words)  BY <1>3 DEF GeneratorInv, SomeBit
  <2>2. words' = Step1024(words, p, (p + 1) % 16) /\ p' = (p + 1) % 16  BY <1>3 DEF Draw
  <2>3. words \in Seq(Word) /\ p \in 0 .. 15 /\ (p + 1) % 16 \in 0 .. 15 /\ p # (p + 1) % 16  BY DEF GeneratorInv
  <2> DEFINE q == (p + 1) % 16
             t == Step1024(words, p, q)
  <2>4. t \in Seq(Word) /\ Len(t) = 16 /\ SomeBit(t)
    <3>1. q \in 0 .. 15 /\ p # q  BY <2>3
    <3> HIDE DEF q
    <3> QED  BY <1>3, <2>1, <2>3, <3>1, Step1024Keeps
  <2> HIDE DEF t, q
  <2>5. words' = t /\ p' = q /\ q \in 0 .. 15  BY <2>2, <2>3 DEF t, q
  <2> QED  BY <1>3, <2>4, <2>5 DEF SomeBit
<1> QED  BY <1>1, <1>2, <1>3 DEF GeneratorInv

\* A generator that does not begin with zeros never has zeros only, whatever
\* its seed and however many numbers are drawn (Random::Bits32, Bits64 and
\* Bytes of XorShift32, XorShift128 and XorShift1024).
THEOREM NeverZero == Spec /\ NonZero => []NonZero
<1>1. Init /\ NonZero => GeneratorInv
  <2> SUFFICES ASSUME Init, NonZero PROVE GeneratorInv  OBVIOUS
  <2>1. PICK seed \in Seeds :
          \/ words = XorShift32(seed) /\ at = 0 /\ call = "idle"
          \/ \E n \in {2, 16} : words = XorShift(n, seed) /\ at = 1 /\ call = "seeding"
    BY DEF Init
  <2>2. CASE words = XorShift32(seed) /\ at = 0 /\ call = "idle"
    <3> DEFINE w == NotZero({i \in 0 .. 31 : i \in seed})
    <3>1. w \in Word /\ w # {}  BY DEF NotZero, Word
    <3>2. words = <<w>>  BY <2>2 DEF XorShift32
    <3> HIDE DEF w
    <3>3. words \in Seq(Word) /\ Len(words) = 1 /\ words[1] = w  BY <3>1, <3>2
    <3> QED  BY <2>2, <3>1, <3>3 DEF GeneratorInv, Init
  <2>3. ASSUME NEW n \in {2, 16}, words = XorShift(n, seed), at = 1, call = "seeding"
        PROVE  GeneratorInv
    <3> DEFINE first == Mix64(NotZero(seed))
    <3>1. first \in Word /\ {} \in Word  BY Mix64Type DEF Word
    <3> HIDE DEF first
    <3>2. words = [i \in 1 .. n |-> IF i = 1 THEN first ELSE {}]  BY <2>3 DEF XorShift, first
    <3>3. words \in Seq(Word) /\ Len(words) = n  BY <3>1, <3>2
    <3>4. words[1] # {}  BY <3>2, <3>3 DEF NonZero
    <3> QED  BY <2>3, <3>3, <3>4 DEF GeneratorInv, Init
  <2> QED  BY <2>1, <2>2, <2>3
<1>2. GeneratorInv /\ [Next]_vars => GeneratorInv'
  <2> SUFFICES ASSUME GeneratorInv, [Next]_vars PROVE GeneratorInv'  OBVIOUS
  <2>1. CASE Seed
    <3> DEFINE new == Mix64(words[at])
    <3>1. new \in Word  BY Mix64Type
    <3> HIDE DEF new
    <3>2. at \in 1 .. Len(words) - 1 /\ words[1] # {} /\ Len(words) \in Nat  BY <2>1 DEF Seed, GeneratorInv
    <3>3. words' = [words EXCEPT ![at + 1] = new]  BY <2>1 DEF Seed, new
    <3>4. /\ words' \in Seq(Word) /\ Len(words') = Len(words)
          /\ words'[1] = words[1]
      BY <3>1, <3>2, <3>3, ExceptSeq DEF GeneratorInv
    <3>5. p' = p /\ (call' = "seeding" => at' = at + 1 /\ at + 1 # Len(words))  BY <2>1 DEF Seed
    <3> QED  BY <3>2, <3>4, <3>5 DEF GeneratorInv
  <2>2. CASE Draw /\ call # "seeding" /\ call' # "seeding"
    BY <2>2, DrawKeeps DEF GeneratorInv
  <2>3. CASE UNCHANGED generator /\ call' # "seeding"
    BY <2>3 DEF GeneratorInv, generator
  <2>4. CASE UNCHANGED vars
    BY <2>4 DEF GeneratorInv, vars, generator, filling
  <2>5. Bits \/ BytesChunk \/ BytesRest => Draw /\ call # "seeding" /\ call' # "seeding"
    BY DEF Bits, BytesChunk, BytesRest, filling
  <2>6. ASSUME HardwareChunk \/ HardwareRest \/ HardwareDone \/ SystemFails \/ SystemChunkRead \/ SystemRestRead \/ Return
        PROVE  UNCHANGED generator /\ call' # "seeding"
    BY <2>6 DEF HardwareChunk, HardwareRest, RdRand, HardwareDone, SystemFails, SystemChunkRead, SystemRestRead, Return
  <2>7. ASSUME NEW n \in Sizes, FillBytes(n) \/ SecureBytes(n)
        PROVE  UNCHANGED generator /\ call' # "seeding"
    BY <2>7 DEF FillBytes, SecureBytes, Fill
  <2> QED  BY <2>1, <2>2, <2>3, <2>4, <2>5, <2>6, <2>7 DEF Next
<1>3. GeneratorInv => NonZero
  BY LenProperties DEF GeneratorInv, NonZero
<1> QED  BY <1>1, <1>2, <1>3, PTL DEF Spec
=============================================================================
