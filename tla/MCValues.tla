------------------------------ MODULE MCValues ------------------------------
(***************************************************************************)
(* What works on values of its caller and shares nothing with others: the  *)
(* containers and cursors over memory, the hashes and the HMAC made of     *)
(* them, strings and the builder of strings, the texts of bytes and UUIDs, *)
(* paths, random numbers, and the contexts a caller cancels work with.  A  *)
(* behaviour is one of one of them, and the others have no state: the      *)
(* state spaces add up instead of being multiplied.                        *)
(***************************************************************************)
EXTENDS Integers, TLC

CONSTANTS SizeMax,                                        \* of size_t
          Bytes, RingSize,                                \* RingBuffer
          Radix, WriterSize, Widths, Samples,             \* MemoryWriter
          ReaderSizes,                                    \* MemoryReader
          Vectors, Values, Length, Undefined, MaxLength,  \* EmbeddedVector
          HashRadix, Types, BlockSize, WordSize, LengthSize, DigestSize, Pieces, MaxMessage,
          KeySizes, DataSizes,                            \* HMAC
          Alphabet, MaxText, MaxOther, Counts, Modulus, Limit,    \* StringUtil
          Characters, Junk, BufferSizes, MaxAppend, MaxNested,    \* FixedStringBuilder
          Hexes, N, ByteValues, Numbers, PrintSizes,      \* Hex
          Segments, MaxSegments,                          \* PathUtil
          Seeds, FillSizes, MaxFill, SystemChunk, MaxDraws,       \* Random
          Contexts, States, Threads, Delays, MaxTime, Null        \* Context

ASSUME SizesAssumption ==
    /\ Radix \in Nat \ {0, 1} /\ RingSize \in Nat \ {0}
    /\ WriterSize \in Nat /\ SizeMax > 2 * WriterSize
    /\ Length \in Nat /\ MaxLength \in Nat /\ Undefined \notin Values

ASSUME BlockAssumption == BlockSize % WordSize = 0 /\ LengthSize < BlockSize /\ DigestSize <= BlockSize

ASSUME TextAssumption == 0 \notin Alphabet \cup Characters /\ Limit < Modulus /\ 0 \notin BufferSizes

ASSUME FillAssumption == SystemChunk > 0 /\ \A n \in FillSizes : n <= MaxFill

ASSUME ContextAssumption == Null \notin States /\ Delays \subseteq Nat \ {0} /\ MaxTime \in Nat \ {0}

VARIABLES part,       \* the component this behaviour is about
          ring, ringRead, ringWrite, ringEmpty, ringStaged,
          written, writeOffset, writeAborted, intact,
          readSize, readOffset, readRange, readAborted,
          vec, expected,
          type, m_size, m_bufferSize, m_buffer, m_digest, input, processing, aborted, message,
          key, data, hmac, digest, stage, output,
          text, other, count,
          memory, builders, texts, spoilt, failed,
          bytes, size, value, uuid, uuidText, uuidResult,
          path, env,
          words, p, drawn, buffer, fillSize, at, fill, supported,
          m_state, flag, deadline, clock, call, kin, cancelled, limit

ringVars == <<ring, ringRead, ringWrite, ringEmpty, ringStaged>>

writerVars == <<written, writeOffset, writeAborted, intact>>

readerVars == <<readSize, readOffset, readRange, readAborted>>

vectorVars == <<vec, expected>>

hashVars == <<type, m_size, m_bufferSize, m_buffer, m_digest, input, processing, aborted, message>>

hmacVars == <<key, data, hmac, digest, stage, output>>

stringVars == <<text, other, count>>

builderVars == <<memory, builders, texts, spoilt, failed>>

hexVars == <<bytes, size, value, uuid, uuidText, uuidResult>>

pathVars == <<path, env>>

randomVars == <<words, p, drawn, buffer, fillSize, at, fill, supported>>

contextVars == <<m_state, flag, deadline, clock, call, kin, cancelled, limit>>

memoryVars == <<ringVars, writerVars, readerVars, vectorVars>>

digestVars == <<hashVars, hmacVars>>

textVars == <<stringVars, builderVars, hexVars, pathVars>>

otherVars == <<randomVars, contextVars>>

Ring == INSTANCE RingBuffer WITH
    Unwritten <- Undefined, m_size <- RingSize, m_buffer <- ring, m_readOffset <- ringRead, m_writeOffset <- ringWrite,
    m_empty <- ringEmpty, staged <- ringStaged

Writer == INSTANCE MemoryWriter WITH
    m_size <- WriterSize, m_data <- written, m_offset <- writeOffset, aborted <- writeAborted

Reader == INSTANCE MemoryReader WITH
    Sizes <- ReaderSizes, m_size <- readSize, m_offset <- readOffset, range <- readRange,
    aborted <- readAborted

Vector == INSTANCE EmbeddedVector

Hash == INSTANCE HMAC WITH Radix <- HashRadix

Text == INSTANCE StringUtil

Build == INSTANCE FixedStringBuilder

Hexs == INSTANCE Hex WITH data <- bytes, text <- uuidText, result <- uuidResult

\* An environment of a process: the variables that are set, the others empty.
Environment(FUSION_CWD, FUSION_HOME, HOME, XDG) ==
    [FUSION_CWD |-> FUSION_CWD, FUSION_HOME |-> FUSION_HOME, HOME |-> HOME, XDG |-> XDG, TMPDIR |-> XDG,
     pw_dir |-> <<"", "p">>, getcwd |-> <<"", "d", "e">>, exe |-> <<"", "bin", "a">>]

\* HOME is the root; all but HOME is set, to paths that are not normal; nothing is set.
Environments ==
    {Environment(<<"">>, <<"">>, <<"", "">>, <<"">>),
     Environment(<<"", "c", "">>, <<"", "h", "..", "i">>, <<"">>, <<"", "x">>),
     Environment(<<"">>, <<"">>, <<"">>, <<"">>)}

Paths == INSTANCE PathUtil

Randoms == INSTANCE Random WITH Sizes <- FillSizes, MaxSize <- MaxFill, size <- fillSize, call <- fill

Ctx == INSTANCE Context

MemoryParts == {"ring", "writer", "reader", "vector"}

DigestParts == {"hash", "hmac"}

TextParts == {"strings", "builder", "hex", "uuid", "path"}

OtherParts == {"random", "context"}

\* What is not looked at has no state.
Init ==
    /\ part \in MemoryParts \cup DigestParts \cup TextParts \cup OtherParts
    /\ IF part = "ring" THEN Ring!Init
       ELSE ring = <<>> /\ ringRead = <<>> /\ ringWrite = <<>> /\ ringEmpty = <<>>
            /\ ringStaged = <<>>
    /\ IF part = "writer" THEN Writer!Init
       ELSE written = <<>> /\ writeOffset = <<>> /\ writeAborted = <<>> /\ intact = <<>>
    /\ IF part = "reader" THEN Reader!Init
       ELSE readSize = <<>> /\ readOffset = <<>> /\ readRange = <<>> /\ readAborted = <<>>
    /\ IF part = "vector" THEN Vector!Init
       ELSE vec = <<>> /\ expected = <<>>
    /\ IF part \in DigestParts THEN Hash!HmacInit /\ (part = "hash" => key = <<>> /\ data = <<>>)
       ELSE type = <<>> /\ m_size = <<>> /\ m_bufferSize = <<>> /\ m_buffer = <<>>
            /\ m_digest = <<>> /\ input = <<>> /\ processing = <<>> /\ aborted = <<>>
            /\ message = <<>> /\ key = <<>> /\ data = <<>> /\ hmac = <<>> /\ digest = <<>>
            /\ stage = <<>> /\ output = <<>>
    /\ IF part = "strings" THEN Text!Init
       ELSE text = <<>> /\ other = <<>> /\ count = <<>>
    /\ IF part = "builder" THEN Build!Init
       ELSE memory = <<>> /\ builders = <<>> /\ texts = <<>> /\ spoilt = <<>> /\ failed = <<>>
    /\ IF part \in {"hex", "uuid"} THEN Hexs!Init
       ELSE bytes = <<>> /\ size = <<>> /\ value = <<>> /\ uuid = <<>> /\ uuidText = <<>>
            /\ uuidResult = <<>>
    /\ IF part = "path" THEN Paths!Init
       ELSE path = <<>> /\ env = <<>>
    /\ IF part = "random" THEN Randoms!Init
       ELSE words = <<>> /\ p = <<>> /\ drawn = <<>> /\ buffer = <<>> /\ fillSize = <<>> /\ at = <<>>
            /\ fill = <<>> /\ supported = <<>>
    /\ IF part = "context" THEN Ctx!Init
       ELSE m_state = <<>> /\ flag = <<>> /\ deadline = <<>> /\ clock = <<>> /\ call = <<>>
            /\ kin = <<>> /\ cancelled = <<>> /\ limit = <<>>

MemoryNext ==
    \/ part = "ring" /\ Ring!Next /\ UNCHANGED <<writerVars, readerVars, vectorVars>>
    \/ part = "writer" /\ Writer!Next /\ UNCHANGED <<ringVars, readerVars, vectorVars>>
    \/ part = "reader" /\ Reader!Next /\ UNCHANGED <<ringVars, writerVars, vectorVars>>
    \/ part = "vector" /\ Vector!Next /\ UNCHANGED <<ringVars, writerVars, readerVars>>

DigestNext ==
    \/ part = "hash" /\ Hash!Next /\ UNCHANGED hmacVars
    \/ part = "hmac" /\ Hash!HmacNext

TextNext ==
    \/ part = "strings" /\ Text!Next /\ UNCHANGED <<builderVars, hexVars, pathVars>>
    \/ part = "builder" /\ Build!Next /\ UNCHANGED <<stringVars, hexVars, pathVars>>
    \/ part = "hex" /\ Hexs!HexNext /\ UNCHANGED <<stringVars, builderVars, pathVars>>
    \/ part = "uuid" /\ Hexs!UuidNext /\ UNCHANGED <<stringVars, builderVars, pathVars>>
    \/ part = "path" /\ Paths!Next /\ UNCHANGED <<stringVars, builderVars, hexVars>>

OtherNext ==
    \/ part = "random" /\ Randoms!Next /\ UNCHANGED contextVars
    \/ part = "context" /\ Ctx!Next /\ UNCHANGED randomVars

Next ==
    /\ UNCHANGED part
    /\ \/ MemoryNext /\ UNCHANGED <<digestVars, textVars, otherVars>>
       \/ DigestNext /\ UNCHANGED <<memoryVars, textVars, otherVars>>
       \/ TextNext /\ UNCHANGED <<memoryVars, digestVars, otherVars>>
       \/ OtherNext /\ UNCHANGED <<memoryVars, digestVars, textVars>>

Spec == Init /\ [][Next]_<<part, memoryVars, digestVars, textVars, otherVars>>

\* Of paths alone.
PathSpec == part = "path" /\ Spec

\* Vectors are interchangeable, and so are the values they hold.  Contexts take
\* the names of the vectors, and their States those of the values.
Symmetry == Permutations(Vectors) \cup Permutations(Values)

-----------------------------------------------------------------------------

\* Type correctness of all of them; in particular the offsets of the ring stay in
\* it, the writer's offset never passes the end of its buffer, so that
\* Remaining() does not wrap, the reader's passes it by at most four bytes, the
\* buffer of a hash is never full between two calls, and what a builder of a string
\* counts as its capacity is within the caller's buffer.
TypeOK ==
    /\ part = "ring" => Ring!TypeOK
    /\ part = "writer" => Writer!TypeOK
    /\ part = "reader" => Reader!TypeOK
    /\ part = "vector" => Vector!TypeOK
    /\ part \in DigestParts => Hash!TypeOK
    /\ part = "strings" => Text!TypeOK
    /\ part = "builder" => Build!TypeOK
    /\ part \in {"hex", "uuid"} => Hexs!TypeOK
    /\ part = "path" => Paths!TypeOK
    /\ part = "random" => Randoms!TypeOK
    /\ part = "context" => Ctx!TypeOK

\* RingBuffer is a queue of bytes: what Peek and Read copy out is first what a new
\* ring is full of, which nobody has written, and then what was committed, in that
\* order, however writes, commits and reads wrap around.  It takes as many bytes as
\* were read, and once it was read empty none any more.
IsQueue ==
    /\ part = "ring" => Ring!Queue!QInit
    /\ [](part = "ring" => Ring!RoomLeft)
    /\ [][part = "ring" => Ring!Queue!QNext]_ringVars

\* An integer put by a MemoryWriter reads back as the same value in its order,
\* whatever was written around it since, and in the other order as what
\* Endian::ConstSwap makes of the value.
RoundTrip == part = "writer" => Writer!RoundTrip

\* The spans, the strings and the sequential integers that a MemoryReader
\* returns are made of bytes of its buffer, whatever sums wrap.
SpansInside ==
    [][part = "reader" /\ Reader!SpanStep => readRange' \subseteq 0 .. readSize - 1]_readerVars

\* An EmbeddedVector holds the sequence that its operations describe, across the
\* way from its own storage to the heap and back, and after moves, and its
\* elements fit in what m_data points to.
IsSequence == part = "vector" => Vector!IsSequence

\* Between two calls, Finish gives the digest of what was processed since Reset,
\* however it was cut into pieces and however often Finish was called before.
\* HMAC computes what RFC 2104 defines, for keys and data shorter than, as long as
\* and longer than a block, and no assertion of the hashes fails on the way.
DigestOfMessage ==
    /\ part = "hash" => Hash!DigestOfMessage
    /\ part = "hmac" => Hash!HmacOfData

\* Join undoes Split by one character but for one at the end, prefixes, suffixes
\* and the order of strings are those of the sequences of characters, Trim leaves
\* the longest part of a string it may, and numbers below 2^64 are parsed exactly.
\* What a FixedStringBuilder shows is what was appended to it and to the builders
\* that worked on its rest, and nothing is written behind the buffer, as long as no
\* single character was appended to a text that was not empty and no assertion has
\* failed.
StringsAgree ==
    /\ part = "strings" => Text!StringsAgree
    /\ part = "builder" => Build!BuilderText

\* A Hex holds what was put into it last, and two with an even number of bytes are
\* equal exactly when their texts are.  An even number of bytes, a number that has
\* room and a UUID read back from their texts as themselves.
TextsReadBack == part \in {"hex", "uuid"} => Hexs!TextsReadBack

\* Normalize gives the one normal form of a path that does not begin with two
\* slashes and a name; a path is put together again from
\* its Dirname and Basename, and what is joined to a directory is below it.
PathsAgree == part = "path" => Paths!NormalForm /\ Paths!PartsRejoin

\* Normalize keeps the two slashes that "//foo/bar" begins with and ends it with
\* one, as its test says (TestPathUtil.cpp:302).
DoubledKept == part = "path" => Paths!DoubledKept

\* A generator never comes to zeros, from which it would not get away; Bytes, and
\* SecureBytes that succeeds, write the whole buffer and nothing behind it, from
\* one source; and numbers in a range are all of it and no others, which does not
\* depend on the state and is looked at before the first number is drawn.
RandomKept ==
    part = "random" => /\ Randoms!NonZero /\ Randoms!BytesFilled
                       /\ drawn = 0 => Randoms!RangesKept

\* Whoever asks a Context sees a cancellation through any handle of it that came
\* before, and no deadline that it never had, although flag, deadline and clock are
\* read one after the other.
CancelSeen == part = "context" => Ctx!CancelSeen
==============================================================================
