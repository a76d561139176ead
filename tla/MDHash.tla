------------------------------- MODULE MDHash -------------------------------
(***************************************************************************)
(* MDHash (Impl/Hash.h, MD5.cpp, SHA1.cpp, SHA256.cpp): a message is taken *)
(* in pieces, cut into blocks, and padded when the digest is asked for.    *)
(* A digest depends on nothing but the blocks given to ProcessBlock, read  *)
(* as words, so the sequence of those words stands for it; the rounds of   *)
(* the three compression functions are not modelled.  The host is little   *)
(* endian.  A turn of the loop in Process is a step.                       *)
(***************************************************************************)
EXTENDS ByteOrder

CONSTANTS Types,        \* Md5, Sha1 and Sha256
          BlockSize,    \* m_buffer.size(), 64 in the program
          WordSize,     \* of the words of a block, 4 in the program
          LengthSize,   \* the bytes of the length behind the padding, 8 in the program
          DigestSize,   \* Digest::SIZE
          Pieces,       \* sizes of the pieces a message is given in
          MaxMessage    \* bound: the length of a message

VARIABLES type,
          m_size, m_bufferSize, m_buffer,
          m_digest,     \* the words of the blocks that were processed
          input,        \* what Process has still to consume
          processing,   \* Process is under way
          aborted,      \* an assertion has failed
          message       \* everything given to Process since Reset

hashVars == <<type, m_size, m_bufferSize, m_buffer, m_digest, input, processing, aborted, message>>

\* A byte is a number, a byte of somebody's data or a byte of a digest, with the
\* masks it was combined with by exclusive or.
Number(v) == <<"number", v, {}>>

Data(name, n) == [i \in 1 .. n |-> <<name, i, {}>>]

Zeros(n) == [i \in 1 .. n |-> Number(0)]

DigestBytes(t, blocks) == [k \in 1 .. DigestSize |-> <<"digest", <<t, blocks, k>>, {}>>]

Reset ==
    /\ m_size' = 0 /\ m_bufferSize' = 0 /\ m_buffer' = Zeros(BlockSize) /\ m_digest' = <<>>
    /\ message' = <<>>
    /\ UNCHANGED <<type, input, processing, aborted>>

Init ==
    /\ type \in Types
    /\ m_size = 0 /\ m_bufferSize = 0 /\ m_buffer = Zeros(BlockSize) /\ m_digest = <<>>
    /\ input = <<>> /\ processing = FALSE
    /\ aborted = FALSE /\ message = <<>>

-----------------------------------------------------------------------------
(* Process.                                                                 *)

\* The words of a block, their bytes with the highest first: a little endian
\* host has the highest behind the others, and Swap reverses that.
Load(block) == [w \in 1 .. BlockSize \div WordSize |-> [k \in 1 .. WordSize |-> block[w * WordSize + 1 - k]]]

Swap(word) == [k \in 1 .. WordSize |-> word[WordSize + 1 - k]]

Md5Block(block) == Load(block)

Sha1Block(block) == [w \in DOMAIN Load(block) |-> Swap(Load(block)[w])]

Sha256Block(block) == [w \in DOMAIN Load(block) |-> Swap(Load(block)[w])]

ProcessBlock(block) ==
    CASE type = "Md5" -> Md5Block(block)
      [] type = "Sha1" -> Sha1Block(block)
      [] type = "Sha256" -> Sha256Block(block)

Process(bytes) ==
    /\ ~aborted /\ ~processing
    /\ input' = bytes /\ processing' = TRUE
    /\ message' = message \o bytes
    /\ UNCHANGED <<type, m_size, m_bufferSize, m_buffer, m_digest, aborted>>

\* One more block is complete.
ProcessFull ==
    /\ ~aborted /\ processing
    /\ m_bufferSize + Len(input) >= BlockSize
    /\ LET available == BlockSize - m_bufferSize IN
       /\ m_buffer' = SubSeq(m_buffer, 1, m_bufferSize) \o SubSeq(input, 1, available)
       /\ input' = SubSeq(input, available + 1, Len(input))
    /\ m_digest' = Append(m_digest, ProcessBlock(m_buffer'))
    /\ m_size' = m_size + BlockSize
    /\ m_bufferSize' = 0
    /\ UNCHANGED <<type, processing, aborted, message>>

\* The rest stays in the buffer, which must not hold anything yet.
ProcessRest ==
    /\ ~aborted /\ processing
    /\ m_bufferSize + Len(input) < BlockSize
    /\ aborted' = (input # <<>> /\ m_bufferSize # 0)
    /\ m_buffer' = IF aborted' THEN m_buffer ELSE input \o SubSeq(m_buffer, Len(input) + 1, BlockSize)
    /\ m_bufferSize' = IF aborted' THEN m_bufferSize ELSE m_bufferSize + Len(input)
    /\ input' = <<>> /\ processing' = FALSE
    /\ UNCHANGED <<type, m_size, m_digest, message>>

-----------------------------------------------------------------------------
(* Finish.                                                                  *)

\* How many bytes come before the length; counted in bits, as in the code.
Padding ==
    LET bits == m_bufferSize * 8 + 1
        lower == bits % (8 * BlockSize)
        room == 8 * (BlockSize - LengthSize)
    IN  (bits + room - lower + IF lower <= room THEN 0 ELSE 8 * BlockSize) \div 8

MsgBits_Blocks == 8 * m_size

MsgBits == 8 * (m_size + m_bufferSize)

\* Md5 puts the low byte of the length first, Sha1 and Sha256 the high one.
Md5Length == PutBytes("LE", LengthSize, MsgBits)

Sha1Length == PutBytes("BE", LengthSize, MsgBits)

Sha256Length == PutBytes("BE", LengthSize, MsgBits)

AddLength(block, at) ==
    LET bytes == CASE type = "Md5" -> Md5Length
                   [] type = "Sha1" -> Sha1Length
                   [] type = "Sha256" -> Sha256Length
    IN  [i \in 1 .. BlockSize |->
            IF i > at /\ i <= at + LengthSize THEN Number(bytes[i - at]) ELSE block[i]]

\* The buffer, and the extra block that is used when the length does not fit.
LastBlocks ==
    LET marked == [i \in 1 .. BlockSize |->
                     IF i <= m_bufferSize THEN m_buffer[i]
                     ELSE IF i = m_bufferSize + 1 THEN Number(128) ELSE Number(0)]
    IN  IF Padding < BlockSize
        THEN <<AddLength(marked, Padding)>>
        ELSE <<marked, AddLength(Zeros(BlockSize), Padding - BlockSize)>>

ProcessBuffer == IF Padding > BlockSize THEN LastBlocks ELSE <<LastBlocks[1]>>

\* The digest that Finish hands out.
Result == DigestBytes(type, m_digest \o [k \in DOMAIN ProcessBuffer |-> ProcessBlock(ProcessBuffer[k])])

\* m_digest is restored; the padding stays in the buffer.
Finish ==
    /\ ~aborted /\ ~processing
    /\ m_buffer' = LastBlocks[1]
    /\ UNCHANGED <<type, m_size, m_bufferSize, m_digest, input, processing, aborted, message>>

Next ==
    \/ \E n \in Pieces :
          /\ Len(message) + n <= MaxMessage
          /\ Process([i \in 1 .. n |-> <<"message", Len(message) + i, {}>>])
    \/ ProcessFull \/ ProcessRest
    \/ Finish
    \/ ~aborted /\ ~processing /\ Reset

Spec == Init /\ [][Next]_hashVars

-----------------------------------------------------------------------------
(* Properties.                                                              *)

\* The padding of the three algorithms, from their definition: a one bit, as few
\* zeros as make whole blocks, and the length in bits.
Padded(t, bytes) ==
    LET zeros == CHOOSE z \in 0 .. BlockSize - 1 : (Len(bytes) + 1 + z + LengthSize) % BlockSize = 0
        length == PutBytes(IF t = "Md5" THEN "LE" ELSE "BE", LengthSize, 8 * Len(bytes))
    IN  bytes \o <<Number(128)>> \o Zeros(zeros) \o [k \in 1 .. LengthSize |-> Number(length[k])]

\* The blocks of a padded message: words whose first byte is the lowest for Md5
\* and the highest for Sha1 and Sha256.
BlocksOf(t, bytes) ==
    [n \in 1 .. Len(bytes) \div BlockSize |->
       [w \in 1 .. BlockSize \div WordSize |->
          [k \in 1 .. WordSize |->
             bytes[(n - 1) * BlockSize + (w - 1) * WordSize + IF t = "Md5" THEN WordSize + 1 - k ELSE k]]]]

HashOf(t, bytes) == DigestBytes(t, BlocksOf(t, Padded(t, bytes)))

\* Type correctness; between two calls the buffer has room.
TypeOK ==
    /\ type \in Types /\ processing \in BOOLEAN /\ aborted \in BOOLEAN
    /\ m_size = BlockSize * Len(m_digest)
    /\ m_bufferSize \in 0 .. BlockSize - 1 /\ Len(m_buffer) = BlockSize

\* At any time between two calls, Finish gives the digest of the message that was
\* processed since Reset, however it was cut into pieces and however often
\* Finish was called on the way.
DigestOfMessage == ~aborted /\ ~processing => Result = HashOf(type, message)

\* Process takes a message in pieces: its assertion, m_bufferSize == 0, holds.
PiecesAccepted == ~aborted
==============================================================================
