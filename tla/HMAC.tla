-------------------------------- MODULE HMAC --------------------------------
(***************************************************************************)
(* HMAC (HMAC.cpp): three hash objects, one after the other, which share   *)
(* the variables of MDHash here: one for a key that is longer than a       *)
(* block, the inner one and the outer one.  Exclusive or of a byte and a   *)
(* mask takes the mask away or adds it.                                    *)
(***************************************************************************)
EXTENDS MDHash

CONSTANTS KeySizes, DataSizes

VARIABLES key, data,
          hmac,         \* the block made of the key
          digest,       \* of the inner hash
          stage,        \* the call that comes next
          output

callVars == <<key, data, hmac, digest, stage, output>>

Xor(bytes, masks) ==
    [i \in DOMAIN bytes |->
       <<bytes[i][1], bytes[i][2], (bytes[i][3] \ masks) \cup (masks \ bytes[i][3])>>]

Ipad == "0x36"
Opad == "0x5C"

\* A hash object is made and is given its first bytes.
New(bytes) ==
    /\ m_size' = 0 /\ m_bufferSize' = 0 /\ m_buffer' = Zeros(BlockSize) /\ m_digest' = <<>>
    /\ input' = bytes /\ processing' = TRUE /\ message' = bytes
    /\ UNCHANGED <<type, aborted>>

HmacInit ==
    /\ Init
    /\ key \in {Data("key", n) : n \in KeySizes}
    /\ data \in {Data("data", n) : n \in DataSizes}
    /\ hmac = Zeros(BlockSize) /\ digest = <<>> /\ output = <<>>
    /\ stage = "key"

Pad(bytes) == bytes \o Zeros(BlockSize - Len(bytes))

Key ==
    /\ stage = "key"
    /\ \/ /\ Len(key) <= BlockSize
          /\ hmac' = Pad(key) /\ stage' = "inner"
          /\ UNCHANGED hashVars
       \/ /\ Len(key) > BlockSize
          /\ New(key)
          /\ stage' = "hashed" /\ UNCHANGED hmac
    /\ UNCHANGED <<key, data, digest, output>>

KeyHashed ==
    /\ stage = "hashed" /\ Finish
    /\ hmac' = Pad(Result)
    /\ stage' = "inner"
    /\ UNCHANGED <<key, data, digest, output>>

Inner ==
    /\ stage = "inner"
    /\ hmac' = Xor(hmac, {Ipad})
    /\ New(hmac')
    /\ stage' = "data"
    /\ UNCHANGED <<key, data, digest, output>>

InnerData ==
    /\ stage = "data" /\ Process(data)
    /\ stage' = "finish"
    /\ UNCHANGED <<key, data, hmac, digest, output>>

InnerFinish ==
    /\ stage = "finish" /\ Finish
    /\ digest' = Result
    /\ stage' = "outer"
    /\ UNCHANGED <<key, data, hmac, output>>

Outer ==
    /\ stage = "outer"
    /\ hmac' = Xor(hmac, {Opad, Ipad})
    /\ New(hmac')
    /\ stage' = "digest"
    /\ UNCHANGED <<key, data, digest, output>>

OuterDigest ==
    /\ stage = "digest" /\ Process(digest)
    /\ stage' = "output"
    /\ UNCHANGED <<key, data, hmac, digest, output>>

OuterFinish ==
    /\ stage = "output" /\ Finish
    /\ output' = Result
    /\ stage' = "done"
    /\ UNCHANGED <<key, data, hmac, digest>>

HmacNext ==
    \/ Key \/ KeyHashed \/ Inner \/ InnerData \/ InnerFinish
    \/ Outer \/ OuterDigest \/ OuterFinish
    \/ (ProcessFull \/ ProcessRest) /\ UNCHANGED callVars

-----------------------------------------------------------------------------
(* Properties.                                                              *)

\* HMAC as RFC 2104 defines it.
HmacOf(t, k, d) ==
    LET block == Pad(IF Len(k) <= BlockSize THEN k ELSE HashOf(t, k))
    IN  HashOf(t, Xor(block, {Opad}) \o HashOf(t, Xor(block, {Ipad}) \o d))

\* The output is the HMAC of the data under the key, for keys and data shorter
\* than, as long as and longer than a block, and no assertion of the hash
\* objects fails on the way.
HmacOfData == ~aborted /\ (stage = "done" => output = HmacOf(type, key, data))
==============================================================================
