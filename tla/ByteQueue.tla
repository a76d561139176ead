------------------------------ MODULE ByteQueue ------------------------------
(***************************************************************************)
(* What a ring buffer is: a queue of bytes that begins full, with bytes    *)
(* that nobody has put there, and ends when it is read empty.  In between  *)
(* a writer stages bytes and commits a prefix of what it staged; a reader  *)
(* takes bytes from the front.  At most Size bytes are queued and staged   *)
(* together.                                                               *)
(***************************************************************************)
EXTENDS Naturals, Sequences

CONSTANTS Bytes, Size, Unwritten

VARIABLES queue, staged

qvars == <<queue, staged>>

QInit == queue = [i \in 1 .. Size |-> Unwritten] /\ staged = <<>>

\* New bytes replace the first ones staged before.  A queue that was read empty
\* takes no more.
Stage(data) ==
    /\ queue # <<>> /\ Len(queue) + Len(data) <= Size
    /\ staged' = data \o SubSeq(staged, Len(data) + 1, Len(staged))
    /\ UNCHANGED queue

Commit(n) ==
    /\ n \in 1 .. Len(staged)
    /\ queue' = queue \o SubSeq(staged, 1, n)
    /\ staged' = SubSeq(staged, n + 1, Len(staged))

\* Taking the last byte forgets what was staged.
Take(n) ==
    /\ n \in 1 .. Len(queue)
    /\ queue' = SubSeq(queue, n + 1, Len(queue))
    /\ staged' = IF n = Len(queue) THEN <<>> ELSE staged

QNext ==
    \/ \E n \in 1 .. Size : \E data \in [1 .. n -> Bytes] : Stage(data)
    \/ \E n \in 1 .. Size : Commit(n) \/ Take(n)

QSpec == QInit /\ [][QNext]_qvars
==============================================================================
