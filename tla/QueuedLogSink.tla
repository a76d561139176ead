---------------------------- MODULE QueuedLogSink ----------------------------
(***************************************************************************)
(* QueuedLogSink (Logging.cpp): a queue of the last m_count log messages.  *)
(* Any thread logs to it; a flush takes all the messages out under the     *)
(* mutex and hands them to a callback one by one without it, so threads go *)
(* on logging, and others flush, meanwhile.  A message is the number of    *)
(* the call of Log that brought it; its text does not matter here.         *)
(***************************************************************************)
EXTENDS Integers, Sequences

CONSTANTS Flushers,      \* threads that flush
          m_count,       \* Capacity()
          MaxMessages    \* bound: calls of Log

ASSUME CountAssumption == m_count \in Nat \ {0}

ASSUME BoundAssumption == MaxMessages \in Nat

VARIABLES m_messages,
          logged,        \* how many messages were logged
          messages,      \* what each flush has taken and not yet handed over
          delivered,     \* what was handed to callbacks, in that order
          dropped,       \* messages that fell out at the front
          discarded      \* messages a flush took and never handed over

vars == <<m_messages, logged, messages, delivered, dropped, discarded>>

Ids == 1 .. logged

Elements(s) == {s[i] : i \in DOMAIN s}

\* What is in the hands of flushes.
Taken == UNION {Elements(messages[f]) : f \in Flushers}

Init ==
    /\ m_messages = <<>>
    /\ logged = 0
    /\ messages = [f \in Flushers |-> <<>>]
    /\ delivered = <<>>
    /\ dropped = {}
    /\ discarded = {}

-----------------------------------------------------------------------------

Push_OneMore(s, m) == IF Len(Append(s, m)) > m_count + 1 THEN Tail(Append(s, m)) ELSE Append(s, m)

Push_Early(s, m) == IF Len(Append(s, m)) >= m_count THEN Tail(Append(s, m)) ELSE Append(s, m)

\* emplace_back, then pop_front when there is one message too many.
Push(s, m) == IF Len(Append(s, m)) > m_count THEN Tail(Append(s, m)) ELSE Append(s, m)

Log ==
    /\ logged < MaxMessages
    /\ logged' = logged + 1
    /\ m_messages' = Push(m_messages, logged + 1)
    /\ dropped' = dropped \cup (Elements(Append(m_messages, logged + 1)) \ Elements(m_messages'))
    /\ UNCHANGED <<messages, delivered, discarded>>

\* The critical section of Flush.  A flush of an empty queue does nothing.
Flush(f) ==
    /\ messages[f] = <<>>
    /\ m_messages # <<>>
    /\ messages' = [messages EXCEPT ![f] = m_messages]
    /\ m_messages' = <<>>
    /\ UNCHANGED <<logged, delivered, dropped, discarded>>

Callback_SkipsLast(f) ==
    /\ messages[f] # <<>>
    /\ delivered' = Append(delivered, Head(messages[f]))
    /\ messages' = [messages EXCEPT ![f] = IF Len(@) <= 2 THEN <<>> ELSE Tail(@)]
    /\ UNCHANGED <<m_messages, logged, dropped, discarded>>

\* The callback gets the next message; it may log and flush itself.
Callback(f) ==
    /\ messages[f] # <<>>
    /\ delivered' = Append(delivered, Head(messages[f]))
    /\ messages' = [messages EXCEPT ![f] = Tail(@)]
    /\ UNCHANGED <<m_messages, logged, dropped, discarded>>

\* There is no callback, or it throws: what the flush still has is destroyed.
FlushEnds(f) ==
    /\ messages[f] # <<>>
    /\ messages' = [messages EXCEPT ![f] = <<>>]
    /\ discarded' = discarded \cup Elements(messages[f])
    /\ UNCHANGED <<m_messages, logged, delivered, dropped>>

Next ==
    \/ Log
    \/ \E f \in Flushers : Flush(f) \/ Callback(f) \/ FlushEnds(f)

Spec == Init /\ [][Next]_vars

-----------------------------------------------------------------------------
(* Properties.                                                              *)

\* Type correctness; the queue never exceeds its capacity.
TypeOK ==
    /\ m_messages \in Seq(1 .. MaxMessages) /\ Len(m_messages) <= m_count
    /\ logged \in 0 .. MaxMessages
    /\ messages \in [Flushers -> Seq(1 .. MaxMessages)]
    /\ delivered \in Seq(1 .. MaxMessages)
    /\ dropped \subseteq 1 .. MaxMessages
    /\ discarded \subseteq 1 .. MaxMessages

Consecutive(s) == \A i \in DOMAIN s : s[i] = s[1] + i - 1

\* The queue always holds the newest messages without a gap, and a flush what is
\* left of such a run: overflow costs the oldest messages, never one in between.
HoldsNewest ==
    /\ Consecutive(m_messages)
    /\ m_messages # <<>> => m_messages[Len(m_messages)] = logged
    /\ \A f \in Flushers : Consecutive(messages[f])

\* No message is delivered twice or is in two places at once, although flushes
\* run while others log and flush.
AtMostOnce ==
    /\ \A i, j \in DOMAIN delivered : delivered[i] = delivered[j] => i = j
    /\ \A f \in Flushers :
          /\ Elements(messages[f]) \cap (Elements(m_messages) \cup Elements(delivered)) = {}
          /\ \A g \in Flushers \ {f} : Elements(messages[f]) \cap Elements(messages[g]) = {}
    /\ Elements(m_messages) \cap Elements(delivered) = {}

\* Every message logged is still queued, in the hands of a flush, delivered, or
\* accounted for as dropped by overflow or discarded by its flush.
NothingVanishes ==
    Ids = Elements(m_messages) \cup Taken \cup Elements(delivered) \cup dropped \cup discarded

\* What the sink promises of its messages.
SinkSafe == HoldsNewest /\ AtMostOnce /\ NothingVanishes

\* A message is dropped only by a Log that finds the queue full.
DropsOnlyWhenFull ==
    [][dropped' # dropped => Len(m_messages) = m_count /\ logged' = logged + 1]_vars
==============================================================================
