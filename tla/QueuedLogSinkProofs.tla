------------------------- MODULE QueuedLogSinkProofs -------------------------
(***************************************************************************)
(* The invariants of QueuedLogSink for every capacity, every number of     *)
(* flushing threads and every number of messages.  Each of them needs the  *)
(* others: a new message is nowhere else because every place holds only    *)
(* messages logged before (NothingVanishes), and what falls out at the     *)
(* front is one message because the queue is no longer than its capacity.  *)
(***************************************************************************)
EXTENDS QueuedLogSink, TLAPS

Message == 1 .. MaxMessages

IInv == TypeOK /\ HoldsNewest /\ AtMostOnce /\ NothingVanishes

-----------------------------------------------------------------------------
(* Sequences of messages.                                                   *)

\* Appending a message adds it to the elements and keeps the others in place.
LEMMA AppendElements ==
    ASSUME NEW s \in Seq(Message), NEW m \in Message
    PROVE  /\ Append(s, m) \in Seq(Message) /\ Len(Append(s, m)) = Len(s) + 1
           /\ Elements(Append(s, m)) = Elements(s) \cup {m}
           /\ Append(s, m)[Len(s) + 1] = m
           /\ \A i \in DOMAIN s : i \in DOMAIN Append(s, m) /\ Append(s, m)[i] = s[i]
<1>1. /\ Append(s, m) \in Seq(Message) /\ Len(Append(s, m)) = Len(s) + 1
      /\ Append(s, m)[Len(s) + 1] = m
      /\ \A i \in 1 .. Len(s) : Append(s, m)[i] = s[i]
  OBVIOUS
<1>2. DOMAIN s = 1 .. Len(s) /\ DOMAIN Append(s, m) = 1 .. (Len(s) + 1) /\ Len(s) \in Nat
  BY <1>1
<1>3. Elements(Append(s, m)) \subseteq Elements(s) \cup {m}
  BY <1>1, <1>2 DEF Elements
<1>4. Elements(s) \cup {m} \subseteq Elements(Append(s, m))
  BY <1>1, <1>2 DEF Elements
<1> QED
  BY <1>1, <1>2, <1>3, <1>4

\* A sequence that is not empty consists of its head and its tail.
LEMMA HeadAndTail ==
    ASSUME NEW s \in Seq(Message), s # <<>>
    PROVE  /\ Head(s) = s[1] /\ Head(s) \in Message
           /\ Tail(s) \in Seq(Message) /\ Len(Tail(s)) = Len(s) - 1 /\ Len(s) > 0
           /\ \A i \in DOMAIN Tail(s) : i + 1 \in DOMAIN s /\ Tail(s)[i] = s[i + 1]
           /\ Elements(s) = {Head(s)} \cup Elements(Tail(s))
<1>1. Head(s) = s[1] /\ Tail(s) \in Seq(Message) /\ Len(Tail(s)) = Len(s) - 1 /\ Len(s) \in Nat /\ Len(s) > 0
  OBVIOUS
<1>2. DOMAIN s = 1 .. Len(s) /\ DOMAIN Tail(s) = 1 .. (Len(s) - 1)
  BY <1>1
<1>3. \A i \in 1 .. (Len(s) - 1) : Tail(s)[i] = s[i + 1]
  BY <1>1
<1>4. Head(s) \in Message
  BY <1>1, <1>2
<1>5. \A i \in DOMAIN Tail(s) : i + 1 \in DOMAIN s
  BY <1>1, <1>2
<1>6. ASSUME NEW i \in DOMAIN s
      PROVE  s[i] \in {Head(s)} \cup Elements(Tail(s))
  <2>1. CASE i = 1
    BY <2>1, <1>1
  <2>2. CASE i # 1
    <3>1. i - 1 \in DOMAIN Tail(s) /\ Tail(s)[i - 1] = s[i]
      BY <2>2, <1>1, <1>2, <1>3
    <3> QED
      BY <3>1 DEF Elements
  <2> QED
    BY <2>1, <2>2
<1>7. Elements(s) \subseteq {Head(s)} \cup Elements(Tail(s))
  BY <1>6 DEF Elements
<1>8. {Head(s)} \cup Elements(Tail(s)) \subseteq Elements(s)
  BY <1>1, <1>2, <1>3, <1>5 DEF Elements
<1> QED
  BY <1>1, <1>2, <1>3, <1>4, <1>5, <1>7, <1>8

\* The tail of a run of consecutive messages is one, and does not contain its head.
LEMMA ConsecutiveTail ==
    ASSUME NEW s \in Seq(Message), s # <<>>, Consecutive(s)
    PROVE  /\ Consecutive(Tail(s))
           /\ Head(s) \notin Elements(Tail(s))
           /\ Tail(s) # <<>> => Tail(s)[Len(Tail(s))] = s[Len(s)]
<1>1. \A i \in DOMAIN Tail(s) : /\ i \in 1 .. (Len(s) - 1) /\ Tail(s)[i] = s[i + 1]
                                /\ s[i + 1] = s[1] + i /\ s[1] \in Int
  BY HeadAndTail DEF Consecutive, Message
<1>2. Head(s) = s[1] /\ Len(Tail(s)) = Len(s) - 1 /\ DOMAIN Tail(s) = 1 .. (Len(s) - 1)
      /\ Len(s) \in Nat
  BY HeadAndTail
<1>3. Consecutive(Tail(s))
  <2>1. SUFFICES ASSUME NEW i \in DOMAIN Tail(s) PROVE Tail(s)[i] = Tail(s)[1] + i - 1
    BY DEF Consecutive
  <2>2. 1 \in DOMAIN Tail(s) /\ i \in Int
    BY <1>2
  <2>3. Tail(s)[1] = s[1] + 1 /\ Tail(s)[i] = s[1] + i /\ s[1] \in Int
    BY <1>1, <2>2
  <2> QED
    BY <2>2, <2>3
<1>4. Head(s) \notin Elements(Tail(s))
  BY <1>1, <1>2 DEF Elements
<1>5. Tail(s) # <<>> => Tail(s)[Len(Tail(s))] = s[Len(s)]
  <2>1. SUFFICES ASSUME Tail(s) # <<>> PROVE Tail(s)[Len(Tail(s))] = s[Len(s)]
    OBVIOUS
  <2>2. Len(s) - 1 > 0
    BY <2>1, <1>2, HeadAndTail
  <2>3. Len(s) - 1 \in DOMAIN Tail(s)
    BY <2>2, <1>2
  <2> QED
    BY <2>3, <1>1, <1>2
<1> QED
  BY <1>3, <1>4, <1>5

\* A run of consecutive messages that ends at n goes on with n + 1.
LEMMA ConsecutiveAppend ==
    ASSUME NEW s \in Seq(Message), NEW n \in Nat, n + 1 \in Message,
           Consecutive(s), s # <<>> => s[Len(s)] = n
    PROVE  Consecutive(Append(s, n + 1))
<1> DEFINE a == Append(s, n + 1)
<1>1. DOMAIN a = 1 .. (Len(s) + 1) /\ a[Len(s) + 1] = n + 1 /\ Len(s) \in Nat
      /\ DOMAIN s = 1 .. Len(s) /\ \A i \in 1 .. Len(s) : a[i] = s[i]
  BY AppendElements
<1>2. CASE Len(s) = 0
  BY <1>1, <1>2 DEF Consecutive
<1>3. CASE Len(s) # 0
  <2>1. s # <<>> /\ Len(s) \in DOMAIN s /\ 1 \in DOMAIN s
    BY <1>3, <1>1
  <2>2. s[1] \in Int /\ s[Len(s)] = n /\ s[Len(s)] = s[1] + Len(s) - 1
    <3>1. s[1] \in Message
      BY <2>1
    <3> QED
      BY <3>1, <2>1 DEF Consecutive, Message
  <2>3. a[1] = s[1] /\ a[Len(s) + 1] = a[1] + (Len(s) + 1) - 1
    BY <1>1, <2>1, <2>2
  <2>4. \A i \in 1 .. Len(s) : a[i] = a[1] + i - 1
    BY <1>1, <2>3 DEF Consecutive
  <2> QED
    BY <1>1, <2>3, <2>4 DEF Consecutive
<1> QED
  BY <1>2, <1>3

\* What Log does with a full and with a queue that is not full: the new message is
\* last, the queue is no longer than its capacity, and what leaves is its head.
LEMMA PushKeepsNewest ==
    ASSUME NEW s \in Seq(Message), NEW n \in Nat, n + 1 \in Message,
           Len(s) <= m_count, Consecutive(s), s # <<>> => s[Len(s)] = n
    PROVE  /\ Push(s, n + 1) \in Seq(Message) /\ Len(Push(s, n + 1)) <= m_count
           /\ Consecutive(Push(s, n + 1))
           /\ Push(s, n + 1) # <<>> /\ Push(s, n + 1)[Len(Push(s, n + 1))] = n + 1
           /\ Elements(Push(s, n + 1)) \subseteq Elements(s) \cup {n + 1}
           /\ Elements(Append(s, n + 1)) = Elements(s) \cup {n + 1}
           /\ Len(s) < m_count => Elements(Push(s, n + 1)) = Elements(s) \cup {n + 1}
<1> DEFINE a == Append(s, n + 1)
<1>1. /\ a \in Seq(Message) /\ Len(a) = Len(s) + 1 /\ a[Len(a)] = n + 1 /\ Len(s) \in Nat
      /\ Elements(a) = Elements(s) \cup {n + 1} /\ a # <<>>
  <2>1. /\ a \in Seq(Message) /\ Len(a) = Len(s) + 1 /\ a[Len(s) + 1] = n + 1
        /\ Elements(a) = Elements(s) \cup {n + 1}
    BY AppendElements
  <2>2. Len(s) \in Nat /\ Len(a) # 0
    BY <2>1
  <2> QED
    BY <2>1, <2>2
<1>2. Consecutive(a)
  BY ConsecutiveAppend
<1>3. m_count \in Nat \ {0}
  BY CountAssumption
<1>4. CASE Len(a) > m_count
  <2>1. Push(s, n + 1) = Tail(a)
    BY <1>4 DEF Push
  <2>2. Tail(a) \in Seq(Message) /\ Len(Tail(a)) = Len(a) - 1 /\ Elements(Tail(a)) \subseteq Elements(a)
    BY <1>1, HeadAndTail
  <2>3. Tail(a) # <<>> /\ Len(Tail(a)) <= m_count /\ ~(Len(s) < m_count)
    BY <1>1, <1>3, <1>4, <2>2
  <2>4. Consecutive(Tail(a)) /\ Tail(a)[Len(Tail(a))] = a[Len(a)]
    BY <1>1, <1>2, <2>3, ConsecutiveTail
  <2> HIDE DEF a
  <2> QED
    BY Zenon, <1>1, <2>1, <2>2, <2>3, <2>4 DEF a
<1>5. CASE ~(Len(a) > m_count)
  <2>1. Push(s, n + 1) = a
    BY <1>5 DEF Push
  <2>2. Len(a) <= m_count
    BY <1>1, <1>3, <1>5
  <2> HIDE DEF a
  <2> QED
    BY Zenon, <1>1, <1>2, <2>1, <2>2 DEF a
<1> QED
  BY <1>4, <1>5

-----------------------------------------------------------------------------
(* The inductive invariant.                                                 *)

\* Membership in Taken, before and after a step.
LEMMA TakenMembers ==
    ASSUME NEW x
    PROVE  /\ x \in Taken <=> \E f \in Flushers : x \in Elements(messages[f])
           /\ x \in Taken' <=> \E f \in Flushers : x \in Elements(messages'[f])
BY Zenon DEF Taken

\* The sink starts empty.
LEMMA InitIInv == Init => IInv
<1> SUFFICES ASSUME Init PROVE IInv
  OBVIOUS
<1> USE DEF Init
<1>1. Elements(<<>>) = {}
  BY DEF Elements
<1>2. TypeOK
  BY CountAssumption, BoundAssumption DEF TypeOK
<1>3. HoldsNewest
  BY DEF HoldsNewest, Consecutive
<1>4. AtMostOnce
  BY <1>1 DEF AtMostOnce
<1>5. NothingVanishes
  <2>1. Taken = {}
    BY <1>1 DEF Taken
  <2> QED
    BY <1>1, <2>1 DEF NothingVanishes, Ids
<1> QED
  BY <1>2, <1>3, <1>4, <1>5 DEF IInv

\* Log: the new message is in no other place, and an old one that leaves the
\* queue is accounted for.
LEMMA LogStep == ASSUME IInv, Log PROVE IInv'
<1> DEFINE n == logged
           e == Elements(m_messages)
<1>1. /\ n \in Nat /\ n + 1 \in Message /\ m_messages \in Seq(Message)
      /\ Len(m_messages) <= m_count /\ Consecutive(m_messages)
      /\ m_messages # <<>> => m_messages[Len(m_messages)] = n
  BY BoundAssumption DEF IInv, TypeOK, HoldsNewest, Log, Message
<1>2. m_messages' = Push(m_messages, n + 1) /\ logged' = n + 1
      /\ messages' = messages /\ delivered' = delivered /\ discarded' = discarded
      /\ dropped' = dropped \cup (Elements(Append(m_messages, n + 1)) \ Elements(m_messages'))
  BY DEF Log
<1>3. /\ m_messages' \in Seq(Message) /\ Len(m_messages') <= m_count /\ Consecutive(m_messages')
      /\ m_messages' # <<>> /\ m_messages'[Len(m_messages')] = n + 1
      /\ Elements(m_messages') \subseteq e \cup {n + 1}
      /\ Elements(Append(m_messages, n + 1)) = e \cup {n + 1}
  BY Zenon, <1>1, <1>2, PushKeepsNewest
<1>4. n + 1 \notin Ids /\ Ids' = Ids \cup {n + 1}
  BY <1>1, <1>2 DEF Ids
<1>5. e \subseteq Message
  BY <1>1 DEF Elements
<1>6. TypeOK'
  <2>1. dropped' \subseteq Message
    BY Zenon, <1>1, <1>2, <1>3, <1>5 DEF IInv, TypeOK, Message
  <2>2. logged' \in 0 .. MaxMessages
    BY <1>1, <1>2, BoundAssumption DEF Message
  <2> QED
    BY <1>2, <1>3, <2>1, <2>2 DEF IInv, TypeOK, Message
<1>7. HoldsNewest'
  BY <1>2, <1>3 DEF IInv, HoldsNewest
<1>8. AtMostOnce'
  <2>1. \A f \in Flushers : Elements(messages[f]) \subseteq Ids
    BY Zenon, TakenMembers DEF IInv, NothingVanishes
  <2>2. Elements(delivered) \subseteq Ids
    BY DEF IInv, NothingVanishes
  <2>3. \A f \in Flushers : Elements(messages[f]) \cap Elements(m_messages') = {}
    BY <1>3, <1>4, <2>1 DEF IInv, AtMostOnce
  <2>4. Elements(m_messages') \cap Elements(delivered) = {}
    BY <1>3, <1>4, <2>2 DEF IInv, AtMostOnce
  <2> QED
    BY <1>2, <2>3, <2>4 DEF IInv, AtMostOnce
<1>9. NothingVanishes'
  <2>1. Elements(m_messages') \cup dropped' = e \cup {n + 1} \cup dropped
    BY <1>2, <1>3
  <2>2. Taken' = Taken
    BY <1>2 DEF Taken
  <2> QED
    BY <1>2, <1>4, <2>1, <2>2 DEF IInv, NothingVanishes
<1> QED
  BY <1>6, <1>7, <1>8, <1>9 DEF IInv

\* Flush: the queue changes hands as a whole.
LEMMA FlushStep == ASSUME IInv, NEW f \in Flushers, Flush(f) PROVE IInv'
<1>1. /\ m_messages' = <<>> /\ messages' = [messages EXCEPT ![f] = m_messages]
      /\ messages[f] = <<>> /\ logged' = logged /\ delivered' = delivered
      /\ dropped' = dropped /\ discarded' = discarded
  BY DEF Flush
<1>2. messages \in [Flushers -> Seq(Message)] /\ m_messages \in Seq(Message)
  BY DEF IInv, TypeOK, Message
<1>3. messages'[f] = m_messages /\ \A g \in Flushers \ {f} : messages'[g] = messages[g]
  BY <1>1, <1>2
<1>4. Elements(<<>>) = {}
  BY DEF Elements
<1>5. TypeOK'
  <2>1. messages' \in [Flushers -> Seq(Message)]
    BY <1>1, <1>2
  <2>2. <<>> \in Seq(Message) /\ Len(<<>>) <= m_count
    BY CountAssumption
  <2> QED
    BY <1>1, <2>1, <2>2 DEF IInv, TypeOK, Message
<1>6. HoldsNewest'
  BY <1>1, <1>3 DEF IInv, HoldsNewest, Consecutive
<1>7. AtMostOnce'
  <2>1. \A i, j \in DOMAIN delivered' : delivered'[i] = delivered'[j] => i = j
    BY <1>1 DEF IInv, AtMostOnce
  <2>2. Elements(m_messages') = {}
    BY <1>1, <1>4
  <2>3. \A g \in Flushers : Elements(messages'[g]) \cap Elements(delivered') = {}
    BY <1>1, <1>3 DEF IInv, AtMostOnce
  <2>4. ASSUME NEW g \in Flushers, NEW h \in Flushers \ {g}
        PROVE  Elements(messages'[g]) \cap Elements(messages'[h]) = {}
    BY <1>3 DEF IInv, AtMostOnce
  <2> QED
    BY <2>1, <2>2, <2>3, <2>4 DEF AtMostOnce
<1>8. NothingVanishes'
  <2>1. ASSUME NEW x PROVE x \in Taken' <=> x \in Taken \/ x \in Elements(m_messages)
    BY <1>1, <1>3, <1>4, TakenMembers
  <2> QED
    BY <1>1, <1>4, <2>1 DEF IInv, NothingVanishes, Ids
<1> QED
  BY <1>5, <1>6, <1>7, <1>8 DEF IInv

\* Callback: the head of what the flush holds becomes the last message delivered.
LEMMA CallbackStep == ASSUME IInv, NEW f \in Flushers, Callback(f) PROVE IInv'
<1> DEFINE s == messages[f]
<1>1. /\ s # <<>> /\ delivered' = Append(delivered, Head(s)) /\ messages' = [messages EXCEPT ![f] = Tail(s)]
      /\ m_messages' = m_messages /\ logged' = logged /\ dropped' = dropped /\ discarded' = discarded
  BY DEF Callback
<1>2. messages \in [Flushers -> Seq(Message)] /\ s \in Seq(Message) /\ delivered \in Seq(Message)
      /\ Consecutive(s)
  BY DEF IInv, TypeOK, HoldsNewest, Message
<1>3. messages'[f] = Tail(s) /\ \A g \in Flushers \ {f} : messages'[g] = messages[g]
  BY <1>1, <1>2
<1> HIDE DEF s
<1>4. /\ Head(s) \in Message /\ Tail(s) \in Seq(Message)
      /\ Elements(s) = {Head(s)} \cup Elements(Tail(s))
  BY <1>1, <1>2, HeadAndTail
<1>5. Consecutive(Tail(s)) /\ Head(s) \notin Elements(Tail(s))
  BY <1>1, <1>2, ConsecutiveTail
<1>6. /\ delivered' \in Seq(Message) /\ Elements(delivered') = Elements(delivered) \cup {Head(s)}
      /\ Len(delivered') = Len(delivered) + 1 /\ delivered'[Len(delivered) + 1] = Head(s)
      /\ \A i \in DOMAIN delivered : delivered'[i] = delivered[i]
  BY <1>1, <1>2, <1>4, AppendElements
<1>7. TypeOK'
  <2>1. messages' \in [Flushers -> Seq(Message)]
    BY <1>1, <1>2, <1>4
  <2> QED
    BY <1>1, <1>6, <2>1 DEF IInv, TypeOK, Message
<1>8. HoldsNewest'
  BY <1>1, <1>3, <1>5 DEF IInv, HoldsNewest
<1>9. AtMostOnce'
  <2>1. Elements(s) \cap Elements(delivered) = {} /\ Elements(s) \cap Elements(m_messages) = {}
    BY DEF s, IInv, AtMostOnce
  <2>2. \A i \in DOMAIN delivered : delivered[i] # Head(s)
    BY <1>4, <2>1 DEF Elements
  <2>3. ASSUME NEW i \in DOMAIN delivered', NEW j \in DOMAIN delivered', delivered'[i] = delivered'[j]
        PROVE  i = j
    <3>1. DOMAIN delivered' = DOMAIN delivered \cup {Len(delivered) + 1}
      BY <1>2, <1>6
    <3> QED
      BY <1>6, <2>2, <2>3, <3>1 DEF IInv, AtMostOnce
  <2>4. ASSUME NEW g \in Flushers
        PROVE  Elements(messages'[g]) \cap (Elements(m_messages') \cup Elements(delivered')) = {}
    <3>1. CASE g = f
      BY Zenon, <3>1, <1>1, <1>3, <1>4, <1>5, <1>6, <2>1
    <3>2. CASE g # f
      <4>1. Elements(messages[g]) \cap Elements(s) = {}
        BY <3>2 DEF s, IInv, AtMostOnce
      <4>2. Elements(messages[g]) \cap (Elements(m_messages) \cup Elements(delivered)) = {}
        BY DEF IInv, AtMostOnce
      <4> QED
        BY <3>2, <1>1, <1>3, <1>4, <1>6, <4>1, <4>2
    <3> QED
      BY <3>1, <3>2
  <2>5. ASSUME NEW g \in Flushers, NEW h \in Flushers \ {g}
        PROVE  Elements(messages'[g]) \cap Elements(messages'[h]) = {}
    <3>1. Elements(messages[g]) \cap Elements(messages[h]) = {}
      BY DEF IInv, AtMostOnce
    <3>2. \A k \in Flushers : Elements(messages'[k]) \subseteq Elements(messages[k])
      BY <1>3, <1>4 DEF s
    <3> QED
      BY <3>1, <3>2
  <2>6. Elements(m_messages') \cap Elements(delivered') = {}
    <3>1. Elements(m_messages) \cap Elements(delivered) = {}
      BY DEF IInv, AtMostOnce
    <3> QED
      BY <1>1, <1>4, <1>6, <2>1, <3>1
  <2> QED
    BY <2>3, <2>4, <2>5, <2>6 DEF AtMostOnce
<1>10. NothingVanishes'
  <2>1. ASSUME NEW x PROVE x \in Taken <=> x \in Taken' \/ x = Head(s)
    <3>1. \A g \in Flushers : g # f => Elements(messages'[g]) = Elements(messages[g])
      BY <1>3
    <3>2. Elements(messages[f]) = {Head(s)} \cup Elements(messages'[f])
      BY <1>3, <1>4 DEF s
    <3> QED
      BY <3>1, <3>2, TakenMembers
  <2> QED
    BY <1>1, <1>6, <2>1 DEF IInv, NothingVanishes, Ids
<1> QED
  BY <1>7, <1>8, <1>9, <1>10 DEF IInv

\* FlushEnds: what the flush still held is accounted for as discarded.
LEMMA FlushEndsStep == ASSUME IInv, NEW f \in Flushers, FlushEnds(f) PROVE IInv'
<1>1. /\ messages' = [messages EXCEPT ![f] = <<>>] /\ discarded' = discarded \cup Elements(messages[f])
      /\ m_messages' = m_messages /\ logged' = logged /\ delivered' = delivered /\ dropped' = dropped
  BY DEF FlushEnds
<1>2. messages \in [Flushers -> Seq(Message)] /\ <<>> \in Seq(Message)
  BY DEF IInv, TypeOK, Message
<1>3. messages'[f] = <<>> /\ \A g \in Flushers \ {f} : messages'[g] = messages[g]
  BY <1>1, <1>2
<1>4. Elements(<<>>) = {}
  BY DEF Elements
<1>5. Elements(messages[f]) \subseteq Message
  BY <1>2 DEF Elements
<1>6. TypeOK'
  <2>1. messages' \in [Flushers -> Seq(Message)]
    BY <1>1, <1>2
  <2> QED
    BY Zenon, <1>1, <1>5, <2>1 DEF IInv, TypeOK, Message
<1>7. HoldsNewest'
  BY <1>1, <1>3 DEF IInv, HoldsNewest, Consecutive
<1>8. AtMostOnce'
  <2>1. \A g \in Flushers : Elements(messages'[g]) \subseteq Elements(messages[g])
    BY <1>3, <1>4
  <2> QED
    BY Zenon, <1>1, <2>1 DEF IInv, AtMostOnce
<1>9. NothingVanishes'
  <2>1. ASSUME NEW x PROVE x \in Taken <=> x \in Taken' \/ x \in Elements(messages[f])
    BY <1>3, <1>4, TakenMembers
  <2> QED
    BY <1>1, <2>1 DEF IInv, NothingVanishes, Ids
<1> QED
  BY <1>6, <1>7, <1>8, <1>9 DEF IInv

\* Every step of the sink keeps the invariant.
LEMMA NextIInv == IInv /\ [Next]_vars => IInv'
<1> SUFFICES ASSUME IInv, [Next]_vars PROVE IInv'
  OBVIOUS
<1>1. CASE Log
  BY <1>1, LogStep
<1>2. ASSUME NEW f \in Flushers, Flush(f) \/ Callback(f) \/ FlushEnds(f)
      PROVE  IInv'
  BY <1>2, FlushStep, CallbackStep, FlushEndsStep
<1>3. CASE UNCHANGED vars
  BY <1>3 DEF vars, IInv, TypeOK, HoldsNewest, AtMostOnce, NothingVanishes, Ids, Taken
<1> QED
  BY <1>1, <1>2, <1>3 DEF Next

-----------------------------------------------------------------------------
(* The theorems.                                                            *)

\* The queue keeps to its capacity, holds the newest messages without a gap, no
\* message is in two places or delivered twice, and none disappears without
\* account, whatever the interleaving of Log and Flush.
THEOREM SinkSafety == Spec => [](TypeOK /\ SinkSafe)
<1>1. Init => IInv
  BY InitIInv
<1>2. IInv /\ [Next]_vars => IInv'
  BY NextIInv
<1>3. Spec => []IInv
  BY <1>1, <1>2, PTL DEF Spec
<1> QED
  BY <1>3, PTL DEF IInv, SinkSafe

\* Overflow is the only thing that drops a message: it takes a call of Log that
\* finds the queue at its capacity.
THEOREM DropsWhenFull == Spec => DropsOnlyWhenFull
<1>1. Init => IInv
  BY InitIInv
<1>2. IInv /\ [Next]_vars => IInv'
  BY NextIInv
<1> DEFINE A == dropped' # dropped => Len(m_messages) = m_count /\ logged' = logged + 1
<1>3. IInv /\ [Next]_vars => [A]_vars
  <2> SUFFICES ASSUME IInv, Next, dropped' # dropped PROVE Len(m_messages) = m_count /\ logged' = logged + 1
    BY DEF vars
  <2>1. Log
    BY DEF Next, Flush, Callback, FlushEnds
  <2>2. /\ logged \in Nat /\ logged + 1 \in Message /\ m_messages \in Seq(Message)
        /\ Len(m_messages) <= m_count /\ Consecutive(m_messages)
        /\ m_messages # <<>> => m_messages[Len(m_messages)] = logged
    BY <2>1, BoundAssumption DEF IInv, TypeOK, HoldsNewest, Log, Message
  <2>3. Elements(Append(m_messages, logged + 1)) # Elements(Push(m_messages, logged + 1))
    BY <2>1 DEF Log
  <2>4. ~(Len(m_messages) < m_count)
    BY Zenon, <2>2, <2>3, PushKeepsNewest
  <2>5. Len(m_messages) = m_count
    BY <2>2, <2>4, CountAssumption
  <2> QED
    BY <2>1, <2>5 DEF Log
<1>4. Spec => [][A]_vars
  BY <1>1, <1>2, <1>3, PTL DEF Spec
<1> QED
  BY <1>4 DEF DropsOnlyWhenFull
==============================================================================
