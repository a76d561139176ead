------------------------- MODULE SignalManagerProofs -------------------------
(***************************************************************************)
(* Proofs about the signal manager (SignalManager.tla): its type, the      *)
(* place of every handler, and who may wait for the mutex.                 *)
(***************************************************************************)
EXTENDS SignalManager, FiniteSetTheorems, TLAPS

-----------------------------------------------------------------------------
(***************************************************************************)
(* A step changes the calls of one thread: it begins one, changes the      *)
(* innermost one or ends it.                                               *)
(***************************************************************************)

\* The last element of a sequence is replaced.
LEMMA LastReplaced ==
  ASSUME NEW S, NEW g \in Seq(S), g # <<>>, NEW f \in S, NEW n, n = Len(g),
         NEW r, r = [g EXCEPT ![n] = f]
  PROVE  /\ r \in Seq(S) /\ n \in Nat \ {0} /\ DOMAIN g = 1 .. n /\ DOMAIN r = 1 .. n
         /\ r[n] = f /\ \A i \in 1 .. n : i # n => r[i] = g[i]
  <1>1. n \in Nat \ {0} /\ DOMAIN g = 1 .. n
    OBVIOUS
  <1> QED
    BY <1>1

\* It is taken off.
LEMMA LastDropped ==
  ASSUME NEW S, NEW g \in Seq(S), g # <<>>, NEW n, n = Len(g), NEW r, r = SubSeq(g, 1, n - 1)
  PROVE  /\ r \in Seq(S) /\ n \in Nat \ {0} /\ DOMAIN g = 1 .. n /\ DOMAIN r = 1 .. (n - 1)
         /\ \A i \in 1 .. (n - 1) : r[i] = g[i]
  <1>1. n \in Nat \ {0} /\ DOMAIN g = 1 .. n
    OBVIOUS
  <1> QED
    BY <1>1

\* It gets a successor.
LEMMA LastAdded ==
  ASSUME NEW S, NEW g \in Seq(S), NEW f \in S, NEW n, n = Len(g), NEW r, r = Append(g, f)
  PROVE  /\ r \in Seq(S) /\ n \in Nat /\ DOMAIN g = 1 .. n /\ DOMAIN r = 1 .. (n + 1)
         /\ r[n + 1] = f /\ \A i \in 1 .. n : r[i] = g[i]
  OBVIOUS

\* The handlers in each call of each thread, none where there is no call.
Hold ==
    [u \in Threads |->
        [i \in Nat |-> IF i \in DOMAIN frames[u] THEN Elements(frames[u][i].handlers) ELSE {}]]

\* Nothing but call k of thread t has other handlers than before, namely these.
Differs(H, G, t, k, B) ==
    \A u \in Threads, i \in Nat : G[u][i] = IF u = t /\ i = k THEN B ELSE H[u][i]

\* The calls of a thread t that is in n calls, after each of the three changes.
OthersStay(t) ==
    /\ frames' \in [Threads -> Seq(FrameType)]
    /\ \A u \in Threads : u # t => frames'[u] = frames[u]

Replaced(t, n, f) ==
    /\ OthersStay(t)
    /\ n \in Nat \ {0} /\ DOMAIN frames[t] = 1 .. n
    /\ DOMAIN frames'[t] = 1 .. n /\ frames'[t][n] = f
    /\ \A i \in 1 .. n : i # n => frames'[t][i] = frames[t][i]

Popped(t, n) ==
    /\ OthersStay(t)
    /\ n \in Nat \ {0} /\ DOMAIN frames[t] = 1 .. n
    /\ DOMAIN frames'[t] = 1 .. (n - 1)
    /\ \A i \in 1 .. (n - 1) : frames'[t][i] = frames[t][i]

Pushed(t, n, f) ==
    /\ OthersStay(t)
    /\ n \in Nat /\ DOMAIN frames[t] = 1 .. n
    /\ DOMAIN frames'[t] = 1 .. (n + 1) /\ frames'[t][n + 1] = f
    /\ \A i \in 1 .. n : frames'[t][i] = frames[t][i]

\* The innermost call is replaced.
LEMMA CallReplaced ==
  ASSUME frames \in [Threads -> Seq(FrameType)], NEW t \in Threads, ~Idle(t),
         NEW f \in FrameType, frames' = Replace(t, f), NEW n, n = Len(frames[t])
  PROVE  Replaced(t, n, f)
  <1>1. frames[t] \in Seq(FrameType) /\ frames[t] # <<>>
    BY DEF Idle
  <1>2. frames' = [frames EXCEPT ![t] = [frames[t] EXCEPT ![Len(frames[t])] = f]]
    BY DEF Replace
  <1>3. frames'[t] = [frames[t] EXCEPT ![n] = f]
    BY <1>2
  <1>4. /\ frames'[t] \in Seq(FrameType) /\ n \in Nat \ {0} /\ DOMAIN frames[t] = 1 .. n
        /\ DOMAIN frames'[t] = 1 .. n
        /\ frames'[t][n] = f /\ \A i \in 1 .. n : i # n => frames'[t][i] = frames[t][i]
    BY <1>1, <1>3, LastReplaced
  <1>5. \A u \in Threads : u # t => frames'[u] = frames[u]
    BY <1>2
  <1>6. frames' \in [Threads -> Seq(FrameType)]
    BY <1>2, <1>3, <1>4
  <1> QED
    BY <1>4, <1>5, <1>6 DEF Replaced, OthersStay

\* The innermost call is over.
LEMMA CallPopped ==
  ASSUME frames \in [Threads -> Seq(FrameType)], NEW t \in Threads, ~Idle(t),
         frames' = Pop(t), NEW n, n = Len(frames[t])
  PROVE  Popped(t, n)
  <1>1. frames[t] \in Seq(FrameType) /\ frames[t] # <<>>
    BY DEF Idle
  <1>2. frames' = [frames EXCEPT ![t] = SubSeq(frames[t], 1, Len(frames[t]) - 1)]
    BY DEF Pop
  <1>3. frames'[t] = SubSeq(frames[t], 1, n - 1)
    BY <1>2
  <1>4. /\ frames'[t] \in Seq(FrameType) /\ n \in Nat \ {0} /\ DOMAIN frames[t] = 1 .. n
        /\ DOMAIN frames'[t] = 1 .. (n - 1)
        /\ \A i \in 1 .. (n - 1) : frames'[t][i] = frames[t][i]
    BY <1>1, <1>3, LastDropped
  <1>5. \A u \in Threads : u # t => frames'[u] = frames[u]
    BY <1>2
  <1>6. frames' \in [Threads -> Seq(FrameType)]
    BY <1>2, <1>3, <1>4
  <1> QED
    BY <1>4, <1>5, <1>6 DEF Popped, OthersStay

\* A call begins.
LEMMA CallPushed ==
  ASSUME frames \in [Threads -> Seq(FrameType)], NEW t \in Threads,
         NEW f \in FrameType, frames' = PushOn(t, f), NEW n, n = Len(frames[t])
  PROVE  Pushed(t, n, f)
  <1>1. frames[t] \in Seq(FrameType)
    OBVIOUS
  <1>2. frames' = [frames EXCEPT ![t] = Append(frames[t], f)]
    BY DEF PushOn
  <1>3. frames'[t] = Append(frames[t], f)
    BY <1>2
  <1>4. /\ frames'[t] \in Seq(FrameType) /\ n \in Nat /\ DOMAIN frames[t] = 1 .. n
        /\ DOMAIN frames'[t] = 1 .. (n + 1) /\ frames'[t][n + 1] = f
        /\ \A i \in 1 .. n : frames'[t][i] = frames[t][i]
    BY <1>1, <1>3, LastAdded
  <1>5. \A u \in Threads : u # t => frames'[u] = frames[u]
    BY <1>2
  <1>6. frames' \in [Threads -> Seq(FrameType)]
    BY <1>2, <1>3, <1>4
  <1> QED
    BY <1>4, <1>5, <1>6 DEF Pushed, OthersStay

\* What the three changes do to the handlers in hand.
LEMMA HoldReplace ==
  ASSUME NEW t \in Threads, NEW n, NEW f, Replaced(t, n, f)
  PROVE  /\ n \in Nat /\ Hold[t][n] = Elements(frames[t][n].handlers)
         /\ Differs(Hold, Hold', t, n, Elements(f.handlers))
  <1>1. n \in Nat /\ n \in DOMAIN frames[t] /\ n \in DOMAIN frames'[t]
    BY DEF Replaced
  <1>2. Hold[t][n] = Elements(frames[t][n].handlers) /\ Hold'[t][n] = Elements(f.handlers)
    BY <1>1 DEF Hold, Replaced
  <1>3. ASSUME NEW u \in Threads, NEW i \in Nat, ~(u = t /\ i = n) PROVE Hold'[u][i] = Hold[u][i]
    BY <1>3 DEF Hold, Replaced, OthersStay
  <1> QED
    BY <1>1, <1>2, <1>3 DEF Differs

LEMMA HoldPop ==
  ASSUME NEW t \in Threads, NEW n, Popped(t, n)
  PROVE  /\ n \in Nat /\ Hold[t][n] = Elements(frames[t][n].handlers)
         /\ Differs(Hold, Hold', t, n, {})
  <1>1. n \in Nat /\ n \in DOMAIN frames[t] /\ n \notin DOMAIN frames'[t]
    BY DEF Popped
  <1>2. Hold[t][n] = Elements(frames[t][n].handlers) /\ Hold'[t][n] = {}
    BY <1>1 DEF Hold, Popped
  <1>3. ASSUME NEW u \in Threads, NEW i \in Nat, ~(u = t /\ i = n) PROVE Hold'[u][i] = Hold[u][i]
    BY <1>3 DEF Hold, Popped, OthersStay
  <1> QED
    BY <1>1, <1>2, <1>3, Zenon DEF Differs

LEMMA HoldPush ==
  ASSUME NEW t \in Threads, NEW n, NEW f, Pushed(t, n, f)
  PROVE  /\ n + 1 \in Nat /\ Hold[t][n + 1] = {}
         /\ Differs(Hold, Hold', t, n + 1, Elements(f.handlers))
  <1>1. n + 1 \in Nat /\ n + 1 \notin DOMAIN frames[t] /\ n + 1 \in DOMAIN frames'[t]
    BY DEF Pushed
  <1>2. Hold[t][n + 1] = {} /\ Hold'[t][n + 1] = Elements(f.handlers)
    BY <1>1 DEF Hold, Pushed
  <1>3. ASSUME NEW u \in Threads, NEW i \in Nat, ~(u = t /\ i = n + 1) PROVE Hold'[u][i] = Hold[u][i]
    BY <1>3 DEF Hold, Pushed, OthersStay
  <1> QED
    BY <1>1, <1>2, <1>3 DEF Differs

\* A handler is in one place at a time: in the vector V, destroyed, or in one call.
Apart(H, V, X) ==
    /\ V \cap X = {}
    /\ \A t \in Threads, i \in Nat : H[t][i] \cap (V \cup X) = {}
    /\ \A t, u \in Threads, i, j \in Nat : t # u \/ i # j => H[t][i] \cap H[u][j] = {}

\* Every handler that was registered is somewhere.
Whole(H, V, X, R) == \A h : h \in R <=> h \in V \/ h \in X \/ \E t \in Threads, i \in Nat : h \in H[t][i]

\* The two properties in these terms.
LEMMA OnePlaceIs ==
  TypeOK =>
     (OnePlace <=> /\ \A i, j \in DOMAIN m_handlers : m_handlers[i] = m_handlers[j] => i = j
                   /\ Apart(Hold, Elements(m_handlers), finished))
  <1> SUFFICES ASSUME TypeOK
               PROVE  OnePlace <=>
                         /\ \A i, j \in DOMAIN m_handlers : m_handlers[i] = m_handlers[j] => i = j
                         /\ Apart(Hold, Elements(m_handlers), finished)
    OBVIOUS
  <1>1. ASSUME NEW t \in Threads PROVE \A i \in DOMAIN frames[t] : i \in Nat
    <2>1. frames[t] \in Seq(FrameType)
      BY DEF TypeOK
    <2> QED
      BY <2>1
  <1>2. ASSUME NEW t \in Threads, NEW i \in Nat
        PROVE  Hold[t][i] = IF i \in DOMAIN frames[t] THEN Elements(frames[t][i].handlers) ELSE {}
    BY DEF Hold
  <1>3. ASSUME OnePlace PROVE Apart(Hold, Elements(m_handlers), finished)
    <2>1. Elements(m_handlers) \cap finished = {}
      BY <1>3 DEF OnePlace
    <2>2. ASSUME NEW t \in Threads, NEW i \in Nat
          PROVE  Hold[t][i] \cap (Elements(m_handlers) \cup finished) = {}
      BY <1>2, <1>3 DEF OnePlace
    <2>3. ASSUME NEW t \in Threads, NEW u \in Threads, NEW i \in Nat, NEW j \in Nat, t # u \/ i # j
          PROVE  Hold[t][i] \cap Hold[u][j] = {}
      <3>1. CASE i \in DOMAIN frames[t] /\ j \in DOMAIN frames[u]
        <4>1. <<t, i>> # <<u, j>>
          BY <2>3
        <4>2. Elements(frames[t][i].handlers) \cap Elements(frames[u][j].handlers) = {}
          BY <1>3, <3>1, <4>1 DEF OnePlace
        <4> QED
          BY <1>2, <3>1, <4>2
      <3>2. CASE ~(i \in DOMAIN frames[t] /\ j \in DOMAIN frames[u])
        BY <1>2, <3>2
      <3> QED
        BY <3>1, <3>2
    <2> QED
      BY <2>1, <2>2, <2>3 DEF Apart
  <1>4. ASSUME Apart(Hold, Elements(m_handlers), finished),
               \A i, j \in DOMAIN m_handlers : m_handlers[i] = m_handlers[j] => i = j
        PROVE  OnePlace
    <2>1. Elements(m_handlers) \cap finished = {}
      BY <1>4 DEF Apart
    <2>2. ASSUME NEW t \in Threads, NEW i \in DOMAIN frames[t]
          PROVE  Elements(frames[t][i].handlers) \cap (Elements(m_handlers) \cup finished) = {}
      BY <1>1, <1>2, <1>4 DEF Apart
    <2>3. ASSUME NEW t \in Threads, NEW i \in DOMAIN frames[t],
                 NEW u \in Threads, NEW j \in DOMAIN frames[u], <<t, i>> # <<u, j>>
          PROVE  Elements(frames[t][i].handlers) \cap Elements(frames[u][j].handlers) = {}
      <3>1. t # u \/ i # j
        BY <2>3
      <3>2. i \in Nat /\ j \in Nat
        BY <1>1
      <3>3. Hold[t][i] \cap Hold[u][j] = {}
        BY <1>4, <3>1, <3>2 DEF Apart
      <3> QED
        BY <1>2, <3>2, <3>3
    <2> QED
      BY <1>4, <2>1, <2>2, <2>3, Zenon DEF OnePlace
  <1> QED
    BY <1>3, <1>4, Zenon DEF OnePlace

LEMMA NoneLostIs ==
  TypeOK /\ CallsFit =>
     (NoneLost <=> Whole(Hold, Elements(m_handlers), finished, registered))
  <1> SUFFICES ASSUME TypeOK, CallsFit
               PROVE  NoneLost <=> Whole(Hold, Elements(m_handlers), finished, registered)
    OBVIOUS
  <1> DEFINE kinds == {"register", "raise", "deliver"}
  <1>1. ASSUME NEW t \in Threads, NEW i \in DOMAIN frames[t]
        PROVE  /\ i \in Nat /\ Hold[t][i] = Elements(frames[t][i].handlers)
               /\ frames[t][i].kind \in kinds \/ Elements(frames[t][i].handlers) = {}
    <2>1. frames[t] \in Seq(FrameType)
      BY DEF TypeOK
    <2>2. i \in Nat /\ frames[t][i] \in FrameType
      BY <2>1
    <2>3. frames[t][i].kind = "clear" => frames[t][i].handlers = <<>>
      BY DEF CallsFit, FrameFits
    <2>4. frames[t][i].kind \in kinds \/ Elements(frames[t][i].handlers) = {}
      BY <2>2, <2>3 DEF FrameType, Elements
    <2> QED
      BY <2>2, <2>4 DEF Hold
  <1>2. ASSUME NEW h
        PROVE  h \in InHand(kinds) <=> \E t \in Threads, i \in Nat : h \in Hold[t][i]
    <2>1. ASSUME h \in InHand(kinds) PROVE \E t \in Threads, i \in Nat : h \in Hold[t][i]
      <3>1. PICK t \in Threads : \E i \in DOMAIN frames[t] : h \in Elements(frames[t][i].handlers)
        BY <2>1 DEF InHand
      <3>2. PICK i \in DOMAIN frames[t] : h \in Elements(frames[t][i].handlers)
        BY <3>1
      <3> QED
        BY <1>1, <3>2
    <2>2. ASSUME NEW t \in Threads, NEW i \in Nat, h \in Hold[t][i] PROVE h \in InHand(kinds)
      <3>1. i \in DOMAIN frames[t] /\ h \in Elements(frames[t][i].handlers)
        BY <2>2 DEF Hold
      <3>2. frames[t][i].kind \in kinds
        BY <1>1, <3>1
      <3> QED
        BY <3>1, <3>2 DEF InHand
    <2> QED
      BY <2>1, <2>2
  <1> HIDE DEF kinds
  <1>3. NoneLost <=> registered = Elements(m_handlers) \cup InHand(kinds) \cup finished
    BY DEF NoneLost, kinds
  <1> QED
    BY <1>2, <1>3 DEF Whole

-----------------------------------------------------------------------------
(***************************************************************************)
(* Handlers move between the vector, one call and where they end.          *)
(***************************************************************************)

\* Handlers that are nowhere yet.
Absent(N, H, V, X) == N \cap (V \cup X) = {} /\ \A u \in Threads, i \in Nat : N \cap H[u][i] = {}

\* What one call has, the vector and the destroyed handlers are shared out anew,
\* and handlers N that were nowhere may be added.
SharedOut(H, G, t, k, B, V, X, N, W, Y) ==
    /\ Differs(H, G, t, k, B) /\ Apart(H, V, X) /\ Absent(N, H, V, X)
    /\ W \cap Y = {} /\ B \cap (W \cup Y) = {}
    /\ B \cup W \cup Y \subseteq V \cup X \cup H[t][k] \cup N

\* Each still has one place.
LEMMA MoveApart ==
  ASSUME NEW H, NEW G, NEW t \in Threads, NEW k \in Nat, NEW B, NEW V, NEW X, NEW N, NEW W, NEW Y,
         SharedOut(H, G, t, k, B, V, X, N, W, Y)
  PROVE  Apart(G, W, Y)
  <1> USE DEF SharedOut
  <1>1. ASSUME NEW u \in Threads, NEW i \in Nat, u # t \/ i # k
        PROVE  G[u][i] \cap (B \cup W \cup Y) = {}
    <2>1. G[u][i] = H[u][i]
      BY <1>1 DEF Differs
    <2>2. H[u][i] \cap (V \cup X) = {} /\ H[u][i] \cap H[t][k] = {} /\ N \cap H[u][i] = {}
      BY <1>1 DEF Apart, Absent
    <2> QED
      BY <2>1, <2>2
  <1>2. G[t][k] = B
    BY DEF Differs
  <1>3. ASSUME NEW u \in Threads, NEW i \in Nat PROVE G[u][i] \cap (W \cup Y) = {}
    BY <1>1, <1>2
  <1>4. ASSUME NEW u \in Threads, NEW w \in Threads, NEW i \in Nat, NEW j \in Nat, u # w \/ i # j
        PROVE  G[u][i] \cap G[w][j] = {}
    <2>1. CASE u = t /\ i = k
      BY <1>1, <1>2, <1>4, <2>1
    <2>2. CASE w = t /\ j = k
      BY <1>1, <1>2, <1>4, <2>2
    <2>3. CASE ~(u = t /\ i = k) /\ ~(w = t /\ j = k)
      <3>1. G[u][i] = H[u][i] /\ G[w][j] = H[w][j]
        BY <2>3 DEF Differs
      <3> QED
        BY <1>4, <3>1 DEF Apart
    <2> QED
      BY <2>1, <2>2, <2>3
  <1> QED
    BY <1>3, <1>4 DEF Apart

\* If nothing is left out, every handler is still somewhere.
LEMMA MoveWhole ==
  ASSUME NEW H, NEW G, NEW t \in Threads, NEW k \in Nat, NEW B, Differs(H, G, t, k, B),
         NEW V, NEW X, NEW R, Whole(H, V, X, R), NEW N,
         NEW W, NEW Y, B \cup W \cup Y = V \cup X \cup H[t][k] \cup N
  PROVE  Whole(G, W, Y, R \cup N)
  <1>1. G[t][k] = B
    BY DEF Differs
  <1>2. ASSUME NEW h, h \in R \cup N, h \notin W, h \notin Y
        PROVE  \E u \in Threads, i \in Nat : h \in G[u][i]
    <2>1. CASE h \in B
      BY <1>1, <2>1
    <2>2. CASE h \notin B
      <3>1. h \notin V /\ h \notin X /\ h \notin H[t][k] /\ h \in R
        BY <1>2, <2>2
      <3>2. PICK u \in Threads, i \in Nat : h \in H[u][i]
        BY <3>1 DEF Whole
      <3>3. G[u][i] = H[u][i]
        BY <3>1, <3>2 DEF Differs
      <3> QED
        BY <3>2, <3>3
    <2> QED
      BY <2>1, <2>2
  <1>3. ASSUME NEW h, h \in W \/ h \in Y PROVE h \in R \cup N
    <2>1. h \in V \/ h \in X \/ h \in H[t][k] \/ h \in N
      BY <1>3
    <2> QED
      BY <2>1 DEF Whole
  <1>4. ASSUME NEW h, NEW u \in Threads, NEW i \in Nat, h \in G[u][i] PROVE h \in R \cup N
    <2>1. CASE u = t /\ i = k
      <3>1. h \in V \/ h \in X \/ h \in H[t][k] \/ h \in N
        BY <1>1, <1>4, <2>1
      <3> QED
        BY <3>1 DEF Whole
    <2>2. CASE ~(u = t /\ i = k)
      <3>1. h \in H[u][i]
        BY <1>4, <2>2 DEF Differs
      <3> QED
        BY <3>1 DEF Whole
    <2> QED
      BY <2>1, <2>2
  <1> QED
    BY <1>2, <1>3, <1>4 DEF Whole

-----------------------------------------------------------------------------
(***************************************************************************)
(* The vector.                                                             *)
(***************************************************************************)

NoRepeats(s) == \A i, j \in DOMAIN s : s[i] = s[j] => i = j

InOrder(s) == \A i, j \in DOMAIN s : i < j => signal[s[i]] <= signal[s[j]]

\* std::remove_if keeps the order, and with it a sorted vector sorted.
LEMMA SelectedKeeps ==
  ASSUME NEW s \in Seq(Handlers), NoRepeats(s), NEW S, NEW p \in Selected(s, S)
  PROVE  /\ p \in Seq(Handlers) /\ NoRepeats(p) /\ Elements(p) = Elements(s) \cap S
         /\ InOrder(s) => InOrder(p)
  <1>1. PICK n \in 0 .. Len(s) : p \in [1 .. n -> Elements(s) \cap S]
    BY DEF Selected
  <1>2. Elements(s) \subseteq Handlers
    BY DEF Elements
  <1>3. p \in Seq(Handlers) /\ DOMAIN p = 1 .. n
    BY <1>1, <1>2
  <1>4. ASSUME NEW i \in DOMAIN p, NEW j \in DOMAIN p, i < j
        PROVE  \E k, l \in DOMAIN s : k < l /\ p[i] = s[k] /\ p[j] = s[l]
    BY <1>4 DEF Selected
  <1>5. DOMAIN s \subseteq Int /\ DOMAIN p \subseteq Int
    BY <1>3
  <1>6. ASSUME NEW i \in DOMAIN p, NEW j \in DOMAIN p, i < j
        PROVE  p[i] # p[j] /\ (InOrder(s) => signal[p[i]] <= signal[p[j]])
    <2>1. PICK k \in DOMAIN s, l \in DOMAIN s : k < l /\ p[i] = s[k] /\ p[j] = s[l]
      BY <1>4, <1>6
    <2> QED
      BY <1>5, <2>1 DEF NoRepeats, InOrder
  <1>7. NoRepeats(p)
    BY <1>5, <1>6 DEF NoRepeats
  <1>8. InOrder(s) => InOrder(p)
    BY <1>6 DEF InOrder
  <1> QED
    BY <1>3, <1>7, <1>8 DEF Selected

\* std::sort keeps the elements.
LEMMA SortedKeeps ==
  ASSUME NEW s \in Seq(Handlers), NoRepeats(s), NEW p \in Sorted(s)
  PROVE  /\ p \in Seq(Handlers) /\ NoRepeats(p) /\ Elements(p) = Elements(s) /\ InOrder(p)
  <1> DEFINE n == Len(s)
             D == 1 .. n
             E == Elements(s)
  <1>1. n \in Nat /\ DOMAIN s = D /\ E \subseteq Handlers
    BY DEF Elements
  <1>2. p \in [D -> E] /\ Elements(p) = E
    BY DEF Sorted
  <1>3. p \in Seq(Handlers) /\ DOMAIN p = D
    BY <1>1, <1>2
  <1>4. InOrder(p)
    BY <1>3 DEF Sorted, InOrder
  <1>5. s \in [D -> E]
    BY <1>1 DEF Elements
  <1>6. s \in Surjection(D, E) /\ s \in Injection(D, E) /\ p \in Surjection(D, E)
    <2>1. \A e \in E : \E i \in D : s[i] = e
      BY <1>1 DEF Elements
    <2>2. \A e \in E : \E i \in D : p[i] = e
      BY <1>2, <1>3 DEF Elements
    <2>3. IsInjective(s)
      BY DEF NoRepeats, IsInjective
    <2> QED
      BY <1>2, <1>5, <2>1, <2>2, <2>3 DEF Surjection, Injection
  <1>7. IsFiniteSet(D)
    BY <1>1, FS_Interval
  <1> HIDE DEF n, D, E
  <1>8. Cardinality(E) = Cardinality(D)
    BY <1>6, <1>7, FS_Surjection
  <1>9. p \in Injection(D, E)
    BY <1>6, <1>7, <1>8, FS_Surjection
  <1>10. NoRepeats(p)
    BY <1>3, <1>9 DEF Injection, IsInjective, NoRepeats
  <1> QED
    BY <1>2, <1>3, <1>4, <1>10 DEF E

\* Adding handlers that are not in the vector.
LEMMA AddedAre ==
  ASSUME NEW s \in Seq(Handlers), NEW r \in Seq(Handlers), NoRepeats(s), NoRepeats(r),
         Elements(s) \cap Elements(r) = {}
  PROVE  /\ s \o r \in Seq(Handlers) /\ NoRepeats(s \o r)
         /\ Elements(s \o r) = Elements(s) \cup Elements(r)
  <1>1. /\ s \o r \in Seq(Handlers) /\ Len(s \o r) = Len(s) + Len(r)
        /\ DOMAIN (s \o r) = 1 .. Len(s) + Len(r)
        /\ DOMAIN s = 1 .. Len(s) /\ DOMAIN r = 1 .. Len(r) /\ Len(s) \in Nat /\ Len(r) \in Nat
    OBVIOUS
  <1>2. ASSUME NEW i \in 1 .. Len(s) + Len(r)
        PROVE  (s \o r)[i] = IF i <= Len(s) THEN s[i] ELSE r[i - Len(s)]
    OBVIOUS
  <1>3. ASSUME NEW i \in 1 .. Len(r) PROVE i + Len(s) \in 1 .. Len(s) + Len(r) /\ (s \o r)[i + Len(s)] = r[i]
    BY <1>1, <1>2
  <1>4. ASSUME NEW i \in 1 .. Len(s) PROVE i \in 1 .. Len(s) + Len(r) /\ (s \o r)[i] = s[i]
    BY <1>1, <1>2
  <1>5. ASSUME NEW i \in 1 .. Len(s) + Len(r), ~(i <= Len(s))
        PROVE  i - Len(s) \in 1 .. Len(r) /\ (s \o r)[i] = r[i - Len(s)]
    BY <1>1, <1>2, <1>5
  <1>6. Elements(s \o r) \subseteq Elements(s) \cup Elements(r)
    BY <1>1, <1>4, <1>5 DEF Elements
  <1>7. Elements(s) \cup Elements(r) \subseteq Elements(s \o r)
    BY <1>1, <1>3, <1>4, Zenon DEF Elements
  <1>8. ASSUME NEW i \in 1 .. Len(s) + Len(r), NEW j \in 1 .. Len(s) + Len(r), (s \o r)[i] = (s \o r)[j]
        PROVE  i = j
    <2>1. CASE i <= Len(s) /\ j <= Len(s)
      BY <1>1, <1>2, <1>8, <2>1 DEF NoRepeats
    <2>2. CASE ~(i <= Len(s)) /\ ~(j <= Len(s))
      <3>1. i - Len(s) = j - Len(s)
        BY <1>1, <1>5, <1>8, <2>2 DEF NoRepeats
      <3> QED
        BY <1>1, <3>1
    <2>3. ASSUME NEW k \in 1 .. Len(s), NEW l \in 1 .. Len(r) PROVE s[k] # r[l]
      BY <1>1, Zenon DEF Elements
    <2>4. CASE i <= Len(s) /\ ~(j <= Len(s))
      <3>1. i \in 1 .. Len(s) /\ j - Len(s) \in 1 .. Len(r) /\ s[i] = r[j - Len(s)]
        BY <1>1, <1>2, <1>5, <1>8, <2>4
      <3> QED
        BY <2>3, <3>1
    <2>5. CASE ~(i <= Len(s)) /\ j <= Len(s)
      <3>1. j \in 1 .. Len(s) /\ i - Len(s) \in 1 .. Len(r) /\ s[j] = r[i - Len(s)]
        BY <1>1, <1>2, <1>5, <1>8, <2>5
      <3> QED
        BY <2>3, <3>1
    <2> QED
      BY <2>1, <2>2, <2>4, <2>5
  <1> QED
    BY <1>1, <1>6, <1>7, <1>8 DEF NoRepeats

-----------------------------------------------------------------------------
(***************************************************************************)
(* The calls and the mutex.                                                *)
(***************************************************************************)

\* FrameFits as a fact about a call and the signals of the handlers.
Fits(f, sg) ==
    /\ f.at = "run" => f.kind \in {"raise", "deliver"}
    /\ f.kind = "clear" => f.handlers = <<>>
    /\ f.kind = "register" => /\ f.sig \in Signals
                              /\ f.at = "unlock" => f.handlers = <<>>
    /\ f.kind \in {"raise", "deliver"} => /\ f.sig \in {MapEvent(sig) : sig \in Signals}
                                          /\ f.at = "lock" => f.handlers = <<>>
    /\ \A h \in Elements(f.handlers) : sg[h] = f.sig
    /\ NoRepeats(f.handlers)

LEMMA CallsFitIs == CallsFit <=> \A t \in Threads : \A i \in DOMAIN frames[t] : Fits(frames[t][i], signal)
  BY DEF CallsFit, FrameFits, Fits, NoRepeats

LEMMA FitsReplaced ==
  ASSUME CallsFit, UNCHANGED signal, NEW t \in Threads, NEW n, NEW f, Replaced(t, n, f), Fits(f, signal)
  PROVE  CallsFit'
  <1>1. \A u \in Threads : \A i \in DOMAIN frames[u] : Fits(frames[u][i], signal)
    BY CallsFitIs
  <1>2. ASSUME NEW u \in Threads, NEW i \in DOMAIN frames'[u] PROVE Fits(frames'[u][i], signal')
    <2>1. CASE u = t /\ i = n
      BY <2>1 DEF Replaced
    <2>2. CASE ~(u = t /\ i = n)
      BY <1>1, <2>2 DEF Replaced, OthersStay
    <2> QED
      BY <2>1, <2>2
  <1>3. CallsFit' <=> \A u \in Threads : \A i \in DOMAIN frames'[u] : Fits(frames'[u][i], signal')
    BY DEF CallsFit, FrameFits, Fits, NoRepeats
  <1> QED
    BY <1>2, <1>3

LEMMA FitsPopped ==
  ASSUME CallsFit, UNCHANGED signal, NEW t \in Threads, NEW n, Popped(t, n)
  PROVE  CallsFit'
  <1>1. \A u \in Threads : \A i \in DOMAIN frames[u] : Fits(frames[u][i], signal)
    BY CallsFitIs
  <1>2. ASSUME NEW u \in Threads, NEW i \in DOMAIN frames'[u] PROVE Fits(frames'[u][i], signal')
    <2>1. CASE u = t
      <3>1. i \in 1 .. (n - 1) /\ i \in DOMAIN frames[t]
        BY <2>1 DEF Popped
      <3> QED
        BY <1>1, <2>1, <3>1 DEF Popped
    <2>2. CASE u # t
      BY <1>1, <2>2 DEF Popped, OthersStay
    <2> QED
      BY <2>1, <2>2
  <1>3. CallsFit' <=> \A u \in Threads : \A i \in DOMAIN frames'[u] : Fits(frames'[u][i], signal')
    BY DEF CallsFit, FrameFits, Fits, NoRepeats
  <1> QED
    BY <1>2, <1>3

LEMMA FitsPushed ==
  ASSUME CallsFit, UNCHANGED signal, NEW t \in Threads, NEW n, NEW f, Pushed(t, n, f), Fits(f, signal)
  PROVE  CallsFit'
  <1>1. \A u \in Threads : \A i \in DOMAIN frames[u] : Fits(frames[u][i], signal)
    BY CallsFitIs
  <1>2. ASSUME NEW u \in Threads, NEW i \in DOMAIN frames'[u] PROVE Fits(frames'[u][i], signal')
    <2>1. CASE u = t /\ i = n + 1
      BY <2>1 DEF Pushed
    <2>2. CASE u = t /\ i # n + 1
      <3>1. i \in 1 .. n /\ i \in DOMAIN frames[t]
        BY <2>2 DEF Pushed
      <3> QED
        BY <1>1, <2>2, <3>1 DEF Pushed
    <2>3. CASE u # t
      BY <1>1, <2>3 DEF Pushed, OthersStay
    <2> QED
      BY <2>1, <2>2, <2>3
  <1>3. CallsFit' <=> \A u \in Threads : \A i \in DOMAIN frames'[u] : Fits(frames'[u][i], signal')
    BY DEF CallsFit, FrameFits, Fits, NoRepeats
  <1> QED
    BY <1>2, <1>3

\* A thread that is in none of its critical sections.
Outside(t) == \A i \in DOMAIN frames[t] : frames[t][i].at # "unlock"

\* Such is a thread that is in no call, or whose innermost call runs handlers.
LEMMA RunsOutside ==
  ASSUME TypeOK, MutexHeld, NEW t \in Threads, Idle(t) \/ Top(t).at = "run"
  PROVE  Outside(t)
  <1>1. frames[t] \in Seq(FrameType)
    BY DEF TypeOK
  <1> SUFFICES ASSUME NEW i \in DOMAIN frames[t], frames[t][i].at = "unlock" PROVE FALSE
    BY DEF Outside
  <1>2. i \in 1 .. Len(frames[t]) /\ Len(frames[t]) \in Nat /\ Len(frames[t]) \in DOMAIN frames[t]
    BY <1>1
  <1>3. frames[t] # <<>>
    BY <1>1, <1>2
  <1>4. frames[t][Len(frames[t])].at = "run"
    BY <1>3 DEF Idle, Top
  <1>5. i < Len(frames[t])
    BY <1>2, <1>4
  <1> QED
    BY <1>2, <1>4, <1>5 DEF MutexHeld

\* The mutex is not touched by a thread that does not have it.
LEMMA MutexLeft ==
  ASSUME MutexHeld, UNCHANGED m_mutex, NEW t \in Threads, OthersStay(t), Outside(t),
         \A i \in DOMAIN frames'[t] : frames'[t][i].at # "unlock"
  PROVE  MutexHeld'
  BY DEF MutexHeld, OthersStay, Outside

\* A delivery may interrupt the thread that has it.
LEMMA MutexInterrupted ==
  ASSUME MutexHeld, UNCHANGED m_mutex, NEW t \in Threads, NEW n, NEW f, Pushed(t, n, f),
         f.kind = "deliver", f.at = "lock"
  PROVE  MutexHeld'
  <1>1. ASSUME NEW i \in DOMAIN frames'[t], frames'[t][i].at = "unlock"
        PROVE  /\ m_mutex' = t
               /\ \A j \in DOMAIN frames'[t] : j > i => frames'[t][j].kind = "deliver" /\ frames'[t][j].at = "lock"
    <2>1. i \in DOMAIN frames[t] /\ frames[t][i].at = "unlock"
      BY <1>1 DEF Pushed
    <2>2. m_mutex = t /\ \A j \in DOMAIN frames[t] : j > i => frames[t][j].kind = "deliver" /\ frames[t][j].at = "lock"
      BY <2>1 DEF MutexHeld
    <2>3. ASSUME NEW j \in DOMAIN frames'[t], j > i
          PROVE  frames'[t][j].kind = "deliver" /\ frames'[t][j].at = "lock"
      <3>1. CASE j = n + 1
        BY <3>1 DEF Pushed
      <3>2. CASE j # n + 1
        <4>1. j \in DOMAIN frames[t] /\ frames'[t][j] = frames[t][j]
          BY <3>2 DEF Pushed
        <4> QED
          BY <2>2, <2>3, <4>1
      <3> QED
        BY <3>1, <3>2
    <2> QED
      BY <2>2, <2>3
  <1>2. ASSUME m_mutex' = t PROVE \E i \in DOMAIN frames'[t] : frames'[t][i].at = "unlock"
    <2>1. PICK i \in DOMAIN frames[t] : frames[t][i].at = "unlock"
      BY <1>2 DEF MutexHeld
    <2>2. i \in DOMAIN frames'[t] /\ frames'[t][i] = frames[t][i]
      BY DEF Pushed
    <2> QED
      BY <2>1, <2>2
  <1>3. ASSUME NEW u \in Threads, u # t PROVE frames'[u] = frames[u]
    BY <1>3 DEF Pushed, OthersStay
  <1> QED
    BY <1>1, <1>2, <1>3 DEF MutexHeld

\* Locking.
LEMMA MutexTaken ==
  ASSUME NoThread \notin Threads, MutexHeld, m_mutex = NoThread, NEW t \in Threads, m_mutex' = t,
         NEW n, NEW f, Replaced(t, n, f), f.at = "unlock"
  PROVE  MutexHeld'
  <1>1. ASSUME NEW u \in Threads PROVE Outside(u)
    BY DEF MutexHeld, Outside
  <1>2. ASSUME NEW i \in DOMAIN frames'[t], frames'[t][i].at = "unlock" PROVE i = n
    BY <1>1, <1>2 DEF Outside, Replaced
  <1>3. n \in DOMAIN frames'[t] /\ frames'[t][n].at = "unlock" /\ \A j \in DOMAIN frames'[t] : ~(j > n)
    BY DEF Replaced
  <1>4. ASSUME NEW u \in Threads, u # t PROVE m_mutex' # u /\ \A i \in DOMAIN frames'[u] : frames'[u][i].at # "unlock"
    BY <1>1, <1>4 DEF Outside, Replaced, OthersStay
  <1> QED
    BY <1>2, <1>3, <1>4 DEF MutexHeld

\* Unlocking, by the innermost call.
LEMMA MutexGiven ==
  ASSUME NoThread \notin Threads, TypeOK, MutexHeld, NEW t \in Threads, ~Idle(t), Top(t).at = "unlock",
         m_mutex' = NoThread, OthersStay(t),
         \A i \in DOMAIN frames'[t] : /\ i \in DOMAIN frames[t]
                                      /\ \/ frames'[t][i] = frames[t][i] /\ i < Len(frames[t])
                                         \/ frames'[t][i].at # "unlock"
  PROVE  MutexHeld'
  <1>1. frames[t] \in Seq(FrameType) /\ frames[t] # <<>>
    BY DEF TypeOK, Idle
  <1>2. Len(frames[t]) \in DOMAIN frames[t] /\ frames[t][Len(frames[t])].at = "unlock"
    BY <1>1 DEF Top
  <1>3. m_mutex = t
    BY <1>2 DEF MutexHeld
  <1>4. ASSUME NEW i \in DOMAIN frames[t], i < Len(frames[t]) PROVE frames[t][i].at # "unlock"
    BY <1>2, <1>4 DEF MutexHeld
  <1>5. \A i \in DOMAIN frames'[t] : frames'[t][i].at # "unlock"
    BY <1>4
  <1>6. ASSUME NEW u \in Threads, u # t PROVE \A i \in DOMAIN frames'[u] : frames'[u][i].at # "unlock"
    BY <1>3, <1>6 DEF MutexHeld, OthersStay
  <1> QED
    BY <1>5, <1>6 DEF MutexHeld

-----------------------------------------------------------------------------
(***************************************************************************)
(* The steps.                                                              *)
(***************************************************************************)

OneEach == NoRepeats(m_handlers) /\ Apart(Hold, Elements(m_handlers), finished)

AllKept == Whole(Hold, Elements(m_handlers), finished, registered)

LEMMA IInvIs == IInv <=> TypeOK /\ CallsFit /\ MutexHeld /\ OneEach /\ AllKept /\ TablesAgree
  BY OnePlaceIs, NoneLostIs DEF IInv, OneEach, AllKept, NoRepeats

LEMMA IInvNext == TypeOK' /\ CallsFit' /\ MutexHeld' /\ OneEach' /\ AllKept' /\ TablesAgree' => IInv'
  BY IInvIs, PTL

\* The innermost call of a thread.
LEMMA TopIs ==
  ASSUME TypeOK, CallsFit, NEW t \in Threads, ~Idle(t)
  PROVE  /\ Top(t) = frames[t][Len(frames[t])] /\ Top(t) \in FrameType /\ Fits(Top(t), signal)
  <1>1. frames[t] \in Seq(FrameType) /\ frames[t] # <<>>
    BY DEF TypeOK, Idle
  <1>2. Len(frames[t]) \in DOMAIN frames[t]
    BY <1>1
  <1>3. Fits(frames[t][Len(frames[t])], signal)
    BY <1>2, CallsFitIs
  <1>4. frames[t][Len(frames[t])] \in FrameType
    BY <1>1, <1>2
  <1> QED
    BY <1>3, <1>4 DEF Top

\* A call begins: with handlers of its own that are new to the manager, or none.
LEMMA BeginKeeps ==
  ASSUME IInv, NEW t \in Threads, NEW f \in FrameType, Fits(f, signal), f.at = "lock",
         f.kind = "deliver" \/ Outside(t), frames' = PushOn(t, f),
         UNCHANGED <<m_handlers, m_signals, m_mutex, signal, finished, cleared>>,
         registered \cap Elements(f.handlers) = {}, registered' = registered \cup Elements(f.handlers),
         registered' \subseteq Handlers
  PROVE  IInv'
  <1> DEFINE n == Len(frames[t])
  <1>1. TypeOK /\ CallsFit /\ MutexHeld /\ OneEach /\ AllKept /\ TablesAgree
    BY IInvIs
  <1>2. Pushed(t, n, f)
    BY <1>1, CallPushed, Zenon DEF TypeOK
  <1>3. n + 1 \in Nat /\ Hold[t][n + 1] = {} /\ Differs(Hold, Hold', t, n + 1, Elements(f.handlers))
    BY <1>2, HoldPush
  <1> HIDE DEF n
  <1>4. TypeOK'
    BY <1>1, <1>2 DEF TypeOK, Pushed, OthersStay
  <1>5. CallsFit'
    BY <1>1, <1>2, FitsPushed
  <1>6. MutexHeld'
    <2>1. CASE f.kind = "deliver"
      BY <1>1, <1>2, <2>1, MutexInterrupted
    <2>2. CASE Outside(t)
      <3>1. \A i \in DOMAIN frames'[t] : frames'[t][i].at # "unlock"
        BY <1>2, <2>2 DEF Pushed, Outside
      <3> QED
        BY <1>1, <1>2, <2>2, <3>1, MutexLeft DEF Pushed
    <2> QED
      BY <2>1, <2>2
  <1> DEFINE B == Elements(f.handlers)
             V == Elements(m_handlers)
  <1>7. Absent(B, Hold, V, finished) /\ B \cap (V \cup finished) = {}
    BY <1>1 DEF AllKept, Whole, Absent
  <1>8. OneEach'
    <2>1. Apart(Hold', V, finished)
      <3>1. V \cap finished = {} /\ Apart(Hold, V, finished)
        BY <1>1 DEF OneEach, Apart
      <3> HIDE DEF B, V
      <3>2. B \cup V \cup finished \subseteq V \cup finished \cup Hold[t][n + 1] \cup B
        OBVIOUS
      <3>3. Differs(Hold, Hold', t, n + 1, B)
        BY <1>3 DEF B
      <3>4. SharedOut(Hold, Hold', t, n + 1, B, V, finished, B, V, finished)
        BY <1>7, <3>1, <3>2, <3>3 DEF SharedOut
      <3> QED
        BY <1>3, <3>4, MoveApart
    <2> QED
      BY <1>1, <2>1 DEF OneEach
  <1>9. AllKept'
    <2>1. Whole(Hold', V, finished, registered \cup B)
      <3>1. Whole(Hold, V, finished, registered)
        BY <1>1 DEF AllKept
      <3> HIDE DEF B, V
      <3>2. B \cup V \cup finished = V \cup finished \cup Hold[t][n + 1] \cup B
        BY <1>3
      <3> QED
        BY <1>3, <3>1, <3>2, MoveWhole, Zenon DEF B
    <2> QED
      BY <2>1 DEF AllKept
  <1>10. TablesAgree'
    BY <1>1 DEF TablesAgree, HandlersSorted, Installed
  <1> QED
    BY <1>4, <1>5, <1>6, <1>8, <1>9, <1>10, IInvNext

\* The innermost call goes on: what it has, the vector and the destroyed handlers
\* are shared out anew.
LEMMA ChangeKeeps ==
  ASSUME IInv, NEW t \in Threads, ~Idle(t), NEW f \in FrameType, Fits(f, signal),
         frames' = Replace(t, f), MutexHeld', m_mutex' \in Threads \cup {NoThread},
         UNCHANGED <<signal, registered>>, cleared' \subseteq Handlers,
         m_signals' \subseteq Signals, NEW p \in Seq(Handlers), m_handlers' = p, NEW X \in SUBSET Handlers, finished' = X,
         NoRepeats(p), InOrder(p), \A h \in Elements(p) : signal[h] \in m_signals',
         Elements(p) \cap X = {}, Elements(f.handlers) \cap (Elements(p) \cup X) = {},
         Elements(f.handlers) \cup Elements(p) \cup X =
             Elements(m_handlers) \cup finished \cup Elements(Top(t).handlers)
  PROVE  IInv'
  <1> DEFINE n == Len(frames[t])
             B == Elements(f.handlers)
             V == Elements(m_handlers)
             W == Elements(p)
  <1>1. TypeOK /\ CallsFit /\ MutexHeld /\ OneEach /\ AllKept /\ TablesAgree
    BY IInvIs
  <1>2. Replaced(t, n, f)
    BY <1>1, CallReplaced, Zenon DEF TypeOK
  <1>3. n \in Nat /\ Hold[t][n] = Elements(Top(t).handlers) /\ Differs(Hold, Hold', t, n, B)
    BY <1>1, <1>2, HoldReplace, TopIs
  <1>4. TypeOK'
    BY <1>1, <1>2 DEF TypeOK, Replaced, OthersStay
  <1>5. CallsFit'
    BY <1>1, <1>2, FitsReplaced
  <1>6. /\ Apart(Hold, V, finished) /\ Whole(Hold, V, finished, registered)
        /\ W \cap X = {} /\ B \cap (W \cup X) = {} /\ B \cup W \cup X = V \cup finished \cup Hold[t][n]
    BY <1>1, <1>3 DEF OneEach, AllKept
  <1> HIDE DEF n, B, V, W
  <1>7. Apart(Hold', W, X)
    <2>1. Absent({}, Hold, V, finished)
      BY DEF Absent
    <2>2. B \cup W \cup X \subseteq V \cup finished \cup Hold[t][n] \cup {}
      BY <1>6
    <2>3. SharedOut(Hold, Hold', t, n, B, V, finished, {}, W, X)
      BY <1>3, <1>6, <2>1, <2>2 DEF SharedOut
    <2> QED
      BY <1>3, <2>3, MoveApart
  <1>8. Whole(Hold', W, X, registered)
    <2>1. B \cup W \cup X = V \cup finished \cup Hold[t][n] \cup {} /\ registered \cup {} = registered
      BY <1>6
    <2>2. Whole(Hold', W, X, registered \cup {})
      BY <1>3, <1>6, <2>1, MoveWhole, Zenon
    <2> QED
      BY <2>1, <2>2
  <1>9. OneEach' /\ AllKept'
    BY <1>7, <1>8 DEF OneEach, AllKept, W
  <1>10. TablesAgree'
    BY DEF TablesAgree, HandlersSorted, Installed, InOrder, Elements
  <1> QED
    BY <1>4, <1>5, <1>9, <1>10, IInvNext

\* The innermost call is over, and has no handlers left.
LEMMA EndKeeps ==
  ASSUME IInv, NEW t \in Threads, ~Idle(t), frames' = Pop(t), Top(t).handlers = <<>>,
         MutexHeld', m_mutex' \in Threads \cup {NoThread},
         UNCHANGED <<m_handlers, m_signals, finished, signal, registered, cleared>>
  PROVE  IInv'
  <1> DEFINE n == Len(frames[t])
             V == Elements(m_handlers)
  <1>1. TypeOK /\ CallsFit /\ MutexHeld /\ OneEach /\ AllKept /\ TablesAgree
    BY IInvIs
  <1>2. Popped(t, n)
    BY <1>1, CallPopped, Zenon DEF TypeOK
  <1>3. n \in Nat /\ Hold[t][n] = {} /\ Differs(Hold, Hold', t, n, {})
    BY <1>1, <1>2, HoldPop, TopIs DEF Elements
  <1>4. TypeOK'
    BY <1>1, <1>2 DEF TypeOK, Popped, OthersStay
  <1>5. CallsFit'
    BY <1>1, <1>2, FitsPopped
  <1>6. Apart(Hold, V, finished) /\ Whole(Hold, V, finished, registered) /\ V \cap finished = {}
    BY <1>1 DEF OneEach, AllKept, Apart
  <1> HIDE DEF n, V
  <1>7. \A u \in Threads, i \in Nat : Hold'[u][i] = Hold[u][i]
    BY <1>3, Zenon DEF Differs
  <1>8. Apart(Hold', V, finished)
    BY <1>6, <1>7 DEF Apart
  <1>9. Whole(Hold', V, finished, registered)
    BY <1>6, <1>7 DEF Whole
  <1>10. OneEach' /\ AllKept'
    BY <1>1, <1>8, <1>9 DEF OneEach, AllKept, V
  <1>11. TablesAgree'
    BY <1>1 DEF TablesAgree, HandlersSorted, Installed
  <1> QED
    BY <1>4, <1>5, <1>10, <1>11, IInvNext

\* The vector, and what the innermost call has.
LEMMA VectorIs ==
  ASSUME IInv
  PROVE  /\ m_handlers \in Seq(Handlers) /\ NoRepeats(m_handlers) /\ InOrder(m_handlers)
         /\ \A h \in Elements(m_handlers) : signal[h] \in m_signals
         /\ Elements(m_handlers) \subseteq Handlers /\ finished \subseteq Handlers
         /\ Elements(m_handlers) \cap finished = {}
  <1>1. TypeOK /\ OneEach /\ TablesAgree
    BY IInvIs
  <1>2. m_handlers \in Seq(Handlers) /\ NoRepeats(m_handlers) /\ finished \subseteq Handlers
    BY <1>1 DEF TypeOK, OneEach
  <1>3. InOrder(m_handlers)
    BY <1>1 DEF TablesAgree, HandlersSorted, InOrder
  <1>4. \A h \in Elements(m_handlers) : signal[h] \in m_signals
    BY <1>1 DEF TablesAgree, Installed, Elements
  <1>5. Elements(m_handlers) \subseteq Handlers
    BY <1>2 DEF Elements
  <1>6. Elements(m_handlers) \cap finished = {}
    BY <1>1 DEF OneEach, Apart
  <1> QED
    BY <1>2, <1>3, <1>4, <1>5, <1>6

LEMMA TopApart ==
  ASSUME IInv, NEW t \in Threads, ~Idle(t)
  PROVE  /\ Top(t) \in FrameType /\ Fits(Top(t), signal)
         /\ Elements(Top(t).handlers) \cap (Elements(m_handlers) \cup finished) = {}
  <1>1. TypeOK /\ CallsFit /\ OneEach
    BY IInvIs
  <1>2. Top(t) = frames[t][Len(frames[t])] /\ Top(t) \in FrameType /\ Fits(Top(t), signal)
    BY <1>1, TopIs
  <1>3. frames[t] \in Seq(FrameType) /\ frames[t] # <<>>
    BY <1>1 DEF TypeOK, Idle
  <1>4. Len(frames[t]) \in DOMAIN frames[t] /\ Len(frames[t]) \in Nat
    BY <1>3
  <1>5. Hold[t][Len(frames[t])] = Elements(Top(t).handlers)
    BY <1>2, <1>4 DEF Hold
  <1>6. Hold[t][Len(frames[t])] \cap (Elements(m_handlers) \cup finished) = {}
    BY <1>1, <1>4 DEF OneEach, Apart
  <1> QED
    BY <1>2, <1>5, <1>6

\* A call with one handler on its way into the vector.
LEMMA RegisterFits ==
  ASSUME signal \in [Handlers -> Signals], NEW h \in Handlers, NEW f,
         f = Frame("register", "lock", signal[h], <<h>>)
  PROVE  /\ f \in FrameType /\ Fits(f, signal) /\ f.at = "lock" /\ f.handlers = <<h>> /\ Elements(f.handlers) = {h}
  <1>1. <<h>> \in Seq(Handlers) /\ Elements(<<h>>) = {h} /\ NoRepeats(<<h>>) /\ signal[h] \in Signals
    BY DEF Elements, NoRepeats
  <1>2. f \in FrameType /\ f.kind = "register" /\ f.at = "lock" /\ f.sig = signal[h] /\ f.handlers = <<h>>
    BY <1>1 DEF Frame, FrameType
  <1> QED
    BY <1>1, <1>2 DEF Fits

\* The signals the system's numbers are mapped to.
Events == {MapEvent(sig) : sig \in Signals}

\* A call without handlers.
LEMMA EmptyFits ==
  ASSUME NEW k \in {"register", "clear", "raise", "deliver"}, NEW a \in {"lock", "unlock"},
         NEW g \in Signals \cup {NONE} \cup Events, NEW f, f = Frame(k, a, g, <<>>),
         k = "register" => g \in Signals, k \in {"raise", "deliver"} => g \in Events
  PROVE  f \in FrameType /\ Fits(f, signal) /\ f.kind = k /\ f.at = a /\ Elements(f.handlers) = {}
  <1>1. <<>> \in Seq(Handlers) /\ Elements(<<>>) = {} /\ NoRepeats(<<>>)
    BY DEF Elements, NoRepeats
  <1>2. f \in FrameType /\ f.kind = k /\ f.at = a /\ f.sig = g /\ f.handlers = <<>>
    BY <1>1 DEF Frame, FrameType, Events
  <1> QED
    BY <1>1, <1>2 DEF Fits, Events

\* Threads call the manager, and the system delivers signals.
LEMMA CallsKeep ==
  ASSUME IInv, NEW t \in Threads,
         \/ \E h \in Handlers : RegisterSignal(t, h)
         \/ \E sig \in Signals \cup {NONE} : ClearSignalHandlers(t, sig)
         \/ \E sig \in Signals : RaiseSignal(t, sig)
         \/ \E signum \in m_signals : Receiver(t, signum)
  PROVE  IInv'
  <1>1. TypeOK /\ MutexHeld
    BY IInvIs
  <1>2. MayCall(t) => Outside(t)
    BY <1>1, RunsOutside DEF MayCall, Running
  <1>3. ASSUME NEW h \in Handlers, RegisterSignal(t, h) PROVE IInv'
    <2>1. PICK f : f = Frame("register", "lock", signal[h], <<h>>)
      OBVIOUS
    <2>2. f \in FrameType /\ Fits(f, signal) /\ f.at = "lock" /\ Elements(f.handlers) = {h}
      BY <1>1, <2>1, RegisterFits, Zenon DEF TypeOK
    <2>3. /\ frames' = PushOn(t, f) /\ MayCall(t) /\ h \notin registered /\ registered' = registered \cup {h}
          /\ UNCHANGED <<m_handlers, m_signals, m_mutex, signal, finished, cleared>>
      BY <1>3, <2>1 DEF RegisterSignal, Enter
    <2>4. /\ registered \cap Elements(f.handlers) = {} /\ registered' = registered \cup Elements(f.handlers)
          /\ registered' \subseteq Handlers
      BY <1>1, <2>2, <2>3 DEF TypeOK
    <2> QED
      BY <1>2, <2>2, <2>3, <2>4, BeginKeeps
  <1>4. ASSUME NEW k \in {"clear", "raise", "deliver"},
               NEW g \in Signals \cup {NONE} \cup Events,
               k \in {"raise", "deliver"} => g \in Events,
               MayCall(t) \/ k = "deliver", Enter(t, Frame(k, "lock", g, <<>>)), UNCHANGED registered
        PROVE  IInv'
    <2>1. PICK f : f = Frame(k, "lock", g, <<>>)
      OBVIOUS
    <2>2. /\ k \in {"register", "clear", "raise", "deliver"} /\ "lock" \in {"lock", "unlock"}
          /\ k = "register" => g \in Signals
      OBVIOUS
    <2>3. f \in FrameType /\ Fits(f, signal) /\ f.kind = k /\ f.at = "lock" /\ Elements(f.handlers) = {}
      BY <1>4, <2>1, <2>2, EmptyFits
    <2>4. frames' = PushOn(t, f) /\ UNCHANGED <<m_handlers, m_signals, m_mutex, signal, finished, cleared>>
      BY <1>4, <2>1 DEF Enter
    <2>5. /\ registered \cap Elements(f.handlers) = {} /\ registered' = registered \cup Elements(f.handlers)
          /\ registered' \subseteq Handlers
      BY <1>1, <1>4, <2>3 DEF TypeOK
    <2>6. f.kind = "deliver" \/ Outside(t)
      BY <1>2, <1>4, <2>3
    <2> QED
      BY <2>3, <2>4, <2>5, <2>6, BeginKeeps
  <1>5. ASSUME NEW sig \in Signals \cup {NONE}, ClearSignalHandlers(t, sig) PROVE IInv'
    BY <1>4, <1>5 DEF ClearSignalHandlers
  <1>6. ASSUME NEW sig \in Signals, RaiseSignal(t, sig) PROVE IInv'
    <2>1. MapEvent(sig) \in Events
      BY DEF Events
    <2> QED
      BY <1>4, <1>6, <2>1 DEF RaiseSignal
  <1>7. ASSUME NEW signum \in m_signals, Receiver(t, signum) PROVE IInv'
    <2>1. MapEvent(signum) \in Events
      BY <1>1 DEF TypeOK, Events
    <2> QED
      BY <1>4, <1>7, <2>1 DEF Receiver
  <1> QED
    BY <1>3, <1>5, <1>6, <1>7

\* Register under the mutex: the handler goes into the vector, which is sorted.
LEMMA RegisterKeeps ==
  ASSUME NoThread \notin Threads, IInv, NEW t \in Threads, Register(t)
  PROVE  IInv'
  <1>1. ~Idle(t) /\ Top(t).kind = "register" /\ m_mutex = NoThread /\ m_mutex' = t
    BY DEF Register, Lock
  <1>2. TypeOK /\ MutexHeld
    BY IInvIs
  <1>3. /\ Top(t) \in FrameType /\ Fits(Top(t), signal)
        /\ Elements(Top(t).handlers) \cap (Elements(m_handlers) \cup finished) = {}
    BY <1>1, TopApart
  <1>4. /\ Top(t).handlers \in Seq(Handlers) /\ NoRepeats(Top(t).handlers) /\ Top(t).sig \in Signals
        /\ \A h \in Elements(Top(t).handlers) : signal[h] = Top(t).sig
    BY <1>1, <1>3 DEF FrameType, Fits
  <1>5. /\ m_handlers \in Seq(Handlers) /\ NoRepeats(m_handlers)
        /\ \A h \in Elements(m_handlers) : signal[h] \in m_signals
        /\ Elements(m_handlers) \cap finished = {} /\ finished \subseteq Handlers
    BY VectorIs
  <1>6. PICK p : p = m_handlers' /\ p \in Sorted(m_handlers \o Top(t).handlers)
    BY DEF Register
  <1>7. PICK s : s = m_handlers \o Top(t).handlers
    BY Zenon
  <1>8. s \in Seq(Handlers) /\ NoRepeats(s) /\ Elements(s) = Elements(m_handlers) \cup Elements(Top(t).handlers)
    BY <1>3, <1>4, <1>5, <1>7, AddedAre
  <1>9. p \in Seq(Handlers) /\ NoRepeats(p) /\ Elements(p) = Elements(s) /\ InOrder(p)
    BY <1>6, <1>7, <1>8, SortedKeeps
  <1>10. PICK f : f = Frame("register", "unlock", Top(t).sig, <<>>)
    OBVIOUS
  <1>11. f \in FrameType /\ Fits(f, signal) /\ f.at = "unlock" /\ Elements(f.handlers) = {}
    BY <1>4, <1>10, EmptyFits, Zenon
  <1>12. /\ frames' = Replace(t, f) /\ m_signals' = m_signals \cup {Top(t).sig}
         /\ UNCHANGED <<finished, signal, registered, cleared>>
    BY <1>10 DEF Register, ghosts
  <1>13. Replaced(t, Len(frames[t]), f)
    BY <1>1, <1>2, <1>11, <1>12, CallReplaced, Zenon DEF TypeOK
  <1>14. MutexHeld'
    BY <1>1, <1>2, <1>11, <1>13, MutexTaken
  <1>15. \A h \in Elements(p) : signal[h] \in m_signals'
    BY <1>4, <1>5, <1>8, <1>9, <1>12
  <1>16. cleared' \subseteq Handlers /\ m_signals' \subseteq Signals
    BY <1>2, <1>4, <1>12 DEF TypeOK
  <1>17. /\ Elements(p) \cap finished = {} /\ Elements(f.handlers) \cap (Elements(p) \cup finished) = {}
         /\ Elements(f.handlers) \cup Elements(p) \cup finished =
                Elements(m_handlers) \cup finished \cup Elements(Top(t).handlers)
    BY <1>3, <1>5, <1>8, <1>9, <1>11
  <1>18. PICK X \in SUBSET Handlers : X = finished
    BY <1>5
  <1> QED
    BY <1>1, <1>6, <1>9, <1>11, <1>12, <1>14, <1>15, <1>16, <1>17, <1>18, ChangeKeeps

\* Clear under the mutex: the handlers of a signal, or all, are destroyed.
LEMMA ClearKeeps ==
  ASSUME NoThread \notin Threads, IInv, NEW t \in Threads, Clear(t)
  PROVE  IInv'
  <1>1. ~Idle(t) /\ Top(t).kind = "clear" /\ m_mutex = NoThread /\ m_mutex' = t
    BY DEF Clear, Lock
  <1>2. TypeOK /\ MutexHeld
    BY IInvIs
  <1>3. Top(t) \in FrameType /\ Fits(Top(t), signal)
    BY <1>1, TopApart
  <1>4. Elements(Top(t).handlers) = {} /\ Top(t).sig \in Signals \cup {NONE} \cup Events
    BY <1>1, <1>3 DEF FrameType, Fits, Elements, Events
  <1>5. /\ m_handlers \in Seq(Handlers) /\ NoRepeats(m_handlers) /\ InOrder(m_handlers)
        /\ \A h \in Elements(m_handlers) : signal[h] \in m_signals
        /\ Elements(m_handlers) \subseteq Handlers /\ finished \subseteq Handlers
        /\ Elements(m_handlers) \cap finished = {}
    BY VectorIs
  <1>6. PICK p : p = m_handlers' /\ p \in IF Top(t).sig = NONE THEN {<<>>} ELSE Without(Top(t).sig)
    BY DEF Clear
  <1>7. p \in Seq(Handlers) /\ NoRepeats(p) /\ Elements(p) \subseteq Elements(m_handlers) /\ InOrder(p)
    <2>1. CASE Top(t).sig = NONE
      BY <1>6, <2>1 DEF NoRepeats, Elements, InOrder
    <2>2. CASE Top(t).sig # NONE
      <3>1. PICK S : S = {h \in Handlers : signal[h] # Top(t).sig}
        BY Zenon
      <3>2. p \in Selected(m_handlers, S)
        BY <1>6, <2>2, <3>1 DEF Without
      <3> QED
        BY <1>5, <3>2, SelectedKeeps
    <2> QED
      BY <2>1, <2>2
  <1>8. PICK f : f = Frame("clear", "unlock", Top(t).sig, <<>>)
    OBVIOUS
  <1>9. f \in FrameType /\ Fits(f, signal) /\ f.at = "unlock" /\ Elements(f.handlers) = {}
    BY <1>4, <1>8, EmptyFits
  <1>10. /\ frames' = Replace(t, f) /\ finished' = finished \cup (Elements(m_handlers) \ Elements(p))
         /\ UNCHANGED <<m_signals, signal, registered>>
    BY <1>6, <1>8 DEF Clear
  <1>11. Replaced(t, Len(frames[t]), f)
    BY <1>1, <1>2, <1>9, <1>10, CallReplaced, Zenon DEF TypeOK
  <1>12. MutexHeld'
    BY <1>1, <1>2, <1>9, <1>11, MutexTaken
  <1>13. \A h \in Elements(p) : signal[h] \in m_signals'
    BY <1>5, <1>7, <1>10
  <1>14. cleared' \subseteq Handlers /\ m_signals' \subseteq Signals
    <2>1. InHand({"raise", "deliver"}) \subseteq Handlers
      <3> SUFFICES ASSUME NEW u \in Threads, NEW i \in DOMAIN frames[u],
                          NEW h \in Elements(frames[u][i].handlers)
                   PROVE  h \in Handlers
        BY DEF InHand
      <3>1. frames[u] \in Seq(FrameType)
        BY <1>2 DEF TypeOK
      <3>2. frames[u][i] \in FrameType
        BY <3>1
      <3>3. frames[u][i].handlers \in Seq(Handlers)
        BY <3>2 DEF FrameType
      <3> QED
        BY <3>3 DEF Elements
    <2> QED
      BY <1>2, <1>5, <1>10, <2>1 DEF Clear, TypeOK
  <1>15. PICK X \in SUBSET Handlers : X = finished \cup (Elements(m_handlers) \ Elements(p))
    BY <1>5, Zenon
  <1>16. /\ Elements(p) \cap X = {} /\ Elements(f.handlers) \cap (Elements(p) \cup X) = {}
         /\ Elements(f.handlers) \cup Elements(p) \cup X =
                Elements(m_handlers) \cup finished \cup Elements(Top(t).handlers)
    BY <1>4, <1>5, <1>7, <1>9, <1>15
  <1> QED
    BY <1>1, <1>6, <1>7, <1>9, <1>10, <1>12, <1>13, <1>14, <1>15, <1>16, ChangeKeeps

\* ReceiveSignal under the mutex: the handlers of the signal move into the call.
LEMMA ReceiveKeeps ==
  ASSUME NoThread \notin Threads, IInv, NEW t \in Threads, ReceiveSignal(t)
  PROVE  IInv'
  <1>1. ~Idle(t) /\ Top(t).kind \in {"raise", "deliver"} /\ Top(t).at = "lock" /\ m_mutex = NoThread /\ m_mutex' = t
    BY DEF ReceiveSignal, Lock
  <1>2. TypeOK /\ MutexHeld
    BY IInvIs
  <1>3. Top(t) \in FrameType /\ Fits(Top(t), signal)
    BY <1>1, TopApart
  <1>4. Elements(Top(t).handlers) = {} /\ Top(t).sig \in Events
    BY <1>1, <1>3 DEF Fits, Elements, Events
  <1>5. /\ m_handlers \in Seq(Handlers) /\ NoRepeats(m_handlers) /\ InOrder(m_handlers)
        /\ \A h \in Elements(m_handlers) : signal[h] \in m_signals
        /\ Elements(m_handlers) \subseteq Handlers /\ finished \subseteq Handlers
        /\ Elements(m_handlers) \cap finished = {}
    BY VectorIs
  <1>6. PICK S : S = {h \in Handlers : signal[h] = Top(t).sig}
    BY Zenon
  <1>7. PICK R : R = {h \in Handlers : signal[h] # Top(t).sig}
    OBVIOUS
  <1>8. PICK taken \in Selected(m_handlers, S) : frames' = Replace(t, Frame(Top(t).kind, "unlock", Top(t).sig, taken))
    BY <1>6 DEF ReceiveSignal, Of
  <1>9. PICK p \in Selected(m_handlers, R) : p = m_handlers'
    BY <1>7 DEF ReceiveSignal, Without
  <1>10. taken \in Seq(Handlers) /\ NoRepeats(taken) /\ Elements(taken) = Elements(m_handlers) \cap S
    BY <1>5, SelectedKeeps
  <1>11. p \in Seq(Handlers) /\ NoRepeats(p) /\ Elements(p) = Elements(m_handlers) \cap R /\ InOrder(p)
    BY <1>5, SelectedKeeps
  <1>12. PICK f : f = Frame(Top(t).kind, "unlock", Top(t).sig, taken)
    OBVIOUS
  <1>13. f \in FrameType /\ f.kind = Top(t).kind /\ f.at = "unlock" /\ f.sig = Top(t).sig /\ f.handlers = taken
    BY <1>1, <1>4, <1>10, <1>12 DEF Frame, FrameType, Events
  <1>14. Fits(f, signal)
    BY <1>1, <1>4, <1>6, <1>10, <1>13 DEF Fits, Events
  <1>15. /\ frames' = Replace(t, f) /\ UNCHANGED <<m_signals, finished, signal, registered, cleared>>
    BY <1>8, <1>12 DEF ReceiveSignal, ghosts
  <1>16. Replaced(t, Len(frames[t]), f)
    BY <1>1, <1>2, <1>13, <1>15, CallReplaced, Zenon DEF TypeOK
  <1>17. MutexHeld'
    BY <1>1, <1>2, <1>13, <1>16, MutexTaken
  <1>18. /\ \A h \in Elements(p) : signal[h] \in m_signals'
         /\ cleared' \subseteq Handlers /\ m_signals' \subseteq Signals
    BY <1>2, <1>5, <1>11, <1>15 DEF TypeOK
  <1>19. PICK X \in SUBSET Handlers : X = finished
    BY <1>5
  <1>20. /\ Elements(p) \cap X = {} /\ Elements(f.handlers) \cap (Elements(p) \cup X) = {}
         /\ Elements(f.handlers) \cup Elements(p) \cup X =
                Elements(m_handlers) \cup finished \cup Elements(Top(t).handlers)
    BY <1>4, <1>5, <1>6, <1>7, <1>10, <1>11, <1>13, <1>19
  <1> QED
    BY <1>1, <1>9, <1>11, <1>13, <1>14, <1>15, <1>17, <1>18, <1>19, <1>20, ChangeKeeps

\* A step that leaves the vector, and moves handlers of the innermost call to where
\* they end, if any.
LEMMA CallKeeps ==
  ASSUME IInv, NEW t \in Threads, ~Idle(t), NEW f \in FrameType, Fits(f, signal),
         frames' = Replace(t, f), MutexHeld', m_mutex' \in Threads \cup {NoThread},
         UNCHANGED <<m_handlers, m_signals, signal, registered, cleared>>,
         NEW D \in SUBSET Handlers, finished' = finished \cup D, D \cap Elements(f.handlers) = {},
         Elements(Top(t).handlers) = D \cup Elements(f.handlers)
  PROVE  IInv'
  <1>1. TypeOK
    BY IInvIs
  <1>2. /\ m_handlers \in Seq(Handlers) /\ NoRepeats(m_handlers) /\ InOrder(m_handlers)
        /\ \A h \in Elements(m_handlers) : signal[h] \in m_signals
        /\ Elements(m_handlers) \subseteq Handlers /\ finished \subseteq Handlers
        /\ Elements(m_handlers) \cap finished = {}
    BY VectorIs
  <1>3. PICK p \in Seq(Handlers) : p = m_handlers
    BY <1>2
  <1>4. PICK X \in SUBSET Handlers : X = finished \cup D
    BY <1>2
  <1>5. Elements(Top(t).handlers) \cap (Elements(m_handlers) \cup finished) = {}
    BY TopApart
  <1>6. /\ Elements(p) \cap X = {} /\ Elements(f.handlers) \cap (Elements(p) \cup X) = {}
        /\ Elements(f.handlers) \cup Elements(p) \cup X =
               Elements(m_handlers) \cup finished \cup Elements(Top(t).handlers)
    BY <1>2, <1>3, <1>4, <1>5
  <1>7. /\ \A h \in Elements(p) : signal[h] \in m_signals'
        /\ cleared' \subseteq Handlers /\ m_signals' \subseteq Signals
    BY <1>1, <1>2, <1>3 DEF TypeOK
  <1>8. NoRepeats(p) /\ InOrder(p) /\ m_handlers' = p
    BY <1>2, <1>3
  <1> QED
    BY <1>4, <1>6, <1>7, <1>8, ChangeKeeps

\* The end of a critical section.
LEMMA UnlockKeeps ==
  ASSUME NoThread \notin Threads, IInv, NEW t \in Threads, Unlock(t)
  PROVE  IInv'
  <1>1. ~Idle(t) /\ Top(t).at = "unlock" /\ m_mutex' = NoThread
        /\ UNCHANGED <<m_handlers, m_signals, finished, signal, registered, cleared>>
    BY DEF Unlock, ghosts
  <1>2. TypeOK /\ MutexHeld /\ frames \in [Threads -> Seq(FrameType)]
    BY IInvIs DEF TypeOK
  <1>3. Top(t) \in FrameType /\ Fits(Top(t), signal)
    BY <1>1, TopApart
  <1>4. CASE Top(t).kind \in {"raise", "deliver"}
    <2>1. PICK f : f = [Top(t) EXCEPT !.at = "run"]
      BY Zenon
    <2>2. f \in FrameType /\ f.kind = Top(t).kind /\ f.at = "run" /\ f.sig = Top(t).sig /\ f.handlers = Top(t).handlers
      BY <1>3, <2>1 DEF FrameType
    <2>3. Fits(f, signal)
      BY <1>3, <1>4, <2>2 DEF Fits
    <2>4. frames' = Replace(t, f)
      BY <1>4, <2>1 DEF Unlock
    <2>5. Replaced(t, Len(frames[t]), f)
      BY <1>1, <1>2, <2>2, <2>4, CallReplaced
    <2>6. OthersStay(t) /\ \A i \in DOMAIN frames'[t] :
             /\ i \in DOMAIN frames[t]
             /\ \/ frames'[t][i] = frames[t][i] /\ i < Len(frames[t])
                \/ frames'[t][i].at # "unlock"
      BY <2>2, <2>5 DEF Replaced
    <2>7. MutexHeld'
      BY <1>1, <1>2, <2>6, MutexGiven
    <2>8. PICK D \in SUBSET Handlers : D = {}
      BY Zenon
    <2>9. finished' = finished \cup D /\ D \cap Elements(f.handlers) = {}
          /\ Elements(Top(t).handlers) = D \cup Elements(f.handlers)
      BY <1>1, <2>2, <2>8
    <2> QED
      BY <1>1, <2>2, <2>3, <2>4, <2>7, <2>9, CallKeeps
  <1>5. CASE Top(t).kind \notin {"raise", "deliver"}
    <2>1. Top(t).handlers = <<>>
      BY <1>1, <1>3, <1>5 DEF Fits, FrameType
    <2>2. frames' = Pop(t)
      BY <1>5 DEF Unlock
    <2>3. Popped(t, Len(frames[t]))
      BY <1>1, <1>2, <2>2, CallPopped
    <2>4. OthersStay(t) /\ \A i \in DOMAIN frames'[t] :
             /\ i \in DOMAIN frames[t]
             /\ \/ frames'[t][i] = frames[t][i] /\ i < Len(frames[t])
                \/ frames'[t][i].at # "unlock"
      BY <2>3 DEF Popped
    <2>5. MutexHeld'
      BY <1>1, <1>2, <2>4, MutexGiven
    <2> QED
      BY <1>1, <2>1, <2>2, <2>5, EndKeeps
  <1> QED
    BY <1>4, <1>5

\* A call that has run its handlers is over.
LEMMA ReturnKeeps ==
  ASSUME IInv, NEW t \in Threads, Return(t)
  PROVE  IInv'
  <1>1. /\ ~Idle(t) /\ Top(t).at = "run" /\ Top(t).handlers = <<>> /\ frames' = Pop(t)
        /\ UNCHANGED <<m_handlers, m_signals, m_mutex, finished, signal, registered, cleared>>
    BY DEF Return, ghosts
  <1>2. TypeOK /\ MutexHeld /\ frames \in [Threads -> Seq(FrameType)] /\ m_mutex \in Threads \cup {NoThread}
    BY IInvIs DEF TypeOK
  <1>3. Outside(t)
    BY <1>1, <1>2, RunsOutside
  <1>4. Popped(t, Len(frames[t]))
    BY <1>1, <1>2, CallPopped, Zenon
  <1>5. OthersStay(t) /\ \A i \in DOMAIN frames'[t] : frames'[t][i].at # "unlock"
    BY <1>3, <1>4 DEF Popped, Outside
  <1>6. MutexHeld'
    BY <1>1, <1>2, <1>3, <1>5, MutexLeft
  <1> QED
    BY <1>1, <1>2, <1>6, EndKeeps

\* A handler that has run, and the others the call has.
LEMMA HeadAndTail ==
  ASSUME NEW s \in Seq(Handlers), s # <<>>, NoRepeats(s)
  PROVE  /\ Head(s) \in Handlers /\ Tail(s) \in Seq(Handlers) /\ NoRepeats(Tail(s))
         /\ Elements(s) = {Head(s)} \cup Elements(Tail(s)) /\ Head(s) \notin Elements(Tail(s))
  <1>1. /\ Head(s) \in Handlers /\ Tail(s) \in Seq(Handlers) /\ Len(s) \in Nat \ {0} /\ Head(s) = s[1]
        /\ DOMAIN s = 1 .. Len(s) /\ DOMAIN Tail(s) = 1 .. (Len(s) - 1)
    OBVIOUS
  <1>2. \A i \in 1 .. (Len(s) - 1) : Tail(s)[i] = s[i + 1]
    OBVIOUS
  <1>3. NoRepeats(Tail(s))
    BY <1>1, <1>2 DEF NoRepeats
  <1>4. Head(s) \notin Elements(Tail(s))
    BY <1>1, <1>2 DEF NoRepeats, Elements
  <1>5. Elements(s) \subseteq {Head(s)} \cup Elements(Tail(s))
    <2> SUFFICES ASSUME NEW i \in 1 .. Len(s), i # 1 PROVE s[i] \in Elements(Tail(s))
      BY <1>1 DEF Elements
    <2>1. i - 1 \in 1 .. (Len(s) - 1) /\ s[i] = Tail(s)[i - 1]
      BY <1>1, <1>2
    <2> QED
      BY <1>1, <2>1, Zenon DEF Elements
  <1>6. {Head(s)} \cup Elements(Tail(s)) \subseteq Elements(s)
    BY <1>1, <1>2 DEF Elements
  <1> QED
    BY <1>1, <1>3, <1>4, <1>5, <1>6

\* The call, without the handler that has run.
LEMMA RestFits ==
  ASSUME IInv, NEW t \in Threads, Running(t), NEW g, g = [Top(t) EXCEPT !.handlers = Tail(@)],
         NEW h, h = Head(Top(t).handlers)
  PROVE  /\ g \in FrameType /\ Fits(g, signal) /\ g.at = "run" /\ h \in Handlers
         /\ h \notin Elements(g.handlers) /\ Elements(Top(t).handlers) = {h} \cup Elements(g.handlers)
  <1>1. ~Idle(t) /\ Top(t).at = "run" /\ Top(t).handlers # <<>>
    BY DEF Running
  <1>2. Top(t) \in FrameType /\ Fits(Top(t), signal)
    BY <1>1, TopApart
  <1>3. Top(t).handlers \in Seq(Handlers) /\ NoRepeats(Top(t).handlers)
    BY <1>2 DEF FrameType, Fits
  <1>4. /\ h \in Handlers /\ Tail(Top(t).handlers) \in Seq(Handlers) /\ NoRepeats(Tail(Top(t).handlers))
        /\ Elements(Top(t).handlers) = {h} \cup Elements(Tail(Top(t).handlers))
        /\ h \notin Elements(Tail(Top(t).handlers))
    BY <1>1, <1>3, HeadAndTail
  <1>5. g \in FrameType /\ g.kind = Top(t).kind /\ g.at = "run" /\ g.sig = Top(t).sig /\ g.handlers = Tail(Top(t).handlers)
    BY <1>1, <1>2, <1>4 DEF FrameType
  <1>6. Fits(g, signal)
    BY <1>1, <1>2, <1>4, <1>5 DEF Fits
  <1> QED
    BY <1>4, <1>5, <1>6

\* A handler returns false.
LEMMA FalseKeeps ==
  ASSUME IInv, NEW t \in Threads, HandlerReturnsFalse(t)
  PROVE  IInv'
  <1>1. PICK g : g = [Top(t) EXCEPT !.handlers = Tail(@)]
    BY Zenon
  <1>2. PICK h : h = Head(Top(t).handlers)
    OBVIOUS
  <1>3. /\ Running(t) /\ ~Idle(t) /\ Top(t).at = "run" /\ frames' = Replace(t, g) /\ finished' = finished \cup {h}
        /\ UNCHANGED <<m_handlers, m_signals, m_mutex, signal, registered, cleared>>
    BY <1>1, <1>2 DEF HandlerReturnsFalse, Rest, Running, ghosts
  <1>4. /\ g \in FrameType /\ Fits(g, signal) /\ g.at = "run" /\ h \in Handlers
        /\ h \notin Elements(g.handlers) /\ Elements(Top(t).handlers) = {h} \cup Elements(g.handlers)
    BY <1>1, <1>2, <1>3, RestFits, Zenon
  <1>5. TypeOK /\ MutexHeld /\ frames \in [Threads -> Seq(FrameType)] /\ m_mutex \in Threads \cup {NoThread}
    BY IInvIs DEF TypeOK
  <1>6. Outside(t)
    BY <1>3, <1>5, RunsOutside
  <1>7. Replaced(t, Len(frames[t]), g)
    BY <1>3, <1>4, <1>5, CallReplaced
  <1>8. OthersStay(t) /\ \A i \in DOMAIN frames'[t] : frames'[t][i].at # "unlock"
    BY <1>4, <1>6, <1>7 DEF Replaced, Outside
  <1>9. MutexHeld'
    BY <1>3, <1>5, <1>6, <1>8, MutexLeft
  <1>10. PICK D \in SUBSET Handlers : D = {h}
    BY <1>4, Zenon
  <1>11. finished' = finished \cup D /\ D \cap Elements(g.handlers) = {}
         /\ Elements(Top(t).handlers) = D \cup Elements(g.handlers)
    BY <1>3, <1>4, <1>10
  <1> QED
    BY <1>3, <1>4, <1>5, <1>9, <1>11, CallKeeps, Zenon

\* A handler returns true: its call goes on without it, and below a call of Register
\* that has it.
LEMMA TrueKeeps ==
  ASSUME IInv, NEW t \in Threads, HandlerReturnsTrue(t)
  PROVE  IInv'
  <1>1. PICK g : g = [Top(t) EXCEPT !.handlers = Tail(@)]
    OBVIOUS
  <1>2. PICK h : h = Head(Top(t).handlers)
    OBVIOUS
  <1>3. PICK f : f = Frame("register", "lock", signal[h], <<h>>)
    OBVIOUS
  <1>4. PICK n : n = Len(frames[t])
    BY Zenon
  <1>5. /\ Running(t) /\ ~Idle(t) /\ Top(t).at = "run" /\ frames' = [frames EXCEPT ![t] = Append(Rest(t)[t], f)]
        /\ UNCHANGED <<m_handlers, m_signals, m_mutex, finished, signal, registered, cleared>>
    BY <1>2, <1>3 DEF HandlerReturnsTrue, Running, ghosts
  <1>6. /\ g \in FrameType /\ Fits(g, signal) /\ g.at = "run" /\ h \in Handlers
        /\ h \notin Elements(g.handlers) /\ Elements(Top(t).handlers) = {h} \cup Elements(g.handlers)
    BY <1>1, <1>2, <1>5, RestFits, Zenon
  <1>7. TypeOK /\ CallsFit /\ MutexHeld /\ OneEach /\ AllKept /\ TablesAgree
    BY IInvIs
  <1>8. frames \in [Threads -> Seq(FrameType)] /\ frames[t] # <<>> /\ signal \in [Handlers -> Signals]
    BY <1>5, <1>7 DEF TypeOK, Idle
  <1>9. f \in FrameType /\ Fits(f, signal) /\ f.at = "lock" /\ Elements(f.handlers) = {h}
    BY <1>3, <1>6, <1>8, RegisterFits, Zenon
  <1>10. Top(t) = frames[t][n]
    BY <1>4 DEF Top
  <1>11. /\ OthersStay(t) /\ n \in Nat \ {0} /\ DOMAIN frames[t] = 1 .. n
         /\ DOMAIN frames'[t] = 1 .. (n + 1) /\ frames'[t][n] = g /\ frames'[t][n + 1] = f
         /\ \A i \in 1 .. n : i # n => frames'[t][i] = frames[t][i]
    <2>1. PICK r : r = [frames[t] EXCEPT ![n] = g]
      BY Zenon
    <2>2. Rest(t)[t] = r /\ frames'[t] = Append(r, f)
      BY <1>1, <1>4, <1>5, <1>8, <2>1 DEF Rest, Replace
    <2>3. /\ r \in Seq(FrameType) /\ n \in Nat \ {0} /\ DOMAIN frames[t] = 1 .. n /\ DOMAIN r = 1 .. n
          /\ r[n] = g /\ \A i \in 1 .. n : i # n => r[i] = frames[t][i]
      BY <1>4, <1>6, <1>8, <2>1, LastReplaced
    <2>4. n = Len(r)
      BY <2>3
    <2>5. /\ frames'[t] \in Seq(FrameType) /\ DOMAIN frames'[t] = 1 .. (n + 1) /\ frames'[t][n + 1] = f
          /\ \A i \in 1 .. n : frames'[t][i] = r[i]
      <3>1. PICK q : q = Append(r, f)
        BY Zenon
      <3>2. f \in FrameType /\ r \in Seq(FrameType)
        BY <1>9, <2>3
      <3>3. /\ q \in Seq(FrameType) /\ n \in Nat /\ DOMAIN r = 1 .. n /\ DOMAIN q = 1 .. (n + 1)
            /\ q[n + 1] = f /\ \A i \in 1 .. n : q[i] = r[i]
        BY <2>4, <3>1, <3>2, LastAdded
      <3> QED
        BY <2>2, <3>1, <3>3
    <2>6. OthersStay(t)
      BY <1>5, <1>8, <2>5 DEF OthersStay
    <2> QED
      BY <2>3, <2>5, <2>6
  <1>12. TypeOK'
    BY <1>5, <1>7, <1>11 DEF TypeOK, OthersStay
  <1>13. CallsFit'
    <2>1. \A u \in Threads : \A i \in DOMAIN frames[u] : Fits(frames[u][i], signal)
      BY <1>7, CallsFitIs
    <2>2. ASSUME NEW u \in Threads, NEW i \in DOMAIN frames'[u] PROVE Fits(frames'[u][i], signal')
      <3>1. CASE u # t
        BY <1>5, <1>11, <2>1, <3>1 DEF OthersStay
      <3>2. CASE u = t /\ i \in {n, n + 1}
        BY <1>5, <1>6, <1>9, <1>11, <3>2
      <3>3. CASE u = t /\ i \notin {n, n + 1}
        <4>1. i \in 1 .. n /\ i # n
          BY <1>11, <3>3
        <4> QED
          BY <1>5, <1>11, <2>1, <3>3, <4>1
      <3> QED
        BY <3>1, <3>2, <3>3
    <2>3. CallsFit' <=> \A u \in Threads : \A i \in DOMAIN frames'[u] : Fits(frames'[u][i], signal')
      BY DEF CallsFit, FrameFits, Fits, NoRepeats
    <2> QED
      BY <2>2, <2>3
  <1>14. MutexHeld'
    <2>1. Outside(t)
      BY <1>5, <1>7, RunsOutside
    <2>2. ASSUME NEW i \in DOMAIN frames'[t] PROVE frames'[t][i].at # "unlock"
      <3>1. CASE i \in {n, n + 1}
        BY <1>6, <1>9, <1>11, <3>1
      <3>2. CASE i \notin {n, n + 1}
        <4>1. i \in 1 .. n /\ i # n
          BY <1>11, <3>2
        <4> QED
          BY <1>11, <2>1, <4>1, Zenon DEF Outside
      <3> QED
        BY <3>1, <3>2
    <2> QED
      BY <1>5, <1>7, <1>11, <2>1, <2>2, MutexLeft
  <1> DEFINE B == Elements(g.handlers)
             V == Elements(m_handlers)
             M == [u \in Threads |-> [i \in Nat |-> IF u = t /\ i = n THEN B ELSE Hold[u][i]]]
  <1>15. n \in Nat /\ n + 1 \in Nat /\ n + 1 # n
    BY <1>11
  <1>16. Hold[t][n] = {h} \cup B /\ Hold[t][n + 1] = {}
    <2>1. n \in DOMAIN frames[t] /\ n + 1 \notin DOMAIN frames[t]
      BY <1>11
    <2> QED
      BY <1>6, <1>10, <1>15, <2>1 DEF Hold
  <1>17. Differs(Hold, M, t, n, B)
    BY DEF Differs
  <1>18. Differs(M, Hold', t, n + 1, {h})
    <2>1. ASSUME NEW u \in Threads, NEW i \in Nat, u # t PROVE Hold'[u][i] = M[u][i]
      BY <1>11, <2>1 DEF Hold, OthersStay
    <2>2. Hold'[t][n + 1] = {h} /\ Hold'[t][n] = B
      BY <1>9, <1>11, <1>15 DEF Hold
    <2>3. ASSUME NEW i \in Nat, i # n, i # n + 1 PROVE Hold'[t][i] = M[t][i]
      <3>1. i \in DOMAIN frames'[t] <=> i \in DOMAIN frames[t]
        BY <1>11, <2>3
      <3>2. i \in DOMAIN frames[t] => frames'[t][i] = frames[t][i]
        BY <1>11, <2>3
      <3> QED
        BY <2>3, <3>1, <3>2 DEF Hold
    <2>4. M[t][n] = B
      BY <1>15
    <2> QED
      BY <2>1, <2>2, <2>3, <2>4, Zenon DEF Differs
  <1>19. M[t][n + 1] = {}
    BY <1>15, <1>16
  <1>20. /\ Apart(Hold, V, finished) /\ Whole(Hold, V, finished, registered)
         /\ V \cap finished = {} /\ ({h} \cup B) \cap (V \cup finished) = {} /\ h \notin B
    BY <1>6, <1>7, <1>15, <1>16 DEF OneEach, AllKept, Apart
  <1> HIDE DEF B, V, M
  <1>21. Apart(M, V, finished \cup {h})
    <2>1. Absent({}, Hold, V, finished)
      BY DEF Absent
    <2>2. V \cap (finished \cup {h}) = {} /\ B \cap (V \cup (finished \cup {h})) = {}
      BY <1>20
    <2>3. B \cup V \cup (finished \cup {h}) \subseteq V \cup finished \cup Hold[t][n] \cup {}
      BY <1>16
    <2>4. SharedOut(Hold, M, t, n, B, V, finished, {}, V, finished \cup {h})
      BY <1>17, <1>20, <2>1, <2>2, <2>3 DEF SharedOut
    <2> QED
      BY <1>15, <2>4, MoveApart
  <1>22. Whole(M, V, finished \cup {h}, registered \cup {})
    <2>1. B \cup V \cup (finished \cup {h}) = V \cup finished \cup Hold[t][n] \cup {}
      BY <1>16
    <2> QED
      BY <1>15, <1>17, <1>20, <2>1, MoveWhole, Zenon
  <1>23. Apart(Hold', V, finished)
    <2>1. Absent({}, M, V, finished \cup {h})
      BY DEF Absent
    <2>2. {h} \cap (V \cup finished) = {}
      BY <1>20
    <2>3. {h} \cup V \cup finished \subseteq V \cup (finished \cup {h}) \cup M[t][n + 1] \cup {}
      OBVIOUS
    <2>4. SharedOut(M, Hold', t, n + 1, {h}, V, finished \cup {h}, {}, V, finished)
      BY <1>18, <1>20, <1>21, <2>1, <2>2, <2>3 DEF SharedOut
    <2> QED
      BY <1>15, <2>4, MoveApart
  <1>24. Whole(Hold', V, finished, (registered \cup {}) \cup {})
    <2>1. {h} \cup V \cup finished = V \cup (finished \cup {h}) \cup M[t][n + 1] \cup {}
      BY <1>19
    <2> QED
      BY <1>15, <1>18, <1>22, <2>1, MoveWhole, Zenon
  <1>25. Whole(Hold', V, finished, registered)
    <2>1. (registered \cup {}) \cup {} = registered
      OBVIOUS
    <2> QED
      BY <1>24, <2>1
  <1>26. OneEach' /\ AllKept'
    BY <1>5, <1>7, <1>23, <1>25 DEF OneEach, AllKept, V
  <1>27. TablesAgree'
    BY <1>5, <1>7 DEF TablesAgree, HandlersSorted, Installed
  <1> QED
    BY <1>12, <1>13, <1>14, <1>26, <1>27, IInvNext

-----------------------------------------------------------------------------
(***************************************************************************)
(* The invariant and the theorems.                                         *)
(***************************************************************************)

LEMMA SignalInit == ASSUME NoThread \notin Threads PROVE Init => IInv
  <1> SUFFICES ASSUME Init PROVE IInv
    OBVIOUS
  <1>1. /\ m_handlers = <<>> /\ m_signals = {} /\ m_mutex = NoThread /\ frames = [t \in Threads |-> <<>>]
        /\ signal \in [Handlers -> Signals] /\ registered = {} /\ finished = {} /\ cleared = {}
    BY DEF Init
  <1>2. TypeOK
    BY <1>1 DEF TypeOK
  <1>3. CallsFit /\ MutexHeld
    BY <1>1 DEF CallsFit, MutexHeld
  <1>4. OnePlace
    BY <1>1 DEF OnePlace, Elements
  <1>5. NoneLost
    BY <1>1 DEF NoneLost, Elements, InHand
  <1>6. TablesAgree
    BY <1>1 DEF TablesAgree, HandlersSorted, Installed
  <1> QED
    BY <1>2, <1>3, <1>4, <1>5, <1>6 DEF IInv

LEMMA SignalNext == ASSUME NoThread \notin Threads PROVE IInv /\ [Next]_vars => IInv'
  <1> SUFFICES ASSUME IInv, [Next]_vars PROVE IInv'
    OBVIOUS
  <1>1. CASE UNCHANGED vars
    <2>1. TypeOK <=> TypeOK'
      BY <1>1, Zenon DEF vars, TypeOK
    <2>2. CallsFit'
      <3>1. frames' = frames /\ signal' = signal
        BY <1>1 DEF vars
      <3>2. SUFFICES ASSUME NEW u \in Threads, NEW k \in DOMAIN frames'[u]
                     PROVE  FrameFits(frames[u][k])'
        BY Zenon DEF CallsFit
      <3>3. FrameFits(frames[u][k])
        BY <3>1, Zenon DEF IInv, CallsFit
      <3>4. frames'[u][k] = frames[u][k]
        BY <3>1, Zenon
      <3> QED
        BY <3>1, <3>3, <3>4, Zenon DEF FrameFits
    <2>3. MutexHeld <=> MutexHeld'
      BY <1>1 DEF vars, MutexHeld
    <2>4. (OnePlace <=> OnePlace') /\ (NoneLost <=> NoneLost') /\ (TablesAgree <=> TablesAgree')
      BY <1>1 DEF vars, OnePlace, NoneLost, InHand, TablesAgree, HandlersSorted, Installed
    <2> QED
      BY <2>1, <2>2, <2>3, <2>4 DEF IInv
  <1>2. ASSUME NEW t \in Threads,
               \/ \E h \in Handlers : RegisterSignal(t, h)
               \/ \E sig \in Signals \cup {NONE} : ClearSignalHandlers(t, sig)
               \/ \E sig \in Signals : RaiseSignal(t, sig)
               \/ \E signum \in m_signals : Receiver(t, signum)
        PROVE  IInv'
    BY <1>2, CallsKeep
  <1>3. ASSUME NEW t \in Threads, Register(t) PROVE IInv'
    BY <1>3, RegisterKeeps
  <1>4. ASSUME NEW t \in Threads, Clear(t) PROVE IInv'
    BY <1>4, ClearKeeps
  <1>5. ASSUME NEW t \in Threads, ReceiveSignal(t) PROVE IInv'
    BY <1>5, ReceiveKeeps
  <1>6. ASSUME NEW t \in Threads, Unlock(t) PROVE IInv'
    BY <1>6, UnlockKeeps
  <1>7. ASSUME NEW t \in Threads, HandlerReturnsFalse(t) PROVE IInv'
    BY <1>7, FalseKeeps
  <1>8. ASSUME NEW t \in Threads, HandlerReturnsTrue(t) PROVE IInv'
    BY <1>8, TrueKeeps
  <1>9. ASSUME NEW t \in Threads, Return(t) PROVE IInv'
    BY <1>9, ReturnKeeps
  <1> QED
    BY <1>1, <1>2, <1>3, <1>4, <1>5, <1>6, <1>7, <1>8, <1>9 DEF Next

\* What the invariant says of the handlers and of the mutex.
LEMMA SignalSafe == ASSUME NoThread \notin Threads PROVE IInv => HandlersKept /\ TablesAgree /\ NoSelfDeadlock
  <1> SUFFICES ASSUME IInv PROVE HandlersKept /\ TablesAgree /\ NoSelfDeadlock
    OBVIOUS
  <1>1. TypeOK /\ CallsFit /\ MutexHeld /\ OnePlace /\ NoneLost /\ TablesAgree
    BY DEF IInv
  <1>2. NoSelfDeadlock
    <2> SUFFICES ASSUME NEW t \in Threads, m_mutex = t, ~Idle(t), Top(t).at = "lock" PROVE Top(t).kind = "deliver"
      BY DEF NoSelfDeadlock
    <2>1. frames[t] \in Seq(FrameType) /\ frames[t] # <<>>
      BY <1>1 DEF TypeOK, Idle
    <2>2. PICK i \in DOMAIN frames[t] : frames[t][i].at = "unlock"
      BY <1>1 DEF MutexHeld
    <2>3. Len(frames[t]) \in DOMAIN frames[t] /\ frames[t][Len(frames[t])].at = "lock" /\ i <= Len(frames[t])
      BY <2>1 DEF Top
    <2>4. Len(frames[t]) > i
      BY <2>1, <2>2, <2>3
    <2> QED
      BY <1>1, <2>2, <2>3, <2>4 DEF MutexHeld, Top
  <1> QED
    BY <1>1, <1>2 DEF HandlersKept

\* A handler that was registered is always in one place, and in one only, until it
\* returns false or is cleared, whatever threads register, clear and raise, and
\* wherever the system interrupts them; the vector is sorted, and the receiver is
\* installed for what is in it (SignalManager::Register, Clear and ReceiveSignal).
THEOREM HandlersAreKept == ASSUME NoThread \notin Threads PROVE Spec => [](TypeOK /\ HandlersKept /\ TablesAgree)
  <1>1. IInv => TypeOK /\ HandlersKept /\ TablesAgree
    BY SignalSafe DEF IInv
  <1> QED
    BY <1>1, SignalInit, SignalNext, PTL DEF Spec

\* No thread waits for m_mutex while it holds it itself but in a delivery that
\* interrupted its critical section.
THEOREM OnlyDeliveriesDeadlock == ASSUME NoThread \notin Threads PROVE Spec => []NoSelfDeadlock
  BY SignalInit, SignalNext, SignalSafe, PTL DEF Spec
=============================================================================
