---------------------------- MODULE ContextProofs ----------------------------
(***************************************************************************)
(* Proofs about Context, for any number of handles, States and threads.    *)
(***************************************************************************)
EXTENDS Context, TLAPS

\* No State is the null pointer, durations are not negative, and time goes on.
Constants == Null \notin States /\ Delays \subseteq Nat /\ MaxTime \in Nat /\ 1 <= MaxTime

\* A call is none, a deadline to be stored or a question, and says which.
LEMMA CallIs ==
  ASSUME IInv, NEW t \in Threads
  PROVE  /\ call[t] = Idle \/ call[t] \in Request \/ call[t] \in Question
         /\ call[t].at = "idle" <=> call[t] = Idle
         /\ call[t].at = "store" <=> call[t] \in Request
         /\ call[t].at \in {"flag", "deadline", "now", "yes", "no"} <=> call[t] \in Question
  <1>1. call[t] = Idle \/ call[t] \in Request \/ call[t] \in Question
    BY DEF IInv
  <1> QED
    BY <1>1 DEF Idle, Request, Question

\* The handle a call uses has a State.
LEMMA HandleIs ==
  ASSUME Constants, IInv, NEW t \in Threads, call[t] # Idle
  PROVE  /\ call[t].ctx \in Contexts /\ InUse(call[t].ctx)
         /\ m_state[call[t].ctx] \in States
  <1>1. call[t].at # "idle"
    BY CallIs
  <1> QED
    BY <1>1 DEF IInv, TypeOK, InUse, Constants

\* What makes up the invariant after a step.
LEMMA IInvNext ==
  ASSUME m_state' \in [Contexts -> States \cup {Null}],
         flag' \in [States -> BOOLEAN], deadline' \in [States -> 0 .. MaxTime], clock' \in 1 .. MaxTime,
         call' \in [Threads -> {Idle} \cup Request \cup Question],
         \A t \in Threads : call'[t] # Idle => m_state'[call'[t].ctx] # Null,
         StatesShared', \A t \in Threads : AnswerHolds(call[t])'
  PROVE  IInv'
  <1>1. ASSUME NEW t \in Threads, call'[t].at # "idle"
        PROVE  call'[t].ctx \in Contexts /\ m_state'[call'[t].ctx] # Null
    <2>1. call'[t] # Idle /\ (call'[t] \in Request \/ call'[t] \in Question)
      BY <1>1 DEF Idle
    <2> QED
      BY <2>1 DEF Request, Question
  <1>2. TypeOK'
    BY <1>1 DEF TypeOK, StatesShared
  <1> QED
    BY <1>2 DEF IInv

-----------------------------------------------------------------------------
(***************************************************************************)
(* Handles.                                                                *)
(***************************************************************************)

\* What a State that is held has is kept, and another gets the value it is made with.
LEMMA ResetType ==
  ASSUME NEW V, NEW f \in [States -> V], NEW holders, NEW value \in V
  PROVE  Reset(f, holders, value) \in [States -> V]
  <1>1. ASSUME NEW s \in States
        PROVE  (IF \E c \in Contexts : holders[c] = s THEN f[s] ELSE value) \in V
    BY Zenon
  <1> QED
    BY <1>1 DEF Reset

LEMMA ResetHeld ==
  ASSUME NEW f, NEW holders, NEW value, NEW c \in Contexts, holders[c] \in States
  PROVE  Reset(f, holders, value)[holders[c]] = f[holders[c]]
  BY DEF Reset

\* Handles that change hands leave those that are in use alone, and the States
\* these have: the questions under way find what they would have found.  A call
\* that begins with the step is a deadline to be stored.
LEMMA HandlesKeep ==
  ASSUME Constants, IInv,
         NEW states \in [Contexts -> States \cup {Null}], Become(states, states),
         \A c \in Contexts : InUse(c) => states[c] = m_state[c],
         UNCHANGED clock,
         call' \in [Threads -> {Idle} \cup Request \cup Question],
         \A t \in Threads : call'[t] = call[t] \/ (call'[t] \in Request /\ states[call'[t].ctx] # Null)
  PROVE  IInv'
  <1>1. /\ m_state' = states /\ kin' = states
        /\ flag' = Reset(flag, states, FALSE) /\ cancelled' = Reset(cancelled, states, FALSE)
        /\ deadline' = Reset(deadline, states, 0) /\ limit' = Reset(limit, states, 0)
    BY DEF Become
  <1>2. /\ flag \in [States -> BOOLEAN] /\ deadline \in [States -> 0 .. MaxTime]
        /\ clock \in 1 .. MaxTime /\ cancelled = flag /\ limit = deadline
    BY DEF IInv, TypeOK, StatesShared
  <1>3. flag' \in [States -> BOOLEAN] /\ deadline' \in [States -> 0 .. MaxTime]
    <2>1. 0 \in 0 .. MaxTime
      BY DEF Constants
    <2> QED
      BY <1>1, <1>2, <2>1, ResetType
  <1>4. StatesShared'
    BY <1>1, <1>2 DEF StatesShared
  <1>5. ASSUME NEW t \in Threads, call[t] # Idle
        PROVE  /\ m_state'[call[t].ctx] = m_state[call[t].ctx] /\ m_state'[call[t].ctx] # Null
               /\ flag'[m_state[call[t].ctx]] = flag[m_state[call[t].ctx]]
               /\ deadline'[m_state[call[t].ctx]] = deadline[m_state[call[t].ctx]]
    <2>1. call[t].ctx \in Contexts /\ m_state[call[t].ctx] \in States /\ states[call[t].ctx] = m_state[call[t].ctx]
      BY <1>5, HandleIs
    <2>2. 0 \in 0 .. MaxTime /\ Null \notin States
      BY DEF Constants
    <2>3. PICK c \in Contexts : c = call[t].ctx
      BY <2>1
    <2>4. states[c] \in States /\ states[c] = m_state[c]
      BY <2>1, <2>3
    <2>5. Reset(flag, states, FALSE)[states[c]] = flag[states[c]]
      BY <2>4 DEF Reset
    <2>6. Reset(deadline, states, 0)[states[c]] = deadline[states[c]]
      BY <2>4, ResetHeld
    <2> QED
      BY <1>1, <2>2, <2>3, <2>4, <2>5, <2>6
  <1>6. ASSUME NEW t \in Threads PROVE AnswerHolds(call[t])'
    <2>1. CASE call'[t] \in Request
      BY <2>1 DEF AnswerHolds, Request
    <2>2. CASE call'[t] = call[t] /\ call[t] = Idle
      BY <2>2 DEF AnswerHolds, Idle
    <2>3. CASE call'[t] = call[t] /\ call[t] # Idle
      <3>1. AnswerHolds(call[t])
        BY DEF IInv
      <3>2. PICK q : q = call[t]
        OBVIOUS
      <3>3. call'[t] = q /\ AnswerHolds(q)
        BY <2>3, <3>1, <3>2
      <3>4. /\ m_state'[q.ctx] = m_state[q.ctx] /\ UNCHANGED clock
            /\ flag'[m_state[q.ctx]] = flag[m_state[q.ctx]]
            /\ deadline'[m_state[q.ctx]] = deadline[m_state[q.ctx]]
        BY <1>5, <2>3, <3>2
      <3> QED
        BY <3>3, <3>4 DEF AnswerHolds, Passed
    <2> QED
      BY <2>1, <2>2, <2>3
  <1>7. \A t \in Threads : call'[t] # Idle => m_state'[call'[t].ctx] # Null
    <2>1. ASSUME NEW t \in Threads, call'[t] # Idle PROVE m_state'[call'[t].ctx] # Null
      <3>1. CASE call'[t] = call[t]
        BY <1>5, <2>1, <3>1
      <3>2. CASE call'[t] \in Request /\ states[call'[t].ctx] # Null
        BY <1>1, <3>2
      <3> QED
        BY <3>1, <3>2
    <2> QED
      BY <2>1
  <1> QED
    BY <1>1, <1>2, <1>3, <1>4, <1>6, <1>7, IInvNext

-----------------------------------------------------------------------------
(***************************************************************************)
(* Requests.                                                               *)
(***************************************************************************)

\* The earlier of two deadlines is one of them, and no later than either.
LEMMA EarlierIs ==
  ASSUME NEW a \in Nat, NEW b \in Nat
  PROVE  /\ Earlier(a, b) \in {a, b}
         /\ a # 0 => Earlier(a, b) # 0 /\ Earlier(a, b) <= a
         /\ b # 0 => Earlier(a, b) # 0 /\ Earlier(a, b) <= b
  BY DEF Earlier

\* A cancellation is seen by every question that has not loaded the flag yet.
LEMMA CancelKeeps ==
  ASSUME Constants, IInv, NEW c \in Contexts, Cancel(c)
  PROVE  IInv'
  <1>1. /\ m_state[c] \in States /\ kin = m_state /\ cancelled = flag
        /\ flag' = [flag EXCEPT ![m_state[c]] = TRUE]
        /\ cancelled' = [cancelled EXCEPT ![kin[c]] = TRUE]
        /\ UNCHANGED <<m_state, deadline, clock, call, kin, limit>>
    BY DEF Cancel, IInv, TypeOK, StatesShared
  <1>2. flag' \in [States -> BOOLEAN] /\ \A s \in States : flag[s] => flag'[s]
    BY <1>1 DEF IInv, TypeOK
  <1>3. StatesShared'
    BY <1>1 DEF StatesShared, IInv
  <1>4. ASSUME NEW t \in Threads PROVE AnswerHolds(call[t])'
    <2>1. AnswerHolds(call[t])
      BY DEF IInv
    <2>2. CASE call[t] = Idle
      BY <1>1, <2>2 DEF AnswerHolds, Idle
    <2>3. CASE call[t] # Idle
      <3>1. m_state[call[t].ctx] \in States
        BY <2>3, HandleIs
      <3> QED
        BY <1>1, <1>2, <2>1, <3>1 DEF AnswerHolds, Passed
    <2> QED
      BY <2>2, <2>3
  <1>5. TypeOK' /\ call' \in [Threads -> {Idle} \cup Request \cup Question]
    BY <1>1, <1>2, <1>3 DEF IInv, TypeOK, StatesShared
  <1> QED
    BY <1>3, <1>4, <1>5 DEF IInv

\* A deadline that is stored: every question under way has seen it or the one
\* before it, and knows the earlier of the two.  The thread that stores it is done.
LEMMA StoreKeeps ==
  ASSUME Constants, IInv, NEW c \in Contexts, m_state[c] # Null, NEW at \in 0 .. MaxTime,
         NEW calls \in [Threads -> {Idle} \cup Request \cup Question], Store(c, at, calls),
         \A t \in Threads : calls[t] = call[t] \/ (calls[t] = Idle /\ ~Inside(t))
  PROVE  IInv'
  <1>1. /\ m_state[c] \in States /\ kin = m_state /\ limit = deadline
        /\ deadline' = [deadline EXCEPT ![m_state[c]] = at]
        /\ limit' = [limit EXCEPT ![kin[c]] = at]
        /\ call' = Witness(c, at, calls)
        /\ UNCHANGED <<m_state, flag, clock, kin, cancelled>>
    BY DEF Store, IInv, TypeOK, StatesShared
  <1>2. /\ m_state \in [Contexts -> States \cup {Null}] /\ flag \in [States -> BOOLEAN]
        /\ deadline \in [States -> 0 .. MaxTime] /\ clock \in 1 .. MaxTime
    BY DEF IInv, TypeOK
  <1>3. deadline' \in [States -> 0 .. MaxTime]
    BY <1>1, <1>2
  <1>4. StatesShared'
    BY <1>1 DEF StatesShared, IInv
  <1>5. ASSUME NEW t \in Threads
        PROVE  /\ call'[t] \in {Idle} \cup Request \cup Question
               /\ call'[t] # Idle => m_state[call'[t].ctx] # Null
               /\ AnswerHolds(call[t])'
    <2>1. CASE Inside(t) /\ kin[call[t].ctx] = kin[c]
      <3>1. PICK q \in Question : q = call[t]
        BY <2>1, CallIs DEF Inside
      <3>2. /\ q.at \in {"flag", "deadline", "now"} /\ q.ctx \in Contexts
            /\ q.value \in 0 .. MaxTime /\ q.first \in 0 .. MaxTime /\ q.told \in BOOLEAN
        BY <2>1, <3>1 DEF Inside, Question
      <3>3. calls[t] = q
        BY <2>1, <3>1
      <3>4. PICK r : r = [q EXCEPT !.first = Earlier(@, at), !.due = FALSE]
        OBVIOUS
      <3>5. call'[t] = r
        BY <1>1, <2>1, <3>3, <3>4 DEF Witness
      <3>6. /\ Earlier(q.first, at) \in {q.first, at}
            /\ q.first # 0 => Earlier(q.first, at) # 0 /\ Earlier(q.first, at) <= q.first
            /\ at # 0 => Earlier(q.first, at) # 0 /\ Earlier(q.first, at) <= at
        BY <3>2, EarlierIs DEF Constants
      <3>7. /\ r \in Question /\ r.at = q.at /\ r.ctx = q.ctx /\ r.value = q.value /\ r.told = q.told
            /\ ~r.due /\ r.first = Earlier(q.first, at)
        BY <3>2, <3>4, <3>6 DEF Question
      <3>8. m_state[q.ctx] = m_state[c] /\ m_state[q.ctx] \in States /\ m_state[q.ctx] # Null
        BY <1>1, <2>1, <3>1 DEF Constants
      <3>9. deadline'[m_state[q.ctx]] = at
        BY <1>1, <1>2, <3>8
      <3>10. AnswerHolds(q)
        BY <3>1 DEF IInv
      <3>11. AnswerHolds(r)'
        BY <1>1, <3>2, <3>6, <3>7, <3>8, <3>9, <3>10 DEF AnswerHolds, Constants
      <3> QED
        BY <3>5, <3>7, <3>8, <3>11
    <2>2. CASE ~(Inside(t) /\ kin[call[t].ctx] = kin[c]) /\ calls[t] = Idle
      <3>1. call'[t] = Idle
        BY <1>1, <2>2 DEF Witness
      <3> QED
        BY <3>1 DEF AnswerHolds, Idle
    <2>3. CASE ~(Inside(t) /\ kin[call[t].ctx] = kin[c]) /\ calls[t] # Idle
      <3>1. PICK q : q = call[t]
        OBVIOUS
      <3>2. call'[t] = q /\ q # Idle /\ AnswerHolds(q) /\ q \in {Idle} \cup Request \cup Question
        BY <1>1, <2>3, <3>1 DEF Witness, IInv
      <3>3. m_state[q.ctx] \in States /\ m_state[q.ctx] # Null
        BY <3>1, <3>2, HandleIs DEF Constants
      <3>4. q.at \in {"flag", "deadline"} => deadline'[m_state[q.ctx]] = deadline[m_state[q.ctx]]
        BY <1>1, <1>2, <2>3, <3>1, <3>3 DEF Inside
      <3>5. AnswerHolds(q)'
        BY <1>1, <3>2, <3>4 DEF AnswerHolds, Passed
      <3> QED
        BY <3>2, <3>3, <3>5
    <2> QED
      BY <2>1, <2>2, <2>3
  <1>6. call' \in [Threads -> {Idle} \cup Request \cup Question]
    BY <1>1, <1>5 DEF Witness
  <1> QED
    BY <1>1, <1>2, <1>3, <1>4, <1>5, <1>6, IInvNext

-----------------------------------------------------------------------------
(***************************************************************************)
(* Questions.                                                              *)
(***************************************************************************)

\* A step of one call changes nothing that the other calls depend on.
LEMMA OneCall ==
  ASSUME Constants, IInv, NEW t \in Threads, NEW q \in {Idle} \cup Request \cup Question,
         q # Idle => m_state[q.ctx] # Null, AnswerHolds(q),
         call' = [call EXCEPT ![t] = q],
         UNCHANGED <<m_state, flag, deadline, clock, kin, cancelled, limit>>
  PROVE  IInv'
  <1>1. /\ m_state \in [Contexts -> States \cup {Null}] /\ flag \in [States -> BOOLEAN]
        /\ deadline \in [States -> 0 .. MaxTime] /\ clock \in 1 .. MaxTime
        /\ call \in [Threads -> {Idle} \cup Request \cup Question]
    BY DEF IInv, TypeOK
  <1>2. StatesShared'
    BY DEF StatesShared, IInv
  <1>3. ASSUME NEW u \in Threads
        PROVE  /\ call'[u] # Idle => m_state'[call'[u].ctx] # Null
               /\ AnswerHolds(call[u])'
    <2>1. PICK r : r = call'[u]
      OBVIOUS
    <2>2. r = q \/ r = call[u]
      BY <1>1, <2>1
    <2>3. AnswerHolds(r) /\ (r # Idle => m_state[r.ctx] # Null)
      BY <2>2, HandleIs DEF IInv, Constants
    <2>4. AnswerHolds(r)'
      BY <2>3 DEF AnswerHolds, Passed
    <2> QED
      BY <2>1, <2>3, <2>4
  <1>4. call' \in [Threads -> {Idle} \cup Request \cup Question]
    BY <1>1
  <1> QED
    BY <1>1, <1>2, <1>3, <1>4, IInvNext

\* IsCancelled, the load of the flag, the load of the deadline, the look at the
\* clock and the answer.
LEMMA AskKeeps ==
  ASSUME Constants, IInv, NEW t \in Threads, NEW c \in Contexts, IsCancelled(t, c)
  PROVE  IInv'
  <1> DEFINE s == m_state[c]
             q == [at |-> "flag", ctx |-> c, value |-> 0, told |-> cancelled[kin[c]],
                   due |-> Passed(limit[kin[c]]), first |-> limit[kin[c]]]
  <1>1. /\ s \in States /\ s # Null /\ kin[c] = s /\ cancelled[s] = flag[s] /\ limit[s] = deadline[s]
        /\ flag[s] \in BOOLEAN /\ deadline[s] \in 0 .. MaxTime
        /\ call' = [call EXCEPT ![t] = q]
        /\ UNCHANGED <<m_state, flag, deadline, clock, kin, cancelled, limit>>
    BY DEF IsCancelled, IInv, TypeOK, StatesShared
  <1>2. Passed(deadline[s]) \in BOOLEAN /\ 0 \in 0 .. MaxTime
    BY DEF Passed, Constants
  <1>3. q \in Question
    BY <1>1, <1>2 DEF Question
  <1>4. AnswerHolds(q)
    BY <1>1 DEF AnswerHolds
  <1>5. q # Idle => m_state[q.ctx] # Null
    BY <1>1
  <1> HIDE DEF q
  <1> QED
    BY <1>1, <1>3, <1>4, <1>5, OneCall

LEMMA QuestionKeeps ==
  ASSUME Constants, IInv, NEW t \in Threads, LoadFlag(t) \/ LoadDeadline(t) \/ Compare(t)
  PROVE  IInv'
  <1>1. call[t].at \in {"flag", "deadline", "now"}
    BY DEF LoadFlag, LoadDeadline, Compare
  <1>2. PICK q \in Question : q = call[t]
    BY <1>1, CallIs
  <1>3. AnswerHolds(q) /\ call \in [Threads -> {Idle} \cup Request \cup Question]
    BY <1>2 DEF IInv
  <1>4. /\ m_state[q.ctx] \in States /\ m_state[q.ctx] # Null
        /\ deadline[m_state[q.ctx]] \in 0 .. MaxTime /\ clock \in 1 .. MaxTime
    BY <1>1, <1>2, HandleIs DEF Constants, IInv, TypeOK, Idle
  <1>5. ASSUME NEW a \in {"deadline", "now", "yes", "no"}, NEW v \in 0 .. MaxTime,
               Step(t, a, v), AnswerHolds([q EXCEPT !.at = a, !.value = v])
        PROVE  IInv'
    <2>1. PICK r : r = [q EXCEPT !.at = a, !.value = v]
      OBVIOUS
    <2>2. r \in Question /\ r.ctx = q.ctx
      BY <2>1 DEF Question
    <2>3. /\ call' = [call EXCEPT ![t] = r]
          /\ UNCHANGED <<m_state, flag, deadline, clock, kin, cancelled, limit>>
      BY <1>2, <1>3, <1>5, <2>1 DEF Step
    <2>4. AnswerHolds(r) /\ m_state[r.ctx] # Null
      BY <1>4, <1>5, <2>1, <2>2
    <2> QED
      BY <2>2, <2>3, <2>4, OneCall
  <1>6. 0 \in 0 .. MaxTime
    BY DEF Constants
  <1>7. CASE LoadFlag(t)
    <2>1. q.at = "flag"
      BY <1>2, <1>7 DEF LoadFlag
    <2>2. CASE flag[m_state[q.ctx]]
      <3>1. Step(t, "yes", 0)
        BY <1>2, <1>7, <2>2 DEF LoadFlag
      <3>2. AnswerHolds([q EXCEPT !.at = "yes", !.value = 0])
        BY <2>2 DEF AnswerHolds, Question
      <3> QED
        BY <1>5, <1>6, <3>1, <3>2
    <2>3. CASE ~flag[m_state[q.ctx]]
      <3>1. Step(t, "deadline", 0)
        BY <1>2, <1>7, <2>3 DEF LoadFlag
      <3>2. AnswerHolds([q EXCEPT !.at = "deadline", !.value = 0])
        BY <1>3, <2>1, <2>3 DEF AnswerHolds, Question
      <3> QED
        BY <1>5, <1>6, <3>1, <3>2
    <2> QED
      BY <2>2, <2>3
  <1>8. CASE LoadDeadline(t)
    <2> DEFINE at == deadline[m_state[q.ctx]]
    <2>1. q.at = "deadline"
      BY <1>2, <1>8 DEF LoadDeadline
    <2>2. CASE at # 0
      <3>1. Step(t, "now", at)
        BY <1>2, <1>8, <2>2 DEF LoadDeadline
      <3>2. AnswerHolds([q EXCEPT !.at = "now", !.value = at])
        BY <1>3, <2>1, <2>2 DEF AnswerHolds, Question
      <3> QED
        BY <1>4, <1>5, <3>1, <3>2
    <2>3. CASE at = 0
      <3>1. Step(t, "no", 0)
        BY <1>2, <1>8, <2>3 DEF LoadDeadline
      <3>2. AnswerHolds([q EXCEPT !.at = "no", !.value = 0])
        BY <1>3, <2>1, <2>3 DEF AnswerHolds, Question, Passed
      <3> QED
        BY <1>5, <1>6, <3>1, <3>2
    <2> QED
      BY <2>2, <2>3
  <1>9. CASE Compare(t)
    <2>1. q.at = "now" /\ q.value \in 0 .. MaxTime /\ q.first \in 0 .. MaxTime
      BY <1>2, <1>9 DEF Compare, Question
    <2>2. CASE clock >= q.value
      <3>1. Step(t, "yes", 0)
        BY <1>2, <1>9, <2>2 DEF Compare
      <3>2. AnswerHolds([q EXCEPT !.at = "yes", !.value = 0])
        BY <1>3, <1>4, <2>1, <2>2 DEF AnswerHolds, Question, Passed, Constants
      <3> QED
        BY <1>5, <1>6, <3>1, <3>2
    <2>3. CASE ~(clock >= q.value)
      <3>1. Step(t, "no", 0)
        BY <1>2, <1>9, <2>3 DEF Compare
      <3>2. AnswerHolds([q EXCEPT !.at = "no", !.value = 0])
        BY <1>3, <2>1, <2>3 DEF AnswerHolds, Question, Passed
      <3> QED
        BY <1>5, <1>6, <3>1, <3>2
    <2> QED
      BY <2>2, <2>3
  <1> QED
    BY <1>7, <1>8, <1>9

-----------------------------------------------------------------------------
(***************************************************************************)
(* Every step.                                                             *)
(***************************************************************************)

\* The constructor without arguments, and with a duration.
LEMMA ConstructKeeps ==
  ASSUME Constants, IInv, NEW c \in Contexts, Fresh(c), UNCHANGED clock,
         \/ UNCHANGED call
         \/ \E t \in Threads, v \in 0 .. MaxTime :
               call' = [call EXCEPT ![t] = [at |-> "store", ctx |-> c, value |-> v]]
  PROVE  IInv'
  <1>1. PICK s \in States : Become([m_state EXCEPT ![c] = s], [kin EXCEPT ![c] = s])
    BY DEF Fresh
  <1>2. /\ m_state \in [Contexts -> States \cup {Null}] /\ kin = m_state /\ m_state[c] = Null
        /\ call \in [Threads -> {Idle} \cup Request \cup Question]
    BY DEF Fresh, IInv, TypeOK, StatesShared
  <1>3. PICK states : states = [m_state EXCEPT ![c] = s]
    OBVIOUS
  <1>4. Become(states, states) /\ states \in [Contexts -> States \cup {Null}] /\ states[c] # Null
    BY <1>1, <1>2, <1>3 DEF Constants
  <1>5. \A d \in Contexts : InUse(d) => states[d] = m_state[d]
    <2>1. ~InUse(c)
      BY <1>2 DEF InUse, IInv, TypeOK
    <2> QED
      BY <1>2, <1>3, <2>1
  <1>6. CASE UNCHANGED call
    BY <1>2, <1>4, <1>5, <1>6, HandlesKeep
  <1>7. CASE \E t \in Threads, v \in 0 .. MaxTime :
                call' = [call EXCEPT ![t] = [at |-> "store", ctx |-> c, value |-> v]]
    <2>1. PICK t \in Threads, v \in 0 .. MaxTime :
             call' = [call EXCEPT ![t] = [at |-> "store", ctx |-> c, value |-> v]]
      BY <1>7
    <2>2. PICK q : q = [at |-> "store", ctx |-> c, value |-> v]
      OBVIOUS
    <2>3. q \in Request /\ q.ctx = c
      BY <2>2 DEF Request
    <2>4. /\ call' \in [Threads -> {Idle} \cup Request \cup Question]
          /\ \A u \in Threads : call'[u] = call[u] \/ (call'[u] \in Request /\ states[call'[u].ctx] # Null)
      BY <1>2, <1>4, <2>1, <2>2, <2>3
    <2> QED
      BY <1>4, <1>5, <2>4, HandlesKeep
  <1> QED
    BY <1>6, <1>7

\* Copies, moves and the destructor.
LEMMA HandOver ==
  ASSUME Constants, IInv, NEW c \in Contexts, NEW ctx \in Contexts,
         \/ CopyConstruct(c, ctx) \/ MoveConstruct(c, ctx)
         \/ CopyAssign(c, ctx) \/ MoveAssign(c, ctx) \/ Destroy(c)
  PROVE  IInv'
  <1>1. /\ m_state \in [Contexts -> States \cup {Null}] /\ kin = m_state
        /\ call \in [Threads -> {Idle} \cup Request \cup Question]
    BY DEF IInv, TypeOK, StatesShared
  <1>2. m_state[c] = Null => ~InUse(c)
    BY DEF InUse, IInv, TypeOK
  <1>3. ASSUME NEW states \in [Contexts -> States \cup {Null}], Become(states, states),
               \A d \in Contexts : InUse(d) => states[d] = m_state[d], UNCHANGED <<clock, call>>
        PROVE  IInv'
    BY <1>1, <1>3, HandlesKeep
  <1>4. CASE CopyConstruct(c, ctx)
    <2> DEFINE states == [m_state EXCEPT ![c] = m_state[ctx]]
    <2>1. Become(states, states) /\ UNCHANGED <<clock, call>> /\ ~InUse(c)
      BY <1>1, <1>2, <1>4 DEF CopyConstruct
    <2>2. /\ states \in [Contexts -> States \cup {Null}]
          /\ \A d \in Contexts : InUse(d) => states[d] = m_state[d]
      BY <1>1, <2>1
    <2> HIDE DEF states
    <2> QED
      BY <1>3, <2>1, <2>2
  <1>5. CASE MoveConstruct(c, ctx)
    <2> DEFINE states == [m_state EXCEPT ![c] = m_state[ctx], ![ctx] = Null]
    <2>1. Become(states, states) /\ UNCHANGED <<clock, call>> /\ ~InUse(c) /\ ~InUse(ctx)
      BY <1>1, <1>2, <1>5 DEF MoveConstruct
    <2>2. /\ states \in [Contexts -> States \cup {Null}]
          /\ \A d \in Contexts : InUse(d) => states[d] = m_state[d]
      BY <1>1, <2>1
    <2> HIDE DEF states
    <2> QED
      BY <1>3, <2>1, <2>2
  <1>6. CASE CopyAssign(c, ctx)
    <2> DEFINE states == [m_state EXCEPT ![c] = m_state[ctx]]
    <2>1. (IF m_state[c] # m_state[ctx] THEN [m_state EXCEPT ![c] = m_state[ctx]] ELSE m_state) = states
      BY <1>1
    <2>2. Become(states, states) /\ UNCHANGED <<clock, call>> /\ ~InUse(c)
      BY <1>1, <1>6, <2>1 DEF CopyAssign
    <2>3. /\ states \in [Contexts -> States \cup {Null}]
          /\ \A d \in Contexts : InUse(d) => states[d] = m_state[d]
      BY <1>1, <2>2
    <2> HIDE DEF states
    <2> QED
      BY <1>3, <2>2, <2>3
  <1>7. CASE MoveAssign(c, ctx) /\ m_state[c] # m_state[ctx]
    <2> DEFINE states == [m_state EXCEPT ![c] = m_state[ctx], ![ctx] = Null]
    <2>1. Become(states, states) /\ UNCHANGED <<clock, call>> /\ ~InUse(c) /\ ~InUse(ctx)
      BY <1>1, <1>7 DEF MoveAssign
    <2>2. /\ states \in [Contexts -> States \cup {Null}]
          /\ \A d \in Contexts : InUse(d) => states[d] = m_state[d]
      BY <1>1, <2>1
    <2> HIDE DEF states
    <2> QED
      BY <1>3, <2>1, <2>2
  <1>8. CASE MoveAssign(c, ctx) /\ m_state[c] = m_state[ctx]
    <2>1. Become(m_state, [m_state EXCEPT ![c] = m_state[ctx]]) /\ UNCHANGED <<clock, call>>
      BY <1>1, <1>8 DEF MoveAssign
    <2>2. [m_state EXCEPT ![c] = m_state[ctx]] = m_state
      BY <1>1, <1>8
    <2> QED
      BY <1>1, <1>3, <2>1, <2>2
  <1>9. CASE Destroy(c)
    <2> DEFINE states == [m_state EXCEPT ![c] = Null]
    <2>1. Become(states, states) /\ UNCHANGED <<clock, call>> /\ ~InUse(c)
      BY <1>1, <1>9 DEF Destroy
    <2>2. /\ states \in [Contexts -> States \cup {Null}]
          /\ \A d \in Contexts : InUse(d) => states[d] = m_state[d]
      BY <1>1, <2>1
    <2> HIDE DEF states
    <2> QED
      BY <1>3, <2>1, <2>2
  <1> QED
    BY <1>4, <1>5, <1>6, <1>7, <1>8, <1>9

\* CancelAt, ReleaseDeadline and the two halves of CancelAfter.
LEMMA DeadlineKeeps ==
  ASSUME Constants, IInv, NEW c \in Contexts,
         ReleaseDeadline(c) \/ \E at \in 0 .. MaxTime : CancelAt(c, at)
  PROVE  IInv'
  <1>1. PICK at \in 0 .. MaxTime : m_state[c] # Null /\ Store(c, at, call)
    BY DEF ReleaseDeadline, CancelAt, Constants
  <1>2. call \in [Threads -> {Idle} \cup Request \cup Question]
    BY DEF IInv
  <1> QED
    BY <1>1, <1>2, StoreKeeps

LEMMA StoreAfterKeeps ==
  ASSUME Constants, IInv, NEW t \in Threads, StoreAfter(t)
  PROVE  IInv'
  <1>1. call[t] \in Request /\ call[t].at = "store" /\ call[t] # Idle
    BY CallIs DEF StoreAfter, Idle
  <1>2. call[t].ctx \in Contexts /\ call[t].value \in 0 .. MaxTime /\ m_state[call[t].ctx] # Null
    BY <1>1, HandleIs DEF Request, Constants
  <1>3. PICK calls : calls = [call EXCEPT ![t] = Idle]
    OBVIOUS
  <1>4. Store(call[t].ctx, call[t].value, calls)
    BY <1>3 DEF StoreAfter
  <1>5. /\ calls \in [Threads -> {Idle} \cup Request \cup Question]
        /\ \A u \in Threads : calls[u] = call[u] \/ (calls[u] = Idle /\ ~Inside(u))
    BY <1>1, <1>3 DEF IInv, Inside
  <1> QED
    BY <1>2, <1>4, <1>5, StoreKeeps

LEMMA AfterKeeps ==
  ASSUME Constants, IInv, NEW t \in Threads, NEW c \in Contexts, NEW delay \in Delays,
         CancelAfter(t, c, delay) \/ ConstructAfter(t, c, delay)
  PROVE  IInv'
  <1>1. clock + delay \in 0 .. MaxTime
    BY DEF CancelAfter, ConstructAfter, Constants, IInv, TypeOK
  <1>2. CASE ConstructAfter(t, c, delay)
    BY <1>1, <1>2, ConstructKeeps DEF ConstructAfter
  <1>3. CASE CancelAfter(t, c, delay)
    <2>1. PICK q : q = [at |-> "store", ctx |-> c, value |-> clock + delay]
      OBVIOUS
    <2>2. q \in Request /\ q.ctx = c /\ q.at = "store"
      BY <1>1, <2>1 DEF Request
    <2>3. AnswerHolds(q)
      BY <2>2 DEF AnswerHolds
    <2>4. /\ m_state[c] # Null /\ call' = [call EXCEPT ![t] = q]
          /\ UNCHANGED <<m_state, flag, deadline, clock, kin, cancelled, limit>>
      BY <1>3, <2>1 DEF CancelAfter
    <2> QED
      BY <2>2, <2>3, <2>4, OneCall
  <1> QED
    BY <1>2, <1>3

LEMMA ReturnKeeps ==
  ASSUME Constants, IInv, NEW t \in Threads, Return(t)
  PROVE  IInv'
  <1>1. /\ call' = [call EXCEPT ![t] = Idle]
        /\ UNCHANGED <<m_state, flag, deadline, clock, kin, cancelled, limit>>
    BY DEF Return
  <1>2. AnswerHolds(Idle)
    BY DEF AnswerHolds, Idle
  <1> QED
    BY <1>1, <1>2, OneCall

\* A deadline that has passed stays so.
LEMMA TickKeeps ==
  ASSUME Constants, IInv, Tick
  PROVE  IInv'
  <1>1. /\ clock \in 1 .. MaxTime /\ clock' = clock + 1 /\ clock' \in 1 .. MaxTime
        /\ UNCHANGED <<m_state, flag, deadline, call, kin, cancelled, limit>>
    BY DEF Tick, Constants, IInv, TypeOK
  <1>2. TypeOK' /\ call' \in [Threads -> {Idle} \cup Request \cup Question] /\ StatesShared'
    BY <1>1 DEF IInv, TypeOK, StatesShared
  <1>3. ASSUME NEW t \in Threads PROVE AnswerHolds(call[t])'
    <2>1. AnswerHolds(call[t])
      BY DEF IInv
    <2>2. \A at \in 0 .. MaxTime : Passed(at) => Passed(at)'
      BY <1>1 DEF Passed, Constants
    <2>3. CASE call[t] \in Question
      <3>1. PICK q \in Question : q = call[t]
        BY <2>3
      <3>2. q.value \in 0 .. MaxTime /\ q.first \in 0 .. MaxTime
        BY DEF Question
      <3>3. deadline[m_state[q.ctx]] \in 0 .. MaxTime
        BY <2>3, <3>1, HandleIs DEF IInv, TypeOK, Idle, Question
      <3>4. AnswerHolds(q)'
        BY <1>1, <2>1, <2>2, <3>1, <3>2, <3>3 DEF AnswerHolds
      <3> QED
        BY <1>1, <3>1, <3>4
    <2>4. CASE call[t] \in Request \/ call[t] = Idle
      BY <1>1, <2>4 DEF AnswerHolds, Request, Idle
    <2> QED
      BY <2>3, <2>4, CallIs
  <1> QED
    BY <1>2, <1>3 DEF IInv

LEMMA InitIInv == ASSUME Constants, Init PROVE IInv
  <1>1. /\ m_state = [c \in Contexts |-> Null] /\ kin = m_state
        /\ flag = [s \in States |-> FALSE] /\ cancelled = flag
        /\ deadline = [s \in States |-> 0] /\ limit = deadline
        /\ clock = 1 /\ call = [t \in Threads |-> Idle]
    BY DEF Init
  <1>2. 0 \in 0 .. MaxTime /\ 1 \in 1 .. MaxTime
    BY DEF Constants
  <1>3. \A t \in Threads : AnswerHolds(call[t])
    <2>1. AnswerHolds(Idle)
      BY DEF AnswerHolds, Idle
    <2> QED
      BY <1>1, <2>1
  <1>4. TypeOK
    BY <1>1, <1>2 DEF TypeOK, Idle
  <1> QED
    BY <1>1, <1>3, <1>4 DEF IInv, StatesShared

LEMMA NextIInv == ASSUME Constants, IInv, [Next]_vars PROVE IInv'
  <1>1. CASE Tick
    BY <1>1, TickKeeps
  <1>2. ASSUME NEW c \in Contexts, Construct(c) PROVE IInv'
    BY <1>2, ConstructKeeps DEF Construct
  <1>3. ASSUME NEW c \in Contexts, Destroy(c) PROVE IInv'
    BY <1>3, HandOver
  <1>4. ASSUME NEW c \in Contexts, Cancel(c) PROVE IInv'
    BY <1>4, CancelKeeps
  <1>5. ASSUME NEW c \in Contexts, ReleaseDeadline(c) \/ \E at \in 0 .. MaxTime : CancelAt(c, at) PROVE IInv'
    BY <1>5, DeadlineKeeps
  <1>6. ASSUME NEW c \in Contexts, NEW ctx \in Contexts,
               CopyConstruct(c, ctx) \/ MoveConstruct(c, ctx) \/ CopyAssign(c, ctx) \/ MoveAssign(c, ctx)
        PROVE  IInv'
    BY <1>6, HandOver
  <1>7. ASSUME NEW c \in Contexts, NEW t \in Threads, IsCancelled(t, c) PROVE IInv'
    BY <1>7, AskKeeps
  <1>8. ASSUME NEW c \in Contexts, NEW t \in Threads, NEW delay \in Delays,
               CancelAfter(t, c, delay) \/ ConstructAfter(t, c, delay)
        PROVE  IInv'
    BY <1>8, AfterKeeps
  <1>9. ASSUME NEW t \in Threads, LoadFlag(t) \/ LoadDeadline(t) \/ Compare(t) PROVE IInv'
    BY <1>9, QuestionKeeps
  <1>10. ASSUME NEW t \in Threads, StoreAfter(t) PROVE IInv'
    BY <1>10, StoreAfterKeeps
  <1>11. ASSUME NEW t \in Threads, Return(t) PROVE IInv'
    BY <1>11, ReturnKeeps
  <1>12. CASE UNCHANGED vars
    BY <1>12 DEF vars, IInv, TypeOK, StatesShared, AnswerHolds, Passed
  <1>13. ASSUME Next PROVE IInv'
    BY <1>1, <1>2, <1>3, <1>4, <1>5, <1>6, <1>7, <1>8, <1>9, <1>10, <1>11, <1>13, Zenon DEF Next
  <1> QED
    BY <1>12, <1>13

\* What the questions know after their loads gives the answers they may give.
LEMMA AnswersRight == ASSUME IInv PROVE CancelSeen
  <1> SUFFICES ASSUME NEW t \in Threads
               PROVE  /\ call[t].at = "no" => ~call[t].told /\ ~call[t].due
                      /\ call[t].at = "yes" => cancelled[kin[call[t].ctx]] \/ Passed(call[t].first)
    BY DEF CancelSeen
  <1>1. AnswerHolds(call[t]) /\ cancelled = flag /\ kin = m_state
    BY DEF IInv, StatesShared
  <1> QED
    BY <1>1 DEF AnswerHolds

-----------------------------------------------------------------------------

\* Whichever handles are copied, moved, assigned and destroyed, and whichever
\* threads cancel and change deadlines between the loads of a question,
\* Context::IsCancelled says no only if nobody had cancelled the context and no
\* deadline that stayed had passed, and yes only for a reason.
THEOREM CancellationIsSeen == ASSUME Constants PROVE Spec => [](TypeOK /\ CancelSeen)
  <1>1. Init => IInv
    BY InitIInv
  <1>2. IInv /\ [Next]_vars => IInv'
    BY NextIInv
  <1>3. IInv => TypeOK /\ CancelSeen
    BY AnswersRight DEF IInv
  <1> QED
    BY <1>1, <1>2, <1>3, PTL DEF Spec

\* Every handle leads to the State it was copied or moved from, however long the
\* chain: what is cancelled through one is cancelled for all of them, and so is a
\* deadline (the copy and move operations of Context, which test for one State).
THEOREM HandlesShareState == ASSUME Constants PROVE Spec => []StatesShared
  <1>1. Init => IInv
    BY InitIInv
  <1>2. IInv /\ [Next]_vars => IInv'
    BY NextIInv
  <1>3. IInv => StatesShared
    BY DEF IInv
  <1> QED
    BY <1>1, <1>2, <1>3, PTL DEF Spec
=============================================================================
