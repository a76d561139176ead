---------------------------- MODULE NetworkProofs ----------------------------
(***************************************************************************)
(* Proofs about the network, for any descriptors.                          *)
(***************************************************************************)
EXTENDS MCNetwork, TLAPS

(***************************************************************************)
(* SocketPair.                                                             *)
(***************************************************************************)

\* A pair that was made owns nothing.
LEMMA PairInit == Pair!Init => Pair!IInv
  <1> SUFFICES ASSUME Pair!Init PROVE Pair!IInv
    OBVIOUS
  <1> USE FdsAssumption DEF Pair!Init, Pair!INVALID_SOCKET
  <1>1. Pair!TypeOK
    BY DEF Pair!TypeOK, Pair!Calls, Pair!FdState
  <1>2. Pair!ClosesOnlyItsOwn /\ Pair!LocalsOfStart /\ Pair!ReaderConnected
    BY DEF Pair!ClosesOnlyItsOwn, Pair!LocalsOfStart, Pair!ReaderConnected
  <1>3. Pair!OwnersAgree /\ Pair!AllAccounted
    BY DEF Pair!OwnersAgree, Pair!AllAccounted, Pair!Mine
  <1> QED
    BY <1>1, <1>2, <1>3 DEF Pair!IInv

\* Start begins, with no reader.
LEMMA PairStart ==
  ASSUME Pair!IInv, NEW nb \in BOOLEAN, Pair!Start(nb)
  PROVE  Pair!IInv'
  <1> USE FdsAssumption DEF Pair!IInv, Pair!INVALID_SOCKET, Pair!Start, Pair!kernel
  <1>1. Pair!TypeOK'
    BY DEF Pair!TypeOK, Pair!Calls
  <1>2. Pair!ClosesOnlyItsOwn'
    BY DEF Pair!ClosesOnlyItsOwn, Pair!Mine
  <1>3. Pair!LocalsOfStart'
    BY DEF Pair!LocalsOfStart
  <1>4. Pair!ReaderConnected'
    BY DEF Pair!ReaderConnected
  <1>5. Pair!OwnersAgree'
    BY DEF Pair!OwnersAgree, Pair!Mine
  <1>6. Pair!AllAccounted'
    BY DEF Pair!AllAccounted, Pair!Mine
  <1> QED
    BY <1>1, <1>2, <1>3, <1>4, <1>5, <1>6

\* The listener, a descriptor nobody had.
LEMMA PairCreateListener ==
  ASSUME Pair!IInv, NEW f \in PairFds, Pair!CreateListener(f)
  PROVE  Pair!IInv'
  <1> USE FdsAssumption DEF Pair!IInv, Pair!INVALID_SOCKET, Pair!CreateListener, Pair!Step, Pair!Opens
  <1>1. Pair!TypeOK'
    BY DEF Pair!TypeOK, Pair!Calls, Pair!FdState
  <1>2. Pair!ClosesOnlyItsOwn'
    BY DEF Pair!TypeOK, Pair!ClosesOnlyItsOwn, Pair!Mine
  <1>3. Pair!LocalsOfStart'
    BY DEF Pair!LocalsOfStart, Pair!ClosesOnlyItsOwn, Pair!Mine, Pair!OwnersAgree
  <1>4. Pair!ReaderConnected'
    BY DEF Pair!ReaderConnected
  <1>5. Pair!OwnersAgree'
    BY DEF Pair!TypeOK, Pair!OwnersAgree, Pair!Mine, Pair!LocalsOfStart
  <1>6. Pair!AllAccounted'
    BY DEF Pair!TypeOK, Pair!AllAccounted, Pair!Mine, Pair!LocalsOfStart
  <1> QED
    BY <1>1, <1>2, <1>3, <1>4, <1>5, <1>6

\* The listener is bound.
LEMMA PairBind ==
  ASSUME Pair!IInv, Pair!Bind
  PROVE  Pair!IInv'
  <1> USE FdsAssumption DEF Pair!IInv, Pair!INVALID_SOCKET, Pair!Bind, Pair!Step, Pair!Becomes
  <1>1. Pair!TypeOK'
    BY DEF Pair!TypeOK, Pair!Calls, Pair!FdState
  <1>2. Pair!ClosesOnlyItsOwn'
    BY DEF Pair!ClosesOnlyItsOwn, Pair!Mine
  <1>3. Pair!LocalsOfStart'
    BY DEF Pair!LocalsOfStart
  <1>4. Pair!ReaderConnected'
    BY DEF Pair!LocalsOfStart, Pair!ReaderConnected
  <1>5. Pair!OwnersAgree'
    BY DEF Pair!OwnersAgree, Pair!Mine, Pair!ClosesOnlyItsOwn
  <1>6. Pair!AllAccounted'
    BY DEF Pair!AllAccounted, Pair!Mine
  <1> QED
    BY <1>1, <1>2, <1>3, <1>4, <1>5, <1>6

\* It listens.
LEMMA PairListen ==
  ASSUME Pair!IInv, Pair!Listen
  PROVE  Pair!IInv'
  <1> USE FdsAssumption DEF Pair!IInv, Pair!INVALID_SOCKET, Pair!Listen, Pair!Step, Pair!Becomes
  <1>1. Pair!TypeOK'
    BY DEF Pair!TypeOK, Pair!Calls, Pair!FdState
  <1>2. Pair!ClosesOnlyItsOwn'
    BY DEF Pair!ClosesOnlyItsOwn, Pair!Mine
  <1>3. Pair!LocalsOfStart'
    BY DEF Pair!LocalsOfStart
  <1>4. Pair!ReaderConnected'
    BY DEF Pair!LocalsOfStart, Pair!ReaderConnected
  <1>5. Pair!OwnersAgree'
    BY DEF Pair!OwnersAgree, Pair!Mine, Pair!ClosesOnlyItsOwn
  <1>6. Pair!AllAccounted'
    BY DEF Pair!AllAccounted, Pair!Mine
  <1> QED
    BY <1>1, <1>2, <1>3, <1>4, <1>5, <1>6

\* Its port is asked for.
LEMMA PairGetSockName ==
  ASSUME Pair!IInv, Pair!GetSockName
  PROVE  Pair!IInv'
  <1> USE FdsAssumption DEF Pair!IInv, Pair!INVALID_SOCKET, Pair!GetSockName, Pair!Step, Pair!kernel
  <1>1. Pair!TypeOK'
    BY DEF Pair!TypeOK, Pair!Calls
  <1>2. Pair!ClosesOnlyItsOwn'
    BY DEF Pair!ClosesOnlyItsOwn, Pair!Mine
  <1>3. Pair!LocalsOfStart'
    BY DEF Pair!LocalsOfStart
  <1>4. Pair!ReaderConnected'
    BY DEF Pair!ReaderConnected
  <1>5. Pair!OwnersAgree'
    BY DEF Pair!OwnersAgree, Pair!Mine
  <1>6. Pair!AllAccounted'
    BY DEF Pair!AllAccounted, Pair!Mine
  <1> QED
    BY <1>1, <1>2, <1>3, <1>4, <1>5, <1>6

\* The writer, another descriptor nobody had.
LEMMA PairCreateWriter ==
  ASSUME Pair!IInv, NEW f \in PairFds, Pair!CreateWriter(f)
  PROVE  Pair!IInv'
  <1> USE FdsAssumption DEF Pair!IInv, Pair!INVALID_SOCKET, Pair!CreateWriter, Pair!Step, Pair!Opens
  <1>1. Pair!TypeOK'
    BY DEF Pair!TypeOK, Pair!Calls, Pair!FdState
  <1>2. Pair!ClosesOnlyItsOwn'
    BY DEF Pair!TypeOK, Pair!ClosesOnlyItsOwn, Pair!Mine
  <1>3. Pair!LocalsOfStart'
    BY DEF Pair!LocalsOfStart, Pair!ClosesOnlyItsOwn, Pair!Mine, Pair!OwnersAgree
  <1>4. Pair!ReaderConnected'
    BY DEF Pair!ReaderConnected
  <1>5. Pair!OwnersAgree'
    BY DEF Pair!TypeOK, Pair!OwnersAgree, Pair!Mine
  <1>6. Pair!AllAccounted'
    BY DEF Pair!TypeOK, Pair!AllAccounted, Pair!Mine, Pair!LocalsOfStart
  <1> QED
    BY <1>1, <1>2, <1>3, <1>4, <1>5, <1>6

\* The writer is connected.
LEMMA PairConnect ==
  ASSUME Pair!IInv, Pair!Connect
  PROVE  Pair!IInv'
  <1> USE FdsAssumption DEF Pair!IInv, Pair!INVALID_SOCKET, Pair!Connect, Pair!Step, Pair!Becomes
  <1>1. Pair!TypeOK'
    BY DEF Pair!TypeOK, Pair!Calls, Pair!FdState
  <1>2. Pair!ClosesOnlyItsOwn'
    BY DEF Pair!ClosesOnlyItsOwn, Pair!Mine
  <1>3. Pair!LocalsOfStart'
    BY DEF Pair!TypeOK, Pair!LocalsOfStart
  <1>4. Pair!ReaderConnected'
    BY DEF Pair!ReaderConnected
  <1>5. Pair!OwnersAgree'
    BY DEF Pair!OwnersAgree, Pair!Mine, Pair!ClosesOnlyItsOwn
  <1>6. Pair!AllAccounted'
    BY DEF Pair!AllAccounted, Pair!Mine
  <1> QED
    BY <1>1, <1>2, <1>3, <1>4, <1>5, <1>6

\* The writer is made non-blocking.
LEMMA PairSetNonBlocking ==
  ASSUME Pair!IInv, Pair!SetNonBlocking
  PROVE  Pair!IInv'
  <1> USE FdsAssumption DEF Pair!IInv, Pair!INVALID_SOCKET, Pair!SetNonBlocking, Pair!Step, Pair!SetBlocking
  <1>1. Pair!TypeOK'
    BY DEF Pair!TypeOK, Pair!Calls
  <1>2. Pair!ClosesOnlyItsOwn'
    BY DEF Pair!ClosesOnlyItsOwn, Pair!Mine
  <1>3. Pair!LocalsOfStart'
    BY DEF Pair!LocalsOfStart
  <1>4. Pair!ReaderConnected'
    BY DEF Pair!ReaderConnected
  <1>5. Pair!OwnersAgree'
    BY DEF Pair!OwnersAgree, Pair!Mine
  <1>6. Pair!AllAccounted'
    BY DEF Pair!AllAccounted, Pair!Mine
  <1> QED
    BY <1>1, <1>2, <1>3, <1>4, <1>5, <1>6

\* The reader is accepted, and the pair has its two ends.
LEMMA PairAccept ==
  ASSUME Pair!IInv, NEW f \in PairFds, Pair!Accept(f)
  PROVE  Pair!IInv'
  <1> USE FdsAssumption DEF Pair!IInv, Pair!INVALID_SOCKET, Pair!Accept, Pair!Step, Pair!Opens
  <1>1. Pair!TypeOK'
    BY DEF Pair!TypeOK, Pair!Calls, Pair!FdState
  <1>2. Pair!ClosesOnlyItsOwn'
    BY DEF Pair!TypeOK, Pair!ClosesOnlyItsOwn, Pair!Mine
  <1>3. Pair!LocalsOfStart'
    BY DEF Pair!LocalsOfStart, Pair!ClosesOnlyItsOwn, Pair!Mine, Pair!OwnersAgree
  <1>4. Pair!ReaderConnected'
    BY DEF Pair!TypeOK, Pair!LocalsOfStart, Pair!ReaderConnected
  <1>5. Pair!OwnersAgree'
    BY DEF Pair!TypeOK, Pair!OwnersAgree, Pair!Mine
  <1>6. Pair!AllAccounted'
    <2>1. read \in PairFds /\ write \in PairFds /\ Pair!Mine' = Pair!Mine \cup {f}
      BY DEF Pair!TypeOK, Pair!LocalsOfStart, Pair!Mine
    <2>2. ~failed => Pair!Mine = {read, write}
      BY <2>1 DEF Pair!AllAccounted, Pair!LocalsOfStart
    <2> QED
      BY <2>1, <2>2 DEF Pair!AllAccounted
  <1> QED
    BY <1>1, <1>2, <1>3, <1>4, <1>5, <1>6

\* The writer becomes an end although there is no reader.
LEMMA PairAcceptFails ==
  ASSUME Pair!IInv, Pair!AcceptFails
  PROVE  Pair!IInv'
  <1> USE FdsAssumption DEF Pair!IInv, Pair!INVALID_SOCKET, Pair!AcceptFails, Pair!Step, Pair!kernel
  <1>1. Pair!TypeOK'
    BY DEF Pair!TypeOK, Pair!Calls
  <1>2. Pair!ClosesOnlyItsOwn'
    BY DEF Pair!ClosesOnlyItsOwn, Pair!Mine
  <1>3. Pair!LocalsOfStart'
    BY DEF Pair!LocalsOfStart
  <1>4. Pair!ReaderConnected'
    BY DEF Pair!ReaderConnected
  <1>5. Pair!OwnersAgree'
    BY DEF Pair!OwnersAgree, Pair!Mine
  <1>6. Pair!AllAccounted'
    BY DEF Pair!AllAccounted, Pair!Mine, Pair!LocalsOfStart
  <1> QED
    BY <1>1, <1>2, <1>3, <1>4, <1>5, <1>6

\* The writer gets the mode Start was asked for.
LEMMA PairSetWriterMode ==
  ASSUME Pair!IInv, Pair!SetWriterMode
  PROVE  Pair!IInv'
  <1> USE FdsAssumption DEF Pair!IInv, Pair!INVALID_SOCKET, Pair!SetWriterMode, Pair!Step, Pair!SetBlocking
  <1>1. Pair!TypeOK'
    BY DEF Pair!TypeOK, Pair!Calls, Pair!LocalsOfStart
  <1>2. Pair!ClosesOnlyItsOwn'
    BY DEF Pair!ClosesOnlyItsOwn, Pair!Mine
  <1>3. Pair!LocalsOfStart'
    BY DEF Pair!LocalsOfStart
  <1>4. Pair!ReaderConnected'
    BY DEF Pair!ReaderConnected
  <1>5. Pair!OwnersAgree'
    BY DEF Pair!OwnersAgree, Pair!Mine
  <1>6. Pair!AllAccounted'
    BY DEF Pair!AllAccounted, Pair!Mine
  <1> QED
    BY <1>1, <1>2, <1>3, <1>4, <1>5, <1>6

\* The reader gets it, and the listener is closed.
LEMMA PairSetReaderMode ==
  ASSUME Pair!IInv, Pair!SetReaderMode
  PROVE  Pair!IInv'
  <1> USE FdsAssumption DEF Pair!IInv, Pair!INVALID_SOCKET, Pair!SetReaderMode
  <1>1. Pair!TypeOK'
    BY DEF Pair!TypeOK, Pair!FdState
  <1>2. Pair!ClosesOnlyItsOwn'
    BY DEF Pair!TypeOK, Pair!ClosesOnlyItsOwn, Pair!Mine, Pair!LocalsOfStart
  <1>3. Pair!LocalsOfStart'
    BY DEF Pair!LocalsOfStart
  <1>4. Pair!ReaderConnected'
    BY DEF Pair!TypeOK, Pair!LocalsOfStart, Pair!ReaderConnected
  <1>5. Pair!OwnersAgree'
    BY DEF Pair!TypeOK, Pair!OwnersAgree, Pair!Mine
  <1>6. Pair!AllAccounted'
    <2>1. /\ {read, write, m_reader, m_writer} \subseteq PairFds /\ m_writer = write
          /\ read \notin {m_reader, m_writer}
      BY DEF Pair!TypeOK, Pair!LocalsOfStart
    <2>2. Pair!Mine' = Pair!Mine \ {read}
      BY <2>1 DEF Pair!TypeOK, Pair!Mine
    <2>3. ~failed => Pair!Mine = {read, m_reader, m_writer}
      BY <2>1 DEF Pair!AllAccounted
    <2>4. m_writer \in blocks <=> ~nonblocking
      BY DEF Pair!AllAccounted
    <2>5. ASSUME NEW f \in {m_reader, m_writer} PROVE f \in blocks' <=> ~nonblocking'
      BY <2>1, <2>4
    <2> QED
      BY <2>1, <2>2, <2>3, <2>5 DEF Pair!AllAccounted
  <1> QED
    BY <1>1, <1>2, <1>3, <1>4, <1>5, <1>6

\* A call fails: the listener is closed, the writer is not.
LEMMA PairCallFails ==
  ASSUME Pair!IInv, Pair!CallFails
  PROVE  Pair!IInv'
  <1> USE FdsAssumption DEF Pair!IInv, Pair!INVALID_SOCKET, Pair!CallFails, Pair!Leave, Pair!Closing
  <1>1. Pair!TypeOK'
    BY DEF Pair!TypeOK, Pair!FdState
  <1>2. Pair!ClosesOnlyItsOwn'
    BY DEF Pair!ClosesOnlyItsOwn, Pair!Mine, Pair!LocalsOfStart
  <1>3. Pair!LocalsOfStart'
    BY DEF Pair!LocalsOfStart
  <1>4. Pair!ReaderConnected'
    BY DEF Pair!TypeOK, Pair!LocalsOfStart, Pair!ReaderConnected
  <1>5. Pair!OwnersAgree'
    BY DEF Pair!OwnersAgree, Pair!Mine
  <1>6. Pair!AllAccounted'
    BY DEF Pair!AllAccounted
  <1> QED
    BY <1>1, <1>2, <1>3, <1>4, <1>5, <1>6

\* Stop closes both ends.
LEMMA PairStop ==
  ASSUME Pair!IInv, Pair!Stop
  PROVE  Pair!IInv'
  <1> USE FdsAssumption DEF Pair!IInv, Pair!INVALID_SOCKET, Pair!Stop, Pair!Closing
  <1>1. Pair!TypeOK'
    BY DEF Pair!TypeOK, Pair!FdState
  <1>2. Pair!ClosesOnlyItsOwn'
    BY DEF Pair!ClosesOnlyItsOwn, Pair!LocalsOfStart
  <1>3. Pair!LocalsOfStart'
    BY DEF Pair!LocalsOfStart
  <1>4. Pair!ReaderConnected'
    BY DEF Pair!ReaderConnected
  <1>5. Pair!OwnersAgree'
    BY DEF Pair!OwnersAgree, Pair!Mine
  <1>6. Pair!AllAccounted'
    BY DEF Pair!AllAccounted, Pair!Mine, Pair!LocalsOfStart
  <1> QED
    BY <1>1, <1>2, <1>3, <1>4, <1>5, <1>6

\* Someone else opens a descriptor.
LEMMA PairOtherOpens ==
  ASSUME Pair!IInv, NEW f \in PairFds, Pair!OtherOpens(f)
  PROVE  Pair!IInv'
  <1> USE FdsAssumption DEF Pair!IInv, Pair!INVALID_SOCKET, Pair!OtherOpens, Pair!Opens
  <1>1. Pair!TypeOK'
    BY DEF Pair!TypeOK, Pair!FdState
  <1>2. Pair!ClosesOnlyItsOwn'
    BY DEF Pair!TypeOK, Pair!ClosesOnlyItsOwn, Pair!Mine, Pair!OwnersAgree
  <1>3. Pair!LocalsOfStart'
    BY DEF Pair!TypeOK, Pair!LocalsOfStart
  <1>4. Pair!ReaderConnected'
    BY DEF Pair!TypeOK, Pair!ReaderConnected
  <1>5. Pair!OwnersAgree'
    BY DEF Pair!TypeOK, Pair!OwnersAgree, Pair!Mine
  <1>6. Pair!AllAccounted'
    BY DEF Pair!TypeOK, Pair!AllAccounted, Pair!Mine, Pair!OwnersAgree, Pair!ClosesOnlyItsOwn
  <1> QED
    BY <1>1, <1>2, <1>3, <1>4, <1>5, <1>6

\* Someone else closes a descriptor of theirs.
LEMMA PairOtherCloses ==
  ASSUME Pair!IInv, NEW f \in PairFds, Pair!OtherCloses(f)
  PROVE  Pair!IInv'
  <1> USE FdsAssumption DEF Pair!IInv, Pair!INVALID_SOCKET, Pair!OtherCloses, Pair!Closing
  <1>1. Pair!TypeOK'
    BY DEF Pair!TypeOK, Pair!FdState
  <1>2. Pair!ClosesOnlyItsOwn'
    BY DEF Pair!ClosesOnlyItsOwn, Pair!Mine
  <1>3. Pair!LocalsOfStart'
    BY DEF Pair!LocalsOfStart, Pair!ClosesOnlyItsOwn, Pair!Mine
  <1>4. Pair!ReaderConnected'
    BY DEF Pair!TypeOK, Pair!ReaderConnected, Pair!ClosesOnlyItsOwn, Pair!Mine
  <1>5. Pair!OwnersAgree'
    BY DEF Pair!OwnersAgree, Pair!Mine
  <1>6. Pair!AllAccounted'
    BY DEF Pair!AllAccounted, Pair!Mine, Pair!ClosesOnlyItsOwn
  <1> QED
    BY <1>1, <1>2, <1>3, <1>4, <1>5, <1>6

\* Every step keeps the invariant.
LEMMA PairNext == Pair!IInv /\ [Pair!Next]_(Pair!vars) => Pair!IInv'
  <1> SUFFICES ASSUME Pair!IInv, [Pair!Next]_(Pair!vars) PROVE Pair!IInv'
    OBVIOUS
  <1>1. ASSUME NEW nb \in BOOLEAN, Pair!Start(nb) PROVE Pair!IInv'
    BY <1>1, PairStart
  <1>2. ASSUME NEW f \in PairFds, Pair!CreateListener(f) \/ Pair!CreateWriter(f) \/ Pair!Accept(f)
        PROVE  Pair!IInv'
    BY <1>2, PairCreateListener, PairCreateWriter, PairAccept
  <1>3. ASSUME NEW f \in PairFds, Pair!OtherOpens(f) \/ Pair!OtherCloses(f) PROVE Pair!IInv'
    BY <1>3, PairOtherOpens, PairOtherCloses
  <1>4. CASE Pair!Bind \/ Pair!Listen \/ Pair!GetSockName \/ Pair!Connect \/ Pair!SetNonBlocking
    BY <1>4, PairBind, PairListen, PairGetSockName, PairConnect, PairSetNonBlocking
  <1>5. CASE Pair!AcceptFails \/ Pair!SetWriterMode \/ Pair!SetReaderMode \/ Pair!CallFails \/ Pair!Stop
    BY <1>5, PairAcceptFails, PairSetWriterMode, PairSetReaderMode, PairCallFails, PairStop
  <1>6. CASE UNCHANGED Pair!vars
    <2> USE <1>6 DEF Pair!vars, Pair!IInv
    <2>1. Pair!TypeOK' /\ Pair!ClosesOnlyItsOwn' /\ Pair!LocalsOfStart'
      BY DEF Pair!TypeOK, Pair!ClosesOnlyItsOwn, Pair!LocalsOfStart, Pair!Mine
    <2>2. Pair!ReaderConnected' /\ Pair!OwnersAgree' /\ Pair!AllAccounted'
      BY DEF Pair!ReaderConnected, Pair!OwnersAgree, Pair!AllAccounted, Pair!Mine
    <2> QED
      BY <2>1, <2>2
  <1>7. CASE Pair!Next
    BY <1>1, <1>2, <1>3, <1>4, <1>5, <1>7 DEF Pair!Next
  <1> QED
    BY <1>6, <1>7

\* A socket pair with a reader has a writer, connected to it; it never closes a
\* descriptor of someone else; the listener of Start does not outlive it; and until
\* a call fails the pair owns its two ends only, in the mode Start was asked for.
THEOREM PairOwnership == Spec => []PairOwnsItsEnds
  <1>1. Init => Pair!IInv
    BY PairInit DEF Init
  <1>2. [Next]_<<part, netVars, pairVars, addressVars, hintVars>> => [Pair!Next]_(Pair!vars)
    BY DEF Next, pairVars, Pair!vars
  <1>3. Pair!IInv => PairOwnsItsEnds
    <2> SUFFICES ASSUME Pair!IInv PROVE Pair!EndsConnected /\ Pair!ClosesOnlyItsOwn /\ Pair!StartedAsAsked
      BY DEF PairOwnsItsEnds
    <2>1. Pair!EndsConnected
      BY DEF Pair!IInv, Pair!ReaderConnected, Pair!EndsConnected
    <2>2. Pair!StartedAsAsked
      BY DEF Pair!IInv, Pair!LocalsOfStart, Pair!OwnersAgree, Pair!AllAccounted, Pair!Mine, Pair!StartedAsAsked
    <2> QED
      BY <2>1, <2>2 DEF Pair!IInv
  <1> QED
    BY <1>1, <1>2, <1>3, PairNext, PTL DEF Spec
=============================================================================
