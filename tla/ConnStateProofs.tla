--------------------------- MODULE ConnStateProofs ---------------------------
(***************************************************************************)
(* Proofs about ConnState, for any number of sessions, any depth of the    *)
(* streams and any set of packets.                                         *)
(*                                                                         *)
(* The inductive invariant describes, for each of the two clients that     *)
(* lock sessions, what can be in flight between it and the table:          *)
(*   - the RX engine has at most the write of one packet and the read of   *)
(*     the next in flight, and the write has been decided on the state     *)
(*     that is still in the table, because the session is locked;          *)
(*   - tx_app_if may have any number of opens in flight; at most one read, *)
(*     the last access; and the write that follows a read, the first one.  *)
(***************************************************************************)
EXTENDS ConnState, SequenceTheorems, TLAPS

-----------------------------------------------------------------------------
(***************************************************************************)
(* The state machine of rxTcpFSM, for every packet and every way it can    *)
(* compare with the session's SAR entries.                                 *)
(***************************************************************************)
\* States in which a FIN has been sent.
FinSent == {"FIN_WAIT_1", "CLOSING", "TIME_WAIT", "LAST_ACK"}

\* One transition yields a state; from CLOSED only a SYN leads away; a session
\* that has sent its FIN does not return to the data transfer states.
LEMMA OutcomeState ==
    ASSUME NEW p \in Packet, NEW st \in SessionState, NEW r \in Relation
    PROVE  /\ RxOutcome(p, st, r).state \in SessionState
           /\ st = "CLOSED" => RxOutcome(p, st, r).state \in {"CLOSED", "SYN_RECEIVED"}
           /\ st \in FinSent =>
                 RxOutcome(p, st, r).state \notin {"ESTABLISHED", "SYN_RECEIVED"}
<1>1. CASE p.kind = "ACK"
  BY <1>1 DEF RxOutcome, AckOutcome, AckState, WriteBack, SessionState, FinSent
<1>2. CASE p.kind = "SYN"
  BY <1>2 DEF RxOutcome, SynOutcome, WriteBack, SessionState, FinSent
<1>3. CASE p.kind = "SYN_ACK"
  BY <1>3 DEF RxOutcome, SynAckOutcome, WriteBack, SessionState, FinSent
<1>4. CASE p.kind = "FIN_ACK"
  BY <1>4 DEF RxOutcome, FinOutcome, FinState, WriteBack, SessionState, FinSent
<1>5. CASE p.kind = "RST"
  BY <1>5 DEF RxOutcome, RstOutcome, WriteBack, SessionState, FinSent
<1>6. CASE p.kind = "OTHER"
  BY <1>6 DEF RxOutcome, WriteBack, SessionState, FinSent
<1> QED  BY <1>1, <1>2, <1>3, <1>4, <1>5, <1>6 DEF Packet, Kind

\* The same facts about the set of states any packet may lead to.
LEMMA RxTargetsFacts ==
    ASSUME NEW st \in SessionState
    PROVE  /\ RxTargets[st] \subseteq SessionState
           /\ \A k \in Kind : RxNext[k][st] \subseteq RxTargets[st]
           /\ st = "CLOSED" => RxTargets[st] \subseteq {"CLOSED", "SYN_RECEIVED"}
           /\ st \in FinSent =>
                 RxTargets[st] \intersect {"ESTABLISHED", "SYN_RECEIVED"} = {}
<1>1. RxTargets[st] = UNION {RxNext[k][st] : k \in Kind}
  BY DEF RxTargets
<1>2. ASSUME NEW k \in Kind
      PROVE  RxNext[k][st] = {RxOutcome(p, st, r).state :
                                 p \in {q \in Packet : q.kind = k}, r \in Relation}
  BY DEF RxNext
<1>3. ASSUME NEW x \in RxTargets[st]
      PROVE  \E p \in Packet, r \in Relation : x = RxOutcome(p, st, r).state
  BY <1>1, <1>2
<1> QED  BY <1>1, <1>3, OutcomeState

\* A close request leads to a state, and never away from CLOSED or back to a
\* state of the data transfer.
LEMMA CloseTargetFacts ==
    ASSUME NEW st \in SessionState
    PROVE  /\ CloseTarget(st) \in SessionState
           /\ CloseTarget(st) \in {st, "FIN_WAIT_1"}
           /\ st = "CLOSED" => CloseTarget(st) = "CLOSED"
BY DEF CloseTarget, ClosableState, SessionState

-----------------------------------------------------------------------------

AtMostOne(S) == \A a, b \in S : a = b

\* A write of the RX engine: decided on the current state of a locked session.
RxWriteInFlight(q) ==
    /\ q.write
    /\ rxLock = {q.sessionID}
    /\ q.state \in RxTargets[state_table[q.sessionID]]

RxIdle      == rxReq = <<>> /\ rxLock = {}
RxWriting   == \E q \in StateQuery : rxReq = <<q>> /\ RxWriteInFlight(q)
RxReading(m)   == rxReq = <<ReadQuery(m.sessionID)>> /\ rxLock = {}
RxWriteRead(m) == \E q \in StateQuery :
                      /\ rxReq = <<q, ReadQuery(m.sessionID)>>
                      /\ RxWriteInFlight(q)
RxHeldBack(m)  == /\ rxReq = <<>> /\ rxLock = {}
                  /\ rxHeld = {ReadQuery(m.sessionID)} /\ rxRsp = <<>>
RxAnswered(m)  == /\ rxReq = <<>> /\ rxLock = {m.sessionID}
                  /\ rxHeld = {} /\ rxRsp = <<state_table[m.sessionID]>>

RxInv ==
    \/ fsm_meta = {} /\ rxHeld = {} /\ rxRsp = <<>> /\ (RxIdle \/ RxWriting)
    \/ \E m \in FsmMeta :
          /\ fsm_meta = {m}
          /\ \/ rxHeld = {} /\ rxRsp = <<>> /\ (RxReading(m) \/ RxWriteRead(m))
             \/ RxHeldBack(m)
             \/ RxAnswered(m)

\* The write of tx_app_if that ends a close request, first in its stream.
TxCloseWrite(q) ==
    /\ q.write
    /\ txHeld = {} /\ txRsp = <<>>
    /\ txLock = {q.sessionID}
    /\ q.state = CloseTarget(state_table[q.sessionID])

TxRead(q) == ~q.write /\ tai_close = {q.sessionID} /\ txRsp = <<>>
TxOpening(q) == q.write /\ q.state = "SYN_SENT"

TxStreamInv ==
    \A i \in 1 .. Len(txReq) :
        \/ TxOpening(txReq[i])
        \/ i = 1 /\ TxCloseWrite(txReq[i])
        \/ i = Len(txReq) /\ TxRead(txReq[i])

TxHeldInv ==
    \/ txHeld = {}
    \/ \E q \in StateQuery :
          /\ txHeld = {q} /\ txLock = {}
          /\ TxOpening(q) \/ (TxRead(q) /\ txReq = <<>>)

TxAnswerInv ==
    txRsp # <<>> =>
        \E s \in Session :
            /\ tai_close = {s} /\ txLock = {s}
            /\ txRsp = <<state_table[s]>>
            /\ txReq = <<>> /\ txHeld = {}

TxLockInv ==
    txLock # {} => txRsp # <<>> \/ (txReq # <<>> /\ TxCloseWrite(txReq[1]))

TxInv == AtMostOne(tai_close) /\ TxStreamInv /\ TxHeldInv /\ TxAnswerInv /\ TxLockInv

\* The inductive invariant.
IInv == TypeOK /\ LockExclusion /\ RxInv /\ TxInv

-----------------------------------------------------------------------------
(***************************************************************************)
(* Streams.                                                                *)
(***************************************************************************)
\* What is behind the last element of a stream that is written, and before it.
LEMMA AppendFacts ==
    ASSUME NEW S, NEW q \in Seq(S), NEW e \in S
    PROVE  /\ Append(q, e) \in Seq(S) /\ Append(q, e) # <<>>
           /\ Len(Append(q, e)) = Len(q) + 1 /\ Len(q) \in Nat
           /\ Append(q, e)[Len(q) + 1] = e
           /\ \A i \in 1 .. Len(q) : Append(q, e)[i] = q[i]
OBVIOUS

\* A stream of one element that is written holds the pair.
LEMMA PairFacts ==
    ASSUME NEW S, NEW a \in S, NEW b \in S
    PROVE  Append(<<a>>, b) = <<a, b>>
<1>1. /\ <<a, b>> \in Seq(S) /\ Len(<<a, b>>) = 2
      /\ <<a>> \in Seq(S) /\ Len(<<a>>) = 1
  OBVIOUS
<1>2. Append(<<a>>, b) \in Seq(S) /\ Len(Append(<<a>>, b)) = 2
  BY <1>1
<1>3. \A i \in 1 .. 2 : Append(<<a>>, b)[i] = <<a, b>>[i]
  BY <1>1
<1> QED  BY <1>1, <1>2, <1>3, SeqEqual

\* What is left of a stream from which the first element is taken.
LEMMA TailFacts ==
    ASSUME NEW S, NEW q \in Seq(S), q # <<>>
    PROVE  /\ Head(q) \in S /\ Head(q) = q[1]
           /\ Tail(q) \in Seq(S) /\ Len(Tail(q)) = Len(q) - 1
           /\ Len(q) \in Nat /\ Len(q) >= 1
           /\ \A i \in 1 .. Len(q) - 1 : Tail(q)[i] = q[i + 1] /\ i + 1 \in 2 .. Len(q)
OBVIOUS

-----------------------------------------------------------------------------
(***************************************************************************)
(* Steps that leave one of the two clients alone.                          *)
(***************************************************************************)
\* The state of the session the RX engine has locked is all its invariant
\* needs of the table.
LEMMA RxFrame ==
    ASSUME RxInv,
           UNCHANGED <<fsm_meta, rxReq, rxRsp, rxHeld, rxLock>>,
           \A s \in rxLock : state_table'[s] = state_table[s]
    PROVE  RxInv'
BY DEF RxInv, RxIdle, RxWriting, RxReading, RxWriteRead, RxHeldBack, RxAnswered,
       RxWriteInFlight

\* The same for tx_app_if.
LEMMA TxFrame ==
    ASSUME TxInv,
           UNCHANGED <<tai_close, txReq, txRsp, txHeld, txLock>>,
           \A s \in txLock : state_table'[s] = state_table[s]
    PROVE  TxInv'
<1> USE DEF TxInv, TxCloseWrite, TxRead, TxOpening
<1>1. AtMostOne(tai_close)'
  BY DEF AtMostOne
<1>2. TxStreamInv'
  BY DEF TxStreamInv
<1>3. TxHeldInv'
  BY DEF TxHeldInv
<1>4. TxAnswerInv'
  BY DEF TxAnswerInv
<1>5. TxLockInv'
  BY DEF TxLockInv
<1> QED  BY <1>1, <1>2, <1>3, <1>4, <1>5

-----------------------------------------------------------------------------
(***************************************************************************)
(* The steps of the clients.                                               *)
(***************************************************************************)
\* Behind the read of the next packet there is at most the write of the last one.
LEMMA RxLoadInv ==
    ASSUME IInv, NEW m \in FsmMeta, RxLoad(m)
    PROVE  IInv'
<1> USE DEF IInv, RxLoad, rxPort, txPort, tasiPort, timerPort
<1>1. TypeOK'
  BY DEF TypeOK, StateQuery, ReadQuery, FsmMeta, SessionState
<1>2. RxInv'
  <2>1. fsm_meta = {} /\ rxHeld = {} /\ rxRsp = <<>> /\ (RxIdle \/ RxWriting)
    BY DEF RxInv
  <2>2. CASE RxIdle
    <3>1. RxReading(m)'
      BY <2>2 DEF RxIdle, RxReading, ReadQuery
    <3> QED  BY <2>1, <3>1 DEF RxInv
  <2>3. CASE RxWriting
    <3>1. PICK q \in StateQuery : rxReq = <<q>> /\ RxWriteInFlight(q)
      BY <2>3 DEF RxWriting
    <3>2. rxReq' = <<q, ReadQuery(m.sessionID)>>
      <4>1. ReadQuery(m.sessionID) \in StateQuery
        BY DEF ReadQuery, StateQuery, SessionState, FsmMeta
      <4> QED  BY <3>1, <4>1, PairFacts
    <3>3. RxWriteInFlight(q)'
      BY <3>1 DEF RxWriteInFlight
    <3> QED  BY <2>1, <3>2, <3>3 DEF RxInv, RxWriteRead
  <2> QED  BY <2>1, <2>2, <2>3
<1>3. TxInv'
  BY TxFrame
<1> QED  BY <1>1, <1>2, <1>3 DEF LockExclusion

\* The write decided by rxTcpFSM is decided on the state that is in the table.
LEMMA RxTransitionInv ==
    ASSUME IInv, RxTransition
    PROVE  IInv'
<1> USE DEF IInv, RxTransition, rxPort, txPort, tasiPort, timerPort
<1>1. PICK m \in FsmMeta : fsm_meta = {m} /\ RxAnswered(m)
  BY DEF RxInv, RxHeldBack
<1>2. PICK st \in RxNext[m.kind][Head(rxRsp)] : rxReq' = Append(rxReq, WriteQuery(m.sessionID, st))
  BY <1>1
<1> DEFINE s == m.sessionID
           q == WriteQuery(s, st)
<1>3. s \in Session /\ m.kind \in Kind /\ Head(rxRsp) = state_table[s] /\ state_table[s] \in SessionState
  BY <1>1, ConnStateAssumption DEF FsmMeta, RxAnswered, TypeOK
<1>4. st \in SessionState /\ st \in RxTargets[state_table[s]]
  BY <1>2, <1>3, RxTargetsFacts
<1>5. q \in StateQuery
  BY <1>3, <1>4 DEF WriteQuery, StateQuery
<1>6. TypeOK'
  BY <1>2, <1>5 DEF TypeOK
<1>7. RxInv'
  <2>1. rxReq' = <<q>> /\ rxHeld' = {} /\ rxRsp' = <<>> /\ fsm_meta' = {}
    BY <1>1, <1>2 DEF RxAnswered
  <2>2. RxWriteInFlight(q)'
    BY <1>1, <1>4 DEF RxWriteInFlight, RxAnswered, WriteQuery
  <2> QED  BY <2>1, <2>2, <1>5 DEF RxInv, RxWriting
<1>8. TxInv'
  BY TxFrame
<1> QED  BY <1>6, <1>7, <1>8 DEF LockExclusion

\* An open adds one more write of SYN_SENT, and no read is under way in IDLE.
LEMMA TxOpenInv ==
    ASSUME IInv, NEW s \in Session, TxOpen(s)
    PROVE  IInv'
<1> USE DEF IInv, TxOpen, rxPort, txPort, tasiPort, timerPort, clientVars
<1>1. TypeOK'
  BY DEF TypeOK, StateQuery, WriteQuery, SessionState
<1>2. RxInv'
  BY RxFrame
<1>3. TxInv'
  <2> USE DEF TxInv
  <2>1. txRsp = <<>>
    BY DEF TxAnswerInv
  <2> DEFINE q == WriteQuery(s, "SYN_SENT")
  <2>2. txReq \in Seq(StateQuery) /\ q \in StateQuery
    BY DEF TypeOK, StateQuery, WriteQuery, SessionState
  <2>3. /\ txReq' # <<>> /\ Len(txReq') = Len(txReq) + 1 /\ Len(txReq) \in Nat
        /\ txReq'[Len(txReq) + 1] = q
        /\ \A i \in 1 .. Len(txReq) : txReq'[i] = txReq[i]
    BY <2>2, AppendFacts
  <2>4. TxStreamInv'
    <3> SUFFICES ASSUME NEW i \in 1 .. Len(txReq')
                 PROVE  (\/ TxOpening(txReq[i])
                         \/ i = 1 /\ TxCloseWrite(txReq[i])
                         \/ i = Len(txReq) /\ TxRead(txReq[i]))'
      BY DEF TxStreamInv
    <3>1. CASE i = Len(txReq) + 1
      BY <3>1, <2>3 DEF TxOpening, WriteQuery
    <3>2. CASE i \in 1 .. Len(txReq)
      <4>1. txReq'[i] = txReq[i] /\ ~TxRead(txReq[i])
        BY <3>2, <2>3 DEF TxRead
      <4> QED  BY <4>1, <3>2 DEF TxStreamInv, TxOpening, TxCloseWrite
    <3> QED  BY <3>1, <3>2, <2>3
  <2>5. TxHeldInv'
    BY DEF TxHeldInv, TxOpening, TxRead
  <2>6. TxAnswerInv'
    BY <2>1 DEF TxAnswerInv
  <2>7. TxLockInv'
    <3>1. txLock # {} => txReq # <<>> /\ TxCloseWrite(txReq[1])
      BY <2>1 DEF TxLockInv
    <3>2. txReq # <<>> => 1 \in 1 .. Len(txReq)
      BY <2>2
    <3> QED  BY <3>1, <3>2, <2>1, <2>3 DEF TxLockInv, TxCloseWrite
  <2> QED  BY <2>4, <2>5, <2>6, <2>7 DEF AtMostOne
<1> QED  BY <1>1, <1>2, <1>3 DEF LockExclusion

\* The read of a close request is the last access in the stream.
LEMMA TxCloseRequestInv ==
    ASSUME IInv, NEW s \in Session, TxCloseRequest(s)
    PROVE  IInv'
<1> USE DEF IInv, TxCloseRequest, rxPort, txPort, tasiPort, timerPort
<1> DEFINE q == ReadQuery(s)
<1>1. txReq \in Seq(StateQuery) /\ q \in StateQuery
  BY DEF TypeOK, StateQuery, ReadQuery, SessionState
<1>2. TypeOK'
  BY <1>1 DEF TypeOK
<1>3. RxInv'
  BY RxFrame
<1>4. TxInv'
  <2> USE DEF TxInv
  <2>1. txRsp = <<>>
    BY DEF TxAnswerInv
  <2>2. /\ txReq' # <<>> /\ Len(txReq') = Len(txReq) + 1 /\ Len(txReq) \in Nat
        /\ txReq'[Len(txReq) + 1] = q
        /\ \A i \in 1 .. Len(txReq) : txReq'[i] = txReq[i]
    BY <1>1, AppendFacts
  <2>3. TxStreamInv'
    <3> SUFFICES ASSUME NEW i \in 1 .. Len(txReq')
                 PROVE  (\/ TxOpening(txReq[i])
                         \/ i = 1 /\ TxCloseWrite(txReq[i])
                         \/ i = Len(txReq) /\ TxRead(txReq[i]))'
      BY DEF TxStreamInv
    <3>1. CASE i = Len(txReq) + 1
      BY <3>1, <2>1, <2>2 DEF TxRead, ReadQuery
    <3>2. CASE i \in 1 .. Len(txReq)
      <4>1. txReq'[i] = txReq[i] /\ ~TxRead(txReq[i])
        BY <3>2, <2>2 DEF TxRead
      <4> QED  BY <4>1, <3>2 DEF TxStreamInv, TxOpening, TxCloseWrite
    <3> QED  BY <3>1, <3>2, <2>2
  <2>4. TxHeldInv'
    BY DEF TxHeldInv, TxOpening, TxRead
  <2>5. TxAnswerInv'
    BY <2>1 DEF TxAnswerInv
  <2>6. TxLockInv'
    <3>1. txLock # {} => txReq # <<>> /\ TxCloseWrite(txReq[1])
      BY <2>1 DEF TxLockInv
    <3>2. txReq # <<>> => 1 \in 1 .. Len(txReq)
      BY <1>1
    <3> QED  BY <3>1, <3>2, <2>1, <2>2 DEF TxLockInv, TxCloseWrite
  <2> QED  BY <2>3, <2>4, <2>5, <2>6 DEF AtMostOne
<1> QED  BY <1>2, <1>3, <1>4 DEF LockExclusion

\* The write that ends a close request is alone in the stream, behind its lock.
LEMMA TxCloseConnInv ==
    ASSUME IInv, TxCloseConn
    PROVE  IInv'
<1> USE DEF IInv, TxCloseConn, rxPort, txPort, tasiPort, timerPort
<1>1. PICK s \in Session :
          /\ tai_close = {s} /\ txLock = {s} /\ txRsp = <<state_table[s]>>
          /\ txReq = <<>> /\ txHeld = {}
  BY DEF TxInv, TxAnswerInv
<1> DEFINE q == WriteQuery(s, CloseTarget(state_table[s]))
<1>2. txReq' = <<q>> /\ txRsp' = <<>> /\ tai_close' = {} /\ Head(txRsp) = state_table[s]
  BY <1>1
<1>3. q \in StateQuery
  BY CloseTargetFacts DEF WriteQuery, StateQuery, TypeOK
<1>4. TypeOK'
  <2> HIDE DEF q, IInv, TxCloseConn
  <2>1. txReq' \in Seq(StateQuery) /\ txRsp' \in Seq(SessionState)
    BY <1>2, <1>3
  <2> USE DEF IInv, TxCloseConn
  <2> QED  BY <1>2, <2>1 DEF TypeOK
<1>5. RxInv'
  BY RxFrame
<1>6. TxInv'
  <2>1. TxCloseWrite(q)'
    BY <1>1, <1>2 DEF TxCloseWrite, WriteQuery
  <2>2. TxStreamInv' /\ TxLockInv'
    <3>0. q' = q
      OBVIOUS
    <3> HIDE DEF q, IInv, TxCloseConn
    <3>1. Len(txReq') = 1 /\ txReq'[1] = q' /\ txReq' # <<>>
      BY <1>2, <3>0
    <3>2. TxStreamInv'
      BY <2>1, <3>1 DEF TxStreamInv
    <3>3. TxLockInv'
      BY <2>1, <3>1 DEF TxLockInv
    <3> QED  BY <3>2, <3>3
  <2> QED  BY <1>1, <1>2, <2>2 DEF TxInv, TxHeldInv, TxAnswerInv, AtMostOne
<1> QED  BY <1>4, <1>5, <1>6 DEF LockExclusion

\* The steps that touch neither the locks nor the streams of the two clients.
LEMMA OtherClientsInv ==
    ASSUME IInv,
           \/ \E s \in TasiSession : TasiRequest(s)
           \/ TasiMeta
           \/ \E s \in TimerSession : TimerRelease(s)
           \/ LookupTakesRelease
    PROVE  IInv'
<1> USE DEF IInv, rxPort, txPort, tasiPort, timerPort, clientVars,
            TasiRequest, TasiMeta, TimerRelease, LookupTakesRelease
<1>1. TypeOK'
  <2>1. CASE \E s \in TasiSession : TasiRequest(s)
    BY <2>1, ConnStateAssumption DEF TypeOK
  <2>2. CASE TasiMeta
    BY <2>2 DEF TypeOK
  <2>3. CASE \E s \in TimerSession : TimerRelease(s)
    BY <2>3, ConnStateAssumption DEF TypeOK
  <2>4. CASE LookupTakesRelease
    BY <2>4 DEF TypeOK
  <2> QED  BY <2>1, <2>2, <2>3, <2>4
<1>2. UNCHANGED <<state_table, rxLock, txLock, rxReq, rxRsp, rxHeld, txReq, txRsp, txHeld,
                  fsm_meta, tai_close>>
  OBVIOUS
<1>3. RxInv'
  BY <1>2, RxFrame
<1>4. TxInv'
  BY <1>2, TxFrame
<1> QED  BY <1>1, <1>2, <1>3, <1>4 DEF LockExclusion

-----------------------------------------------------------------------------
(***************************************************************************)
(* The branches of the table.                                              *)
(***************************************************************************)
\* The table after a write keeps its type and every other session.
LEMMA WrittenFacts ==
    ASSUME TypeOK, NEW q \in StateQuery
    PROVE  /\ Written(q) \in [Session -> SessionState]
           /\ \A s \in Session : s # q.sessionID => Written(q)[s] = state_table[s]
           /\ q.write => Written(q)[q.sessionID] = q.state
           /\ ~q.write => Written(q) = state_table
BY DEF Written, TypeOK, StateQuery

\* An access of tx_app_if that is served: an open, the write that ends a
\* close request, or the read, behind which the stream is empty.
LEMMA TxPerformInv ==
    ASSUME IInv, NEW q \in StateQuery, TxPerform(q),
           q.sessionID \notin rxLock,
           txRsp = <<>>, txHeld' = {},
           UNCHANGED <<rxLock, rxReq, rxRsp, rxHeld, fsm_meta, tai_close>>,
           \A i \in 1 .. Len(txReq') :
               TxOpening(txReq'[i]) \/ (i = Len(txReq') /\ TxRead(txReq'[i])),
           q.write \/ (TxRead(q) /\ txReq' = <<>>)
    PROVE  RxInv' /\ TxInv' /\ LockExclusion'
<1> USE DEF IInv, TxPerform
<1>1. RxInv'
  <2>1. \A s \in rxLock : state_table'[s] = state_table[s]
    BY WrittenFacts DEF TypeOK
  <2> QED  BY <2>1, RxFrame
<1>2. TxInv'
  <2>1. CASE q.write
    <3>1. txRsp' = <<>> /\ txLock' = {}
      BY <2>1
    <3>2. TxStreamInv'
      BY <3>1 DEF TxStreamInv, TxOpening, TxRead
    <3> QED  BY <3>1, <3>2 DEF TxInv, TxHeldInv, TxAnswerInv, TxLockInv, AtMostOne
  <2>2. CASE ~q.write
    <3>1. txRsp' = <<state_table[q.sessionID]>> /\ txLock' = {q.sessionID}
      BY <2>2
    <3>2. state_table' = state_table /\ txReq' = <<>> /\ tai_close = {q.sessionID}
      BY <2>2, WrittenFacts DEF TxRead
    <3>3. q.sessionID \in Session
      BY DEF StateQuery
    <3>4. TxStreamInv' /\ TxHeldInv'
      BY <3>2 DEF TxStreamInv, TxHeldInv
    <3>5. TxAnswerInv' /\ TxLockInv'
      BY <3>1, <3>2, <3>3 DEF TxAnswerInv, TxLockInv
    <3> QED  BY <3>4, <3>5 DEF TxInv, AtMostOne
  <2> QED  BY <2>1, <2>2
<1>3. LockExclusion'
  BY DEF LockExclusion
<1> QED  BY <1>1, <1>2, <1>3

\* The TX branch serves the access or holds it back.
LEMMA TxBranchInv ==
    ASSUME IInv, TxBranch, UNCHANGED clientVars
    PROVE  IInv'
<1> USE DEF IInv, TxReady, rxPort, tasiPort, timerPort, clientVars
<1> DEFINE q == Head(txReq)
<1>1. txReq \in Seq(StateQuery) /\ txReq # <<>> /\ txHeld = {} /\ txReq' = Tail(txReq)
  BY DEF TypeOK, TxBranch
<1>2. /\ q \in StateQuery /\ q = txReq[1] /\ Len(txReq) \in Nat /\ Len(txReq) >= 1
      /\ txReq' \in Seq(StateQuery) /\ Len(txReq') = Len(txReq) - 1
      /\ \A i \in 1 .. Len(txReq) - 1 : txReq'[i] = txReq[i + 1] /\ i + 1 \in 2 .. Len(txReq)
  BY <1>1, TailFacts
<1>3. txRsp = <<>>
  BY <1>1 DEF TxInv, TxAnswerInv
<1>4. \/ TxOpening(q)
      \/ TxCloseWrite(q)
      \/ TxRead(q) /\ txReq' = <<>>
  <2>1. TxOpening(q) \/ TxCloseWrite(q) \/ (1 = Len(txReq) /\ TxRead(q))
    BY <1>2 DEF TxInv, TxStreamInv
  <2> QED  BY <2>1, <1>2
<1>5. \A i \in 1 .. Len(txReq') :
          TxOpening(txReq'[i]) \/ (i = Len(txReq') /\ TxRead(txReq'[i]))
  <2> SUFFICES ASSUME NEW i \in 1 .. Len(txReq')
               PROVE  TxOpening(txReq'[i]) \/ (i = Len(txReq') /\ TxRead(txReq'[i]))
    OBVIOUS
  <2>1. txReq'[i] = txReq[i + 1] /\ i + 1 \in 1 .. Len(txReq) /\ i + 1 # 1
    BY <1>2
  <2>2. TxOpening(txReq[i + 1]) \/ (i + 1 = Len(txReq) /\ TxRead(txReq[i + 1]))
    BY <2>1 DEF TxInv, TxStreamInv
  <2> QED  BY <2>1, <2>2, <1>2
<1>6. CASE q.sessionID \in rxLock
  <2>1. /\ txHeld' = {q}
        /\ UNCHANGED <<state_table, rxLock, txLock, rxReq, rxRsp, rxHeld, txRsp, tasiReq,
                       tasiRsp, relReq, closeHeld, slRel, fsm_meta, tai_close, tai_state>>
    BY <1>6 DEF TxBranch
  <2>2. txLock = {}
    <3>1. ~TxCloseWrite(q)
      BY <1>6 DEF TxCloseWrite, LockExclusion
    <3> QED  BY <3>1, <1>2, <1>3 DEF TxInv, TxLockInv
  <2>3. TypeOK'
    BY <1>2, <2>1 DEF TypeOK
  <2>4. RxInv'
    BY <2>1, RxFrame
  <2>5. TxHeldInv'
    <3>1. TxOpening(q) \/ (TxRead(q) /\ txReq' = <<>>)
      BY <1>4, <1>6 DEF TxCloseWrite, LockExclusion
    <3> QED  BY <1>2, <2>1, <2>2, <3>1 DEF TxHeldInv, TxOpening, TxRead
  <2>6. TxStreamInv'
    BY <1>5, <2>1 DEF TxStreamInv, TxOpening, TxRead
  <2>7. TxAnswerInv' /\ TxLockInv' /\ AtMostOne(tai_close)'
    BY <1>3, <2>1, <2>2 DEF TxAnswerInv, TxLockInv, TxInv, AtMostOne
  <2> QED  BY <2>1, <2>3, <2>4, <2>5, <2>6, <2>7 DEF TxInv, LockExclusion
<1>7. CASE q.sessionID \notin rxLock
  <2>1. TxPerform(q) /\ txHeld' = {}
    BY <1>1, <1>7 DEF TxBranch
  <2>2. UNCHANGED <<rxLock, rxReq, rxRsp, rxHeld, tasiReq, tasiRsp, relReq, closeHeld,
                    slRel, fsm_meta, tai_close, tai_state>>
    BY DEF TxBranch
  <2>3. q.write \/ (TxRead(q) /\ txReq' = <<>>)
    BY <1>4 DEF TxOpening, TxCloseWrite
  <2>4. RxInv' /\ TxInv' /\ LockExclusion'
    <3> HIDE DEF q
    <3> QED  BY <1>2, <1>3, <1>5, <1>7, <2>1, <2>2, <2>3, TxPerformInv
  <2>5. TypeOK'
    <3>1. state_table' \in [Session -> SessionState]
      BY <1>2, <2>1, WrittenFacts DEF TxPerform
    <3>2. txLock' \in SUBSET Session /\ txRsp' \in Seq(SessionState)
      BY <1>2, <2>1 DEF TxPerform, TypeOK, StateQuery
    <3> QED  BY <1>2, <2>1, <2>2, <3>1, <3>2 DEF TypeOK
  <2> QED  BY <2>4, <2>5
<1> QED  BY <1>6, <1>7

\* The access of tx_app_if that was held back is served.
LEMMA TxWaitBranchInv ==
    ASSUME IInv, TxWaitBranch, UNCHANGED clientVars
    PROVE  IInv'
<1> USE DEF IInv, rxPort, tasiPort, timerPort, clientVars
<1>1. PICK q \in StateQuery :
          /\ txHeld = {q} /\ txLock = {}
          /\ TxOpening(q) \/ (TxRead(q) /\ txReq = <<>>)
  BY DEF TxWaitBranch, TxWaitReady, TxInv, TxHeldInv
<1>2. /\ q.sessionID \notin rxLock /\ TxPerform(q) /\ txHeld' = {}
      /\ UNCHANGED <<txReq, rxLock, rxReq, rxRsp, rxHeld, tasiReq, tasiRsp, relReq,
                     closeHeld, slRel, fsm_meta, tai_close, tai_state>>
  BY <1>1 DEF TxWaitBranch
<1>3. txRsp = <<>>
  BY <1>1 DEF TxInv, TxAnswerInv
<1>4. \A i \in 1 .. Len(txReq') :
          TxOpening(txReq'[i]) \/ (i = Len(txReq') /\ TxRead(txReq'[i]))
  BY <1>1, <1>2 DEF TxInv, TxStreamInv, TxCloseWrite
<1>5. RxInv' /\ TxInv' /\ LockExclusion'
  BY <1>1, <1>2, <1>3, <1>4, TxPerformInv DEF TxOpening
<1>6. TypeOK'
  <2>1. state_table' \in [Session -> SessionState]
    BY <1>2, WrittenFacts DEF TxPerform
  <2>2. txLock' \in SUBSET Session /\ txRsp' \in Seq(SessionState)
    BY <1>2 DEF TxPerform, TypeOK, StateQuery
  <2> QED  BY <1>2, <2>1, <2>2 DEF TypeOK
<1> QED  BY <1>5, <1>6

\* The write of a packet's transition is served: the session is unlocked.
LEMMA RxWriteInv ==
    ASSUME IInv, NEW q \in StateQuery, RxPerform(q), RxWriteInFlight(q),
           rxHeld = {}, rxRsp = <<>>,
           \/ fsm_meta = {} /\ rxReq' = <<>>
           \/ \E m \in FsmMeta : fsm_meta = {m} /\ rxReq' = <<ReadQuery(m.sessionID)>>,
           UNCHANGED <<rxHeld, txLock, txReq, txRsp, txHeld, fsm_meta, tai_close>>
    PROVE  RxInv' /\ TxInv' /\ LockExclusion'
<1> USE DEF IInv, RxPerform, RxWriteInFlight
<1>1. rxLock' = {} /\ rxRsp' = <<>>
  OBVIOUS
<1>2. RxInv'
  BY <1>1 DEF RxInv, RxIdle, RxReading
<1>3. TxInv'
  <2>1. \A s \in txLock : state_table'[s] = state_table[s]
    BY WrittenFacts DEF LockExclusion, TypeOK
  <2> QED  BY <2>1, TxFrame
<1> QED  BY <1>1, <1>2, <1>3 DEF LockExclusion

\* The read of a packet's session is served: the session is locked.
LEMMA RxReadInv ==
    ASSUME IInv, NEW m \in FsmMeta, fsm_meta = {m},
           RxPerform(ReadQuery(m.sessionID)),
           m.sessionID \notin txLock,
           rxRsp = <<>>, rxHeld' = {}, rxReq' = <<>>,
           UNCHANGED <<txLock, txReq, txRsp, txHeld, fsm_meta, tai_close>>
    PROVE  RxInv' /\ TxInv' /\ LockExclusion'
<1> USE DEF IInv, RxPerform
<1>1. /\ rxLock' = {m.sessionID} /\ rxRsp' = <<state_table[m.sessionID]>>
      /\ state_table' = state_table
  BY DEF ReadQuery, Written
<1>2. RxInv'
  BY <1>1 DEF RxInv, RxAnswered
<1>3. TxInv'
  BY <1>1, TxFrame
<1> QED  BY <1>1, <1>2, <1>3 DEF LockExclusion

\* An access of the RX engine that is served keeps the types.
LEMMA RxPerformType ==
    ASSUME TypeOK, NEW q \in StateQuery, RxPerform(q)
    PROVE  /\ state_table' \in [Session -> SessionState]
           /\ rxLock' \in SUBSET Session
           /\ rxRsp' \in Seq(SessionState) /\ slRel' \in Seq(Session)
<1>1. state_table' \in [Session -> SessionState]
  BY WrittenFacts DEF RxPerform
<1>2. q.sessionID \in Session /\ state_table[q.sessionID] \in SessionState
  BY DEF StateQuery, TypeOK
<1> QED  BY <1>1, <1>2 DEF RxPerform, TypeOK

\* What the RX branch can find at the head of the stream.
LEMMA RxHead ==
    ASSUME IInv, rxReq # <<>>, rxHeld = {}
    PROVE  /\ rxRsp = <<>> /\ Head(rxReq) \in StateQuery /\ Tail(rxReq) \in Seq(StateQuery)
           /\ \/ /\ RxWriteInFlight(Head(rxReq))
                 /\ \/ fsm_meta = {} /\ Tail(rxReq) = <<>>
                    \/ \E m \in FsmMeta : /\ fsm_meta = {m}
                                          /\ Tail(rxReq) = <<ReadQuery(m.sessionID)>>
              \/ /\ rxLock = {} /\ Tail(rxReq) = <<>>
                 /\ \E m \in FsmMeta : fsm_meta = {m} /\ Head(rxReq) = ReadQuery(m.sessionID)
<1>1. Head(rxReq) \in StateQuery /\ Tail(rxReq) \in Seq(StateQuery)
  BY DEF IInv, TypeOK
<1>2. CASE fsm_meta = {}
  <2>1. rxRsp = <<>> /\ RxWriting
    BY <1>2 DEF IInv, RxInv, RxIdle
  <2> QED  BY <1>1, <1>2, <2>1 DEF RxWriting
<1>3. ASSUME NEW m \in FsmMeta, fsm_meta = {m}, rxRsp = <<>>, RxReading(m) \/ RxWriteRead(m)
      PROVE  \/ RxWriteInFlight(Head(rxReq)) /\ Tail(rxReq) = <<ReadQuery(m.sessionID)>>
             \/ rxLock = {} /\ Tail(rxReq) = <<>> /\ Head(rxReq) = ReadQuery(m.sessionID)
  <2>1. CASE RxReading(m)
    BY <2>1 DEF RxReading
  <2>2. CASE RxWriteRead(m)
    BY <2>2 DEF RxWriteRead
  <2> QED  BY <1>3, <2>1, <2>2
<1>4. CASE fsm_meta # {}
  <2>1. PICK m \in FsmMeta :
            fsm_meta = {m} /\ rxRsp = <<>> /\ (RxReading(m) \/ RxWriteRead(m))
    BY <1>4 DEF IInv, RxInv, RxHeldBack, RxAnswered
  <2> QED  BY <1>1, <1>3, <2>1
<1> QED  BY <1>2, <1>4

\* The RX branch serves a write, and serves a read or holds it back.
LEMMA RxBranchInv ==
    ASSUME IInv, RxBranch, UNCHANGED clientVars
    PROVE  IInv'
<1> USE DEF txPort, tasiPort, timerPort, clientVars
<1> DEFINE q == Head(rxReq)
<1>1. rxReq # <<>> /\ rxHeld = {} /\ rxReq' = Tail(rxReq)
  BY DEF RxBranch, RxReady
<1>2. q \in StateQuery /\ rxReq' \in Seq(StateQuery) /\ rxRsp = <<>>
  BY <1>1, RxHead
<1>3. UNCHANGED <<txLock, txReq, txRsp, txHeld, tasiReq, tasiRsp, relReq, closeHeld,
                  fsm_meta, tai_close, tai_state>>
  BY DEF RxBranch
<1>4. CASE q.sessionID \in txLock
  <2>1. rxHeld' = {q} /\ UNCHANGED <<state_table, rxLock, rxRsp, slRel>>
    BY <1>4 DEF RxBranch
  <2>2. ~RxWriteInFlight(q)
    BY <1>4 DEF IInv, RxWriteInFlight, LockExclusion
  <2>3. RxInv'
    <3>1. PICK m \in FsmMeta : fsm_meta = {m} /\ q = ReadQuery(m.sessionID)
      BY <1>1, <2>2, RxHead
    <3>2. rxLock = {} /\ rxReq' = <<>>
      BY <1>1, <2>2, RxHead
    <3> QED  BY <1>2, <1>3, <2>1, <3>1, <3>2 DEF RxInv, RxHeldBack
  <2>4. TxInv'
    BY <1>3, <2>1, TxFrame DEF IInv
  <2>5. TypeOK'
    BY <1>2, <1>3, <2>1 DEF IInv, TypeOK
  <2> QED  BY <1>3, <2>1, <2>3, <2>4, <2>5 DEF IInv, LockExclusion
<1>5. CASE q.sessionID \notin txLock
  <2>1. RxPerform(q) /\ rxHeld' = {}
    BY <1>1, <1>5 DEF RxBranch
  <2>2. TypeOK'
    BY <1>2, <1>3, <2>1, RxPerformType DEF IInv, TypeOK
  <2>3. RxInv' /\ TxInv' /\ LockExclusion'
    <3> HIDE DEF q
    <3>1. CASE RxWriteInFlight(q)
      <4>1. \/ fsm_meta = {} /\ rxReq' = <<>>
            \/ \E m \in FsmMeta : fsm_meta = {m} /\ rxReq' = <<ReadQuery(m.sessionID)>>
            \/ rxLock = {}
        BY <1>1, RxHead
      <4>2. rxLock # {}
        BY <3>1 DEF RxWriteInFlight
      <4> QED  BY <1>1, <1>2, <1>3, <2>1, <3>1, <4>1, <4>2, RxWriteInv
    <3>2. CASE ~RxWriteInFlight(q)
      <4>1. PICK m \in FsmMeta : fsm_meta = {m} /\ q = ReadQuery(m.sessionID)
        BY <1>1, <3>2, RxHead DEF q
      <4>2. rxReq' = <<>>
        BY <1>1, <3>2, RxHead DEF q
      <4>3. m.sessionID \notin txLock
        BY <1>5, <4>1 DEF ReadQuery
      <4> QED  BY <1>2, <1>3, <2>1, <4>1, <4>2, <4>3, RxReadInv
    <3> QED  BY <3>1, <3>2
  <2> QED  BY <2>2, <2>3 DEF IInv
<1> QED  BY <1>4, <1>5

\* The read of the RX engine that was held back is served.
LEMMA RxWaitBranchInv ==
    ASSUME IInv, RxWaitBranch, UNCHANGED clientVars
    PROVE  IInv'
<1> USE DEF txPort, tasiPort, timerPort, clientVars
<1>1. PICK m \in FsmMeta : fsm_meta = {m} /\ RxHeldBack(m)
  BY DEF RxWaitBranch, RxWaitReady, IInv, RxInv, RxAnswered
<1> DEFINE q == ReadQuery(m.sessionID)
<1>2. q \in StateQuery
  BY DEF ReadQuery, StateQuery, SessionState, FsmMeta
<1>3. rxHeld = {q} /\ q.sessionID = m.sessionID
  BY <1>1 DEF RxHeldBack, ReadQuery
<1>4. q.sessionID \notin txLock /\ RxPerform(q)
  <2> HIDE DEF q
  <2> QED  BY <1>3 DEF RxWaitBranch
<1>5. /\ m.sessionID \notin txLock /\ RxPerform(q) /\ rxHeld' = {}
      /\ rxRsp = <<>> /\ rxReq' = <<>>
      /\ UNCHANGED <<rxReq, txLock, txReq, txRsp, txHeld, tasiReq, tasiRsp, relReq,
                     closeHeld, fsm_meta, tai_close, tai_state>>
  BY <1>1, <1>3, <1>4 DEF RxWaitBranch, RxHeldBack
<1>6. RxInv' /\ TxInv' /\ LockExclusion'
  BY <1>1, <1>5, RxReadInv
<1>7. TypeOK'
  BY <1>2, <1>5, RxPerformType DEF IInv, TypeOK
<1> QED  BY <1>6, <1>7 DEF IInv

\* A timer's release that is served or held back.
LEMMA CloseInv ==
    ASSUME IInv, NEW s \in Session,
           \/ ClosePerform(s) /\ s \notin rxLock \union txLock
           \/ UNCHANGED <<state_table, slRel>>,
           closeHeld' \in SUBSET Session, relReq' \in Seq(Session),
           UNCHANGED <<rxLock, txLock, rxReq, rxRsp, rxHeld, txReq, txRsp, txHeld,
                       tasiReq, tasiRsp, fsm_meta, tai_close, tai_state>>
    PROVE  IInv'
<1> USE DEF IInv
<1>1. /\ \A t \in rxLock \union txLock : state_table'[t] = state_table[t]
      /\ state_table' \in [Session -> SessionState] /\ slRel' \in Seq(Session)
  <2>1. CASE ClosePerform(s) /\ s \notin rxLock \union txLock
    <3>1. state_table' = [state_table EXCEPT ![s] = "CLOSED"] /\ slRel' = Append(slRel, s)
      BY <2>1 DEF ClosePerform
    <3>2. \A t \in Session : t # s => state_table'[t] = state_table[t]
      BY <3>1 DEF TypeOK
    <3>3. state_table' \in [Session -> SessionState] /\ slRel' \in Seq(Session)
      BY <3>1 DEF TypeOK, SessionState
    <3> QED  BY <2>1, <3>2, <3>3 DEF TypeOK
  <2>2. CASE UNCHANGED <<state_table, slRel>>
    BY <2>2 DEF TypeOK
  <2> QED  BY <2>1, <2>2
<1>2. RxInv'
  BY <1>1, RxFrame
<1>3. TxInv'
  BY <1>1, TxFrame
<1>4. TypeOK'
  BY <1>1 DEF TypeOK
<1> QED  BY <1>2, <1>3, <1>4 DEF LockExclusion

\* The branches that touch none of the streams of the two clients that lock.
LEMMA TimerBranchesInv ==
    ASSUME IInv, TasiBranch \/ TimerBranch \/ CloseWaitBranch, UNCHANGED clientVars
    PROVE  IInv'
<1> USE DEF rxPort, txPort, tasiPort, timerPort, clientVars
<1>1. CASE TasiBranch
  <2>1. UNCHANGED <<state_table, rxLock, txLock, rxReq, rxRsp, rxHeld, txReq, txRsp,
                    txHeld, fsm_meta, tai_close>>
    BY <1>1 DEF TasiBranch
  <2>2. TypeOK'
    BY <1>1 DEF TasiBranch, TasiReady, IInv, TypeOK
  <2>3. RxInv' /\ TxInv'
    BY <2>1, RxFrame, TxFrame DEF IInv
  <2> QED  BY <2>1, <2>2, <2>3 DEF IInv, LockExclusion
<1>2. CASE TimerBranch
  <2> DEFINE s == Head(relReq)
  <2>1. s \in Session /\ relReq' \in Seq(Session) /\ closeHeld = {}
    BY <1>2 DEF TimerBranch, TimerReady, IInv, TypeOK
  <2>2. /\ \/ ClosePerform(s) /\ s \notin rxLock \union txLock /\ closeHeld' = closeHeld
           \/ UNCHANGED <<state_table, slRel>> /\ closeHeld' = {s}
        /\ UNCHANGED <<rxLock, txLock, rxReq, rxRsp, rxHeld, txReq, txRsp, txHeld,
                       tasiReq, tasiRsp, fsm_meta, tai_close, tai_state>>
    BY <1>2 DEF TimerBranch
  <2> QED
    <3> HIDE DEF s
    <3> QED  BY <2>1, <2>2, CloseInv
<1>3. CASE CloseWaitBranch
  <2>1. PICK s \in closeHeld : ClosePerform(s) /\ s \notin rxLock \union txLock
    BY <1>3 DEF CloseWaitBranch
  <2>2. s \in Session /\ relReq \in Seq(Session)
    BY DEF IInv, TypeOK
  <2>3. UNCHANGED <<relReq, rxLock, txLock, rxReq, rxRsp, rxHeld, txReq, txRsp, txHeld,
                    tasiReq, tasiRsp, fsm_meta, tai_close, tai_state>> /\ closeHeld' = {}
    BY <1>3 DEF CloseWaitBranch
  <2> QED  BY <2>1, <2>2, <2>3, CloseInv
<1> QED  BY <1>1, <1>2, <1>3

-----------------------------------------------------------------------------
(***************************************************************************)
(* The invariant.                                                          *)
(***************************************************************************)
\* Nothing is in flight initially.
LEMMA InitIInv == ASSUME Init PROVE IInv
<1> USE DEF Init, StInit
<1>1. TypeOK
  BY DEF TypeOK, SessionState
<1>2. RxInv
  BY DEF RxInv, RxIdle
<1>3. TxInv
  BY DEF TxInv, AtMostOne, TxStreamInv, TxHeldInv, TxAnswerInv, TxLockInv
<1> QED  BY <1>1, <1>2, <1>3 DEF IInv, LockExclusion

\* Every step keeps what is in flight as described.
LEMMA NextIInv == ASSUME IInv, [Next]_connVars PROVE IInv'
<1>1. CASE TableNext
  BY <1>1, TxBranchInv, RxBranchInv, TxWaitBranchInv, RxWaitBranchInv, TimerBranchesInv
     DEF TableNext, StateTableStep
<1>2. CASE ClientNext
  BY <1>2, RxLoadInv, RxTransitionInv, TxOpenInv, TxCloseRequestInv, TxCloseConnInv,
     OtherClientsInv DEF ClientNext
<1>3. CASE UNCHANGED connVars
  <2>1. RxInv'
    BY <1>3, RxFrame DEF IInv, connVars, stVars, clientVars, rxPort
  <2>2. TxInv'
    BY <1>3, TxFrame DEF IInv, connVars, stVars, clientVars, txPort
  <2>3. TypeOK' /\ LockExclusion'
    BY <1>3 DEF IInv, TypeOK, LockExclusion, connVars, stVars, clientVars, rxPort, txPort,
                tasiPort, timerPort
  <2> QED  BY <2>1, <2>2, <2>3 DEF IInv
<1> QED  BY <1>1, <1>2, <1>3 DEF Next

\* The description of what is in flight between the table and its clients
\* holds in every state.
THEOREM Invariance == Spec => []IInv
<1> QED  BY InitIInv, NextIInv, PTL DEF Spec

\* No stream, lock or table entry ever holds a value of a wrong type.
THEOREM TypeCorrect == Spec => []TypeOK
<1>1. IInv => TypeOK
  BY DEF IInv
<1> QED  BY <1>1, Invariance, PTL

\* rxTcpFSM and tx_app_if never hold the lock of the same session.
THEOREM Exclusion == Spec => []LockExclusion
<1>1. IInv => LockExclusion
  BY DEF IInv
<1> QED  BY <1>1, Invariance, PTL

\* A state that has been read is still the state of the session when the
\* client decides on it.
THEOREM Snapshots == Spec => []SnapshotsCurrent
<1>1. ASSUME IInv PROVE SnapshotsCurrent
  <2>1. rxRsp # <<>> => \E m \in fsm_meta : rxRsp = <<state_table[m.sessionID]>>
    BY <1>1 DEF IInv, RxInv, RxHeldBack, RxAnswered
  <2>2. txRsp # <<>> => \E s \in tai_close : txRsp = <<state_table[s]>>
    BY <1>1 DEF IInv, TxInv, TxAnswerInv
  <2> QED  BY <2>1, <2>2 DEF SnapshotsCurrent
<1> QED  BY <1>1, Invariance, PTL

-----------------------------------------------------------------------------
(***************************************************************************)
(* Refinement: every step is one atomic update or leaves the states and    *)
(* the releases alone.                                                     *)
(***************************************************************************)
AtomicDone == Atomic!Next \/ UNCHANGED Atomic!vars

\* An access of tx_app_if is an open, a close, or changes nothing.
LEMMA TxPerformRefines ==
    ASSUME TypeOK, NEW q \in StateQuery, TxPerform(q), UNCHANGED slRel,
           ~q.write \/ TxOpening(q) \/ TxCloseWrite(q)
    PROVE  AtomicDone
<1>1. q.sessionID \in Session
  BY DEF StateQuery
<1>2. CASE ~q.write
  BY <1>2 DEF TxPerform, Written, AtomicDone, Atomic!vars
<1>3. CASE TxOpening(q)
  <2>1. Atomic!Open(q.sessionID)
    BY <1>3 DEF TxOpening, TxPerform, Written, Atomic!Open
  <2> QED  BY <1>1, <2>1 DEF AtomicDone, Atomic!Next
<1>4. CASE TxCloseWrite(q)
  <2>1. Atomic!Close(q.sessionID)
    BY <1>4 DEF TxCloseWrite, TxPerform, Written, Atomic!Close
  <2> QED  BY <1>1, <2>1 DEF AtomicDone, Atomic!Next
<1> QED  BY <1>2, <1>3, <1>4

\* An access of the RX engine is a transition of the state machine, or
\* changes nothing.
LEMMA RxPerformRefines ==
    ASSUME TypeOK, NEW q \in StateQuery, RxPerform(q),
           ~q.write \/ RxWriteInFlight(q)
    PROVE  AtomicDone
<1>1. q.sessionID \in Session
  BY DEF StateQuery
<1>2. CASE ~q.write
  BY <1>2 DEF RxPerform, Written, AtomicDone, Atomic!vars
<1>3. CASE RxWriteInFlight(q)
  <2>1. Atomic!RxUpdate(q.sessionID)
    BY <1>3 DEF RxWriteInFlight, RxPerform, Written, Atomic!RxUpdate
  <2> QED  BY <1>1, <2>1 DEF AtomicDone, Atomic!Next
<1> QED  BY <1>2, <1>3

\* The release by a timer is a step of the abstract specification.
LEMMA TimeOutRefines ==
    ASSUME NEW s \in Session, ClosePerform(s)
    PROVE  AtomicDone
<1>1. Atomic!TimeOut(s)
  BY DEF ClosePerform, Atomic!TimeOut
<1> QED  BY <1>1 DEF AtomicDone, Atomic!Next

\* Every branch of the table is a step of the abstract specification or none.
LEMMA TableRefines == ASSUME IInv, TableNext PROVE AtomicDone
<1> USE DEF TableNext
<1>1. CASE TxBranch
  <2>1. txReq # <<>> /\ txHeld = {} /\ txReq \in Seq(StateQuery)
    BY <1>1 DEF TxBranch, TxReady, IInv, TypeOK
  <2>2. Head(txReq) \in StateQuery /\ Head(txReq) = txReq[1] /\ 1 \in 1 .. Len(txReq)
    BY <2>1
  <2>3. \/ ~Head(txReq).write \/ TxOpening(Head(txReq)) \/ TxCloseWrite(Head(txReq))
    BY <2>2 DEF IInv, TxInv, TxStreamInv, TxRead
  <2>4. CASE TxPerform(Head(txReq))
    BY <1>1, <2>2, <2>3, <2>4, TxPerformRefines DEF IInv, TxBranch
  <2>5. CASE UNCHANGED state_table
    BY <1>1, <2>5 DEF TxBranch, AtomicDone, Atomic!vars
  <2> QED  BY <1>1, <2>4, <2>5 DEF TxBranch
<1>2. CASE TasiBranch
  BY <1>2 DEF TasiBranch, AtomicDone, Atomic!vars
<1>3. CASE RxBranch
  <2>1. Head(rxReq) \in StateQuery /\ (~Head(rxReq).write \/ RxWriteInFlight(Head(rxReq)))
    BY <1>3, RxHead DEF RxBranch, RxReady, ReadQuery
  <2>2. CASE RxPerform(Head(rxReq))
    BY <2>1, <2>2, RxPerformRefines DEF IInv
  <2>3. CASE UNCHANGED <<state_table, slRel>>
    BY <2>3 DEF AtomicDone, Atomic!vars
  <2> QED  BY <1>3, <2>2, <2>3 DEF RxBranch
<1>4. CASE TimerBranch
  <2>1. Head(relReq) \in Session
    BY <1>4 DEF TimerBranch, TimerReady, IInv, TypeOK
  <2>2. CASE ClosePerform(Head(relReq))
    BY <2>1, <2>2, TimeOutRefines
  <2>3. CASE UNCHANGED <<state_table, slRel>>
    BY <2>3 DEF AtomicDone, Atomic!vars
  <2> QED  BY <1>4, <2>2, <2>3 DEF TimerBranch
<1>5. CASE TxWaitBranch
  <2>1. PICK q \in txHeld : TxPerform(q)
    BY <1>5 DEF TxWaitBranch
  <2>2. q \in StateQuery /\ (~q.write \/ TxOpening(q))
    BY DEF IInv, TxInv, TxHeldInv, TxRead
  <2> QED  BY <1>5, <2>1, <2>2, TxPerformRefines DEF IInv, TxWaitBranch
<1>6. CASE RxWaitBranch
  <2>1. PICK q \in rxHeld : RxPerform(q)
    BY <1>6 DEF RxWaitBranch
  <2>2. q \in StateQuery /\ ~q.write
    BY DEF IInv, TypeOK, RxInv, RxHeldBack, RxAnswered, ReadQuery
  <2> QED  BY <2>1, <2>2, RxPerformRefines DEF IInv
<1>7. CASE CloseWaitBranch
  BY <1>7, TimeOutRefines DEF CloseWaitBranch, IInv, TypeOK
<1> QED  BY <1>1, <1>2, <1>3, <1>4, <1>5, <1>6, <1>7 DEF StateTableStep

\* Every step is: those of the clients, but for the session lookup, are none.
LEMMA NextRefines == ASSUME IInv, [Next]_connVars PROVE AtomicDone
<1>1. CASE TableNext
  BY <1>1, TableRefines
<1>2. CASE LookupTakesRelease
  <2>1. Atomic!TakeRelease
    BY <1>2 DEF LookupTakesRelease, Atomic!TakeRelease
  <2> QED  BY <2>1 DEF AtomicDone, Atomic!Next
<1>3. CASE ClientNext /\ ~LookupTakesRelease
  BY <1>3 DEF ClientNext, RxLoad, RxTransition, TxOpen, TxCloseRequest, TxCloseConn,
              TasiRequest, TasiMeta, TimerRelease, AtomicDone, Atomic!vars
<1>4. CASE UNCHANGED connVars
  BY <1>4 DEF connVars, stVars, AtomicDone, Atomic!vars
<1> QED  BY <1>1, <1>2, <1>3, <1>4 DEF Next

\* The table, its locks and its clients implement atomic state updates.
THEOREM Refinement == Spec => AtomicUpdates
<1>1. Init => Atomic!Init
  BY DEF Init, StInit, Atomic!Init
<1>2. IInv /\ [Next]_connVars => [Atomic!Next]_(Atomic!vars)
  BY NextRefines DEF AtomicDone
<1> QED  BY <1>1, <1>2, Invariance, PTL DEF Spec, AtomicUpdates, Atomic!Spec

-----------------------------------------------------------------------------
(***************************************************************************)
(* Action properties, from the refinement.                                 *)
(***************************************************************************)
\* What one step can make of the state of a session.
LEMMA StateSteps ==
    ASSUME IInv, [Next]_connVars, NEW s \in Session
    PROVE  \/ state_table'[s] \in {state_table[s], "CLOSED", "SYN_SENT"}
           \/ state_table'[s] = CloseTarget(state_table[s])
           \/ state_table'[s] \in RxTargets[state_table[s]]
<1>1. state_table \in [Session -> SessionState]
  BY DEF IInv, TypeOK
<1>2. Atomic!Next \/ UNCHANGED state_table
  BY NextRefines DEF AtomicDone, Atomic!vars
<1>3. ASSUME NEW t \in Session, Atomic!RxUpdate(t)
      PROVE  state_table'[s] \in {state_table[s]} \union RxTargets[state_table[s]]
  BY <1>1, <1>3 DEF Atomic!RxUpdate
<1>4. ASSUME NEW t \in Session, Atomic!Close(t)
      PROVE  state_table'[s] \in {state_table[s], CloseTarget(state_table[s])}
  BY <1>1, <1>4 DEF Atomic!Close
<1>5. ASSUME NEW t \in Session, Atomic!Open(t) \/ Atomic!TimeOut(t)
      PROVE  state_table'[s] \in {state_table[s], "CLOSED", "SYN_SENT"}
  BY <1>1, <1>5 DEF Atomic!Open, Atomic!TimeOut
<1> QED  BY <1>2, <1>3, <1>4, <1>5 DEF Atomic!Next, Atomic!TakeRelease

\* A late write never revives a closed session.
THEOREM ClosedStays == Spec => NoResurrection
<1>1. ASSUME IInv, [Next]_connVars, NEW s \in Session, state_table[s] = "CLOSED"
      PROVE  state_table'[s] \in {"CLOSED", "SYN_RECEIVED", "SYN_SENT"}
  <2>1. "CLOSED" \in SessionState
    BY DEF SessionState
  <2> QED  BY <1>1, <2>1, StateSteps, RxTargetsFacts, CloseTargetFacts
<1>2. IInv /\ [Next]_connVars =>
        [\A s \in Session :
            state_table[s] = "CLOSED" =>
                state_table'[s] \in {"CLOSED", "SYN_RECEIVED", "SYN_SENT"}]_connVars
  BY <1>1
<1> QED  BY <1>2, Invariance, PTL DEF Spec, NoResurrection

\* Once its FIN is sent, a session does not return to the data transfer.
THEOREM FinStays == Spec => FinIsFinal
<1>1. ASSUME IInv, [Next]_connVars, NEW s \in Session, state_table[s] \in FinSent
      PROVE  state_table'[s] \notin {"ESTABLISHED", "SYN_RECEIVED"}
  <2>1. state_table[s] \in SessionState
    BY <1>1 DEF IInv, TypeOK
  <2> QED  BY <1>1, <2>1, StateSteps, RxTargetsFacts, CloseTargetFacts DEF FinSent
<1>2. IInv /\ [Next]_connVars =>
        [\A s \in Session :
            state_table[s] \in {"FIN_WAIT_1", "CLOSING", "TIME_WAIT", "LAST_ACK"} =>
                state_table'[s] \notin {"ESTABLISHED", "SYN_RECEIVED"}]_connVars
  BY <1>1 DEF FinSent
<1> QED  BY <1>2, Invariance, PTL DEF Spec, FinIsFinal
=============================================================================
