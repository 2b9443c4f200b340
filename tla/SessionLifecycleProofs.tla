----------------------- MODULE SessionLifecycleProofs -----------------------
(***************************************************************************)
(* SessionLifecycle for any number of sessions, any depth of the streams   *)
(* and any kinds of packets: types, and the safety properties.             *)
(***************************************************************************)
EXTENDS SessionLifecycle, SequenceTheorems, TLAPS

-----------------------------------------------------------------------------
(***************************************************************************)
(* What one packet can do                                                  *)
(***************************************************************************)
\* One transition of rxTcpFSM yields a state.
LEMMA OutcomeState ==
    ASSUME NEW p \in Packet, NEW st \in SessionState, NEW r \in Relation
    PROVE  RxOutcome(p, st, r).state \in SessionState
<1>1. CASE p.kind = "ACK"
  BY <1>1 DEF RxOutcome, AckOutcome, AckState, WriteBack, SessionState
<1>2. CASE p.kind = "SYN"
  BY <1>2 DEF RxOutcome, SynOutcome, WriteBack, SessionState
<1>3. CASE p.kind = "SYN_ACK"
  BY <1>3 DEF RxOutcome, SynAckOutcome, WriteBack, SessionState
<1>4. CASE p.kind = "FIN_ACK"
  BY <1>4 DEF RxOutcome, FinOutcome, FinState, WriteBack, SessionState
<1>5. CASE p.kind = "RST"
  BY <1>5 DEF RxOutcome, RstOutcome, WriteBack, SessionState
<1>6. CASE p.kind = "OTHER"
  BY <1>6 DEF RxOutcome, WriteBack, SessionState
<1> QED  BY <1>1, <1>2, <1>3, <1>4, <1>5, <1>6 DEF Packet, Kind

\* A close request leads to a state, and never away from CLOSED or back to a
\* state of the data transfer.
LEMMA CloseTargetFacts ==
    ASSUME NEW st \in SessionState
    PROVE  /\ CloseTarget(st) \in SessionState
           /\ CloseTarget(st) \in {st, "FIN_WAIT_1"}
           /\ st = "CLOSED" => CloseTarget(st) = "CLOSED"
BY DEF CloseTarget, ClosableState, SessionState

\* TIME_WAIT is entered with its close timer set; only a session that is
\* SYN_SENT stays so, and only such a one is reported open.
LEMMA OutcomeFacts ==
    ASSUME NEW p \in Packet, NEW st \in SessionState, NEW r \in Relation
    PROVE  LET o == RxOutcome(p, st, r)
           IN  /\ TxEvent(o) \in {"none", "SYN_ACK", "FIN", "RT"}
               /\ o.clearRt \in {"none", "restart", "stop"}
               /\ o.setClose \in BOOLEAN
               /\ o.open \in {"none", "opened", "refused"}
               /\ o.state = "TIME_WAIT" => st = "TIME_WAIT" \/ o.setClose
               /\ o.open = "opened" => st = "SYN_SENT"
               /\ o.state = "SYN_SENT" => st = "SYN_SENT" /\ o.open = "none"
<1> DEFINE o == RxOutcome(p, st, r)
<1>0. r.ackNext \in BOOLEAN /\ r.inOrder \in BOOLEAN  BY DEF Relation
<1>1. TxEvent(o) \in {"none", "SYN_ACK", "FIN", "RT"}  BY DEF TxEvent
<1>2. CASE p.kind = "ACK"
  BY <1>0, <1>1, <1>2 DEF RxOutcome, AckOutcome, AckState, AckClearRt, WriteBack
<1>3. CASE p.kind = "SYN"
  BY <1>1, <1>3 DEF RxOutcome, SynOutcome, WriteBack
<1>4. CASE p.kind = "SYN_ACK"
  BY <1>1, <1>4 DEF RxOutcome, SynAckOutcome, WriteBack
<1>5. CASE p.kind = "FIN_ACK"
  BY <1>0, <1>1, <1>5 DEF RxOutcome, FinOutcome, FinState, WriteBack
<1>6. CASE p.kind = "RST"
  BY <1>1, <1>6 DEF RxOutcome, RstOutcome, WriteBack
<1>7. CASE p.kind = "OTHER"
  BY <1>1, <1>7 DEF RxOutcome, WriteBack
<1> QED  BY <1>2, <1>3, <1>4, <1>5, <1>6, <1>7 DEF Packet, Kind

LEMMA EffectFacts ==
    ASSUME NEW k \in Kind, NEW st \in SessionState, NEW o \in Effects[k][st]
    PROVE  /\ o.state \in SessionState
           /\ o.event \in {"none", "SYN_ACK", "FIN", "RT"}
           /\ o.clearRt \in {"none", "restart", "stop"}
           /\ o.setClose \in BOOLEAN
           /\ o.open \in {"none", "opened", "refused"}
           /\ o.state = "TIME_WAIT" => st = "TIME_WAIT" \/ o.setClose
           /\ o.open = "opened" => st = "SYN_SENT"
           /\ o.state = "SYN_SENT" => st = "SYN_SENT" /\ o.open = "none"
<1>1. Effects[k][st] = {Effect(RxOutcome(p, st, r)) : p \in {q \in Packet : q.kind = k},
                                                      r \in Relation}
  BY DEF Effects
<1>2. PICK p \in Packet, r \in Relation : o = Effect(RxOutcome(p, st, r))  BY <1>1
<1>3. RxOutcome(p, st, r).state \in SessionState  BY OutcomeState
<1> QED  BY <1>2, <1>3, OutcomeFacts DEF Effect

-----------------------------------------------------------------------------
(***************************************************************************)
(* Types                                                                   *)
(***************************************************************************)
\* A stream of the model with elements of S.
Queue(q, S) == q \in Seq(S) /\ Len(q) <= TimerDepth

Meta  == [sessionID : Session, kind : PacketKind]
Event == [type : EventType, sessionID : Session]
Clear == [sessionID : Session, stop : BOOLEAN]
Timer == [active : BOOLEAN, retries : 0 .. Retries, type : {"SYN", "SYN_ACK", "RT"}]

Typed ==
    /\ tupleValid \in [Session -> BOOLEAN] /\ closeActive \in [Session -> BOOLEAN]
    /\ state_table \in [Session -> SessionState]
    /\ fsmMeta \in Seq(Meta) /\ Len(fsmMeta) <= Depth
    /\ Queue(events, Event) /\ Queue(clearRt, Clear)
    /\ Queue(lookupRsp, Session) /\ Queue(setClose, Session)
    /\ Queue(relReq, Session) /\ Queue(slRel, Session)
    /\ rtTable \in [Session -> Timer]
    /\ opening \in [Session -> {"none", "asked", "opened", "refused"}]

LEMMA Types == TypeOK <=> Typed
BY DEF TypeOK, Typed, Queue, Meta, Event, Clear, Timer

LEMMA QueueAppend ==
    ASSUME NEW S, NEW q, Queue(q, S), Room(q), NEW e \in S
    PROVE  Queue(Append(q, e), S)
BY LifecycleAssumption, AppendProperties DEF Queue, Room

LEMMA QueuePut ==
    ASSUME NEW S, NEW q, Queue(q, S), Room(q), NEW write \in BOOLEAN, NEW e, write => e \in S
    PROVE  Queue(Put(q, write, e), S)
<1>1. CASE write  BY <1>1, QueueAppend DEF Put
<1>2. CASE ~write  BY <1>2 DEF Put
<1> QED  BY <1>1, <1>2

LEMMA QueueTail ==
    ASSUME NEW S, NEW q, Queue(q, S), q # <<>>
    PROVE  Head(q) \in S /\ Queue(Tail(q), S)
<1>1. q \in Seq(S) /\ Len(q) <= TimerDepth /\ Len(q) \in Nat  BY LenProperties DEF Queue
<1>2. Head(q) \in S /\ Tail(q) \in Seq(S) /\ Len(Tail(q)) = Len(q) - 1
  BY <1>1, HeadTailProperties
<1> QED  BY <1>1, <1>2, LifecycleAssumption DEF Queue

LEMMA InitType == Init => Typed
<1> SUFFICES ASSUME Init PROVE Typed  OBVIOUS
<1>1. \A S : Queue(<<>>, S)  BY LifecycleAssumption DEF Queue
<1>2. rtTable \in [Session -> Timer]  BY LifecycleAssumption DEF Init, Timer
<1>3. fsmMeta \in Seq(Meta) /\ Len(fsmMeta) <= Depth  BY LifecycleAssumption DEF Init
<1> QED  BY <1>1, <1>2, <1>3 DEF Typed, Init, SessionState

LEMMA RxFsmType == ASSUME Typed, RxFsm PROVE Typed'
<1> DEFINE s == Head(fsmMeta).sessionID
           k == Head(fsmMeta).kind
<1>1. Head(fsmMeta) \in Meta /\ Tail(fsmMeta) \in Seq(Meta) /\ Len(Tail(fsmMeta)) <= Depth
  <2>1. fsmMeta \in Seq(Meta) /\ fsmMeta # <<>> /\ Len(fsmMeta) <= Depth /\ Len(fsmMeta) \in Nat
    BY LenProperties DEF Typed, RxFsm
  <2>2. /\ Head(fsmMeta) \in Meta /\ Tail(fsmMeta) \in Seq(Meta)
        /\ Len(Tail(fsmMeta)) = Len(fsmMeta) - 1
    BY <2>1, HeadTailProperties
  <2> QED  BY <2>1, <2>2, LifecycleAssumption
<1>2. s \in Session /\ k \in Kind  BY <1>1, LifecycleAssumption DEF Meta
<1>3. state_table \in [Session -> SessionState]  BY DEF Typed
<1>4. PICK o \in Effects[k][state_table[s]] :
          /\ state_table' = [state_table EXCEPT ![s] = o.state]
          /\ slRel' = Put(slRel, Releases(state_table[s], o.state), s)
          /\ events' = Put(events, o.event # "none", [type |-> o.event, sessionID |-> s])
          /\ clearRt' = Put(clearRt, o.clearRt # "none",
                            [sessionID |-> s, stop |-> o.clearRt = "stop"])
          /\ setClose' = Put(setClose, o.setClose, s)
          /\ opening' = [opening EXCEPT ![s] = Told(o, @)]
  BY DEF RxFsm
<1> HIDE DEF s, k
<1>5. state_table[s] \in SessionState  BY <1>2, <1>3
<1>6. /\ o.state \in SessionState /\ o.event \in {"none", "SYN_ACK", "FIN", "RT"}
      /\ o.setClose \in BOOLEAN /\ o.open \in {"none", "opened", "refused"}
  BY <1>2, <1>5, EffectFacts
<1>7. Room(clearRt) /\ Room(setClose) /\ Room(events) /\ Room(slRel)  BY DEF RxFsm
<1>8. Queue(slRel', Session)
  <2>1. Releases(state_table[s], o.state) \in BOOLEAN  BY DEF Releases
  <2> QED  BY <1>2, <1>4, <1>7, <2>1, QueuePut DEF Typed
<1>9. Queue(events', Event)
  <2>1. o.event # "none" => [type |-> o.event, sessionID |-> s] \in Event
    BY <1>2, <1>6 DEF Event, EventType
  <2> QED  BY <1>4, <1>7, <2>1, QueuePut DEF Typed
<1>10. Queue(clearRt', Clear)
  <2>1. [sessionID |-> s, stop |-> o.clearRt = "stop"] \in Clear  BY <1>2 DEF Clear
  <2> QED  BY <1>4, <1>7, <2>1, QueuePut DEF Typed
<1>11. Queue(setClose', Session)  BY <1>2, <1>4, <1>6, <1>7, QueuePut DEF Typed
<1>12. opening' \in [Session -> {"none", "asked", "opened", "refused"}]
  BY <1>2, <1>4, <1>6 DEF Typed, Told
<1>13. state_table' \in [Session -> SessionState]  BY <1>2, <1>3, <1>4, <1>6
<1>14. fsmMeta' = Tail(fsmMeta) /\ UNCHANGED <<tupleValid, lookupRsp, rtTable, closeActive, relReq>>
  BY DEF RxFsm
<1> QED  BY <1>1, <1>8, <1>9, <1>10, <1>11, <1>12, <1>13, <1>14 DEF Typed

LEMMA LookupType ==
    ASSUME Typed, NEW s \in Session,
           OpenLookup(s) \/ \E k \in PacketKind : RxLookup(s, k)
    PROVE  Typed'
<1>1. CASE OpenLookup(s)
  <2>1. Queue(lookupRsp', Session)  BY <1>1, QueueAppend DEF Typed, OpenLookup
  <2> QED  BY <1>1, <2>1 DEF Typed, OpenLookup, timerVars
<1>2. ASSUME NEW k \in PacketKind, RxLookup(s, k) PROVE Typed'
  <2>1. [sessionID |-> s, kind |-> k] \in Meta  BY DEF Meta
  <2>2. fsmMeta' \in Seq(Meta) /\ Len(fsmMeta') = Len(fsmMeta) + 1 /\ Len(fsmMeta) \in Nat
    BY <1>2, <2>1, AppendProperties, LenProperties DEF Typed, RxLookup
  <2>3. Len(fsmMeta') <= Depth  BY <1>2, <2>2, LifecycleAssumption DEF RxLookup
  <2> QED  BY <1>2, <2>2, <2>3 DEF Typed, RxLookup, timerVars
<1> QED  BY <1>1, <1>2

LEMMA AppType ==
    ASSUME Typed, TxOpen \/ \E s \in Session : AppClose(s) \/ AppSend(s)
    PROVE  Typed'
<1>1. CASE TxOpen
  <2>1. Head(lookupRsp) \in Session /\ Queue(lookupRsp', Session)
    BY <1>1, QueueTail DEF Typed, TxOpen
  <2>2. [type |-> "SYN", sessionID |-> Head(lookupRsp)] \in Event
    BY <2>1 DEF Event, EventType
  <2>3. Queue(events', Event)  BY <1>1, <2>2, QueueAppend DEF Typed, TxOpen
  <2>4. /\ state_table' \in [Session -> SessionState]
        /\ opening' \in [Session -> {"none", "asked", "opened", "refused"}]
    BY <1>1, <2>1 DEF Typed, TxOpen, SessionState
  <2> QED  BY <1>1, <2>1, <2>3, <2>4 DEF Typed, TxOpen, timerVars
<1>2. ASSUME NEW s \in Session, AppClose(s) PROVE Typed'
  <2>1. [type |-> "FIN", sessionID |-> s] \in Event  BY DEF Event, EventType
  <2>2. Queue(events', Event)
    <3>1. (state_table[s] \in ClosableState) \in BOOLEAN  OBVIOUS
    <3>2. Queue(events, Event) /\ Room(events)  BY <1>2 DEF Typed, AppClose
    <3>3. Queue(Put(events, state_table[s] \in ClosableState, [type |-> "FIN", sessionID |-> s]),
                Event)
      BY <2>1, <3>1, <3>2, QueuePut
    <3> QED  BY <1>2, <3>3 DEF AppClose
  <2>3. state_table' \in [Session -> SessionState]
    BY <1>2, CloseTargetFacts DEF Typed, AppClose
  <2> QED  BY <1>2, <2>2, <2>3 DEF Typed, AppClose, timerVars
<1>3. ASSUME NEW s \in Session, AppSend(s) PROVE Typed'
  <2>1. [type |-> "TX", sessionID |-> s] \in Event  BY DEF Event, EventType
  <2>2. Queue(events', Event)  BY <1>3, <2>1, QueueAppend DEF Typed, AppSend
  <2> QED  BY <1>3, <2>2 DEF Typed, AppSend, timerVars
<1> QED  BY <1>1, <1>2, <1>3

LEMMA RtTimerType ==
    ASSUME Typed, TxEngine \/ ClearTimer \/ \E s \in Session : Retransmit(s) \/ Abort(s)
    PROVE  Typed'
<1>1. CASE TxEngine
  <2>1. Head(events) \in Event /\ Queue(events', Event)
    BY <1>1, QueueTail DEF Typed, TxEngine
  <2>2. rtTable \in [Session -> Timer]  BY DEF Typed
  <2>3. \/ Set(Head(events).sessionID, Head(events).type)
        \/ UNCHANGED rtTable
    BY <1>1 DEF TxEngine
  <2>4. ASSUME NEW s \in Session, NEW type, Set(s, type) PROVE rtTable' \in [Session -> Timer]
    <3> DEFINE t == [rtTable[s] EXCEPT !.active = TRUE, !.type = TimerType(type)]
    <3>1. t \in Timer  BY <2>2 DEF Timer, TimerType
    <3>2. rtTable' = [rtTable EXCEPT ![s] = t]  BY <2>4 DEF Set
    <3> QED  BY <2>2, <3>1, <3>2
  <2>5. Head(events).sessionID \in Session  BY <2>1 DEF Event
  <2>6. rtTable' \in [Session -> Timer]  BY <2>2, <2>3, <2>4, <2>5
  <2> QED  BY <1>1, <2>1, <2>6 DEF Typed, TxEngine
<1>2. CASE ClearTimer
  <2>1. Head(clearRt) \in Clear /\ Queue(clearRt', Clear)
    BY <1>2, QueueTail DEF Typed, ClearTimer
  <2>2. rtTable' \in [Session -> Timer]
    <3> DEFINE s == Head(clearRt).sessionID
               b == rtTable[s].active /\ ~Head(clearRt).stop
               t == [active |-> b, retries |-> 0, type |-> rtTable[s].type]
    <3>1. rtTable \in [Session -> Timer] /\ s \in Session  BY <2>1 DEF Typed, Clear
    <3>2. t \in Timer
      <4>1. b \in BOOLEAN  OBVIOUS
      <4> HIDE DEF b, s
      <4>2. rtTable[s] \in Timer /\ 0 \in 0 .. Retries  BY <3>1, LifecycleAssumption
      <4> QED  BY <4>1, <4>2 DEF Timer
    <3>3. rtTable' = [rtTable EXCEPT ![s] = t]  BY <1>2 DEF ClearTimer
    <3> HIDE DEF s, t
    <3> QED  BY <3>1, <3>2, <3>3
  <2> QED  BY <1>2, <2>1, <2>2 DEF Typed, ClearTimer
<1>3. ASSUME NEW s \in Session, Retransmit(s) PROVE Typed'
  <2>1. rtTable[s] \in Timer  BY DEF Typed
  <2>2. rtTable[s].retries + 1 \in 0 .. Retries
    <3>1. rtTable[s].retries < Retries  BY <1>3 DEF Retransmit
    <3>2. rtTable[s].retries \in 0 .. Retries  BY <2>1 DEF Timer
    <3> QED  BY <3>1, <3>2, LifecycleAssumption
  <2>3. rtTable' \in [Session -> Timer]
    <3> DEFINE t == [active |-> FALSE, retries |-> rtTable[s].retries + 1, type |-> rtTable[s].type]
    <3>1. t \in Timer  BY <2>1, <2>2 DEF Timer
    <3>2. rtTable' = [rtTable EXCEPT ![s] = t]  BY <1>3 DEF Retransmit
    <3> HIDE DEF t
    <3> QED  BY <3>1, <3>2 DEF Typed
  <2>4. [type |-> rtTable[s].type, sessionID |-> s] \in Event
    BY <2>1 DEF Event, EventType, Timer
  <2>5. Queue(events', Event)  BY <1>3, <2>4, QueueAppend DEF Typed, Retransmit
  <2> QED  BY <1>3, <2>3, <2>5 DEF Typed, Retransmit
<1>4. ASSUME NEW s \in Session, Abort(s) PROVE Typed'
  <2>1. rtTable' \in [Session -> Timer]
    <3> DEFINE t == [rtTable[s] EXCEPT !.active = FALSE, !.retries = 0]
    <3>1. rtTable[s] \in Timer  BY DEF Typed
    <3>2. t \in Timer
      <4>1. 0 \in 0 .. Retries  BY LifecycleAssumption
      <4> QED  BY <3>1, <4>1 DEF Timer
    <3>3. rtTable' = [rtTable EXCEPT ![s] = t]  BY <1>4 DEF Abort
    <3> HIDE DEF t
    <3> QED  BY <3>2, <3>3 DEF Typed
  <2>2. Queue(relReq', Session)  BY <1>4, QueueAppend DEF Typed, Abort
  <2>3. opening' \in [Session -> {"none", "asked", "opened", "refused"}]
    BY <1>4 DEF Typed, Abort
  <2> QED  BY <1>4, <2>1, <2>2, <2>3 DEF Typed, Abort
<1> QED  BY <1>1, <1>2, <1>3, <1>4

LEMMA CloseType ==
    ASSUME Typed, SetCloseTimer \/ TableClose \/ LookupRelease \/ \E s \in Session : CloseTimeOut(s)
    PROVE  Typed'
<1>1. CASE SetCloseTimer
  <2>1. Head(setClose) \in Session /\ Queue(setClose', Session)
    BY <1>1, QueueTail DEF Typed, SetCloseTimer
  <2> QED  BY <1>1, <2>1 DEF Typed, SetCloseTimer
<1>2. CASE TableClose
  <2>1. Head(relReq) \in Session /\ Queue(relReq', Session)
    BY <1>2, QueueTail DEF Typed, TableClose
  <2>2. Queue(slRel', Session)  BY <1>2, <2>1, QueueAppend DEF Typed, TableClose
  <2>3. /\ state_table' \in [Session -> SessionState]
        /\ opening' \in [Session -> {"none", "asked", "opened", "refused"}]
    BY <1>2, <2>1 DEF Typed, TableClose, SessionState
  <2> QED  BY <1>2, <2>1, <2>2, <2>3 DEF Typed, TableClose, timerVars
<1>3. CASE LookupRelease
  <2>1. Head(slRel) \in Session /\ Queue(slRel', Session)
    BY <1>3, QueueTail DEF Typed, LookupRelease
  <2> QED  BY <1>3, <2>1 DEF Typed, LookupRelease, timerVars
<1>4. ASSUME NEW s \in Session, CloseTimeOut(s) PROVE Typed'
  <2>1. Queue(relReq', Session)  BY <1>4, QueueAppend DEF Typed, CloseTimeOut
  <2> QED  BY <1>4, <2>1 DEF Typed, CloseTimeOut
<1> QED  BY <1>1, <1>2, <1>3, <1>4

LEMMA NextType == Typed /\ [Next]_vars => Typed'
<1> SUFFICES ASSUME Typed, [Next]_vars PROVE Typed'  OBVIOUS
<1>1. CASE UNCHANGED vars  BY <1>1 DEF Typed, vars, timerVars
<1>2. CASE Packets  BY <1>2, LookupType DEF Packets
<1>3. CASE App  BY <1>3, LookupType, AppType DEF App
<1> QED  BY <1>1, <1>2, <1>3, RxFsmType, AppType, RtTimerType, CloseType DEF Next

\* Every variable keeps its type, for any number of sessions.
THEOREM TypeCorrect == Spec => []TypeOK
<1>1. Typed => TypeOK  BY Types
<1> QED  BY <1>1, InitType, NextType, PTL DEF Spec

-----------------------------------------------------------------------------
(***************************************************************************)
(* What is in a stream                                                     *)
(***************************************************************************)
LEMMA InAppend ==
    ASSUME NEW S, NEW q \in Seq(S), NEW e \in S, NEW x
    PROVE  /\ In(x, q) => In(x, Append(q, e))
           /\ In(e, Append(q, e))
<1>1. /\ Append(q, e) \in Seq(S) /\ Len(Append(q, e)) = Len(q) + 1 /\ Len(q) \in Nat
      /\ \A i \in 1 .. Len(q) : Append(q, e)[i] = q[i]
      /\ Append(q, e)[Len(q) + 1] = e
  BY AppendProperties, LenProperties
<1>2. DOMAIN q = 1 .. Len(q) /\ DOMAIN Append(q, e) = 1 .. Len(q) + 1  BY <1>1, LenProperties
<1> QED  BY <1>1, <1>2 DEF In

LEMMA InTail ==
    ASSUME NEW S, NEW q \in Seq(S), q # <<>>, NEW x, In(x, q)
    PROVE  x = Head(q) \/ In(x, Tail(q))
<1>1. /\ Len(q) \in Nat \ {0} /\ DOMAIN q = 1 .. Len(q) /\ Head(q) = q[1]
      /\ DOMAIN Tail(q) = 1 .. Len(q) - 1
      /\ \A i \in 1 .. Len(q) - 1 : Tail(q)[i] = q[i + 1]
  BY EmptySeq, LenProperties, HeadTailProperties
<1>2. PICK i \in 1 .. Len(q) : q[i] = x  BY <1>1 DEF In
<1>3. CASE i = 1  BY <1>1, <1>2, <1>3
<1>4. CASE i # 1
  <2>1. i - 1 \in 1 .. Len(q) - 1 /\ Tail(q)[i - 1] = x  BY <1>1, <1>2, <1>4
  <2> QED  BY <1>1, <2>1 DEF In
<1> QED  BY <1>3, <1>4

LEMMA InPut ==
    ASSUME NEW S, NEW q \in Seq(S), NEW write \in BOOLEAN, NEW e \in S, NEW x
    PROVE  /\ In(x, q) => In(x, Put(q, write, e))
           /\ write => In(e, Put(q, write, e))
<1>1. CASE write  BY <1>1, InAppend DEF Put
<1>2. CASE ~write  BY <1>2 DEF Put
<1> QED  BY <1>1, <1>2

\* A packet of session s is on its way to the state machine.
Arriving(s, q) == \E i \in DOMAIN q : q[i].sessionID = s

LEMMA ArrivingAppend ==
    ASSUME NEW S, NEW q \in Seq(S), NEW e \in S, NEW s
    PROVE  /\ Arriving(s, q) => Arriving(s, Append(q, e))
           /\ e.sessionID = s => Arriving(s, Append(q, e))
<1>1. /\ Append(q, e) \in Seq(S) /\ Len(Append(q, e)) = Len(q) + 1 /\ Len(q) \in Nat
      /\ \A i \in 1 .. Len(q) : Append(q, e)[i] = q[i]
      /\ Append(q, e)[Len(q) + 1] = e
  BY AppendProperties, LenProperties
<1>2. DOMAIN q = 1 .. Len(q) /\ DOMAIN Append(q, e) = 1 .. Len(q) + 1  BY <1>1, LenProperties
<1> QED  BY <1>1, <1>2 DEF Arriving

LEMMA ArrivingTail ==
    ASSUME NEW S, NEW q \in Seq(S), q # <<>>, NEW s, Arriving(s, q)
    PROVE  Head(q).sessionID = s \/ Arriving(s, Tail(q))
<1>1. /\ Len(q) \in Nat \ {0} /\ DOMAIN q = 1 .. Len(q) /\ Head(q) = q[1]
      /\ DOMAIN Tail(q) = 1 .. Len(q) - 1
      /\ \A i \in 1 .. Len(q) - 1 : Tail(q)[i] = q[i + 1]
  BY EmptySeq, LenProperties, HeadTailProperties
<1>2. PICK i \in 1 .. Len(q) : q[i].sessionID = s  BY <1>1 DEF Arriving
<1>3. CASE i = 1  BY <1>1, <1>2, <1>3
<1>4. CASE i # 1
  <2>1. i - 1 \in 1 .. Len(q) - 1 /\ Tail(q)[i - 1].sessionID = s  BY <1>1, <1>2, <1>4
  <2> QED  BY <1>1, <2>1 DEF Arriving
<1> QED  BY <1>3, <1>4

-----------------------------------------------------------------------------
(***************************************************************************)
(* Safety                                                                  *)
(***************************************************************************)
\* The close timer of session s runs, is about to, or has expired.
Timed(s) == In(s, setClose) \/ closeActive[s] \/ In(s, relReq)

\* Something is on its way that opens session s or frees its ID.
Leaving(s) == In(s, lookupRsp) \/ In(s, slRel) \/ Arriving(s, fsmMeta)

\* Only what the application has asked for is SYN_SENT.
Asked == \A s \in Session : state_table[s] = "SYN_SENT" => opening[s] # "none"

IInv == Typed /\ TimeWaitTimed /\ IdsComeBack /\ Asked

LEMMA Properties ==
    /\ TimeWaitTimed <=> \A s \in Session : state_table[s] = "TIME_WAIT" => Timed(s)
    /\ IdsComeBack <=>
          \A s \in Session : tupleValid[s] /\ state_table[s] = "CLOSED" => Leaving(s)
BY DEF TimeWaitTimed, IdsComeBack, Timed, Leaving, Arriving

\* What an action has to keep of one session.
Good(s) ==
    /\ state_table[s] = "TIME_WAIT" => Timed(s)
    /\ tupleValid[s] /\ state_table[s] = "CLOSED" => Leaving(s)
    /\ state_table[s] = "SYN_SENT" => opening[s] # "none"

LEMMA IInvGood == IInv <=> Typed /\ \A s \in Session : Good(s)
BY Properties DEF IInv, Good, Asked

LEMMA InitGood == Init => \A s \in Session : Good(s)
BY DEF Init, Good

LEMMA RxFsmGood == ASSUME Typed, RxFsm, NEW x \in Session, Good(x) PROVE Good(x)'
<1> DEFINE s == Head(fsmMeta).sessionID
           k == Head(fsmMeta).kind
<1>1. fsmMeta \in Seq(Meta) /\ fsmMeta # <<>> /\ Head(fsmMeta) \in Meta
  BY DEF RxFsm, Typed
<1>2. s \in Session /\ k \in Kind  BY <1>1, LifecycleAssumption DEF Meta
<1>3. PICK o \in Effects[k][state_table[s]] :
          /\ state_table' = [state_table EXCEPT ![s] = o.state]
          /\ slRel' = Put(slRel, Releases(state_table[s], o.state), s)
          /\ setClose' = Put(setClose, o.setClose, s)
          /\ opening' = [opening EXCEPT ![s] = Told(o, @)]
  BY DEF RxFsm
<1>4. /\ fsmMeta' = Tail(fsmMeta)
      /\ UNCHANGED <<tupleValid, lookupRsp, closeActive, relReq>>
  BY DEF RxFsm
<1>5. Arriving(x, fsmMeta) => x = s \/ Arriving(x, fsmMeta')  BY <1>1, <1>4, ArrivingTail
<1> HIDE DEF s, k
<1>6. state_table \in [Session -> SessionState] /\ opening \in [Session -> {"none", "asked", "opened", "refused"}]
  BY DEF Typed
<1>7. state_table[s] \in SessionState  BY <1>2, <1>6
<1>8. /\ o.setClose \in BOOLEAN /\ o.open \in {"none", "opened", "refused"}
      /\ o.state = "TIME_WAIT" => state_table[s] = "TIME_WAIT" \/ o.setClose
      /\ o.state = "SYN_SENT" => state_table[s] = "SYN_SENT" /\ o.open = "none"
  BY <1>2, <1>7, EffectFacts
<1>9. /\ In(x, slRel) => In(x, slRel')
      /\ o.state = "CLOSED" => In(s, slRel')
  <2>1. Releases(state_table[s], o.state) \in BOOLEAN
        /\ (Releases(state_table[s], o.state) <=> o.state = "CLOSED")
    BY DEF Releases
  <2>2. slRel \in Seq(Session)  BY DEF Typed, Queue
  <2> QED  BY <1>2, <1>3, <2>1, <2>2, InPut
<1>10. /\ In(x, setClose) => In(x, setClose')
       /\ o.setClose => In(s, setClose')
  <2>1. setClose \in Seq(Session)  BY DEF Typed, Queue
  <2> QED  BY <1>2, <1>3, <1>8, <2>1, InPut
<1>11. CASE x = s
  <2>1. state_table'[x] = o.state  BY <1>2, <1>3, <1>6, <1>11
  <2>2. opening'[x] = Told(o, opening[x])  BY <1>2, <1>3, <1>6, <1>11
  <2>3. o.state = "TIME_WAIT" => Timed(x)'  BY <1>4, <1>8, <1>10, <1>11 DEF Timed, Good
  <2>4. o.state = "CLOSED" => Leaving(x)'  BY <1>9, <1>11 DEF Leaving
  <2>5. o.state = "SYN_SENT" => opening'[x] # "none"
    BY <1>8, <1>11, <2>2 DEF Told, Good
  <2> QED  BY <2>1, <2>3, <2>4, <2>5 DEF Good
<1>12. CASE x # s
  <2>1. state_table'[x] = state_table[x] /\ opening'[x] = opening[x]
    BY <1>3, <1>6, <1>12
  <2>2. Timed(x) => Timed(x)'  BY <1>4, <1>10 DEF Timed
  <2>3. Leaving(x) => Leaving(x)'  BY <1>4, <1>5, <1>9, <1>12 DEF Leaving
  <2> QED  BY <1>4, <2>1, <2>2, <2>3 DEF Good
<1> QED  BY <1>11, <1>12

LEMMA LookupGood ==
    ASSUME Typed, NEW s \in Session,
           OpenLookup(s) \/ \E k \in PacketKind : RxLookup(s, k),
           NEW x \in Session, Good(x)
    PROVE  Good(x)'
<1>1. tupleValid \in [Session -> BOOLEAN] /\ tupleValid' = [tupleValid EXCEPT ![s] = TRUE]
  BY DEF Typed, OpenLookup, RxLookup
<1>2. UNCHANGED <<state_table, opening, setClose, closeActive, relReq, slRel>>
  BY DEF OpenLookup, RxLookup, timerVars
<1>3. /\ x = s => Leaving(x)'
      /\ Leaving(x) => Leaving(x)'
  <2>1. CASE OpenLookup(s)
    <3>1. lookupRsp \in Seq(Session) /\ lookupRsp' = Append(lookupRsp, s)
          /\ fsmMeta' = fsmMeta
      BY <2>1 DEF Typed, Queue, OpenLookup
    <3>2. (In(x, lookupRsp) => In(x, lookupRsp')) /\ In(s, lookupRsp')  BY <3>1, InAppend
    <3> QED  BY <1>2, <3>1, <3>2 DEF Leaving
  <2>2. ASSUME NEW k \in PacketKind, RxLookup(s, k)
        PROVE  (x = s => Leaving(x)') /\ (Leaving(x) => Leaving(x)')
    <3> DEFINE m == [sessionID |-> s, kind |-> k]
    <3>1. fsmMeta \in Seq(Meta) /\ fsmMeta' = Append(fsmMeta, m) /\ lookupRsp' = lookupRsp
      BY <2>2 DEF Typed, RxLookup
    <3>2. m \in Meta /\ m.sessionID = s  BY DEF Meta
    <3> HIDE DEF m
    <3>3. /\ Arriving(x, fsmMeta) => Arriving(x, fsmMeta')
          /\ x = s => Arriving(x, fsmMeta')
      BY <3>1, <3>2, ArrivingAppend
    <3> QED  BY <1>2, <3>1, <3>3 DEF Leaving
  <2> QED  BY <2>1, <2>2
<1>4. x # s => tupleValid'[x] = tupleValid[x]  BY <1>1
<1>5. Timed(x)' <=> Timed(x)  BY <1>2 DEF Timed
<1> QED  BY <1>2, <1>3, <1>4, <1>5 DEF Good

LEMMA AppGood ==
    ASSUME Typed, TxOpen \/ \E s \in Session : AppClose(s) \/ AppSend(s),
           NEW x \in Session, Good(x)
    PROVE  Good(x)'
<1>1. /\ state_table \in [Session -> SessionState]
      /\ opening \in [Session -> {"none", "asked", "opened", "refused"}]
  BY DEF Typed
<1>2. UNCHANGED <<tupleValid, setClose, closeActive, relReq, slRel, fsmMeta>>
  BY DEF TxOpen, AppClose, AppSend, timerVars
<1>3. Timed(x)' <=> Timed(x)  BY <1>2 DEF Timed
<1>4. CASE TxOpen
  <2> DEFINE s == Head(lookupRsp)
  <2>1. /\ lookupRsp \in Seq(Session) /\ lookupRsp # <<>> /\ lookupRsp' = Tail(lookupRsp)
        /\ state_table' = [state_table EXCEPT ![s] = "SYN_SENT"]
        /\ opening' = [opening EXCEPT ![s] = "asked"]
    BY <1>4 DEF Typed, Queue, TxOpen
  <2>2. s \in Session  BY <2>1
  <2>3. In(x, lookupRsp) => x = s \/ In(x, lookupRsp')  BY <2>1, InTail
  <2> HIDE DEF s
  <2>4. CASE x = s
    <3>1. state_table'[x] = "SYN_SENT" /\ opening'[x] = "asked"  BY <1>1, <2>1, <2>2, <2>4
    <3> QED  BY <3>1 DEF Good
  <2>5. CASE x # s
    <3>1. state_table'[x] = state_table[x] /\ opening'[x] = opening[x]  BY <1>1, <2>1, <2>5
    <3>2. Leaving(x) => Leaving(x)'  BY <1>2, <2>3, <2>5 DEF Leaving
    <3> QED  BY <1>2, <1>3, <3>1, <3>2 DEF Good
  <2> QED  BY <2>4, <2>5
<1>5. ASSUME NEW s \in Session, AppClose(s) PROVE Good(x)'
  <2>1. /\ state_table' = [state_table EXCEPT ![s] = CloseTarget(state_table[s])]
        /\ UNCHANGED <<lookupRsp, opening>>
    BY <1>5 DEF AppClose
  <2>2. state_table'[x] \in {state_table[x], "FIN_WAIT_1"}
    BY <1>1, <2>1, CloseTargetFacts
  <2>3. Leaving(x)' <=> Leaving(x)  BY <1>2, <2>1 DEF Leaving
  <2> QED  BY <1>2, <1>3, <2>1, <2>2, <2>3 DEF Good
<1>6. ASSUME NEW s \in Session, AppSend(s) PROVE Good(x)'
  <2>1. UNCHANGED <<state_table, lookupRsp, opening>>  BY <1>6 DEF AppSend
  <2>2. Leaving(x)' <=> Leaving(x)  BY <1>2, <2>1 DEF Leaving
  <2> QED  BY <1>2, <1>3, <2>1, <2>2 DEF Good
<1> QED  BY <1>4, <1>5, <1>6

\* The retransmit timer does not touch what Good speaks of, but for an abort.
LEMMA RtTimerGood ==
    ASSUME Typed, TxEngine \/ ClearTimer \/ \E s \in Session : Retransmit(s) \/ Abort(s),
           NEW x \in Session, Good(x)
    PROVE  Good(x)'
<1>1. UNCHANGED <<tupleValid, state_table, fsmMeta, lookupRsp, setClose, closeActive, slRel>>
  BY DEF TxEngine, ClearTimer, Retransmit, Abort
<1>2. Leaving(x)' <=> Leaving(x)  BY <1>1 DEF Leaving
<1>3. ASSUME NEW s \in Session, Abort(s) PROVE Good(x)'
  <2>1. relReq \in Seq(Session) /\ relReq' = Append(relReq, s)
    BY <1>3 DEF Typed, Queue, Abort
  <2>2. In(x, relReq) => In(x, relReq')  BY <2>1, InAppend
  <2>3. opening[x] # "none" => opening'[x] # "none"  BY <1>3 DEF Typed, Abort
  <2> QED  BY <1>1, <1>2, <2>2, <2>3 DEF Good, Timed
<1>4. CASE UNCHANGED <<relReq, opening>>
  <2>1. Timed(x)' <=> Timed(x)  BY <1>1, <1>4 DEF Timed
  <2> QED  BY <1>1, <1>2, <1>4, <2>1 DEF Good
<1> QED  BY <1>3, <1>4 DEF TxEngine, ClearTimer, Retransmit

LEMMA CloseGood ==
    ASSUME Typed, SetCloseTimer \/ TableClose \/ LookupRelease \/ \E s \in Session : CloseTimeOut(s),
           NEW x \in Session, Good(x)
    PROVE  Good(x)'
<1>1. UNCHANGED <<fsmMeta, lookupRsp>>
  BY DEF SetCloseTimer, TableClose, LookupRelease, CloseTimeOut
<1>2. CASE SetCloseTimer
  <2>1. /\ setClose \in Seq(Session) /\ setClose # <<>> /\ setClose' = Tail(setClose)
        /\ closeActive' = [closeActive EXCEPT ![Head(setClose)] = TRUE]
        /\ closeActive \in [Session -> BOOLEAN]
        /\ UNCHANGED <<tupleValid, state_table, relReq, slRel, opening>>
    BY <1>2 DEF Typed, Queue, SetCloseTimer
  <2>2. In(x, setClose) => x = Head(setClose) \/ In(x, setClose')  BY <2>1, InTail
  <2>3. /\ x = Head(setClose) => closeActive'[x]
        /\ closeActive[x] => closeActive'[x]
    BY <2>1
  <2>4. Timed(x) => Timed(x)'  BY <2>1, <2>2, <2>3 DEF Timed
  <2>5. Leaving(x)' <=> Leaving(x)  BY <1>1, <2>1 DEF Leaving
  <2> QED  BY <2>1, <2>4, <2>5 DEF Good
<1>3. CASE TableClose
  <2> DEFINE s == Head(relReq)
  <2>1. /\ relReq \in Seq(Session) /\ relReq # <<>> /\ relReq' = Tail(relReq)
        /\ slRel \in Seq(Session) /\ slRel' = Append(slRel, s)
        /\ state_table' = [state_table EXCEPT ![s] = "CLOSED"]
        /\ opening' = [opening EXCEPT ![s] = "none"]
        /\ state_table \in [Session -> SessionState]
        /\ opening \in [Session -> {"none", "asked", "opened", "refused"}]
        /\ UNCHANGED <<tupleValid, setClose, closeActive>>
    BY <1>3 DEF Typed, Queue, TableClose, timerVars
  <2>2. s \in Session  BY <2>1
  <2>3. In(x, relReq) => x = s \/ In(x, relReq')  BY <2>1, InTail
  <2>4. (In(x, slRel) => In(x, slRel')) /\ In(s, slRel')  BY <2>1, <2>2, InAppend
  <2> HIDE DEF s
  <2>5. CASE x = s
    <3>1. state_table'[x] = "CLOSED"  BY <2>1, <2>2, <2>5
    <3>2. Leaving(x)'  BY <2>4, <2>5 DEF Leaving
    <3> QED  BY <3>1, <3>2 DEF Good
  <2>6. CASE x # s
    <3>1. state_table'[x] = state_table[x] /\ opening'[x] = opening[x]  BY <2>1, <2>6
    <3>2. Timed(x) => Timed(x)'  BY <2>1, <2>3, <2>6 DEF Timed
    <3>3. Leaving(x) => Leaving(x)'  BY <1>1, <2>4 DEF Leaving
    <3> QED  BY <2>1, <3>1, <3>2, <3>3 DEF Good
  <2> QED  BY <2>5, <2>6
<1>4. CASE LookupRelease
  <2>1. /\ slRel \in Seq(Session) /\ slRel # <<>> /\ slRel' = Tail(slRel)
        /\ tupleValid \in [Session -> BOOLEAN]
        /\ tupleValid' = [tupleValid EXCEPT ![Head(slRel)] = FALSE]
        /\ UNCHANGED <<state_table, setClose, closeActive, relReq, opening>>
    BY <1>4 DEF Typed, Queue, LookupRelease, timerVars
  <2>2. In(x, slRel) => x = Head(slRel) \/ In(x, slRel')  BY <2>1, InTail
  <2>3. tupleValid'[x] => tupleValid[x] /\ x # Head(slRel)  BY <2>1
  <2>4. Timed(x)' <=> Timed(x)  BY <2>1 DEF Timed
  <2>5. Leaving(x) => x = Head(slRel) \/ Leaving(x)'  BY <1>1, <2>2 DEF Leaving
  <2> QED  BY <2>1, <2>3, <2>4, <2>5 DEF Good
<1>5. ASSUME NEW s \in Session, CloseTimeOut(s) PROVE Good(x)'
  <2>1. /\ relReq \in Seq(Session) /\ relReq' = Append(relReq, s)
        /\ closeActive \in [Session -> BOOLEAN]
        /\ closeActive' = [closeActive EXCEPT ![s] = FALSE]
        /\ UNCHANGED <<tupleValid, state_table, setClose, slRel, opening>>
    BY <1>5 DEF Typed, Queue, CloseTimeOut
  <2>2. (In(x, relReq) => In(x, relReq')) /\ In(s, relReq')  BY <2>1, InAppend
  <2>3. x # s => closeActive'[x] = closeActive[x]  BY <2>1
  <2>4. Timed(x) => Timed(x)'  BY <2>1, <2>2, <2>3 DEF Timed
  <2>5. Leaving(x)' <=> Leaving(x)  BY <1>1, <2>1 DEF Leaving
  <2> QED  BY <2>1, <2>4, <2>5 DEF Good
<1> QED  BY <1>2, <1>3, <1>4, <1>5

LEMMA NextGood == ASSUME Typed, [Next]_vars, NEW x \in Session, Good(x) PROVE Good(x)'
<1>1. CASE UNCHANGED vars  BY <1>1 DEF Good, Timed, Leaving, vars, timerVars
<1>2. CASE Packets  BY <1>2, LookupGood DEF Packets
<1>3. CASE App  BY <1>3, LookupGood, AppGood DEF App
<1> QED  BY <1>1, <1>2, <1>3, RxFsmGood, AppGood, RtTimerGood, CloseGood DEF Next

\* The invariant the others follow from is inductive.
THEOREM Invariance == Spec => []IInv
<1>1. Init => IInv  BY InitType, InitGood, IInvGood
<1>2. IInv /\ [Next]_vars => IInv'
  <2> SUFFICES ASSUME IInv, [Next]_vars PROVE IInv'  OBVIOUS
  <2>1. Typed' /\ \A x \in Session : Good(x)'  BY NextType, NextGood, IInvGood
  <2> QED  BY <2>1, Properties DEF IInv, Good, Asked, TimeWaitTimed, IdsComeBack, Timed, Leaving, Arriving
<1> QED  BY <1>1, <1>2, PTL DEF Spec

\* A session in TIME_WAIT is always on its way out of it, for any number of
\* sessions, whatever the timers still have from an earlier use of its ID.
THEOREM TimeWaitLeaves == Spec => []TimeWaitTimed
<1>1. IInv => TimeWaitTimed  BY DEF IInv
<1> QED  BY <1>1, Invariance, PTL

\* No session ID is lost, for any number of sessions: an ID whose session is
\* closed is about to be opened or freed.
THEOREM IdsReturn == Spec => []IdsComeBack
<1>1. IInv => IdsComeBack  BY DEF IInv
<1> QED  BY <1>1, Invariance, PTL

LEMMA OpenedStep ==
    ASSUME IInv, [Next]_vars, NEW s \in Session, opening'[s] = "opened", opening[s] # "opened"
    PROVE  opening[s] # "none" /\ state_table[s] # "CLOSED"
<1>1. /\ opening \in [Session -> {"none", "asked", "opened", "refused"}]
      /\ state_table \in [Session -> SessionState]
      /\ fsmMeta \in Seq(Meta) /\ Asked
  BY DEF IInv, Typed
<1>2. CASE RxFsm
  <2> DEFINE x == Head(fsmMeta).sessionID
             k == Head(fsmMeta).kind
  <2>1. Head(fsmMeta) \in Meta  BY <1>1, <1>2 DEF RxFsm
  <2>2. x \in Session /\ k \in Kind  BY <2>1, LifecycleAssumption DEF Meta
  <2>3. PICK o \in Effects[k][state_table[x]] : opening' = [opening EXCEPT ![x] = Told(o, @)]
    BY <1>2 DEF RxFsm
  <2> HIDE DEF x, k
  <2>4. x = s /\ Told(o, opening[s]) = "opened"  BY <1>1, <2>2, <2>3
  <2>5. o.open = "opened"  BY <2>4 DEF Told
  <2>6. state_table[x] \in SessionState  BY <1>1, <2>2
  <2>7. state_table[x] = "SYN_SENT"  BY <2>2, <2>5, <2>6, EffectFacts
  <2> QED  BY <1>1, <2>4, <2>7 DEF Asked
<1>3. CASE TxOpen  BY <1>1, <1>3 DEF TxOpen
<1>4. CASE TableClose  BY <1>1, <1>4 DEF TableClose
<1>5. ASSUME NEW x \in Session, Abort(x) PROVE FALSE  BY <1>1, <1>5 DEF Abort
<1>6. CASE UNCHANGED opening  BY <1>6
<1> QED
  BY <1>2, <1>3, <1>4, <1>5, <1>6
  DEF Next, vars, Packets, App, RxLookup, OpenLookup, AppClose, AppSend, TxEngine, ClearTimer,
      Retransmit, CloseTimeOut, SetCloseTimer, LookupRelease

\* The application hears of an open connection only if it has asked for it and
\* the session has not been closed since, for any number of sessions.
THEOREM OpensAsked == Spec => OpenedOnAsking
<1>1. IInv /\ [Next]_vars =>
         [\A s \in Session : opening'[s] = "opened" /\ opening[s] # "opened" =>
              opening[s] # "none" /\ state_table[s] # "CLOSED"]_vars
  BY OpenedStep
<1> QED  BY <1>1, Invariance, PTL DEF Spec, OpenedOnAsking
=============================================================================
