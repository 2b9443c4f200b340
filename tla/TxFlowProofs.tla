---------------------------- MODULE TxFlowProofs ----------------------------
(***************************************************************************)
(* TxFlow for any size of the buffer, of the segments and of the data, any *)
(* depth of the streams and any windows: what is released to the TX engine *)
(* has been written, no segment passes the window of the peer, and what    *)
(* the peer takes for data is what the application wrote.                  *)
(***************************************************************************)
EXTENDS TxFlow, SequenceTheorems, TLAPS

LEMMA SpaceFacts == SPACE \in Nat /\ SPACE > 1 /\ MSS \in Nat /\ MSS > 0 /\ MSS < SPACE
BY TxSarAssumption

\* Differences of 16 bits.
LEMMA Reduced ==
    ASSUME NEW x \in Int
    PROVE  /\ x % SPACE \in 0 .. SPACE - 1
           /\ x \in 0 .. SPACE - 1 => x % SPACE = x
           /\ x \in -SPACE .. -1 => x % SPACE = x + SPACE
BY SpaceFacts

LEMMA BeforeWrapFacts == ASSUME NEW p \in Nat PROVE BeforeWrap(p) \in 1 .. SPACE
BY Reduced, SpaceFacts DEF BeforeWrap

LEMMA DiffFacts ==
    ASSUME NEW a \in Int, NEW b \in Int
    PROVE  Diff(a, b) \in 0 .. SPACE - 1 /\ (a - b \in 0 .. SPACE - 1 => Diff(a, b) = a - b)
BY Reduced, SpaceFacts DEF Diff

\* What is left of a stream when its head has been taken.
LEMMA TailFacts ==
    ASSUME NEW S, NEW s \in Seq(S), s # <<>>
    PROVE  /\ Head(s) \in S /\ Head(s) = s[1] /\ Tail(s) \in Seq(S)
           /\ Len(s) \in Nat \ {0} /\ Len(Tail(s)) = Len(s) - 1
           /\ DOMAIN s = 1 .. Len(s) /\ DOMAIN Tail(s) = 1 .. Len(s) - 1
           /\ \A i \in 1 .. Len(s) - 1 : Tail(s)[i] = s[i + 1]
           /\ \A i \in 1 .. Len(s) : s[i] \in S
<1>1. Tail(s) \in Seq(S) /\ Len(Tail(s)) = Len(s) - 1  BY HeadTailProperties
<1> QED  BY <1>1, HeadTailProperties, LenProperties, EmptySeq, ElementOfSeq

LEMMA AppendFacts ==
    ASSUME NEW S, NEW s \in Seq(S), NEW v \in S
    PROVE  /\ Append(s, v) \in Seq(S) /\ Len(s) \in Nat /\ Len(Append(s, v)) = Len(s) + 1
           /\ DOMAIN s = 1 .. Len(s) /\ DOMAIN Append(s, v) = 1 .. Len(s) + 1
           /\ \A i \in 1 .. Len(s) : Append(s, v)[i] = s[i]
           /\ Append(s, v)[Len(s) + 1] = v
<1>1. Append(s, v) \in Seq(S) /\ Len(Append(s, v)) = Len(s) + 1  BY AppendProperties
<1> QED  BY <1>1, AppendProperties, LenProperties

-----------------------------------------------------------------------------
(***************************************************************************)
(* Types                                                                   *)
(***************************************************************************)
TxEvents == [type : {"TX"}, address : Nat, length : 1 .. SPACE - 1]
Requests == [type : {"SYN", "FIN"}]
Kinds    == {"TX", "RT", "FIN", "SYN", "SYN_ACK"}
States   == {"SYN_SENT", "SYN_RECEIVED", "ESTABLISHED", "FIN_WAIT_1", "CLOSED"}
MlSar    == [ackd : Nat, not_ackd : Nat, app : Nat, min_window : Nat,
             finReady : BOOLEAN, finSent : BOOLEAN]
RxSar    == [prevAck : Nat, nextByte : Nat, cong_window : Nat, count : Nat]

TypedApp ==
    /\ tai \in {None} \cup [type : {"meta"}, length : 1 .. SPACE - 1, ackd : Nat, state : States]
    /\ mempt \in Nat /\ written \in Nat /\ statuses \in Nat /\ pushing \in Nat
    /\ toBuf \in Seq([from : Nat, length : 1 .. SPACE - 1])
    /\ commands \in Seq(Nat)
    /\ mergeApp \in Seq(Requests)
    /\ mergeStream \in Seq(TxEvents)
    /\ cache \in Seq(TxEvents \cup Requests)
    /\ tash \in {None} \cup TxEvents

TypedEngine ==
    /\ sar \in [ackd : Nat, not_ackd : Nat, app : Nat, recv_window : Nat, cong_window : Nat,
                count : Nat, finReady : BOOLEAN, finSent : BOOLEAN]
    /\ tcpState \in States
    /\ events \in Seq([type : Kinds, rt_count : Nat])
    /\ ml \in {Idle} \cup [type : Kinds, rt_count : Nat, sar : MlSar, sarLoaded : BOOLEAN,
                           segmentCount : Nat]
    /\ segments \in Seq([kind : {"SYN", "FIN", "DATA"}, from : Int, length : Nat])
    /\ rtTimer \in [active : BOOLEAN, retries : Nat, type : Kinds]

TypedPeer ==
    /\ next \in Nat /\ edge \in Nat
    /\ \/ rx \in [state : {"LOAD"}, fastRT : BOOLEAN]
       \/ rx \in [state : {"TRANSITION"}, fastRT : {FALSE}, ack : Nat, window : Nat, sar : RxSar]

Typed == TypedApp /\ TypedEngine /\ TypedPeer

LEMMA InitTyped == Init => Typed
<1> SUFFICES ASSUME Init PROVE Typed  OBVIOUS
<1> USE DEF Init
<1>1. TypedApp
  <2>1. [type |-> "SYN"] \in Requests  BY DEF Requests
  <2>2. <<[type |-> "SYN"]>> \in Seq(Requests)  BY <2>1
  <2>3. <<>> \in Seq(Requests)  BY EmptySeq
  <2>4. mergeApp \in Seq(Requests)  BY <2>2, <2>3 DEF InitApp
  <2> QED  BY <2>4, EmptySeq DEF TypedApp, InitApp
<1>2. PICK w \in Windows : sar = InitSar(w) /\ edge = 1 + w  OBVIOUS
<1>3. w \in Nat /\ CongWindow \in Nat  BY TxFlowAssumption, TxSarAssumption, SpaceFacts
<1>4. events \in Seq([type : Kinds, rt_count : Nat])
  <2>1. Ev("SYN_ACK", 0) \in [type : Kinds, rt_count : Nat]  BY DEF Ev, Kinds
  <2>2. <<Ev("SYN_ACK", 0)>> \in Seq([type : Kinds, rt_count : Nat])  BY <2>1
  <2> QED  BY <2>2, EmptySeq
<1>5. TypedEngine  BY <1>2, <1>3, <1>4, EmptySeq DEF TypedEngine, InitSar, States, Kinds
<1>6. TypedPeer  BY <1>2, <1>3 DEF TypedPeer
<1> QED  BY <1>1, <1>5, <1>6 DEF Typed

LEMMA PutTyped ==
    ASSUME TypedEngine, NEW type \in Kinds, NEW count \in Nat, Put(type, count)
    PROVE  events' \in Seq([type : Kinds, rt_count : Nat])
BY AppendFacts DEF TypedEngine, Put, Ev

LEMMA ReleaseTyped ==
    ASSUME TypedEngine, NEW ev \in TxEvents, Release(ev)
    PROVE  /\ events' \in Seq([type : Kinds, rt_count : Nat])
           /\ sar' \in [ackd : Nat, not_ackd : Nat, app : Nat, recv_window : Nat,
                        cong_window : Nat, count : Nat, finReady : BOOLEAN, finSent : BOOLEAN]
<1>1. ev.address + ev.length \in Nat  BY SpaceFacts DEF TxEvents
<1> QED  BY <1>1, PutTyped DEF Release, TypedEngine, Kinds

\* tasi_metaLoader and the memory.
LEMMA WriterTyped ==
    ASSUME Typed,
           (\E n \in WriteLen : ReadRequest(n)) \/ ReadMeta \/ PkgPusher \/ MemoryWrite
    PROVE  TypedApp' /\ UNCHANGED tableVars
<1> USE DEF Typed, TypedApp
<1>1. ASSUME NEW n \in WriteLen, ReadRequest(n) PROVE TypedApp' /\ UNCHANGED tableVars
  <2>1. n \in 1 .. SPACE - 1  BY TxAppAssumption
  <2> QED  BY <1>1, <2>1 DEF ReadRequest, TypedEngine, tableVars
<1>2. CASE ReadMeta
  <2>1. tai \in [type : {"meta"}, length : 1 .. SPACE - 1, ackd : Nat, state : States]
    BY <1>2 DEF ReadMeta
  <2>2. [from |-> mempt, length |-> tai.length] \in [from : Nat, length : 1 .. SPACE - 1]
    BY <2>1
  <2>3. [type |-> "TX", address |-> mempt, length |-> tai.length] \in TxEvents
    BY <2>1 DEF TxEvents
  <2>4. mempt + tai.length \in Nat  BY <2>1, SpaceFacts
  <2>5. /\ Append(toBuf, [from |-> mempt, length |-> tai.length])
               \in Seq([from : Nat, length : 1 .. SPACE - 1])
        /\ Append(mergeStream, [type |-> "TX", address |-> mempt, length |-> tai.length])
               \in Seq(TxEvents)
    BY <2>2, <2>3, AppendFacts
  <2> QED  BY <1>2, <2>4, <2>5 DEF ReadMeta, tableVars
<1>3. CASE PushCommand
  <2> DEFINE w == Head(toBuf)
             first == IF Wraps(w.from, w.length) THEN BeforeWrap(w.from) ELSE w.length
  <2>1. w \in [from : Nat, length : 1 .. SPACE - 1] /\ toBuf' \in Seq([from : Nat, length : 1 .. SPACE - 1])
    BY <1>3, TailFacts DEF PushCommand
  <2>2. first \in Nat /\ w.length - first \in Nat
    <3>1. w.from \in Nat /\ w.length \in Nat  BY <2>1, SpaceFacts
    <3>2. BeforeWrap(w.from) \in 1 .. SPACE  BY <3>1, BeforeWrapFacts
    <3> QED  BY <3>1, <3>2, SpaceFacts DEF Wraps
  <2>3. commands' \in Seq(Nat)  BY <1>3, <2>2, AppendFacts DEF PushCommand
  <2> QED  BY <1>3, <2>1, <2>2, <2>3 DEF PushCommand, tableVars
<1>4. CASE PushSecond
  BY <1>4, AppendFacts DEF PushSecond, tableVars
<1>5. CASE MemoryWrite
  <2>1. Head(commands) \in Nat /\ commands' \in Seq(Nat)
    BY <1>5, TailFacts DEF MemoryWrite
  <2> QED  BY <1>5, <2>1 DEF MemoryWrite, tableVars
<1> QED  BY <1>1, <1>2, <1>3, <1>4, <1>5 DEF PkgPusher

LEMMA MergeTyped ==
    ASSUME Typed, MergeEvent
    PROVE  TypedApp' /\ UNCHANGED tableVars
<1> USE DEF Typed, TypedApp
<1>1. CASE mergeApp # <<>>
  <2>1. /\ mergeApp' = Tail(mergeApp) /\ cache' = Append(cache, Head(mergeApp))
        /\ UNCHANGED mergeStream
    BY <1>1 DEF MergeEvent
  <2>2. Head(mergeApp) \in Requests /\ mergeApp' \in Seq(Requests)  BY <1>1, <2>1, TailFacts
  <2>3. Head(mergeApp) \in TxEvents \cup Requests  BY <2>2
  <2>4. cache' \in Seq(TxEvents \cup Requests)  BY <2>1, <2>3, AppendFacts
  <2> QED  BY <2>1, <2>2, <2>4 DEF MergeEvent, tableVars
<1>2. CASE mergeApp = <<>>
  <2>1. /\ mergeStream # <<>> /\ mergeStream' = Tail(mergeStream)
        /\ cache' = Append(cache, Head(mergeStream)) /\ UNCHANGED mergeApp
    BY <1>2 DEF MergeEvent
  <2>2. Head(mergeStream) \in TxEvents /\ mergeStream' \in Seq(TxEvents)  BY <2>1, TailFacts
  <2>3. Head(mergeStream) \in TxEvents \cup Requests  BY <2>2
  <2>4. cache' \in Seq(TxEvents \cup Requests)  BY <2>1, <2>3, AppendFacts
  <2> QED  BY <2>1, <2>2, <2>4 DEF MergeEvent, tableVars
<1> QED  BY <1>1, <1>2

LEMMA StatusTyped ==
    ASSUME Typed, StatusHandler, UNCHANGED engineVars
    PROVE  TypedApp' /\ TypedEngine'
<1>1. CASE StatusFirst
  <2> DEFINE ev == Head(cache)
  <2>1. ev \in TxEvents \cup Requests /\ cache' \in Seq(TxEvents \cup Requests)
    BY <1>1, TailFacts DEF StatusFirst, Typed, TypedApp
  <2>2. ev.type # "TX" => ev \in Requests /\ ev.type \in Kinds
    BY <2>1 DEF TxEvents, Requests, Kinds
  <2>3. ev.type = "TX" => ev \in TxEvents  BY <2>1 DEF Requests
  <2>4. statuses' \in Nat /\ tash' \in {None} \cup TxEvents
    BY <1>1, <2>3 DEF StatusFirst, Typed, TypedApp
  <2>5. TypedApp'  BY <1>1, <2>1, <2>4 DEF StatusFirst, Typed, TypedApp
  <2>6. CASE ev.type # "TX"
    <3>1. Put(ev.type, 0) /\ UNCHANGED <<sar, tcpState>>  BY <1>1, <2>6 DEF StatusFirst
    <3> QED  BY <2>2, <2>5, <2>6, <3>1, PutTyped DEF Typed, TypedEngine, engineVars
  <2>7. CASE ev.type = "TX" /\ Wraps(ev.address, ev.length)
    BY <1>1, <2>5, <2>7 DEF StatusFirst, Typed, TypedEngine, engineVars
  <2>8. CASE ev.type = "TX" /\ ~Wraps(ev.address, ev.length)
    <3>1. Release(ev) /\ UNCHANGED tcpState  BY <1>1, <2>8 DEF StatusFirst
    <3> QED  BY <2>3, <2>5, <2>8, <3>1, ReleaseTyped DEF Typed, TypedEngine, engineVars
  <2> QED  BY <2>6, <2>7, <2>8
<1>2. CASE StatusSecond
  <2>1. tash \in TxEvents /\ statuses' \in Nat  BY <1>2 DEF StatusSecond, Typed, TypedApp
  <2>2. Release(tash) /\ UNCHANGED tcpState  BY <1>2 DEF StatusSecond
  <2>3. TypedApp'  BY <1>2, <2>1 DEF StatusSecond, Typed, TypedApp
  <2> QED  BY <2>1, <2>2, <2>3, ReleaseTyped DEF Typed, TypedEngine, engineVars
<1> QED  BY <1>1, <1>2 DEF StatusHandler

LEMMA CloseTyped ==
    ASSUME Typed, AppClose
    PROVE  TypedApp' /\ sar' = sar /\ events' = events /\ tcpState' \in States
<1>1. [type |-> "FIN"] \in Requests  BY DEF Requests
<1>2. mergeApp' \in Seq(Requests)  BY <1>1, AppendFacts DEF AppClose, Typed, TypedApp
<1> QED  BY <1>2 DEF AppClose, Typed, TypedApp, States

\* What metaLoader and the timers write.
LEMMA SendTyped ==
    ASSUME Typed, NEW kind \in {"SYN", "FIN", "DATA"}, NEW from \in Int, NEW length \in Nat,
           Send(kind, from, length)
    PROVE  segments' \in Seq([kind : {"SYN", "FIN", "DATA"}, from : Int, length : Nat])
BY AppendFacts DEF Typed, TypedEngine, Send

LEMMA SetTimerTyped ==
    ASSUME Typed, NEW type \in Kinds, SetRetransmitTimer(type)
    PROVE  rtTimer' \in [active : BOOLEAN, retries : Nat, type : Kinds]
BY DEF Typed, TypedEngine, SetRetransmitTimer

LEMMA SendDataTyped ==
    ASSUME Typed, NEW from \in Int, NEW length \in Nat, SendData(from, length)
    PROVE  /\ segments' \in Seq([kind : {"SYN", "FIN", "DATA"}, from : Int, length : Nat])
           /\ rtTimer' \in [active : BOOLEAN, retries : Nat, type : Kinds]
<1>1. CASE length = 0
  BY <1>1 DEF SendData, Typed, TypedEngine
<1>2. CASE length # 0
  <2>1. Send("DATA", from, length) /\ SetRetransmitTimer("RT") /\ "RT" \in Kinds
    BY <1>2 DEF SendData, Kinds
  <2> QED  BY <2>1, SendTyped, SetTimerTyped
<1> QED  BY <1>1, <1>2

\* metaLoader at work.
Working == [type : Kinds, rt_count : Nat, sar : MlSar, sarLoaded : BOOLEAN, segmentCount : Nat]

LEMMA UsableFacts ==
    ASSUME ml \in Working
    PROVE  Used \in 0 .. SPACE - 1 /\ Usable \in Nat
<1>1. ml.sar.ackd \in Int /\ ml.sar.not_ackd \in Int /\ ml.sar.min_window \in Nat
  BY DEF Working, MlSar
<1>2. Used \in 0 .. SPACE - 1  BY <1>1, DiffFacts DEF Used
<1> QED  BY <1>1, <1>2, SpaceFacts DEF Usable

LEMMA MlTXTyped == ASSUME Typed, MlTX PROVE TypedEngine'
<1> DEFINE curr == Diff(ml.sar.app, ml.sar.not_ackd)
           fits == curr <= Usable
           rest == IF fits THEN curr ELSE Usable
           sent == IF Nagle THEN rest ELSE 0
<1>1. ml \in Working /\ ml.sar \in MlSar  BY DEF MlTX, Typed, TypedEngine, Working
<1>2. ml.sar.not_ackd \in Nat /\ ml.sar.app \in Nat  BY <1>1 DEF MlSar
<1>3. curr \in 0 .. SPACE - 1
  <2>1. ml.sar.not_ackd \in Int /\ ml.sar.app \in Int  BY <1>2
  <2> QED  BY <2>1, DiffFacts
<1>4. rest \in Nat /\ sent \in Nat  BY <1>1, <1>3, UsableFacts, SpaceFacts
<1> HIDE DEF curr, fits, rest, sent
<1>5. events' = events /\ tcpState' = tcpState  BY DEF MlTX
<1>6. CASE rest >= MSS
  <2>1. SendFull  BY <1>6 DEF MlTX, rest, fits, curr
  <2>2. SendData(ml.sar.not_ackd, MSS) /\ sar' = sar  BY <2>1 DEF SendFull
  <2>3. ml' = [ml EXCEPT !.sar.not_ackd = ml.sar.not_ackd + MSS, !.sarLoaded = TRUE]
    BY <2>1, <1>1 DEF SendFull
  <2>4. ml.sar.not_ackd + MSS \in Nat  BY <1>2, SpaceFacts
  <2>5. ml' \in Working  BY <1>1, <2>3, <2>4 DEF Working, MlSar
  <2> QED  BY <1>2, <1>5, <2>2, <2>5, SendDataTyped, SpaceFacts DEF Typed, TypedEngine, Working
<1>7. CASE ~(rest >= MSS)
  <2>1. /\ SendData(ml.sar.not_ackd, sent)
        /\ sar' = [sar EXCEPT !.not_ackd = ml.sar.not_ackd + sent]
    BY <1>7 DEF MlTX, rest, fits, curr, sent
  <2>2. ml' = IF fits /\ ml.sar.finReady /\ (Nagle \/ curr = 0)
              THEN [ml EXCEPT !.type = "FIN", !.sarLoaded = TRUE,
                              !.sar.not_ackd = ml.sar.not_ackd + sent]
              ELSE Idle
    BY <1>1, <1>7 DEF MlTX, rest, fits, curr, sent
  <2>3. ml.sar.not_ackd + sent \in Nat  BY <1>2, <1>4
  <2>4. ml' \in {Idle} \cup Working  BY <1>1, <2>2, <2>3 DEF Working, MlSar, Kinds
  <2>5. sar' \in [ackd : Nat, not_ackd : Nat, app : Nat, recv_window : Nat, cong_window : Nat,
                  count : Nat, finReady : BOOLEAN, finSent : BOOLEAN]
    BY <2>1, <2>3 DEF Typed, TypedEngine
  <2> QED  BY <1>2, <1>4, <1>5, <2>1, <2>4, <2>5, SendDataTyped DEF Typed, TypedEngine, Working
<1> QED  BY <1>6, <1>7

LEMMA MlRTTyped == ASSUME Typed, MlRT PROVE TypedEngine'
<1> DEFINE fin  == IF ml.sar.finSent THEN 1 ELSE 0
           curr == (ml.sar.not_ackd - ml.sar.ackd - fin) % SPACE
<1>1. ml \in Working /\ ml.sar \in MlSar  BY DEF MlRT, Typed, TypedEngine, Working
<1>2. ml.sar.not_ackd \in Nat /\ ml.sar.ackd \in Nat  BY <1>1 DEF MlSar
<1>3. curr \in 0 .. SPACE - 1
  <2>1. ml.sar.not_ackd - ml.sar.ackd - fin \in Int  BY <1>2
  <2> QED  BY <2>1, Reduced
<1>4. curr \in Nat  BY <1>3, SpaceFacts
<1> HIDE DEF curr
<1>5. events' = events /\ tcpState' = tcpState  BY DEF MlRT
<1>6. sar' \in [ackd : Nat, not_ackd : Nat, app : Nat, recv_window : Nat, cong_window : Nat,
                count : Nat, finReady : BOOLEAN, finSent : BOOLEAN]
  <2>1. CongWindow \in Nat  BY TxSarAssumption, SpaceFacts
  <2> QED  BY <2>1 DEF MlRT, Typed, TypedEngine
<1>7. CASE curr > MSS
  <2>1. SendData(ml.sar.ackd, MSS)  BY <1>7 DEF MlRT, curr
  <2>2. ml' = IF ml.segmentCount = 3 THEN Idle
              ELSE [ml EXCEPT !.sar.ackd = ml.sar.ackd + MSS, !.sarLoaded = TRUE,
                              !.segmentCount = ml.segmentCount + 1]
    BY <1>1, <1>7 DEF MlRT, curr
  <2>3. ml.sar.ackd + MSS \in Nat /\ ml.segmentCount + 1 \in Nat
    BY <1>1, <1>2, SpaceFacts DEF Working
  <2> HIDE DEF curr
  <2>4. ml' \in {Idle} \cup Working  BY <1>1, <2>2, <2>3 DEF Working, MlSar
  <2> QED  BY <1>2, <1>5, <1>6, <2>1, <2>4, SendDataTyped, SpaceFacts DEF Typed, TypedEngine, Working
<1>8. CASE ~(curr > MSS)
  <2>1. SendData(ml.sar.ackd, curr)  BY <1>8 DEF MlRT, curr
  <2>2. ml' = IF ml.sar.finSent THEN [ml EXCEPT !.type = "FIN", !.sarLoaded = TRUE] ELSE Idle
    BY <1>8 DEF MlRT, curr
  <2>3. ml' \in {Idle} \cup Working  BY <1>1, <2>2 DEF Working, Kinds
  <2> QED  BY <1>2, <1>4, <1>5, <1>6, <2>1, <2>3, SendDataTyped DEF Typed, TypedEngine, Working
<1> QED  BY <1>7, <1>8

LEMMA MlFINTyped == ASSUME Typed, MlFIN PROVE TypedEngine'
<1> DEFINE seq == IF ml.rt_count = 0 THEN ml.sar.not_ackd ELSE ml.sar.not_ackd - 1
<1>1. ml \in Working /\ ml.sar \in MlSar  BY DEF MlFIN, Typed, TypedEngine, Working
<1>2. ml.sar.not_ackd \in Nat /\ ml.sar.not_ackd + 1 \in Nat /\ seq \in Int  BY <1>1 DEF MlSar
<1>3. sar' \in [ackd : Nat, not_ackd : Nat, app : Nat, recv_window : Nat, cong_window : Nat,
                count : Nat, finReady : BOOLEAN, finSent : BOOLEAN]
  BY <1>2 DEF MlFIN, Typed, TypedEngine
<1>4. \/ Send("FIN", seq, 1) /\ SetRetransmitTimer("RT")
      \/ UNCHANGED <<segments, rtTimer>>
  BY DEF MlFIN
<1>5. /\ segments' \in Seq([kind : {"SYN", "FIN", "DATA"}, from : Int, length : Nat])
      /\ rtTimer' \in [active : BOOLEAN, retries : Nat, type : Kinds]
  <2>1. "RT" \in Kinds  BY DEF Kinds
  <2>2. CASE Send("FIN", seq, 1) /\ SetRetransmitTimer("RT")
    <3> HIDE DEF seq
    <3> QED  BY <1>2, <2>1, <2>2, SendTyped, SetTimerTyped
  <2> QED  BY <1>4, <2>2 DEF Typed, TypedEngine
<1> QED  BY <1>3, <1>5 DEF MlFIN, Typed, TypedEngine

LEMMA MlSYNTyped == ASSUME Typed, MlSYN PROVE TypedEngine'
<1>1. ml \in Working /\ ml.sar \in MlSar  BY DEF MlSYN, Typed, TypedEngine, Working
<1>2. ml.sar.ackd \in Nat /\ ml.type \in Kinds  BY <1>1 DEF MlSar, Working
<1>3. sar' \in [ackd : Nat, not_ackd : Nat, app : Nat, recv_window : Nat, cong_window : Nat,
                count : Nat, finReady : BOOLEAN, finSent : BOOLEAN]
  <2>1. CongWindow \in Nat  BY TxSarAssumption, SpaceFacts
  <2>2. sar' = sar \/ sar' = Initialised(0)  BY DEF MlSYN
  <2>3. 0 + 1 \in Nat /\ 0 \in Nat  OBVIOUS
  <2> QED  BY <2>1, <2>2, <2>3 DEF Typed, TypedEngine, Initialised
<1>4. PICK from \in Int : Send("SYN", from, 1)  BY <1>2 DEF MlSYN
<1>5. SetRetransmitTimer(ml.type)  BY DEF MlSYN
<1> QED  BY <1>2, <1>3, <1>4, <1>5, SendTyped, SetTimerTyped DEF MlSYN, Typed, TypedEngine

LEMMA MlLoadTyped == ASSUME Typed, MlLoad PROVE TypedEngine'
<1> USE DEF Typed, TypedEngine
<1>1. Head(events) \in [type : Kinds, rt_count : Nat] /\ events' \in Seq([type : Kinds, rt_count : Nat])
  BY TailFacts DEF MlLoad
<1>2. TxReply \in MlSar  BY DEF TxReply, MlSar, Min
<1>3. ml' \in Working  BY <1>1, <1>2 DEF MlLoad, Working
<1> QED  BY <1>1, <1>3 DEF MlLoad, Working

LEMMA MetaLoaderTyped == ASSUME Typed, MetaLoader PROVE Typed'
<1>1. TypedEngine'
  BY MlLoadTyped, MlTXTyped, MlRTTyped, MlFINTyped, MlSYNTyped DEF MetaLoader
<1>2. UNCHANGED <<appVars, rx, peerVars>>
  BY DEF MetaLoader, MlLoad, MlTX, MlRT, MlFIN, MlSYN
<1>3. TypedApp' /\ TypedPeer'  BY <1>2 DEF Typed, TypedApp, TypedPeer, appVars, peerVars
<1> QED  BY <1>1, <1>3 DEF Typed

LEMMA TimersTyped == ASSUME Typed, RtExpire \/ ProbeExpire PROVE Typed'
<1>1. TypedApp' /\ TypedPeer'
  BY DEF RtExpire, ProbeExpire, Typed, TypedApp, TypedPeer, appVars, peerVars
<1>2. CASE RtExpire
  <2>1. rtTimer.type \in Kinds /\ rtTimer.retries + 1 \in Nat  BY DEF Typed, TypedEngine
  <2>2. CASE rtTimer.retries < MaxRetries
    <3>1. Put(rtTimer.type, rtTimer.retries + 1)  BY <1>2, <2>2 DEF RtExpire
    <3>2. events' \in Seq([type : Kinds, rt_count : Nat])
      BY <2>1, <3>1, PutTyped DEF Typed
    <3> QED  BY <1>1, <1>2, <2>1, <2>2, <3>2 DEF RtExpire, Typed, TypedEngine
  <2>3. CASE ~(rtTimer.retries < MaxRetries)
    <3>1. rtTimer' = [rtTimer EXCEPT !.active = FALSE, !.retries = 0] /\ tcpState' = "CLOSED"
      BY <1>2, <2>3 DEF RtExpire
    <3>2. rtTimer' \in [active : BOOLEAN, retries : Nat, type : Kinds]
      BY <3>1 DEF Typed, TypedEngine
    <3>3. tcpState' \in States  BY <3>1 DEF States
    <3> QED  BY <1>1, <1>2, <2>3, <3>2, <3>3 DEF RtExpire, Typed, TypedEngine
  <2> QED  BY <2>2, <2>3
<1>3. CASE ProbeExpire
  <2>1. Put("TX", 0) /\ "TX" \in Kinds  BY <1>3 DEF ProbeExpire, Kinds
  <2>2. events' \in Seq([type : Kinds, rt_count : Nat])  BY <2>1, PutTyped DEF Typed
  <2> QED  BY <1>1, <1>3, <2>2 DEF ProbeExpire, Typed, TypedEngine
<1> QED  BY <1>2, <1>3

LEMMA WireTyped == ASSUME Typed, Deliver \/ Lose \/ LoseAck PROVE Typed'
<1>1. TypedApp'  BY DEF Deliver, Lose, LoseAck, Typed, TypedApp, appVars
<1>2. segments # <<>> =>
          /\ Head(segments) \in [kind : {"SYN", "FIN", "DATA"}, from : Int, length : Nat]
          /\ Tail(segments) \in Seq([kind : {"SYN", "FIN", "DATA"}, from : Int, length : Nat])
  BY TailFacts DEF Typed, TypedEngine
<1>3. CASE Deliver
  <2> DEFINE s == Head(segments)
  <2>1. s.from \in Int /\ s.length \in Nat  BY <1>2, <1>3 DEF Deliver
  <2>2. (next' = s.from + s.length /\ next < s.from + s.length) \/ next' = next
    BY <1>3 DEF Deliver, Arrives
  <2>3. next' \in Nat  BY <2>1, <2>2 DEF Typed, TypedPeer
  <2>4. TypedEngine'  BY <1>2, <1>3 DEF Deliver, Typed, TypedEngine, tableVars
  <2> QED  BY <1>1, <1>3, <2>3, <2>4 DEF Deliver, Typed, TypedPeer
<1>4. CASE Lose
  BY <1>1, <1>2, <1>4 DEF Lose, Typed, TypedEngine, TypedPeer, tableVars, peerVars
<1>5. CASE LoseAck
  BY <1>1, <1>5 DEF LoseAck, Typed, TypedEngine, TypedPeer, tableVars, engineVars
<1> QED  BY <1>3, <1>4, <1>5

LEMMA RxLoadTyped == ASSUME Typed, NEW w \in Windows, RxLoad(w) PROVE Typed'
<1>1. w \in Nat /\ next \in Nat  BY TxFlowAssumption, SpaceFacts DEF Typed, TypedPeer
<1>2. TypedApp' /\ TypedEngine'
  BY DEF RxLoad, Typed, TypedApp, TypedEngine, appVars, tableVars, engineVars
<1>3. RxReply \in RxSar  BY DEF Typed, TypedEngine, RxReply, RxSar
<1>4. rx' \in [state : {"TRANSITION"}, fastRT : {FALSE}, ack : Nat, window : Nat, sar : RxSar]
  BY <1>1, <1>3 DEF RxLoad
<1>5. next' \in Nat /\ edge' \in Nat  BY <1>1 DEF RxLoad
<1> QED  BY <1>2, <1>4, <1>5 DEF Typed, TypedPeer

LEMMA RxFastRTTyped == ASSUME Typed, RxFastRT PROVE Typed'
<1>1. Put("RT", 0) /\ "RT" \in Kinds  BY DEF RxFastRT, Kinds
<1>2. events' \in Seq([type : Kinds, rt_count : Nat])  BY <1>1, PutTyped DEF Typed
<1>3. rx' \in [state : {"LOAD"}, fastRT : BOOLEAN]  BY DEF RxFastRT, Typed, TypedPeer
<1>4. TypedApp' /\ TypedEngine'
  BY <1>2 DEF RxFastRT, Typed, TypedApp, TypedEngine, appVars, engineVars
<1> QED  BY <1>3, <1>4 DEF RxFastRT, Typed, TypedPeer, peerVars

LEMMA RxTransitionTyped == ASSUME Typed, RxTransition PROVE Typed'
<1> DEFINE all  == rx.ack = rx.sar.nextByte
           dup  == rx.ack = rx.sar.prevAck /\ ~all
           count == IF ~dup THEN 0
                    ELSE IF rx.sar.count <= TcpMaxDupAcks THEN rx.sar.count + 1
                    ELSE rx.sar.count
           cong == IF dup THEN rx.sar.cong_window ELSE Grown(rx.sar.cong_window)
<1>1. rx.ack \in Nat /\ rx.window \in Nat /\ rx.sar \in RxSar  BY DEF RxTransition, Typed, TypedPeer
<1>2. count \in Nat /\ cong \in Nat
  <2>1. rx.sar.count \in Nat /\ rx.sar.cong_window \in Nat  BY <1>1 DEF RxSar
  <2>2. Grown(rx.sar.cong_window) \in Nat  BY <2>1, SpaceFacts DEF Grown, Min
  <2> QED  BY <2>1, <2>2
<1>3. sar' = Acked(rx.ack, rx.window, cong, count) \/ sar' = sar  BY DEF RxTransition
<1> HIDE DEF count, cong
<1>4. sar' \in [ackd : Nat, not_ackd : Nat, app : Nat, recv_window : Nat, cong_window : Nat,
                count : Nat, finReady : BOOLEAN, finSent : BOOLEAN]
  BY <1>1, <1>2, <1>3 DEF Acked, Typed, TypedEngine
<1>5. Put("RT", 0) \/ events' = events  BY DEF RxTransition
<1>6. events' \in Seq([type : Kinds, rt_count : Nat])
  <2>1. "RT" \in Kinds  BY DEF Kinds
  <2> QED  BY <1>5, <2>1, PutTyped DEF Typed, TypedEngine
<1>7. rtTimer' \in [active : BOOLEAN, retries : Nat, type : Kinds] /\ tcpState' \in States
  BY DEF RxTransition, Typed, TypedEngine, States
<1>8. TypedEngine'  BY <1>4, <1>6, <1>7 DEF RxTransition, Typed, TypedEngine
<1>9. TypedApp' /\ TypedPeer'
  BY DEF RxTransition, Typed, TypedApp, TypedPeer, appVars, peerVars
<1> QED  BY <1>8, <1>9 DEF Typed

LEMMA AppTyped == ASSUME Typed, App(AppNext) \/ App(AppClose) PROVE Typed'
<1>1. UNCHANGED <<engineVars, rx, peerVars>>  BY DEF App
<1>2. TypedPeer'  BY <1>1 DEF Typed, TypedPeer, peerVars
<1>3. CASE AppClose
  BY <1>1, <1>2, <1>3, CloseTyped DEF Typed, TypedEngine, engineVars
<1>4. CASE StatusHandler
  BY <1>1, <1>2, <1>4, StatusTyped DEF Typed
<1>5. CASE AppNext /\ ~StatusHandler
  <2>1. TypedApp' /\ UNCHANGED tableVars
    BY <1>5, WriterTyped, MergeTyped DEF AppNext
  <2> QED  BY <1>1, <1>2, <2>1 DEF Typed, TypedEngine, engineVars, tableVars
<1> QED  BY <1>3, <1>4, <1>5 DEF App

LEMMA NextTyped == ASSUME Typed, [Next]_vars PROVE Typed'
<1>1. CASE Next
  <2>1. ASSUME NEW w \in Windows, RxLoad(w) PROVE Typed'  BY <2>1, RxLoadTyped
  <2> QED  BY <1>1, <2>1, AppTyped, MetaLoaderTyped, TimersTyped, WireTyped, RxFastRTTyped,
              RxTransitionTyped DEF Next, RxEngine
<1>2. CASE UNCHANGED vars
  BY <1>2 DEF vars, Typed, TypedApp, TypedEngine, TypedPeer, appVars, tableVars, engineVars, peerVars
<1> QED  BY <1>1, <1>2

-----------------------------------------------------------------------------
(***************************************************************************)
(* What happened to the writes.  A history h numbers the commands for the  *)
(* memory, those to come included, and the writes of the application:      *)
(* command i ends where the next one starts, at cut[i]; write w starts     *)
(* with command start[w]; entry base + j of the events in cache belongs to *)
(* write index[base + j] or, if it is no write, comes before that one.  Of *)
(* the commands, done are in memory and released have had their status     *)
(* taken for them.                                                         *)
(***************************************************************************)
Histories == [cut : [Nat -> Nat], start : [Nat -> Nat], index : [Nat -> Nat],
              commands : Nat, writes : Nat, done : Nat, released : Nat, base : Nat]

\* Write w is that of n bytes at position p: one command, or two if it wraps.
IsWrite(h, w, p, n) ==
    /\ w \in 0 .. h.writes - 1
    /\ h.cut[h.start[w]] = p
    /\ h.cut[h.start[w + 1]] = p + n
    /\ IF Wraps(p, n)
       THEN /\ h.start[w + 1] = h.start[w] + 2
            /\ h.cut[h.start[w] + 1] = p + BeforeWrap(p)
       ELSE h.start[w + 1] = h.start[w] + 1

\* The commands that tasi_pkg_pusher has sent.
Pushed(h) == h.done + Len(commands)

Cuts(h) ==
    /\ h.cut[0] >= 1 /\ h.cut[h.commands] = mempt
    /\ \A i, j \in 0 .. h.commands : i <= j => h.cut[i] <= h.cut[j]
    /\ h.start[h.writes] = h.commands
    /\ \A w \in 0 .. h.writes : h.start[w] <= h.commands

Memory(h) ==
    /\ h.done <= h.commands /\ h.cut[h.done] = written
    /\ \A i \in 1 .. Len(commands) : commands[i] = h.cut[h.done + i] - h.cut[h.done + i - 1]
    /\ pushing # 0 => pushing = h.cut[Pushed(h) + 1] - h.cut[Pushed(h)]

ToMemory(h) ==
    /\ Len(toBuf) <= h.writes
    /\ h.start[h.writes - Len(toBuf)] = Pushed(h) + (IF pushing = 0 THEN 0 ELSE 1)
    /\ \A j \in 1 .. Len(toBuf) :
           IsWrite(h, h.writes - Len(toBuf) + j - 1, toBuf[j].from, toBuf[j].length)

ToMerger(h) ==
    /\ Len(mergeStream) <= h.writes
    /\ \A j \in 1 .. Len(mergeStream) :
           IsWrite(h, h.writes - Len(mergeStream) + j - 1, mergeStream[j].address,
                   mergeStream[j].length)

Cached(h) ==
    /\ h.index[h.base + Len(cache) + 1] = h.writes - Len(mergeStream)
    /\ \A j \in 1 .. Len(cache) + 1 : h.index[h.base + j] <= h.writes
    /\ \A j \in 1 .. Len(cache) :
           IF cache[j].type = "TX"
           THEN /\ IsWrite(h, h.index[h.base + j], cache[j].address, cache[j].length)
                /\ h.index[h.base + j + 1] = h.index[h.base + j] + 1
           ELSE h.index[h.base + j + 1] = h.index[h.base + j]

Statuses(h) ==
    /\ h.released + statuses <= h.done
    /\ sar.app <= h.cut[h.released]
    /\ IF tash = None THEN h.start[h.index[h.base + 1]] = h.released
       ELSE /\ h.start[h.index[h.base + 1]] = h.released + 1
            /\ h.cut[h.released + 1] = tash.address + tash.length

History(h) == Cuts(h) /\ Memory(h) /\ ToMemory(h) /\ ToMerger(h) /\ Cached(h) /\ Statuses(h)

HistoryHolds == \E h \in Histories : History(h)

LEMMA InitHistory == Init => HistoryHolds
<1> SUFFICES ASSUME Init PROVE HistoryHolds  OBVIOUS
<1> DEFINE h == [cut |-> [i \in Nat |-> 1], start |-> [i \in Nat |-> 0],
                 index |-> [i \in Nat |-> 0],
                 commands |-> 0, writes |-> 0, done |-> 0, released |-> 0, base |-> 0]
<1>1. h \in Histories  BY DEF Histories
<1>2. /\ mempt = 1 /\ toBuf = <<>> /\ pushing = 0 /\ commands = <<>> /\ written = 1
      /\ statuses = 0 /\ mergeStream = <<>> /\ cache = <<>> /\ tash = None /\ sar.app = 0
  BY DEF Init, InitApp, InitSar
<1>3. Len(toBuf) = 0 /\ Len(commands) = 0 /\ Len(mergeStream) = 0 /\ Len(cache) = 0
  BY <1>2
<1>4. Cuts(h) /\ Memory(h)  BY <1>2, <1>3 DEF Cuts, Memory, Pushed
<1>5. ToMemory(h) /\ ToMerger(h)  BY <1>2, <1>3 DEF ToMemory, ToMerger, Pushed
<1>6. Cached(h) /\ Statuses(h)  BY <1>2, <1>3 DEF Cached, Statuses
<1> HIDE DEF h
<1> QED  BY <1>1, <1>4, <1>5, <1>6 DEF HistoryHolds, History

LEMMA HistoryTypes ==
    ASSUME NEW h \in Histories
    PROVE  /\ h.cut \in [Nat -> Nat] /\ h.start \in [Nat -> Nat] /\ h.index \in [Nat -> Nat]
           /\ h.commands \in Nat /\ h.writes \in Nat /\ h.done \in Nat /\ h.released \in Nat
           /\ h.base \in Nat
           /\ \A i \in Nat : h.cut[i] \in Nat /\ h.start[i] \in Nat /\ h.index[i] \in Nat
BY DEF Histories

LEMMA Lengths ==
    ASSUME Typed
    PROVE  /\ Len(toBuf) \in Nat /\ Len(commands) \in Nat /\ Len(mergeStream) \in Nat
           /\ Len(cache) \in Nat
           /\ \A j \in 1 .. Len(toBuf) : toBuf[j] \in [from : Nat, length : 1 .. SPACE - 1]
           /\ \A j \in 1 .. Len(commands) : commands[j] \in Nat
           /\ \A j \in 1 .. Len(mergeStream) : mergeStream[j] \in TxEvents
           /\ \A j \in 1 .. Len(cache) : cache[j] \in TxEvents \cup Requests
BY LenProperties, ElementOfSeq DEF Typed, TypedApp

\* Positions do not go down.
LEMMA CutGrows ==
    ASSUME NEW h \in Histories, Cuts(h), NEW i \in Nat, NEW j \in Nat, i <= j, j <= h.commands
    PROVE  1 <= h.cut[i] /\ h.cut[i] <= h.cut[j] /\ h.cut[j] <= mempt
<1>1. h.commands \in Nat /\ \A k \in Nat : h.cut[k] \in Nat  BY HistoryTypes
<1>2. 0 \in 0 .. h.commands /\ i \in 0 .. h.commands /\ j \in 0 .. h.commands
      /\ h.commands \in 0 .. h.commands
  BY <1>1
<1>3. h.cut[0] <= h.cut[i] /\ h.cut[i] <= h.cut[j] /\ h.cut[j] <= h.cut[h.commands]
  BY <1>1, <1>2 DEF Cuts
<1>4. h.cut[0] >= 1 /\ h.cut[h.commands] = mempt  BY DEF Cuts
<1>5. h.cut[0] \in Nat /\ h.cut[i] \in Nat /\ h.cut[j] \in Nat  BY <1>1
<1> QED  BY <1>3, <1>4, <1>5

\* The commands that have been sent are among those that are planned.
LEMMA PushedPlanned ==
    ASSUME Typed, NEW h \in Histories, History(h)
    PROVE  /\ Pushed(h) \in Nat /\ h.done <= Pushed(h)
           /\ Pushed(h) + (IF pushing = 0 THEN 0 ELSE 1) <= h.commands
<1>1. h.writes \in Nat /\ h.done \in Nat  BY HistoryTypes
<1>2. Len(toBuf) \in Nat /\ Len(commands) \in Nat  BY Lengths
<1>3. Len(toBuf) <= h.writes  BY DEF History, ToMemory
<1>4. h.writes - Len(toBuf) \in 0 .. h.writes  BY <1>1, <1>2, <1>3
<1>5. h.start[h.writes - Len(toBuf)] <= h.commands  BY <1>4 DEF History, Cuts
<1>6. Pushed(h) \in Nat /\ h.done <= Pushed(h)  BY <1>1, <1>2 DEF Pushed
<1> QED  BY <1>5, <1>6 DEF History, ToMemory

LEMMA HistoryKept ==
    ASSUME NEW h \in Histories, History(h), sar'.app <= h.cut[h.released],
           UNCHANGED <<mempt, toBuf, pushing, commands, written, statuses, mergeStream, cache, tash>>
    PROVE  HistoryHolds'
<1>1. Cuts(h)' /\ Memory(h)'  BY DEF History, Cuts, Memory, Pushed
<1>2. ToMemory(h)' /\ ToMerger(h)' /\ Cached(h)'
  BY DEF History, ToMemory, ToMerger, Cached, Pushed
<1>3. Statuses(h)'  BY DEF History, Statuses
<1> QED  BY <1>1, <1>2, <1>3 DEF HistoryHolds, History

\* h2 knows of more commands and more writes than h, and agrees on the rest.
Extends(h2, h) ==
    /\ h.commands <= h2.commands /\ h.writes <= h2.writes
    /\ \A i \in 0 .. h.commands : h2.cut[i] = h.cut[i]
    /\ \A w \in 0 .. h.writes : h2.start[w] = h.start[w]

LEMMA WriteKept ==
    ASSUME NEW h \in Histories, NEW h2 \in Histories, Extends(h2, h), Cuts(h),
           NEW w, NEW p \in Nat, NEW n, IsWrite(h, w, p, n)
    PROVE  IsWrite(h2, w, p, n)
<1>1. /\ h.writes \in Nat /\ h2.writes \in Nat /\ h.commands \in Nat
      /\ \A i \in Nat : h.start[i] \in Nat
  BY HistoryTypes
<1>2. w \in 0 .. h.writes - 1  BY DEF IsWrite
<1>3. w \in 0 .. h.writes /\ w + 1 \in 0 .. h.writes /\ w \in 0 .. h2.writes - 1
  BY <1>1, <1>2 DEF Extends
<1>4. h2.start[w] = h.start[w] /\ h2.start[w + 1] = h.start[w + 1]  BY <1>3 DEF Extends
<1>5. h.start[w] \in 0 .. h.commands /\ h.start[w + 1] \in 0 .. h.commands
  BY <1>1, <1>3 DEF Cuts
<1>6. h2.cut[h.start[w]] = h.cut[h.start[w]] /\ h2.cut[h.start[w + 1]] = h.cut[h.start[w + 1]]
  BY <1>5 DEF Extends
<1>7. CASE Wraps(p, n)
  <2>1. h.start[w + 1] = h.start[w] + 2  BY <1>7 DEF IsWrite
  <2>2. h.start[w] + 1 \in 0 .. h.commands  BY <1>1, <1>5, <2>1
  <2>3. h2.cut[h.start[w] + 1] = h.cut[h.start[w] + 1]  BY <2>2 DEF Extends
  <2> QED  BY <1>3, <1>4, <1>6, <1>7, <2>3 DEF IsWrite
<1>8. CASE ~Wraps(p, n)
  BY <1>3, <1>4, <1>6, <1>8 DEF IsWrite
<1> QED  BY <1>7, <1>8

LEMMA ReadMetaHistory == ASSUME Typed, HistoryHolds, ReadMeta, sar' = sar PROVE HistoryHolds'
<1>1. PICK h \in Histories : History(h)  BY DEF HistoryHolds
<1> DEFINE length == tai.length
<1>2. CASE tai.state # "ESTABLISHED" \/ tai.length > MaxWriteLength(tai.ackd)
  <2>1. UNCHANGED <<mempt, toBuf, pushing, commands, written, statuses, mergeStream, cache, tash>>
    BY <1>2 DEF ReadMeta
  <2> QED  BY <1>1, <2>1, HistoryKept DEF History, Statuses
<1>3. CASE ~(tai.state # "ESTABLISHED" \/ tai.length > MaxWriteLength(tai.ackd))
  <2>1. /\ toBuf' = Append(toBuf, [from |-> mempt, length |-> length])
        /\ mergeStream' = Append(mergeStream,
               [type |-> "TX", address |-> mempt, length |-> length])
        /\ mempt' = mempt + length
        /\ UNCHANGED <<pushing, commands, written, statuses, cache, tash>>
    BY <1>3 DEF ReadMeta
  <2>2. length \in 1 .. SPACE - 1 /\ mempt \in Nat /\ BeforeWrap(mempt) \in 1 .. SPACE
    BY BeforeWrapFacts DEF ReadMeta, Typed, TypedApp
  <2> DEFINE wraps == Wraps(mempt, length)
             size == IF wraps THEN 2 ELSE 1
             cut == [i \in Nat |-> IF i <= h.commands THEN h.cut[i]
                                   ELSE IF wraps /\ i = h.commands + 1
                                        THEN mempt + BeforeWrap(mempt)
                                   ELSE mempt + length]
             start == [w \in Nat |-> IF w <= h.writes THEN h.start[w] ELSE h.commands + size]
             g == [h EXCEPT !.cut = cut, !.start = start, !.commands = h.commands + size,
                            !.writes = h.writes + 1]
  <2>3. /\ length \in Nat /\ length > 0 /\ BeforeWrap(mempt) \in Nat /\ size \in {1, 2}
        /\ wraps => BeforeWrap(mempt) < length
        /\ wraps <=> size = 2
    BY <2>2, SpaceFacts DEF Wraps
  <2>4. /\ h.commands \in Nat /\ h.writes \in Nat /\ h.done \in Nat /\ h.base \in Nat
        /\ h.released \in Nat
        /\ \A i \in Nat : h.cut[i] \in Nat /\ h.start[i] \in Nat /\ h.index[i] \in Nat
    BY HistoryTypes
  <2>5. cut \in [Nat -> Nat] /\ start \in [Nat -> Nat]
    BY <2>2, <2>3, <2>4
  <2> HIDE DEF size, wraps
  <2>6. PICK h2 \in Histories :
            /\ h2.cut = cut /\ h2.start = start /\ h2.commands = h.commands + size
            /\ h2.writes = h.writes + 1 /\ h2.index = h.index /\ h2.done = h.done
            /\ h2.released = h.released /\ h2.base = h.base
    <3> HIDE DEF cut, start
    <3>1. h.commands + size \in Nat /\ h.writes + 1 \in Nat  BY <2>3, <2>4
    <3>2. g \in Histories  BY <2>5, <3>1 DEF Histories
    <3> QED  BY <3>2 DEF Histories
  <2>7. /\ h2.cut = cut /\ h2.start = start /\ h2.commands = h.commands + size
        /\ h2.writes = h.writes + 1 /\ h2.index = h.index /\ h2.done = h.done
        /\ h2.released = h.released /\ h2.base = h.base
    BY <2>6
  <2>8. /\ \A i \in 0 .. h.commands : cut[i] = h.cut[i]
        /\ wraps => cut[h.commands + 1] = mempt + BeforeWrap(mempt)
        /\ cut[h.commands + size] = mempt + length
    BY <2>3, <2>4
  <2>9. /\ \A w \in 0 .. h.writes : start[w] = h.start[w]
        /\ start[h.writes + 1] = h.commands + size
    BY <2>4
  <2> HIDE DEF cut, start
  <2>10. Extends(h2, h)  BY <2>3, <2>4, <2>7, <2>8, <2>9 DEF Extends
  <2>11. Cuts(h)  BY <1>1 DEF History
  <2>12. h.start[h.writes] = h.commands /\ h.cut[h.commands] = mempt  BY <2>11 DEF Cuts
  <2>13. IsWrite(h2, h.writes, mempt, length)
    <3>1. h.writes \in 0 .. h2.writes - 1  BY <2>4, <2>7
    <3>2. h2.start[h.writes] = h.commands /\ h2.start[h.writes + 1] = h.commands + size
      BY <2>4, <2>7, <2>9, <2>12
    <3>3. h2.cut[h.commands] = mempt /\ h2.cut[h.commands + size] = mempt + length
      BY <2>4, <2>7, <2>8, <2>12
    <3>4. CASE wraps
      <4>1. size = 2 /\ h2.cut[h.commands + 1] = mempt + BeforeWrap(mempt)
        BY <2>3, <2>7, <2>8, <3>4
      <4> QED  BY <3>1, <3>2, <3>3, <3>4, <4>1 DEF IsWrite, wraps
    <3>5. CASE ~wraps
      <4>1. size = 1  BY <2>3, <3>5
      <4> QED  BY <3>1, <3>2, <3>3, <3>5, <4>1 DEF IsWrite, wraps
    <3> QED  BY <3>4, <3>5
  <2>14. Cuts(h2)'
    <3>1. h2.cut[0] >= 1 /\ h2.cut[h2.commands] = mempt'
      BY <2>1, <2>4, <2>7, <2>8, <2>11 DEF Cuts
    <3>2. ASSUME NEW i \in 0 .. h2.commands, NEW j \in 0 .. h2.commands, i <= j
          PROVE  h2.cut[i] <= h2.cut[j]
      <4>1. \A k \in 0 .. h.commands : h2.cut[k] <= mempt /\ h2.cut[k] = h.cut[k] /\ h.cut[k] \in Nat
        BY <2>4, <2>7, <2>8, <2>11, CutGrows
      <4>2. CASE j <= h.commands
        <5>1. i \in 0 .. h.commands /\ j \in 0 .. h.commands  BY <2>4, <2>7, <3>2, <4>2
        <5>2. h.cut[i] <= h.cut[j]  BY <2>11, <3>2, <5>1 DEF Cuts
        <5> QED  BY <4>1, <5>1, <5>2
      <4>3. CASE j > h.commands
        <5>1. h2.cut[h.commands + size] = mempt + length  BY <2>7, <2>8
        <5>2. wraps => h2.cut[h.commands + 1] = mempt + BeforeWrap(mempt)  BY <2>7, <2>8
        <5>6. /\ i \in Nat /\ j \in Nat /\ h.commands \in Nat
              /\ i <= h.commands + size /\ j <= h.commands + size
          BY <2>3, <2>4, <2>7
        <5>3. i \in 0 .. h.commands \/ (wraps /\ i = h.commands + 1) \/ i = h.commands + size
          BY <2>3, <5>6
        <5>4. (wraps /\ j = h.commands + 1) \/ j = h.commands + size
          BY <2>3, <4>3, <5>6
        <5>5. wraps => size = 2  BY <2>3
        <5> QED  BY <2>2, <2>3, <2>4, <3>2, <4>1, <5>1, <5>2, <5>3, <5>4, <5>5
      <4> QED  BY <2>4, <2>3, <2>7, <4>2, <4>3
    <3>3. h2.start[h2.writes] = h2.commands  BY <2>7, <2>9
    <3>4. ASSUME NEW w \in 0 .. h2.writes PROVE h2.start[w] <= h2.commands
      <4>1. CASE w \in 0 .. h.writes
        <5>1. h2.start[w] = h.start[w] /\ h.start[w] \in Nat /\ h.start[w] <= h.commands
          BY <2>4, <2>7, <2>9, <2>11, <4>1 DEF Cuts
        <5> QED  BY <2>3, <2>4, <2>7, <5>1
      <4>2. CASE w = h.writes + 1
        BY <2>3, <2>4, <2>7, <2>9, <4>2
      <4> QED  BY <2>4, <2>7, <4>1, <4>2
    <3> QED  BY <3>1, <3>2, <3>3, <3>4 DEF Cuts
  <2>15. Pushed(h) \in Nat /\ h.done <= Pushed(h)
         /\ Pushed(h) + (IF pushing = 0 THEN 0 ELSE 1) <= h.commands
    BY <1>1, PushedPlanned
  <2>16. Pushed(h2)' = Pushed(h) /\ h2.done = h.done  BY <2>1, <2>7 DEF Pushed
  <2>17. Memory(h2)'
    <3>1. Memory(h)  BY <1>1 DEF History
    <3>2. h2.done <= h2.commands /\ h2.cut[h2.done] = written'
      BY <2>1, <2>3, <2>4, <2>7, <2>8, <2>15, <3>1 DEF Memory
    <3>3. ASSUME NEW i \in 1 .. Len(commands)
          PROVE  commands[i] = h2.cut[h2.done + i] - h2.cut[h2.done + i - 1]
      <4>1. h.done + i \in 0 .. h.commands /\ h.done + i - 1 \in 0 .. h.commands
        <5>1. i \in Nat /\ i >= 1 /\ i <= Len(commands) /\ Len(commands) \in Nat
          BY Lengths
        <5>2. h.done + Len(commands) <= h.commands  BY <2>4, <2>15 DEF Pushed
        <5> QED  BY <2>4, <5>1, <5>2
      <4>2. commands[i] = h.cut[h.done + i] - h.cut[h.done + i - 1]  BY <3>1 DEF Memory
      <4> QED  BY <2>7, <2>8, <4>1, <4>2
    <3>4. pushing # 0 => pushing = h2.cut[Pushed(h) + 1] - h2.cut[Pushed(h)]
      <4>1. SUFFICES ASSUME pushing # 0 PROVE pushing = h2.cut[Pushed(h) + 1] - h2.cut[Pushed(h)]
        OBVIOUS
      <4>2. Pushed(h) \in 0 .. h.commands /\ Pushed(h) + 1 \in 0 .. h.commands
        BY <2>4, <2>15, <4>1
      <4>3. pushing = h.cut[Pushed(h) + 1] - h.cut[Pushed(h)]  BY <3>1, <4>1 DEF Memory
      <4> QED  BY <2>7, <2>8, <4>2, <4>3
    <3> QED  BY <2>1, <2>16, <3>2, <3>3, <3>4 DEF Memory
  <2>18. ToMemory(h2)'
    <3>1. ToMemory(h)  BY <1>1 DEF History
    <3>2. /\ Len(toBuf) \in Nat /\ Len(toBuf') = Len(toBuf) + 1
          /\ \A j \in 1 .. Len(toBuf) : toBuf'[j] = toBuf[j]
          /\ toBuf'[Len(toBuf) + 1] = [from |-> mempt, length |-> length]
      <4>1. [from |-> mempt, length |-> length] \in [from : Nat, length : 1 .. SPACE - 1]
        BY <2>2
      <4> QED  BY <2>1, <4>1, AppendFacts DEF Typed, TypedApp
    <3>3. h2.writes - Len(toBuf') = h.writes - Len(toBuf) /\ Len(toBuf) <= h.writes
      <4>1. Len(toBuf) <= h.writes  BY <3>1 DEF ToMemory
      <4> QED  BY <2>4, <2>7, <3>2, <4>1
    <3>4. h2.start[h.writes - Len(toBuf)] = Pushed(h) + (IF pushing = 0 THEN 0 ELSE 1)
      <4>1. h.writes - Len(toBuf) \in 0 .. h.writes  BY <2>4, <3>2, <3>3
      <4> QED  BY <2>7, <2>9, <3>1, <4>1 DEF ToMemory
    <3>5. ASSUME NEW j \in 1 .. Len(toBuf')
          PROVE  IsWrite(h2, h.writes - Len(toBuf) + j - 1, toBuf'[j].from, toBuf'[j].length)
      <4>1. CASE j \in 1 .. Len(toBuf)
        <5>1. IsWrite(h, h.writes - Len(toBuf) + j - 1, toBuf[j].from, toBuf[j].length)
          BY <3>1, <4>1 DEF ToMemory
        <5>2. toBuf[j].from \in Nat  BY <4>1, Lengths
        <5> QED  BY <2>6, <2>10, <2>11, <3>2, <4>1, <5>1, <5>2, WriteKept
      <4>2. CASE j = Len(toBuf) + 1
        <5>1. h.writes - Len(toBuf) + j - 1 = h.writes  BY <2>4, <3>2, <4>2
        <5> QED  BY <2>13, <3>2, <4>2, <5>1
      <4> QED  BY <3>2, <4>1, <4>2
    <3>6. Len(toBuf') <= h2.writes  BY <2>4, <2>7, <3>2, <3>3
    <3> QED  BY <2>1, <2>16, <3>3, <3>4, <3>5, <3>6 DEF ToMemory
  <2>19. ToMerger(h2)'
    <3>1. ToMerger(h)  BY <1>1 DEF History
    <3>2. /\ Len(mergeStream) \in Nat /\ Len(mergeStream') = Len(mergeStream) + 1
          /\ \A j \in 1 .. Len(mergeStream) : mergeStream'[j] = mergeStream[j]
          /\ mergeStream'[Len(mergeStream) + 1]
                 = [type |-> "TX", address |-> mempt, length |-> length]
      <4>1. [type |-> "TX", address |-> mempt, length |-> length] \in TxEvents
        BY <2>2 DEF TxEvents
      <4> QED  BY <2>1, <4>1, AppendFacts DEF Typed, TypedApp
    <3>3. h2.writes - Len(mergeStream') = h.writes - Len(mergeStream)
          /\ Len(mergeStream) <= h.writes
      BY <2>4, <2>7, <3>1, <3>2 DEF ToMerger
    <3>4. ASSUME NEW j \in 1 .. Len(mergeStream')
          PROVE  IsWrite(h2, h.writes - Len(mergeStream) + j - 1, mergeStream'[j].address,
                         mergeStream'[j].length)
      <4>1. CASE j \in 1 .. Len(mergeStream)
        <5>1. IsWrite(h, h.writes - Len(mergeStream) + j - 1, mergeStream[j].address,
                      mergeStream[j].length)
          BY <3>1, <4>1 DEF ToMerger
        <5>2. mergeStream[j].address \in Nat  BY <4>1, Lengths DEF TxEvents
        <5> QED  BY <2>6, <2>10, <2>11, <3>2, <4>1, <5>1, <5>2, WriteKept
      <4>2. CASE j = Len(mergeStream) + 1
        <5>1. h.writes - Len(mergeStream) + j - 1 = h.writes  BY <2>4, <3>2, <4>2
        <5> QED  BY <2>13, <3>2, <4>2, <5>1
      <4> QED  BY <3>2, <4>1, <4>2
    <3>5. Len(mergeStream') <= h2.writes  BY <2>4, <2>7, <3>2, <3>3
    <3> QED  BY <3>3, <3>4, <3>5 DEF ToMerger
  <2>20. h2.writes - Len(mergeStream') = h.writes - Len(mergeStream)
    <3>1. Len(mergeStream) \in Nat /\ Len(mergeStream') = Len(mergeStream) + 1
      <4>1. [type |-> "TX", address |-> mempt, length |-> length] \in TxEvents
        BY <2>2 DEF TxEvents
      <4> QED  BY <2>1, <4>1, AppendFacts DEF Typed, TypedApp
    <3> QED  BY <2>4, <2>7, <3>1
  <2>21. Cached(h2)'
    <3>1. Cached(h)  BY <1>1 DEF History
    <3>2. ASSUME NEW j \in 1 .. Len(cache), cache[j].type = "TX"
          PROVE  IsWrite(h2, h2.index[h2.base + j], cache[j].address, cache[j].length)
      <4>1. IsWrite(h, h.index[h.base + j], cache[j].address, cache[j].length)
        BY <3>1, <3>2 DEF Cached
      <4>2. cache[j].address \in Nat  BY <3>2, Lengths DEF TxEvents, Requests
      <4>3. IsWrite(h2, h.index[h.base + j], cache[j].address, cache[j].length)
        BY <2>6, <2>10, <2>11, <4>1, <4>2, WriteKept
      <4> QED  BY <2>7, <4>3
    <3>3. ASSUME NEW j \in 1 .. Len(cache) + 1 PROVE h2.index[h2.base + j] <= h2.writes
      <4>1. h.index[h.base + j] \in Nat /\ h.index[h.base + j] <= h.writes
        BY <2>4, <3>1, Lengths DEF Cached
      <4> QED  BY <2>4, <2>7, <4>1
    <3> QED  BY <2>1, <2>7, <2>20, <3>1, <3>2, <3>3 DEF Cached
  <2>22. Statuses(h2)'
    <3>1. Statuses(h) /\ Cached(h) /\ Memory(h)  BY <1>1 DEF History
    <3>2. h.index[h.base + 1] \in 0 .. h.writes
      <4>1. 1 \in 1 .. Len(cache) + 1  BY Lengths
      <4> QED  BY <2>4, <3>1, <4>1 DEF Cached
    <3>3. h2.start[h2.index[h2.base + 1]] = h.start[h.index[h.base + 1]]
      BY <2>7, <2>9, <3>2
    <3>4. h.start[h.index[h.base + 1]] <= h.commands  BY <2>11, <3>2 DEF Cuts
    <3>5. h.released <= h.commands
      BY <2>4, <3>1 DEF Statuses, Memory, Typed, TypedApp
    <3>6. h2.cut[h.released] = h.cut[h.released]
      <4>1. h.released \in 0 .. h.commands  BY <2>4, <3>5
      <4> QED  BY <2>7, <2>8, <4>1
    <3>7. CASE tash = None
      BY <2>1, <2>7, <3>1, <3>3, <3>6, <3>7 DEF Statuses
    <3>8. CASE tash # None
      <4>1. h.released + 1 \in 0 .. h.commands  BY <2>4, <3>1, <3>4, <3>8 DEF Statuses
      <4>2. h2.cut[h.released + 1] = h.cut[h.released + 1]  BY <2>7, <2>8, <4>1
      <4> QED  BY <2>1, <2>7, <3>1, <3>3, <3>6, <3>8, <4>2 DEF Statuses
    <3> QED  BY <3>7, <3>8
  <2> QED  BY <2>6, <2>14, <2>17, <2>18, <2>19, <2>21, <2>22 DEF HistoryHolds, History
<1> QED  BY <1>2, <1>3

LEMMA PushCommandHistory ==
    ASSUME Typed, HistoryHolds, PushCommand, sar' = sar PROVE HistoryHolds'
<1>1. PICK h \in Histories : History(h)  BY DEF HistoryHolds
<1> DEFINE w == h.writes - Len(toBuf)
           p == Head(toBuf).from
           n == Head(toBuf).length
           first == IF Wraps(p, n) THEN BeforeWrap(p) ELSE n
<1>2. /\ pushing = 0 /\ toBuf # <<>> /\ commands' = Append(commands, first)
      /\ pushing' = n - first /\ toBuf' = Tail(toBuf)
      /\ UNCHANGED <<mempt, written, statuses, mergeStream, cache, tash>>
  BY DEF PushCommand
<1>3. /\ Len(toBuf) \in Nat \ {0} /\ Len(toBuf') = Len(toBuf) - 1 /\ Head(toBuf) = toBuf[1]
      /\ \A j \in 1 .. Len(toBuf) - 1 : toBuf'[j] = toBuf[j + 1]
      /\ p \in Nat /\ n \in Nat
  <2>1. toBuf \in Seq([from : Nat, length : 1 .. SPACE - 1])  BY DEF Typed, TypedApp
  <2>2. Head(toBuf) \in [from : Nat, length : 1 .. SPACE - 1]  BY <1>2, <2>1, TailFacts
  <2> QED  BY <1>2, <2>1, <2>2, TailFacts, SpaceFacts
<1>4. BeforeWrap(p) \in Nat
  <2>1. BeforeWrap(p) \in 1 .. SPACE  BY <1>3, BeforeWrapFacts
  <2> QED  BY <2>1, SpaceFacts
<1>5. first \in Nat  BY <1>3, <1>4
<1>6. /\ Len(commands) \in Nat /\ Len(commands') = Len(commands) + 1
      /\ \A i \in 1 .. Len(commands) : commands'[i] = commands[i]
      /\ commands'[Len(commands) + 1] = first
  BY <1>2, <1>5, AppendFacts DEF Typed, TypedApp
<1>7. /\ h.commands \in Nat /\ h.writes \in Nat /\ h.done \in Nat
      /\ \A i \in Nat : h.cut[i] \in Nat /\ h.start[i] \in Nat
  BY HistoryTypes
<1>8. Cuts(h) /\ Memory(h) /\ ToMemory(h) /\ ToMerger(h) /\ Cached(h) /\ Statuses(h)
  BY <1>1 DEF History
<1>9. w \in Nat /\ h.start[w] = Pushed(h) /\ IsWrite(h, w, p, n) /\ Pushed(h) \in Nat
  <2>1. Len(toBuf) <= h.writes /\ h.start[w] = Pushed(h)  BY <1>2, <1>7, <1>8 DEF ToMemory, Pushed
  <2>2. 1 \in 1 .. Len(toBuf)  BY <1>3
  <2>3. IsWrite(h, h.writes - Len(toBuf) + 1 - 1, toBuf[1].from, toBuf[1].length)
    BY <1>8, <2>2 DEF ToMemory
  <2>4. h.writes - Len(toBuf) + 1 - 1 = w  BY <1>3, <1>7
  <2>5. Pushed(h) \in Nat  BY <1>6, <1>7 DEF Pushed
  <2> QED  BY <1>3, <1>7, <2>1, <2>3, <2>4, <2>5
<1>10. Pushed(h)' = Pushed(h) + 1
  <2>1. Pushed(h)' = h.done + Len(commands') /\ Pushed(h) = h.done + Len(commands)
    BY DEF Pushed
  <2>2. h.done \in Nat /\ Len(commands) \in Nat /\ Len(commands') = Len(commands) + 1
    BY <1>6, <1>7
  <2> QED  BY <2>1, <2>2
<1>11. /\ first = h.cut[Pushed(h) + 1] - h.cut[Pushed(h)]
       /\ pushing' # 0 => pushing' = h.cut[Pushed(h) + 2] - h.cut[Pushed(h) + 1]
       /\ h.start[w + 1] = Pushed(h) + 1 + (IF pushing' = 0 THEN 0 ELSE 1)
  <2>1. h.cut[Pushed(h)] = p /\ h.cut[h.start[w + 1]] = p + n  BY <1>9 DEF IsWrite
  <2>2. CASE Wraps(p, n)
    <3>1. h.start[w + 1] = Pushed(h) + 2 /\ h.cut[Pushed(h) + 1] = p + BeforeWrap(p)
      BY <1>9, <2>2 DEF IsWrite
    <3>2. n > BeforeWrap(p) /\ first = BeforeWrap(p)  BY <2>2 DEF Wraps
    <3> QED  BY <1>2, <1>3, <1>4, <1>9, <2>1, <3>1, <3>2
  <2>3. CASE ~Wraps(p, n)
    <3>1. h.start[w + 1] = Pushed(h) + 1 /\ first = n  BY <1>9, <2>3 DEF IsWrite
    <3> QED  BY <1>2, <1>3, <1>9, <2>1, <3>1
  <2> QED  BY <2>2, <2>3
<1> HIDE DEF first
<1>12. Memory(h)'
  <2>1. h.done <= h.commands /\ h.cut[h.done] = written  BY <1>8 DEF Memory
  <2>2. ASSUME NEW i \in 1 .. Len(commands')
        PROVE  commands'[i] = h.cut[h.done + i] - h.cut[h.done + i - 1]
    <3>1. CASE i \in 1 .. Len(commands)
      <4>1. commands[i] = h.cut[h.done + i] - h.cut[h.done + i - 1]  BY <1>8, <3>1 DEF Memory
      <4> QED  BY <1>6, <3>1, <4>1
    <3>2. CASE i = Len(commands) + 1
      <4>2. Pushed(h) = h.done + Len(commands)  BY DEF Pushed
      <4>3. h.done \in Nat /\ Len(commands) \in Nat  BY <1>6, <1>7
      <4>1. h.done + i = Pushed(h) + 1 /\ h.done + i - 1 = Pushed(h)
        BY <3>2, <4>2, <4>3
      <4> QED  BY <1>6, <1>11, <3>2, <4>1
    <3> QED  BY <1>6, <3>1, <3>2
  <2>3. pushing' # 0 => pushing' = h.cut[Pushed(h)' + 1] - h.cut[Pushed(h)']
    <3>1. Pushed(h)' + 1 = Pushed(h) + 2  BY <1>9, <1>10
    <3> QED  BY <1>10, <1>11, <3>1
  <2> QED  BY <1>2, <2>1, <2>2, <2>3 DEF Memory
<1>13. ToMemory(h)'
  <2>1. h.writes - Len(toBuf') = w + 1 /\ Len(toBuf') <= h.writes
    BY <1>3, <1>7, <1>9
  <2>2. ASSUME NEW j \in 1 .. Len(toBuf')
        PROVE  IsWrite(h, w + 1 + j - 1, toBuf'[j].from, toBuf'[j].length)
    <3>1. j \in 1 .. Len(toBuf) - 1 /\ j + 1 \in 1 .. Len(toBuf)  BY <1>3
    <3>2. IsWrite(h, w + (j + 1) - 1, toBuf[j + 1].from, toBuf[j + 1].length)
      BY <1>8, <3>1 DEF ToMemory
    <3>3. w + (j + 1) - 1 = w + 1 + j - 1  BY <1>9, <3>1
    <3> QED  BY <1>3, <3>1, <3>2, <3>3
  <2>3. h.start[w + 1] = Pushed(h)' + (IF pushing' = 0 THEN 0 ELSE 1)
    BY <1>10, <1>11
  <2> QED  BY <2>1, <2>2, <2>3 DEF ToMemory
<1>14. Cuts(h)' /\ ToMerger(h)' /\ Cached(h)' /\ Statuses(h)'
  BY <1>2, <1>8 DEF Cuts, ToMerger, Cached, Statuses
<1> QED  BY <1>12, <1>13, <1>14 DEF HistoryHolds, History

LEMMA PushSecondHistory ==
    ASSUME Typed, HistoryHolds, PushSecond, sar' = sar PROVE HistoryHolds'
<1>1. PICK h \in Histories : History(h)  BY DEF HistoryHolds
<1>2. /\ pushing # 0 /\ commands' = Append(commands, pushing) /\ pushing' = 0
      /\ UNCHANGED <<mempt, toBuf, written, statuses, mergeStream, cache, tash>>
  BY DEF PushSecond
<1>3. /\ Len(commands) \in Nat /\ Len(commands') = Len(commands) + 1
      /\ \A i \in 1 .. Len(commands) : commands'[i] = commands[i]
      /\ commands'[Len(commands) + 1] = pushing
  BY <1>2, AppendFacts DEF Typed, TypedApp
<1>4. h.done \in Nat  BY HistoryTypes
<1>5. Cuts(h) /\ Memory(h) /\ ToMemory(h) /\ ToMerger(h) /\ Cached(h) /\ Statuses(h)
  BY <1>1 DEF History
<1>6. Pushed(h) \in Nat /\ Pushed(h)' = Pushed(h) + 1  BY <1>3, <1>4 DEF Pushed
<1>7. Memory(h)'
  <2>1. h.done <= h.commands /\ h.cut[h.done] = written  BY <1>5 DEF Memory
  <2>2. ASSUME NEW i \in 1 .. Len(commands')
        PROVE  commands'[i] = h.cut[h.done + i] - h.cut[h.done + i - 1]
    <3>1. CASE i \in 1 .. Len(commands)
      <4>1. commands[i] = h.cut[h.done + i] - h.cut[h.done + i - 1]  BY <1>5, <3>1 DEF Memory
      <4> QED  BY <1>3, <3>1, <4>1
    <3>2. CASE i = Len(commands) + 1
      <4>1. h.done + i = Pushed(h) + 1 /\ h.done + i - 1 = Pushed(h)
        BY <1>3, <1>4, <3>2 DEF Pushed
      <4>2. pushing = h.cut[Pushed(h) + 1] - h.cut[Pushed(h)]  BY <1>2, <1>5 DEF Memory
      <4> QED  BY <1>3, <3>2, <4>1, <4>2
    <3> QED  BY <1>3, <3>1, <3>2
  <2> QED  BY <1>2, <2>1, <2>2 DEF Memory
<1>8. ToMemory(h)'
  <2>1. h.start[h.writes - Len(toBuf)] = Pushed(h)' + 0  BY <1>2, <1>5, <1>6 DEF ToMemory
  <2> QED  BY <1>2, <1>5, <2>1 DEF ToMemory
<1>9. Cuts(h)' /\ ToMerger(h)' /\ Cached(h)' /\ Statuses(h)'
  BY <1>2, <1>5 DEF Cuts, ToMerger, Cached, Statuses
<1> QED  BY <1>7, <1>8, <1>9 DEF HistoryHolds, History

LEMMA MemoryWriteHistory ==
    ASSUME Typed, HistoryHolds, MemoryWrite, sar' = sar PROVE HistoryHolds'
<1>1. PICK h \in Histories : History(h)  BY DEF HistoryHolds
<1>2. /\ commands # <<>> /\ written' = written + Head(commands) /\ commands' = Tail(commands)
      /\ statuses' = statuses + 1
      /\ UNCHANGED <<mempt, toBuf, pushing, mergeStream, cache, tash>>
  BY DEF MemoryWrite
<1>3. /\ Len(commands) \in Nat \ {0} /\ Len(commands') = Len(commands) - 1
      /\ Head(commands) = commands[1]
      /\ \A i \in 1 .. Len(commands) - 1 : commands'[i] = commands[i + 1]
  BY <1>2, TailFacts DEF Typed, TypedApp
<1>4. /\ h.done \in Nat /\ h.commands \in Nat /\ h.released \in Nat
      /\ h.cut \in [Nat -> Nat] /\ h.start \in [Nat -> Nat] /\ h.index \in [Nat -> Nat]
      /\ h.writes \in Nat /\ h.base \in Nat
      /\ \A i \in Nat : h.cut[i] \in Nat
  BY HistoryTypes
<1>5. PICK g \in Histories :
          /\ g.cut = h.cut /\ g.start = h.start /\ g.index = h.index
          /\ g.commands = h.commands /\ g.writes = h.writes /\ g.done = h.done + 1
          /\ g.released = h.released /\ g.base = h.base
  <2>1. h.done + 1 \in Nat  BY <1>4
  <2>2. [h EXCEPT !.done = h.done + 1] \in Histories  BY <2>1 DEF Histories
  <2> QED  BY <2>2 DEF Histories
<1>6. Cuts(h) /\ Memory(h) /\ ToMemory(h) /\ ToMerger(h) /\ Cached(h) /\ Statuses(h)
  BY <1>1 DEF History
<1>7. Pushed(g)' = Pushed(h) /\ h.done + 1 <= Pushed(h) /\ Pushed(h) \in Nat
  <2>1. Pushed(g)' = h.done + 1 + Len(commands') /\ Pushed(h) = h.done + Len(commands)
    BY <1>5 DEF Pushed
  <2>2. h.done \in Nat /\ Len(commands) \in Nat \ {0} /\ Len(commands') = Len(commands) - 1
    BY <1>3, <1>4
  <2> QED  BY <2>1, <2>2
<1>8. Pushed(h) <= h.commands
  <2>1. Pushed(h) + (IF pushing = 0 THEN 0 ELSE 1) <= h.commands  BY <1>1, PushedPlanned
  <2> QED  BY <1>4, <1>7, <2>1
<1>9. Memory(g)'
  <2>1. commands[1] = h.cut[h.done + 1] - h.cut[h.done] /\ h.cut[h.done] = written
    <3>1. 1 \in 1 .. Len(commands)  BY <1>3
    <3>2. commands[1] = h.cut[h.done + 1] - h.cut[h.done + 1 - 1]  BY <1>6, <3>1 DEF Memory
    <3>3. h.done + 1 - 1 = h.done  BY <1>4
    <3> QED  BY <1>6, <3>2, <3>3 DEF Memory
  <2>2. g.cut[g.done] = written'
    <3>1. h.cut[h.done + 1] \in Nat /\ h.cut[h.done] \in Nat  BY <1>4
    <3> QED  BY <1>2, <1>3, <1>5, <2>1, <3>1
  <2>3. ASSUME NEW i \in 1 .. Len(commands')
        PROVE  commands'[i] = g.cut[g.done + i] - g.cut[g.done + i - 1]
    <3>1. i \in 1 .. Len(commands) - 1 /\ i + 1 \in 1 .. Len(commands)  BY <1>3
    <3>2. commands[i + 1] = h.cut[h.done + (i + 1)] - h.cut[h.done + (i + 1) - 1]
      BY <1>6, <3>1 DEF Memory
    <3>3. h.done + (i + 1) = g.done + i /\ h.done + (i + 1) - 1 = g.done + i - 1
      <4>1. i \in Nat /\ h.done \in Nat /\ g.done = h.done + 1  BY <1>4, <1>5
      <4> QED  BY <4>1
    <3> QED  BY <1>3, <1>5, <3>1, <3>2, <3>3
  <2>4. g.done <= g.commands  BY <1>4, <1>5, <1>7, <1>8
  <2>5. pushing' # 0 => pushing' = g.cut[Pushed(g)' + 1] - g.cut[Pushed(g)']
    BY <1>2, <1>5, <1>6, <1>7 DEF Memory
  <2> QED  BY <2>2, <2>3, <2>4, <2>5 DEF Memory
<1>10. ToMemory(g)'
  <2>1. \A v, p, n : IsWrite(h, v, p, n) => IsWrite(g, v, p, n)  BY <1>5 DEF IsWrite
  <2>2. g.start[g.writes - Len(toBuf)] = Pushed(g)' + (IF pushing = 0 THEN 0 ELSE 1)
    BY <1>5, <1>6, <1>7 DEF ToMemory
  <2> QED  BY <1>2, <1>5, <1>6, <2>1, <2>2 DEF ToMemory
<1>11. Cuts(g)' /\ ToMerger(g)' /\ Cached(g)'
  <2>1. \A v, p, n : IsWrite(h, v, p, n) => IsWrite(g, v, p, n)  BY <1>5 DEF IsWrite
  <2> QED  BY <1>2, <1>5, <1>6, <2>1 DEF Cuts, ToMerger, Cached
<1>12. Statuses(g)'
  <2>1. h.released + statuses <= h.done /\ statuses \in Nat
    BY <1>6 DEF Statuses, Typed, TypedApp
  <2>2. g.released + statuses' <= g.done  BY <1>2, <1>4, <1>5, <2>1
  <2> QED  BY <1>2, <1>5, <1>6, <2>2 DEF Statuses
<1> QED  BY <1>9, <1>10, <1>11, <1>12 DEF HistoryHolds, History

LEMMA MergeHistory ==
    ASSUME Typed, HistoryHolds, MergeEvent, sar' = sar PROVE HistoryHolds'
<1>1. PICK h \in Histories : History(h)  BY DEF HistoryHolds
<1> DEFINE last == h.base + Len(cache) + 1
           step == IF mergeApp # <<>> THEN 0 ELSE 1
           ev == IF mergeApp # <<>> THEN Head(mergeApp) ELSE Head(mergeStream)
           index == [i \in Nat |-> IF i <= last THEN h.index[i] ELSE h.index[last] + step]
<1>2. Cuts(h) /\ Memory(h) /\ ToMemory(h) /\ ToMerger(h) /\ Cached(h) /\ Statuses(h)
  BY <1>1 DEF History
<1>3. /\ cache' = Append(cache, ev)
      /\ UNCHANGED <<mempt, toBuf, pushing, commands, written, statuses, tash>>
  BY DEF MergeEvent
<1>4. /\ Len(mergeStream) \in Nat /\ Len(mergeStream') = Len(mergeStream) - step
      /\ Len(mergeStream') \in Nat
      /\ \A j \in 1 .. Len(mergeStream') : mergeStream'[j] = mergeStream[j + step]
      /\ ev \in TxEvents \cup Requests
      /\ step = 0 => ev.type # "TX"
      /\ step = 1 => ev = mergeStream[1] /\ ev.type = "TX" /\ Len(mergeStream) > 0
  <2>1. CASE mergeApp # <<>>
    <3>1. mergeStream' = mergeStream /\ step = 0 /\ ev = Head(mergeApp)
      BY <2>1 DEF MergeEvent
    <3>2. ev \in Requests  BY <2>1, <3>1, TailFacts DEF Typed, TypedApp
    <3>3. ev.type # "TX"  BY <3>2 DEF Requests
    <3> QED  BY <3>1, <3>2, <3>3, Lengths
  <2>2. CASE mergeApp = <<>>
    <3>1. mergeStream # <<>> /\ mergeStream' = Tail(mergeStream) /\ step = 1
          /\ ev = Head(mergeStream)
      BY <2>2 DEF MergeEvent
    <3>2. mergeStream \in Seq(TxEvents)  BY DEF Typed, TypedApp
    <3>3. ev \in TxEvents /\ ev = mergeStream[1]  BY <3>1, <3>2, TailFacts
    <3>4. ev.type = "TX"  BY <3>3 DEF TxEvents
    <3>5. /\ Len(mergeStream) \in Nat \ {0} /\ Len(mergeStream') = Len(mergeStream) - 1
          /\ \A j \in 1 .. Len(mergeStream) - 1 : mergeStream'[j] = mergeStream[j + 1]
      BY <3>1, <3>2, TailFacts
    <3> HIDE DEF ev, step
    <3> QED  BY <3>1, <3>3, <3>4, <3>5
  <2> QED  BY <2>1, <2>2
<1>5. /\ Len(cache) \in Nat /\ Len(cache') = Len(cache) + 1
      /\ \A j \in 1 .. Len(cache) : cache'[j] = cache[j]
      /\ cache'[Len(cache) + 1] = ev
  <2> HIDE DEF ev
  <2> QED  BY <1>3, <1>4, AppendFacts DEF Typed, TypedApp
<1>6. /\ h.writes \in Nat /\ h.base \in Nat /\ last \in Nat /\ step \in {0, 1}
      /\ \A i \in Nat : h.index[i] \in Nat /\ h.start[i] \in Nat
  <2>1. h.writes \in Nat /\ h.base \in Nat /\ Len(cache) \in Nat
        /\ \A i \in Nat : h.index[i] \in Nat /\ h.start[i] \in Nat
    BY <1>5, HistoryTypes
  <2> QED  BY <2>1
<1> HIDE DEF ev, step
<1>7. index \in [Nat -> Nat]  BY <1>6
<1>8. /\ \A i \in 0 .. last : index[i] = h.index[i]
      /\ index[last + 1] = h.index[last] + step
  BY <1>6
<1> HIDE DEF index
<1>9. PICK g \in Histories :
          /\ g.cut = h.cut /\ g.start = h.start /\ g.index = index
          /\ g.commands = h.commands /\ g.writes = h.writes /\ g.done = h.done
          /\ g.released = h.released /\ g.base = h.base
  <2>1. [h EXCEPT !.index = index] \in Histories  BY <1>7 DEF Histories
  <2> QED  BY <2>1 DEF Histories
<1>10. \A v, p, n : IsWrite(h, v, p, n) => IsWrite(g, v, p, n)  BY <1>9 DEF IsWrite
<1>11. h.index[last] = h.writes - Len(mergeStream) /\ Len(mergeStream) <= h.writes
  BY <1>2 DEF Cached, ToMerger
<1>12. Pushed(g)' = Pushed(h)  BY <1>3, <1>9 DEF Pushed
<1>13. Cuts(g)' /\ Memory(g)'  BY <1>2, <1>3, <1>9, <1>12 DEF Cuts, Memory
<1>14. ToMemory(g)'  BY <1>2, <1>3, <1>9, <1>10, <1>12 DEF ToMemory
<1>15. ToMerger(g)'
  <2>1. ASSUME NEW j \in 1 .. Len(mergeStream')
        PROVE  IsWrite(g, g.writes - Len(mergeStream') + j - 1, mergeStream'[j].address,
                       mergeStream'[j].length)
    <3>1. j + step \in 1 .. Len(mergeStream)
          /\ h.writes - Len(mergeStream) + (j + step) - 1 = h.writes - Len(mergeStream') + j - 1
      <4>1. /\ Len(mergeStream) \in Nat /\ Len(mergeStream') = Len(mergeStream) - step
            /\ h.writes \in Nat /\ step \in {0, 1}
        BY <1>4, <1>6
      <4> QED  BY <4>1
    <3>2. IsWrite(h, h.writes - Len(mergeStream) + (j + step) - 1,
                  mergeStream[j + step].address, mergeStream[j + step].length)
      BY <1>2, <3>1 DEF ToMerger
    <3> QED  BY <1>4, <1>9, <1>10, <3>1, <3>2
  <2>2. Len(mergeStream') <= g.writes  BY <1>4, <1>6, <1>9, <1>11
  <2> QED  BY <2>1, <2>2 DEF ToMerger
<1>16. Cached(g)'
  <2>1. g.base + Len(cache') + 1 = last + 1 /\ g.base + Len(cache) + 1 = last
        /\ g.base + (Len(cache) + 1) = last
    BY <1>5, <1>6, <1>9
  <2>2. g.index[g.base + Len(cache') + 1] = g.writes - Len(mergeStream')
    <3>1. g.index[last + 1] = h.index[last] + step  BY <1>8, <1>9
    <3>2. h.writes - Len(mergeStream) + step = h.writes - Len(mergeStream')
      BY <1>4, <1>6
    <3> QED  BY <1>9, <1>11, <2>1, <3>1, <3>2
  <2>3. \A j \in 1 .. Len(cache) + 1 : h.base + j \in 0 .. last /\ g.index[g.base + j] = h.index[h.base + j]
    <3>1. \A j \in 1 .. Len(cache) + 1 : h.base + j \in 0 .. last  BY <1>5, <1>6
    <3> QED  BY <1>8, <1>9, <3>1
  <2>4. ASSUME NEW j \in 1 .. Len(cache') + 1 PROVE g.index[g.base + j] <= g.writes
    <3>1. CASE j \in 1 .. Len(cache) + 1
      BY <1>2, <1>9, <2>3, <3>1 DEF Cached
    <3>2. CASE j = Len(cache') + 1
      <4>1. g.base + j = g.base + Len(cache') + 1  BY <1>5, <1>6, <1>9, <3>2
      <4> QED  BY <1>4, <1>6, <1>9, <2>2, <4>1
    <3> QED  BY <1>5, <3>1, <3>2
  <2>5. ASSUME NEW j \in 1 .. Len(cache')
        PROVE  IF cache'[j].type = "TX"
               THEN /\ IsWrite(g, g.index[g.base + j], cache'[j].address, cache'[j].length)
                    /\ g.index[g.base + j + 1] = g.index[g.base + j] + 1
               ELSE g.index[g.base + j + 1] = g.index[g.base + j]
    <3>1. CASE j \in 1 .. Len(cache)
      <4>1. /\ j \in 1 .. Len(cache) + 1 /\ j + 1 \in 1 .. Len(cache) + 1
            /\ g.base + j + 1 = g.base + (j + 1) /\ h.base + j + 1 = h.base + (j + 1)
        <5>1. j \in Nat /\ Len(cache) \in Nat /\ h.base \in Nat /\ g.base = h.base
          BY <1>5, <1>6, <1>9
        <5> QED  BY <3>1, <5>1
      <4>2. /\ g.index[g.base + j] = h.index[h.base + j]
            /\ g.index[g.base + j + 1] = h.index[h.base + j + 1]
        BY <2>3, <4>1
      <4> QED  BY <1>2, <1>5, <1>10, <3>1, <4>2 DEF Cached
    <3>2. CASE j = Len(cache) + 1
      <4>1. g.base + j = last /\ g.base + j + 1 = last + 1  BY <1>5, <1>6, <1>9, <3>2
      <4>2. g.index[last] = h.index[last] /\ g.index[last + 1] = h.index[last] + step
        <5>1. last \in 0 .. last  BY <1>6
        <5> QED  BY <1>8, <1>9, <5>1
      <4>3. CASE step = 0
        <5>1. cache'[j].type # "TX"  BY <1>4, <1>5, <3>2, <4>3
        <5>2. h.index[last] \in Nat  BY <1>6
        <5> QED  BY <4>1, <4>2, <4>3, <5>1, <5>2
      <4>4. CASE step = 1
        <5>1. cache'[j] = mergeStream[1] /\ cache'[j].type = "TX" /\ Len(mergeStream) > 0
          BY <1>4, <1>5, <3>2, <4>4
        <5>2. 1 \in 1 .. Len(mergeStream)  BY <1>4, <5>1
        <5>3. IsWrite(h, h.writes - Len(mergeStream) + 1 - 1, mergeStream[1].address,
                      mergeStream[1].length)
          BY <1>2, <5>2 DEF ToMerger
        <5>4. h.writes - Len(mergeStream) + 1 - 1 = h.index[last]  BY <1>4, <1>6, <1>11
        <5>5. IsWrite(g, h.index[last], cache'[j].address, cache'[j].length)
          BY <1>10, <5>1, <5>3, <5>4
        <5> QED  BY <4>1, <4>2, <4>4, <5>1, <5>5
      <4> QED  BY <1>6, <4>3, <4>4
    <3> QED  BY <1>5, <3>1, <3>2
  <2> QED  BY <2>2, <2>4, <2>5 DEF Cached
<1>17. Statuses(g)'
  <2>1. h.base + 1 \in 0 .. last  BY <1>5, <1>6
  <2>2. g.index[g.base + 1] = h.index[h.base + 1]  BY <1>8, <1>9, <2>1
  <2> QED  BY <1>2, <1>3, <1>9, <2>2 DEF Statuses
<1> QED  BY <1>13, <1>14, <1>15, <1>16, <1>17 DEF HistoryHolds, History

\* What is known of the next event of the cache once its status has been taken.
LEMMA HeadOfCache ==
    ASSUME Typed, NEW h \in Histories, History(h), cache # <<>>, statuses > 0, tash = None
    PROVE  /\ Head(cache) = cache[1] /\ Head(cache) \in TxEvents \cup Requests
           /\ h.released + 1 \in Nat /\ h.released + 1 <= h.done /\ h.done <= h.commands
           /\ h.start[h.index[h.base + 1]] = h.released
           /\ IF Head(cache).type = "TX"
              THEN /\ Head(cache) \in TxEvents
                   /\ IsWrite(h, h.index[h.base + 1], Head(cache).address, Head(cache).length)
                   /\ h.index[h.base + 2] = h.index[h.base + 1] + 1
              ELSE h.index[h.base + 2] = h.index[h.base + 1]
<1>1. cache \in Seq(TxEvents \cup Requests)  BY DEF Typed, TypedApp
<1>2. /\ Head(cache) = cache[1] /\ Head(cache) \in TxEvents \cup Requests
      /\ Len(cache) \in Nat \ {0}
  BY <1>1, TailFacts
<1>3. h.released \in Nat /\ h.done \in Nat /\ h.commands \in Nat /\ statuses \in Nat /\ h.base \in Nat
  BY HistoryTypes DEF Typed, TypedApp
<1>4. /\ h.released + statuses <= h.done /\ h.done <= h.commands
      /\ h.start[h.index[h.base + 1]] = h.released
  BY DEF History, Statuses, Memory
<1>5. h.released + 1 \in Nat /\ h.released + 1 <= h.done  BY <1>3, <1>4
<1>6. 1 \in 1 .. Len(cache) /\ h.base + 1 + 1 = h.base + 2  BY <1>2, <1>3
<1>7. IF cache[1].type = "TX"
      THEN /\ IsWrite(h, h.index[h.base + 1], cache[1].address, cache[1].length)
           /\ h.index[h.base + 1 + 1] = h.index[h.base + 1] + 1
      ELSE h.index[h.base + 1 + 1] = h.index[h.base + 1]
  BY <1>6 DEF History, Cached
<1>8. Head(cache).type = "TX" => Head(cache) \in TxEvents  BY <1>2 DEF Requests
<1> QED  BY <1>2, <1>4, <1>5, <1>6, <1>7, <1>8

\* An event leaves the cache.
LEMMA CachedTail ==
    ASSUME Typed, NEW h \in Histories, History(h), cache # <<>>, cache' = Tail(cache),
           mergeStream' = mergeStream, NEW g \in Histories,
           g.cut = h.cut, g.start = h.start, g.index = h.index,
           g.writes = h.writes, g.base = h.base + 1
    PROVE  Cached(g)'
<1>1. /\ Len(cache) \in Nat \ {0} /\ Len(cache') = Len(cache) - 1
      /\ \A j \in 1 .. Len(cache) - 1 : cache'[j] = cache[j + 1]
  BY TailFacts DEF Typed, TypedApp
<1>2. h.base \in Nat /\ Cached(h)  BY HistoryTypes DEF History
<1>3. \A v, p, n : IsWrite(h, v, p, n) => IsWrite(g, v, p, n)  BY DEF IsWrite
<1>4. g.index[g.base + Len(cache') + 1] = g.writes - Len(mergeStream')
  <2>1. g.base + Len(cache') + 1 = h.base + Len(cache) + 1  BY <1>1, <1>2
  <2> QED  BY <1>2, <2>1 DEF Cached
<1>5. ASSUME NEW j \in 1 .. Len(cache') + 1 PROVE g.index[g.base + j] <= g.writes
  <2>1. j + 1 \in 1 .. Len(cache) + 1 /\ g.base + j = h.base + (j + 1)
    BY <1>1, <1>2
  <2> QED  BY <1>2, <2>1 DEF Cached
<1>6. ASSUME NEW j \in 1 .. Len(cache')
      PROVE  IF cache'[j].type = "TX"
             THEN /\ IsWrite(g, g.index[g.base + j], cache'[j].address, cache'[j].length)
                  /\ g.index[g.base + j + 1] = g.index[g.base + j] + 1
             ELSE g.index[g.base + j + 1] = g.index[g.base + j]
  <2>1. /\ j \in 1 .. Len(cache) - 1 /\ j + 1 \in 1 .. Len(cache)
        /\ g.base + j = h.base + (j + 1) /\ g.base + j + 1 = h.base + (j + 1) + 1
    <3>1. /\ Len(cache) \in Nat \ {0} /\ Len(cache') = Len(cache) - 1
          /\ h.base \in Nat /\ g.base = h.base + 1
      BY <1>1, <1>2
    <3> QED  BY <3>1
  <2>2. IF cache[j + 1].type = "TX"
        THEN /\ IsWrite(h, h.index[h.base + (j + 1)], cache[j + 1].address, cache[j + 1].length)
             /\ h.index[h.base + (j + 1) + 1] = h.index[h.base + (j + 1)] + 1
        ELSE h.index[h.base + (j + 1) + 1] = h.index[h.base + (j + 1)]
    BY <1>2, <2>1 DEF Cached
  <2> QED  BY <1>1, <1>3, <2>1, <2>2
<1> QED  BY <1>4, <1>5, <1>6 DEF Cached

\* What goes to memory, and to the merger, does not depend on the rest.
LEMMA OthersKept ==
    ASSUME NEW h \in Histories, History(h), NEW g \in Histories,
           g.cut = h.cut, g.start = h.start, g.commands = h.commands, g.writes = h.writes,
           g.done = h.done,
           UNCHANGED <<mempt, toBuf, pushing, commands, written, mergeStream>>
    PROVE  Cuts(g)' /\ Memory(g)' /\ ToMemory(g)' /\ ToMerger(g)'
<1>1. \A v, p, n : IsWrite(h, v, p, n) => IsWrite(g, v, p, n)  BY DEF IsWrite
<1>2. Pushed(g)' = Pushed(h)  BY DEF Pushed
<1>3. Cuts(g)' /\ Memory(g)'  BY <1>2 DEF History, Cuts, Memory
<1>4. ToMemory(g)'  BY <1>1, <1>2 DEF History, ToMemory
<1>5. ToMerger(g)'  BY <1>1 DEF History, ToMerger
<1> QED  BY <1>3, <1>4, <1>5

\* The last byte that is released goes up.
LEMMA StatusHistory ==
    ASSUME Typed, HistoryHolds, StatusHandler
    PROVE  /\ HistoryHolds'
           /\ sar' = sar \/ (sar' = [sar EXCEPT !.app = sar'.app] /\ sar.app <= sar'.app)
<1>1. PICK h \in Histories : History(h)  BY DEF HistoryHolds
<1>2. /\ h.commands \in Nat /\ h.writes \in Nat /\ h.done \in Nat /\ h.base \in Nat
      /\ h.released \in Nat /\ h.cut \in [Nat -> Nat] /\ h.start \in [Nat -> Nat]
      /\ h.index \in [Nat -> Nat] /\ statuses \in Nat /\ sar.app \in Nat
      /\ h.base + 1 \in Nat /\ h.released + 1 \in Nat
  <2>1. statuses \in Nat /\ sar.app \in Nat  BY DEF Typed, TypedApp, TypedEngine
  <2>2. h.base \in Nat /\ h.released \in Nat  BY HistoryTypes
  <2> QED  BY <2>1, <2>2, HistoryTypes
<1>3. \A r \in {h.released, h.released + 1}, b \in {h.base, h.base + 1} :
          [h EXCEPT !.released = r, !.base = b] \in Histories
  BY <1>2 DEF Histories
<1>4. /\ Cuts(h) /\ Memory(h) /\ Cached(h) /\ Statuses(h)
      /\ h.released + statuses <= h.done /\ h.done <= h.commands
      /\ sar.app <= h.cut[h.released]
  BY <1>1 DEF History, Statuses, Memory
<1>5. statuses > 0 => /\ h.released + 1 <= h.done /\ h.cut[h.released] <= h.cut[h.released + 1]
                      /\ h.cut[h.released] \in Nat /\ h.cut[h.released + 1] \in Nat
  <2>1. SUFFICES ASSUME statuses > 0
                 PROVE  h.released + 1 <= h.done /\ h.cut[h.released] <= h.cut[h.released + 1]
    BY <1>2
  <2>2. h.released + 1 <= h.done /\ h.released + 1 <= h.commands /\ h.released <= h.released + 1
    BY <1>2, <1>4, <2>1
  <2> QED  BY <1>2, <1>4, <2>2, CutGrows
<1>6. CASE StatusFirst
  <2> DEFINE ev == Head(cache)
  <2>1. /\ tash = None /\ statuses > 0 /\ cache # <<>> /\ statuses' = statuses - 1
        /\ cache' = Tail(cache)
        /\ UNCHANGED <<mempt, toBuf, pushing, commands, written, mergeStream>>
    BY <1>6 DEF StatusFirst
  <2>2. /\ ev \in TxEvents \cup Requests /\ h.start[h.index[h.base + 1]] = h.released
        /\ IF ev.type = "TX"
           THEN /\ ev \in TxEvents
                /\ IsWrite(h, h.index[h.base + 1], ev.address, ev.length)
                /\ h.index[h.base + 2] = h.index[h.base + 1] + 1
           ELSE h.index[h.base + 2] = h.index[h.base + 1]
    BY <1>1, <2>1, HeadOfCache
  <2>3. CASE ev.type # "TX"
    <3>1. sar' = sar /\ tash' = tash  BY <1>6, <2>3 DEF StatusFirst
    <3>2. PICK g \in Histories :
              /\ g.cut = h.cut /\ g.start = h.start /\ g.index = h.index
              /\ g.commands = h.commands /\ g.writes = h.writes /\ g.done = h.done
              /\ g.released = h.released /\ g.base = h.base + 1
      BY <1>3 DEF Histories
    <3>3. Cuts(g)' /\ Memory(g)' /\ ToMemory(g)' /\ ToMerger(g)'
      BY <1>1, <2>1, <3>2, OthersKept
    <3>4. Cached(g)'  BY <1>1, <2>1, <3>2, CachedTail
    <3>5. Statuses(g)'
      <4>1. g.base + 1 = h.base + 2  BY <1>2, <3>2
      <4>2. g.start[g.index[g.base + 1]] = g.released  BY <2>2, <2>3, <3>2, <4>1
      <4>3. g.released + statuses' <= g.done  BY <1>2, <1>4, <2>1, <3>2
      <4> QED  BY <1>4, <2>1, <3>1, <3>2, <4>2, <4>3 DEF Statuses
    <3> QED  BY <3>1, <3>3, <3>4, <3>5 DEF HistoryHolds, History
  <2>4. CASE ev.type = "TX" /\ Wraps(ev.address, ev.length)
    <3>1. sar' = sar /\ tash' = ev  BY <1>6, <2>4 DEF StatusFirst
    <3>2. PICK g \in Histories :
              /\ g.cut = h.cut /\ g.start = h.start /\ g.index = h.index
              /\ g.commands = h.commands /\ g.writes = h.writes /\ g.done = h.done
              /\ g.released = h.released + 1 /\ g.base = h.base + 1
      BY <1>3 DEF Histories
    <3>3. Cuts(g)' /\ Memory(g)' /\ ToMemory(g)' /\ ToMerger(g)'
      BY <1>1, <2>1, <3>2, OthersKept
    <3>4. Cached(g)'  BY <1>1, <2>1, <3>2, CachedTail
    <3>5. Statuses(g)'
      <4>1. g.base + 1 = h.base + 2 /\ g.released + 1 = h.released + 2  BY <1>2, <3>2
      <4>2. /\ h.start[h.index[h.base + 1] + 1] = h.start[h.index[h.base + 1]] + 2
            /\ h.cut[h.start[h.index[h.base + 1] + 1]] = ev.address + ev.length
        BY <2>2, <2>4 DEF IsWrite
      <4>3. g.start[g.index[g.base + 1]] = g.released + 1
        BY <2>2, <2>4, <3>2, <4>1, <4>2
      <4>4. g.cut[g.released + 1] = ev.address + ev.length
        BY <2>2, <2>4, <3>2, <4>1, <4>2
      <4>5. g.released + statuses' <= g.done  BY <1>2, <1>4, <2>1, <3>2
      <4>8. sar.app \in Nat /\ sar.app <= h.cut[h.released]  BY <1>2, <1>4
      <4>6. sar'.app <= g.cut[g.released]  BY <1>5, <2>1, <3>1, <3>2, <4>8
      <4>7. tash' # None  BY <2>4, <3>1 DEF None
      <4> QED  BY <3>1, <4>3, <4>4, <4>5, <4>6, <4>7 DEF Statuses
    <3> QED  BY <3>1, <3>3, <3>4, <3>5 DEF HistoryHolds, History
  <2>5. CASE ev.type = "TX" /\ ~Wraps(ev.address, ev.length)
    <3>1. sar' = [sar EXCEPT !.app = ev.address + ev.length] /\ tash' = None
      BY <1>6, <2>1, <2>5 DEF StatusFirst, Release
    <3>2. PICK g \in Histories :
              /\ g.cut = h.cut /\ g.start = h.start /\ g.index = h.index
              /\ g.commands = h.commands /\ g.writes = h.writes /\ g.done = h.done
              /\ g.released = h.released + 1 /\ g.base = h.base + 1
      BY <1>3 DEF Histories
    <3>3. Cuts(g)' /\ Memory(g)' /\ ToMemory(g)' /\ ToMerger(g)'
      BY <1>1, <2>1, <3>2, OthersKept
    <3>4. Cached(g)'  BY <1>1, <2>1, <3>2, CachedTail
    <3>5. /\ h.start[h.index[h.base + 1] + 1] = h.released + 1
          /\ h.cut[h.released + 1] = ev.address + ev.length
      BY <2>2, <2>5 DEF IsWrite
    <3>6. sar'.app = h.cut[h.released + 1]  BY <3>1, <3>5 DEF Typed, TypedEngine
    <3>7. Statuses(g)'
      <4>1. g.base + 1 = h.base + 2  BY <1>2, <3>2
      <4>2. g.start[g.index[g.base + 1]] = g.released  BY <2>2, <2>5, <3>2, <3>5, <4>1
      <4>3. g.released + statuses' <= g.done  BY <1>2, <1>4, <2>1, <3>2
      <4>4. sar'.app <= g.cut[g.released]  BY <1>5, <2>1, <3>2, <3>6
      <4> QED  BY <3>1, <4>2, <4>3, <4>4 DEF Statuses
    <3>8. sar.app <= sar'.app
      <4>1. sar.app \in Nat /\ sar.app <= h.cut[h.released]  BY <1>2, <1>4
      <4> QED  BY <1>5, <2>1, <3>6, <4>1
    <3>9. sar' = [sar EXCEPT !.app = sar'.app]  BY <3>1 DEF Typed, TypedEngine
    <3> QED  BY <3>3, <3>4, <3>7, <3>8, <3>9 DEF HistoryHolds, History
  <2> QED  BY <2>3, <2>4, <2>5
<1>7. CASE StatusSecond
  <2>1. /\ tash # None /\ statuses > 0 /\ tash' = None /\ statuses' = statuses - 1
        /\ sar' = [sar EXCEPT !.app = tash.address + tash.length]
        /\ UNCHANGED <<mempt, toBuf, pushing, commands, written, mergeStream, cache>>
    BY <1>7 DEF StatusSecond, Release
  <2>2. PICK g \in Histories :
            /\ g.cut = h.cut /\ g.start = h.start /\ g.index = h.index
            /\ g.commands = h.commands /\ g.writes = h.writes /\ g.done = h.done
            /\ g.released = h.released + 1 /\ g.base = h.base
    BY <1>3 DEF Histories
  <2>3. Cuts(g)' /\ Memory(g)' /\ ToMemory(g)' /\ ToMerger(g)'
    BY <1>1, <2>1, <2>2, OthersKept
  <2>4. Cached(g)'
    <3>1. \A v, p, n : IsWrite(h, v, p, n) => IsWrite(g, v, p, n)  BY <2>2 DEF IsWrite
    <3> QED  BY <1>4, <2>1, <2>2, <3>1 DEF Cached
  <2>5. /\ h.start[h.index[h.base + 1]] = h.released + 1
        /\ h.cut[h.released + 1] = tash.address + tash.length
    BY <1>4, <2>1 DEF Statuses
  <2>6. sar'.app = h.cut[h.released + 1]  BY <2>1, <2>5 DEF Typed, TypedEngine
  <2>7. Statuses(g)'
    <3>1. g.released + statuses' <= g.done  BY <1>2, <1>4, <2>1, <2>2
    <3>2. sar'.app <= g.cut[g.released]  BY <1>5, <2>1, <2>2, <2>6
    <3> QED  BY <2>1, <2>2, <2>5, <3>1, <3>2 DEF Statuses
  <2>8. sar.app <= sar'.app
    <3>1. sar.app \in Nat /\ sar.app <= h.cut[h.released]  BY <1>2, <1>4
    <3> QED  BY <1>5, <2>1, <2>6, <3>1
  <2>9. sar' = [sar EXCEPT !.app = sar'.app]  BY <2>1 DEF Typed, TypedEngine
  <2> QED  BY <2>3, <2>4, <2>7, <2>8, <2>9 DEF HistoryHolds, History
<1> QED  BY <1>6, <1>7 DEF StatusHandler

AppUnchanged == UNCHANGED <<mempt, toBuf, pushing, commands, written, statuses, mergeStream,
                            cache, tash>>

\* The other functions leave it alone but for the SYN, which sets app to 1.
LEMMA OthersHistory ==
    ASSUME Typed, HistoryHolds, AppUnchanged, sar'.app = sar.app \/ sar'.app = 1
    PROVE  HistoryHolds'
<1>1. PICK h \in Histories : History(h)  BY DEF HistoryHolds
<1>2. h.released \in Nat /\ h.done \in Nat /\ h.commands \in Nat  BY HistoryTypes
<1>5. statuses \in Nat  BY DEF Typed, TypedApp
<1>3. CASE sar'.app = sar.app
  <2>1. sar'.app <= h.cut[h.released]  BY <1>1, <1>3 DEF History, Statuses
  <2> QED  BY <1>1, <2>1, HistoryKept DEF AppUnchanged
<1>4. CASE sar'.app = 1
  <2>1. Cuts(h) /\ h.released + statuses <= h.done /\ h.done <= h.commands
    BY <1>1 DEF History, Memory, Statuses
  <2>2. h.released <= h.commands  BY <1>2, <1>5, <2>1
  <2>3. 1 <= h.cut[h.released]  BY <1>2, <2>1, <2>2, CutGrows
  <2> QED  BY <1>1, <1>4, <2>3, HistoryKept DEF AppUnchanged
<1> QED  BY <1>3, <1>4

LEMMA AppOfSar ==
    ASSUME Typed, Next, ~App(AppNext)
    PROVE  AppUnchanged /\ (sar'.app = sar.app \/ sar'.app = 1)
<1>1. CASE App(AppClose)
  BY <1>1 DEF App, AppClose, AppUnchanged
<1>2. CASE MetaLoader
  <2>1. AppUnchanged
    BY <1>2 DEF MetaLoader, MlLoad, MlTX, MlRT, MlFIN, MlSYN, AppUnchanged, appVars
  <2>2. CASE MlLoad  BY <2>1, <2>2 DEF MlLoad
  <2>3. CASE MlTX
    <3>1. sar' = sar \/ \E n : sar' = [sar EXCEPT !.not_ackd = n]
      BY <2>3 DEF MlTX, SendFull
    <3> QED  BY <2>1, <3>1 DEF Typed, TypedEngine
  <2>4. CASE MlRT  BY <2>1, <2>4 DEF MlRT, Typed, TypedEngine
  <2>5. CASE MlFIN  BY <2>1, <2>5 DEF MlFIN, Typed, TypedEngine
  <2>6. CASE MlSYN  BY <2>1, <2>6 DEF MlSYN, Initialised, Typed, TypedEngine
  <2> QED  BY <1>2, <2>2, <2>3, <2>4, <2>5, <2>6 DEF MetaLoader
<1>3. CASE RtExpire \/ ProbeExpire
  BY <1>3 DEF RtExpire, ProbeExpire, AppUnchanged, appVars
<1>4. CASE Deliver \/ Lose \/ LoseAck
  BY <1>4 DEF Deliver, Lose, LoseAck, AppUnchanged, appVars, tableVars
<1>5. CASE \E w \in Windows : RxLoad(w)
  BY <1>5 DEF RxLoad, AppUnchanged, appVars, tableVars
<1>6. CASE RxEngine
  BY <1>6 DEF RxEngine, RxFastRT, RxTransition, Acked, AppUnchanged, appVars, Typed, TypedEngine
<1> QED  BY <1>1, <1>2, <1>3, <1>4, <1>5, <1>6 DEF Next

LEMMA NextHistory == ASSUME Typed, HistoryHolds, [Next]_vars PROVE HistoryHolds'
<1>1. CASE Next /\ App(AppNext)
  <2>1. CASE StatusHandler  BY <2>1, StatusHistory
  <2>2. CASE ~StatusHandler
    <3>1. AppNext /\ UNCHANGED tableVars
      BY <1>1, <2>2, WriterTyped, MergeTyped DEF App, AppNext
    <3>2. sar' = sar  BY <3>1 DEF tableVars
    <3>3. CASE \E n \in WriteLen : ReadRequest(n)
      BY <3>2, <3>3, OthersHistory DEF ReadRequest, AppUnchanged
    <3> QED  BY <2>2, <3>1, <3>2, <3>3, ReadMetaHistory, PushCommandHistory, PushSecondHistory,
                MemoryWriteHistory, MergeHistory DEF AppNext, PkgPusher
  <2> QED  BY <2>1, <2>2
<1>2. CASE Next /\ ~App(AppNext)
  BY <1>2, AppOfSar, OthersHistory
<1>3. CASE UNCHANGED vars
  BY <1>3, OthersHistory DEF vars, appVars, tableVars, AppUnchanged
<1> QED  BY <1>1, <1>2, <1>3

\* Positions in order: what is released, what is in memory, what is accepted.
LEMMA InOrder ==
    ASSUME Typed, HistoryHolds
    PROVE  sar.app <= written /\ written <= mempt
<1>1. PICK h \in Histories : History(h)  BY DEF HistoryHolds
<1>2. /\ h.released \in Nat /\ h.done \in Nat /\ h.commands \in Nat /\ statuses \in Nat
      /\ sar.app \in Nat
  BY HistoryTypes DEF Typed, TypedApp, TypedEngine
<1>3. /\ Cuts(h) /\ h.released + statuses <= h.done /\ h.done <= h.commands
      /\ h.cut[h.done] = written /\ sar.app <= h.cut[h.released]
  BY <1>1 DEF History, Memory, Statuses
<1>4. h.released <= h.done  BY <1>2, <1>3
<1>5. h.cut[h.released] <= h.cut[h.done] /\ h.cut[h.done] <= mempt  BY <1>2, <1>3, <1>4, CutGrows
<1>6. h.cut[h.released] \in Nat /\ h.cut[h.done] \in Nat  BY <1>2, HistoryTypes
<1> QED  BY <1>2, <1>3, <1>5, <1>6

\* What is released to the TX engine is in memory, however the commands, the
\* statuses and the events of the application overtake one another.
THEOREM WrittenWhenPushed == Spec => []PushedIsWritten
<1>1. Init => Typed /\ HistoryHolds  BY InitTyped, InitHistory
<1>2. (Typed /\ HistoryHolds) /\ [Next]_vars => (Typed /\ HistoryHolds)'
  BY NextTyped, NextHistory
<1>3. Typed /\ HistoryHolds => PushedIsWritten  BY InOrder DEF PushedIsWritten
<1> QED  BY <1>1, <1>2, <1>3, PTL DEF Spec

-----------------------------------------------------------------------------
(***************************************************************************)
(* The window.  Before the first segment nothing has happened; an open of  *)
(* the application does not come further than that, as its event needs a   *)
(* status.  From then on, until a FIN is sent, the copies that the         *)
(* application's side, metaLoader and the RX engine work on are behind the *)
(* tables, but not so far that a difference of 16 bits is wrong.           *)
(***************************************************************************)
Opening ==
    /\ next = 0 /\ segments = <<>> /\ ~rtTimer.active /\ ~probeActive
    /\ rx = [state |-> "LOAD", fastRT |-> FALSE]
    /\ mempt = 1 /\ toBuf = <<>> /\ pushing = 0 /\ commands = <<>>
    /\ statuses = 0 /\ mergeStream = <<>>
    /\ sar.ackd = 0 /\ 1 + sar.recv_window <= edge
    /\ tai # None => tai.state # "ESTABLISHED" /\ tai.ackd = 0
    /\ \/ tcpState = "SYN_SENT" /\ events = <<>> /\ ml = Idle
       \/ /\ tcpState = "SYN_RECEIVED" /\ mergeApp = <<>> /\ cache = <<>>
          /\ \/ events = <<Ev("SYN_ACK", 0)>> /\ ml = Idle
             \/ events = <<>> /\ ml # Idle /\ ml.type = "SYN_ACK" /\ ml.rt_count = 0

\* The SYN is only sent again; what is no retransmission has count 0.
EventOK(type, count) ==
    /\ type \in {"SYN", "SYN_ACK"} => count # 0
    /\ type \in {"TX", "FIN"} => count = 0

EventKinds ==
    /\ \A i \in 1 .. Len(events) : EventOK(events[i].type, events[i].rt_count)
    /\ \A i \in 1 .. Len(mergeApp) : mergeApp[i].type = "FIN"
    /\ \A i \in 1 .. Len(cache) : cache[i].type \in {"FIN", "TX"}
    /\ rtTimer.type \in {"RT", "SYN", "SYN_ACK"}
    /\ ml # Idle /\ ml.type \in {"SYN", "SYN_ACK"} => ml.rt_count # 0

SarBounds ==
    /\ sar.ackd <= sar.not_ackd /\ sar.not_ackd <= sar.app
    /\ mempt <= sar.ackd + SPACE - 1
    /\ sar.not_ackd <= edge /\ sar.ackd + sar.recv_window <= edge /\ sar.ackd <= next

RequestBounds ==
    tai # None => tai.ackd <= sar.ackd /\ tai.ackd <= mempt /\ mempt <= tai.ackd + SPACE - 1

WorkBounds ==
    ml # Idle /\ ml.type \in {"TX", "RT", "FIN"} =>
        /\ ~ml.sar.finSent
        /\ ml.sar.ackd <= ml.sar.not_ackd /\ ml.sar.not_ackd <= ml.sar.app
        /\ ml.sar.app <= sar.app /\ ml.sar.app <= ml.sar.ackd + SPACE - 1
        /\ sar.not_ackd <= ml.sar.not_ackd /\ ml.sar.not_ackd <= edge
        /\ ml.type = "TX" => ml.sar.ackd + ml.sar.min_window <= edge
        /\ ml.type # "RT" => ml.rt_count = 0

WireBound(s) ==
    /\ s.kind # "FIN"
    /\ s.kind = "DATA" => s.from + s.length <= sar.app /\ s.from + s.length <= edge

WireBounds == \A i \in 1 .. Len(segments) : WireBound(segments[i])

RxBounds ==
    rx.state = "TRANSITION" =>
        /\ rx.sar.prevAck = sar.ackd /\ rx.sar.nextByte <= sar.not_ackd
        /\ rx.ack <= next /\ rx.ack + rx.window <= edge

Bounds == SarBounds /\ RequestBounds /\ WorkBounds /\ WireBounds /\ RxBounds

Running == EventKinds /\ (~sar.finSent => Bounds)

Inv == Typed /\ HistoryHolds /\ (Opening \/ Running)

LEMMA InitOpening == Init => Opening
<1> SUFFICES ASSUME Init PROVE Opening  OBVIOUS
<1>1. PICK w \in Windows : sar = InitSar(w) /\ edge = 1 + w  BY DEF Init
<1>2. w \in Nat  BY TxFlowAssumption, SpaceFacts
<1>3. sar.ackd = 0 /\ 1 + sar.recv_window <= edge  BY <1>1, <1>2 DEF InitSar
<1> QED  BY <1>3 DEF Init, InitApp, Opening

LEMMA SarTypes ==
    ASSUME Typed
    PROVE  /\ sar.ackd \in Nat /\ sar.not_ackd \in Nat /\ sar.app \in Nat
           /\ sar.recv_window \in Nat /\ sar.cong_window \in Nat /\ sar.finSent \in BOOLEAN
           /\ mempt \in Nat /\ written \in Nat /\ next \in Nat /\ edge \in Nat
           /\ tai # None => /\ tai.ackd \in Nat /\ tai.length \in Nat
                            /\ tai.state \in States
           /\ rx.state = "TRANSITION" =>
                  /\ rx.ack \in Nat /\ rx.window \in Nat /\ rx.sar.prevAck \in Nat
                  /\ rx.sar.nextByte \in Nat
<1>1. /\ sar.ackd \in Nat /\ sar.not_ackd \in Nat /\ sar.app \in Nat
      /\ sar.recv_window \in Nat /\ sar.cong_window \in Nat /\ sar.finSent \in BOOLEAN
  BY DEF Typed, TypedEngine
<1>2. mempt \in Nat /\ written \in Nat /\ next \in Nat /\ edge \in Nat
  BY DEF Typed, TypedApp, TypedPeer
<1>3. tai # None => tai.ackd \in Nat /\ tai.length \in Nat /\ tai.state \in States
  BY SpaceFacts DEF Typed, TypedApp
<1>4. rx.state = "TRANSITION" => rx.ack \in Nat /\ rx.window \in Nat /\ rx.sar \in RxSar
  BY DEF Typed, TypedPeer
<1> QED  BY <1>1, <1>2, <1>3, <1>4 DEF RxSar

LEMMA WorkTypes ==
    ASSUME Typed, ml # Idle
    PROVE  /\ ml \in Working /\ ml.sar \in MlSar
           /\ ml.sar.ackd \in Nat /\ ml.sar.not_ackd \in Nat /\ ml.sar.app \in Nat
           /\ ml.sar.min_window \in Nat /\ ml.sar.finSent \in BOOLEAN /\ ml.rt_count \in Nat
<1>1. ml \in Working  BY DEF Typed, TypedEngine, Working
<1>2. ml.sar \in MlSar /\ ml.rt_count \in Nat  BY <1>1 DEF Working
<1> QED  BY <1>1, <1>2 DEF MlSar

LEMMA SegmentTypes ==
    ASSUME Typed
    PROVE  /\ Len(segments) \in Nat
           /\ \A i \in 1 .. Len(segments) : segments[i].from \in Int /\ segments[i].length \in Nat
<1>1. \A i \in 1 .. Len(segments) :
          segments[i] \in [kind : {"SYN", "FIN", "DATA"}, from : Int, length : Nat]
  BY ElementOfSeq DEF Typed, TypedEngine
<1> QED  BY <1>1, LenProperties DEF Typed, TypedEngine

-----------------------------------------------------------------------------
(***************************************************************************)
(* Before the first segment                                                *)
(***************************************************************************)
LEMMA OpeningApp == ASSUME Typed, Opening, App(AppNext) \/ App(AppClose) PROVE Opening'
<1>1. UNCHANGED <<next, segments, rtTimer, probeActive, rx, ml, edge>>
  BY DEF App, engineVars, peerVars
<1>2. ASSUME NEW n \in WriteLen, ReadRequest(n) PROVE Opening'
  <2>1. tai' = [type |-> "meta", length |-> n, ackd |-> sar.ackd, state |-> tcpState]
        /\ UNCHANGED <<mempt, toBuf, pushing, commands, statuses, mergeApp, mergeStream, cache,
                       sar, tcpState, events>>
    BY <1>2 DEF ReadRequest
  <2>2. tai'.state # "ESTABLISHED" /\ tai'.ackd = 0  BY <2>1 DEF Opening
  <2> QED  BY <1>1, <2>1, <2>2 DEF Opening
<1>3. CASE ReadMeta
  <2>1. tai.state # "ESTABLISHED"  BY <1>3 DEF ReadMeta, Opening
  <2>2. UNCHANGED <<mempt, toBuf, pushing, commands, statuses, mergeApp, mergeStream, cache,
                    sar, tcpState, events>> /\ tai' = None
    BY <1>3, <2>1 DEF ReadMeta
  <2> QED  BY <1>1, <2>2 DEF Opening
<1>4. CASE MergeEvent
  <2>1. mergeStream = <<>>  BY DEF Opening
  <2>2. mergeApp # <<>> /\ UNCHANGED mergeStream  BY <1>4, <2>1 DEF MergeEvent
  <2> QED  BY <1>1, <1>4, <2>2 DEF MergeEvent, Opening
<1>5. ~PkgPusher /\ ~MemoryWrite  BY DEF PkgPusher, PushCommand, PushSecond, MemoryWrite, Opening
<1>6. ~StatusHandler
  <2>1. statuses = 0  BY DEF Opening
  <2>2. ~(statuses > 0)  BY <2>1
  <2> QED  BY <2>2 DEF StatusHandler, StatusFirst, StatusSecond
<1>7. ~AppClose  BY DEF AppClose, Opening
<1> QED  BY <1>2, <1>3, <1>4, <1>5, <1>6, <1>7 DEF App, AppNext

LEMMA OpeningLoad == ASSUME Typed, Opening, MlLoad PROVE Opening'
<1>1. ml = Idle /\ events # <<>>  BY DEF MlLoad
<1>2. /\ tcpState = "SYN_RECEIVED" /\ mergeApp = <<>> /\ cache = <<>>
      /\ events = <<Ev("SYN_ACK", 0)>>
  BY <1>1 DEF Opening
<1>3. Head(events) = Ev("SYN_ACK", 0) /\ Tail(events) = <<>>  BY <1>2
<1>4. ml'.type = "SYN_ACK" /\ ml'.rt_count = 0 /\ events' = <<>>  BY <1>3 DEF MlLoad, Ev
<1>5. ml' # Idle  BY <1>4 DEF Idle
<1> QED  BY <1>2, <1>4, <1>5 DEF MlLoad, Opening, appVars, peerVars

LEMMA OpeningSYN == ASSUME Typed, Opening, MlSYN PROVE Running'
<1>1. /\ tcpState = "SYN_RECEIVED" /\ mergeApp = <<>> /\ cache = <<>> /\ events = <<>>
      /\ ml.type = "SYN_ACK" /\ ml.rt_count = 0
  BY DEF MlSYN, Opening
<1>2. /\ sar' = Initialised(0) /\ Send("SYN", 0, 1) /\ SetRetransmitTimer("SYN_ACK")
      /\ ml' = Idle /\ UNCHANGED <<events, mergeApp, cache, mempt, tai, rx, next, edge>>
  BY <1>1 DEF MlSYN, appVars, peerVars
<1>3. /\ sar'.ackd = 0 /\ sar'.not_ackd = 1 /\ sar'.app = 1
      /\ sar'.recv_window = sar.recv_window
  BY <1>2 DEF Initialised, Typed, TypedEngine
<1>4. rtTimer'.type = "SYN_ACK"  BY <1>2 DEF SetRetransmitTimer, Typed, TypedEngine
<1>5. EventKinds'
  <2>1. Len(events') = 0 /\ Len(mergeApp') = 0 /\ Len(cache') = 0  BY <1>1, <1>2
  <2> QED  BY <1>2, <1>4, <2>1 DEF EventKinds
<1>6. SarBounds'
  <2>1. mempt = 1 /\ next = 0 /\ 1 + sar.recv_window <= edge  BY DEF Opening
  <2> QED  BY <1>2, <1>3, <2>1, SarTypes, SpaceFacts DEF SarBounds
<1>7. RequestBounds'
  <2>1. mempt = 1 /\ (tai # None => tai.ackd = 0)  BY DEF Opening
  <2> QED  BY <1>2, <1>3, <2>1, SpaceFacts DEF RequestBounds
<1>8. WorkBounds' /\ RxBounds'  BY <1>2 DEF WorkBounds, RxBounds, Opening
<1>9. WireBounds'
  <2>1. segments' = <<[kind |-> "SYN", from |-> 0, length |-> 1]>>
    BY <1>2 DEF Send, Opening
  <2> QED  BY <2>1 DEF WireBounds, WireBound
<1> QED  BY <1>5, <1>6, <1>7, <1>8, <1>9 DEF Running, Bounds

LEMMA OpeningNext == ASSUME Typed, Opening, [Next]_vars PROVE Opening' \/ Running'
<1>1. CASE UNCHANGED vars
  BY <1>1 DEF vars, appVars, tableVars, engineVars, peerVars, Opening
<1>2. CASE Next
  <2>1. ~MlTX /\ ~MlRT /\ ~MlFIN  BY DEF MlTX, MlRT, MlFIN, Opening
  <2>2. ~RtExpire /\ ~ProbeExpire /\ ~Deliver /\ ~Lose
    BY DEF RtExpire, ProbeExpire, Deliver, Lose, Opening
  <2>3. CASE LoseAck
    BY <2>3 DEF LoseAck, appVars, tableVars, engineVars, Opening
  <2>4. ~RxEngine /\ \A w \in Windows : ~RxLoad(w)
    <3>1. next = 0 /\ ~(next > 0)  BY DEF Opening
    <3> QED  BY <3>1 DEF RxEngine, RxFastRT, RxTransition, RxLoad, Opening
  <2> QED  BY <1>2, <2>1, <2>2, <2>3, <2>4, OpeningApp, OpeningLoad, OpeningSYN DEF Next, MetaLoader
<1> QED  BY <1>1, <1>2

-----------------------------------------------------------------------------
(***************************************************************************)
(* The connection at work                                                  *)
(***************************************************************************)
\* What the steps of the application's side leave alone.
LEMMA AppRunning ==
    ASSUME Typed, HistoryHolds, Running, App(AppNext), Typed' PROVE Running'
<1>1. UNCHANGED <<next, edge, segments, rtTimer, rx, ml>>
  BY DEF App, engineVars, peerVars
<1>2. sar.app <= written /\ written <= mempt  BY InOrder
<1>3. ASSUME NEW n \in WriteLen, ReadRequest(n) PROVE Running'
  <2>1. /\ tai' = [type |-> "meta", length |-> n, ackd |-> sar.ackd, state |-> tcpState]
        /\ UNCHANGED <<mempt, mergeApp, cache, sar, events>>
    BY <1>3 DEF ReadRequest
  <2>2. EventKinds'  BY <1>1, <2>1 DEF Running, EventKinds
  <2>3. SarBounds => sar.ackd <= mempt /\ mempt <= sar.ackd + SPACE - 1
    BY <1>2, SarTypes DEF SarBounds
  <2>4. Bounds => SarBounds' /\ RequestBounds'
    BY <1>1, <2>1, <2>3, SarTypes DEF Bounds, SarBounds, RequestBounds
  <2>5. Bounds => WorkBounds' /\ WireBounds' /\ RxBounds'
    BY <1>1, <2>1 DEF Bounds, WorkBounds, WireBounds, WireBound, RxBounds
  <2> QED  BY <2>1, <2>2, <2>4, <2>5 DEF Running, Bounds
<1>4. CASE ReadMeta
  <2>1. tai # None /\ tai' = None /\ UNCHANGED <<mergeApp, cache, sar, events>>
    BY <1>4 DEF ReadMeta
  <2>2. EventKinds'  BY <1>1, <2>1 DEF Running, EventKinds
  <2>3. Bounds => mempt' <= sar.ackd + SPACE - 1
    <3>1. SUFFICES ASSUME Bounds PROVE mempt' <= sar.ackd + SPACE - 1  OBVIOUS
    <3>2. mempt' = mempt \/ (mempt' = mempt + tai.length /\ ~(tai.length > MaxWriteLength(tai.ackd)))
      BY <1>4 DEF ReadMeta
    <3>3. tai.ackd \in Nat /\ tai.length \in Nat /\ mempt \in Nat /\ sar.ackd \in Nat
      BY <2>1, SarTypes
    <3>4. tai.ackd <= sar.ackd /\ tai.ackd <= mempt /\ mempt <= tai.ackd + SPACE - 1
      BY <2>1, <3>1 DEF Bounds, RequestBounds
    <3>5. tai.ackd - mempt - 1 \in -SPACE .. -1  BY <3>3, <3>4, SpaceFacts
    <3>6. MaxWriteLength(tai.ackd) = tai.ackd - mempt - 1 + SPACE
      BY <3>3, <3>5, Reduced DEF MaxWriteLength
    <3>7. mempt <= sar.ackd + SPACE - 1  BY <3>1 DEF Bounds, SarBounds
    <3> QED  BY <3>2, <3>3, <3>4, <3>6, <3>7, SpaceFacts
  <2>4. Bounds => SarBounds' /\ RequestBounds'
    BY <1>1, <2>1, <2>3 DEF Bounds, SarBounds, RequestBounds
  <2>5. Bounds => WorkBounds' /\ WireBounds' /\ RxBounds'
    BY <1>1, <2>1 DEF Bounds, WorkBounds, WireBounds, WireBound, RxBounds
  <2> QED  BY <2>1, <2>2, <2>4, <2>5 DEF Running, Bounds
<1>5. CASE PkgPusher \/ MemoryWrite
  <2>1. UNCHANGED <<tai, mempt, mergeApp, cache, sar, events>>
    BY <1>5 DEF PkgPusher, PushCommand, PushSecond, MemoryWrite
  <2> QED  BY <1>1, <2>1 DEF Running, EventKinds, Bounds, SarBounds, RequestBounds, WorkBounds,
              WireBounds, WireBound, RxBounds
<1>6. CASE MergeEvent
  <2>1. UNCHANGED <<tai, mempt, sar, events>>  BY <1>6 DEF MergeEvent
  <2>2. EventKinds'
    <3>1. PICK ev \in TxEvents \cup Requests :
              cache' = Append(cache, ev) /\ ev.type \in {"FIN", "TX"}
      <4>1. CASE mergeApp # <<>>
        <5>1. Head(mergeApp) \in Requests /\ Head(mergeApp) = mergeApp[1] /\ Len(mergeApp) \in Nat \ {0}
          BY <4>1, TailFacts DEF Typed, TypedApp
        <5>2. 1 \in 1 .. Len(mergeApp)  BY <5>1
        <5>3. Head(mergeApp).type = "FIN"  BY <5>1, <5>2 DEF Running, EventKinds
        <5>4. cache' = Append(cache, Head(mergeApp))  BY <1>6, <4>1 DEF MergeEvent
        <5> QED  BY <5>1, <5>3, <5>4
      <4>2. CASE mergeApp = <<>>
        <5>1. mergeStream # <<>> /\ cache' = Append(cache, Head(mergeStream))
          BY <1>6, <4>2 DEF MergeEvent
        <5>2. Head(mergeStream) \in TxEvents  BY <5>1, TailFacts DEF Typed, TypedApp
        <5> QED  BY <5>1, <5>2 DEF TxEvents
      <4> QED  BY <4>1, <4>2
    <3>2. /\ Len(cache) \in Nat /\ Len(cache') = Len(cache) + 1
          /\ \A j \in 1 .. Len(cache) : cache'[j] = cache[j]
          /\ cache'[Len(cache) + 1] = ev
      BY <3>1, AppendFacts DEF Typed, TypedApp
    <3>3. ASSUME NEW j \in 1 .. Len(cache') PROVE cache'[j].type \in {"FIN", "TX"}
      <4>1. CASE j \in 1 .. Len(cache)  BY <3>2, <4>1 DEF Running, EventKinds
      <4>2. CASE j = Len(cache) + 1  BY <3>1, <3>2, <4>2
      <4> QED  BY <3>2, <4>1, <4>2
    <3>4. ASSUME NEW j \in 1 .. Len(mergeApp') PROVE mergeApp'[j].type = "FIN"
      <4>1. CASE mergeApp' = mergeApp  BY <4>1 DEF Running, EventKinds
      <4>2. CASE mergeApp # <<>> /\ mergeApp' = Tail(mergeApp)
        <5>1. /\ Len(mergeApp) \in Nat \ {0} /\ Len(mergeApp') = Len(mergeApp) - 1
              /\ \A k \in 1 .. Len(mergeApp) - 1 : mergeApp'[k] = mergeApp[k + 1]
          BY <4>2, TailFacts DEF Typed, TypedApp
        <5>2. j + 1 \in 1 .. Len(mergeApp) /\ mergeApp'[j] = mergeApp[j + 1]  BY <5>1
        <5> QED  BY <5>2 DEF Running, EventKinds
      <4> QED  BY <1>6, <4>1, <4>2 DEF MergeEvent
    <3> QED  BY <1>1, <2>1, <3>3, <3>4 DEF Running, EventKinds
  <2> QED  BY <1>1, <2>1, <2>2 DEF Running, Bounds, SarBounds, RequestBounds, WorkBounds,
              WireBounds, WireBound, RxBounds
<1>7. CASE StatusHandler
  <2>1. UNCHANGED <<tai, mempt, mergeApp>>
    BY <1>7 DEF StatusHandler, StatusFirst, StatusSecond
  <2>2. sar' = sar \/ (sar' = [sar EXCEPT !.app = sar'.app] /\ sar.app <= sar'.app)
    BY <1>7, StatusHistory
  <2>3. /\ sar'.ackd = sar.ackd /\ sar'.not_ackd = sar.not_ackd /\ sar'.recv_window = sar.recv_window
        /\ sar'.finSent = sar.finSent /\ sar.app <= sar'.app
    <3>1. sar.app \in Nat  BY SarTypes
    <3>2. CASE sar' = sar  BY <3>1, <3>2
    <3>3. CASE sar' = [sar EXCEPT !.app = sar'.app] /\ sar.app <= sar'.app
      <4>1. PICK v : v = sar'.app  OBVIOUS
      <4>2. sar' = [sar EXCEPT !.app = v]  BY <3>3, <4>1
      <4>3. /\ sar'.ackd = sar.ackd /\ sar'.not_ackd = sar.not_ackd
            /\ sar'.recv_window = sar.recv_window /\ sar'.finSent = sar.finSent
        BY <4>2
      <4> QED  BY <3>3, <4>3
    <3> QED  BY <2>2, <3>2, <3>3
  <2>4. ASSUME Bounds PROVE SarBounds' /\ RequestBounds' /\ RxBounds'
    <3>1. sar.not_ackd <= sar'.app
      <4>1. sar.not_ackd <= sar.app /\ sar'.app \in Nat  BY <2>4, SarTypes DEF Bounds, SarBounds, Typed, TypedEngine
      <4> QED  BY <2>3, <4>1, SarTypes
    <3> QED  BY <1>1, <2>1, <2>3, <2>4, <3>1 DEF Bounds, SarBounds, RequestBounds, RxBounds
  <2>5. ASSUME Bounds PROVE WorkBounds'
    <3>1. ml # Idle => ml.sar.app \in Nat  BY WorkTypes
    <3>2. sar.app \in Nat /\ sar'.app \in Nat  BY DEF Typed, TypedEngine
    <3>3. ml # Idle /\ ml.type \in {"TX", "RT", "FIN"} => ml.sar.app <= sar'.app
      BY <2>3, <2>5, <3>1, <3>2 DEF Bounds, WorkBounds
    <3> QED  BY <1>1, <2>3, <2>5, <3>3 DEF Bounds, WorkBounds
  <2>6. ASSUME Bounds PROVE WireBounds'
    <3>1. SUFFICES ASSUME NEW j \in 1 .. Len(segments) PROVE WireBound(segments[j])'
      BY <1>1 DEF WireBounds
    <3>2. sar.app \in Nat /\ sar'.app \in Nat  BY DEF Typed, TypedEngine
    <3>3. segments[j].from \in Int /\ segments[j].length \in Nat  BY SegmentTypes
    <3>4. WireBound(segments[j])  BY <2>6, <3>1 DEF Bounds, WireBounds
    <3> QED  BY <1>1, <2>3, <3>2, <3>3, <3>4 DEF WireBound
  <2>7. EventKinds'
    <3>1. /\ events' = events \/ \E t \in {"TX", "FIN"} : Put(t, 0)
          /\ cache' = cache \/ (cache # <<>> /\ cache' = Tail(cache))
      <4>1. cache # <<>> => Head(cache).type \in {"FIN", "TX"}
        <5>1. cache # <<>> => Head(cache) = cache[1] /\ 1 \in 1 .. Len(cache)
          BY TailFacts DEF Typed, TypedApp
        <5> QED  BY <5>1 DEF Running, EventKinds
      <4> QED  BY <1>7, <4>1 DEF StatusHandler, StatusFirst, StatusSecond, Release
    <3>2. ASSUME NEW j \in 1 .. Len(events') PROVE EventOK(events'[j].type, events'[j].rt_count)
      <4>1. CASE events' = events  BY <4>1 DEF Running, EventKinds
      <4>2. CASE \E t \in {"TX", "FIN"} : Put(t, 0)
        <5>1. PICK t \in {"TX", "FIN"} : events' = Append(events, Ev(t, 0))  BY <4>2 DEF Put
        <5>2. Ev(t, 0) \in [type : Kinds, rt_count : Nat]  BY DEF Ev, Kinds
        <5>3. /\ Len(events) \in Nat /\ Len(events') = Len(events) + 1
              /\ \A k \in 1 .. Len(events) : events'[k] = events[k]
              /\ events'[Len(events) + 1] = Ev(t, 0)
          BY <5>1, <5>2, AppendFacts DEF Typed, TypedEngine
        <5>4. EventOK(Ev(t, 0).type, Ev(t, 0).rt_count)  BY DEF EventOK, Ev
        <5> QED  BY <5>3, <5>4 DEF Running, EventKinds
      <4> QED  BY <3>1, <4>1, <4>2
    <3>3. ASSUME NEW j \in 1 .. Len(cache') PROVE cache'[j].type \in {"FIN", "TX"}
      <4>1. CASE cache' = cache  BY <4>1 DEF Running, EventKinds
      <4>2. CASE cache # <<>> /\ cache' = Tail(cache)
        <5>1. /\ Len(cache) \in Nat \ {0} /\ Len(cache') = Len(cache) - 1
              /\ \A k \in 1 .. Len(cache) - 1 : cache'[k] = cache[k + 1]
          BY <4>2, TailFacts DEF Typed, TypedApp
        <5>2. j + 1 \in 1 .. Len(cache) /\ cache'[j] = cache[j + 1]  BY <5>1
        <5> QED  BY <5>2 DEF Running, EventKinds
      <4> QED  BY <3>1, <4>1, <4>2
    <3> QED  BY <1>1, <2>1, <3>2, <3>3 DEF Running, EventKinds
  <2> QED  BY <2>3, <2>4, <2>5, <2>6, <2>7 DEF Running, Bounds
<1> QED  BY <1>3, <1>4, <1>5, <1>6, <1>7 DEF App, AppNext

LEMMA CloseRunning == ASSUME Typed, Running, App(AppClose) PROVE Running'
<1>1. /\ mergeApp' = Append(mergeApp, [type |-> "FIN"])
      /\ UNCHANGED <<next, edge, segments, rtTimer, rx, ml, tai, mempt, cache, sar, events>>
  BY DEF App, AppClose, engineVars, peerVars
<1>2. [type |-> "FIN"] \in Requests  BY DEF Requests
<1>3. /\ Len(mergeApp) \in Nat /\ Len(mergeApp') = Len(mergeApp) + 1
      /\ \A j \in 1 .. Len(mergeApp) : mergeApp'[j] = mergeApp[j]
      /\ mergeApp'[Len(mergeApp) + 1] = [type |-> "FIN"]
  BY <1>1, <1>2, AppendFacts DEF Typed, TypedApp
<1>4. \A j \in 1 .. Len(mergeApp') : mergeApp'[j].type = "FIN"
  <2>1. \A j \in 1 .. Len(mergeApp) : mergeApp'[j].type = "FIN"
    BY <1>3 DEF Running, EventKinds
  <2>2. mergeApp'[Len(mergeApp) + 1].type = "FIN"  BY <1>3
  <2>3. \A j \in 1 .. Len(mergeApp') : j \in 1 .. Len(mergeApp) \/ j = Len(mergeApp) + 1  BY <1>3
  <2> QED  BY <2>1, <2>2, <2>3
<1>5. EventKinds'  BY <1>1, <1>4 DEF Running, EventKinds
<1> QED  BY <1>1, <1>5 DEF Running, Bounds, SarBounds, RequestBounds, WorkBounds, WireBounds,
            WireBound, RxBounds

\* An event is put into the stream, or read.
LEMMA EventPut ==
    ASSUME Typed, Running, NEW type \in Kinds, NEW count \in Nat, Put(type, count),
           EventOK(type, count)
    PROVE  \A j \in 1 .. Len(events') : EventOK(events'[j].type, events'[j].rt_count)
<1>1. Ev(type, count) \in [type : Kinds, rt_count : Nat]  BY DEF Ev
<1>2. /\ Len(events) \in Nat /\ Len(events') = Len(events) + 1
      /\ \A k \in 1 .. Len(events) : events'[k] = events[k]
      /\ events'[Len(events) + 1] = Ev(type, count)
  BY <1>1, AppendFacts DEF Typed, TypedEngine, Put
<1>3. EventOK(Ev(type, count).type, Ev(type, count).rt_count)  BY DEF Ev
<1> QED  BY <1>2, <1>3 DEF Running, EventKinds

LEMMA WireSend ==
    ASSUME Typed, WireBounds, edge' = edge, sar'.app = sar.app,
           NEW from \in Int, NEW length \in Nat, SendData(from, length),
           from + length <= sar.app, from + length <= edge
    PROVE  WireBounds'
<1>1. CASE length = 0
  BY <1>1 DEF SendData, WireBounds, WireBound
<1>2. CASE length # 0
  <2>1. segments' = Append(segments, [kind |-> "DATA", from |-> from, length |-> length])
    BY <1>2 DEF SendData, Send
  <2>2. [kind |-> "DATA", from |-> from, length |-> length]
            \in [kind : {"SYN", "FIN", "DATA"}, from : Int, length : Nat]
    OBVIOUS
  <2>3. /\ Len(segments) \in Nat /\ Len(segments') = Len(segments) + 1
        /\ \A k \in 1 .. Len(segments) : segments'[k] = segments[k]
        /\ segments'[Len(segments) + 1] = [kind |-> "DATA", from |-> from, length |-> length]
    BY <2>1, <2>2, AppendFacts DEF Typed, TypedEngine
  <2>4. ASSUME NEW j \in 1 .. Len(segments') PROVE WireBound(segments[j])'
    <3>1. CASE j \in 1 .. Len(segments)
      BY <2>3, <3>1 DEF WireBounds, WireBound
    <3>2. CASE j = Len(segments) + 1
      <4>1. segments'[j] = [kind |-> "DATA", from |-> from, length |-> length]  BY <2>3, <3>2
      <4> QED  BY <4>1 DEF WireBound
    <3> QED  BY <2>3, <3>1, <3>2
  <2> QED  BY <2>4 DEF WireBounds
<1> QED  BY <1>1, <1>2

LEMMA SendDataTimer ==
    ASSUME Typed, EventKinds, NEW from, NEW length, SendData(from, length)
    PROVE  rtTimer'.type \in {"RT", "SYN", "SYN_ACK"}
BY DEF SendData, SetRetransmitTimer, Typed, TypedEngine, EventKinds

\* metaLoader sees the tables in a state they have been in.
LEMMA LoadRunning == ASSUME Typed, HistoryHolds, Running, MlLoad PROVE Running'
<1>1. /\ UNCHANGED <<next, edge, segments, rtTimer, rx, tai, mempt, mergeApp, cache, sar>>
      /\ events # <<>> /\ events' = Tail(events)
      /\ ml' = [type |-> Head(events).type, rt_count |-> Head(events).rt_count,
                sar |-> TxReply, sarLoaded |-> FALSE, segmentCount |-> 0]
  BY DEF MlLoad, appVars, peerVars
<1>2. /\ Len(events) \in Nat \ {0} /\ Len(events') = Len(events) - 1
      /\ \A k \in 1 .. Len(events) - 1 : events'[k] = events[k + 1]
      /\ Head(events) = events[1]
  BY <1>1, TailFacts DEF Typed, TypedEngine
<1>3. EventOK(Head(events).type, Head(events).rt_count)
  <2>1. 1 \in 1 .. Len(events)  BY <1>2
  <2> QED  BY <1>2, <2>1 DEF Running, EventKinds
<1>4. ASSUME NEW j \in 1 .. Len(events') PROVE EventOK(events'[j].type, events'[j].rt_count)
  <2>1. j + 1 \in 1 .. Len(events) /\ events'[j] = events[j + 1]  BY <1>2
  <2> QED  BY <2>1 DEF Running, EventKinds
<1>5. /\ ml'.type = Head(events).type /\ ml'.rt_count = Head(events).rt_count
      /\ ml'.sar = TxReply
  BY <1>1
<1>6. EventKinds'
  <2>1. ml'.type \in {"SYN", "SYN_ACK"} => ml'.rt_count # 0  BY <1>3, <1>5 DEF EventOK
  <2> QED  BY <1>1, <1>4, <2>1 DEF Running, EventKinds
<1>7. ASSUME Bounds, ~sar.finSent PROVE WorkBounds'
  <2>1. /\ TxReply.ackd = sar.ackd /\ TxReply.not_ackd = sar.not_ackd /\ TxReply.app = sar.app
        /\ TxReply.finSent = sar.finSent
        /\ TxReply.min_window = Min(sar.cong_window, sar.recv_window)
    BY DEF TxReply
  <2>2. Min(sar.cong_window, sar.recv_window) <= sar.recv_window
        /\ Min(sar.cong_window, sar.recv_window) \in Nat
    BY SarTypes DEF Min
  <2>3. SarBounds /\ sar.app <= written /\ written <= mempt  BY <1>7, InOrder DEF Bounds
  <2>4. sar.app <= sar.ackd + SPACE - 1 /\ sar.ackd + TxReply.min_window <= edge
    BY <2>1, <2>2, <2>3, SarTypes, SpaceFacts DEF SarBounds
  <2>5. ml'.type \in {"TX", "FIN"} => ml'.rt_count = 0  BY <1>3, <1>5 DEF EventOK
  <2>6. sar.not_ackd \in Nat /\ sar.app \in Nat  BY SarTypes
  <2> QED  BY <1>1, <1>5, <1>7, <2>1, <2>3, <2>4, <2>5, <2>6 DEF WorkBounds, SarBounds
<1> QED  BY <1>1, <1>6, <1>7 DEF Running, Bounds, SarBounds, RequestBounds, WireBounds,
            WireBound, RxBounds

\* A segment of data lies within what the window and the data allow.
LEMMA TXRunning == ASSUME Typed, Running, MlTX PROVE Running'
<1> DEFINE curr == Diff(ml.sar.app, ml.sar.not_ackd)
           fits == curr <= Usable
           rest == IF fits THEN curr ELSE Usable
           sent == IF Nagle THEN rest ELSE 0
<1>1. /\ ml # Idle /\ ml.type = "TX"
      /\ UNCHANGED <<next, edge, rx, tai, mempt, mergeApp, cache, events>>
  BY DEF MlTX, appVars, peerVars
<1>2. /\ ml \in Working /\ ml.sar \in MlSar /\ ml.sar.ackd \in Nat /\ ml.sar.not_ackd \in Nat
      /\ ml.sar.app \in Nat /\ ml.sar.min_window \in Nat
  BY <1>1, WorkTypes
<1>3. curr \in 0 .. SPACE - 1
  <2>1. ml.sar.not_ackd \in Int /\ ml.sar.app \in Int  BY <1>2
  <2> QED  BY <2>1, DiffFacts
<1>4. rest \in Nat /\ sent \in Nat /\ sent \in {0, rest}
  BY <1>2, <1>3, UsableFacts, SpaceFacts
<1>5. ASSUME Bounds
      PROVE  ml.sar.not_ackd + rest <= ml.sar.app /\ ml.sar.not_ackd + rest <= edge
  <2>1. /\ ml.sar.ackd <= ml.sar.not_ackd /\ ml.sar.not_ackd <= ml.sar.app
        /\ ml.sar.app <= ml.sar.ackd + SPACE - 1 /\ ml.sar.not_ackd <= edge
        /\ ml.sar.ackd + ml.sar.min_window <= edge
    BY <1>1, <1>5 DEF Bounds, WorkBounds
  <2>2. ml.sar.app - ml.sar.not_ackd \in 0 .. SPACE - 1
        /\ ml.sar.not_ackd - ml.sar.ackd \in 0 .. SPACE - 1
    BY <1>2, <2>1, SpaceFacts
  <2>3. ml.sar.not_ackd \in Int /\ ml.sar.app \in Int /\ ml.sar.ackd \in Int  BY <1>2
  <2>4. curr = ml.sar.app - ml.sar.not_ackd  BY <2>2, <2>3, DiffFacts
  <2>5. Used = ml.sar.not_ackd - ml.sar.ackd  BY <2>2, <2>3, DiffFacts DEF Used
  <2>6. Usable = 0 \/ Usable = ml.sar.min_window - (ml.sar.not_ackd - ml.sar.ackd)
    BY <2>5 DEF Usable
  <2>7. rest <= curr /\ rest <= Usable
    <3>1. curr \in Nat /\ Usable \in Nat  BY <1>2, <1>3, UsableFacts, SpaceFacts
    <3> QED  BY <3>1
  <2>8. edge \in Nat  BY SarTypes
  <2> HIDE DEF curr, rest, fits
  <2> QED  BY <1>2, <1>4, <2>1, <2>4, <2>6, <2>7, <2>8
<1> HIDE DEF curr, fits, rest, sent
<1>6. CASE rest >= MSS
  <2>1. SendFull  BY <1>6 DEF MlTX, rest, fits, curr
  <2>2. /\ SendData(ml.sar.not_ackd, MSS) /\ sar' = sar
        /\ ml' = [ml EXCEPT !.sar.not_ackd = ml.sar.not_ackd + MSS, !.sarLoaded = TRUE]
    BY <1>2, <2>1 DEF SendFull
  <2>3. /\ ml'.type = "TX" /\ ml'.rt_count = ml.rt_count
        /\ ml'.sar = [ml.sar EXCEPT !.not_ackd = ml.sar.not_ackd + MSS]
    BY <1>1, <1>2, <2>2 DEF Working
  <2>4. /\ ml'.sar.ackd = ml.sar.ackd /\ ml'.sar.app = ml.sar.app
        /\ ml'.sar.min_window = ml.sar.min_window /\ ml'.sar.finSent = ml.sar.finSent
        /\ ml'.sar.not_ackd = ml.sar.not_ackd + MSS
    BY <1>2, <2>3 DEF MlSar
  <2>5. EventKinds'
    BY <1>1, <2>2, <2>3, SendDataTimer DEF Running, EventKinds
  <2>6. ASSUME Bounds PROVE WorkBounds' /\ WireBounds'
    <3>1. ml.sar.not_ackd + MSS <= ml.sar.app /\ ml.sar.not_ackd + MSS <= edge
      <4>1. edge \in Nat  BY SarTypes
      <4> QED  BY <1>2, <1>4, <1>5, <1>6, <2>6, <4>1, SpaceFacts
    <3>2. /\ ml.sar.ackd <= ml.sar.not_ackd /\ ml.sar.app <= sar.app
          /\ sar.not_ackd <= ml.sar.not_ackd
      BY <1>1, <2>6 DEF Bounds, WorkBounds
    <3>3. /\ ml.sar.ackd <= ml.sar.not_ackd + MSS /\ sar.not_ackd <= ml.sar.not_ackd + MSS
          /\ ml.sar.not_ackd + MSS <= sar.app
      BY <1>2, <3>1, <3>2, SarTypes, SpaceFacts
    <3>4. WorkBounds'
      BY <1>1, <2>2, <2>3, <2>4, <2>6, <3>1, <3>2, <3>3 DEF Bounds, WorkBounds
    <3>5. WireBounds'
      <4>1. ml.sar.not_ackd \in Int /\ MSS \in Nat  BY <1>2, SpaceFacts
      <4> QED  BY <1>1, <2>2, <2>6, <3>1, <3>3, <4>1, WireSend DEF Bounds
    <3> QED  BY <3>4, <3>5
  <2> QED  BY <1>1, <2>2, <2>5, <2>6 DEF Running, Bounds, SarBounds, RequestBounds, RxBounds
<1>7. CASE ~(rest >= MSS)
  <2>1. /\ SendData(ml.sar.not_ackd, sent)
        /\ sar' = [sar EXCEPT !.not_ackd = ml.sar.not_ackd + sent]
        /\ ml' = IF fits /\ ml.sar.finReady /\ (Nagle \/ curr = 0)
                 THEN [ml EXCEPT !.type = "FIN", !.sarLoaded = TRUE,
                                 !.sar.not_ackd = ml.sar.not_ackd + sent]
                 ELSE Idle
    BY <1>2, <1>7 DEF MlTX, rest, fits, curr, sent
  <2>2. /\ sar'.not_ackd = ml.sar.not_ackd + sent /\ sar'.ackd = sar.ackd /\ sar'.app = sar.app
        /\ sar'.recv_window = sar.recv_window /\ sar'.finSent = sar.finSent
    BY <2>1 DEF Typed, TypedEngine
  <2>3. ml' # Idle =>
            /\ ml'.type = "FIN" /\ ml'.rt_count = ml.rt_count
            /\ ml'.sar = [ml.sar EXCEPT !.not_ackd = ml.sar.not_ackd + sent]
    BY <1>2, <2>1 DEF Working
  <2>4. ml' # Idle =>
            /\ ml'.sar.ackd = ml.sar.ackd /\ ml'.sar.app = ml.sar.app
            /\ ml'.sar.finSent = ml.sar.finSent /\ ml'.sar.not_ackd = ml.sar.not_ackd + sent
    BY <1>2, <2>3 DEF MlSar
  <2>5. EventKinds'
    BY <1>1, <2>1, <2>3, SendDataTimer DEF Running, EventKinds
  <2>6. ASSUME Bounds
        PROVE  /\ ml.sar.not_ackd + sent <= ml.sar.app /\ ml.sar.not_ackd + sent <= edge
               /\ sar.not_ackd <= ml.sar.not_ackd + sent /\ ml.sar.app <= sar.app
               /\ ml.sar.ackd <= ml.sar.not_ackd + sent
               /\ ml.sar.not_ackd + sent <= sar.app /\ sar.ackd <= ml.sar.not_ackd + sent
    <3>1. /\ ml.sar.ackd <= ml.sar.not_ackd /\ ml.sar.not_ackd <= ml.sar.app
          /\ ml.sar.app <= sar.app /\ sar.not_ackd <= ml.sar.not_ackd /\ ml.sar.not_ackd <= edge
          /\ sar.ackd <= sar.not_ackd
      BY <1>1, <2>6 DEF Bounds, WorkBounds, SarBounds
    <3>2. edge \in Nat /\ sar.app \in Nat /\ sar.not_ackd \in Nat /\ sar.ackd \in Nat  BY SarTypes
    <3>3. ml.sar.not_ackd + rest <= ml.sar.app /\ ml.sar.not_ackd + rest <= edge
      BY <1>5, <2>6
    <3> QED  BY <1>2, <1>4, <3>1, <3>2, <3>3
  <2>7. ASSUME Bounds PROVE SarBounds' /\ RxBounds'
    <3>1. SarBounds'  BY <1>1, <2>2, <2>6, <2>7 DEF Bounds, SarBounds
    <3>2. rx.state = "TRANSITION" => rx.sar.nextByte <= sar'.not_ackd
      <4>1. rx.state = "TRANSITION" => rx.sar.nextByte <= sar.not_ackd  BY <2>7 DEF Bounds, RxBounds
      <4>2. sar.not_ackd <= sar'.not_ackd /\ sar.not_ackd \in Nat /\ sar'.not_ackd \in Nat
        BY <1>2, <1>4, <2>2, <2>6, <2>7, SarTypes
      <4> QED  BY <4>1, <4>2, SarTypes
    <3> QED  BY <1>1, <2>2, <2>7, <3>1, <3>2 DEF Bounds, RxBounds
  <2>8. ASSUME Bounds PROVE WorkBounds'
    <3>1. CASE ml' = Idle  BY <3>1 DEF WorkBounds
    <3>2. CASE ml' # Idle
      <4>1. /\ ~ml.sar.finSent /\ ml.rt_count = 0 /\ ml.sar.app <= ml.sar.ackd + SPACE - 1
        BY <1>1, <2>8 DEF Bounds, WorkBounds
      <4>2. sar'.not_ackd <= ml'.sar.not_ackd
        <5>1. sar'.not_ackd = ml'.sar.not_ackd /\ ml.sar.not_ackd + sent \in Nat
          BY <1>2, <1>4, <2>2, <2>4, <3>2
        <5> QED  BY <2>2, <5>1
      <4> QED  BY <1>1, <2>2, <2>3, <2>4, <2>6, <2>8, <3>2, <4>1, <4>2 DEF WorkBounds
    <3> QED  BY <3>1, <3>2
  <2>9. ASSUME Bounds PROVE WireBounds'
    <3>1. ml.sar.not_ackd \in Int  BY <1>2
    <3> QED  BY <1>1, <1>4, <2>1, <2>2, <2>6, <2>9, <3>1, WireSend DEF Bounds
  <2> QED  BY <1>1, <2>2, <2>5, <2>7, <2>8, <2>9 DEF Running, Bounds, RequestBounds
<1> QED  BY <1>6, <1>7

LEMMA RTRunning == ASSUME Typed, Running, MlRT PROVE Running'
<1> DEFINE fin  == IF ml.sar.finSent THEN 1 ELSE 0
           curr == (ml.sar.not_ackd - ml.sar.ackd - fin) % SPACE
<1>1. /\ ml # Idle /\ ml.type = "RT"
      /\ UNCHANGED <<next, edge, rx, tai, mempt, mergeApp, cache, events>>
  BY DEF MlRT, appVars, peerVars
<1>2. /\ ml \in Working /\ ml.sar \in MlSar /\ ml.sar.ackd \in Nat /\ ml.sar.not_ackd \in Nat
      /\ ml.sar.app \in Nat /\ ml.sar.finSent \in BOOLEAN
  BY <1>1, WorkTypes
<1>3. /\ sar'.not_ackd = sar.not_ackd /\ sar'.ackd = sar.ackd /\ sar'.app = sar.app
      /\ sar'.recv_window = sar.recv_window /\ sar'.finSent = sar.finSent
  BY DEF MlRT, Typed, TypedEngine
<1>4. PICK length \in Nat :
          /\ SendData(ml.sar.ackd, length)
          /\ Bounds => ml.sar.ackd + length <= ml.sar.not_ackd
          /\ \/ length = MSS /\ ml' = Idle
             \/ length = MSS /\ ml' = [ml EXCEPT !.sar.ackd = ml.sar.ackd + MSS, !.sarLoaded = TRUE,
                                                 !.segmentCount = ml.segmentCount + 1]
             \/ ml' = Idle
             \/ ml.sar.finSent /\ ml' = [ml EXCEPT !.type = "FIN", !.sarLoaded = TRUE]
  <2>1. curr \in 0 .. SPACE - 1
    <3>1. ml.sar.not_ackd - ml.sar.ackd - fin \in Int  BY <1>2
    <3> QED  BY <3>1, Reduced
  <2>2. curr \in Nat  BY <2>1, SpaceFacts
  <2>3. Bounds => curr = ml.sar.not_ackd - ml.sar.ackd
    <3>1. SUFFICES ASSUME Bounds PROVE curr = ml.sar.not_ackd - ml.sar.ackd  OBVIOUS
    <3>2. /\ ~ml.sar.finSent /\ ml.sar.ackd <= ml.sar.not_ackd /\ ml.sar.not_ackd <= ml.sar.app
          /\ ml.sar.app <= ml.sar.ackd + SPACE - 1
      BY <1>1, <3>1 DEF Bounds, WorkBounds
    <3>3. ml.sar.not_ackd - ml.sar.ackd - fin = ml.sar.not_ackd - ml.sar.ackd
      BY <1>2, <3>2
    <3>4. ml.sar.not_ackd - ml.sar.ackd \in 0 .. SPACE - 1  BY <1>2, <3>2, SpaceFacts
    <3> QED  BY <3>3, <3>4, Reduced, SpaceFacts
  <2> HIDE DEF curr
  <2>4. CASE curr > MSS
    <3>1. SendData(ml.sar.ackd, MSS)  BY <2>4 DEF MlRT, curr
    <3>2. ml' = Idle \/ ml' = [ml EXCEPT !.sar.ackd = ml.sar.ackd + MSS, !.sarLoaded = TRUE,
                                         !.segmentCount = ml.segmentCount + 1]
      BY <1>2, <2>4 DEF MlRT, curr
    <3>3. Bounds => ml.sar.ackd + MSS <= ml.sar.not_ackd
      BY <1>2, <2>2, <2>3, <2>4, SpaceFacts
    <3> QED  BY <3>1, <3>2, <3>3, SpaceFacts
  <2>5. CASE ~(curr > MSS)
    <3>1. SendData(ml.sar.ackd, curr)  BY <2>5 DEF MlRT, curr
    <3>2. ml' = Idle \/ (ml.sar.finSent /\ ml' = [ml EXCEPT !.type = "FIN", !.sarLoaded = TRUE])
      BY <1>2, <2>5 DEF MlRT, curr
    <3>3. Bounds => ml.sar.ackd + curr <= ml.sar.not_ackd  BY <1>2, <2>2, <2>3
    <3> QED  BY <2>2, <3>1, <3>2, <3>3
  <2> QED  BY <2>4, <2>5
<1>5. ml' # Idle =>
          /\ ml'.type \in {"RT", "FIN"}
          /\ \/ /\ ml'.type = "RT" /\ ml'.sar = [ml.sar EXCEPT !.ackd = ml.sar.ackd + length]
             \/ ml.sar.finSent
  BY <1>1, <1>2, <1>4 DEF Working
<1>6. EventKinds'
  BY <1>1, <1>4, <1>5, SendDataTimer DEF Running, EventKinds
<1>7. ASSUME Bounds PROVE SarBounds' /\ RequestBounds' /\ RxBounds'
  BY <1>1, <1>3, <1>7 DEF Bounds, SarBounds, RequestBounds, RxBounds
<1>8. ASSUME Bounds PROVE WorkBounds'
  <2>1. /\ ~ml.sar.finSent /\ ml.sar.ackd <= ml.sar.not_ackd /\ ml.sar.not_ackd <= ml.sar.app
        /\ ml.sar.app <= sar.app /\ ml.sar.app <= ml.sar.ackd + SPACE - 1
        /\ sar.not_ackd <= ml.sar.not_ackd /\ ml.sar.not_ackd <= edge
    BY <1>1, <1>8 DEF Bounds, WorkBounds
  <2>2. CASE ml' = Idle  BY <2>2 DEF WorkBounds
  <2>3. CASE ml' # Idle
    <3>1. ml'.type = "RT" /\ ml'.sar = [ml.sar EXCEPT !.ackd = ml.sar.ackd + length]
      BY <1>5, <2>1, <2>3
    <3>2. /\ ml'.sar.ackd = ml.sar.ackd + length /\ ml'.sar.app = ml.sar.app
          /\ ml'.sar.finSent = ml.sar.finSent /\ ml'.sar.not_ackd = ml.sar.not_ackd
      BY <1>2, <3>1 DEF MlSar
    <3>3. ml.sar.ackd + length <= ml.sar.not_ackd  BY <1>4, <1>8
    <3>4. ml.sar.app <= ml.sar.ackd + length + SPACE - 1  BY <1>2, <2>1, SpaceFacts
    <3> QED  BY <1>1, <1>3, <2>1, <3>1, <3>2, <3>3, <3>4 DEF WorkBounds
  <2> QED  BY <2>2, <2>3
<1>9. ASSUME Bounds PROVE WireBounds'
  <2>1. /\ ml.sar.not_ackd <= ml.sar.app /\ ml.sar.app <= sar.app /\ ml.sar.not_ackd <= edge
    BY <1>1, <1>9 DEF Bounds, WorkBounds
  <2>2. ml.sar.ackd + length <= sar.app /\ ml.sar.ackd + length <= edge
    <3>1. sar.app \in Nat /\ edge \in Nat  BY SarTypes
    <3> QED  BY <1>2, <1>4, <1>9, <2>1, <3>1
  <2>3. ml.sar.ackd \in Int  BY <1>2
  <2> QED  BY <1>1, <1>3, <1>4, <1>9, <2>2, <2>3, WireSend DEF Bounds
<1> QED  BY <1>3, <1>6, <1>7, <1>8, <1>9 DEF Running, Bounds

LEMMA FINRunning == ASSUME Typed, Running, MlFIN PROVE Running'
<1>1. /\ ml # Idle /\ ml.type = "FIN" /\ ml' = Idle
      /\ UNCHANGED <<next, edge, rx, tai, mempt, mergeApp, cache, events>>
  BY DEF MlFIN, appVars, peerVars
<1>2. ml.sar.not_ackd \in Nat /\ ml.sar.app \in Nat  BY <1>1, WorkTypes
<1>3. EventKinds'
  <2>1. rtTimer'.type \in {"RT", "SYN", "SYN_ACK"}
    BY DEF MlFIN, SetRetransmitTimer, Typed, TypedEngine, Running, EventKinds
  <2> QED  BY <1>1, <2>1 DEF Running, EventKinds
<1>4. ASSUME ~sar'.finSent, Bounds
      PROVE  /\ sar' = [sar EXCEPT !.not_ackd = ml.sar.not_ackd, !.finReady = TRUE]
             /\ segments' = segments
  <2>1. ml.rt_count = 0  BY <1>1, <1>4 DEF Bounds, WorkBounds
  <2> QED  BY <1>4, <2>1 DEF MlFIN, Typed, TypedEngine
<1>5. ASSUME ~sar'.finSent PROVE ~sar.finSent
  BY <1>5 DEF MlFIN, Typed, TypedEngine
<1>6. ASSUME ~sar'.finSent, Bounds PROVE Bounds'
  <2>1. /\ sar'.not_ackd = ml.sar.not_ackd /\ sar'.ackd = sar.ackd /\ sar'.app = sar.app
        /\ sar'.recv_window = sar.recv_window
    BY <1>4, <1>6 DEF Typed, TypedEngine
  <2>2. /\ ml.sar.not_ackd <= ml.sar.app /\ ml.sar.app <= sar.app
        /\ sar.not_ackd <= ml.sar.not_ackd /\ ml.sar.not_ackd <= edge /\ sar.ackd <= sar.not_ackd
    BY <1>1, <1>6 DEF Bounds, WorkBounds, SarBounds
  <2>3. sar.app \in Nat /\ sar.not_ackd \in Nat /\ sar.ackd \in Nat  BY SarTypes
  <2>4. ml.sar.not_ackd <= sar.app /\ sar.ackd <= ml.sar.not_ackd  BY <1>2, <2>2, <2>3
  <2>5. SarBounds'  BY <1>1, <1>6, <2>1, <2>2, <2>4 DEF Bounds, SarBounds
  <2>6. RxBounds'
    <3>1. rx.state = "TRANSITION" => rx.sar.nextByte <= sar.not_ackd /\ rx.sar.nextByte \in Nat
      BY <1>6, SarTypes DEF Bounds, RxBounds
    <3>2. rx.state = "TRANSITION" => rx.sar.nextByte <= ml.sar.not_ackd
      BY <1>2, <2>2, <2>3, <3>1
    <3> QED  BY <1>1, <1>6, <2>1, <3>2 DEF Bounds, RxBounds
  <2>7. WorkBounds' /\ RequestBounds'
    BY <1>1, <1>6, <2>1 DEF Bounds, WorkBounds, RequestBounds
  <2>8. WireBounds'  BY <1>1, <1>4, <1>6, <2>1 DEF Bounds, WireBounds, WireBound
  <2> QED  BY <2>5, <2>6, <2>7, <2>8 DEF Bounds
<1> QED  BY <1>3, <1>5, <1>6 DEF Running

\* Only a retransmission of the SYN is met here.
LEMMA SYNRunning == ASSUME Typed, Running, MlSYN PROVE Running'
<1>1. /\ ml # Idle /\ ml.type \in {"SYN", "SYN_ACK"} /\ ml' = Idle
      /\ UNCHANGED <<next, edge, rx, tai, mempt, mergeApp, cache, events>>
  BY DEF MlSYN, appVars, peerVars
<1>2. ml.rt_count # 0  BY <1>1 DEF Running, EventKinds
<1>3. sar' = sar /\ SetRetransmitTimer(ml.type)  BY <1>2 DEF MlSYN
<1>4. EventKinds'
  <2>1. rtTimer'.type \in {"RT", "SYN", "SYN_ACK"}
    BY <1>1, <1>3 DEF SetRetransmitTimer, Typed, TypedEngine
  <2> QED  BY <1>1, <2>1 DEF Running, EventKinds
<1>5. ASSUME Bounds PROVE WireBounds'
  <2>1. ml.sar.ackd \in Nat  BY <1>1, WorkTypes
  <2>2. PICK from \in Int : segments' = Append(segments, [kind |-> "SYN", from |-> from, length |-> 1])
    BY <2>1 DEF MlSYN, Send
  <2>3. [kind |-> "SYN", from |-> from, length |-> 1]
            \in [kind : {"SYN", "FIN", "DATA"}, from : Int, length : Nat]
    OBVIOUS
  <2>4. /\ Len(segments) \in Nat /\ Len(segments') = Len(segments) + 1
        /\ \A k \in 1 .. Len(segments) : segments'[k] = segments[k]
        /\ segments'[Len(segments) + 1] = [kind |-> "SYN", from |-> from, length |-> 1]
    BY <2>2, <2>3, AppendFacts DEF Typed, TypedEngine
  <2>5. ASSUME NEW j \in 1 .. Len(segments') PROVE WireBound(segments[j])'
    <3>1. CASE j \in 1 .. Len(segments)
      BY <1>1, <1>3, <1>5, <2>4, <3>1 DEF Bounds, WireBounds, WireBound
    <3>2. CASE j = Len(segments) + 1  BY <2>4, <3>2 DEF WireBound
    <3> QED  BY <2>4, <3>1, <3>2
  <2> QED  BY <2>5 DEF WireBounds
<1>6. ASSUME Bounds PROVE SarBounds' /\ RequestBounds' /\ RxBounds' /\ WorkBounds'
  BY <1>1, <1>3, <1>6 DEF Bounds, SarBounds, RequestBounds, RxBounds, WorkBounds
<1> QED  BY <1>3, <1>4, <1>5, <1>6 DEF Running, Bounds

LEMMA TimersRunning == ASSUME Typed, Running, RtExpire \/ ProbeExpire PROVE Running'
<1>1. UNCHANGED <<next, edge, rx, tai, mempt, mergeApp, cache, sar, ml, segments>>
  BY DEF RtExpire, ProbeExpire, appVars, peerVars
<1>2. EventKinds'
  <2>1. rtTimer'.type = rtTimer.type /\ rtTimer.type \in {"RT", "SYN", "SYN_ACK"}
    <3>1. CASE RtExpire  BY <3>1 DEF RtExpire, Typed, TypedEngine, Running, EventKinds
    <3>2. CASE ProbeExpire  BY <3>2 DEF ProbeExpire, Running, EventKinds
    <3> QED  BY <3>1, <3>2
  <2>2. \/ events' = events
        \/ Put("TX", 0)
        \/ Put(rtTimer.type, rtTimer.retries + 1)
    BY DEF RtExpire, ProbeExpire
  <2>3. \A j \in 1 .. Len(events') : EventOK(events'[j].type, events'[j].rt_count)
    <3>1. CASE events' = events  BY <3>1 DEF Running, EventKinds
    <3>2. CASE Put("TX", 0)
      <4>1. "TX" \in Kinds /\ EventOK("TX", 0)  BY DEF Kinds, EventOK
      <4> QED  BY <3>2, <4>1, EventPut
    <3>3. CASE Put(rtTimer.type, rtTimer.retries + 1)
      <4>1. rtTimer.retries + 1 \in Nat /\ rtTimer.retries + 1 # 0
        BY DEF Typed, TypedEngine
      <4>2. rtTimer.type \in Kinds /\ EventOK(rtTimer.type, rtTimer.retries + 1)
        BY <2>1, <4>1 DEF Kinds, EventOK
      <4> QED  BY <3>3, <4>1, <4>2, EventPut
    <3> QED  BY <2>2, <3>1, <3>2, <3>3
  <2> QED  BY <1>1, <2>1, <2>3 DEF Running, EventKinds
<1> QED  BY <1>1, <1>2 DEF Running, Bounds, SarBounds, RequestBounds, WorkBounds, WireBounds,
            WireBound, RxBounds

LEMMA WireRunning == ASSUME Typed, Running, Deliver \/ Lose \/ LoseAck PROVE Running'
<1>1. UNCHANGED <<edge, rx, tai, mempt, mergeApp, cache, sar, ml, events, rtTimer>>
  BY DEF Deliver, Lose, LoseAck, appVars, tableVars, engineVars, peerVars
<1>2. next <= next' /\ next' \in Nat
  <2>1. next \in Nat  BY SarTypes
  <2>2. CASE Deliver
    <3>1. segments # <<>>  BY <2>2 DEF Deliver
    <3>2. Head(segments) \in [kind : {"SYN", "FIN", "DATA"}, from : Int, length : Nat]
      BY <3>1, TailFacts DEF Typed, TypedEngine
    <3>3. Head(segments).from + Head(segments).length \in Int  BY <3>2
    <3>4. next' = next \/ (/\ next' = Head(segments).from + Head(segments).length
                           /\ next < Head(segments).from + Head(segments).length)
      BY <2>2 DEF Deliver, Arrives
    <3> QED  BY <2>1, <3>3, <3>4
  <2>3. CASE Lose \/ LoseAck  BY <2>1, <2>3 DEF Lose, LoseAck, peerVars
  <2> QED  BY <2>2, <2>3
<1>3. EventKinds'  BY <1>1 DEF Running, EventKinds
<1>4. ASSUME Bounds PROVE WireBounds'
  <2>1. CASE segments' = segments  BY <1>1, <1>4, <2>1 DEF Bounds, WireBounds, WireBound
  <2>2. CASE segments # <<>> /\ segments' = Tail(segments)
    <3>1. /\ Len(segments) \in Nat \ {0} /\ Len(segments') = Len(segments) - 1
          /\ \A k \in 1 .. Len(segments) - 1 : segments'[k] = segments[k + 1]
      BY <2>2, TailFacts DEF Typed, TypedEngine
    <3>2. ASSUME NEW j \in 1 .. Len(segments') PROVE WireBound(segments[j])'
      <4>1. j + 1 \in 1 .. Len(segments) /\ segments'[j] = segments[j + 1]  BY <3>1
      <4>2. WireBound(segments[j + 1])  BY <1>4, <4>1 DEF Bounds, WireBounds
      <4> QED  BY <1>1, <4>1, <4>2 DEF WireBound
    <3> QED  BY <3>2 DEF WireBounds
  <2> QED  BY <2>1, <2>2 DEF Deliver, Lose, LoseAck, engineVars
<1>5. ASSUME Bounds PROVE SarBounds' /\ RxBounds'
  <2>1. sar.ackd <= next'
    <3>1. sar.ackd <= next  BY <1>5 DEF Bounds, SarBounds
    <3> QED  BY <1>2, <3>1, SarTypes
  <2>2. rx.state = "TRANSITION" => rx.ack <= next'
    <3>1. rx.state = "TRANSITION" => rx.ack <= next  BY <1>5 DEF Bounds, RxBounds
    <3> QED  BY <1>2, <3>1, SarTypes
  <2> QED  BY <1>1, <1>5, <2>1, <2>2 DEF Bounds, SarBounds, RxBounds
<1>6. ASSUME Bounds PROVE RequestBounds' /\ WorkBounds'
  BY <1>1, <1>6 DEF Bounds, RequestBounds, WorkBounds
<1> QED  BY <1>1, <1>3, <1>4, <1>5, <1>6 DEF Running, Bounds

\* The peer does not move the edge of its window back.
LEMMA RxLoadRunning == ASSUME Typed, Running, NEW w \in Windows, RxLoad(w) PROVE Running'
<1>1. /\ UNCHANGED <<next, tai, mempt, mergeApp, cache, sar, ml, events, rtTimer, segments>>
      /\ next + w >= edge /\ edge' = next + w
      /\ rx' = [state |-> "TRANSITION", fastRT |-> FALSE, ack |-> next, window |-> w,
                sar |-> RxReply]
  BY DEF RxLoad, appVars, tableVars, engineVars
<1>2. w \in Nat  BY TxFlowAssumption, SpaceFacts
<1>3. edge' \in Nat /\ edge <= edge' /\ next \in Nat /\ edge \in Nat  BY <1>1, <1>2, SarTypes
<1>4. EventKinds'  BY <1>1 DEF Running, EventKinds
<1>5. ASSUME Bounds PROVE SarBounds' /\ RequestBounds'
  BY <1>1, <1>3, <1>5, SarTypes DEF Bounds, SarBounds, RequestBounds
<1>6. ASSUME Bounds PROVE RxBounds'
  <2>1. /\ rx'.ack = next /\ rx'.window = w /\ rx'.sar.prevAck = sar.ackd
        /\ rx'.sar.nextByte = sar.not_ackd
    BY <1>1 DEF RxReply
  <2> QED  BY <1>1, <1>2, <1>3, <2>1, SarTypes DEF RxBounds
<1>7. ASSUME Bounds PROVE WorkBounds'
  <2>1. CASE ~(ml # Idle /\ ml.type \in {"TX", "RT", "FIN"})  BY <1>1, <2>1 DEF WorkBounds
  <2>2. CASE ml # Idle /\ ml.type \in {"TX", "RT", "FIN"}
    <3>1. /\ ml.sar.not_ackd <= edge
          /\ ml.type = "TX" => ml.sar.ackd + ml.sar.min_window <= edge
      BY <1>7, <2>2 DEF Bounds, WorkBounds
    <3>2. /\ ml.sar.not_ackd <= edge'
          /\ ml.type = "TX" => ml.sar.ackd + ml.sar.min_window <= edge'
      BY <1>3, <2>2, <3>1, WorkTypes
    <3> QED  BY <1>1, <1>7, <2>2, <3>2 DEF Bounds, WorkBounds
  <2> QED  BY <2>1, <2>2
<1>8. ASSUME Bounds PROVE WireBounds'
  <2>1. ASSUME NEW j \in 1 .. Len(segments) PROVE WireBound(segments[j])'
    <3>1. segments[j].from + segments[j].length \in Int  BY SegmentTypes
    <3>2. WireBound(segments[j])  BY <1>8 DEF Bounds, WireBounds
    <3> QED  BY <1>1, <1>3, <3>1, <3>2 DEF WireBound
  <2> QED  BY <1>1, <2>1 DEF WireBounds
<1> QED  BY <1>1, <1>4, <1>5, <1>6, <1>7, <1>8 DEF Running, Bounds

LEMMA RxEngineRunning == ASSUME Typed, Running, RxEngine PROVE Running'
<1>1. UNCHANGED <<next, edge, tai, mempt, mergeApp, cache, ml, segments>>
  BY DEF RxEngine, RxFastRT, RxTransition, appVars, engineVars, peerVars
<1>2. rtTimer'.type = rtTimer.type
  BY DEF RxEngine, RxFastRT, RxTransition, engineVars, Typed, TypedEngine
<1>3. events' = events \/ Put("RT", 0)  BY DEF RxEngine, RxFastRT, RxTransition
<1>4. EventKinds'
  <2>1. "RT" \in Kinds /\ EventOK("RT", 0)  BY DEF Kinds, EventOK
  <2>2. \A j \in 1 .. Len(events') : EventOK(events'[j].type, events'[j].rt_count)
    BY <1>3, <2>1, EventPut DEF Running, EventKinds
  <2> QED  BY <1>1, <1>2, <2>2 DEF Running, EventKinds
<1>5. rx'.state = "LOAD"
  <2>1. CASE RxFastRT  BY <2>1 DEF RxFastRT, Typed, TypedPeer
  <2>2. CASE RxTransition  BY <2>2 DEF RxTransition
  <2> QED  BY <2>1, <2>2 DEF RxEngine
<1>6. /\ sar'.not_ackd = sar.not_ackd /\ sar'.app = sar.app /\ sar'.finSent = sar.finSent
      /\ \/ sar'.ackd = sar.ackd /\ sar'.recv_window = sar.recv_window
         \/ /\ rx.state = "TRANSITION" /\ Inside(rx.ack, rx.sar)
            /\ sar'.ackd = rx.ack /\ sar'.recv_window = rx.window
  BY DEF RxEngine, RxFastRT, RxTransition, Acked, Typed, TypedEngine
<1>7. ASSUME Bounds
      PROVE  /\ sar.ackd <= sar'.ackd /\ sar'.ackd \in Nat /\ sar'.ackd <= sar.not_ackd
             /\ sar'.ackd + sar'.recv_window <= edge /\ sar'.ackd <= next
  <2>1. CASE sar'.ackd = sar.ackd /\ sar'.recv_window = sar.recv_window
    BY <1>7, <2>1, SarTypes DEF Bounds, SarBounds
  <2>2. CASE /\ rx.state = "TRANSITION" /\ Inside(rx.ack, rx.sar)
             /\ sar'.ackd = rx.ack /\ sar'.recv_window = rx.window
    BY <1>7, <2>2, SarTypes DEF Bounds, RxBounds, Inside
  <2> QED  BY <1>6, <2>1, <2>2
<1>8. ASSUME Bounds PROVE SarBounds'
  <2>1. mempt <= sar'.ackd + SPACE - 1
    <3>1. mempt <= sar.ackd + SPACE - 1  BY <1>8 DEF Bounds, SarBounds
    <3> QED  BY <1>7, <1>8, <3>1, SarTypes, SpaceFacts
  <2> QED  BY <1>1, <1>6, <1>7, <1>8, <2>1 DEF Bounds, SarBounds
<1>9. ASSUME Bounds PROVE RequestBounds'
  <2>1. tai # None => tai.ackd <= sar'.ackd
    <3>1. tai # None => tai.ackd <= sar.ackd /\ tai.ackd \in Nat
      BY <1>9, SarTypes DEF Bounds, RequestBounds
    <3> QED  BY <1>7, <1>9, <3>1, SarTypes
  <2> QED  BY <1>1, <1>9, <2>1 DEF Bounds, RequestBounds
<1>10. ASSUME Bounds PROVE WorkBounds' /\ WireBounds' /\ RxBounds'
  BY <1>1, <1>5, <1>6, <1>10 DEF Bounds, WorkBounds, WireBounds, WireBound, RxBounds
<1> QED  BY <1>4, <1>6, <1>8, <1>9, <1>10 DEF Running, Bounds

LEMMA RunningNext == ASSUME Typed, HistoryHolds, Running, [Next]_vars PROVE Running'
<1>1. Typed'  BY NextTyped
<1>2. CASE UNCHANGED vars
  BY <1>2 DEF vars, appVars, tableVars, engineVars, peerVars, Running, EventKinds, Bounds,
              SarBounds, RequestBounds, WorkBounds, WireBounds, WireBound, RxBounds
<1>3. CASE Next
  <2>1. ASSUME NEW w \in Windows, RxLoad(w) PROVE Running'  BY <2>1, RxLoadRunning
  <2>2. CASE MetaLoader
    BY <2>2, LoadRunning, TXRunning, RTRunning, FINRunning, SYNRunning DEF MetaLoader
  <2> QED  BY <1>1, <1>3, <2>1, <2>2, AppRunning, CloseRunning, TimersRunning, WireRunning,
              RxEngineRunning DEF Next
<1> QED  BY <1>2, <1>3

LEMMA InvNext == ASSUME Inv, [Next]_vars PROVE Inv'
BY NextTyped, NextHistory, OpeningNext, RunningNext DEF Inv

LEMMA Invariance == Spec => []Inv
<1>1. Init => Inv  BY InitTyped, InitHistory, InitOpening DEF Inv
<1>2. Inv /\ [Next]_vars => Inv'  BY InvNext
<1> QED  BY <1>1, <1>2, PTL DEF Spec

\* Until a FIN has been sent no segment passes the window of the peer, whatever
\* acknowledgements and events metaLoader has not seen when it decides.
THEOREM WindowsRespected == Spec => []WindowRespected
<1>1. Inv => WindowRespected
  <2> SUFFICES ASSUME Inv, ~sar.finSent, NEW i \in DOMAIN segments, segments[i].kind = "DATA"
               PROVE  segments[i].from + segments[i].length <= edge
    BY DEF WindowRespected
  <2>1. DOMAIN segments = 1 .. Len(segments)
    BY LenProperties DEF Inv, Typed, TypedEngine
  <2>2. i \in 1 .. Len(segments)  BY <2>1
  <2>3. segments # <<>>  BY <2>2
  <2>4. Running  BY <2>3 DEF Inv, Opening
  <2>5. WireBound(segments[i])  BY <2>2, <2>4 DEF Running, Bounds, WireBounds
  <2> QED  BY <2>5 DEF WireBound
<1> QED  BY <1>1, Invariance, PTL

\* Until a FIN has been sent, the peer gets the bytes the application wrote: a
\* segment is read from the buffer after they are in memory, and before others
\* take their places.
THEOREM StreamsIntact == Spec => StreamIntact
<1> DEFINE A == (next' # next /\ next > 0 /\ ~sar.finSent) =>
                    \A p \in next .. next' - 1 : p < written /\ Content(p) = p
<1>1. Inv /\ [Next]_vars => [A]_vars
  <2> SUFFICES ASSUME Inv, Next, next' # next, next > 0, ~sar.finSent,
                      NEW p \in next .. next' - 1
               PROVE  p < written /\ Content(p) = p
    BY DEF vars
  <2>1. Running /\ Bounds  BY DEF Inv, Opening, Running
  <2>2. Deliver
    <3>1. ~App(AppNext) /\ ~App(AppClose) /\ ~MetaLoader
      BY DEF App, MetaLoader, MlLoad, MlTX, MlRT, MlFIN, MlSYN, peerVars
    <3>2. ~RtExpire /\ ~ProbeExpire /\ ~Lose /\ ~LoseAck
      BY DEF RtExpire, ProbeExpire, Lose, LoseAck, peerVars
    <3>3. ~RxEngine /\ \A w \in Windows : ~RxLoad(w)
      BY DEF RxEngine, RxFastRT, RxTransition, RxLoad, peerVars
    <3> QED  BY <3>1, <3>2, <3>3 DEF Next
  <2> DEFINE s == Head(segments)
  <2>3. /\ s \in [kind : {"SYN", "FIN", "DATA"}, from : Int, length : Nat]
        /\ s = segments[1] /\ 1 \in 1 .. Len(segments)
    <3>1. segments # <<>>  BY <2>2 DEF Deliver
    <3>2. segments \in Seq([kind : {"SYN", "FIN", "DATA"}, from : Int, length : Nat])
      BY DEF Inv, Typed, TypedEngine
    <3>3. Len(segments) \in Nat \ {0} /\ Head(segments) = segments[1]  BY <3>1, <3>2, TailFacts
    <3>4. s \in [kind : {"SYN", "FIN", "DATA"}, from : Int, length : Nat]  BY <3>1, <3>2, TailFacts
    <3> QED  BY <3>3, <3>4
  <2>4. next' = s.from + s.length /\ (s.kind = "SYN" <=> next = 0)
    BY <2>2 DEF Deliver, Arrives
  <2>5. next \in Nat /\ sar.app \in Nat /\ written \in Nat /\ mempt \in Nat /\ sar.ackd \in Nat
    BY SarTypes DEF Inv
  <2>6. s.kind = "DATA"
    <3>1. WireBound(s)  BY <2>1, <2>3 DEF Bounds, WireBounds
    <3> QED  BY <2>3, <2>4, <2>5, <3>1 DEF WireBound
  <2>7. s.from + s.length <= sar.app
    BY <2>1, <2>3, <2>6 DEF Bounds, WireBounds, WireBound
  <2>8. sar.app <= written /\ written <= mempt  BY InOrder DEF Inv
  <2>9. mempt <= sar.ackd + SPACE - 1 /\ sar.ackd <= next  BY <2>1 DEF Bounds, SarBounds
  <2>10. p \in Nat /\ next <= p /\ p < written
    <3>1. s.from + s.length \in Int  BY <2>3
    <3> QED  BY <2>4, <2>5, <2>7, <2>8, <3>1
  <2>11. written - 1 - p \in 0 .. SPACE - 1  BY <2>5, <2>8, <2>9, <2>10, SpaceFacts
  <2>12. Diff(written - 1, p) = written - 1 - p
    <3>1. written - 1 \in Int /\ p \in Int  BY <2>5, <2>10
    <3> QED  BY <2>11, <3>1, DiffFacts
  <2> QED  BY <2>5, <2>10, <2>12 DEF Content
<1>2. StreamIntact <=> [][A]_vars  BY PTL DEF StreamIntact, A
<1> QED  BY <1>1, <1>2, Invariance, PTL DEF Spec

=============================================================================
