-------------------------------- MODULE TxFlow --------------------------------
(***************************************************************************)
(* The data of one connection from the application to the peer: TxApp, the *)
(* decisions of metaLoader (tx_engine.cpp) about what to send, the         *)
(* retransmit and the probe timer, and what the RX engine does with the    *)
(* peer's acknowledgements (rx_engine.cpp).                                *)
(*                                                                         *)
(* Time is left out: a timer that is active may expire.  The segments that *)
(* are on their way are the commands that read them from the buffer; a     *)
(* segment reaches the peer, or is lost, when it has been read.  The peer  *)
(* is external: it takes what comes in order and acknowledges what it has, *)
(* as often as it likes, with a window whose right edge it does not move   *)
(* back.                                                                   *)
(***************************************************************************)
EXTENDS TxApp

CONSTANTS
    Active,         \* the application opens the connection, or the peer does
    Windows,        \* windows the peer may advertise
    TcpMaxDupAcks,  \* duplicate acknowledgements that trigger a retransmission
    MaxRetries,     \* retransmissions before the connection is given up
    ReadDepth       \* segments that are being read from the buffer

ASSUME TxFlowAssumption ==
    /\ Active \in BOOLEAN /\ Windows \subseteq 0 .. SPACE - 1
    /\ {TcpMaxDupAcks, MaxRetries, ReadDepth} \subseteq Nat \ {0}

VARIABLES
    ml,             \* metaLoader: "idle", or the event, what the tables answered,
                    \*   whether it has been used (ml_sarLoaded), ml_segmentCount
    segments,       \* segments that are being read: SYN, FIN, or data
    rtTimer,        \* retransmitTimerTable[id]
    probeActive,    \* probeTimerTable[id].active
    rx,             \* the RX engine: the acknowledgement it works on, what txSar
                    \*   answered, FastRT_en
    next, edge,     \* the peer: the next position, the end of its window,
    finRcvd,        \*   whether it has the FIN,
    ackDue          \*   and whether it owes an acknowledgement

engineVars == <<ml, segments, rtTimer, probeActive>>
peerVars   == <<next, edge, finRcvd, ackDue>>
tableVars  == <<sar, tcpState, events, aborted>>
vars == <<appVars, tableVars, engineVars, rx, peerVars>>

Idle == [type |-> "idle"]

Init ==
    /\ \E w \in Windows : sar = InitSar(w) /\ edge = 1 + w
    /\ tcpState = IF Active THEN "SYN_SENT" ELSE "SYN_RECEIVED"
    /\ events = IF Active THEN <<>> ELSE <<Ev("SYN_ACK", 0)>>
    /\ InitApp(IF Active THEN <<[type |-> "SYN"]>> ELSE <<>>)
    /\ aborted = FALSE
    /\ ml = Idle /\ segments = <<>>
    /\ rtTimer = [active |-> FALSE, retries |-> 0, type |-> "RT"]
    /\ probeActive = FALSE
    /\ rx = [state |-> "LOAD", fastRT |-> FALSE]
    /\ next = 0 /\ finRcvd = FALSE /\ ackDue = FALSE

-----------------------------------------------------------------------------
(***************************************************************************)
(* metaLoader                                                              *)
(***************************************************************************)
Diff(a, b) == (a - b) % SPACE

Send(kind, from, length) ==
    segments' = Append(segments, [kind |-> kind, from |-> from, length |-> length])

SetRetransmitTimer(type) == rtTimer' = [rtTimer EXCEPT !.active = TRUE, !.type = type]

\* A segment of data and its timer, or nothing if it would be empty.
SendData(from, length) ==
    IF length = 0 THEN UNCHANGED <<segments, rtTimer>>
    ELSE Send("DATA", from, length) /\ SetRetransmitTimer("RT")

\* State 0: an event is read and txSar answers.
MlLoad ==
    /\ ml = Idle /\ events # <<>>
    /\ ml' = [type |-> Head(events).type, rt_count |-> Head(events).rt_count,
              sar |-> TxReply, sarLoaded |-> FALSE, segmentCount |-> 0]
    /\ events' = Tail(events)
    /\ UNCHANGED <<appVars, sar, tcpState, aborted, segments, rtTimer, probeActive, rx,
                   peerVars>>

Used   == Diff(ml.sar.not_ackd, ml.sar.ackd)
Nagle  == ml.sar.ackd = ml.sar.not_ackd     \* nothing is outstanding

\* Mutant of Usable: the window of the peer is left out.
UsableSpace == SPACE - 1 - Used

\* usableWindow
Usable == IF ml.sar.min_window > Used THEN ml.sar.min_window - Used ELSE 0

\* Mutant of TryAgain: a window that is too small does not set the timer.
TryAgainNagle(fits) == ~Nagle

\* Whether the probe timer is set: the window is too small for the rest, or the
\* rest waits for what is outstanding.
TryAgain(fits) == ~fits \/ ~Nagle

\* Another segment follows: not_ackd is kept in the local copy.
SendFull ==
    /\ SendData(ml.sar.not_ackd, MSS)
    /\ ml' = [ml EXCEPT !.sar.not_ackd = @ + MSS, !.sarLoaded = TRUE]
    /\ UNCHANGED <<sar, probeActive>>

\* A bound of the model: what goes out behind the end of the data ends here.
Limit == Length + 2

(***************************************************************************)
(* TX.  Full segments go out as long as the window and the data allow.     *)
(* The rest goes out if nothing is outstanding, else the probe timer is    *)
(* set; with the last byte the event may become that of the FIN.           *)
(***************************************************************************)
MlTX ==
    /\ ml # Idle /\ ml.type = "TX" /\ Len(segments) < ReadDepth
    /\ ml.sar.not_ackd <= Limit
    /\ LET curr == Diff(ml.sar.app, ml.sar.not_ackd)
           fits == curr <= Usable
           rest == IF fits THEN curr ELSE Usable
           sent == IF Nagle THEN rest ELSE 0
       IN  IF rest >= MSS THEN SendFull
           ELSE /\ SendData(ml.sar.not_ackd, sent)
                /\ sar' = [sar EXCEPT !.not_ackd = ml.sar.not_ackd + sent]
                /\ probeActive' = (probeActive \/ TryAgain(fits))
                /\ ml' = IF fits /\ ml.sar.finReady /\ (Nagle \/ curr = 0)
                         THEN [ml EXCEPT !.type = "FIN", !.sarLoaded = TRUE,
                                         !.sar.not_ackd = @ + sent]
                         ELSE Idle
    /\ UNCHANGED <<appVars, tcpState, events, aborted, rx, peerVars>>

(***************************************************************************)
(* RT.  What is between ackd and not_ackd goes out again, at most four     *)
(* segments of it; the first time-out resets the congestion window.        *)
(***************************************************************************)
MlRT ==
    /\ ml # Idle /\ ml.type = "RT" /\ Len(segments) < ReadDepth
    /\ LET fin  == IF ml.sar.finSent THEN 1 ELSE 0
           curr == (ml.sar.not_ackd - ml.sar.ackd - fin) % SPACE
       IN  IF curr > MSS
           THEN /\ SendData(ml.sar.ackd, MSS)
                /\ ml' = IF ml.segmentCount = 3 THEN Idle
                         ELSE [ml EXCEPT !.sar.ackd = @ + MSS, !.sarLoaded = TRUE,
                                         !.segmentCount = @ + 1]
           ELSE /\ SendData(ml.sar.ackd, curr)
                /\ ml' = IF ml.sar.finSent THEN [ml EXCEPT !.type = "FIN", !.sarLoaded = TRUE]
                         ELSE Idle
    /\ sar' = IF ~ml.sarLoaded /\ ml.rt_count = 1
              THEN [sar EXCEPT !.cong_window = CongWindow] ELSE sar
    /\ UNCHANGED <<appVars, tcpState, events, aborted, probeActive, rx, peerVars>>

\* FIN.  It takes the place behind the data if all of it has been sent, else
\* finReady makes the last TX send it.
MlFIN ==
    /\ ml # Idle /\ ml.type = "FIN" /\ Len(segments) < ReadDepth
    /\ LET seq  == IF ml.rt_count = 0 THEN ml.sar.not_ackd ELSE ml.sar.not_ackd - 1
           last == Diff(ml.sar.app, seq) = 0
       IN  /\ sar' = IF ml.rt_count # 0 THEN sar
                     ELSE IF last
                     THEN [sar EXCEPT !.not_ackd = ml.sar.not_ackd + 1, !.finReady = TRUE,
                                      !.finSent = TRUE]
                     ELSE [sar EXCEPT !.not_ackd = ml.sar.not_ackd, !.finReady = TRUE]
           /\ IF last THEN Send("FIN", seq, 1) /\ SetRetransmitTimer("RT")
              ELSE UNCHANGED <<segments, rtTimer>>
    /\ ml' = Idle
    /\ UNCHANGED <<appVars, tcpState, events, aborted, probeActive, rx, peerVars>>

\* SYN and SYN_ACK.  The first one sets up the tables, tx_app_table with them.
MlSYN ==
    /\ ml # Idle /\ ml.type \in {"SYN", "SYN_ACK"} /\ Len(segments) < ReadDepth
    /\ sar' = IF ml.rt_count = 0 THEN Initialised(0) ELSE sar
    /\ Send("SYN", IF ml.rt_count = 0 THEN 0 ELSE ml.sar.ackd, 1)
    /\ SetRetransmitTimer(ml.type)
    /\ ml' = Idle
    /\ UNCHANGED <<appVars, tcpState, events, aborted, probeActive, rx, peerVars>>

-----------------------------------------------------------------------------
(***************************************************************************)
(* The timers.  rxEng2timer_clearProbeTimer only takes a tick off the      *)
(* probe timer, and is not seen here.                                      *)
(***************************************************************************)
RtExpire ==
    /\ rtTimer.active /\ EventRoom
    /\ IF rtTimer.retries < MaxRetries
       THEN /\ rtTimer' = [rtTimer EXCEPT !.active = FALSE, !.retries = @ + 1]
            /\ Put(rtTimer.type, rtTimer.retries + 1)
            /\ UNCHANGED <<aborted, tcpState>>
       ELSE /\ rtTimer' = [rtTimer EXCEPT !.active = FALSE, !.retries = 0]
            /\ aborted' = TRUE /\ tcpState' = "CLOSED"
            /\ UNCHANGED events
    /\ UNCHANGED <<appVars, sar, ml, segments, probeActive, rx, peerVars>>

ProbeExpire ==
    /\ probeActive /\ EventRoom
    /\ probeActive' = FALSE
    /\ Put("TX", 0)
    /\ UNCHANGED <<appVars, sar, tcpState, aborted, ml, segments, rtTimer, rx, peerVars>>

-----------------------------------------------------------------------------
(***************************************************************************)
(* The memory has read a segment, and it goes to the peer.  Place p of the *)
(* buffer holds the last byte written there.                               *)
(***************************************************************************)
Content(p) == written - 1 - Diff(written - 1, p)

Arrives(s) ==
    /\ s.from <= next /\ next < s.from + s.length
    /\ ~finRcvd /\ (s.kind = "SYN" <=> next = 0)

Deliver ==
    /\ segments # <<>>
    /\ LET s == Head(segments)
       IN  IF Arrives(s) THEN /\ next' = s.from + s.length
                              /\ finRcvd' = (s.kind = "FIN")
           ELSE UNCHANGED <<next, finRcvd>>
    /\ ackDue' = TRUE
    /\ segments' = Tail(segments)
    /\ UNCHANGED <<appVars, tableVars, ml, rtTimer, probeActive, rx, edge>>

Lose ==
    /\ segments # <<>>
    /\ segments' = Tail(segments)
    /\ UNCHANGED <<appVars, tableVars, ml, rtTimer, probeActive, rx, peerVars>>

LoseAck ==
    /\ ackDue
    /\ ackDue' = FALSE
    /\ UNCHANGED <<appVars, tableVars, engineVars, rx, next, edge, finRcvd>>

-----------------------------------------------------------------------------
(***************************************************************************)
(* The RX engine.  LOAD reads the peer's acknowledgement and has txSar     *)
(* read; the transition comes later.                                       *)
(***************************************************************************)
RxLoad(window) ==
    /\ rx.state = "LOAD" /\ ~rx.fastRT
    /\ next > 0 /\ next + window >= edge
    /\ edge' = next + window /\ ackDue' = FALSE
    /\ rx' = [state |-> "TRANSITION", fastRT |-> FALSE, ack |-> next, window |-> window,
              sar |-> RxReply]
    /\ UNCHANGED <<appVars, tableVars, engineVars, next, finRcvd>>

\* The flag of a fast retransmission that was left set is served in LOAD.
RxFastRT ==
    /\ rx.state = "LOAD" /\ rx.fastRT /\ EventRoom
    /\ Put("RT", 0)
    /\ rx' = [rx EXCEPT !.fastRT = FALSE]
    /\ UNCHANGED <<appVars, sar, tcpState, aborted, engineVars, peerVars>>

\* The congestion window grows with every acknowledgement of data.
Grown(cong) == Min(cong + MSS, SPACE - 1)

\* Whether an acknowledgement is one of what txSar says has been sent.
Inside(ack, s) == s.prevAck <= ack /\ ack <= s.nextByte

RxTransition ==
    /\ rx.state = "TRANSITION" /\ EventRoom
    /\ LET all  == rx.ack = rx.sar.nextByte
           dup  == rx.ack = rx.sar.prevAck /\ ~all
           count == IF ~dup THEN 0
                    ELSE IF rx.sar.count <= TcpMaxDupAcks THEN rx.sar.count + 1
                    ELSE rx.sar.count
           cong == IF dup THEN rx.sar.cong_window ELSE Grown(rx.sar.cong_window)
           fast == dup /\ rx.sar.count <= TcpMaxDupAcks /\ count = TcpMaxDupAcks
       IN  /\ rtTimer' = IF all THEN [rtTimer EXCEPT !.active = FALSE, !.retries = 0]
                         ELSE rtTimer
           /\ IF tcpState \in {"ESTABLISHED", "SYN_RECEIVED", "FIN_WAIT_1"}
              THEN /\ sar' = IF Inside(rx.ack, rx.sar)
                             THEN Acked(rx.ack, rx.window, cong, count) ELSE sar
                   /\ IF fast THEN Put("RT", 0) ELSE UNCHANGED events
              ELSE UNCHANGED <<sar, events>>
           /\ tcpState' = IF all /\ tcpState = "SYN_RECEIVED" THEN "ESTABLISHED" ELSE tcpState
    /\ rx' = [state |-> "LOAD", fastRT |-> FALSE]
    /\ UNCHANGED <<appVars, aborted, ml, segments, probeActive, peerVars>>

-----------------------------------------------------------------------------
MetaLoader == MlLoad \/ MlTX \/ MlRT \/ MlFIN \/ MlSYN
RxEngine   == RxFastRT \/ RxTransition

App(A) == A /\ UNCHANGED <<engineVars, rx, peerVars>>

\* A connection that has been given up is not followed further.
Next == ~aborted /\
    \/ App(AppNext)
    \/ App(AppClose)
    \/ MetaLoader
    \/ RtExpire \/ ProbeExpire
    \/ Deliver \/ Lose \/ LoseAck
    \/ \E w \in Windows : RxLoad(w)
    \/ RxEngine

Spec == Init /\ [][Next]_vars

(***************************************************************************)
(* Every function runs in every cycle and the memory answers.  Timers that *)
(* are active expire.                                                      *)
(***************************************************************************)
Fairness ==
    /\ WF_vars(App(PkgPusher)) /\ WF_vars(App(MemoryWrite)) /\ WF_vars(App(MergeEvent))
    /\ WF_vars(App(ReadMeta)) /\ SF_vars(App(StatusHandler))
    /\ WF_vars(MetaLoader) /\ SF_vars(RtExpire) /\ SF_vars(ProbeExpire)
    /\ WF_vars(Deliver) /\ SF_vars(RxEngine)

LocalSpec == Spec /\ Fairness

\* The peer acknowledges what it gets and in the end opens its window.
Widest == CHOOSE w \in Windows : \A v \in Windows : v <= w
Answer == (ackDue \/ edge < next + Widest) /\ RxLoad(Widest)

FairSpec == LocalSpec /\ SF_vars(Answer)

-----------------------------------------------------------------------------
(***************************************************************************)
(* Properties                                                              *)
(***************************************************************************)
\* What the peer takes for data is what the application wrote, until a FIN has
\* been sent: no byte is overwritten before the peer has it, none is sent
\* before it is in memory.
StreamIntact ==
    [][(next' # next /\ next > 0 /\ ~sar.finSent) =>
          \A p \in next .. next' - 1 : p < written /\ Content(p) = p]_vars

\* Until a FIN has been sent, no segment reaches beyond the window of the peer.
WindowRespected ==
    ~sar.finSent =>
        \A i \in DOMAIN segments : segments[i].kind = "DATA" =>
            segments[i].from + segments[i].length <= edge

\* Only bytes that are in memory are released to the TX engine.
PushedIsWritten == sar.app <= written

\* If losses end and the application does not close the connection, the peer
\* gets everything that was accepted; unless the connection is given up, or the
\* retransmit timer stays off although something is outstanding.
EverythingDelivered ==
    /\ <>[][~Lose /\ ~LoseAck]_vars /\ []~aborted /\ [](tcpState # "FIN_WAIT_1")
    /\ []<>(sar.ackd = sar.not_ackd \/ rtTimer.active)
    => <>[](next = mempt)

\* An open the application has asked for leads to a SYN.
SynSent == <>(segments # <<>>)

=============================================================================
