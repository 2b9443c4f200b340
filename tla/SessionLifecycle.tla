-------------------------- MODULE SessionLifecycle --------------------------
(***************************************************************************)
(* The life of a session across the engines: from the lookup that gives it *)
(* an ID, through the state machine, the retransmit timer                  *)
(* (retransmit_timer.cpp) and the close timer (close_timer.cpp), to the    *)
(* release that makes the ID free again.                                   *)
(*                                                                         *)
(* ConnState shows that a read and a write of the state table together are *)
(* one step, and SessionLookup that the directory is one; both are one     *)
(* step here.  What is kept are the queues between the modules, in which   *)
(* packets, events, timer updates and releases of one use of a session ID  *)
(* are overtaken by the next use of it.                                    *)
(*                                                                         *)
(* Time is abstracted: an active timer may expire whenever it is scanned.  *)
(* The two queues of released sessions in front of the state table are     *)
(* one, and so is the path of the events to the TX engine.                 *)
(***************************************************************************)
EXTENDS TcpFsm, Naturals, Sequences

CONSTANTS
    MAX_SESSIONS,
    Depth,          \* depth of the stream of packets
    TimerDepth,     \* depth of the other streams
    Retries,        \* time-outs after which a session is aborted: 4
    PacketKind      \* kinds of the packets that arrive

ASSUME LifecycleAssumption ==
    /\ MAX_SESSIONS \in Nat \ {0}
    /\ {Depth, TimerDepth} \subseteq Nat \ {0}
    /\ Retries \in Nat
    /\ PacketKind \subseteq Kind

Session == 0 .. MAX_SESSIONS - 1

VARIABLES
    tupleValid,     \* whether the session ID belongs to a connection
    state_table,
    fsmMeta,        \* rxEng_fsmMetaDataFifo: packets with the session looked up
    lookupRsp,      \* sLookup2txApp_rsp
    events,         \* events on their way to the TX engine
    clearRt,        \* rxEng2timer_clearRetransmitTimer
    rtTable,        \* retransmitTimerTable
    setClose,       \* rxEng2timer_setCloseTimer
    closeActive,    \* closeTimerTable: active
    relReq,         \* timer2stateTable_releaseState
    slRel,          \* stateTable2sLookup_releaseSession
    opening         \* history: what has become of the application's open of the session

timerVars == <<clearRt, rtTable, setClose, closeActive>>
vars == <<tupleValid, state_table, fsmMeta, lookupRsp, events, timerVars, relReq, slRel,
          opening>>

Init ==
    /\ tupleValid = [s \in Session |-> FALSE]
    /\ state_table = [s \in Session |-> "CLOSED"]
    /\ fsmMeta = <<>> /\ lookupRsp = <<>> /\ events = <<>>
    /\ clearRt = <<>> /\ setClose = <<>> /\ relReq = <<>> /\ slRel = <<>>
    /\ rtTable = [s \in Session |-> [active |-> FALSE, retries |-> 0, type |-> "RT"]]
    /\ closeActive = [s \in Session |-> FALSE]
    /\ opening = [s \in Session |-> "none"]

Room(q) == Len(q) < TimerDepth

\* A stream to which e is written if write is TRUE.
Put(q, write, e) == IF write THEN Append(q, e) ELSE q

-----------------------------------------------------------------------------
(***************************************************************************)
(* The RX engine.                                                          *)
(***************************************************************************)
\* rxMetadataHandler: a packet of a known connection, or one with the SYN bit
\* that is given a new session.
RxLookup(s, k) ==
    /\ Len(fsmMeta) < Depth
    /\ tupleValid[s] \/ k \in {"SYN", "SYN_ACK"}
    /\ tupleValid' = [tupleValid EXCEPT ![s] = TRUE]
    /\ fsmMeta' = Append(fsmMeta, [sessionID |-> s, kind |-> k])
    /\ UNCHANGED <<state_table, lookupRsp, events, timerVars, relReq, slRel, opening>>

\* The outcomes of the state machine that differ in something kept here, and
\* the events among them that make the TX engine set the retransmit timer.
TxEvent(o) ==
    CASE o.event \in {"SYN_ACK", "SYN_ACK_RT"} -> "SYN_ACK"
      [] o.event \in {"FIN", "RT"}             -> o.event
      [] OTHER                                 -> "none"

Effect(o) == [state |-> o.state, event |-> TxEvent(o), clearRt |-> o.clearRt,
              setClose |-> o.setClose, open |-> o.open]

Effects ==
    [k \in Kind |-> [st \in SessionState |->
        {Effect(RxOutcome(p, st, r)) : p \in {q \in Packet : q.kind = k}, r \in Relation}]]

\* Mutant of Releases: the check the state table has as a comment only.
ReleasesOnce(old, new) == new = "CLOSED" /\ old # "CLOSED"

\* state_table: a session is released whenever CLOSED is written.
Releases(old, new) == new = "CLOSED"

\* What becomes of an open when a packet has been handled.
Told(o, open) ==
    CASE o.open # "none"                        -> o.open
      [] o.open = "none" /\ o.state = "CLOSED" -> "none"
      [] OTHER                                  -> open

\* rxTcpFSM for one packet, with the accesses to the state table.
RxFsm ==
    /\ fsmMeta # <<>>
    /\ Room(clearRt) /\ Room(setClose) /\ Room(events) /\ Room(slRel)
    /\ LET s == Head(fsmMeta).sessionID
       IN  \E o \in Effects[Head(fsmMeta).kind][state_table[s]] :
               /\ state_table' = [state_table EXCEPT ![s] = o.state]
               /\ slRel' = Put(slRel, Releases(state_table[s], o.state), s)
               /\ events' = Put(events, o.event # "none", [type |-> o.event, sessionID |-> s])
               /\ clearRt' = Put(clearRt, o.clearRt # "none",
                                 [sessionID |-> s, stop |-> o.clearRt = "stop"])
               /\ setClose' = Put(setClose, o.setClose, s)
               /\ opening' = [opening EXCEPT ![s] = Told(o, @)]
    /\ fsmMeta' = Tail(fsmMeta)
    /\ UNCHANGED <<tupleValid, lookupRsp, rtTable, closeActive, relReq>>

-----------------------------------------------------------------------------
(***************************************************************************)
(* The application through tx_app_if and tx_app_stream_if.                 *)
(***************************************************************************)
\* An open: the session lookup gives the new connection a session ...
OpenLookup(s) ==
    /\ ~tupleValid[s] /\ Room(lookupRsp)
    /\ tupleValid' = [tupleValid EXCEPT ![s] = TRUE]
    /\ lookupRsp' = Append(lookupRsp, s)
    /\ UNCHANGED <<state_table, fsmMeta, events, timerVars, relReq, slRel, opening>>

\* ... which becomes SYN_SENT whatever its state is.
TxOpen ==
    /\ lookupRsp # <<>> /\ Room(events)
    /\ LET s == Head(lookupRsp)
       IN  /\ state_table' = [state_table EXCEPT ![s] = "SYN_SENT"]
           /\ events' = Append(events, [type |-> "SYN", sessionID |-> s])
           /\ opening' = [opening EXCEPT ![s] = "asked"]
    /\ lookupRsp' = Tail(lookupRsp)
    /\ UNCHANGED <<tupleValid, fsmMeta, timerVars, relReq, slRel>>

\* A close request, by a session ID that may be out of date.
AppClose(s) ==
    /\ Room(events)
    /\ state_table' = [state_table EXCEPT ![s] = CloseTarget(@)]
    /\ events' = Put(events, state_table[s] \in ClosableState,
                     [type |-> "FIN", sessionID |-> s])
    /\ UNCHANGED <<tupleValid, fsmMeta, lookupRsp, timerVars, relReq, slRel, opening>>

\* Data to send.
AppSend(s) ==
    /\ state_table[s] = "ESTABLISHED" /\ Room(events)
    /\ events' = Append(events, [type |-> "TX", sessionID |-> s])
    /\ UNCHANGED <<tupleValid, state_table, fsmMeta, lookupRsp, timerVars, relReq, slRel,
                   opening>>

-----------------------------------------------------------------------------
(***************************************************************************)
(* The TX engine and the timers.                                           *)
(***************************************************************************)
\* What a packet of the TX engine sets the retransmit timer to.
TimerType(type) == IF type \in {"SYN", "SYN_ACK"} THEN type ELSE "RT"

Set(s, type) ==
    rtTable' = [rtTable EXCEPT ![s] = [@ EXCEPT !.active = TRUE, !.type = TimerType(type)]]

\* metaLoader: a SYN or SYN-ACK is sent in any case, a FIN or data only if
\* there is something to be sent.  The probe timer, which metaLoader sets while
\* data are unsent (tx_engine.cpp:293, :320), is not in this module.
TxEngine ==
    /\ events # <<>>
    /\ LET e == Head(events)
       IN  \/ Set(e.sessionID, e.type)
           \/ e.type \notin {"SYN", "SYN_ACK"} /\ UNCHANGED rtTable
    /\ events' = Tail(events)
    /\ UNCHANGED <<tupleValid, state_table, fsmMeta, lookupRsp, clearRt, setClose,
                   closeActive, relReq, slRel, opening>>

\* retransmit_timer: an update of the RX engine stops the timer or starts the
\* count again.
ClearTimer ==
    /\ clearRt # <<>>
    /\ LET u == Head(clearRt)
       IN  rtTable' = [rtTable EXCEPT ![u.sessionID] =
               [active |-> @.active /\ ~u.stop, retries |-> 0, type |-> @.type]]
    /\ clearRt' = Tail(clearRt)
    /\ UNCHANGED <<tupleValid, state_table, fsmMeta, lookupRsp, events, setClose,
                   closeActive, relReq, slRel, opening>>

\* Mutant of Retransmit: one time-out more.
RetransmitOnceMore(s) ==
    /\ rtTable[s].active /\ Room(events) /\ Room(relReq)
    /\ rtTable[s].retries <= Retries
    /\ rtTable' = [rtTable EXCEPT ![s] = [@ EXCEPT !.active = FALSE, !.retries = @ + 1]]
    /\ events' = Append(events, [type |-> rtTable[s].type, sessionID |-> s])
    /\ UNCHANGED <<tupleValid, state_table, fsmMeta, lookupRsp, clearRt, setClose,
                   closeActive, relReq, slRel, opening>>

\* Mutant of Retransmit: the time-outs are not counted.
RetransmitUncounted(s) ==
    /\ rtTable[s].active /\ Room(events) /\ Room(relReq)
    /\ rtTable[s].retries < Retries
    /\ rtTable' = [rtTable EXCEPT ![s] = [@ EXCEPT !.active = FALSE]]
    /\ events' = Append(events, [type |-> rtTable[s].type, sessionID |-> s])
    /\ UNCHANGED <<tupleValid, state_table, fsmMeta, lookupRsp, clearRt, setClose,
                   closeActive, relReq, slRel, opening>>

\* A time-out: the packet is sent again ...
Retransmit(s) ==
    /\ rtTable[s].active /\ Room(events) /\ Room(relReq)
    /\ rtTable[s].retries < Retries
    /\ rtTable' = [rtTable EXCEPT ![s] =
           [active |-> FALSE, retries |-> @.retries + 1, type |-> @.type]]
    /\ events' = Append(events, [type |-> rtTable[s].type, sessionID |-> s])
    /\ UNCHANGED <<tupleValid, state_table, fsmMeta, lookupRsp, clearRt, setClose,
                   closeActive, relReq, slRel, opening>>

\* ... or the session is aborted, and the application told.
Abort(s) ==
    /\ rtTable[s].active /\ Room(events) /\ Room(relReq)
    /\ rtTable[s].retries >= Retries
    /\ rtTable' = [rtTable EXCEPT ![s] = [@ EXCEPT !.active = FALSE, !.retries = 0]]
    /\ relReq' = Append(relReq, s)
    /\ opening' = [opening EXCEPT ![s] = IF rtTable[s].type = "SYN" THEN "refused" ELSE @]
    /\ UNCHANGED <<tupleValid, state_table, fsmMeta, lookupRsp, events, clearRt, setClose,
                   closeActive, slRel>>

\* close_timer.
SetCloseTimer ==
    /\ setClose # <<>>
    /\ closeActive' = [closeActive EXCEPT ![Head(setClose)] = TRUE]
    /\ setClose' = Tail(setClose)
    /\ UNCHANGED <<tupleValid, state_table, fsmMeta, lookupRsp, events, clearRt, rtTable,
                   relReq, slRel, opening>>

\* Mutant of CloseTimeOut: a session still retransmitting is not closed.
CloseTimeOutSkips(s) ==
    /\ closeActive[s] /\ Room(relReq)
    /\ closeActive' = [closeActive EXCEPT ![s] = FALSE]
    /\ relReq' = Put(relReq, ~rtTable[s].active, s)
    /\ UNCHANGED <<tupleValid, state_table, fsmMeta, lookupRsp, events, clearRt, rtTable,
                   setClose, slRel, opening>>

CloseTimeOut(s) ==
    /\ closeActive[s] /\ Room(relReq)
    /\ closeActive' = [closeActive EXCEPT ![s] = FALSE]
    /\ relReq' = Append(relReq, s)
    /\ UNCHANGED <<tupleValid, state_table, fsmMeta, lookupRsp, events, clearRt, rtTable,
                   setClose, slRel, opening>>

-----------------------------------------------------------------------------
\* state_table: a timer's release closes the session ...
TableClose ==
    /\ relReq # <<>> /\ Room(slRel)
    /\ state_table' = [state_table EXCEPT ![Head(relReq)] = "CLOSED"]
    /\ slRel' = Append(slRel, Head(relReq))
    /\ opening' = [opening EXCEPT ![Head(relReq)] = "none"]
    /\ relReq' = Tail(relReq)
    /\ UNCHANGED <<tupleValid, fsmMeta, lookupRsp, events, timerVars>>

\* ... and session_lookup_controller frees its ID.
LookupRelease ==
    /\ slRel # <<>>
    /\ tupleValid' = [tupleValid EXCEPT ![Head(slRel)] = FALSE]
    /\ slRel' = Tail(slRel)
    /\ UNCHANGED <<state_table, fsmMeta, lookupRsp, events, timerVars, relReq, opening>>

-----------------------------------------------------------------------------
Packets == \E s \in Session, k \in PacketKind : RxLookup(s, k)
App     == \E s \in Session : OpenLookup(s) \/ AppClose(s) \/ AppSend(s)

Next ==
    \/ Packets \/ RxFsm
    \/ App \/ TxOpen
    \/ TxEngine \/ ClearTimer
    \/ \E s \in Session : Retransmit(s) \/ Abort(s) \/ CloseTimeOut(s)
    \/ SetCloseTimer \/ TableClose \/ LookupRelease

Spec == Init /\ [][Next]_vars

\* The modules run in every clock cycle and the timers scan every session.
Fairness ==
    /\ WF_vars(RxFsm) /\ WF_vars(TxOpen) /\ WF_vars(TxEngine)
    /\ WF_vars(ClearTimer) /\ WF_vars(SetCloseTimer)
    /\ WF_vars(TableClose) /\ WF_vars(LookupRelease)
    /\ \A s \in Session :
          SF_vars(Retransmit(s)) /\ SF_vars(Abort(s)) /\ SF_vars(CloseTimeOut(s))

FairSpec == Spec /\ Fairness

-----------------------------------------------------------------------------
(***************************************************************************)
(* Properties                                                              *)
(***************************************************************************)
In(s, q) == \E i \in DOMAIN q : q[i] = s

EventType == {"SYN", "SYN_ACK", "FIN", "RT", "TX"}

\* Every variable has its type and the streams keep to their depths.
TypeOK ==
    /\ tupleValid \in [Session -> BOOLEAN] /\ closeActive \in [Session -> BOOLEAN]
    /\ state_table \in [Session -> SessionState]
    /\ fsmMeta \in Seq([sessionID : Session, kind : PacketKind]) /\ Len(fsmMeta) <= Depth
    /\ events \in Seq([type : EventType, sessionID : Session])
    /\ clearRt \in Seq([sessionID : Session, stop : BOOLEAN])
    /\ \A q \in {lookupRsp, setClose, relReq, slRel} : q \in Seq(Session)
    /\ \A n \in {Len(lookupRsp), Len(setClose), Len(relReq), Len(slRel), Len(events),
                Len(clearRt)} : n <= TimerDepth
    /\ rtTable \in [Session -> [active : BOOLEAN, retries : 0 .. Retries,
                                type : {"SYN", "SYN_ACK", "RT"}]]
    /\ opening \in [Session -> {"none", "asked", "opened", "refused"}]

\* A session in TIME_WAIT is on its way out of it: its close timer runs, or
\* is about to, or has expired.  Nothing the timers still have from an earlier
\* use of the session ID can leave it there.
TimeWaitTimed ==
    \A s \in Session : state_table[s] = "TIME_WAIT" =>
        In(s, setClose) \/ closeActive[s] \/ In(s, relReq)

\* A session ID is not lost: one that belongs to a connection is in a state
\* the connection can leave by itself, or something is on its way that opens
\* the connection or frees the ID.
IdsComeBack ==
    \A s \in Session : tupleValid[s] /\ state_table[s] = "CLOSED" =>
        \/ In(s, lookupRsp) \/ In(s, slRel)
        \/ \E i \in DOMAIN fsmMeta : fsmMeta[i].sessionID = s

\* The application is told that a connection is open only if it has asked for
\* it and the session has not been closed since.
OpenedOnAsking ==
    [][\A s \in Session :
          opening'[s] = "opened" /\ opening[s] # "opened" =>
              opening[s] # "none" /\ state_table[s] # "CLOSED"]_vars

\* The TIME_WAIT state ends, whatever arrives.
TimeWaitEnds ==
    \A s \in Session : state_table[s] = "TIME_WAIT" ~> state_table[s] # "TIME_WAIT"

\* When packets no longer arrive, retransmissions come to an end: they are
\* limited for every session and an aborted session does not start again.  This
\* is about the events of this module: while data are unsent the probe timer goes
\* on making TX events, also for an aborted session.
RetransmissionsEnd ==
    <>[][~Packets /\ ~App]_vars => <>[](events = <<>> /\ \A s \in Session : ~rtTable[s].active)
=============================================================================
