----------------------------- MODULE ConnState -----------------------------
(***************************************************************************)
(* The state table composed with everything that accesses it:              *)
(*   - rxTcpFSM (rx_engine.cpp), which reads the state of a packet's       *)
(*     session in LOAD and writes the new state in TRANSITION;             *)
(*   - tx_app_if (tx_app_if.cpp), which writes SYN_SENT for a connection   *)
(*     it opens, and reads and then writes a state to close one;           *)
(*   - tasi_metaLoader (tx_app_stream_if.cpp), which reads the state       *)
(*     before it accepts data of the application;                          *)
(*   - the close and retransmit timers, which release sessions;            *)
(*   - the session lookup, which takes the released sessions.              *)
(*                                                                         *)
(* Every process runs at its own pace.  A stream that leads out of this    *)
(* module is not kept: that it is full is the process not taking its step. *)
(***************************************************************************)
EXTENDS StateTable

CONSTANTS
    PacketKind,     \* kinds of the packets that arrive
    TasiSession,    \* sessions the application sends data on
    TimerSession    \* sessions the timers release

ASSUME ConnStateAssumption ==
    /\ PacketKind \subseteq Kind
    /\ TasiSession \subseteq Session
    /\ TimerSession \subseteq Session

VARIABLES
    fsm_meta,   \* rxTcpFSM: none in LOAD, in TRANSITION the packet fsm_meta
    tai_close,  \* tx_app_if: none in IDLE, in CLOSE_CONN tai_closeSessionID
    tai_state   \* tasi_metaLoader: READ_REQUEST or READ_META

clientVars == <<fsm_meta, tai_close, tai_state>>
connVars   == <<stVars, clientVars>>

FsmMeta == [sessionID : Session, kind : PacketKind]

Init ==
    /\ StInit
    /\ fsm_meta = {}
    /\ tai_close = {}
    /\ tai_state = "READ_REQUEST"

-----------------------------------------------------------------------------
\* LOAD: take the next packet with its session and read the session's state.
RxLoad(m) ==
    /\ fsm_meta = {} /\ NotFull(rxReq)
    /\ fsm_meta' = {m}
    /\ rxReq' = Append(rxReq, ReadQuery(m.sessionID))
    /\ UNCHANGED <<state_table, rxLock, txLock, rxRsp, rxHeld, txPort, tasiPort,
                   timerPort, slRel, tai_close, tai_state>>

\* Mutant of RxTransition: a state that does not change is not written back.
RxTransitionNoWriteBack ==
    /\ rxRsp # <<>> /\ NotFull(rxReq)
    /\ \E m \in fsm_meta : \E st \in RxNext[m.kind][Head(rxRsp)] :
          rxReq' = IF st = Head(rxRsp) THEN rxReq
                   ELSE Append(rxReq, WriteQuery(m.sessionID, st))
    /\ rxRsp' = Tail(rxRsp)
    /\ fsm_meta' = {}
    /\ UNCHANGED <<state_table, rxLock, txLock, rxHeld, txPort, tasiPort, timerPort,
                   slRel, tai_close, tai_state>>

\* TRANSITION: every path of the switch ends in one write, which also
\* releases the lock.
RxTransition ==
    /\ rxRsp # <<>> /\ NotFull(rxReq)
    /\ \E m \in fsm_meta : \E st \in RxNext[m.kind][Head(rxRsp)] :
          rxReq' = Append(rxReq, WriteQuery(m.sessionID, st))
    /\ rxRsp' = Tail(rxRsp)
    /\ fsm_meta' = {}
    /\ UNCHANGED <<state_table, rxLock, txLock, rxHeld, txPort, tasiPort, timerPort,
                   slRel, tai_close, tai_state>>

-----------------------------------------------------------------------------
\* IDLE, lookup reply with a hit: the session becomes SYN_SENT without having
\* been read, whatever its state.
TxOpen(s) ==
    /\ tai_close = {} /\ NotFull(txReq)
    /\ txReq' = Append(txReq, WriteQuery(s, "SYN_SENT"))
    /\ UNCHANGED <<state_table, rxLock, txLock, rxPort, txRsp, txHeld, tasiPort,
                   timerPort, slRel, clientVars>>

\* IDLE, close request of the application: read the state.
TxCloseRequest(s) ==
    /\ tai_close = {} /\ NotFull(txReq)
    /\ tai_close' = {s}
    /\ txReq' = Append(txReq, ReadQuery(s))
    /\ UNCHANGED <<state_table, rxLock, txLock, rxPort, txRsp, txHeld, tasiPort,
                   timerPort, slRel, fsm_meta, tai_state>>

\* CLOSE_CONN: FIN_WAIT_1 if the state allows a FIN, else release the lock.
TxCloseConn ==
    /\ txRsp # <<>> /\ NotFull(txReq)
    /\ \E s \in tai_close :
          txReq' = Append(txReq, WriteQuery(s, CloseTarget(Head(txRsp))))
    /\ txRsp' = Tail(txRsp)
    /\ tai_close' = {}
    /\ UNCHANGED <<state_table, rxLock, txLock, rxPort, txHeld, tasiPort, timerPort,
                   slRel, fsm_meta, tai_state>>

-----------------------------------------------------------------------------
\* READ_REQUEST of tasi_metaLoader: ask for the state of the session the
\* application wants to send on ...
TasiRequest(s) ==
    /\ tai_state = "READ_REQUEST" /\ NotFull(tasiReq)
    /\ tasiReq' = Append(tasiReq, s)
    /\ tai_state' = "READ_META"
    /\ UNCHANGED <<state_table, rxLock, txLock, rxPort, txPort, tasiRsp, timerPort,
                   slRel, fsm_meta, tai_close>>

\* ... and READ_META: take the answer, which decides whether data is accepted.
TasiMeta ==
    /\ tai_state = "READ_META" /\ tasiRsp # <<>>
    /\ tasiRsp' = Tail(tasiRsp)
    /\ tai_state' = "READ_REQUEST"
    /\ UNCHANGED <<state_table, rxLock, txLock, rxPort, txPort, tasiReq, timerPort,
                   slRel, fsm_meta, tai_close>>

\* A timer has expired and releases the session.
TimerRelease(s) ==
    /\ NotFull(relReq)
    /\ relReq' = Append(relReq, s)
    /\ UNCHANGED <<state_table, rxLock, txLock, rxPort, txPort, tasiPort, closeHeld,
                   slRel, clientVars>>

\* The session lookup takes a released session.
LookupTakesRelease ==
    /\ slRel # <<>>
    /\ slRel' = Tail(slRel)
    /\ UNCHANGED <<state_table, rxLock, txLock, rxPort, txPort, tasiPort, timerPort,
                   clientVars>>

-----------------------------------------------------------------------------
TableNext == StateTableStep /\ UNCHANGED clientVars

ClientNext ==
    \/ \E m \in FsmMeta : RxLoad(m)
    \/ RxTransition
    \/ \E s \in Session : TxOpen(s) \/ TxCloseRequest(s)
    \/ TxCloseConn
    \/ \E s \in TasiSession : TasiRequest(s)
    \/ TasiMeta
    \/ \E s \in TimerSession : TimerRelease(s)
    \/ LookupTakesRelease

Next == TableNext \/ ClientNext

Spec == Init /\ [][Next]_connVars

(***************************************************************************)
(* Fairness.  Every function is a pipeline that is started in every clock  *)
(* cycle, so each of its steps that stays possible is taken.  The branches *)
(* of the table need strong fairness: a branch can be hidden by an earlier *)
(* one, but a client of the table waits for the answer to its request      *)
(* before it makes the next one, which takes several cycles, so that there *)
(* are cycles in which the earlier branches have nothing to do.            *)
(***************************************************************************)
Fairness ==
    /\ WF_connVars(RxTransition)
    /\ WF_connVars(TxCloseConn)
    /\ WF_connVars(TasiMeta)
    /\ WF_connVars(LookupTakesRelease)
    /\ WF_connVars(TableNext)
    /\ SF_connVars(TasiBranch /\ UNCHANGED clientVars)
    /\ SF_connVars(RxBranch /\ UNCHANGED clientVars)
    /\ SF_connVars(TimerBranch /\ UNCHANGED clientVars)
    /\ SF_connVars(TxWaitBranch /\ UNCHANGED clientVars)
    /\ SF_connVars(RxWaitBranch /\ UNCHANGED clientVars)

FairSpec == Spec /\ Fairness

-----------------------------------------------------------------------------
(***************************************************************************)
(* Properties                                                              *)
(***************************************************************************)
\* Every variable has its type.
TypeOK ==
    /\ state_table \in [Session -> SessionState]
    /\ rxLock \in SUBSET Session /\ txLock \in SUBSET Session
    /\ rxHeld \in SUBSET StateQuery /\ txHeld \in SUBSET StateQuery
    /\ closeHeld \in SUBSET Session
    /\ rxReq \in Seq(StateQuery) /\ rxRsp \in Seq(SessionState)
    /\ txReq \in Seq(StateQuery) /\ txRsp \in Seq(SessionState)
    /\ tasiReq \in Seq(Session) /\ tasiRsp \in Seq(SessionState)
    /\ relReq \in Seq(Session) /\ slRel \in Seq(Session)
    /\ fsm_meta \in SUBSET FsmMeta
    /\ tai_close \in SUBSET Session
    /\ tai_state \in {"READ_REQUEST", "READ_META"}

\* The RX engine and tx_app_if never hold the lock of the same session.
LockExclusion == rxLock \intersect txLock = {}

\* A state that a client has been given and has not yet decided upon is
\* still the session's state: nobody, timers included, changes a session
\* between the read and the write of a client.
SnapshotsCurrent ==
    /\ rxRsp # <<>> => \E m \in fsm_meta : rxRsp = <<state_table[m.sessionID]>>
    /\ txRsp # <<>> => \E s \in tai_close : txRsp = <<state_table[s]>>

\* A closed session is not brought back by a write that was decided on an
\* older state: the only ways out of CLOSED are a SYN and an active open.
NoResurrection ==
    [][\A s \in Session :
          state_table[s] = "CLOSED" =>
              state_table'[s] \in {"CLOSED", "SYN_RECEIVED", "SYN_SENT"}]_connVars

\* A session that has sent its FIN never returns to a state in which the
\* application may send data, unless a new connection is opened on it.
FinIsFinal ==
    [][\A s \in Session :
          state_table[s] \in {"FIN_WAIT_1", "CLOSING", "TIME_WAIT", "LAST_ACK"} =>
              state_table'[s] \notin {"ESTABLISHED", "SYN_RECEIVED"}]_connVars

\* The composition implements atomic updates of the session states.
Atomic == INSTANCE AtomicStates WITH state <- state_table, releases <- slRel

AtomicUpdates == Atomic!Spec

(***************************************************************************)
(* The two locks and the accesses held back never block each other.        *)
(* An access that is held back is served only in a cycle in which no       *)
(* request is waiting and the other client has its lock released, so       *)
(* requests that follow each other without a pause can starve it, as they  *)
(* can starve a client of lower priority.  Each property therefore assumes *)
(* that the clients it competes with fall silent in the end.               *)
(***************************************************************************)
OpensStop   == <>[][~ \E s \in Session : TxOpen(s)]_connVars
ClosesStop  == <>[][~ \E s \in Session : TxCloseRequest(s)]_connVars
PacketsStop == <>[][~ \E m \in FsmMeta : RxLoad(m)]_connVars
TimersStop  == <>[][~ \E s \in TimerSession : TimerRelease(s)]_connVars

\* A packet that rxTcpFSM has loaded gets its transition.
PacketsServed ==
    OpensStop /\ ClosesStop /\ TimersStop => (fsm_meta # {} ~> fsm_meta = {})

\* A close request of the application is decided.
ClosesServed == PacketsStop /\ TimersStop => (tai_close # {} ~> tai_close = {})

\* A send request of the application gets its answer.
SendsServed == OpensStop => (tai_state = "READ_META" ~> tai_state = "READ_REQUEST")
=============================================================================
