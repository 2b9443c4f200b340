----------------------------- MODULE StateTable -----------------------------
(***************************************************************************)
(* state_table (state_table.cpp): the TCP state of every session and the   *)
(* one-cycle arbiter that serves its three clients.                        *)
(*                                                                         *)
(* rxTcpFSM and tx_app_if read a state, decide, and write it back.  A read *)
(* takes a lock on the session, the write releases it; an access to a      *)
(* session that the other client has locked waits inside the module, and   *)
(* so does the release of a session by a timer.  tasi_metaLoader reads     *)
(* without a lock.                                                         *)
(*                                                                         *)
(* One action per branch of the function's if/else-if chain: a branch is   *)
(* taken only when the conditions of all earlier branches are false.       *)
(***************************************************************************)
EXTENDS TcpFsm, Naturals, Sequences

CONSTANTS
    MAX_SESSIONS,   \* number of sessions the tables have room for
    Depth           \* depth of the streams around the state table

ASSUME StateTableAssumption ==
    /\ MAX_SESSIONS \in Nat \ {0}
    /\ Depth \in Nat /\ Depth >= 2

Session == 0 .. MAX_SESSIONS - 1

\* stateQuery: a read has state CLOSED and write FALSE.
StateQuery == [sessionID : Session, state : SessionState, write : BOOLEAN]

ReadQuery(s)      == [sessionID |-> s, state |-> "CLOSED", write |-> FALSE]
WriteQuery(s, st) == [sessionID |-> s, state |-> st, write |-> TRUE]

VARIABLES
    state_table,    \* the table
    rxLock,         \* the session locked by the RX engine, as a set of at most one:
                    \*   stt_rxSessionID if stt_rxSessionLocked
    txLock,         \* the same for tx_app_if: stt_txSessionID, stt_txSessionLocked
    rxHeld,         \* the access of the RX engine held back, at most one:
                    \*   stt_rxAccess if stt_rxWait
    txHeld,         \* stt_txAccess if stt_txWait
    closeHeld,      \* stt_closeSessionID if stt_closeWait
    rxReq, rxRsp,   \* rxEng2stateTable_upd_req, stateTable2rxEng_upd_rsp
    txReq, txRsp,   \* txApp2stateTable_upd_req, stateTable2TxApp_upd_rsp
    tasiReq,        \* txApp2stateTable_req
    tasiRsp,        \* stateTable2txApp_rsp
    relReq,         \* timer2stateTable_releaseState
    slRel           \* stateTable2sLookup_releaseSession

rxPort    == <<rxReq, rxRsp, rxHeld>>
txPort    == <<txReq, txRsp, txHeld>>
tasiPort  == <<tasiReq, tasiRsp>>
timerPort == <<relReq, closeHeld>>
stVars    == <<state_table, rxLock, txLock, rxPort, txPort, tasiPort, timerPort, slRel>>

-----------------------------------------------------------------------------
\* All statics are zero-initialised: every session is CLOSED and unlocked.
StInit ==
    /\ state_table = [s \in Session |-> "CLOSED"]
    /\ rxLock = {} /\ txLock = {}
    /\ rxHeld = {} /\ txHeld = {} /\ closeHeld = {}
    /\ rxReq = <<>> /\ rxRsp = <<>>
    /\ txReq = <<>> /\ txRsp = <<>>
    /\ tasiReq = <<>> /\ tasiRsp = <<>>
    /\ relReq = <<>> /\ slRel = <<>>

-----------------------------------------------------------------------------
NotFull(q) == Len(q) < Depth

\* The conditions of the branches, in their order.
TxReady        == txReq # <<>> /\ NotFull(txRsp) /\ txHeld = {}
TasiReady      == tasiReq # <<>> /\ NotFull(tasiRsp)
RxReady        == rxReq # <<>> /\ NotFull(rxRsp) /\ NotFull(slRel) /\ rxHeld = {}
TimerReady     == relReq # <<>> /\ NotFull(slRel) /\ closeHeld = {}
TxWaitReady    == txHeld # {} /\ NotFull(txRsp)
RxWaitReady    == rxHeld # {} /\ NotFull(rxRsp) /\ NotFull(slRel)
CloseWaitReady == closeHeld # {} /\ NotFull(slRel)

\* No client has a request that can be served at once.
NoRequest == ~TxReady /\ ~TasiReady /\ ~RxReady /\ ~TimerReady

-----------------------------------------------------------------------------
\* The table with the state of one access written into it.
Written(q) ==
    IF q.write THEN [state_table EXCEPT ![q.sessionID] = q.state] ELSE state_table

\* Mutant of TxPerform: a write keeps the lock.
TxPerformKeepsLock(q) ==
    /\ state_table' = Written(q)
    /\ txLock' = IF q.write THEN txLock ELSE {q.sessionID}
    /\ txRsp' = IF q.write THEN txRsp ELSE Append(txRsp, state_table[q.sessionID])

\* What an access of tx_app_if does once nothing stands in its way: every
\* read locks the session, every write unlocks.
TxPerform(q) ==
    /\ state_table' = Written(q)
    /\ txLock' = IF q.write THEN {} ELSE {q.sessionID}
    /\ txRsp' = IF q.write THEN txRsp ELSE Append(txRsp, state_table[q.sessionID])

\* Mutant of RxPerform: the write of CLOSED does not release the session.
RxPerformNoRelease(q) ==
    /\ state_table' = Written(q)
    /\ rxLock' = IF q.write THEN {} ELSE {q.sessionID}
    /\ rxRsp' = IF q.write THEN rxRsp ELSE Append(rxRsp, state_table[q.sessionID])
    /\ UNCHANGED slRel

\* The same for the RX engine; its write of CLOSED also releases the session.
RxPerform(q) ==
    /\ state_table' = Written(q)
    /\ rxLock' = IF q.write THEN {} ELSE {q.sessionID}
    /\ rxRsp' = IF q.write THEN rxRsp ELSE Append(rxRsp, state_table[q.sessionID])
    /\ slRel' = IF q.write /\ q.state = "CLOSED" THEN Append(slRel, q.sessionID)
                                                 ELSE slRel

ClosePerform(s) ==
    /\ state_table' = [state_table EXCEPT ![s] = "CLOSED"]
    /\ slRel' = Append(slRel, s)

\* TX App If: serve the access, or hold it back while the RX engine has the lock.
TxBranch ==
    /\ TxReady
    /\ txReq' = Tail(txReq)
    /\ LET q == Head(txReq)
       IN  IF q.sessionID \in rxLock
           THEN txHeld' = {q} /\ UNCHANGED <<state_table, txLock, txRsp>>
           ELSE TxPerform(q) /\ UNCHANGED txHeld
    /\ UNCHANGED <<rxLock, rxPort, tasiPort, timerPort, slRel>>

\* Mutant of TasiBranch: only a session that may send gets an answer.
TasiBranchEstablished ==
    /\ ~TxReady /\ TasiReady
    /\ tasiReq' = Tail(tasiReq)
    /\ tasiRsp' = IF state_table[Head(tasiReq)] = "ESTABLISHED"
                  THEN Append(tasiRsp, "ESTABLISHED") ELSE tasiRsp
    /\ UNCHANGED <<state_table, rxLock, txLock, rxPort, txPort, timerPort, slRel>>

\* TX App Stream If: a read that takes no lock.
TasiBranch ==
    /\ ~TxReady /\ TasiReady
    /\ tasiReq' = Tail(tasiReq)
    /\ tasiRsp' = Append(tasiRsp, state_table[Head(tasiReq)])
    /\ UNCHANGED <<state_table, rxLock, txLock, rxPort, txPort, timerPort, slRel>>

\* Mutant of RxBranch: the lock of tx_app_if is not looked at.
RxBranchIgnoresLock ==
    /\ ~TxReady /\ ~TasiReady /\ RxReady
    /\ rxReq' = Tail(rxReq)
    /\ RxPerform(Head(rxReq))
    /\ UNCHANGED <<rxHeld, txLock, txPort, tasiPort, timerPort>>

\* RX Engine: serve the access, or hold it back while tx_app_if has the lock.
RxBranch ==
    /\ ~TxReady /\ ~TasiReady /\ RxReady
    /\ rxReq' = Tail(rxReq)
    /\ LET q == Head(rxReq)
       IN  IF q.sessionID \in txLock
           THEN rxHeld' = {q} /\ UNCHANGED <<state_table, rxLock, rxRsp, slRel>>
           ELSE RxPerform(q) /\ UNCHANGED rxHeld
    /\ UNCHANGED <<txLock, txPort, tasiPort, timerPort>>

\* Mutant of TimerBranch: the lock of the RX engine is not looked at.
TimerBranchIgnoresRx ==
    /\ ~TxReady /\ ~TasiReady /\ ~RxReady /\ TimerReady
    /\ relReq' = Tail(relReq)
    /\ LET s == Head(relReq)
       IN  IF s \in txLock
           THEN closeHeld' = {s} /\ UNCHANGED <<state_table, slRel>>
           ELSE ClosePerform(s) /\ UNCHANGED closeHeld
    /\ UNCHANGED <<rxLock, txLock, rxPort, txPort, tasiPort>>

\* Timer release: close the session, or wait while anyone has it locked.
TimerBranch ==
    /\ ~TxReady /\ ~TasiReady /\ ~RxReady /\ TimerReady
    /\ relReq' = Tail(relReq)
    /\ LET s == Head(relReq)
       IN  IF s \in rxLock \union txLock
           THEN closeHeld' = {s} /\ UNCHANGED <<state_table, slRel>>
           ELSE ClosePerform(s) /\ UNCHANGED closeHeld
    /\ UNCHANGED <<rxLock, txLock, rxPort, txPort, tasiPort>>

\* The access of tx_app_if that was held back.  While it is still locked out
\* the branch is taken and does nothing, and so hides the branches below it.
TxWaitBranch ==
    /\ NoRequest /\ TxWaitReady
    /\ \E q \in txHeld : q.sessionID \notin rxLock /\ TxPerform(q)
    /\ txHeld' = {}
    /\ UNCHANGED <<txReq, rxLock, rxPort, tasiPort, timerPort, slRel>>

RxWaitBranch ==
    /\ NoRequest /\ ~TxWaitReady /\ RxWaitReady
    /\ \E q \in rxHeld : q.sessionID \notin txLock /\ RxPerform(q)
    /\ rxHeld' = {}
    /\ UNCHANGED <<rxReq, txLock, txPort, tasiPort, timerPort>>

\* Mutant of CloseWaitBranch: the lock of tx_app_if is not looked at.
CloseWaitBranchIgnoresTx ==
    /\ NoRequest /\ ~TxWaitReady /\ ~RxWaitReady /\ CloseWaitReady
    /\ \E s \in closeHeld : s \notin rxLock /\ ClosePerform(s)
    /\ closeHeld' = {}
    /\ UNCHANGED <<relReq, rxLock, txLock, rxPort, txPort, tasiPort>>

CloseWaitBranch ==
    /\ NoRequest /\ ~TxWaitReady /\ ~RxWaitReady /\ CloseWaitReady
    /\ \E s \in closeHeld : s \notin rxLock \union txLock /\ ClosePerform(s)
    /\ closeHeld' = {}
    /\ UNCHANGED <<relReq, rxLock, txLock, rxPort, txPort, tasiPort>>

StateTableStep ==
    \/ TxBranch \/ TasiBranch \/ RxBranch \/ TimerBranch
    \/ TxWaitBranch \/ RxWaitBranch \/ CloseWaitBranch
=============================================================================
