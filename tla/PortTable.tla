------------------------------ MODULE PortTable ------------------------------
(***************************************************************************)
(* port_table (port_table.cpp): the ports the application listens on and   *)
(* the ports in use by connections the application has opened.             *)
(*                                                                         *)
(* The lower half of the ports can be listened on, the upper half is given *)
(* out by free_port_table to tx_app_if.  The RX engine asks about ports of *)
(* both halves; check_in_multiplexer sends each question to the table that *)
(* knows and check_out_multiplexer collects the answers in order.          *)
(*                                                                         *)
(* A port is a number of two bytes.  BYTE is 256 in the code; the RX       *)
(* engine and the session lookup know a port by the bytes as they are in a *)
(* packet, which is the number with its bytes swapped.                     *)
(***************************************************************************)
EXTENDS Integers, Sequences, FiniteSets

CONSTANTS
    BYTE,           \* number of values of a byte
    CheckDepth,     \* depth of the streams to and from the two tables
    DstDepth,       \* depth of pt_dstFifo
    PortDepth,      \* depth of portTable2txApp_port_rsp
    ReleaseDepth,   \* depth of sLookup2portTable_releasePort
    MAX_SESSIONS,   \* number of connections at a time
    CheckPort,      \* ports of the packets, as they are in the packets
    ListenPort,     \* ports the application asks to listen on
    LookupsFail     \* whether the session lookup may refuse a connection

ASSUME PortTableAssumption ==
    /\ BYTE \in Nat \ {0} /\ BYTE % 2 = 0
    /\ {CheckDepth, DstDepth, PortDepth, ReleaseDepth} \subseteq Nat \ {0}
    /\ MAX_SESSIONS \in Nat
    /\ CheckPort \union ListenPort \subseteq 0 .. BYTE * BYTE - 1
    /\ LookupsFail \in BOOLEAN

Port  == 0 .. BYTE * BYTE - 1
HALF  == (BYTE * BYTE) \div 2       \* 32768
Index == 0 .. HALF - 1              \* the 15 bits that index a table

\* byteSwap16
Swap(p) == (p % BYTE) * BYTE + p \div BYTE

VARIABLES
    listeningPortTable,
    freePortTable,      \* TRUE: the port is in use
    pt_cursor,
    listenReq, listenRsp,   \* pt_portCheckListening_req_fifo and _rsp_fifo
    usedReq, usedRsp,       \* pt_portCheckUsed_req_fifo and _rsp_fifo
    dstFifo,            \* pt_dstFifo
    cm_fsmState,        \* check_out_multiplexer
    portRsp,            \* portTable2txApp_port_rsp
    releasePort,        \* sLookup2portTable_releasePort
    conns,              \* the own port of every connection opened, as in its packets
    asked               \* history: the questions not answered yet, each with the
                        \*   values its table entry has had since it was asked

checkVars == <<listenReq, listenRsp, usedReq, usedRsp, dstFifo, cm_fsmState>>
vars == <<listeningPortTable, freePortTable, pt_cursor, checkVars, portRsp, releasePort,
          conns, asked>>

Init ==
    /\ listeningPortTable = [i \in Index |-> FALSE]
    /\ freePortTable = [i \in Index |-> FALSE]
    /\ pt_cursor = 0
    /\ listenReq = <<>> /\ listenRsp = <<>> /\ usedReq = <<>> /\ usedRsp = <<>>
    /\ dstFifo = <<>> /\ cm_fsmState = "READ_DST"
    /\ portRsp = <<>> /\ releasePort = <<>>
    /\ conns = {}
    /\ asked = <<>>

\* Whether packets for port p (in host order) are let in.
Open(listening, used, p) == IF p < HALF THEN listening[p] ELSE used[p - HALF]

\* The questions that are waiting see what becomes of their entries.
Observe ==
    asked' = [i \in DOMAIN asked |->
        [asked[i] EXCEPT !.values =
            @ \union {Open(listeningPortTable', freePortTable', asked[i].port)}]]

-----------------------------------------------------------------------------
\* Mutant of AskCheck: the answer of the upper half is not announced.
AskCheckUnannounced(p) ==
    /\ Len(listenReq) < CheckDepth /\ Len(usedReq) < CheckDepth /\ Len(dstFifo) < DstDepth
    /\ LET port == Swap(p)
       IN  /\ IF port < HALF
              THEN /\ listenReq' = Append(listenReq, port)
                   /\ dstFifo' = Append(dstFifo, "LT")
                   /\ UNCHANGED usedReq
              ELSE /\ usedReq' = Append(usedReq, port % HALF)
                   /\ UNCHANGED <<listenReq, dstFifo>>
           /\ asked' = Append(asked, [port |-> port, values |-> {Open(listeningPortTable, freePortTable, port)}])
    /\ UNCHANGED <<listeningPortTable, freePortTable, pt_cursor, listenRsp, usedRsp,
                   cm_fsmState, portRsp, releasePort, conns>>

\* check_in_multiplexer: a packet's port, with its bytes put in order.
AskCheck(p) ==
    /\ Len(listenReq) < CheckDepth /\ Len(usedReq) < CheckDepth /\ Len(dstFifo) < DstDepth
    /\ LET port == Swap(p)
       IN  /\ IF port < HALF
              THEN /\ listenReq' = Append(listenReq, port)
                   /\ dstFifo' = Append(dstFifo, "LT")
                   /\ UNCHANGED usedReq
              ELSE /\ usedReq' = Append(usedReq, port % HALF)
                   /\ dstFifo' = Append(dstFifo, "FT")
                   /\ UNCHANGED listenReq
           /\ asked' = Append(asked, [port |-> port, values |-> {Open(listeningPortTable, freePortTable, port)}])
    /\ UNCHANGED <<listeningPortTable, freePortTable, pt_cursor, listenRsp, usedRsp,
                   cm_fsmState, portRsp, releasePort, conns>>

\* check_out_multiplexer: which table the next answer comes from ...
ReadDst ==
    /\ cm_fsmState = "READ_DST" /\ dstFifo # <<>>
    /\ cm_fsmState' = IF Head(dstFifo) = "LT" THEN "READ_LISTENING" ELSE "READ_USED"
    /\ dstFifo' = Tail(dstFifo)
    /\ UNCHANGED <<listeningPortTable, freePortTable, pt_cursor, listenReq, listenRsp,
                   usedReq, usedRsp, portRsp, releasePort, conns, asked>>

\* Mutant of AnswerListening: the next answer is taken from the same table.
AnswerListeningAgain ==
    /\ cm_fsmState = "READ_LISTENING" /\ listenRsp # <<>>
    /\ listenRsp' = Tail(listenRsp)
    /\ asked' = Tail(asked)
    /\ UNCHANGED <<listeningPortTable, freePortTable, pt_cursor, listenReq, usedReq,
                   usedRsp, dstFifo, cm_fsmState, portRsp, releasePort, conns>>

\* ... and the answer to the RX engine.
AnswerListening ==
    /\ cm_fsmState = "READ_LISTENING" /\ listenRsp # <<>>
    /\ listenRsp' = Tail(listenRsp)
    /\ cm_fsmState' = "READ_DST"
    /\ asked' = Tail(asked)
    /\ UNCHANGED <<listeningPortTable, freePortTable, pt_cursor, listenReq, usedReq,
                   usedRsp, dstFifo, portRsp, releasePort, conns>>

AnswerUsed ==
    /\ cm_fsmState = "READ_USED" /\ usedRsp # <<>>
    /\ usedRsp' = Tail(usedRsp)
    /\ cm_fsmState' = "READ_DST"
    /\ asked' = Tail(asked)
    /\ UNCHANGED <<listeningPortTable, freePortTable, pt_cursor, listenReq, listenRsp,
                   usedReq, dstFifo, portRsp, releasePort, conns>>

-----------------------------------------------------------------------------
\* listening_port_table: the application asks to listen on p.  The request is
\* refused if p is in the upper half or is listened on.
Listen(p) ==
    /\ listeningPortTable' =
           IF ~listeningPortTable[p % HALF] /\ p < HALF
           THEN [listeningPortTable EXCEPT ![p] = TRUE] ELSE listeningPortTable
    /\ UNCHANGED <<freePortTable, pt_cursor, checkVars, portRsp, releasePort, conns>>
    /\ Observe

CheckListening ==
    /\ listenReq # <<>> /\ Len(listenRsp) < CheckDepth
    /\ listenRsp' = Append(listenRsp, listeningPortTable[Head(listenReq)])
    /\ listenReq' = Tail(listenReq)
    /\ UNCHANGED <<listeningPortTable, freePortTable, pt_cursor, usedReq, usedRsp, dstFifo,
                   cm_fsmState, portRsp, releasePort, conns, asked>>

-----------------------------------------------------------------------------
(***************************************************************************)
(* free_port_table.  The cursor moves in every cycle.                      *)
(***************************************************************************)
MoveCursor == pt_cursor' = (pt_cursor + 1) % HALF

\* A port is released.  The stream holds it as it is in the packets, and it is
\* used as it is.
ReleasePort ==
    /\ releasePort # <<>>
    /\ LET currPort == Head(releasePort)
       IN  freePortTable' = IF currPort >= HALF
                            THEN [freePortTable EXCEPT ![currPort % HALF] = FALSE]
                            ELSE freePortTable
    /\ releasePort' = Tail(releasePort)
    /\ MoveCursor
    /\ UNCHANGED <<listeningPortTable, checkVars, portRsp, conns>>
    /\ Observe

CheckUsed ==
    /\ releasePort = <<>>
    /\ usedReq # <<>> /\ Len(usedRsp) < CheckDepth
    /\ usedRsp' = Append(usedRsp, freePortTable[Head(usedReq)])
    /\ usedReq' = Tail(usedReq)
    /\ MoveCursor
    /\ UNCHANGED <<listeningPortTable, freePortTable, listenReq, listenRsp, dstFifo,
                   cm_fsmState, portRsp, releasePort, conns, asked>>

\* Mutant of Idle: the stream to tx_app_if is not checked for room.
IdleOverfills ==
    /\ releasePort = <<>>
    /\ usedReq = <<>> \/ Len(usedRsp) = CheckDepth
    /\ IF ~freePortTable[pt_cursor]
       THEN /\ freePortTable' = [freePortTable EXCEPT ![pt_cursor] = TRUE]
            /\ portRsp' = Append(portRsp, HALF + pt_cursor)
       ELSE UNCHANGED <<freePortTable, portRsp>>
    /\ MoveCursor
    /\ UNCHANGED <<listeningPortTable, checkVars, releasePort, conns>>
    /\ Observe

\* With nothing else to do: the port at the cursor, if it is free, is marked
\* and kept ready for tx_app_if.
Idle ==
    /\ releasePort = <<>>
    /\ usedReq = <<>> \/ Len(usedRsp) = CheckDepth
    /\ IF ~freePortTable[pt_cursor] /\ Len(portRsp) < PortDepth
       THEN /\ freePortTable' = [freePortTable EXCEPT ![pt_cursor] = TRUE]
            /\ portRsp' = Append(portRsp, HALF + pt_cursor)
       ELSE UNCHANGED <<freePortTable, portRsp>>
    /\ MoveCursor
    /\ UNCHANGED <<listeningPortTable, checkVars, releasePort, conns>>
    /\ Observe

-----------------------------------------------------------------------------
(***************************************************************************)
(* The users of the ports: tx_app_if puts the swapped port into the tuple  *)
(* of a new connection, and session_lookup_controller returns the port of  *)
(* the tuple when the connection is closed.                                *)
(***************************************************************************)
OpenConnection ==
    /\ portRsp # <<>> /\ Cardinality(conns) < MAX_SESSIONS
    /\ conns' = conns \union {Swap(Head(portRsp))}
    /\ portRsp' = Tail(portRsp)
    /\ UNCHANGED <<listeningPortTable, freePortTable, pt_cursor, checkVars, releasePort,
                   asked>>

\* The session lookup has no session for the connection: the application is
\* told, and nothing is done about the port.
OpenFails ==
    /\ LookupsFail
    /\ portRsp # <<>>
    /\ portRsp' = Tail(portRsp)
    /\ UNCHANGED <<listeningPortTable, freePortTable, pt_cursor, checkVars, releasePort,
                   conns, asked>>

CloseConnection ==
    /\ Len(releasePort) < ReleaseDepth
    /\ \E c \in conns :
          /\ conns' = conns \ {c}
          /\ releasePort' = Append(releasePort, c)
    /\ UNCHANGED <<listeningPortTable, freePortTable, pt_cursor, checkVars, portRsp, asked>>

-----------------------------------------------------------------------------
FreePortTable == ReleasePort \/ CheckUsed \/ Idle
CheckOut      == ReadDst \/ AnswerListening \/ AnswerUsed

Next ==
    \/ \E p \in CheckPort : AskCheck(p)
    \/ CheckOut
    \/ \E p \in ListenPort : Listen(p)
    \/ CheckListening
    \/ FreePortTable
    \/ OpenConnection \/ OpenFails \/ CloseConnection

Spec == Init /\ [][Next]_vars

\* Every function runs in every cycle; the free port table looks a port up in
\* a cycle in which there is nothing to release.
Fairness ==
    /\ WF_vars(CheckOut)
    /\ WF_vars(CheckListening)
    /\ WF_vars(FreePortTable) /\ SF_vars(CheckUsed)

FairSpec == Spec /\ Fairness

-----------------------------------------------------------------------------
(***************************************************************************)
(* Properties                                                              *)
(***************************************************************************)
\* Every variable has its type and the streams keep to their depths.
TypeOK ==
    /\ listeningPortTable \in [Index -> BOOLEAN] /\ freePortTable \in [Index -> BOOLEAN]
    /\ pt_cursor \in Index
    /\ \A q \in {listenReq, usedReq} : q \in Seq(Index) /\ Len(q) <= CheckDepth
    /\ \A q \in {listenRsp, usedRsp} : q \in Seq(BOOLEAN) /\ Len(q) <= CheckDepth
    /\ dstFifo \in Seq({"LT", "FT"}) /\ Len(dstFifo) <= DstDepth
    /\ cm_fsmState \in {"READ_DST", "READ_LISTENING", "READ_USED"}
    /\ portRsp \in Seq(HALF .. BYTE * BYTE - 1) /\ Len(portRsp) <= PortDepth
    /\ releasePort \in Seq(Port) /\ conns \subseteq Port
    /\ asked \in Seq([port : Port, values : SUBSET BOOLEAN])

\* Answers reach the RX engine in the order of its questions although they
\* come from two tables: each is a value the entry of the port that was asked
\* for has had since the question was put.
ChecksInOrder ==
    [][/\ AnswerListening => Head(listenRsp) \in Head(asked).values
       /\ AnswerUsed      => Head(usedRsp) \in Head(asked).values]_vars

\* Every question of the RX engine is answered, unless the releases of ports
\* follow each other without a pause.
ChecksAnswered ==
    /\ []<>(releasePort = <<>>)
    /\ <>[][~ \E p \in CheckPort : AskCheck(p)]_vars
    => <>[](asked = <<>>)

\* A port that is kept ready for a new connection is free: it is not the port
\* of a connection, nor of another one that is kept ready.
PortsExclusive ==
    \A i \in DOMAIN portRsp :
        /\ Swap(portRsp[i]) \notin conns
        /\ \A j \in DOMAIN portRsp : portRsp[i] = portRsp[j] => i = j
=============================================================================
