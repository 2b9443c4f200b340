-------------------------------- MODULE TxSar --------------------------------
(***************************************************************************)
(* One connection as the functions of the sending side share it: its entry *)
(* in tx_sar_table (tx_sar_table.cpp), its state, and the events on their  *)
(* way through event_engine to the TX engine.                              *)
(*                                                                         *)
(* A position is a sequence number that is not reduced: 0 is that of the   *)
(* SYN, 1 that of the first byte.  The send buffer of a connection has     *)
(* SPACE places (2^16 in the code), a byte lies at its position modulo     *)
(* SPACE, and differences of 16 bits are taken modulo SPACE.               *)
(***************************************************************************)
EXTENDS Integers, Sequences

CONSTANTS
    SPACE,          \* places of the send buffer
    MSS,            \* bytes of a full segment
    Length,         \* bytes the application has to send
    CongWindow,     \* congestion window at the start
    EventDepth      \* events between their sources and the TX engine

ASSUME TxSarAssumption ==
    /\ SPACE \in Nat /\ MSS \in 1 .. SPACE - 1
    /\ Length \in Nat /\ CongWindow \in 0 .. SPACE - 1
    /\ EventDepth \in Nat \ {0}

VARIABLES
    sar,            \* tx_table[id]
    tcpState,       \* state_table[id]
    events,         \* what event_engine has accepted and metaLoader has not read
    aborted         \* the retransmit timer has given the connection up

Ev(type, count) == [type |-> type, rt_count |-> count]

\* event_engine keeps the order in which it takes the events.
EventRoom  == Len(events) < EventDepth
Put(type, count) == events' = Append(events, Ev(type, count))

InitSar(window) ==
    [ackd |-> 0, not_ackd |-> 0, app |-> 0, recv_window |-> window,
     cong_window |-> CongWindow, count |-> 0, finReady |-> FALSE, finSent |-> FALSE]

Min(a, b) == IF a < b THEN a ELSE b

\* What tx_sar_table answers the TX engine, and the RX engine.
TxReply == [ackd |-> sar.ackd, not_ackd |-> sar.not_ackd, app |-> sar.app,
            min_window |-> Min(sar.cong_window, sar.recv_window),
            finReady |-> sar.finReady, finSent |-> sar.finSent]

RxReply == [prevAck |-> sar.ackd, nextByte |-> sar.not_ackd,
            cong_window |-> sar.cong_window, count |-> sar.count]

\* The TX engine sends the SYN at position p and initialises the entry.
Initialised(p) ==
    [sar EXCEPT !.not_ackd = p + 1, !.app = p + 1, !.ackd = p, !.cong_window = CongWindow,
                !.finReady = FALSE, !.finSent = FALSE]

\* The RX engine writes an acknowledgement.
Acked(ackd, window, cong, count) ==
    [sar EXCEPT !.ackd = ackd, !.recv_window = window, !.cong_window = cong,
                !.count = count]
=============================================================================
