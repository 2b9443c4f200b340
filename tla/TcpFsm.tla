------------------------------- MODULE TcpFsm -------------------------------
(***************************************************************************)
(* The TCP state machine of the offload engine as pure operators.          *)
(*                                                                         *)
(* RxOutcome is everything rxTcpFSM (rx_engine.cpp) does in one TRANSITION *)
(* step for one packet: the state it writes back and what it writes into   *)
(* every other stream.  CloseTarget is the state tx_app_if writes back for *)
(* a close request of the application.                                     *)
(*                                                                         *)
(* Sequence numbers are abstracted to the comparisons the code makes       *)
(* between the packet and the two SAR entries it has read (Relation).      *)
(***************************************************************************)
EXTENDS FiniteSets

\* The connection states.  CLOSE_WAIT does not exist and FIN_WAIT_2 is never
\* written, the enumeration keeps it.
SessionState == {"CLOSED", "SYN_SENT", "SYN_RECEIVED", "ESTABLISHED",
                 "FIN_WAIT_1", "FIN_WAIT_2", "CLOSING", "TIME_WAIT", "LAST_ACK"}

\* control_bits as the code's switch distinguishes them; OTHER is every
\* combination without RST that has no case of its own.
Kind == {"ACK", "SYN", "SYN_ACK", "FIN_ACK", "RST", "OTHER"}

\* A packet: its control bits and whether it has payload (length != 0).
Packet == [kind : Kind, payload : BOOLEAN]

(***************************************************************************)
(* How a packet compares with the session's SAR entries:                   *)
(*   ackNext   ackNumb = txSar.nextByte       (everything sent is ACKed)   *)
(*   ackPrev   ackNumb = txSar.prevAck                                     *)
(*   ackValid  ackNumb is in [prevAck, nextByte], modulo 2^32              *)
(*   dupLimit  counting this duplicate ACK reaches TcpMaxDupAcks           *)
(*   inOrder   seqNumb = rxSar.recvd                                       *)
(*   room      free_space > length                                         *)
(*   sameSyn   seqNumb + 1 = rxSar.recvd                                   *)
(***************************************************************************)
Relation ==
    {r \in [ackNext : BOOLEAN, ackPrev : BOOLEAN, ackValid : BOOLEAN,
            dupLimit : BOOLEAN, inOrder : BOOLEAN, room : BOOLEAN,
            sameSyn : BOOLEAN] :
        /\ r.ackNext \/ r.ackPrev => r.ackValid
        /\ ~(r.inOrder /\ r.sameSyn)}

(***************************************************************************)
(* What one step of the state machine writes.  "none" and FALSE mean that  *)
(* the stream is not written.                                              *)
(***************************************************************************)
Outcome ==
    [state      : SessionState,
     event      : {"none", "RT", "ACK", "ACK_NODELAY", "RST", "SYN_ACK",
                   "SYN_ACK_RT", "FIN"},
     notify     : {"none", "data", "data_closed", "closed"},
     drop       : {"none", "keep", "drop"},
     clearRt    : {"none", "restart", "stop"},
     clearProbe : BOOLEAN,
     setClose   : BOOLEAN,
     open       : {"none", "opened", "refused"},
     rxSar      : {"none", "advance", "init"},
     txSar      : BOOLEAN]

\* Only the state lock is released: the state is written back as it was read.
WriteBack(st) ==
    [state |-> st, event |-> "none", notify |-> "none", drop |-> "none",
     clearRt |-> "none", clearProbe |-> FALSE, setClose |-> FALSE,
     open |-> "none", rxSar |-> "none", txSar |-> FALSE]

DropPayload(p) == IF p.payload THEN "drop" ELSE "none"

-----------------------------------------------------------------------------
(***************************************************************************)
(* case 1: ACK                                                             *)
(***************************************************************************)
\* Mutant of AckState: the ACK of a FIN counts as the ACK of a SYN.
AckStateReopens(st, r) ==
    CASE r.ackNext /\ st \in {"SYN_RECEIVED", "FIN_WAIT_1"} -> "ESTABLISHED"
      [] r.ackNext /\ st = "CLOSING"      -> "TIME_WAIT"
      [] r.ackNext /\ st = "LAST_ACK"     -> "CLOSED"
      [] OTHER                            -> st

AckState(st, r) ==
    CASE r.ackNext /\ st = "SYN_RECEIVED" -> "ESTABLISHED"
      [] r.ackNext /\ st = "CLOSING"      -> "TIME_WAIT"
      [] r.ackNext /\ st = "LAST_ACK"     -> "CLOSED"
      [] OTHER                            -> st

AckClearRt(r) == IF r.ackNext THEN "stop" ELSE "none"

\* A duplicate ACK: nothing new is acknowledged although data is in flight.
DuplicateAck(r) == r.ackPrev /\ ~r.ackNext

AckEvent(p, r) ==
    CASE p.payload /\ r.inOrder /\ r.room                -> "ACK"
      [] p.payload /\ ~(r.inOrder /\ r.room)             -> "ACK_NODELAY"
      [] ~p.payload /\ DuplicateAck(r) /\ r.dupLimit     -> "RT"
      [] OTHER                                           -> "none"

AckOutcome(p, st, r) ==
    LET accept == p.payload /\ r.inOrder /\ r.room
    IN  IF st \in {"ESTABLISHED", "SYN_RECEIVED", "FIN_WAIT_1", "CLOSING", "LAST_ACK"}
        THEN [WriteBack(st) EXCEPT
                !.state      = AckState(st, r),
                !.event      = AckEvent(p, r),
                !.notify     = IF accept THEN "data" ELSE "none",
                !.drop       = IF accept THEN "keep" ELSE DropPayload(p),
                !.clearRt    = AckClearRt(r),
                !.clearProbe = ~DuplicateAck(r),
                !.setClose   = r.ackNext /\ st = "CLOSING",
                !.rxSar      = IF accept THEN "advance" ELSE "none",
                !.txSar      = r.ackValid]
        ELSE [WriteBack(st) EXCEPT
                !.event   = "RST",
                !.drop    = DropPayload(p),
                !.clearRt = AckClearRt(r)]

(***************************************************************************)
(* case 2: SYN                                                             *)
(***************************************************************************)
SynOutcome(st, r) ==
    CASE st \in {"CLOSED", "SYN_SENT"} ->
            [WriteBack(st) EXCEPT !.state = "SYN_RECEIVED", !.event = "SYN_ACK",
                                  !.rxSar = "init", !.txSar = TRUE]
      [] st = "SYN_RECEIVED" /\ r.sameSyn ->
            [WriteBack(st) EXCEPT !.event = "SYN_ACK_RT"]
      [] st = "SYN_RECEIVED" /\ ~r.sameSyn ->
            [WriteBack(st) EXCEPT !.state = "CLOSED", !.event = "RST"]
      [] OTHER ->
            [WriteBack(st) EXCEPT !.event = "ACK_NODELAY"]

(***************************************************************************)
(* case 3: SYN_ACK                                                         *)
(***************************************************************************)
\* Mutant of SynAckOutcome: a closed session is taken for one that is being opened.
SynAckOutcomeUnasked(st, r) ==
    LET clear == IF r.ackNext THEN "stop" ELSE "restart"
    IN  CASE st \in {"SYN_SENT", "CLOSED"} /\ r.ackNext ->
                [WriteBack(st) EXCEPT !.state = "ESTABLISHED", !.event = "ACK_NODELAY",
                                      !.clearRt = clear, !.open = "opened",
                                      !.rxSar = "init", !.txSar = TRUE]
          [] st = "SYN_SENT" /\ ~r.ackNext ->
                [WriteBack(st) EXCEPT !.state = "CLOSED", !.event = "RST",
                                      !.clearRt = clear]
          [] OTHER ->
                [WriteBack(st) EXCEPT !.event = "ACK_NODELAY", !.clearRt = clear]

SynAckOutcome(st, r) ==
    LET clear == IF r.ackNext THEN "stop" ELSE "restart"
    IN  CASE st = "SYN_SENT" /\ r.ackNext ->
                [WriteBack(st) EXCEPT !.state = "ESTABLISHED", !.event = "ACK_NODELAY",
                                      !.clearRt = clear, !.open = "opened",
                                      !.rxSar = "init", !.txSar = TRUE]
          [] st = "SYN_SENT" /\ ~r.ackNext ->
                [WriteBack(st) EXCEPT !.state = "CLOSED", !.event = "RST",
                                      !.clearRt = clear]
          [] OTHER ->
                [WriteBack(st) EXCEPT !.event = "ACK_NODELAY", !.clearRt = clear]

(***************************************************************************)
(* case 5: FIN with ACK.  A FIN that is not in order is not accepted.      *)
(***************************************************************************)
\* Mutant of FinState: the passive close of the RFC, whose state the table lacks.
FinStateCloseWait(st, r) ==
    CASE st = "ESTABLISHED"                 -> "CLOSE_WAIT"
      [] st # "ESTABLISHED" /\ r.ackNext    -> "TIME_WAIT"
      [] OTHER                              -> "CLOSING"

FinState(st, r) ==
    CASE st = "ESTABLISHED"                 -> "LAST_ACK"
      [] st # "ESTABLISHED" /\ r.ackNext    -> "TIME_WAIT"
      [] OTHER                              -> "CLOSING"

FinNotify(p, st) ==
    CASE p.payload                           -> "data_closed"
      [] ~p.payload /\ st = "ESTABLISHED"    -> "closed"
      [] OTHER                               -> "none"

FinOutcome(p, st, r) ==
    LET clear == IF r.ackNext THEN "stop" ELSE "restart"
    IN  IF st \in {"ESTABLISHED", "FIN_WAIT_1", "FIN_WAIT_2"} /\ r.inOrder
        THEN [state      |-> FinState(st, r),
              event      |-> IF st = "ESTABLISHED" THEN "FIN" ELSE "ACK",
              notify     |-> FinNotify(p, st),
              drop       |-> IF p.payload THEN "keep" ELSE "none",
              clearRt    |-> clear,
              clearProbe |-> TRUE,
              setClose   |-> st # "ESTABLISHED" /\ r.ackNext,
              open       |-> "none",
              rxSar      |-> "advance",
              txSar      |-> TRUE]
        ELSE [WriteBack(st) EXCEPT !.event = "ACK", !.drop = DropPayload(p),
                                   !.clearRt = clear]

(***************************************************************************)
(* default: RST, and every other combination, which only writes back.      *)
(***************************************************************************)
RstOutcome(st, r) ==
    CASE st = "SYN_SENT" /\ r.ackNext ->
            [WriteBack(st) EXCEPT !.state = "CLOSED", !.open = "refused",
                                  !.clearRt = "stop"]
      [] st # "SYN_SENT" /\ r.inOrder ->
            [WriteBack(st) EXCEPT !.state = "CLOSED", !.notify = "closed",
                                  !.clearRt = "stop"]
      [] OTHER -> WriteBack(st)

RxOutcome(p, st, r) ==
    CASE p.kind = "ACK"     -> AckOutcome(p, st, r)
      [] p.kind = "SYN"     -> SynOutcome(st, r)
      [] p.kind = "SYN_ACK" -> SynAckOutcome(st, r)
      [] p.kind = "FIN_ACK" -> FinOutcome(p, st, r)
      [] p.kind = "RST"     -> RstOutcome(st, r)
      [] OTHER              -> WriteBack(st)

-----------------------------------------------------------------------------
\* The states the machine may write back for a packet of kind k when it has
\* read state st, and those it may write back for any packet.
RxNext ==
    [k \in Kind |-> [st \in SessionState |->
        {RxOutcome(p, st, r).state : p \in {q \in Packet : q.kind = k}, r \in Relation}]]

RxTargets == [st \in SessionState |-> UNION {RxNext[k][st] : k \in Kind}]

\* CLOSE_CONN of tx_app_if: a close request sends a FIN from these states and
\* only releases the lock in every other one.
ClosableState == {"ESTABLISHED", "FIN_WAIT_2", "FIN_WAIT_1"}

CloseTarget(st) == IF st \in ClosableState THEN "FIN_WAIT_1" ELSE st
=============================================================================
