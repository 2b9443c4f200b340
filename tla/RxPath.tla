------------------------------- MODULE RxPath -------------------------------
(***************************************************************************)
(* The way of a packet from the wire to the application: RxAlign takes its *)
(* headers off; its payload waits in streams for the verdicts about it,    *)
(* while its meta data goes over the lookup to the TCP state machine       *)
(* (TcpFsm); rxEngMemWrite (WordWriter) writes it to the receive buffer,   *)
(* the application is notified and reads it (WordReader).                  *)
(*                                                                         *)
(* A byte is numbered by its place in the stream; one session is open.  A  *)
(* FIN is not given more payload than there is room for: the code does not *)
(* ask (rx_engine.cpp:1023-1046), and would write over unread bytes.       *)
(***************************************************************************)
EXTENDS TcpFsm, RxAlign, WordWriter, BufferMemory, WordReader, BufferUse

CONSTANTS
    Starts,         \* addresses at which the first byte may be
    Inputs,         \* sequences of packets
    MaxPending      \* notifications that wait for a status: 31

VARIABLES
    rtid, tpf,      \* states of rxTcpInvalidDropper and of rxPackageDropper
    mh,             \* the meta data rxMetadataHandler waits with for the lookup
    fsm,            \* rxTcpFSM: the meta data and the entry of rx_sar_table
    session,        \* the entries of the session in the tables
    rand,           \* rxAppNotificationDelayer
    rasi,           \* rx_app_stream_if: length of the read
    notified        \* bytes the application knows of

engineVars == <<rtid, tpf, mh, fsm, session, rand, rasi, notified>>
vars == <<q, alignVars, w, memoryVars, r, useVars, engineVars>>

-----------------------------------------------------------------------------
(***************************************************************************)
(* Packets.  A packet has a kind, the lengths of its headers, the place of *)
(* its payload in the stream, and its port: open and in use by the         *)
(* session, open only, or closed.                                          *)
(***************************************************************************)
Kinds == <<"ACK", "FIN_ACK", "SYN", "RST">>
Used == 1
OpenPort == 2
ClosedPort == 3

Pair(a, b) == [j \in 1 .. HALF |-> IF j = 1 THEN a ELSE b]
Other      == Pair(Junk, Junk)
Others(n)  == [j \in 1 .. n |-> Other]

PacketWords(p, s) ==
    LET ip    == <<Pair(p.ihl, (HALF * (p.ihl + p.off)) + p.len)>> \o Others(p.ihl - 1)
        tcp   == <<Pair(p.port, Junk), Pair(s + p.at, Junk), Other, Pair(p.off, p.kind),
                   Pair(p.valid, Junk)>> \o Others(p.off - 5)
        bytes == Flat(ip \o tcp) \o [j \in 1 .. p.len |-> p.at + j]
    IN  [k \in DOMAIN Burst(1, Len(bytes)) |->
            LET word == Burst(1, Len(bytes))[k]
            IN  [word EXCEPT !.data = Pad([j \in 1 .. word.keep |-> bytes[@[j]]])]]

Init ==
    /\ \E p \in Inputs : \E s \in Starts :
          /\ InitStreams("ipRxData" :> Flat([i \in DOMAIN p |-> PacketWords(p[i], s)]))
          /\ InitUse(s)
          /\ session = [state |-> "ESTABLISHED", recvd |-> s, appd |-> s]
    /\ InitAlign /\ InitWriter /\ InitMemory /\ InitReader
    /\ rtid = "getValid" /\ tpf = "drop1"
    /\ mh = NoMeta /\ fsm = [meta |-> NoMeta]
    /\ rand = [double |-> FALSE, count |-> 0, note |-> [length |-> 0]]
    /\ rasi = 0 /\ notified = 0

-----------------------------------------------------------------------------
(***************************************************************************)
(* rxTcpInvalidDropper                                                     *)
(***************************************************************************)
GetValid ==
    /\ rtid = "getValid"
    /\ Transfer({"valid"}, Silent)
    /\ rtid' = IF Front("valid") = 1 THEN "fwd" ELSE "drop"
    /\ UNCHANGED <<tpf, mh, fsm, session, rand, rasi, notified>>

InvalidPass ==
    /\ rtid \in {"fwd", "drop"} /\ Has("dataBuffer2")
    /\ LET word == Front("dataBuffer2")
       IN  /\ Transfer({"dataBuffer2"}, IF rtid = "fwd" THEN To("dataBuffer3", word) ELSE Silent)
           /\ rtid' = IF word.last THEN "getValid" ELSE rtid
    /\ UNCHANGED <<tpf, mh, fsm, session, rand, rasi, notified>>

(***************************************************************************)
(* rxMetadataHandler                                                       *)
(***************************************************************************)
ResetUnlessReset(meta) == IF Kinds[meta.flags] = "RST" THEN Silent ELSE To("metaEvent", "RST")

DropAnswer(meta, drop) == IF meta.length = 0 THEN Silent ELSE To("metaDrop", drop)

\* META: the answer of the port table.  session_lookup_controller is asked, and
\* answers for the packets in their order.
MhMeta ==
    /\ mh = NoMeta /\ Has("meta") /\ Has("portRsp")
    /\ Room("metaEvent") /\ Room("metaDrop") /\ Room("lookupRsp")
    /\ LET meta == Front("meta")
           open == Front("portRsp") # ClosedPort
       IN  /\ Transfer({"meta", "portRsp"},
                       IF open THEN To("lookupRsp", Front("portRsp") = Used)
                       ELSE ResetUnlessReset(meta) @@ DropAnswer(meta, TRUE))
           /\ mh' = IF open THEN meta ELSE NoMeta
    /\ UNCHANGED <<rtid, tpf, fsm, session, rand, rasi, notified>>

\* LOOKUP: a hit goes on to the state machine.
MhLookup ==
    /\ mh # NoMeta /\ Has("lookupRsp")
    /\ Room("fsmMeta") /\ Room("metaDrop")
    /\ LET hit == Front("lookupRsp")
       IN  Transfer({"lookupRsp"}, (IF hit THEN To("fsmMeta", mh) ELSE Silent)
                                   @@ DropAnswer(mh, ~hit))
    /\ mh' = NoMeta
    /\ UNCHANGED <<rtid, tpf, fsm, session, rand, rasi, notified>>

(***************************************************************************)
(* rxTcpFSM: LOAD reads the entries of the session, TRANSITION does what   *)
(* TcpFsm says.  Of the sequence numbers those of the payload are here:    *)
(* the packets acknowledge all that was sent but for a FIN.                *)
(***************************************************************************)
FsmLoad ==
    /\ fsm.meta = NoMeta
    /\ Transfer({"fsmMeta"}, Silent)
    /\ fsm' = [meta |-> Front("fsmMeta"), sar |-> session]
    /\ UNCHANGED <<rtid, tpf, mh, session, rand, rasi, notified>>

\* Mutant of FreeSpace: what the application has not read is not counted.
FreeSpaceAll(sar) == SPACE - 1

\* The application's pointer is not to be overtaken.
FreeSpace(sar) == (sar.appd - sar.recvd - 1) % SPACE

FsmRelation(meta, sar) ==
    [ackNext |-> sar.state # "LAST_ACK", ackPrev |-> sar.state # "LAST_ACK",
     ackValid |-> TRUE, dupLimit |-> FALSE,
     inOrder |-> meta.seq = sar.recvd,
     room |-> FreeSpace(sar) > meta.length,
     sameSyn |-> FALSE]

FsmOutcome ==
    LET meta == fsm.meta
    IN  RxOutcome([kind |-> Kinds[meta.flags], payload |-> meta.length # 0],
                  fsm.sar.state, FsmRelation(meta, fsm.sar))

FsmTransition ==
    /\ fsm.meta # NoMeta
    /\ \A s \in {"push", "notification", "fsmDrop", "fsmEvent"} : Room(s)
    /\ LET meta == fsm.meta
           out  == FsmOutcome
           data == out.notify \in {"data", "data_closed"}
           note == [length |-> IF data THEN meta.length ELSE 0,
                    closed |-> out.notify \in {"closed", "data_closed"}]
       IN  /\ Transfer({},
                 (IF out.event = "none" THEN Silent ELSE To("fsmEvent", out.event))
                 @@ (IF out.drop = "none" THEN Silent ELSE To("fsmDrop", out.drop = "drop"))
                 @@ (IF data THEN To("push", [addr |-> meta.seq % SPACE, len |-> meta.length,
                                              drop |-> FALSE])
                     ELSE Silent)
                 @@ (IF out.notify = "none" THEN Silent ELSE To("notification", note)))
           /\ session' = [session EXCEPT
                !.state = out.state,
                !.recvd = IF out.rxSar = "none" THEN @
                          ELSE meta.seq + meta.length
                               + (IF Kinds[meta.flags] = "ACK" THEN 0 ELSE 1),
                !.appd  = IF out.rxSar = "init" THEN meta.seq + 1 ELSE @]
    /\ fsm' = [meta |-> NoMeta]
    /\ UNCHANGED <<rtid, tpf, mh, rand, rasi, notified>>

\* rxEventMerger: event_engine takes the events.
EventMerger ==
    /\ \/ Transfer({"metaEvent"}, Silent)
       \/ ~Has("metaEvent") /\ Transfer({"fsmEvent"}, Silent)
    /\ UNCHANGED engineVars

(***************************************************************************)
(* rxPackageDropper: an answer of rxMetadataHandler, one of rxTcpFSM if    *)
(* the first lets the payload pass, and then the payload.                  *)
(***************************************************************************)
ReadDrop1 ==
    /\ tpf = "drop1"
    /\ Transfer({"metaDrop"}, Silent)
    /\ tpf' = IF Front("metaDrop") THEN "drop" ELSE "drop2"
    /\ UNCHANGED <<rtid, mh, fsm, session, rand, rasi, notified>>

ReadDrop2 ==
    /\ tpf = "drop2"
    /\ Transfer({"fsmDrop"}, Silent)
    /\ tpf' = IF Front("fsmDrop") THEN "drop" ELSE "fwd"
    /\ UNCHANGED <<rtid, mh, fsm, session, rand, rasi, notified>>

PackagePass ==
    /\ tpf \in {"fwd", "drop"} /\ Has("dataBuffer3")
    /\ LET word == Front("dataBuffer3")
       IN  /\ Transfer({"dataBuffer3"}, IF tpf = "fwd" THEN To("data", word) ELSE Silent)
           /\ tpf' = IF word.last THEN "drop1" ELSE tpf
    /\ UNCHANGED <<rtid, mh, fsm, session, rand, rasi, notified>>

-----------------------------------------------------------------------------
(***************************************************************************)
(* rxAppNotificationDelayer: a notification waits for the status of the    *)
(* access, or of both; one without data does not wait.                     *)
(***************************************************************************)
\* Mutant of StatusFirst: a notification of two accesses is not kept.
StatusFirstForgets ==
    /\ ~rand.double
    /\ Room("appNotification")
    /\ LET double == Front("doubleAccess")
       IN  /\ Transfer({"status", "notifications", "doubleAccess"},
                       IF double THEN Silent ELSE To("appNotification", Front("notifications")))
           /\ rand' = [rand EXCEPT !.double = double, !.count = IF double THEN @ ELSE @ - 1]
    /\ UNCHANGED <<rtid, tpf, mh, fsm, session, rasi, notified>>

StatusFirst ==
    /\ ~rand.double
    /\ Room("appNotification")
    /\ LET double == Front("doubleAccess")
       IN  /\ Transfer({"status", "notifications", "doubleAccess"},
                       IF double THEN Silent ELSE To("appNotification", Front("notifications")))
           /\ rand' = [double |-> double, note |-> Front("notifications"),
                       count |-> IF double THEN rand.count ELSE rand.count - 1]
    /\ UNCHANGED <<rtid, tpf, mh, fsm, session, rasi, notified>>

StatusSecond ==
    /\ rand.double
    /\ Transfer({"status"}, To("appNotification", rand.note))
    /\ rand' = [rand EXCEPT !.double = FALSE, !.count = @ - 1]
    /\ UNCHANGED <<rtid, tpf, mh, fsm, session, rasi, notified>>

TakeNotification ==
    /\ ~rand.double /\ Has("notification")
    /\ ~(Has("status") /\ Has("notifications") /\ Has("doubleAccess"))
    /\ rand.count < MaxPending /\ Room("notifications") /\ Room("appNotification")
    /\ LET note == Front("notification")
           data == note.length # 0
       IN  /\ Transfer({"notification"}, To(IF data THEN "notifications" ELSE "appNotification", note))
           /\ rand' = [rand EXCEPT !.note = note, !.count = IF data THEN @ + 1 ELSE @]
    /\ UNCHANGED <<rtid, tpf, mh, fsm, session, rasi, notified>>

(***************************************************************************)
(* The application (external) reads what it has been notified of;          *)
(* rx_app_stream_if asks rx_sar_table for the pointer and moves it on.     *)
(***************************************************************************)
Notified ==
    /\ Transfer({"appNotification"}, Silent)
    /\ notified' = notified + Front("appNotification").length
    /\ UNCHANGED <<rtid, tpf, mh, fsm, session, rand, rasi>>

RasiRequest ==
    /\ rasi = 0 /\ notified > Asked
    /\ rasi' = notified - Asked
    /\ asked' = Append(asked, notified)
    /\ UNCHANGED <<q, rtid, tpf, mh, fsm, session, rand, notified, start, burst, got>>

RasiCommand ==
    /\ rasi # 0
    /\ Transfer({}, To("readCmd", Access(session.appd % SPACE, rasi)))
    /\ session' = [session EXCEPT !.appd = @ + rasi]
    /\ rasi' = 0
    /\ UNCHANGED <<rtid, tpf, mh, fsm, rand, notified>>

-----------------------------------------------------------------------------
Engine ==
    \/ GetValid \/ InvalidPass \/ MhMeta \/ MhLookup \/ FsmLoad \/ FsmTransition
    \/ EventMerger \/ ReadDrop1 \/ ReadDrop2 \/ PackagePass
    \/ StatusFirst \/ StatusSecond \/ TakeNotification \/ Notified \/ RasiCommand

\* rxEngMemWrite is the writer of the receive buffer.
EngMemWrite == Writer /\ UNCHANGED <<alignVars, memoryVars, r, useVars, engineVars>>

\* Nothing is on its way.  After an overtaking this may not be reached: a packet
\* waits for a verdict or an answer, or one waits for its packet, for ever.
AllRead ==
    /\ \A s \in Names : ~Has(s)
    /\ mh = NoMeta /\ fsm.meta = NoMeta /\ ~csa.check
    /\ rtid = "getValid" /\ tpf = "drop1" /\ w.state = "command" /\ rand.count = 0
    /\ Asked = notified /\ Len(got) = Len(asked)

Next ==
    \/ Align /\ UNCHANGED <<w, memoryVars, r, useVars, engineVars>>
    \/ Engine /\ UNCHANGED <<alignVars, w, memoryVars, r, useVars>>
    \/ EngMemWrite
    \/ Memory /\ UNCHANGED <<alignVars, w, r, useVars, engineVars>>
    \/ Reader /\ UNCHANGED <<alignVars, w, memoryVars, useVars, engineVars>>
    \/ Leave /\ UNCHANGED <<alignVars, w, memoryVars, r, engineVars>>
    \/ RasiRequest /\ UNCHANGED <<alignVars, w, memoryVars, r>>
    \/ (AllRead \/ overtaken) /\ UNCHANGED vars

Spec == Init /\ [][Next]_vars

-----------------------------------------------------------------------------
(***************************************************************************)
(* Properties                                                              *)
(***************************************************************************)
\* Bytes the application knows of and has not asked for yet are in the buffer.
UnreadKept ==
    \A p \in Asked - rasi + 1 .. notified : mem[(start + p - 1) % SPACE] = p

\* A read has as many bytes as were asked for, and each is the one that is next
\* in the stream, or one that came a whole buffer later: rx_app_stream_if moves
\* its pointer on before the memory has been read.
InPlace(i) ==
    LET bytes == Bytes(got[i])
    IN  /\ WellFormed(got[i]) /\ Len(bytes) = Length(i)
        /\ \A j \in DOMAIN bytes : bytes[j] - Before(i) - j \in {0, SPACE}

\* The stream reaches the application, whatever options the packets have, in which
\* order they come, and whether they are bad or for another port: no byte is
\* overwritten before the application has asked for it, and what it reads comes
\* from the place of the bytes it asked for.  That is so unless rxCheckTCPchecksum
\* has read a packet with the rest of the one before still to be sent
\* (rx_engine.cpp:290, :419): that rest is then lost or sent too late.
PayloadIntactUnlessOvertaken ==
    overtaken \/ (UnreadKept /\ \A i \in DOMAIN got : InPlace(i))

\* What is acknowledged to the peer reaches the application, with the exception
\* of PayloadIntactUnlessOvertaken: when nothing is on its way, it has been
\* notified of every byte up to the pointer of rx_sar_table.
AcknowledgedDeliveredUnlessOvertaken ==
    AllRead /\ ~overtaken => notified = session.recvd - start - (IF session.state = "LAST_ACK" THEN 1 ELSE 0)
=============================================================================
