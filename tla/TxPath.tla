------------------------------- MODULE TxPath -------------------------------
(***************************************************************************)
(* The path of events to packets: EventPath brings the events to           *)
(* metaLoader (tx_engine.cpp), which asks the tables about the session,    *)
(* and writes what TxPipe makes the packet from.  How much metaLoader      *)
(* sends for an event is left open here; TxFlow is about that.             *)
(***************************************************************************)
EXTENDS EventPath, TxPipe

CONSTANTS
    Inputs,         \* the events of the RX engine, the timers and the application
    Payloads,       \* words of a segment in the first and in a second access
    MaxSegments     \* a bound of the model: segments of one event

ASSUME InputsAssumption ==
    \A i \in Inputs : DOMAIN i \subseteq Arriving /\ \A s \in DOMAIN i : i[s] \in Seq(Event)

\* The tables answer by streams; a segment with payload has words.
ASSUME TxPathAssumption ==
    /\ {"rxSarRsp", "txSarRsp"} \subseteq Names
    /\ Payloads \subseteq (Nat \ {0}) \X Nat

VARIABLES
    ml,             \* metaLoader: its event, what the tables answered
    accepted        \* the packets metaLoader has asked for

vars == <<q, eventVars, pipeVars, ml, accepted>>

MlIdle == [state |-> "idle"]

Init ==
    /\ \E i \in Inputs : InitStreams(i)
    /\ InitEvents /\ InitPipe
    /\ ml = MlIdle
    /\ accepted = <<>>

-----------------------------------------------------------------------------
\* The tables that are asked when an event is read.
Asks(ev) ==
    CASE ev.type = "RST" -> IF Stray(ev) THEN {} ELSE {"txSarRsp"}
      [] ev.type = "SYN" -> IF ev.rt = 0 THEN {} ELSE {"txSarRsp"}
      [] OTHER -> {"rxSarRsp", "txSarRsp"}

\* State 0.  rx_sar_table and tx_sar_table answer for the session they are asked
\* about; the answers are what is in the streams.
MlRead ==
    /\ ml = MlIdle /\ Has("toTx")
    /\ Room("rxSarRsp") /\ Room("txSarRsp")
    /\ LET ev == Front("toTx")
       IN  /\ Transfer({"toTx"}, [s \in Asks(ev) \cup {"txReads"} |->
                                   IF s = "txReads" THEN <<1>> ELSE <<ev.session>>])
           /\ ml' = [state |-> "event", ev |-> ev, asked |-> Asks(ev), sars |-> {}, count |-> 0]
           /\ owed' = IF Stray(ev) \/ ev.type = "SYN" THEN owed ELSE owed \ {ev.session}
    /\ UNCHANGED <<ee, ackTable, pipeVars, accepted>>

\* The sessions the tables have answered for.
Sars == ml.sars \cup {Front(s) : s \in ml.asked}

Loaded == [ml EXCEPT !.sars = Sars, !.asked = {}]

Ready(types) ==
    /\ ml # MlIdle /\ ml.ev.type \in types
    /\ \A s \in ml.asked : Has(s)
    /\ Room("ipMeta") /\ Room("tcpMeta") /\ Room("isLookUp")

Id == Len(accepted) + 1

\* The packet as it has to leave: its header is two words, of which a SYN has a
\* third, and the pseudo header is summed up with it.
Whole(tuple, words) ==
    [pkts |-> {Id}, tuples |-> {tuple}, words |-> words,
     sum |-> [pkts |-> {Id}, words |-> words + 1]]

Meta(length, syn) == [pkt |-> Id, sars |-> Sars, length |-> length, syn |-> syn]

\* A packet of the session, with payload p.
SendPacket(length, syn, p) ==
    /\ Transfer(ml.asked,
           [ipMeta |-> <<Id>>, tcpMeta |-> <<Meta(length, syn)>>,
            isLookUp |-> <<TRUE>>, revReq |-> <<ml.ev.session>>,
            readCmd |-> IF p[1] = 0 THEN <<>>
                        ELSE <<[pkt |-> Id, first |-> p[1], second |-> p[2]]>>])
    /\ accepted' = Append(accepted, Whole(ml.ev.session,
                              2 + (IF syn THEN 1 ELSE 0) + p[1] + p[2]))

SendNothing == Transfer(ml.asked, Silent) /\ UNCHANGED accepted

NoPayload == <<0, 0>>

\* TX and RT: a segment with payload, or none, and then another, or a FIN.
MlSegment ==
    /\ Ready({"TX", "RT"}) /\ Room("revReq") /\ Room("readCmd")
    /\ \E p \in Payloads \cup {NoPayload} :
          /\ IF p = NoPayload THEN SendNothing ELSE SendPacket(p[1] + p[2], FALSE, p)
          /\ \/ ml' = MlIdle
             \/ ml' = [Loaded EXCEPT !.ev.type = "FIN"]
             \/ /\ p # NoPayload /\ ml.count + 1 < MaxSegments
                /\ ml' = [Loaded EXCEPT !.count = @ + 1]
    /\ UNCHANGED <<eventVars, pipeVars>>

\* FIN: sent, or put off until all data has been sent.
MlFin ==
    /\ Ready({"FIN"}) /\ Room("revReq")
    /\ SendPacket(0, FALSE, NoPayload) \/ SendNothing
    /\ ml' = MlIdle
    /\ UNCHANGED <<eventVars, pipeVars>>

MlSyn ==
    /\ Ready({"SYN", "SYN_ACK"}) /\ Room("revReq")
    /\ SendPacket(4, TRUE, NoPayload)
    /\ ml' = MlIdle
    /\ UNCHANGED <<eventVars, pipeVars>>

MlAck ==
    /\ Ready({"ACK", "ACK_NODELAY"}) /\ Room("revReq")
    /\ SendPacket(0, FALSE, NoPayload)
    /\ ml' = MlIdle
    /\ UNCHANGED <<eventVars, pipeVars>>

\* The peer of a packet that has no session.
Peer == "peer"

\* RST: the tuple of a stray reset comes with the event.
MlRst ==
    /\ Ready({"RST"})
    /\ IF Stray(ml.ev)
       THEN /\ Transfer({}, [ipMeta |-> <<Id>>, tcpMeta |-> <<Meta(0, FALSE)>>,
                             isLookUp |-> <<FALSE>>, shortCut |-> <<Peer>>])
            /\ accepted' = Append(accepted, Whole(Peer, 2))
       ELSE Room("revReq") /\ SendPacket(0, FALSE, NoPayload)
    /\ ml' = MlIdle
    /\ UNCHANGED <<eventVars, pipeVars>>

MetaLoader == MlRead \/ MlSegment \/ MlFin \/ MlSyn \/ MlAck \/ MlRst

-----------------------------------------------------------------------------
PipeNext ==
    \/ ReverseLookup \/ TupleSplitter \/ IpHeader \/ PseudoHeader
    \/ Breakdown \/ MemoryRead \/ TcpStitcher
    \/ SubChecksums \/ Checksum \/ PkgStitcher

Pipe(A)  == A /\ UNCHANGED <<eventVars, ml, accepted>>
Path(A) == A /\ UNCHANGED <<pipeVars, ml, accepted>>

Next == MetaLoader \/ Pipe(PipeNext) \/ Path(EventNext)

Spec == Init /\ [][Next]_vars

\* Every function runs in every cycle, and the memory answers: something
\* happens as long as a function can do something.
Fairness == WF_vars(Next)

FairSpec == Spec /\ Fairness

-----------------------------------------------------------------------------
(***************************************************************************)
(* Properties                                                              *)
(***************************************************************************)
\* An event of a timer or of the application sets out only when no event that
\* event_engine took before it is on its way, so that it meets the tables as
\* those events have left them.
EventsApart ==
    [][(Len(q'["timerEvent"]) < Len(q["timerEvent"]) \/ Len(q'["appEvent"]) < Len(q["appEvent"]))
       => /\ ~Has("toDelay")
          /\ \A i \in DOMAIN q["toTx"] : q["toTx"][i].type = "ACK"]_vars

\* The packets leave as metaLoader asked for them: in order, each with its own
\* tuple, payload and checksum.
Queue == INSTANCE PacketQueue WITH accepted <- accepted, delivered <- delivered
PacketsInOrder == Queue!Spec

\* Every event is taken and every packet leaves.
AllSent ==
    <>[](/\ ~Has("rxEvent") /\ ~Has("timerEvent") /\ ~Has("appEvent")
         /\ Len(delivered) = Len(accepted))

\* A packet that has to be acknowledged is: metaLoader handles an event of its
\* session afterwards.
AcksHandled == <>[](owed = {})

\* The same if no reset for a packet without a session is to come: such a
\* reset takes the place of the ACK of session 0 in ack_delay.
NoStray == \A i \in DOMAIN q["rxEvent"] : ~Stray(q["rxEvent"][i])
AcksHandledUnlessStray == NoStray => AcksHandled
=============================================================================
