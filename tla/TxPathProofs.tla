---------------------------- MODULE TxPathProofs ----------------------------
(***************************************************************************)
(* TxPath for any number of sessions, any depth of the streams and any     *)
(* counters that do not come round: the events of the timers and of the    *)
(* application have the path to the TX engine to themselves.               *)
(***************************************************************************)
EXTENDS TxPath, SequenceTheorems, TLAPS

-----------------------------------------------------------------------------
(***************************************************************************)
(* What a step does to a stream                                            *)
(***************************************************************************)
LEMMA TransferEffect ==
    ASSUME NEW R, NEW W, Transfer(R, W), NEW n \in Names, NEW S, q[n] \in Seq(S)
    PROVE  /\ n \notin R /\ n \notin DOMAIN W => q'[n] = q[n]
           /\ n \in R => Has(n)
           /\ n \in R /\ n \notin DOMAIN W => q'[n] = Tail(q[n]) /\ q'[n] \in Seq(S)
           /\ n \notin R /\ n \in DOMAIN W => q'[n] = q[n] \o W[n]
           /\ n \in DOMAIN W /\ W[n] # <<>> => Room(n)
<1>1. q'[n] = (IF n \in R THEN Tail(q[n]) ELSE q[n])
                  \o (IF n \in DOMAIN W THEN W[n] ELSE <<>>)
  BY DEF Transfer
<1>2. n \in R => Has(n)  BY DEF Transfer
<1>3. n \in R => Tail(q[n]) \in Seq(S)  BY <1>2, HeadTailProperties DEF Has
<1>4. n \in DOMAIN W /\ W[n] # <<>> => Room(n)  BY DEF Transfer
<1>5. q[n] \o <<>> = q[n]  BY ConcatEmptySeq
<1>6. n \in R => Tail(q[n]) \o <<>> = Tail(q[n])  BY <1>3, ConcatEmptySeq
<1> QED  BY <1>1, <1>2, <1>3, <1>4, <1>5, <1>6

\* A stream that one value is appended to.
LEMMA TransferPut ==
    ASSUME NEW R, NEW W, Transfer(R, W), NEW n \in Names \ R, NEW S, q[n] \in Seq(S),
           n \in DOMAIN W, NEW v \in S, W[n] = <<v>>
    PROVE  q'[n] = Append(q[n], v) /\ q'[n] \in Seq(S) /\ Len(q'[n]) = Len(q[n]) + 1 /\ Room(n)
<1>1. <<v>> # <<>> /\ n \in Names /\ n \notin R  OBVIOUS
<1>3. q'[n] = q[n] \o <<v>> /\ Room(n)  BY <1>1, TransferEffect
<1>2. Append(q[n], v) = q[n] \o <<v>>  BY AppendIsConcat
<1> QED  BY <1>2, <1>3, AppendProperties

LEMMA ToFacts == ASSUME NEW s, NEW v PROVE DOMAIN To(s, v) = {s} /\ To(s, v)[s] = <<v>>
BY DEF To

LEMMA SilentFacts == DOMAIN Silent = {}
BY DEF Silent

-----------------------------------------------------------------------------
(***************************************************************************)
(* Types of what has to do with events                                     *)
(***************************************************************************)
EventStreams == Arriving \cup Counting \cup {"toDelay", "toTx"}
Answers      == {"rxSarRsp", "txSarRsp"}
Counter      == 0 .. COUNTERS - 1

Typed ==
    /\ \A n \in Arriving \cup {"toDelay", "toTx"} : q[n] \in Seq(Event)
    /\ \A n \in Counting : q[n] \in Seq({1}) /\ Len(q[n]) <= 1
    /\ \A n \in {"toDelay", "toTx"} : Len(q[n]) <= Depth[n]
    /\ ee \in [write : Counter, adRead : Counter, adWrite : Counter, txRead : Counter]
    /\ splitter \in {"getMeta", "revRsp", "shortCut"}
    /\ ml # MlIdle => "asked" \in DOMAIN ml /\ ml.asked \subseteq Answers

\* What ack_delay has not told event_engine it has read, and what is on its way
\* to metaLoader less what event_engine has not been told of.
OnWay == Len(q["toDelay"]) + Len(q["adReads"])
Ahead == Len(q["toTx"]) + Len(q["txReads"]) - Len(q["adWrites"])

\* The counters are right but for whole turns.
Counted1 == ee.write - ee.adRead \in {OnWay, OnWay - COUNTERS}
Counted2 == ee.adWrite - ee.txRead \in {Ahead - COUNTERS, Ahead, Ahead + COUNTERS}

\* If only its writing has not been told, an event comes from the scan.
LastDelayed ==
    q["adWrites"] # <<>> /\ q["adReads"] = <<>> /\ q["toTx"] # <<>> =>
        q["toTx"][Len(q["toTx"])].type = "ACK"

IInv == Typed /\ Counted1 /\ Counted2 /\ LastDelayed

LEMMA StreamsTyped ==
    ASSUME Typed
    PROVE  /\ EventStreams \subseteq Names
           /\ \A n \in EventStreams : \E S : q[n] \in Seq(S)
           /\ \A n \in EventStreams : Len(q[n]) \in Nat
<1>1. EventStreams \subseteq Names  BY EventPathAssumption DEF EventStreams
<1>2. \A n \in EventStreams : q[n] \in Seq(Event) \/ q[n] \in Seq({1})
  BY DEF Typed, EventStreams
<1>3. \A n \in EventStreams : Len(q[n]) \in Nat  BY <1>2, LenProperties
<1> QED  BY <1>1, <1>2, <1>3

\* A step that has nothing to do with events.
Untouched == \A n \in EventStreams : q'[n] = q[n]

LEMMA TransferUntouched ==
    ASSUME Typed, NEW R, NEW W, Transfer(R, W),
           \A n \in EventStreams : n \notin R /\ n \notin DOMAIN W
    PROVE  Untouched
<1> SUFFICES ASSUME NEW n \in EventStreams PROVE q'[n] = q[n]  BY DEF Untouched
<1>1. n \in Names /\ \E S : q[n] \in Seq(S)  BY StreamsTyped
<1>2. PICK S : q[n] \in Seq(S)  BY <1>1
<1> QED  BY <1>1, <1>2, TransferEffect

LEMMA UntouchedInv ==
    ASSUME IInv, Untouched, ee' = ee,
           splitter' \in {"getMeta", "revRsp", "shortCut"},
           ml' # MlIdle => "asked" \in DOMAIN ml' /\ ml'.asked \subseteq Answers
    PROVE  IInv'
<1>1. /\ \A n \in Arriving : q'[n] = q[n]
      /\ \A n \in Counting : q'[n] = q[n]
      /\ q'["toDelay"] = q["toDelay"] /\ q'["toTx"] = q["toTx"]
  BY DEF Untouched, EventStreams
<1>2. Typed'  BY <1>1 DEF IInv, Typed, MlIdle
<1>3. q'["adReads"] = q["adReads"] /\ q'["adWrites"] = q["adWrites"] /\ q'["txReads"] = q["txReads"]
  BY <1>1 DEF Counting
<1>4. Counted1' /\ Counted2'  BY <1>1, <1>3 DEF IInv, Counted1, Counted2, OnWay, Ahead
<1>5. LastDelayed'  BY <1>1, <1>3 DEF IInv, LastDelayed
<1> QED  BY <1>2, <1>4, <1>5 DEF IInv

-----------------------------------------------------------------------------
(***************************************************************************)
(* The functions behind metaLoader, and metaLoader once it has its event,  *)
(* leave the streams of events alone.                                      *)
(***************************************************************************)
LEMMA PipeLeaves ==
    ASSUME Typed, PipeNext
    PROVE  Untouched /\ splitter' \in {"getMeta", "revRsp", "shortCut"}
<1> USE SilentFacts DEF EventStreams, Arriving, Counting, To
<1>1. splitter \in {"getMeta", "revRsp", "shortCut"}  BY DEF Typed
<1>2. ASSUME NEW R, NEW W, Transfer(R, W), \A n \in EventStreams : n \notin R /\ n \notin DOMAIN W
      PROVE  Untouched
  BY <1>2, TransferUntouched
<1>3. CASE ReverseLookup  BY <1>1, <1>2, <1>3 DEF ReverseLookup, pipeVars
<1>4. CASE SplitterGet  BY <1>1, <1>2, <1>4 DEF SplitterGet
<1>5. CASE SplitterPass  BY <1>1, <1>2, <1>5 DEF SplitterPass
<1>6. CASE IpHeader  BY <1>1, <1>2, <1>6 DEF IpHeader, pipeVars
<1>7. CASE HeaderFirst  BY <1>1, <1>2, <1>7 DEF HeaderFirst
<1>8. CASE HeaderNext  BY <1>1, <1>2, <1>8 DEF HeaderNext
<1>9. CASE BreakFirst  BY <1>1, <1>2, <1>9 DEF BreakFirst
<1>10. CASE BreakSecond  BY <1>1, <1>2, <1>10 DEF BreakSecond
<1>11. CASE MemoryRead  BY <1>1, <1>2, <1>11 DEF MemoryRead, pipeVars
<1>12. CASE StitchHeader  BY <1>1, <1>2, <1>12 DEF StitchHeader
<1>13. CASE StitchOption  BY <1>1, <1>2, <1>13 DEF StitchOption
<1>14. CASE StitchData  BY <1>1, <1>2, <1>14 DEF StitchData
<1>15. CASE SubChecksums  BY <1>1, <1>2, <1>15 DEF SubChecksums
<1>16. CASE Checksum  BY <1>1, <1>2, <1>16 DEF Checksum, pipeVars
<1>17. CASE PkgHeader  BY <1>1, <1>2, <1>17 DEF PkgHeader
<1>18. CASE PkgChecksum  BY <1>1, <1>2, <1>18 DEF PkgChecksum
<1>19. CASE PkgRest  BY <1>1, <1>2, <1>19 DEF PkgRest
<1> QED
  BY <1>3, <1>4, <1>5, <1>6, <1>7, <1>8, <1>9, <1>10, <1>11, <1>12, <1>13, <1>14, <1>15, <1>16,
     <1>17, <1>18, <1>19
  DEF PipeNext, TupleSplitter, PseudoHeader, Breakdown, TcpStitcher, PkgStitcher

MlSend == MlSegment \/ MlFin \/ MlSyn \/ MlAck \/ MlRst

LEMMA SendLeaves ==
    ASSUME Typed, MlSend
    PROVE  /\ Untouched
           /\ ml' # MlIdle => "asked" \in DOMAIN ml' /\ ml'.asked \subseteq Answers
<1> USE DEF MlSend, MlSegment, MlFin, MlSyn, MlAck, MlRst, Ready
<1>1. ml # MlIdle /\ "asked" \in DOMAIN ml /\ ml.asked \subseteq Answers  BY DEF Typed
<1>2. Untouched
  <2>1. \A n \in EventStreams : n \notin Answers
    BY DEF EventStreams, Arriving, Counting, Answers
  <2>2. ASSUME NEW length, NEW syn, NEW p, SendPacket(length, syn, p) PROVE Untouched
    <3> DEFINE W == [ipMeta |-> <<Id>>, tcpMeta |-> <<Meta(length, syn)>>,
                     isLookUp |-> <<TRUE>>, revReq |-> <<ml.ev.session>>,
                     readCmd |-> IF p[1] = 0 THEN <<>>
                                 ELSE <<[pkt |-> Id, first |-> p[1], second |-> p[2]]>>]
    <3>1. Transfer(ml.asked, W)  BY <2>2 DEF SendPacket
    <3>2. DOMAIN W = {"ipMeta", "tcpMeta", "isLookUp", "revReq", "readCmd"}  OBVIOUS
    <3> HIDE DEF W
    <3>3. \A n \in EventStreams : n \notin DOMAIN W
      BY <3>2 DEF EventStreams, Arriving, Counting
    <3> QED  BY <1>1, <2>1, <3>1, <3>3, TransferUntouched
  <2>3. ASSUME SendNothing PROVE Untouched
    <3>1. Transfer(ml.asked, Silent)  BY <2>3 DEF SendNothing
    <3> QED  BY <1>1, <2>1, <3>1, SilentFacts, TransferUntouched
  <2>4. ASSUME MlRst, Stray(ml.ev) PROVE Untouched
    <3> DEFINE W == [ipMeta |-> <<Id>>, tcpMeta |-> <<Meta(0, FALSE)>>,
                     isLookUp |-> <<FALSE>>, shortCut |-> <<Peer>>]
    <3>1. Transfer({}, W)  BY <2>4
    <3>2. DOMAIN W = {"ipMeta", "tcpMeta", "isLookUp", "shortCut"}  OBVIOUS
    <3> HIDE DEF W
    <3>3. \A n \in EventStreams : n \notin DOMAIN W
      BY <3>2 DEF EventStreams, Arriving, Counting
    <3> QED  BY <3>1, <3>3, TransferUntouched
  <2> QED  BY <2>2, <2>3, <2>4
<1>3. ml' # MlIdle => "asked" \in DOMAIN ml' /\ ml'.asked \subseteq Answers
  <2>1. DOMAIN Loaded = DOMAIN ml /\ Loaded.asked = {}  BY <1>1 DEF Loaded
  <2>2. ml' = MlIdle \/ ml' = [Loaded EXCEPT !.ev.type = "FIN"]
        \/ ml' = [Loaded EXCEPT !.count = @ + 1]
    OBVIOUS
  <2> HIDE DEF MlSend, MlSegment, MlFin, MlSyn, MlAck, MlRst, Ready
  <2>3. ASSUME ml' = [Loaded EXCEPT !.ev.type = "FIN"]
        PROVE  "asked" \in DOMAIN ml' /\ ml'.asked = {}
    BY <1>1, <2>1, <2>3
  <2>4. ASSUME ml' = [Loaded EXCEPT !.count = @ + 1]
        PROVE  "asked" \in DOMAIN ml' /\ ml'.asked = {}
    BY <1>1, <2>1, <2>4
  <2> QED  BY <2>2, <2>3, <2>4
<1> QED  BY <1>2, <1>3

-----------------------------------------------------------------------------
(***************************************************************************)
(* What the steps of the events do to their streams                        *)
(***************************************************************************)
LEMMA Basics ==
    ASSUME Typed
    PROVE  /\ EventStreams \subseteq Names
           /\ \A n \in Arriving \cup {"toDelay", "toTx"} : q[n] \in Seq(Event) /\ Len(q[n]) \in Nat
           /\ \A n \in Counting : q[n] \in Seq({1}) /\ Len(q[n]) \in {0, 1}
           /\ \A n \in {"toDelay", "toTx"} :
                 Depth[n] \in Nat /\ Len(q[n]) <= Depth[n] /\ Depth[n] + 1 < COUNTERS
           /\ COUNTERS \in Nat
<1>1. EventStreams \subseteq Names  BY EventPathAssumption DEF EventStreams
<1>2. \A n \in Arriving \cup {"toDelay", "toTx"} : q[n] \in Seq(Event) /\ Len(q[n]) \in Nat
  BY LenProperties DEF Typed
<1>3. \A n \in Counting : q[n] \in Seq({1}) /\ Len(q[n]) \in {0, 1}
  <2>1. \A n \in Counting : q[n] \in Seq({1}) /\ Len(q[n]) \in Nat /\ Len(q[n]) <= 1
    BY LenProperties DEF Typed
  <2>2. \A k \in Nat : k <= 1 => k \in {0, 1}  OBVIOUS
  <2> QED  BY <2>1, <2>2
<1>4. \A n \in {"toDelay", "toTx"} :
          Depth[n] \in Nat /\ Len(q[n]) <= Depth[n] /\ Depth[n] + 1 < COUNTERS
  BY <1>1, EventPathAssumption, StreamsAssumption DEF Typed, EventStreams, Names
<1> QED  BY <1>1, <1>2, <1>3, <1>4, EventPathAssumption

LEMMA EmptyLen == \A S : \A s \in Seq(S) : (Len(s) = 0 <=> s = <<>>) /\ Len(<<>>) = 0
BY EmptySeq

LEMMA MlReadInv == ASSUME IInv, MlRead, UNCHANGED splitter PROVE IInv' /\ \A n \in Arriving : q'[n] = q[n]
<1> DEFINE ev == Front("toTx")
           R == {"toTx"}
           W == [s \in Asks(ev) \cup {"txReads"} |-> IF s = "txReads" THEN <<1>> ELSE <<ev.session>>]
<1>0. Typed  BY DEF IInv
<1>1. Transfer(R, W) /\ Has("toTx") /\ ee' = ee
      /\ ml' = [state |-> "event", ev |-> ev, asked |-> Asks(ev), sars |-> {}, count |-> 0]
  BY DEF MlRead
<1>2. Asks(ev) \subseteq Answers  BY DEF Asks, Answers
<1>3. DOMAIN W = Asks(ev) \cup {"txReads"} /\ W["txReads"] = <<1>>  OBVIOUS
<1>4. ml' # MlIdle => "asked" \in DOMAIN ml' /\ ml'.asked \subseteq Answers  BY <1>1, <1>2
<1> HIDE DEF ev, W, R
<1>5. \A n \in EventStreams \ {"toTx", "txReads"} : n \notin R /\ n \notin DOMAIN W
  BY <1>2, <1>3 DEF EventStreams, Arriving, Counting, Answers, R
<1>6. \A n \in EventStreams \ {"toTx", "txReads"} : q'[n] = q[n]
  <2> TAKE n \in EventStreams \ {"toTx", "txReads"}
  <2>1. PICK S : q[n] \in Seq(S)  BY <1>0, StreamsTyped
  <2>2. n \in Names  BY <1>0, Basics
  <2> QED  BY <2>1, <2>2, <1>1, <1>5, TransferEffect
<1>7. q'["toTx"] = Tail(q["toTx"]) /\ q["toTx"] # <<>> /\ q["toTx"] \in Seq(Event)
  <2>1. "toTx" \in Names /\ q["toTx"] \in Seq(Event)  BY <1>0, Basics DEF EventStreams
  <2>2. "toTx" \in R /\ "toTx" \notin DOMAIN W  BY <1>2, <1>3 DEF Answers, R
  <2> QED  BY <2>1, <2>2, <1>1, TransferEffect DEF Has
<1>8. q'["txReads"] \in Seq({1}) /\ Len(q'["txReads"]) = Len(q["txReads"]) + 1
      /\ Len(q["txReads"]) = 0
  <2>1. "txReads" \in Names \ R /\ q["txReads"] \in Seq({1}) /\ Depth["txReads"] = 1
        /\ Len(q["txReads"]) \in {0, 1}
    BY <1>0, Basics, EventPathAssumption DEF EventStreams, Counting, R
  <2>2. "txReads" \in DOMAIN W /\ 1 \in {1}  BY <1>3
  <2> DEFINE n == "txReads"
             S == {1}
  <2>3. Transfer(R, W) /\ n \in Names \ R /\ q[n] \in Seq(S) /\ n \in DOMAIN W /\ W[n] = <<1>> /\ 1 \in S
    BY <2>1, <2>2, <1>1, <1>3
  <2> HIDE DEF n, S
  <2>4. q'[n] \in Seq(S) /\ Len(q'[n]) = Len(q[n]) + 1 /\ Room(n)  BY <2>3, TransferPut
  <2> USE DEF n, S
  <2> QED  BY <2>1, <2>4 DEF Room
<1>9. q'["toTx"] \in Seq(Event) /\ Len(q'["toTx"]) = Len(q["toTx"]) - 1 /\ Len(q["toTx"]) \in Nat
      /\ \A i \in 1 .. Len(q["toTx"]) - 1 : q'["toTx"][i] = q["toTx"][i + 1]
  BY <1>7, HeadTailProperties, LenProperties
<1>10. /\ \A n \in Arriving : q'[n] = q[n]
       /\ q'["toDelay"] = q["toDelay"] /\ q'["adReads"] = q["adReads"] /\ q'["adWrites"] = q["adWrites"]
  BY <1>6 DEF EventStreams, Arriving, Counting
<1>11. Typed'
  <2>1. \A n \in Arriving \cup {"toDelay", "toTx"} : q'[n] \in Seq(Event)
    BY <1>0, <1>9, <1>10 DEF Typed
  <2>2. \A n \in Counting : q'[n] \in Seq({1}) /\ Len(q'[n]) <= 1
    <3>1. Len(q'["txReads"]) <= 1  BY <1>8
    <3>2. q["adReads"] \in Seq({1}) /\ Len(q["adReads"]) <= 1
          /\ q["adWrites"] \in Seq({1}) /\ Len(q["adWrites"]) <= 1
      BY <1>0 DEF Typed, Counting
    <3> QED  BY <3>1, <3>2, <1>8, <1>10 DEF Counting
  <2>3. \A n \in {"toDelay", "toTx"} : Len(q'[n]) <= Depth[n]
    BY <1>0, <1>9, <1>10, Basics
  <2>4. splitter' \in {"getMeta", "revRsp", "shortCut"}
    BY <1>0 DEF Typed
  <2> QED  BY <1>0, <1>1, <1>4, <2>1, <2>2, <2>3, <2>4 DEF Typed
<1>12. Counted1' /\ Counted2'
  <2>1. OnWay' = OnWay  BY <1>10 DEF OnWay
  <2>2. Ahead' = Ahead
    <3>1. Len(q["adWrites"]) \in {0, 1}  BY <1>0, Basics DEF Counting
    <3>2. Len(q'["toTx"]) = Len(q["toTx"]) - 1 /\ Len(q["toTx"]) \in Nat  BY <1>9
    <3>3. Len(q'["txReads"]) = 1 /\ Len(q["txReads"]) = 0  BY <1>8
    <3>4. Len(q'["adWrites"]) = Len(q["adWrites"])  BY <1>10
    <3>5. Ahead' = Len(q'["toTx"]) + Len(q'["txReads"]) - Len(q'["adWrites"])  BY DEF Ahead
    <3>6. Ahead = Len(q["toTx"]) + Len(q["txReads"]) - Len(q["adWrites"])  BY DEF Ahead
    <3>7. Ahead' = (Len(q["toTx"]) - 1) + 1 - Len(q["adWrites"])  BY <3>2, <3>3, <3>4, <3>5
    <3>8. Ahead = Len(q["toTx"]) + 0 - Len(q["adWrites"])  BY <3>3, <3>6
    <3>9. \A a \in Nat, b \in {0, 1} : (a - 1) + 1 - b = a + 0 - b  OBVIOUS
    <3> QED  BY <3>1, <3>2, <3>7, <3>8, <3>9
  <2> QED  BY <2>1, <2>2, <1>1 DEF IInv, Counted1, Counted2
<1>13. LastDelayed'
  <2> SUFFICES ASSUME q'["adWrites"] # <<>>, q'["adReads"] = <<>>, q'["toTx"] # <<>>
               PROVE  q'["toTx"][Len(q'["toTx"])].type = "ACK"
    BY DEF LastDelayed
  <2>1. q["toTx"][Len(q["toTx"])].type = "ACK"  BY <1>7, <1>10 DEF IInv, LastDelayed
  <2>2. Len(q'["toTx"]) # 0  BY <1>9, EmptyLen
  <2>3. Len(q["toTx"]) - 1 \in 1 .. Len(q["toTx"]) - 1 /\ Len(q["toTx"]) - 1 + 1 = Len(q["toTx"])
    BY <2>2, <1>9
  <2> QED  BY <2>1, <2>3, <1>9
<1> QED  BY <1>10, <1>11, <1>12, <1>13 DEF IInv

\* A stream that its first value is taken from.
LEMMA TransferTake ==
    ASSUME NEW R, NEW W, Transfer(R, W), NEW n \in Names \cap R, NEW S, q[n] \in Seq(S),
           n \notin DOMAIN W
    PROVE  /\ Front(n) \in S /\ q'[n] \in Seq(S)
           /\ Len(q[n]) \in Nat /\ Len(q[n]) # 0 /\ Len(q'[n]) = Len(q[n]) - 1
<1>1. n \in Names /\ n \in R  OBVIOUS
<1>2. q'[n] = Tail(q[n]) /\ q[n] # <<>>  BY <1>1, TransferEffect DEF Has
<1>3. Len(q[n]) \in Nat /\ Len(q[n]) # 0  BY <1>2, EmptyLen, LenProperties
<1> QED  BY <1>2, <1>3, HeadTailProperties DEF Front

\* A stream that has nothing to do with a step.
LEMMA TransferRest ==
    ASSUME Typed, NEW R, NEW W, Transfer(R, W)
    PROVE  \A n \in EventStreams : n \notin R /\ n \notin DOMAIN W => q'[n] = q[n]
<1> TAKE n \in EventStreams
<1>1. PICK S : q[n] \in Seq(S)  BY StreamsTyped
<1>2. n \in Names  BY StreamsTyped
<1> QED  BY <1>1, <1>2, TransferEffect

\* An event goes from toDelay into ack_delay, and perhaps on to toTx.
LEMMA TakeEventInv ==
    ASSUME IInv, TakeEvent, UNCHANGED <<splitter, ml>>
    PROVE  IInv' /\ \A n \in Arriving : q'[n] = q[n]
<1> DEFINE ev == Front("toDelay")
           W1 == To("adReads", 1)
           W2 == [adReads |-> <<1>>, toTx |-> <<ev>>, adWrites |-> <<1>>]
           R  == {"toDelay"}
<1>0. Typed /\ ee' = ee  BY DEF IInv, TakeEvent
<1>1. Transfer(R, W1) \/ Transfer(R, W2)  BY DEF TakeEvent
<1>2. DOMAIN W1 = {"adReads"} /\ W1["adReads"] = <<1>>
      /\ DOMAIN W2 = {"adReads", "toTx", "adWrites"}
      /\ W2["adReads"] = <<1>> /\ W2["toTx"] = <<ev>> /\ W2["adWrites"] = <<1>>
  BY DEF To
<1>3. EventStreams = {"rxEvent", "timerEvent", "appEvent", "adReads", "adWrites", "txReads",
                      "toDelay", "toTx"}
      /\ EventStreams \subseteq Names
  BY <1>0, Basics DEF EventStreams, Arriving, Counting
<1>4. /\ q["toDelay"] \in Seq(Event) /\ q["toTx"] \in Seq(Event)
      /\ \A n \in Counting : q[n] \in Seq({1}) /\ Len(q[n]) \in {0, 1} /\ Depth[n] = 1
  BY <1>0, Basics, EventPathAssumption
<1> HIDE DEF ev, W1, W2
<1>5. /\ ev \in Event /\ q'["toDelay"] \in Seq(Event)
      /\ Len(q["toDelay"]) \in Nat /\ Len(q'["toDelay"]) = Len(q["toDelay"]) - 1
  <2>1. "toDelay" \in Names \cap R  BY <1>3
  <2>2. ASSUME NEW W, Transfer(R, W), "toDelay" \notin DOMAIN W
        PROVE  Front("toDelay") \in Event /\ q'["toDelay"] \in Seq(Event)
               /\ Len(q["toDelay"]) \in Nat /\ Len(q'["toDelay"]) = Len(q["toDelay"]) - 1
    <3> HIDE DEF R
    <3> QED  BY <1>4, <2>1, <2>2, TransferTake
  <2>3. "toDelay" \notin DOMAIN W1 /\ "toDelay" \notin DOMAIN W2  BY <1>2
  <2> QED  BY <1>1, <2>2, <2>3 DEF ev
<1>6. ASSUME NEW n \in Counting, NEW W, Transfer(R, W), n \in DOMAIN W, W[n] = << 1 >>
      PROVE  q'[n] \in Seq({1}) /\ Len(q'[n]) = Len(q[n]) + 1 /\ Len(q[n]) = 0 /\ Len(q'[n]) = 1
  <2>1. n \in Names \ R /\ 1 \in {1} /\ q[n] \in Seq({1})  BY <1>3, <1>4 DEF Counting
  <2>2. Len(q[n]) \in {0, 1} /\ Depth[n] = 1  BY <1>4
  <2>3. q'[n] \in Seq({1}) /\ Len(q'[n]) = Len(q[n]) + 1 /\ Room(n)
    <3> DEFINE S == {1}
    <3>1. 1 \in S /\ q[n] \in Seq(S)  BY <2>1
    <3> HIDE DEF R, S
    <3>2. q'[n] \in Seq(S) /\ Len(q'[n]) = Len(q[n]) + 1 /\ Room(n)
      BY <1>6, <2>1, <3>1, TransferPut
    <3> QED  BY <3>2 DEF S
  <2> QED  BY <2>2, <2>3 DEF Room
<1>7. /\ q'["adReads"] \in Seq({1})
      /\ Len(q["adReads"]) = 0 /\ Len(q'["adReads"]) = 1
      /\ \A n \in Arriving \cup {"txReads"} : q'[n] = q[n]
  <2>1. "adReads" \in Counting  BY DEF Counting
  <2>2. \A n \in Arriving \cup {"txReads"} :
            n \in EventStreams /\ n \notin R /\ n \notin DOMAIN W1 /\ n \notin DOMAIN W2
    BY <1>2, <1>3 DEF Arriving
  <2>3. CASE Transfer(R, W1)
    BY <1>0, <1>2, <1>6, <2>1, <2>2, <2>3, TransferRest
  <2>4. CASE Transfer(R, W2)
    BY <1>0, <1>2, <1>6, <2>1, <2>2, <2>4, TransferRest
  <2> QED  BY <1>1, <2>3, <2>4
<1>8. \/ q'["toTx"] = q["toTx"] /\ q'["adWrites"] = q["adWrites"]
      \/ /\ q'["toTx"] \in Seq(Event) /\ Len(q'["toTx"]) = Len(q["toTx"]) + 1 /\ Room("toTx")
         /\ q'["adWrites"] \in Seq({1}) /\ Len(q["adWrites"]) = 0 /\ Len(q'["adWrites"]) = 1
  <2>1. CASE Transfer(R, W1)
    <3>1. \A n \in {"toTx", "adWrites"} : n \in EventStreams /\ n \notin R /\ n \notin DOMAIN W1
      BY <1>2, <1>3
    <3> QED  BY <1>0, <2>1, <3>1, TransferRest
  <2>2. CASE Transfer(R, W2)
    <3>1. "adWrites" \in Counting  BY DEF Counting
    <3>2. "toTx" \in Names \ R  BY <1>3
    <3>3. q'["toTx"] \in Seq(Event) /\ Len(q'["toTx"]) = Len(q["toTx"]) + 1 /\ Room("toTx")
      <4> DEFINE n == "toTx"
      <4>1. n \in Names \ R /\ q[n] \in Seq(Event) /\ n \in DOMAIN W2 /\ W2[n] = <<ev>>
        BY <1>2, <1>4, <3>2
      <4> HIDE DEF n, R
      <4>2. q'[n] \in Seq(Event) /\ Len(q'[n]) = Len(q[n]) + 1 /\ Room(n)
        BY <1>5, <2>2, <4>1, TransferPut
      <4> QED  BY <4>2 DEF n
    <3>4. q'["adWrites"] \in Seq({1}) /\ Len(q["adWrites"]) = 0 /\ Len(q'["adWrites"]) = 1
      BY <1>2, <1>6, <2>2, <3>1
    <3> QED  BY <3>3, <3>4
  <2> QED  BY <1>1, <2>1, <2>2
<1> HIDE DEF R
<1>9. Len(q["toTx"]) \in Nat /\ Len(q["txReads"]) \in {0, 1} /\ Len(q["adWrites"]) \in {0, 1}
  BY <1>0, Basics DEF Counting
<1>10. Typed'
  <2>1. \A n \in Arriving \cup {"toDelay", "toTx"} : q'[n] \in Seq(Event)
    BY <1>0, <1>4, <1>5, <1>7, <1>8 DEF Typed
  <2>2. \A n \in Counting : q'[n] \in Seq({1}) /\ Len(q'[n]) <= 1
    <3>1. q'["adReads"] \in Seq({1}) /\ Len(q'["adReads"]) <= 1  BY <1>7
    <3>2. q'["txReads"] \in Seq({1}) /\ Len(q'["txReads"]) <= 1  BY <1>0, <1>7 DEF Typed, Counting
    <3>3. q'["adWrites"] \in Seq({1}) /\ Len(q'["adWrites"]) <= 1
      <4>1. q["adWrites"] \in Seq({1}) /\ Len(q["adWrites"]) <= 1  BY <1>0 DEF Typed, Counting
      <4>2. CASE q'["adWrites"] = q["adWrites"]  BY <4>1, <4>2
      <4>3. CASE q'["adWrites"] \in Seq({1}) /\ Len(q'["adWrites"]) = 1  BY <4>3
      <4> QED  BY <1>8, <4>2, <4>3
    <3> QED  BY <3>1, <3>2, <3>3 DEF Counting
  <2>3. \A n \in {"toDelay", "toTx"} : Len(q'[n]) <= Depth[n]
    <3>1. Len(q'["toDelay"]) <= Depth["toDelay"]  BY <1>0, <1>5, Basics
    <3>2. Len(q'["toTx"]) <= Depth["toTx"]  BY <1>0, <1>8, <1>9, Basics DEF Room
    <3> QED  BY <3>1, <3>2
  <2> QED  BY <1>0, <2>1, <2>2, <2>3 DEF Typed
<1>11. Counted1' /\ Counted2'
  <2>1. OnWay' = OnWay
    <3>1. OnWay' = Len(q'["toDelay"]) + Len(q'["adReads"])  BY DEF OnWay
    <3>2. OnWay' = (Len(q["toDelay"]) - 1) + 1  BY <1>5, <1>7, <3>1
    <3>3. OnWay = Len(q["toDelay"]) + 0  BY <1>7 DEF OnWay
    <3> QED  BY <1>5, <3>2, <3>3
  <2>2. Ahead' = Ahead
    <3>1. Ahead' = Len(q'["toTx"]) + Len(q'["txReads"]) - Len(q'["adWrites"])  BY DEF Ahead
    <3>2. Ahead' = Len(q'["toTx"]) + Len(q["txReads"]) - Len(q'["adWrites"])  BY <1>7, <3>1
    <3>3. CASE q'["toTx"] = q["toTx"] /\ q'["adWrites"] = q["adWrites"]
      BY <3>2, <3>3 DEF Ahead
    <3>4. CASE Len(q'["toTx"]) = Len(q["toTx"]) + 1 /\ Len(q["adWrites"]) = 0 /\ Len(q'["adWrites"]) = 1
      <4>1. Ahead' = (Len(q["toTx"]) + 1) + Len(q["txReads"]) - 1  BY <3>2, <3>4
      <4>2. Ahead = Len(q["toTx"]) + Len(q["txReads"]) - 0  BY <3>4 DEF Ahead
      <4>3. \A a \in Nat, b \in {0, 1} : (a + 1) + b - 1 = a + b - 0  OBVIOUS
      <4> QED  BY <1>9, <4>1, <4>2, <4>3
    <3> QED  BY <1>8, <3>3, <3>4
  <2> QED  BY <1>0, <2>1, <2>2 DEF IInv, Counted1, Counted2
<1>12. LastDelayed'  BY <1>7, EmptyLen DEF LastDelayed
<1> QED  BY <1>7, <1>10, <1>11, <1>12 DEF IInv

\* ack_delay sends the ACK it has held back, or counts down.
LEMMA ScanInv ==
    ASSUME IInv, NEW s \in Sessions, Scan(s), UNCHANGED <<splitter, ml>>
    PROVE  IInv' /\ \A n \in Arriving : q'[n] = q[n]
<1> DEFINE ack == [type |-> "ACK", session |-> s, rt |-> 0]
           W == [toTx |-> <<ack>>, adWrites |-> <<1>>]
           R == {}
<1>0. Typed /\ ee' = ee  BY DEF IInv, Scan
<1>1. q' = q \/ Transfer(R, W)  BY DEF Scan
<1>2. DOMAIN W = {"toTx", "adWrites"} /\ W["toTx"] = <<ack>> /\ W["adWrites"] = <<1>>  OBVIOUS
<1>3. ack \in Event /\ ack.type = "ACK"  BY DEF Event, EventType
<1>4. EventStreams = {"rxEvent", "timerEvent", "appEvent", "adReads", "adWrites", "txReads",
                      "toDelay", "toTx"}
      /\ EventStreams \subseteq Names
  BY <1>0, Basics DEF EventStreams, Arriving, Counting
<1>5. /\ q["toTx"] \in Seq(Event) /\ Len(q["toTx"]) \in Nat
      /\ q["adWrites"] \in Seq({1}) /\ Len(q["adWrites"]) \in {0, 1} /\ Depth["adWrites"] = 1
      /\ Len(q["txReads"]) \in {0, 1}
  BY <1>0, Basics, EventPathAssumption DEF Counting
<1> HIDE DEF ack, W
<1>6. CASE q' = q
  <2>1. Untouched  BY <1>6 DEF Untouched
  <2>2. IInv'
    <3>1. splitter' = splitter /\ ml' = ml  OBVIOUS
    <3>2. splitter' \in {"getMeta", "revRsp", "shortCut"}
          /\ (ml' # MlIdle => "asked" \in DOMAIN ml' /\ ml'.asked \subseteq Answers)
      BY <1>0, <3>1 DEF Typed
    <3> QED  BY <1>0, <2>1, <3>2, UntouchedInv
  <2> QED  BY <1>6, <2>2
<1>7. CASE Transfer(R, W)
  <2>1. \A n \in Arriving \cup {"toDelay", "adReads", "txReads"} : q'[n] = q[n]
    <3>1. \A n \in Arriving \cup {"toDelay", "adReads", "txReads"} :
              n \in EventStreams /\ n \notin R /\ n \notin DOMAIN W
      BY <1>2, <1>4 DEF Arriving
    <3> QED  BY <1>0, <1>7, <3>1, TransferRest
  <2>2. "toTx" \in Names \ R /\ "adWrites" \in Names \ R  BY <1>4
  <2>3. /\ q'["toTx"] = Append(q["toTx"], ack) /\ q'["toTx"] \in Seq(Event)
        /\ Len(q'["toTx"]) = Len(q["toTx"]) + 1 /\ Room("toTx")
    <3> DEFINE n == "toTx"
    <3>1. n \in Names \ R /\ q[n] \in Seq(Event) /\ n \in DOMAIN W /\ W[n] = <<ack>>
      BY <1>2, <1>5, <2>2
    <3> HIDE DEF n, R
    <3>2. q'[n] = Append(q[n], ack) /\ q'[n] \in Seq(Event) /\ Len(q'[n]) = Len(q[n]) + 1 /\ Room(n)
      BY <1>3, <1>7, <3>1, TransferPut
    <3> QED  BY <3>2 DEF n
  <2>4. q'["adWrites"] \in Seq({1}) /\ Len(q["adWrites"]) = 0 /\ Len(q'["adWrites"]) = 1
    <3> DEFINE n == "adWrites"
               S == {1}
    <3>1. n \in Names \ R /\ q[n] \in Seq(S) /\ n \in DOMAIN W /\ W[n] = <<1>> /\ 1 \in S
      BY <1>2, <1>5, <2>2
    <3> HIDE DEF n, R, S
    <3>2. q'[n] \in Seq(S) /\ Len(q'[n]) = Len(q[n]) + 1 /\ Room(n)
      BY <1>7, <3>1, TransferPut
    <3> QED  BY <1>5, <3>2 DEF n, S, Room
  <2>5. Typed'
    <3>1. \A n \in Arriving \cup {"toDelay", "toTx"} : q'[n] \in Seq(Event)
      BY <1>0, <2>1, <2>3 DEF Typed
    <3>2. \A n \in Counting : q'[n] \in Seq({1}) /\ Len(q'[n]) <= 1
      <4>1. q'["adReads"] \in Seq({1}) /\ Len(q'["adReads"]) <= 1
            /\ q'["txReads"] \in Seq({1}) /\ Len(q'["txReads"]) <= 1
        BY <1>0, <2>1 DEF Typed, Counting
      <4>2. q'["adWrites"] \in Seq({1}) /\ Len(q'["adWrites"]) <= 1  BY <2>4
      <4> QED  BY <4>1, <4>2 DEF Counting
    <3>3. \A n \in {"toDelay", "toTx"} : Len(q'[n]) <= Depth[n]
      <4>1. Len(q'["toDelay"]) <= Depth["toDelay"]  BY <1>0, <2>1, Basics
      <4>2. Len(q'["toTx"]) <= Depth["toTx"]  BY <1>0, <1>5, <2>3, Basics DEF Room
      <4> QED  BY <4>1, <4>2
    <3>4. splitter' = splitter /\ ml' = ml  OBVIOUS
    <3> QED  BY <1>0, <3>1, <3>2, <3>3, <3>4 DEF Typed
  <2>6. OnWay' = OnWay
    <3>1. q'["toDelay"] = q["toDelay"] /\ q'["adReads"] = q["adReads"]  BY <2>1
    <3> QED  BY <3>1 DEF OnWay
  <2>7. Ahead' = Ahead
    <3>1. Ahead' = Len(q'["toTx"]) + Len(q'["txReads"]) - Len(q'["adWrites"])  BY DEF Ahead
    <3>2. Ahead' = (Len(q["toTx"]) + 1) + Len(q["txReads"]) - 1  BY <2>1, <2>3, <2>4, <3>1
    <3>3. Ahead = Len(q["toTx"]) + Len(q["txReads"]) - 0  BY <2>4 DEF Ahead
    <3>4. \A a \in Nat, b \in {0, 1} : (a + 1) + b - 1 = a + b - 0  OBVIOUS
    <3> QED  BY <1>5, <3>2, <3>3, <3>4
  <2>8. LastDelayed'
    <3>1. q'["toTx"][Len(q'["toTx"])] = ack
      <4>1. q'["toTx"][Len(q["toTx"]) + 1] = ack  BY <1>3, <1>5, <2>3, AppendProperties
      <4> QED  BY <2>3, <4>1
    <3> QED  BY <1>3, <3>1 DEF LastDelayed
  <2>9. Counted1' /\ Counted2'  BY <1>0, <2>6, <2>7 DEF IInv, Counted1, Counted2
  <2> QED  BY <2>1, <2>5, <2>8, <2>9 DEF IInv
<1> QED  BY <1>1, <1>6, <1>7

-----------------------------------------------------------------------------
(***************************************************************************)
(* event_engine                                                            *)
(***************************************************************************)
\* A counter of COUNTERS values, and one more.
LEMMA CountedStep ==
    ASSUME NEW C \in Nat, C > 2, NEW a \in 0 .. C - 1, NEW n \in {0, 1}
    PROVE  (a + n) % C \in 0 .. C - 1 /\ (a + n) % C \in {a + n, a + n - C}
<1>1. CASE a + n < C
  <2>1. a + n \in 0 .. C - 1  BY <1>1
  <2> QED  BY <2>1
<1>2. CASE a + n = C
  <2>1. C % C = 0  OBVIOUS
  <2> QED  BY <1>2, <2>1
<1> QED  BY <1>1, <1>2

LEMMA ChosenFacts ==
    \/ Chosen = {}
    \/ /\ Room("toDelay")
       /\ \E s \in Arriving : /\ Chosen = {s} /\ Has(s)
                              /\ s # "rxEvent" => PathEmpty
<1>1. ASSUME NEW s \in Arriving, Chosen = {s} PROVE Has(s) /\ Room("toDelay") /\ (s # "rxEvent" => PathEmpty)
  BY <1>1 DEF Chosen, Arriving
<1>2. Chosen = {} \/ Chosen = {"rxEvent"} \/ Chosen = {"timerEvent"} \/ Chosen = {"appEvent"}
  BY DEF Chosen
<1> QED  BY <1>1, <1>2 DEF Arriving

\* Nothing that event_engine took is on its way if the counters are equal.
LEMMA EmptyPath ==
    ASSUME IInv, PathEmpty
    PROVE  ~Has("toDelay") /\ \A i \in DOMAIN q["toTx"] : q["toTx"][i].type = "ACK"
<1>1. /\ Typed /\ Counted1 /\ Counted2 /\ LastDelayed  BY DEF IInv
<1>2. /\ q["toDelay"] \in Seq(Event) /\ q["toTx"] \in Seq(Event)
      /\ q["adReads"] \in Seq({1}) /\ q["adWrites"] \in Seq({1})
  BY <1>1 DEF Typed, Counting
<1> DEFINE d == Len(q["toDelay"])
           t == Len(q["toTx"])
           a == Len(q["adReads"])
           w == Len(q["adWrites"])
           r == Len(q["txReads"])
<1>3. /\ COUNTERS \in Nat /\ d \in Nat /\ t \in Nat /\ d + 2 < COUNTERS + 1 /\ t + 2 < COUNTERS + 1
      /\ a \in {0, 1} /\ w \in {0, 1} /\ r \in {0, 1}
  BY <1>1, Basics DEF Counting
<1>4. d + a \in {0, COUNTERS}
  <2>1. ee.write - ee.adRead = 0  BY <1>1 DEF PathEmpty, Typed, Counter
  <2>2. OnWay = d + a  BY DEF OnWay
  <2> HIDE DEF d, a
  <2>3. ee.write - ee.adRead \in {OnWay, OnWay - COUNTERS}  BY <1>1 DEF Counted1
  <2>4. 0 \in {OnWay, OnWay - COUNTERS}  BY <2>1, <2>3
  <2>5. d \in Nat /\ a \in {0, 1} /\ COUNTERS \in Nat  BY <1>3
  <2> QED  BY <2>2, <2>4, <2>5
<1>5. t + r - w \in {0, COUNTERS, -COUNTERS}
  <2>1. ee.adWrite - ee.txRead = 0  BY <1>1 DEF PathEmpty, Typed, Counter
  <2>2. Ahead = t + r - w  BY DEF Ahead
  <2> HIDE DEF t, r, w
  <2>3. ee.adWrite - ee.txRead \in {Ahead - COUNTERS, Ahead, Ahead + COUNTERS}
    BY <1>1 DEF Counted2
  <2>4. 0 \in {Ahead - COUNTERS, Ahead, Ahead + COUNTERS}  BY <2>1, <2>3
  <2>5. t \in Nat /\ w \in {0, 1} /\ r \in {0, 1} /\ COUNTERS \in Nat  BY <1>3
  <2> QED  BY <2>2, <2>4, <2>5
<1>6. d = 0 /\ a = 0 /\ (t = 0 \/ (t = 1 /\ w = 1))
  <2> HIDE DEF d, t, a, w, r
  <2>1. d = 0 /\ a = 0  BY <1>3, <1>4
  <2>2. t + r - w = 0  BY <1>3, <1>5
  <2> QED  BY <1>3, <2>1, <2>2
<1>7. ~Has("toDelay") /\ q["adReads"] = <<>>  BY <1>2, <1>6, EmptyLen DEF Has
<1>8. CASE t = 0
  <2>1. DOMAIN q["toTx"] = 1 .. 0  BY <1>2, <1>8, LenProperties
  <2> QED  BY <1>7, <2>1
<1>9. CASE t = 1 /\ w = 1
  <2>1. q["toTx"] # <<>> /\ q["adWrites"] # <<>>  BY <1>9, EmptyLen
  <2>2. q["toTx"][1].type = "ACK"  BY <1>1, <1>7, <1>9, <2>1 DEF LastDelayed
  <2>3. DOMAIN q["toTx"] = 1 .. 1  BY <1>2, <1>9, LenProperties
  <2>4. \A i \in 1 .. 1 : i = 1  OBVIOUS
  <2> QED  BY <1>7, <2>2, <2>3, <2>4
<1> QED  BY <1>6, <1>8, <1>9

LEMMA EventEngineInv ==
    ASSUME IInv, EventEngine, UNCHANGED <<splitter, ml>>
    PROVE  IInv' /\ \A n \in {"timerEvent", "appEvent"} : q'[n] # q[n] => PathEmpty
<1> DEFINE R  == Chosen \cup Counts
           ev == Front(CHOOSE s \in Chosen : TRUE)
           W  == IF Chosen = {} THEN Silent ELSE To("toDelay", ev)
           c  == IF Chosen = {} THEN 0 ELSE 1
<1>0. Typed /\ Counted1 /\ Counted2  BY DEF IInv
<1>1. Transfer(R, W)  BY DEF EventEngine
<1>2. ee' = [write |-> Counted("write", c), adRead |-> Counted("adRead", One("adReads")),
             adWrite |-> Counted("adWrite", One("adWrites")),
             txRead |-> Counted("txRead", One("txReads"))]
  BY DEF EventEngine
<1>3. EventStreams = {"rxEvent", "timerEvent", "appEvent", "adReads", "adWrites", "txReads",
                      "toDelay", "toTx"}
      /\ EventStreams \subseteq Names
  BY <1>0, Basics DEF EventStreams, Arriving, Counting
<1>4. Chosen \subseteq Arriving /\ Counts \subseteq Counting  BY ChosenFacts DEF Counts
<1>5. c \in {0, 1} /\ DOMAIN W \subseteq {"toDelay"}  BY ToFacts, SilentFacts
<1>6. /\ q["toDelay"] \in Seq(Event) /\ Len(q["toDelay"]) \in Nat
      /\ q["toTx"] \in Seq(Event) /\ Len(q["toTx"]) \in Nat
      /\ \A n \in Arriving : q[n] \in Seq(Event)
      /\ \A n \in Counting : q[n] \in Seq({1}) /\ Len(q[n]) \in {0, 1}
  BY <1>0, Basics
\* The counts have all been taken.
<1>7. ASSUME NEW n \in Counting PROVE q'[n] = <<>> /\ One(n) = Len(q[n])
  <2>1. n \in EventStreams /\ n \in Names /\ n \notin DOMAIN W /\ n \notin Chosen
    BY <1>3, <1>4, <1>5 DEF EventStreams, Counting, Arriving
  <2>2. CASE q[n] = <<>>
    <3>1. n \notin Counts  BY <2>2 DEF Counts, Has
    <3>2. q'[n] = q[n]  BY <1>0, <1>1, <2>1, <3>1, TransferRest
    <3>3. Len(q[n]) = 0  BY <2>2, EmptyLen
    <3> QED  BY <2>2, <3>1, <3>2, <3>3 DEF One
  <2>3. CASE q[n] # <<>>
    <3>1. n \in Counts  BY <2>3 DEF Counts, Has
    <3> DEFINE S == {1}
    <3>2. q[n] \in Seq(S) /\ n \in Names \cap R  BY <1>6, <2>1, <3>1
    <3> HIDE DEF R, W, S
    <3>3. q'[n] \in Seq(S) /\ Len(q[n]) # 0 /\ Len(q'[n]) = Len(q[n]) - 1
      BY <1>1, <2>1, <3>2, TransferTake
    <3>4. Len(q[n]) = 1  BY <1>6, <3>3
    <3>5. Len(q'[n]) = 0  BY <3>3, <3>4
    <3>6. q'[n] = <<>>  BY <3>3, <3>5, EmptyLen
    <3> QED  BY <3>1, <3>4, <3>6 DEF One
  <2> QED  BY <2>2, <2>3
<1>8. q'["toTx"] = q["toTx"]
  <2>1. "toTx" \in EventStreams /\ "toTx" \notin R /\ "toTx" \notin DOMAIN W
    BY <1>3, <1>4, <1>5 DEF Arriving, Counting
  <2> QED  BY <1>0, <1>1, <2>1, TransferRest
\* The streams that events come by.
<1>9. ASSUME NEW n \in Arriving PROVE q'[n] \in Seq(Event) /\ (n \notin Chosen => q'[n] = q[n])
  <2>1. n \in EventStreams /\ n \in Names /\ n \notin DOMAIN W /\ n \notin Counts
    BY <1>3, <1>4, <1>5 DEF EventStreams, Counting, Arriving
  <2>2. CASE n \notin Chosen
    <3>1. q'[n] = q[n]  BY <1>0, <1>1, <2>1, <2>2, TransferRest
    <3> QED  BY <1>6, <3>1
  <2>3. CASE n \in Chosen
    <3>1. n \in Names \cap R  BY <2>1, <2>3
    <3> HIDE DEF R, W
    <3>2. q'[n] \in Seq(Event)  BY <1>1, <1>6, <2>1, <3>1, TransferTake
    <3> QED  BY <2>3, <3>2
  <2> QED  BY <2>2, <2>3
<1>10. /\ q'["toDelay"] \in Seq(Event) /\ Len(q'["toDelay"]) = Len(q["toDelay"]) + c
       /\ Chosen # {} => Room("toDelay")
  <2>1. "toDelay" \in EventStreams /\ "toDelay" \notin R /\ "toDelay" \in Names
    BY <1>3, <1>4 DEF Arriving, Counting
  <2>2. CASE Chosen = {}
    <3>1. "toDelay" \notin DOMAIN W /\ c = 0  BY <2>2, SilentFacts
    <3>2. q'["toDelay"] = q["toDelay"]  BY <1>0, <1>1, <2>1, <3>1, TransferRest
    <3> QED  BY <1>6, <2>2, <3>1, <3>2
  <2>3. CASE Chosen # {}
    <3>1. PICK s \in Arriving : Chosen = {s} /\ Has(s)  BY <2>3, ChosenFacts
    <3>2. ev = Head(q[s])  BY <3>1 DEF Front
    <3>3. ev \in Event  BY <1>6, <3>1, <3>2, HeadTailProperties DEF Has
    <3>4. "toDelay" \in DOMAIN W /\ W["toDelay"] = <<ev>> /\ c = 1  BY <2>3 DEF To
    <3> HIDE DEF R, W, ev
    <3> DEFINE n == "toDelay"
    <3>5. n \in Names \ R /\ n \in DOMAIN W /\ W[n] = <<ev>> /\ q[n] \in Seq(Event)
      BY <1>6, <2>1, <3>4
    <3> HIDE DEF n
    <3>6. q'[n] \in Seq(Event) /\ Len(q'[n]) = Len(q[n]) + 1 /\ Room(n)
      BY <1>1, <3>3, <3>5, TransferPut
    <3> QED  BY <3>4, <3>6 DEF n
  <2> QED  BY <2>2, <2>3
<1> HIDE DEF R, W, ev
<1>11. /\ COUNTERS \in Nat /\ COUNTERS > 2
       /\ Len(q["toDelay"]) + c + 2 < COUNTERS + 1 /\ Len(q["toTx"]) + 2 < COUNTERS + 1
       /\ Len(q'["toDelay"]) <= Depth["toDelay"]
  <2>1. /\ Depth["toDelay"] \in Nat /\ Depth["toDelay"] + 1 < COUNTERS /\ COUNTERS \in Nat
        /\ Len(q["toDelay"]) <= Depth["toDelay"]
        /\ Depth["toTx"] \in Nat /\ Depth["toTx"] + 1 < COUNTERS
        /\ Len(q["toTx"]) <= Depth["toTx"]
    BY <1>0, Basics
  <2>2. Depth["toDelay"] # 0
    BY <1>3, StreamsAssumption DEF Names
  <2>3. c = 0 \/ (c = 1 /\ Len(q["toDelay"]) < Depth["toDelay"])  BY <1>10 DEF Room
  <2> HIDE DEF c
  <2> QED  BY <1>6, <1>10, <2>1, <2>2, <2>3
\* One step of each counter.
<1>12. ASSUME NEW k \in {"write", "adRead", "adWrite", "txRead"}, NEW n \in {0, 1}
       PROVE  Counted(k, n) \in Counter
              /\ Counted(k, n) \in {ee[k] + n, ee[k] + n - COUNTERS} /\ ee[k] \in Counter
  <2>1. ee[k] \in Counter  BY <1>0 DEF Typed
  <2> QED  BY <1>11, <2>1, CountedStep DEF Counted, Counter
<1>13. /\ ee'.write = Counted("write", c) /\ ee'.adRead = Counted("adRead", Len(q["adReads"]))
       /\ ee'.adWrite = Counted("adWrite", Len(q["adWrites"]))
       /\ ee'.txRead = Counted("txRead", Len(q["txReads"]))
  <2>1. \A n \in Counting : One(n) = Len(q[n])  BY <1>7
  <2> QED  BY <1>2, <2>1 DEF Counting
<1> HIDE DEF c
<1>14. Typed'
  <2>1. \A n \in Arriving \cup {"toDelay", "toTx"} : q'[n] \in Seq(Event)
    BY <1>6, <1>8, <1>9, <1>10
  <2>2. \A n \in Counting : q'[n] \in Seq({1}) /\ Len(q'[n]) <= 1
    <3>1. <<>> \in Seq({1}) /\ Len(<<>>) <= 1  BY EmptySeq, EmptyLen
    <3>2. \A n \in Counting : q'[n] = <<>>  BY <1>7
    <3> QED  BY <3>1, <3>2
  <2>3. \A n \in {"toDelay", "toTx"} : Len(q'[n]) <= Depth[n]
    BY <1>0, <1>8, <1>11 DEF Typed
  <2>4. ee' \in [write : Counter, adRead : Counter, adWrite : Counter, txRead : Counter]
    <3>1. /\ Counted("write", c) \in Counter /\ Counted("adRead", One("adReads")) \in Counter
          /\ Counted("adWrite", One("adWrites")) \in Counter
          /\ Counted("txRead", One("txReads")) \in Counter
      BY <1>5, <1>12 DEF One
    <3> QED  BY <1>2, <3>1
  <2>5. splitter' = splitter /\ ml' = ml  OBVIOUS
  <2> QED  BY <1>0, <2>1, <2>2, <2>3, <2>4, <2>5 DEF Typed
<1>15. Counted1'
  <2> DEFINE d == Len(q["toDelay"])
             a == Len(q["adReads"])
             x == ee.write
             y == ee.adRead
             C == COUNTERS
  <2>1. OnWay = d + a  BY DEF OnWay
  <2>2. OnWay' = d + c
    <3>1. OnWay' = Len(q'["toDelay"]) + Len(q'["adReads"])  BY DEF OnWay
    <3>2. Len(q'["adReads"]) = 0  BY <1>7, EmptyLen DEF Counting
    <3> QED  BY <1>5, <1>6, <1>10, <3>1, <3>2
  <2>3. a \in {0, 1} /\ d \in Nat /\ c \in {0, 1} /\ C \in Nat /\ d + c + 2 < C + 1
    BY <1>5, <1>6, <1>11 DEF Counting
  <2>4. x \in 0 .. C - 1 /\ y \in 0 .. C - 1
        /\ ee'.write \in 0 .. C - 1 /\ ee'.write \in {x + c, x + c - C}
        /\ ee'.adRead \in 0 .. C - 1 /\ ee'.adRead \in {y + a, y + a - C}
    BY <1>12, <1>13, <2>3 DEF Counter
  <2>5. x - y \in {d + a, d + a - C}
    <3>1. x - y \in {OnWay, OnWay - C}  BY <1>0 DEF Counted1
    <3> HIDE DEF d, a, x, y, C
    <3> QED  BY <2>1, <2>3, <2>4, <3>1
  <2> DEFINE x2 == ee'.write
             y2 == ee'.adRead
  <2>6. x2 - y2 \in {d + c, d + c - C}
    <3> HIDE DEF d, a, x, y, C, x2, y2
    <3>1. /\ x2 \in 0 .. C - 1 /\ x2 \in {x + c, x + c - C}
          /\ y2 \in 0 .. C - 1 /\ y2 \in {y + a, y + a - C}
      BY <2>4 DEF x2, y2
    <3> QED  BY <2>3, <2>4, <2>5, <3>1
  <2>7. x2 - y2 \in {OnWay', OnWay' - C}
    <3> HIDE DEF d, a, x, y, C, x2, y2
    <3> QED  BY <2>2, <2>3, <2>6
  <2> QED  BY <2>7 DEF Counted1
<1>16. Counted2'
  <2> DEFINE t == Len(q["toTx"])
             w == Len(q["adWrites"])
             r == Len(q["txReads"])
             x == ee.adWrite
             y == ee.txRead
             C == COUNTERS
             x2 == ee'.adWrite
             y2 == ee'.txRead
  <2>1. Ahead = t + r - w  BY DEF Ahead
  <2>2. Ahead' = t
    <3>1. Ahead' = Len(q'["toTx"]) + Len(q'["txReads"]) - Len(q'["adWrites"])  BY DEF Ahead
    <3>2. Len(q'["txReads"]) = 0 /\ Len(q'["adWrites"]) = 0  BY <1>7, EmptyLen DEF Counting
    <3> QED  BY <1>6, <1>8, <3>1, <3>2
  <2>3. w \in {0, 1} /\ r \in {0, 1} /\ t \in Nat /\ C \in Nat /\ t + 2 < C + 1
    BY <1>6, <1>11 DEF Counting
  <2>4. x \in 0 .. C - 1 /\ y \in 0 .. C - 1
        /\ x2 \in 0 .. C - 1 /\ x2 \in {x + w, x + w - C}
        /\ y2 \in 0 .. C - 1 /\ y2 \in {y + r, y + r - C}
    BY <1>12, <1>13, <2>3 DEF Counter
  <2>5. x - y \in {t + r - w - C, t + r - w, t + r - w + C}
    <3>1. x - y \in {Ahead - C, Ahead, Ahead + C}  BY <1>0 DEF Counted2
    <3> HIDE DEF t, w, r, x, y, C
    <3> QED  BY <2>1, <2>3, <2>4, <3>1
  <2>6. x2 - y2 \in {t - C, t, t + C}
    <3> HIDE DEF t, w, r, x, y, C, x2, y2
    <3> QED  BY <2>3, <2>4, <2>5
  <2>7. x2 - y2 \in {Ahead' - C, Ahead', Ahead' + C}
    <3> HIDE DEF t, w, r, x, y, C, x2, y2
    <3> QED  BY <2>2, <2>3, <2>6
  <2> QED  BY <2>7 DEF Counted2
<1>17. LastDelayed'  BY <1>7 DEF LastDelayed, Counting
<1>18. \A n \in {"timerEvent", "appEvent"} : q'[n] # q[n] => PathEmpty
  <2> SUFFICES ASSUME NEW n \in {"timerEvent", "appEvent"}, q'[n] # q[n] PROVE PathEmpty  OBVIOUS
  <2>1. n \in Chosen  BY <1>9 DEF Arriving
  <2>2. n # "rxEvent"  OBVIOUS
  <2> QED  BY <2>1, <2>2, ChosenFacts
<1> QED  BY <1>14, <1>15, <1>16, <1>17, <1>18 DEF IInv

-----------------------------------------------------------------------------
(***************************************************************************)
(* The invariant                                                           *)
(***************************************************************************)
LEMMA InitIInv == Init => IInv
<1> SUFFICES ASSUME Init PROVE IInv  OBVIOUS
<1>1. PICK i \in Inputs : InitStreams(i)  BY DEF Init
<1>2. DOMAIN i \subseteq Arriving /\ \A s \in DOMAIN i : i[s] \in Seq(Event)
  BY <1>1, InputsAssumption
<1>3. Arriving \cup Counting \cup {"toDelay", "toTx"} \subseteq Names  BY EventPathAssumption
<1>4. \A n \in Names : q[n] = IF n \in DOMAIN i THEN i[n] ELSE <<>>  BY <1>1 DEF InitStreams
<1>5. \A S : <<>> \in Seq(S)  BY EmptySeq
<1>6. \A n \in Arriving : q[n] \in Seq(Event)  BY <1>2, <1>3, <1>4, <1>5
<1>7. \A n \in Counting \cup {"toDelay", "toTx"} : q[n] = <<>>
  <2>1. \A n \in Counting \cup {"toDelay", "toTx"} : n \notin Arriving
    BY DEF Counting, Arriving
  <2> QED  BY <1>2, <1>3, <1>4, <2>1
<1>8. q["toDelay"] = <<>> /\ q["toTx"] = <<>> /\ q["adReads"] = <<>> /\ q["adWrites"] = <<>>
      /\ q["txReads"] = <<>>
  BY <1>7 DEF Counting
<1>9. Len(<<>>) = 0  BY EmptyLen
<1>10. ee = [write |-> 0, adRead |-> 0, adWrite |-> 0, txRead |-> 0]
       /\ splitter = "getMeta" /\ ml = MlIdle
  BY DEF Init, InitEvents, InitPipe
<1>11. 0 \in Counter /\ \A n \in {"toDelay", "toTx"} : 0 <= Depth[n]
  <2>1. \A n \in {"toDelay", "toTx"} : Depth[n] \in Nat /\ Depth[n] + 1 < COUNTERS
    BY <1>3, StreamsAssumption, EventPathAssumption DEF Names
  <2>2. COUNTERS \in Nat  BY EventPathAssumption
  <2> QED  BY <2>1, <2>2 DEF Counter
<1>12. Typed
  <2>1. \A n \in Arriving \cup {"toDelay", "toTx"} : q[n] \in Seq(Event)  BY <1>5, <1>6, <1>7
  <2>2. \A n \in Counting : q[n] \in Seq({1}) /\ Len(q[n]) <= 1
    <3>1. <<>> \in Seq({1}) /\ Len(<<>>) <= 1  BY <1>5, <1>9
    <3> QED  BY <1>7, <3>1
  <2>3. \A n \in {"toDelay", "toTx"} : Len(q[n]) <= Depth[n]  BY <1>7, <1>9, <1>11
  <2> QED  BY <1>10, <1>11, <2>1, <2>2, <2>3 DEF Typed
<1>13. OnWay = 0 /\ Ahead = 0  BY <1>8, <1>9 DEF OnWay, Ahead
<1>14. ee.write - ee.adRead = 0 /\ ee.adWrite - ee.txRead = 0  BY <1>10
<1>15. Counted1 /\ Counted2  BY <1>13, <1>14 DEF Counted1, Counted2
<1> QED  BY <1>8, <1>12, <1>15 DEF IInv, LastDelayed

\* The action of EventsApart.
SetsOutAlone ==
    (Len(q'["timerEvent"]) < Len(q["timerEvent"]) \/ Len(q'["appEvent"]) < Len(q["appEvent"]))
    => /\ ~Has("toDelay")
       /\ \A i \in DOMAIN q["toTx"] : q["toTx"][i].type = "ACK"

\* A step keeps the invariant, and takes an event of the timers or of the
\* application only from behind an empty path.
LEMMA NextIInv ==
    ASSUME IInv, [Next]_vars
    PROVE  IInv' /\ \A n \in {"timerEvent", "appEvent"} : q'[n] # q[n] => PathEmpty
<1>0. /\ Typed
      /\ splitter \in {"getMeta", "revRsp", "shortCut"}
      /\ ml # MlIdle => "asked" \in DOMAIN ml /\ ml.asked \subseteq Answers
  BY DEF IInv, Typed
<1>1. \A n \in {"timerEvent", "appEvent"} : n \in Arriving /\ n \in EventStreams
  BY DEF Arriving, EventStreams
<1>2. CASE MlRead
  <2>1. UNCHANGED splitter  BY <1>2 DEF MlRead, pipeVars
  <2> QED  BY <1>1, <1>2, <2>1, MlReadInv
<1>3. CASE MlSend
  <2>1. splitter' = splitter /\ ee' = ee
    BY <1>3 DEF MlSend, MlSegment, MlFin, MlSyn, MlAck, MlRst, pipeVars, eventVars
  <2>2. Untouched /\ (ml' # MlIdle => "asked" \in DOMAIN ml' /\ ml'.asked \subseteq Answers)
    BY <1>0, <1>3, SendLeaves
  <2>3. IInv'  BY <1>0, <2>1, <2>2, UntouchedInv
  <2> QED  BY <1>1, <2>2, <2>3 DEF Untouched
<1>4. CASE Pipe(PipeNext)
  <2>1. PipeNext /\ ee' = ee /\ ml' = ml  BY <1>4 DEF Pipe, eventVars
  <2>2. Untouched /\ splitter' \in {"getMeta", "revRsp", "shortCut"}  BY <1>0, <2>1, PipeLeaves
  <2>3. IInv'  BY <1>0, <2>1, <2>2, UntouchedInv
  <2> QED  BY <1>1, <2>2, <2>3 DEF Untouched
<1>5. CASE Path(EventNext)
  <2>1. EventNext /\ UNCHANGED <<splitter, ml>>  BY <1>5 DEF Path, pipeVars
  <2>2. CASE EventEngine  BY <2>1, <2>2, EventEngineInv
  <2>3. CASE TakeEvent  BY <1>1, <2>1, <2>3, TakeEventInv
  <2>4. ASSUME NEW s \in Sessions, Scan(s)
        PROVE  IInv' /\ \A n \in {"timerEvent", "appEvent"} : q'[n] # q[n] => PathEmpty
    BY <1>1, <2>1, <2>4, ScanInv
  <2> QED  BY <2>1, <2>2, <2>3, <2>4 DEF EventNext
<1>6. CASE UNCHANGED vars
  <2>1. q' = q /\ ee' = ee /\ splitter' = splitter /\ ml' = ml
    BY <1>6 DEF vars, eventVars, pipeVars
  <2>2. Untouched  BY <2>1 DEF Untouched
  <2>3. IInv'  BY <1>0, <2>1, <2>2, UntouchedInv
  <2> QED  BY <2>1, <2>3
<1> QED  BY <1>2, <1>3, <1>4, <1>5, <1>6 DEF Next, MetaLoader, MlSend

\* What event_engine counts is right but for whole turns of its counters.
THEOREM Invariance == Spec => []IInv
<1>1. IInv /\ [Next]_vars => IInv'  BY NextIInv
<1> QED  BY InitIInv, <1>1, PTL DEF Spec

\* An event of a timer or of the application sets out when no event is on its
\* way to metaLoader but an ACK that ack_delay has held back.
THEOREM EventsAlone == Spec => EventsApart
<1>1. IInv /\ [Next]_vars => [SetsOutAlone]_vars
  <2> SUFFICES ASSUME IInv, [Next]_vars PROVE SetsOutAlone  OBVIOUS
  <2> SUFFICES ASSUME Len(q'["timerEvent"]) < Len(q["timerEvent"])
                      \/ Len(q'["appEvent"]) < Len(q["appEvent"])
               PROVE  ~Has("toDelay") /\ \A i \in DOMAIN q["toTx"] : q["toTx"][i].type = "ACK"
    BY DEF SetsOutAlone
  <2>1. Len(q["timerEvent"]) \in Nat /\ Len(q["appEvent"]) \in Nat
    BY Basics DEF IInv, Arriving
  <2>2. q'["timerEvent"] # q["timerEvent"] \/ q'["appEvent"] # q["appEvent"]  BY <2>1
  <2>3. PathEmpty  BY <2>2, NextIInv
  <2> QED  BY <2>3, EmptyPath
<1>2. EventsApart <=> [][SetsOutAlone]_vars  BY PTL DEF EventsApart, SetsOutAlone
<1> QED  BY <1>1, <1>2, Invariance, PTL DEF Spec
=============================================================================
