------------------------------ MODULE EventPath ------------------------------
(***************************************************************************)
(* The way of an event to the TX engine: event_engine (event_engine.cpp)   *)
(* arbitrates between the RX engine, the timers and the application,       *)
(* ack_delay (ack_delay.cpp) holds acknowledgements back for a while.      *)
(*                                                                         *)
(* event_engine and ack_delay tell each other by counts of one bit what    *)
(* they have read and written.  event_engine takes a count of every stream *)
(* in each cycle (pipeline II=1, and no test keeps it from doing so), so   *)
(* that there is never more than one in a stream: ack_delay and the TX     *)
(* engine wait here until it has been taken.                               *)
(***************************************************************************)
EXTENDS Streams

CONSTANTS
    Sessions,
    Zero,           \* session 0
    COUNTERS,       \* values of a counter, 2^8 in the code
    DelayTicks      \* scans for which an acknowledgement is held back

\* The streams of events, and of the counts.
Arriving == {"rxEvent", "timerEvent", "appEvent"}
Counting == {"adReads", "adWrites", "txReads"}

\* A counter does not come round while its stream fills up.
ASSUME EventPathAssumption ==
    /\ Zero \in Sessions /\ COUNTERS \in Nat /\ DelayTicks \in Nat \ {0}
    /\ Arriving \cup Counting \cup {"toDelay", "toTx"} \subseteq Names
    /\ \A s \in Counting : Depth[s] = 1
    /\ \A s \in {"toDelay", "toTx"} : Depth[s] + 1 < COUNTERS

EventType == {"TX", "RT", "ACK", "ACK_NODELAY", "SYN", "SYN_ACK", "FIN", "RST"}
Event     == [type : EventType, session : Sessions, rt : 0 .. 7]

VARIABLES
    ee,             \* the four counters of event_engine
    ackTable,       \* ack_table
    owed            \* sessions for which an ACK has been asked for, and metaLoader
                    \*   has not handled an event since

eventVars == <<ee, ackTable, owed>>

\* rstEvent: a reset for a packet without a session names session 0, and has
\* an rt_count of 0.
Stray(ev) == ev.type = "RST" /\ ev.rt = 0

InitEvents ==
    /\ ee = [write |-> 0, adRead |-> 0, adWrite |-> 0, txRead |-> 0]
    /\ ackTable = [s \in Sessions |-> 0]
    /\ owed = {}

-----------------------------------------------------------------------------
(***************************************************************************)
(* event_engine.  The RX engine comes first; an event of a timer or of the *)
(* application is taken when the counters say that nothing is on its way.  *)
(***************************************************************************)
\* Mutant of PathEmpty: what ack_delay has written does not matter.
PathEmptyToDelay == ee.write = ee.adRead

PathEmpty == ee.write = ee.adRead /\ ee.adWrite = ee.txRead

\* The stream that is read in this cycle, if any.
Chosen ==
    IF ~Room("toDelay") THEN {}
    ELSE IF Has("rxEvent") THEN {"rxEvent"}
    ELSE IF ~PathEmpty THEN {}
    ELSE IF Has("timerEvent") THEN {"timerEvent"}
    ELSE IF Has("appEvent") THEN {"appEvent"} ELSE {}

Counts == {s \in Counting : Has(s)}

Counted(counter, n) == (ee[counter] + n) % COUNTERS

One(s) == IF s \in Counts THEN 1 ELSE 0

EventEngine ==
    /\ Chosen # {} \/ Counts # {}
    /\ Transfer(Chosen \cup Counts,
                IF Chosen = {} THEN Silent
                ELSE To("toDelay", Front(CHOOSE s \in Chosen : TRUE)))
    /\ ee' = [write |-> Counted("write", IF Chosen = {} THEN 0 ELSE 1),
              adRead |-> Counted("adRead", One("adReads")),
              adWrite |-> Counted("adWrite", One("adWrites")),
              txRead |-> Counted("txRead", One("txReads"))]
    /\ owed' = owed \cup {Front(s).session : s \in
                          {c \in Chosen : Front(c).type \in {"ACK", "ACK_NODELAY"}}}
    /\ UNCHANGED ackTable

-----------------------------------------------------------------------------
(***************************************************************************)
(* ack_delay.  An ACK starts the delay of its session, any other event     *)
(* passes and takes the place of an ACK that is held back.                 *)
(***************************************************************************)
TakeEvent ==
    /\ Has("toDelay") /\ Room("toTx") /\ Room("adReads")
    /\ LET ev == Front("toDelay")
       IN  IF ev.type = "ACK"
           THEN /\ Transfer({"toDelay"}, To("adReads", 1))
                /\ ackTable' = [ackTable EXCEPT ![ev.session] =
                                   IF @ = 0 THEN DelayTicks ELSE @]
           ELSE /\ Transfer({"toDelay"}, [adReads |-> <<1>>, toTx |-> <<ev>>,
                                         adWrites |-> <<1>>])
                /\ ackTable' = [s \in Sessions |-> IF s = ev.session THEN 0 ELSE ackTable[s]]
    /\ UNCHANGED <<ee, owed>>

\* Mutant of Scan: the TX engine is not told of the ACK.
ScanUncounted(s) ==
    /\ ~(Has("toDelay") /\ Room("toTx") /\ Room("adReads"))
    /\ IF ackTable[s] > 1
       THEN ackTable' = [ackTable EXCEPT ![s] = @ - 1] /\ UNCHANGED q
       ELSE /\ ackTable[s] = 1
            /\ Transfer({}, To("toTx", [type |-> "ACK", session |-> s, rt |-> 0]))
            /\ ackTable' = [ackTable EXCEPT ![s] = 0]
    /\ UNCHANGED <<ee, owed>>

\* Mutant of Scan: an ACK that finds no room is lost.
ScanLoses(s) ==
    /\ ~(Has("toDelay") /\ Room("toTx") /\ Room("adReads"))
    /\ ackTable[s] > 0
    /\ ackTable' = [ackTable EXCEPT ![s] = @ - 1]
    /\ IF ackTable[s] > 1 \/ ~Room("toTx") THEN UNCHANGED q
       ELSE Transfer({}, [toTx |-> <<[type |-> "ACK", session |-> s, rt |-> 0]>>,
                          adWrites |-> <<1>>])
    /\ UNCHANGED <<ee, owed>>

\* ad_pointer is at session s, in a cycle in which no event is taken.
Scan(s) ==
    /\ ~(Has("toDelay") /\ Room("toTx") /\ Room("adReads"))
    /\ IF ackTable[s] > 1
       THEN ackTable' = [ackTable EXCEPT ![s] = @ - 1] /\ UNCHANGED q
       ELSE /\ ackTable[s] = 1
            /\ Transfer({}, [toTx |-> <<[type |-> "ACK", session |-> s, rt |-> 0]>>,
                             adWrites |-> <<1>>])
            /\ ackTable' = [ackTable EXCEPT ![s] = 0]
    /\ UNCHANGED <<ee, owed>>

EventNext == EventEngine \/ TakeEvent \/ \E s \in Sessions : Scan(s)
=============================================================================
