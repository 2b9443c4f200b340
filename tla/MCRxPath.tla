------------------------------ MODULE MCRxPath ------------------------------
(* Instances of RxPath for TLC. *)
EXTENDS RxPath

P(kind, at, len) ==
    [kind |-> kind, at |-> at, len |-> len, ihl |-> 5, off |-> 5, port |-> Used, valid |-> 1]

Ack == 1
Fin == 2
Syn == 3
Rst == 4

Bad(p)     == [p EXCEPT !.valid = 0]
At(port, p) == [p EXCEPT !.port = port]
With(ihl, off, p) == [p EXCEPT !.ihl = ihl, !.off = off]

Headers == {<<With(i, o, P(Ack, 0, n)), With(o, i, P(Ack, n, m))>> :
               i \in 5 .. 8, o \in 5 .. 8, n \in {0, 3}, m \in {1, 4}}

Fates == {<<P(Ack, 0, 2), P(Ack, 2, 4), P(Ack, 6, 3)>>,
          <<P(Ack, 0, 5), P(Fin, 5, 0)>>,
          <<P(Ack, 3, 2), P(Ack, 0, 3), P(Ack, 3, 2)>>,
          <<Bad(P(Ack, 0, 3)), P(Ack, 0, 0), P(Ack, 0, 5)>>,
          <<At(ClosedPort, P(Ack, 0, 2)), At(OpenPort, P(Ack, 0, 2)), P(Ack, 0, 5)>>,
          <<P(Ack, 0, 3), P(Fin, 3, 2), P(Fin, 3, 2)>>,
          <<P(Fin, 2, 2), P(Ack, 0, 2), P(Fin, 2, 0)>>,
          <<P(Ack, 0, 3), P(Rst, 3, 0), P(Ack, 3, 3)>>,
          <<P(Syn, 0, 0), P(Ack, 0, 6), At(ClosedPort, P(Rst, 0, 0))>>}

\* Half a word is left of each of the first two, and a third packet follows.
Followed == {<<With(5, 6, P(Ack, 0, 5)), With(5, 6, P(Ack, 5, 5)), p>> :
                p \in {P(Ack, 5, 0), With(5, 6, P(Ack, 5, 1))}}

Places == ("ipRxData" :> 64)
          @@ [s \in {"tcpLen", "memData", "notifications"} |-> 3]
          @@ ("dataBuffer2" :> 2)
          @@ [s \in {"dataBuffer0", "dataBuffer1", "dataBuffer3", "data", "push",
                     "valid", "meta", "portRsp", "lookupRsp", "fsmMeta",
                     "metaDrop", "fsmDrop", "metaEvent", "fsmEvent",
                     "doubleAccess", "notification", "appNotification",
                     "writeCmd", "writeData", "status", "readCmd", "memCmd",
                     "accessFlag", "out"} |-> 1]

NearTheEnd == {5}
Sequences == Headers \cup Fates \cup Followed
=============================================================================
