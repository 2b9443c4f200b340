------------------------------- MODULE MCTxPath -------------------------------
(* Instances of TxPath for TLC. *)
EXTENDS TxPath

CONSTANTS s0, s1

E(type, session, rt) == [type |-> type, session |-> session, rt |-> rt]

\* One place almost everywhere; the packet buffer holds a whole packet.
Places == ("rxEvent" :> 3) @@ [s \in {"timerEvent", "appEvent", "toDelay", "toTx",
                  "rxSarRsp", "txSarRsp", "isLookUp",
                  "revReq", "revRsp", "shortCut", "ipTuple", "tcpTuple", "ipHeader",
                  "tcpHeader", "readCmd", "memCmd", "accessFlag", "tcpPkg1",
                  "subSums", "checksum"} |-> 1]
          @@ [s \in {"adReads", "adWrites", "txReads"} |-> 1]
          @@ [s \in {"ipMeta", "tcpMeta"} |-> 2]
          @@ ("memData" :> 2) @@ ("tcpPkg2" :> 3)

In(rx, timer, app) == "rxEvent" :> rx @@ "timerEvent" :> timer @@ "appEvent" :> app

Scenarios == {In(<<>>, <<E("RT", s0, 1)>>, <<>>),
              In(<<>>, <<>>, <<E("TX", s1, 0)>>),
              In(<<E("ACK", s0, 0), E("ACK_NODELAY", s1, 0), E("RST", s0, 0)>>, <<>>, <<E("FIN", s1, 0)>>),
              In(<<E("ACK", s0, 0), E("RST", s0, 1)>>, <<>>, <<E("FIN", s1, 0)>>),
              In(<<E("ACK", s0, 0)>>, <<E("SYN", s1, 1)>>, <<E("FIN", s0, 0)>>),
              In(<<E("ACK", s0, 0), E("ACK", s1, 0)>>, <<>>, <<E("FIN", s1, 0)>>),
              In(<<E("SYN_ACK", s0, 0)>>, <<>>, <<E("SYN", s1, 0)>>)}

TwoSessions == {s0, s1}
ShortAndWrapped == {<<1, 0>>, <<1, 1>>}
=============================================================================
