------------------------------ MODULE MCTxBuffer ------------------------------
(* Instances of TxBuffer for TLC. *)
EXTENDS TxBuffer

Push(len, drop) == [len |-> len, drop |-> drop]

\* One function waits for another almost everywhere; the stream of a burst
\* holds it.
Places == [s \in {"push", "data", "memData"} |-> 16]
          @@ [s \in {"writeCmd", "writeData", "status", "readCmd", "memCmd",
                     "accessFlag", "out"} |-> 1]

NearTheEnd == 8 .. 15
Sends == {<<Push(a, FALSE)>> : a \in 1 .. 9}
         \cup {<<Push(a, FALSE), Push(b, FALSE)>> : a \in 1 .. 7, b \in 1 .. 5}
         \cup {<<Push(5, TRUE), Push(7, FALSE)>>,
               <<Push(12, FALSE), Push(9, FALSE), Push(5, TRUE), Push(12, FALSE)>>}
=============================================================================
