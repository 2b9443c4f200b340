----------------------------- MODULE PacketQueue -----------------------------
(***************************************************************************)
(* What a pipeline promises its two ends: the packets it has accepted      *)
(* leave it whole, once each and in their order.                           *)
(***************************************************************************)
EXTENDS Naturals, Sequences

VARIABLES accepted, delivered

vars == <<accepted, delivered>>

Init == accepted = <<>> /\ delivered = <<>>

Accept ==
    /\ Len(accepted') = Len(accepted) + 1
    /\ SubSeq(accepted', 1, Len(accepted)) = accepted
    /\ UNCHANGED delivered

Deliver ==
    /\ Len(delivered) < Len(accepted)
    /\ delivered' = Append(delivered, accepted[Len(delivered) + 1])
    /\ UNCHANGED accepted

Next == Accept \/ Deliver

Spec == Init /\ [][Next]_vars
=============================================================================
