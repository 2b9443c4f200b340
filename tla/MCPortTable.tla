----------------------------- MODULE MCPortTable -----------------------------
(* Instances of PortTable for TLC: bytes of two or four values. *)
EXTENDS PortTable

\* Ports as they are in packets: one of the lower half and one of the upper
\* half, neither of them the same with its bytes swapped.
TwoPorts == {Swap(1), Swap(HALF)}

\* A port of each half that the application asks to listen on.
BothHalves == {1, HALF + 1}

NoPort == {}
=============================================================================
