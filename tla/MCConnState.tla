---------------------------- MODULE MCConnState ----------------------------
(* Instances of ConnState for TLC. *)
EXTENDS ConnState

NoSession  == {}
OneSession == {0}

\* Packets that open a connection or refuse one: with the close requests and
\* the timers enough to take a session through a life and back to CLOSED.
OpeningKinds == {"SYN", "ACK"}
=============================================================================
