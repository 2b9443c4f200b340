---------------------------- MODULE AtomicStates ----------------------------
(***************************************************************************)
(* What the state table and its clients promise together: although a       *)
(* client reads a state, decides and writes back in separate steps, with   *)
(* queues in between, every update is one atomic transition of the TCP     *)
(* state machine applied to the current state, and a session is closed and *)
(* handed over for release in the same step.  The state machine itself is  *)
(* a parameter.                                                            *)
(***************************************************************************)
EXTENDS Sequences

CONSTANTS
    Session,
    RxTargets,      \* for each state those a packet may lead to
    CloseTarget(_)  \* for each state the one a close request leads to

VARIABLES
    state,      \* the TCP state of every session
    releases    \* sessions closed and not yet taken by the session lookup

vars == <<state, releases>>

Init ==
    /\ state = [s \in Session |-> "CLOSED"]
    /\ releases = <<>>

\* The RX engine applies one transition of the state machine.
RxUpdate(s) ==
    \E st \in RxTargets[state[s]] :
        /\ state' = [state EXCEPT ![s] = st]
        /\ releases' = IF st = "CLOSED" THEN Append(releases, s) ELSE releases

\* The application opens a connection on the session ...
Open(s) ==
    /\ state' = [state EXCEPT ![s] = "SYN_SENT"]
    /\ UNCHANGED releases

\* ... or asks for its tear-down.
Close(s) ==
    /\ state' = [state EXCEPT ![s] = CloseTarget(state[s])]
    /\ UNCHANGED releases

\* A timer closes the session.
TimeOut(s) ==
    /\ state' = [state EXCEPT ![s] = "CLOSED"]
    /\ releases' = Append(releases, s)

\* The session lookup takes a released session.
TakeRelease ==
    /\ releases # <<>>
    /\ releases' = Tail(releases)
    /\ UNCHANGED state

Next ==
    \/ \E s \in Session : RxUpdate(s) \/ Open(s) \/ Close(s) \/ TimeOut(s)
    \/ TakeRelease

Spec == Init /\ [][Next]_vars
=============================================================================
