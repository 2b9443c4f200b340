-------------------------- MODULE SessionDirectory --------------------------
(***************************************************************************)
(* What session_lookup_controller promises its clients: a session belongs  *)
(* to one connection at a time and a connection has one session at a time. *)
(***************************************************************************)
CONSTANTS Session, Tuple, NoTuple

VARIABLE owner      \* the connection each session belongs to, or NoTuple

Init == owner = [s \in Session |-> NoTuple]

Allocate(s, t) ==
    /\ owner[s] = NoTuple
    /\ \A r \in Session : owner[r] # t
    /\ owner' = [owner EXCEPT ![s] = t]

Release(s) ==
    /\ owner[s] # NoTuple
    /\ owner' = [owner EXCEPT ![s] = NoTuple]

Next == \E s \in Session : Release(s) \/ \E t \in Tuple : Allocate(s, t)

Spec == Init /\ [][Next]_owner
=============================================================================
