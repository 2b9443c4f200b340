----------------------------- MODULE BufferSpace -----------------------------
(***************************************************************************)
(* The buffer of a session: SPACE bytes of memory, which are written and   *)
(* read by accesses (mmCmd).                                               *)
(***************************************************************************)
EXTENDS Words

CONSTANT SPACE      \* bytes of a session's buffer: 65536 in the code

ASSUME SpaceAssumption == SPACE \in Nat \ {0} /\ SPACE % WORD = 0

Access(addr, len) == [addr |-> addr, len |-> len]
=============================================================================
