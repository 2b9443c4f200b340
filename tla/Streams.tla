------------------------------- MODULE Streams -------------------------------
(***************************************************************************)
(* Functions that run beside each other and are connected by streams: each *)
(* step of a function reads some streams and writes some, when what it     *)
(* reads is there and what it writes has room.                             *)
(***************************************************************************)
EXTENDS Integers, Sequences, TLC

CONSTANT Depth      \* depth of each stream, by its name

ASSUME StreamsAssumption == \A s \in DOMAIN Depth : Depth[s] \in Nat \ {0}

VARIABLE q          \* what is in each stream

Names == DOMAIN Depth

InitStreams(full) ==
    q = [s \in Names |-> IF s \in DOMAIN full THEN full[s] ELSE <<>>]

Has(s)   == q[s] # <<>>
Room(s)  == Len(q[s]) < Depth[s]
Front(s) == Head(q[s])

\* Nothing is written, or v to stream s.
Silent  == [s \in {} |-> <<>>]
To(s, v) == [x \in {s} |-> <<v>>]

\* All of values are written to stream s; what a writes and what b writes.
All(s, values) == [x \in {s} |-> values]
Both(a, b) == [s \in DOMAIN a \cup DOMAIN b |-> IF s \in DOMAIN a THEN a[s] ELSE b[s]]

\* A step reads the streams of reads, and appends writes[s] to the streams s it
\* has values for.
Transfer(reads, writes) ==
    /\ \A s \in reads : Has(s)
    /\ \A s \in DOMAIN writes : writes[s] # <<>> => Room(s)
    /\ q' = [s \in Names |-> (IF s \in reads THEN Tail(q[s]) ELSE q[s])
                             \o (IF s \in DOMAIN writes THEN writes[s] ELSE <<>>)]
=============================================================================
