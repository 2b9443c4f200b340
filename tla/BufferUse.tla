------------------------------ MODULE BufferUse ------------------------------
(***************************************************************************)
(* Around a buffer: bytes 1, 2, ... are written to it from address start   *)
(* on, and parts of what has been written are asked for and leave in       *)
(* bursts.                                                                 *)
(***************************************************************************)
EXTENDS BufferSpace

VARIABLES
    start,          \* address of byte 1
    asked,          \* the last byte of each burst that has been asked for
    burst, got      \* the words of the burst that is leaving, and the bursts

useVars == <<start, asked, burst, got>>

InitUse(s) == start = s /\ asked = <<>> /\ burst = <<>> /\ got = <<>>

\* Burst i is the bytes behind Before(i), as many as Length(i).
Before(i)  == IF i = 1 THEN 0 ELSE asked[i - 1]
Length(i)  == asked[i] - Before(i)
Asked      == Before(Len(asked) + 1)

\* Where the byte behind byte p is.
Place(p)   == (start + p) % SPACE
Address(i) == Place(Before(i))

\* A word of a burst leaves.
Leave ==
    /\ Has("out")
    /\ Transfer({"out"}, Silent)
    /\ LET words == Append(burst, Front("out"))
       IN  IF Front("out").last THEN got' = Append(got, words) /\ burst' = <<>>
           ELSE burst' = words /\ UNCHANGED got
    /\ UNCHANGED <<start, asked>>

\* A burst has the bytes that were asked for, in whole words up to the last.
Intact(i) == Same(got[i], Burst(Before(i) + 1, Length(i)))
=============================================================================
