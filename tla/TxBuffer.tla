------------------------------ MODULE TxBuffer ------------------------------
(***************************************************************************)
(* The send buffer of a session, byte by byte: what tasi_pkg_pusher writes *)
(* and what tcpPkgStitcher makes segments of.  TxFlow says which bytes are *)
(* sent when; here any part of what has been written may be the next       *)
(* segment (metaLoader asks for it, txAppStatusHandler confirms a write).  *)
(***************************************************************************)
EXTENDS WordWriter, BufferMemory, WordStitcher, BufferUse

CONSTANTS
    Starts,         \* addresses at which the first byte may be
    Pushes,         \* what the application may send, and what is dropped of it
    MaxSegments     \* a bound of the model: from this segment on all is asked for

BufferStreams == {"push", "data", "writeCmd", "writeData", "status",
                  "readCmd", "memCmd", "accessFlag", "memData", "out"}

ASSUME TxBufferAssumption ==
    /\ Starts \subseteq Nat
    /\ Pushes \subseteq Seq([len : Nat \ {0}, drop : BOOLEAN])
    /\ Names = BufferStreams

VARIABLES
    todo,           \* what the application is going to send
    given,          \* what it has sent, each push with the byte it starts behind
    written         \* bytes for which the memory has answered

vars == <<q, w, memoryVars, r, useVars, todo, given, written>>

\* Bytes of the first n pushes that are kept, and of all.
Kept(n) == IF n = 0 THEN 0
           ELSE given[n].from + (IF given[n].drop THEN 0 ELSE given[n].len)
Total   == Kept(Len(given))

Init ==
    /\ todo \in Pushes /\ given = <<>> /\ written = 0
    /\ InitStreams(Silent)
    /\ \E s \in Starts : InitUse(s)
    /\ InitWriter /\ InitMemory /\ InitStitcher

\* The application sends (tasi_metaLoader): what is kept has to fit behind what
\* has not left yet, with one byte to spare.
Send ==
    /\ todo # <<>>
    /\ LET push == Head(todo)
       IN  /\ push.drop \/ Total + push.len - Before(Len(got) + 1) < SPACE
           /\ Transfer({}, Both(To("push", [addr |-> Place(Total), len |-> push.len, drop |-> push.drop]),
                                All("data", Burst(Total + 1, push.len))))
           /\ given' = Append(given, [from |-> Total, len |-> push.len, drop |-> push.drop])
    /\ todo' = Tail(todo)
    /\ UNCHANGED <<useVars, written>>

\* The memory's answer lets the bytes be sent (txAppStatusHandler).
Confirm ==
    /\ Has("status")
    /\ Transfer({"status"}, Silent)
    /\ written' = written + Front("status")
    /\ UNCHANGED <<useVars, todo, given>>

\* metaLoader asks for the payload of the next segment.
Ask ==
    /\ \E last \in Asked + 1 .. written :
          /\ Len(asked) + 1 >= MaxSegments => last = written
          /\ Transfer({}, To("readCmd", Access(Place(Asked), last - Asked)))
          /\ asked' = Append(asked, last)
    /\ UNCHANGED <<start, burst, got, todo, given, written>>

Done ==
    /\ todo = <<>> /\ Asked = Total /\ Len(got) = Len(asked)
    /\ ~Has("push") /\ ~Has("data")
    /\ UNCHANGED vars

Next ==
    \/ Writer /\ UNCHANGED <<memoryVars, r, useVars, todo, given, written>>
    \/ Memory /\ UNCHANGED <<w, r, useVars, todo, given, written>>
    \/ Stitcher /\ UNCHANGED <<w, memoryVars, useVars, todo, given, written>>
    \/ Leave /\ UNCHANGED <<w, memoryVars, r, todo, given, written>>
    \/ (Send \/ Confirm \/ Ask) /\ UNCHANGED <<w, memoryVars, r>>
    \/ Done

Spec == Init /\ [][Next]_vars

-----------------------------------------------------------------------------
\* The second access fills the last word, and had to be moved.
Filled(i) ==
    /\ Address(i) + Length(i) > SPACE
    /\ Address(i) % WORD # 0 /\ Length(i) % WORD = 0

\* Every segment has the bytes that metaLoader asked for, whatever happened to
\* the segments before, but for those that tcpPkgStitcher gets wrong: see the
\* README.
SegmentsIntactUnlessFilled == \A i \in DOMAIN got : Filled(i) \/ Intact(i)
=============================================================================
