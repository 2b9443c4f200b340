----------------------------- MODULE IcmpServer -----------------------------
(***************************************************************************)
(* icmp_server (icmp_server.cpp), as far as it answers echo requests: the  *)
(* packet is turned round while it is summed, waits in packageBuffer1 for  *)
(* the verdict behind its last word, and gets its new checksum.            *)
(***************************************************************************)
EXTENDS Frames

VARIABLES
    ics,            \* check_icmp_checksum
    dr,             \* dropper: "first", "fwd" or "drop"
    ic              \* insertChecksum: words of the packet seen

icmpVars == <<ics, dr, ic>>

InitIcmpServer ==
    /\ ics = [count |-> 0, sum |-> 0, type |-> 0, new |-> 0, prev |-> AxiWord(Pad(<<>>), 0, FALSE),
              rest |-> FALSE, compute |-> FALSE]
    /\ dr = "first" /\ ic = 0

-----------------------------------------------------------------------------
\* check_icmp_checksum, in the order of its branches.
IcmpRest ==
    /\ ics.rest
    /\ Transfer({}, To("packageBuffer1", ics.prev))
    /\ ics' = [ics EXCEPT !.rest = FALSE]
    /\ UNCHANGED <<dr, ic>>

CanRest    == ics.rest /\ Room("packageBuffer1")
CanCompute == ics.compute /\ Room("icmpValid") /\ Room("icmpChecksum")

\* The type of a request leaves the sum.
NewChecksum(old) == (old + ECHO_REQUEST) % M

IcmpCompute ==
    /\ CanCompute /\ ~CanRest
    /\ LET valid == ics.sum = 0 /\ ics.type = ECHO_REQUEST
       IN  Transfer({}, To("icmpValid", valid)
                        @@ (IF valid THEN To("icmpChecksum", NewChecksum(ics.new)) ELSE Silent))
    /\ ics' = [ics EXCEPT !.compute = FALSE]
    /\ UNCHANGED <<dr, ic>>

\* The third word: the addresses change places, and the type becomes that of a reply.
Turned(word) == [word EXCEPT !.data = SubSeq(ics.prev.data, 3, 4) \o <<ECHO_REPLY, word.data[4]>>]

IcmpWord ==
    /\ Has("icmpData") /\ Room("packageBuffer1") /\ ~CanRest /\ ~CanCompute
    /\ LET word == Front("icmpData")
       IN  /\ Transfer({"icmpData"},
                CASE ics.count = 0 -> Silent
                  [] ics.count = 2 -> To("packageBuffer1",
                        AxiWord(First(ics.prev.data, 2) \o First(word.data, 2), 4, FALSE))
                  [] OTHER -> To("packageBuffer1", ics.prev))
           /\ ics' = [count |-> IF word.last THEN 0 ELSE IF ics.count < 3 THEN ics.count + 1 ELSE 3,
                      sum   |-> CASE ics.count = 0 -> 0
                                  [] ics.count = 1 -> ics.sum
                                  [] ics.count = 2 -> Total(<<ics.sum>> \o SubSeq(word.data, 3, 4))
                                  [] OTHER -> Total(<<ics.sum>> \o Valid(word)),
                      type  |-> IF ics.count = 2 THEN word.data[3] ELSE ics.type,
                      new   |-> IF ics.count = 2 THEN word.data[4] ELSE ics.new,
                      prev  |-> IF ics.count = 2 THEN Turned(word) ELSE word,
                      rest  |-> word.last, compute |-> ics.compute \/ word.last]
    /\ UNCHANGED <<dr, ic>>

-----------------------------------------------------------------------------
\* dropper
DropperWord ==
    /\ Has("packageBuffer1") /\ Room("icmpStream")
    /\ dr = "first" => Has("icmpValid")
    /\ LET word == Front("packageBuffer1")
           pass == dr = "fwd" \/ (dr = "first" /\ Front("icmpValid"))
       IN  /\ IF dr = "first"
              THEN Transfer({"packageBuffer1", "icmpValid"},
                            IF pass THEN To("icmpStream", word) ELSE Silent)
              ELSE Transfer({"packageBuffer1"}, IF pass THEN To("icmpStream", word) ELSE Silent)
           /\ dr' = IF word.last THEN "first" ELSE IF pass THEN "fwd" ELSE "drop"
    /\ UNCHANGED <<ics, ic>>

\* insertChecksum: the third word waits for the checksum.
InsertChecksum ==
    /\ Has("icmpStream")
    /\ LET word == Front("icmpStream")
       IN  /\ IF ic = 2
              THEN Transfer({"icmpStream", "icmpChecksum"},
                            To("icmpOut", [word EXCEPT !.data[4] = Front("icmpChecksum")]))
              ELSE Transfer({"icmpStream"}, To("icmpOut", word))
           /\ ic' = IF ic > 2 /\ word.last THEN 0 ELSE IF ic < 3 THEN ic + 1 ELSE 3
    /\ UNCHANGED <<ics, dr>>

IcmpServerNext ==
    IcmpRest \/ IcmpCompute \/ IcmpWord \/ DropperWord \/ InsertChecksum
=============================================================================
