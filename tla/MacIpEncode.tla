----------------------------- MODULE MacIpEncode -----------------------------
(***************************************************************************)
(* mac_ip_encode (mac_ip_encode.cpp): puts the checksum into the IP header *)
(* of what is sent, asks the ARP server for the MAC address of the next    *)
(* hop, and puts the MAC header before the packet.  A packet whose next    *)
(* hop is not known is dropped.                                            *)
(***************************************************************************)
EXTENDS Frames

VARIABLES
    cics,           \* compute_ip_checksum
    ici, eia,       \* ip_checksum_insert and extract_ip_address: words seen
    mw              \* handle_arp_reply

macVars == <<cics, ici, eia, mw>>

InitMacIpEncode ==
    /\ cics = [count |-> 0, len |-> 0, sum |-> 0, write |-> FALSE]
    /\ ici = 0 /\ eia = 0
    /\ mw = [state |-> "waitLookup", rest |-> FALSE, prev |-> AxiWord(Pad(<<>>), 0, FALSE)]

-----------------------------------------------------------------------------
(***************************************************************************)
(* compute_ip_checksum.  cics.len counts the half-words of the header that *)
(* are left; the field of the checksum itself is not summed.               *)
(***************************************************************************)
Adds ==
    CASE cics.count = 0 -> 1 .. 4
      [] cics.count = 1 -> {1, 3, 4}
      [] cics.len = 0 -> {}
      [] cics.len = 3 -> 1 .. 2
      [] OTHER -> 1 .. 4

EncSumWord ==
    /\ ~cics.write /\ Has("ipOut") /\ Room("buffer0")
    /\ LET word == Front("ipOut")
           part == [i \in 1 .. 4 |-> IF i \in Adds THEN word.data[i] ELSE 0]
           ends == cics.count = 2 /\ cics.len \in {3, 4}
       IN  /\ Transfer({"ipOut"}, To("buffer0", word))
           /\ cics' = [sum   |-> Total(<<cics.sum>> \o part),
                       write |-> ends,
                       len   |-> CASE cics.count = 0 -> word.data[1]
                                   [] cics.count = 2 /\ (ends \/ cics.len = 0) -> 0
                                   [] OTHER -> cics.len - 2,
                       count |-> IF word.last THEN 0 ELSE IF cics.count = 0 THEN 1 ELSE 2]
    /\ UNCHANGED <<ici, eia, mw>>

\* Nothing is read until the checksum is written.
EncSumWrite ==
    /\ cics.write
    /\ Transfer({}, To("checksum", Complement(cics.sum)))
    /\ cics' = [cics EXCEPT !.sum = 0, !.write = FALSE]
    /\ UNCHANGED <<ici, eia, mw>>

-----------------------------------------------------------------------------
NextCount(count, word) == IF word.last THEN 0 ELSE IF count < 3 THEN count + 1 ELSE 3

\* ip_checksum_insert: the second word waits for the checksum.
ChecksumInsert ==
    /\ Has("buffer0")
    /\ LET word == Front("buffer0")
       IN  /\ IF ici = 1
              THEN Transfer({"buffer0", "checksum"},
                            To("buffer1", [word EXCEPT !.data[2] = Front("checksum")]))
              ELSE Transfer({"buffer0"}, To("buffer1", word))
           /\ ici' = NextCount(ici, word)
    /\ UNCHANGED <<cics, eia, mw>>

\* Mutant of NextHop: hosts of other networks are asked for themselves.
NextHopDirect(ip) == ip

\* The next hop on the way to an address.
NextHop(ip) == IF ip[1] = Gateway[1] THEN ip ELSE Gateway

\* extract_ip_address: a packet ends in its fourth word or later.
ExtractIp ==
    /\ Has("buffer1") /\ Room("macIpReq")
    /\ LET word == Front("buffer1")
       IN  /\ Transfer({"buffer1"},
                       To("buffer2", word)
                       @@ (IF eia = 2 THEN To("macIpReq", NextHop(First(word.data, 2))) ELSE Silent))
           /\ eia' = IF eia < 3 THEN eia + 1 ELSE NextCount(eia, word)
    /\ UNCHANGED <<cics, ici, mw>>

-----------------------------------------------------------------------------
(***************************************************************************)
(* handle_arp_reply.  The packet is moved by three places.                 *)
(***************************************************************************)
WaitLookup ==
    /\ ~mw.rest /\ mw.state = "waitLookup"
    /\ Has("macIpRsp") /\ Room("frameOut")
    /\ LET mac == Front("macIpRsp")
           hit == mac # <<0, 0, 0>>
       IN  /\ Transfer({"macIpRsp"},
                       IF hit THEN To("frameOut", AxiWord(mac \o First(MyMac, 1), 4, FALSE)) ELSE Silent)
           /\ mw' = [mw EXCEPT !.state = IF hit THEN "writeFirst" ELSE "drop"]
    /\ UNCHANGED <<cics, ici, eia>>

WriteFirst ==
    /\ ~mw.rest /\ mw.state = "writeFirst" /\ Has("buffer2")
    /\ LET word == Front("buffer2")
       IN  /\ Transfer({"buffer2"},
                       To("frameOut", AxiWord(Tail(MyMac) \o <<IPv4, word.data[1]>>, 4, FALSE)))
           /\ mw' = [state |-> "write", rest |-> FALSE, prev |-> word]
    /\ UNCHANGED <<cics, ici, eia>>

\* Nothing of the word is left behind the one that is sent.
EndsHere(word) == word.keep <= 1

WriteWord ==
    /\ ~mw.rest /\ mw.state = "write" /\ Has("buffer2")
    /\ LET word == Front("buffer2")
           send == AxiWord(Rest(mw.prev.data, 1) \o First(word.data, 1),
                           3 + (IF word.keep < 1 THEN word.keep ELSE 1), EndsHere(word))
       IN  /\ Transfer({"buffer2"}, To("frameOut", send))
           /\ mw' = [state |-> IF word.last THEN "waitLookup" ELSE "write",
                     rest |-> word.last /\ ~send.last, prev |-> word]
    /\ UNCHANGED <<cics, ici, eia>>

WriteRest ==
    /\ mw.rest
    /\ Transfer({}, To("frameOut", AxiWord(Pad(Rest(mw.prev.data, 1)), mw.prev.keep - 1, TRUE)))
    /\ mw' = [mw EXCEPT !.rest = FALSE]
    /\ UNCHANGED <<cics, ici, eia>>

DropWord ==
    /\ ~mw.rest /\ mw.state = "drop" /\ Has("buffer2")
    /\ Transfer({"buffer2"}, Silent)
    /\ mw' = [mw EXCEPT !.state = IF Front("buffer2").last THEN "waitLookup" ELSE "drop"]
    /\ UNCHANGED <<cics, ici, eia>>

MacIpEncodeNext ==
    \/ EncSumWord \/ EncSumWrite \/ ChecksumInsert \/ ExtractIp
    \/ WaitLookup \/ WriteFirst \/ WriteWord \/ WriteRest \/ DropWord
=============================================================================
