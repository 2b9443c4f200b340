------------------------------ MODULE IpHandler ------------------------------
(***************************************************************************)
(* ip_handler (ip_handler.cpp): sorts frames into ARP and IP, checks the   *)
(* IP header and takes the MAC header off meanwhile, drops what is not     *)
(* valid, cuts the padding, and sorts packets by their protocol.           *)
(***************************************************************************)
EXTENDS Frames

VARIABLES
    dmp,            \* detect_mac_protocol
    cic,            \* check_ip_checksum
    iid,            \* ip_invalid_dropper
    cl,             \* cut_length
    dip             \* detect_ip_protocol

ipVars == <<dmp, cic, iid, cl, dip>>

NoWord == AxiWord(Pad(<<>>), 0, FALSE)

InitIpHandler ==
    /\ dmp = [rest |-> FALSE, count |-> 0, type |-> 0, prev |-> NoWord]
    /\ cic = [rest |-> FALSE, count |-> 0, sum |-> 0, len |-> 0, dst |-> <<0, 0>>, prev |-> NoWord]
    /\ iid = "getValid"
    /\ cl = [drop |-> FALSE, count |-> 0, total |-> 0]
    /\ dip = [rest |-> FALSE, count |-> 0, proto |-> 0, prev |-> NoWord]

-----------------------------------------------------------------------------
MacOutput(type, word) ==
    CASE type = ARP  -> To("arpData", word)
      [] type = IPv4 -> To("ipData", word)
      [] OTHER       -> Silent

DetectMacWord ==
    /\ ~dmp.rest /\ Has("raw") /\ Room("arpData") /\ Room("ipData")
    /\ LET word == Front("raw")
           type == IF dmp.count = 1 THEN word.data[3] ELSE dmp.type
       IN  /\ Transfer({"raw"}, IF dmp.count = 0 THEN Silent ELSE MacOutput(type, dmp.prev))
           /\ dmp' = [rest |-> word.last, prev |-> word, type |-> type,
                      count |-> IF word.last THEN 0 ELSE IF dmp.count < 2 THEN dmp.count + 1 ELSE 2]
    /\ UNCHANGED <<cic, iid, cl, dip>>

DetectMacRest ==
    /\ dmp.rest /\ Room("arpData") /\ Room("ipData")
    /\ Transfer({}, MacOutput(dmp.type, dmp.prev))
    /\ dmp' = [dmp EXCEPT !.rest = FALSE]
    /\ UNCHANGED <<cic, iid, cl, dip>>

-----------------------------------------------------------------------------
(***************************************************************************)
(* check_ip_checksum.  cic.len counts the half-words of the header that    *)
(* are to come behind the next place.  The second half of the address is   *)
(* taken from every word from the fifth on: cics_wordCount stays at 4.     *)
(***************************************************************************)
Summed ==
    CASE cic.count = 0 -> {}
      [] cic.count = 1 -> {4}
      [] cic.count \in {2, 3} -> 1 .. 4
      [] cic.len = 0 -> {}
      [] cic.len = 1 -> {1}
      [] cic.len = 2 -> 1 .. 3
      [] OTHER -> 1 .. 4

\* The header ends in this word.
HeaderEnds == cic.count = 4 /\ cic.len \in {1, 2}

ForUs(dst) == dst \in {MyIp, <<99, 99>>}

\* A word without the MAC header, which ends in the third place of one.
Stripped(word) ==
    AxiWord(<<cic.prev.data[4]>> \o First(word.data, 3),
            1 + (IF word.keep < 3 THEN word.keep ELSE 3), word.keep < 4)

CheckIpWord ==
    /\ ~cic.rest /\ Has("ipData") /\ Room("checkData") /\ Room("subSums")
    /\ LET word == Front("ipData")
           sum  == Total(<<IF cic.count = 0 THEN 0 ELSE cic.sum>>
                         \o [i \in 1 .. 4 |-> IF i \in Summed THEN word.data[i] ELSE 0])
           dst  == CASE cic.count = 3 -> <<word.data[4], cic.dst[2]>>
                     [] cic.count = 4 -> <<cic.dst[1], word.data[1]>>
                     [] OTHER -> cic.dst
       IN  /\ Transfer({"ipData"},
                       (IF HeaderEnds THEN To("subSums", [sum |-> sum, match |-> ForUs(dst)]) ELSE Silent)
                       @@ (IF cic.count >= 2 THEN To("checkData", Stripped(word)) ELSE Silent))
           /\ cic' = [rest |-> word.last /\ ~Stripped(word).last, prev |-> word, dst |-> dst, sum |-> sum,
                      len |-> CASE cic.count = 0 -> cic.len
                                [] cic.count = 1 -> word.data[4]
                                [] cic.count = 4 /\ cic.len < 3 -> 0
                                [] OTHER -> cic.len - 2,
                      count |-> IF word.last THEN 0 ELSE IF cic.count < 4 THEN cic.count + 1 ELSE 4]
    /\ UNCHANGED <<dmp, iid, cl, dip>>

CheckIpRest ==
    /\ cic.rest
    /\ Transfer({}, To("checkData", AxiWord(Pad(<<cic.prev.data[4]>>), 1, TRUE)))
    /\ cic' = [cic EXCEPT !.rest = FALSE]
    /\ UNCHANGED <<dmp, iid, cl, dip>>

\* iph_check_ip_checksum
IpVerdict ==
    /\ Has("subSums")
    /\ Transfer({"subSums"}, To("ipValid", Front("subSums").sum = 0 /\ Front("subSums").match))
    /\ UNCHANGED ipVars

-----------------------------------------------------------------------------
\* ip_invalid_dropper
GetIpValid ==
    /\ iid = "getValid"
    /\ Transfer({"ipValid"}, Silent)
    /\ iid' = IF Front("ipValid") THEN "fwd" ELSE "drop"
    /\ UNCHANGED <<dmp, cic, cl, dip>>

IpValidPass ==
    /\ iid \in {"fwd", "drop"} /\ Has("checkData")
    /\ LET word == Front("checkData")
       IN  /\ Transfer({"checkData"}, IF iid = "fwd" THEN To("dropData", word) ELSE Silent)
           /\ iid' = IF word.last THEN "getValid" ELSE iid
    /\ UNCHANGED <<dmp, cic, cl, dip>>

-----------------------------------------------------------------------------
(***************************************************************************)
(* cut_length: the word in which the packet ends by its total length is    *)
(* the last; what follows in the frame is dropped.                         *)
(***************************************************************************)
\* Mutant of Ends: a packet that fills its last word ends in the next one.
EndsLater(count, total) == (count + 1) * WORD > total

Ends(count, total) == (count + 1) * WORD >= total

CutWord ==
    /\ ~cl.drop /\ Has("dropData")
    /\ LET word  == Front("dropData")
           ends  == cl.count > 0 /\ Ends(cl.count, cl.total)
           send  == IF ends THEN AxiWord(word.data, cl.total - (cl.count * WORD), TRUE) ELSE word
       IN  /\ Transfer({"dropData"}, To("cutData", send))
           /\ cl' = [drop  |-> ends /\ ~word.last,
                     total |-> IF cl.count = 0 THEN word.data[2] ELSE cl.total,
                     count |-> IF send.last THEN 0 ELSE cl.count + 1]
    /\ UNCHANGED <<dmp, cic, iid, dip>>

CutDrop ==
    /\ cl.drop /\ Has("dropData")
    /\ Transfer({"dropData"}, Silent)
    /\ cl' = [cl EXCEPT !.drop = ~Front("dropData").last]
    /\ UNCHANGED <<dmp, cic, iid, dip>>

-----------------------------------------------------------------------------
IpOutput(proto, word) ==
    CASE proto = ICMP -> To("icmpData", word)
      [] proto = UDP  -> To("udpData", word)
      [] proto = TCP  -> To("tcpData", word)
      [] OTHER        -> Silent

IpOutputsFree == Room("icmpData") /\ Room("udpData") /\ Room("tcpData")

DetectIpWord ==
    /\ ~dip.rest /\ Has("cutData") /\ IpOutputsFree
    /\ LET word  == Front("cutData")
           proto == IF dip.count = 1 THEN word.data[1] ELSE dip.proto
       IN  /\ Transfer({"cutData"}, IF dip.count = 0 THEN Silent ELSE IpOutput(proto, dip.prev))
           /\ dip' = [rest |-> word.last, prev |-> word, proto |-> proto,
                      count |-> IF word.last THEN 0 ELSE IF dip.count < 2 THEN dip.count + 1 ELSE 2]
    /\ UNCHANGED <<dmp, cic, iid, cl>>

DetectIpRest ==
    /\ dip.rest /\ IpOutputsFree
    /\ Transfer({}, IpOutput(dip.proto, dip.prev))
    /\ dip' = [dip EXCEPT !.rest = FALSE]
    /\ UNCHANGED <<dmp, cic, iid, cl>>

IpHandlerNext ==
    \/ DetectMacWord \/ DetectMacRest \/ CheckIpWord \/ CheckIpRest \/ IpVerdict
    \/ GetIpValid \/ IpValidPass \/ CutWord \/ CutDrop \/ DetectIpWord \/ DetectIpRest
=============================================================================
