------------------------------- MODULE RxAlign -------------------------------
(***************************************************************************)
(* The first functions of the RX engine (rx_engine.cpp): they take the IP  *)
(* header and the TCP header off a packet, whose lengths are multiples of  *)
(* half a word, and move what is behind them to the start of a word.       *)
(*                                                                         *)
(* The four bytes of half a word are HALF places here, so that lengths in  *)
(* words of four bytes are multiples of HALF.  Of the IP header the first  *)
(* place holds its length and the second the total length; of the word of  *)
(* the flags the first place holds the data offset, the second the flags.  *)
(* The sum is not computed: the place of the checksum says if it is right, *)
(* and the five cycles of the verdict are one step.                        *)
(***************************************************************************)
EXTENDS Words

VARIABLES
    tle,            \* rxTcpLengthExtract
    iph,            \* rxInsertPseudoHeader
    csa,            \* rxCheckTCPchecksum
    overtaken       \* history: a packet was read while the rest of the one before
                    \* was still to be sent

alignVars == <<tle, iph, csa, overtaken>>

HALF == WORD \div 2

\* Half a word: its bytes, and how many of them count.
LowHalf(word)  == [data |-> First(word.data, HALF), keep |-> IF word.keep < HALF THEN word.keep ELSE HALF]
HighHalf(word) == [data |-> Rest(word.data, HALF), keep |-> IF word.keep < HALF THEN 0 ELSE word.keep - HALF]

NoHalf  == [data |-> [i \in 1 .. HALF |-> Junk], keep |-> 0]
NoWord  == AxiWord(Pad(<<>>), 0, FALSE)
Zeros   == AxiWord(Pad(<<>>), WORD, FALSE)

Halves(low, high, last) == AxiWord(low.data \o high.data, low.keep + high.keep, last)

\* The high half of the word before and the low half of this one: the last word
\* if the high half of this one is not used.
Shift(high, word) == Halves(high, LowHalf(word), word.keep <= HALF)

\* What a function sends of its last word if half of it is left.
Remainder(high) == Halves(high, NoHalf, TRUE)

NoMeta == [length |-> 0, srcIp |-> 0, dstIp |-> 0, ports |-> 0, seq |-> 0, ack |-> 0, flags |-> 0]

InitAlign ==
    /\ tle = [ipLen |-> 0, tcpLen |-> 0, count |-> 0, insert |-> FALSE, wasLast |-> FALSE,
              shift |-> TRUE, prev |-> NoWord]
    /\ iph = [count |-> 0, wasLast |-> FALSE, prev |-> NoWord]
    /\ csa = [off |-> 255, count |-> 0, shift |-> FALSE, wasLast |-> FALSE,
              check |-> FALSE, valid |-> 0, half |-> NoHalf, meta |-> NoMeta]
    /\ overtaken = FALSE

-----------------------------------------------------------------------------
(***************************************************************************)
(* rxTcpLengthExtract: the addresses, a word for the pseudo header, and    *)
(* what is behind the IP header.  tle.ipLen counts the rest of the header. *)
(***************************************************************************)
LengthInsert ==
    /\ tle.insert
    /\ Transfer({}, To("dataBuffer0", Zeros))
    /\ tle' = [tle EXCEPT !.insert = FALSE]
    /\ UNCHANGED <<iph, csa, overtaken>>

\* Whether the payload starts in the middle of a word.
BehindHeader == IF tle.count = 3 THEN tle.ipLen = 0 ELSE tle.shift

LengthWord ==
    /\ ~tle.insert /\ ~tle.wasLast
    /\ Has("ipRxData") /\ Room("tcpLen") /\ Room("dataBuffer0")
    /\ LET word  == Front("ipRxData")
           start == tle.count = 3 /\ tle.ipLen \in {0, 1}   \* of the TCP header
           sends == tle.count \in {2, 4} \/ start
           shift == tle.count = 2 \/ BehindHeader
           send  == IF shift THEN Shift(HighHalf(tle.prev), word) ELSE word
       IN  /\ Transfer({"ipRxData"},
                       (IF sends THEN To("dataBuffer0", send) ELSE Silent)
                       @@ (IF tle.count = 1 THEN To("tcpLen", tle.tcpLen) ELSE Silent))
           /\ tle' = [tle EXCEPT
                !.prev = word, !.insert = tle.count = 2,
                !.wasLast = word.last /\ ~send.last,
                !.shift = IF start THEN tle.ipLen = 0 ELSE @,
                !.tcpLen = IF tle.count # 0 THEN @
                           ELSE word.data[2] - (HALF * word.data[1]),
                !.ipLen = CASE tle.count = 0 -> word.data[1] - 2
                            [] tle.count = 1 -> @ - 2
                            [] tle.count = 2 -> @ - 1
                            [] start -> 0
                            [] tle.count = 3 /\ ~start -> @ - 2
                            [] OTHER -> @,
                !.count = IF word.last THEN 0
                          ELSE IF tle.count < 3 \/ start THEN @ + 1 ELSE @]
    /\ UNCHANGED <<iph, csa, overtaken>>

LengthRest ==
    /\ tle.wasLast /\ ~tle.insert
    /\ Transfer({}, To("dataBuffer0", Remainder(HighHalf(tle.prev))))
    /\ tle' = [tle EXCEPT !.wasLast = FALSE]
    /\ UNCHANGED <<iph, csa, overtaken>>

-----------------------------------------------------------------------------
(***************************************************************************)
(* rxInsertPseudoHeader: the addresses; the TCP length in place of the     *)
(* inserted word, of which half is used; the TCP header and the payload.   *)
(***************************************************************************)
PseudoWord ==
    /\ ~iph.wasLast /\ Has("dataBuffer0") /\ Room("dataBuffer1")
    /\ iph.count = 2 => Has("tcpLen")
    /\ LET word == Front("dataBuffer0")
           len  == [data |-> [i \in 1 .. HALF |-> Front("tcpLen")], keep |-> HALF]
           send == CASE iph.count = 1 -> iph.prev
                     [] iph.count = 2 -> Halves(len, LowHalf(word), FALSE)
                     [] OTHER -> Shift(HighHalf(iph.prev), word)
       IN  /\ Transfer({"dataBuffer0"} \cup (IF iph.count = 2 THEN {"tcpLen"} ELSE {}),
                       IF iph.count = 0 THEN Silent ELSE To("dataBuffer1", send))
           /\ iph' = [prev |-> word, wasLast |-> word.last /\ ~send.last,
                      count |-> IF word.last THEN 0 ELSE IF iph.count < 3 THEN iph.count + 1 ELSE 3]
    /\ UNCHANGED <<tle, csa, overtaken>>

PseudoRest ==
    /\ iph.wasLast
    /\ Transfer({}, To("dataBuffer1", Remainder(HighHalf(iph.prev))))
    /\ iph' = [iph EXCEPT !.wasLast = FALSE]
    /\ UNCHANGED <<tle, csa, overtaken>>

-----------------------------------------------------------------------------
(***************************************************************************)
(* rxCheckTCPchecksum: the fields of the header into the meta data and the *)
(* tuple, and the payload behind the options.                              *)
(***************************************************************************)
HeaderField(word) ==
    LET a == word.data[1]
        b == word.data[HALF + 1]
    IN  CASE csa.count = 0 -> [csa EXCEPT !.off = 255, !.shift = FALSE,
                                          !.meta.srcIp = a, !.meta.dstIp = b]
          [] csa.count = 1 -> [csa EXCEPT !.meta.length = a, !.meta.ports = b]
          [] csa.count = 2 -> [csa EXCEPT !.meta.seq = a, !.meta.ack = b]
          [] csa.count = 3 -> [csa EXCEPT !.off = a, !.meta.length = @ - (HALF * a),
                                          !.meta.flags = word.data[2], !.valid = b]

\* The end of the branch: the last word says whether half a word is left to send,
\* another one leaves that as it is.
After(c, word, left) ==
    [c EXCEPT !.count = IF word.last THEN 0 ELSE @ + 1,
              !.check = word.last,
              !.wasLast = IF word.last THEN left ELSE @]

\* The first branch: a word is read unless a verdict is due.
ReadsWord == ~csa.check /\ Has("dataBuffer1") /\ Room("dataBuffer2")

ChecksumHeader ==
    /\ ReadsWord /\ csa.count < 4
    /\ LET word == Front("dataBuffer1")
       IN  csa' = After(HeaderField(word), word, FALSE)
    /\ Transfer({"dataBuffer1"}, Silent)
    /\ overtaken' = (overtaken \/ csa.wasLast)
    /\ UNCHANGED <<tle, iph>>

\* Words with options.  sendWord is not set where a word holds nothing else:
\* whether half a word is taken to be left is open.
ChecksumOptions ==
    /\ ReadsWord /\ csa.count >= 4 /\ csa.off >= 6
    /\ LET word == Front("dataBuffer1")
       IN  csa' \in
             IF csa.off > 6
             THEN {After([csa EXCEPT !.off = @ - 2], word, left) : left \in BOOLEAN}
             ELSE {After([csa EXCEPT !.off = 5, !.shift = TRUE, !.half = HighHalf(word)],
                         word, word.keep > HALF)}
    /\ Transfer({"dataBuffer1"}, Silent)
    /\ UNCHANGED <<tle, iph, overtaken>>

ChecksumData ==
    /\ ReadsWord /\ csa.count >= 4 /\ csa.off < 6
    /\ LET word == Front("dataBuffer1")
           send == IF csa.shift THEN Shift(csa.half, word) ELSE word
       IN  /\ Transfer({"dataBuffer1"}, To("dataBuffer2", send))
           /\ csa' = After([csa EXCEPT !.half = IF csa.shift THEN HighHalf(word) ELSE @],
                           word, ~send.last)
    /\ UNCHANGED <<tle, iph, overtaken>>

\* The second branch: half a word that is left, if the length of the packet in
\* csa_meta, by now perhaps the next one's, says that there is payload.
ChecksumRest ==
    /\ csa.wasLast /\ Room("dataBuffer2") /\ ~ReadsWord
    /\ Transfer({}, IF csa.meta.length = 0 THEN Silent ELSE To("dataBuffer2", Remainder(csa.half)))
    /\ csa' = [csa EXCEPT !.wasLast = FALSE]
    /\ UNCHANGED <<tle, iph, overtaken>>

\* Whether rxTcpInvalidDropper waits for a verdict about the packet.
Announces(meta) == meta.length # 0

\* The third branch: the verdict, which does not wait for room for what is left
\* of the packet.  The port is asked for, which port_table answers for in the
\* order of the packets.
ChecksumDone ==
    /\ csa.check /\ ~(csa.wasLast /\ Room("dataBuffer2"))
    /\ Room("meta") /\ Room("portRsp") /\ Room("valid")
    /\ Transfer({}, (IF csa.valid = 1 THEN To("meta", csa.meta) @@ To("portRsp", csa.meta.ports)
                     ELSE Silent)
                    @@ (IF Announces(csa.meta) THEN To("valid", csa.valid) ELSE Silent))
    /\ csa' = [csa EXCEPT !.check = FALSE]
    /\ UNCHANGED <<tle, iph, overtaken>>

Align ==
    \/ LengthInsert \/ LengthWord \/ LengthRest
    \/ PseudoWord \/ PseudoRest
    \/ ChecksumHeader \/ ChecksumOptions \/ ChecksumData \/ ChecksumRest \/ ChecksumDone
=============================================================================
