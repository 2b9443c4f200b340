------------------------------- MODULE TxPipe -------------------------------
(***************************************************************************)
(* The functions of the TX engine (tx_engine.cpp) behind metaLoader: they  *)
(* put a packet together from the meta data, the tuple of the session, the *)
(* payload from memory and the checksum, which come by different streams   *)
(* and meet again at the stitchers.                                        *)
(*                                                                         *)
(* A word says which packet and which tuple it was made from, and whether  *)
(* it is the last.  The three words of the IP header are one word here, as *)
(* are the second and the third of the pseudo header; alignment of the     *)
(* payload is left out.                                                    *)
(***************************************************************************)
EXTENDS Streams

\* The streams between the functions.
PipeStreams ==
    {"ipMeta", "tcpMeta", "isLookUp", "revReq", "revRsp", "shortCut", "ipTuple", "tcpTuple",
     "ipHeader", "tcpHeader", "readCmd", "accessFlag", "memCmd", "memData",
     "tcpPkg1", "tcpPkg2", "subSums", "checksum"}

ASSUME TxPipeAssumption == PipeStreams \subseteq Names

VARIABLES
    splitter,       \* tupleSplitter: "getMeta", or the stream the tuple comes from
    header,         \* pseudoHeaderConstruction: phc_currWord, phc_meta, phc_tuple
    breakdown,      \* txEngMemAccessBreakdown: the second half of an access
    stitch,         \* tcpPkgStitcher: tps_state and the access flag
    summed,         \* tx_compute_tcp_subchecksums: what has been summed up
    out,            \* pkgStitcher: ps_wordCount, and what has left of the packet
    delivered       \* the packets that have left

pipeVars == <<splitter, header, breakdown, stitch, summed, out, delivered>>

Word(pkt, tuples, last) == [pkt |-> pkt, tuples |-> tuples, last |-> last]

\* Whether the memory is accessed twice, if the flag has been read.
Unread == 2

NoAccess == [pkt |-> 0, words |-> 0]

NoWords == [pkts |-> {}, words |-> 0]
NoOut   == [state |-> "header", pkts |-> {}, tuples |-> {}, words |-> 0, sum |-> NoWords]

InitPipe ==
    /\ splitter = "getMeta"
    /\ header = [word |-> 0]
    /\ breakdown = NoAccess
    /\ stitch = [state |-> "header", flag |-> Unread, word |-> 0]
    /\ summed = NoWords
    /\ out = NoOut
    /\ delivered = <<>>

-----------------------------------------------------------------------------
\* reverseLookupTableInterface answers with the tuple of the session.
ReverseLookup ==
    /\ Has("revReq")
    /\ Transfer({"revReq"}, To("revRsp", Front("revReq")))
    /\ UNCHANGED pipeVars

\* tupleSplitter
SplitterGet ==
    /\ splitter = "getMeta" /\ Has("isLookUp")
    /\ splitter' = IF Front("isLookUp") THEN "revRsp" ELSE "shortCut"
    /\ Transfer({"isLookUp"}, Silent)
    /\ UNCHANGED <<header, breakdown, stitch, summed, out, delivered>>

\* Mutant of SplitterPass: the tuple of a short cut is taken when there is one.
SplitterPassAny ==
    /\ splitter # "getMeta"
    /\ LET from == IF Has("shortCut") THEN "shortCut" ELSE "revRsp"
       IN  /\ Has(from)
           /\ Transfer({from}, [ipTuple |-> <<Front(from)>>, tcpTuple |-> <<Front(from)>>])
    /\ splitter' = "getMeta"
    /\ UNCHANGED <<header, breakdown, stitch, summed, out, delivered>>

SplitterPass ==
    /\ splitter # "getMeta" /\ Has(splitter)
    /\ Transfer({splitter},
                [ipTuple |-> <<Front(splitter)>>, tcpTuple |-> <<Front(splitter)>>])
    /\ splitter' = "getMeta"
    /\ UNCHANGED <<header, breakdown, stitch, summed, out, delivered>>

IpHeader ==
    /\ Has("ipMeta") /\ Has("ipTuple")
    /\ Transfer({"ipMeta", "ipTuple"},
                To("ipHeader", Word(Front("ipMeta"), {Front("ipTuple")}, FALSE)))
    /\ UNCHANGED pipeVars

(***************************************************************************)
(* pseudoHeaderConstruction: the addresses, the header up to the sequence  *)
(* numbers, the word of the flags and the checksum, the option of a SYN.   *)
(***************************************************************************)
HeaderFirst ==
    /\ header.word = 0 /\ Has("tcpTuple") /\ Has("tcpMeta")
    /\ LET meta == Front("tcpMeta")
           tuple == Front("tcpTuple")
       IN  /\ header' = [word |-> 1, meta |-> meta, tuple |-> tuple]
           /\ Transfer({"tcpTuple", "tcpMeta"}, To("tcpHeader", Word(meta.pkt, {tuple} \cup meta.sars, FALSE)))
    /\ UNCHANGED <<splitter, breakdown, stitch, summed, out, delivered>>

HeaderNext ==
    /\ header.word > 0
    /\ LET last == header.word = 3 \/ (header.word = 2 /\ header.meta.length = 0)
           done == header.word = 3 \/ (header.word = 2 /\ ~header.meta.syn)
       IN  /\ Transfer({}, To("tcpHeader", [pkt |-> header.meta.pkt,
                                            tuples |-> {header.tuple} \cup header.meta.sars,
                                            last |-> last, syn |-> header.meta.syn]))
           /\ header' = IF done THEN [word |-> 0] ELSE [header EXCEPT !.word = @ + 1]
    /\ UNCHANGED <<splitter, breakdown, stitch, summed, out, delivered>>

-----------------------------------------------------------------------------
(***************************************************************************)
(* txEngMemAccessBreakdown: an access that wraps becomes two.  The memory  *)
(* (external) answers with the words of an access.                         *)
(***************************************************************************)
BreakFirst ==
    /\ breakdown = NoAccess /\ Has("readCmd")
    /\ LET cmd == Front("readCmd")
       IN  /\ Transfer({"readCmd"},
                       [memCmd |-> <<[pkt |-> cmd.pkt, words |-> cmd.first]>>,
                        accessFlag |-> <<IF cmd.second > 0 THEN 1 ELSE 0>>])
           /\ breakdown' = IF cmd.second > 0 THEN [pkt |-> cmd.pkt, words |-> cmd.second]
                           ELSE NoAccess
    /\ UNCHANGED <<splitter, header, stitch, summed, out, delivered>>

BreakSecond ==
    /\ breakdown # NoAccess
    /\ Transfer({}, To("memCmd", breakdown))
    /\ breakdown' = NoAccess
    /\ UNCHANGED <<splitter, header, stitch, summed, out, delivered>>

MemoryRead ==
    /\ Has("memCmd")
    /\ LET cmd == Front("memCmd")
       IN  Transfer({"memCmd"},
                   [memData |-> [i \in 1 .. cmd.words |-> Word(cmd.pkt, {}, i = cmd.words)]])
    /\ UNCHANGED pipeVars

-----------------------------------------------------------------------------
(***************************************************************************)
(* tcpPkgStitcher: behind the header come the option of a SYN, or the      *)
(* words of one access, or of two.                                         *)
(***************************************************************************)
StitchHeader ==
    /\ stitch.state = "header" /\ Has("tcpHeader")
    /\ LET word == Front("tcpHeader")
           flags == stitch.word = 2      \* the word of the flags
       IN  /\ Transfer({"tcpHeader"}, To("tcpPkg1", Word(word.pkt, word.tuples, word.last)))
           /\ stitch' = [state |-> IF word.last \/ ~flags THEN "header"
                                   ELSE IF word.syn THEN "option" ELSE "data",
                         flag |-> Unread,
                         word |-> IF word.last \/ flags THEN 0 ELSE stitch.word + 1]
    /\ UNCHANGED <<splitter, header, breakdown, summed, out, delivered>>

StitchOption ==
    /\ stitch.state = "option" /\ Has("tcpHeader")
    /\ LET word == Front("tcpHeader")
       IN  Transfer({"tcpHeader"}, To("tcpPkg1", Word(word.pkt, word.tuples, word.last)))
    /\ stitch' = [stitch EXCEPT !.state = "header"]
    /\ UNCHANGED <<splitter, header, breakdown, summed, out, delivered>>

StitchData ==
    /\ stitch.state = "data" /\ Has("memData")
    /\ stitch.flag = Unread => Has("accessFlag")
    /\ LET word == Front("memData")
           two  == IF stitch.flag = Unread THEN Front("accessFlag") ELSE stitch.flag
           last == word.last /\ two = 0
       IN  /\ Transfer({"memData"} \cup (IF stitch.flag = Unread THEN {"accessFlag"} ELSE {}),
                       To("tcpPkg1", Word(word.pkt, {}, last)))
           /\ stitch' = [state |-> IF last THEN "header" ELSE "data",
                         flag |-> IF word.last THEN 0 ELSE two, word |-> 0]
    /\ UNCHANGED <<splitter, header, breakdown, summed, out, delivered>>

-----------------------------------------------------------------------------
(***************************************************************************)
(* tx_compute_tcp_subchecksums sums a packet up and drops its first word,  *)
(* tx_compute_tcp_checksum folds the sums.                                 *)
(***************************************************************************)
SubChecksums ==
    /\ Has("tcpPkg1") /\ Room("tcpPkg2") /\ Room("subSums")
    /\ LET word == Front("tcpPkg1")
           sum  == [pkts |-> summed.pkts \cup {word.pkt}, words |-> summed.words + 1]
       IN  /\ Transfer({"tcpPkg1"}, [tcpPkg2 |-> IF summed.words = 0 THEN <<>> ELSE <<word>>,
                                    subSums |-> IF word.last THEN <<sum>> ELSE <<>>])
           /\ summed' = IF word.last THEN NoWords ELSE sum
    /\ UNCHANGED <<splitter, header, breakdown, stitch, out, delivered>>

Checksum ==
    /\ Has("subSums")
    /\ Transfer({"subSums"}, To("checksum", Front("subSums")))
    /\ UNCHANGED pipeVars

(***************************************************************************)
(* pkgStitcher: the IP header and the first words, the checksum into the   *)
(* word of the flags, and the rest.                                        *)
(***************************************************************************)
Joined(word) ==
    [out EXCEPT !.pkts = @ \cup {word.pkt}, !.tuples = @ \cup word.tuples, !.words = @ + 1]

Packet(o) == [pkts |-> o.pkts, tuples |-> o.tuples, words |-> o.words, sum |-> o.sum]

PkgHeader ==
    /\ out.state = "header" /\ Has("ipHeader") /\ Has("tcpPkg2")
    /\ LET ip == Front("ipHeader")
           tcp == Front("tcpPkg2")
       IN  out' = [Joined(tcp) EXCEPT !.state = "checksum", !.pkts = @ \cup {ip.pkt},
                                      !.tuples = @ \cup ip.tuples]
    /\ Transfer({"ipHeader", "tcpPkg2"}, Silent)
    /\ UNCHANGED <<splitter, header, breakdown, stitch, summed, delivered>>

PkgChecksum ==
    /\ out.state = "checksum" /\ Has("tcpPkg2") /\ Has("checksum")
    /\ LET word == Front("tcpPkg2")
           next == [Joined(word) EXCEPT !.sum = Front("checksum"), !.state = "rest"]
       IN  IF word.last THEN out' = NoOut /\ delivered' = Append(delivered, Packet(next))
           ELSE out' = next /\ UNCHANGED delivered
    /\ Transfer({"tcpPkg2", "checksum"}, Silent)
    /\ UNCHANGED <<splitter, header, breakdown, stitch, summed>>

PkgRest ==
    /\ out.state = "rest" /\ Has("tcpPkg2")
    /\ LET word == Front("tcpPkg2")
       IN  IF word.last THEN out' = NoOut /\ delivered' = Append(delivered, Packet(Joined(word)))
           ELSE out' = Joined(word) /\ UNCHANGED delivered
    /\ Transfer({"tcpPkg2"}, Silent)
    /\ UNCHANGED <<splitter, header, breakdown, stitch, summed>>

TupleSplitter == SplitterGet \/ SplitterPass
PseudoHeader  == HeaderFirst \/ HeaderNext
Breakdown     == BreakFirst \/ BreakSecond
TcpStitcher   == StitchHeader \/ StitchOption \/ StitchData
PkgStitcher   == PkgHeader \/ PkgChecksum \/ PkgRest
=============================================================================
