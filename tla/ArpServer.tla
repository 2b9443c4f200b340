------------------------------ MODULE ArpServer ------------------------------
(***************************************************************************)
(* arp_server_subnet (arp_server_subnet.cpp): answers requests for the own *)
(* address, keeps the addresses that answers bring in a table with one     *)
(* entry for the last byte of an address, and asks for those it does not   *)
(* have.                                                                   *)
(***************************************************************************)
EXTENDS Frames

CONSTANT Hosts      \* last bytes of addresses: 0..255 in the code

VARIABLES
    apr,            \* arp_pkg_receiver: the word it is at, the places seen
    aps,            \* arp_pkg_sender: the words it still has to send
    arpTable        \* the MAC address of each host, or NoMac

arpVars == <<apr, aps, arpTable>>

NoMac == <<0, 0, 0>>

InitArpServer ==
    /\ apr = [count |-> 0, seen |-> [i \in 1 .. 24 |-> Junk]]
    /\ aps = <<>>
    /\ arpTable = [h \in Hosts |-> NoMac]

-----------------------------------------------------------------------------
\* Mutant of ArpEntry: the address is the one the frame is for.
ArpEntryOfTarget(seen) == [ip |-> SubSeq(seen, 20, 21), mac |-> SubSeq(seen, 12, 14)]

\* The host that sent the frame.
ArpEntry(seen) == [ip |-> SubSeq(seen, 15, 16), mac |-> SubSeq(seen, 12, 14)]

\* What the receiver keeps of a frame.  A frame that is too short leaves what
\* was seen of the one before.
Seen(word) == [i \in 1 .. 24 |-> IF i - (4 * apr.count) \in 1 .. 4
                                 THEN word.data[i - (4 * apr.count)] ELSE apr.seen[i]]

ArpOp(seen)  == seen[11]
ArpDst(seen) == SubSeq(seen, 20, 21)
ForMe(seen)  == ArpDst(seen) = MyIp

ArpPkgReceive ==
    /\ Has("arpData") /\ Room("arpReply") /\ Room("arpInsert")
    /\ LET word == Front("arpData")
           seen == Seen(word)
           Is(op) == word.last /\ ArpOp(seen) = op /\ ForMe(seen)
       IN  /\ Transfer({"arpData"},
                       IF Is(REQUEST) THEN To("arpReply", seen)
                       ELSE IF Is(REPLY) THEN To("arpInsert", ArpEntry(seen))
                       ELSE Silent)
           /\ apr' = [count |-> IF word.last THEN 0 ELSE apr.count + 1, seen |-> seen]
    /\ UNCHANGED <<aps, arpTable>>

-----------------------------------------------------------------------------
\* Replies go before requests.
ReplyFrame(seen) ==
    LET to == ArpEntry(seen)
    IN  WordsOf(Frame(SubSeq(seen, 4, 6), MyMac, seen[7],
                      SubSeq(seen, 8, 10) \o <<REPLY>> \o MyMac \o MyIp \o to.mac \o to.ip))

RequestFrame(ip) ==
    WordsOf(Frame(Broadcast, MyMac, ARP, ArpPacket(REQUEST, MyMac, MyIp, NoMac, ip)))

ArpPkgChoose ==
    /\ aps = <<>>
    /\ IF Has("arpReply")
       THEN Transfer({"arpReply"}, Silent) /\ aps' = ReplyFrame(Front("arpReply"))
       ELSE Transfer({"arpRequest"}, Silent) /\ aps' = RequestFrame(Front("arpRequest"))
    /\ UNCHANGED <<apr, arpTable>>

ArpPkgSend ==
    /\ aps # <<>>
    /\ Transfer({}, To("arpOut", Head(aps)))
    /\ aps' = Tail(aps)
    /\ UNCHANGED <<apr, arpTable>>

-----------------------------------------------------------------------------
\* An entry comes before a query.
ArpInsert ==
    /\ Transfer({"arpInsert"}, Silent)
    /\ arpTable' = [arpTable EXCEPT ![Host(Front("arpInsert").ip)] = Front("arpInsert").mac]
    /\ UNCHANGED <<apr, aps>>

ArpQuery ==
    /\ ~Has("arpInsert") /\ Has("macIpReq") /\ Room("arpRequest")
    /\ LET ip  == Front("macIpReq")
           mac == arpTable[Host(ip)]
       IN  Transfer({"macIpReq"},
                    To("macIpRsp", mac) @@ (IF mac = NoMac THEN To("arpRequest", ip) ELSE Silent))
    /\ UNCHANGED arpVars

ArpServerNext ==
    ArpPkgReceive \/ ArpPkgChoose \/ ArpPkgSend \/ ArpInsert \/ ArpQuery
=============================================================================
