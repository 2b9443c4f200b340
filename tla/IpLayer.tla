------------------------------- MODULE IpLayer -------------------------------
(***************************************************************************)
(* The layer below TCP and UDP (network_stack.v): what comes from the      *)
(* network goes through IpHandler to ArpServer, IcmpServer, UDP and TCP;   *)
(* what IcmpServer and TCP send goes through MacIpEncode, which asks       *)
(* ArpServer, to the network.  Two interconnects merge whole packets.      *)
(*                                                                         *)
(* Outside are the hosts of the network, which answer the requests of the  *)
(* ARP server, and the senders, which try again when the layer is quiet    *)
(* and something is missing, as TCP and ping do after a time.              *)
(***************************************************************************)
EXTENDS IpHandler, ArpServer, IcmpServer, MacIpEncode

CONSTANTS
    Inputs,         \* what is received and sent
    MaxLost         \* answers of hosts that the network loses

VARIABLES
    given,          \* the frames received and the packets sent
    merge,          \* source of the packet in ip_merger, or "none"
    wire,           \* mac_merger: its source, the frame in it, the frames behind it
    net             \* requests the hosts answered, answers lost, and retries

outsideVars == <<given, merge, wire, net>>
vars == <<q, ipVars, arpVars, icmpVars, macVars, outsideVars>>

-----------------------------------------------------------------------------
(***************************************************************************)
(* What is received and sent.                                              *)
(***************************************************************************)
Data(d)    == [i \in 1 .. d.len |-> 30 + i]
Payload(d) ==
    IF d.proto = ICMP THEN [Echo(d.kind, Data(d)) EXCEPT ![2] = (@ + d.icmpError) % M] ELSE Data(d)

PacketOf(d) ==
    IpHeader(d.ihl, d.proto, d.from, d.to, Len(Payload(d)), d.error) \o Payload(d)

FrameOf(d) ==
    IF d.type = ARP
    THEN Frame(Broadcast, Mac(Host(d.from)), ARP,
               ArpPacket(d.kind, Mac(Host(d.from)), d.from, NoMac, d.to))
    ELSE Padded(Frame(MyMac, Mac(9), d.type, PacketOf(d)), d.least)

\* A packet of TCP, whose checksum is still to come.
SendOf(s) == IpHeader(5, TCP, MyIp, s.to, s.len, 0) \o Data(s)

Sum(packet) == Total(SubSeq(packet, 1, 2 * packet[1]))
WithoutSum(packet) == [packet EXCEPT ![6] = Junk]

HopMac(ip) == IF ip[1] = MyIp[1] THEN Mac(Host(ip)) ELSE Mac(Host(Gateway))

ForLayer(d) == d.type = IPv4 /\ ForUs(d.to) /\ d.error = 0

\* The frame that is to answer d, and the one of s; no frame if there is none.
AnswerTo(d) ==
    CASE d.type = ARP /\ d.kind = REQUEST /\ d.to = MyIp ->
            {Frame(Mac(Host(d.from)), MyMac, ARP,
                   ArpPacket(REPLY, MyMac, MyIp, Mac(Host(d.from)), d.from))}
      [] ForLayer(d) /\ d.proto = ICMP /\ d.kind = ECHO_REQUEST /\ d.icmpError = 0 ->
            {Frame(HopMac(d.from), MyMac, IPv4,
                   IpHeader(5, ICMP, d.to, d.from, d.len + 2, 0) \o Echo(ECHO_REPLY, Data(d)))}
      [] OTHER -> {}

FrameFor(s) == Frame(HopMac(s.to), MyMac, IPv4, SendOf(s))

Out(f) == \E i \in DOMAIN wire.sent : wire.sent[i] = f

AllOut ==
    /\ \A i \in DOMAIN given.frames : \A f \in AnswerTo(given.frames[i]) : Out(f)
    /\ \A i \in DOMAIN given.sends : Out(FrameFor(given.sends[i]))

\* The frames of fs that have not been answered, and the packets of ss not sent.
Missing(fs) == [i \in DOMAIN fs |->
                  IF \A f \in AnswerTo(fs[i]) : Out(f) THEN <<>> ELSE WordsOf(FrameOf(fs[i]))]
MissingSends(ss) == [i \in DOMAIN ss |->
                      IF Out(FrameFor(ss[i])) THEN <<>> ELSE WordsOf(WithoutSum(SendOf(ss[i])))]

Init ==
    /\ \E g \in Inputs :
          /\ given = g
          /\ InitStreams(("raw" :> Flat([i \in DOMAIN g.frames |-> WordsOf(FrameOf(g.frames[i]))]))
                         @@ ("tcpOut" :> Flat([i \in DOMAIN g.sends |->
                                                 WordsOf(WithoutSum(SendOf(g.sends[i])))])))
    /\ InitIpHandler /\ InitArpServer /\ InitIcmpServer /\ InitMacIpEncode
    /\ merge = "none"
    /\ wire = [from |-> "none", part |-> <<>>, sent |-> <<>>]
    /\ net = [answered |-> 0, lost |-> 0, retries |-> 0]

-----------------------------------------------------------------------------
\* ip_merger
MergeIp ==
    /\ \E s \in {"icmpOut", "tcpOut"} :
          /\ merge \in {"none", s}
          /\ Transfer({s}, To("ipOut", Front(s)))
          /\ merge' = IF Front(s).last THEN "none" ELSE s
    /\ UNCHANGED <<ipVars, arpVars, icmpVars, macVars, given, wire, net>>

\* mac_merger, and the network behind it.
MergeMac ==
    /\ \E s \in {"arpOut", "frameOut"} :
          /\ wire.from \in {"none", s}
          /\ Transfer({s}, Silent)
          /\ LET frame == wire.part \o Valid(Front(s))
             IN  wire' = IF Front(s).last
                         THEN [from |-> "none", part |-> <<>>, sent |-> Append(wire.sent, frame)]
                         ELSE [wire EXCEPT !.from = s, !.part = frame]
    /\ UNCHANGED <<ipVars, arpVars, icmpVars, macVars, given, merge, net>>

\* The requests of the ARP server in the network, in their order.
Requests == SelectSeq(wire.sent, LAMBDA f : f[7] = ARP /\ f[11] = REQUEST)

\* The host that is asked answers; the network may lose the answer.
HostAnswers ==
    /\ net.answered < Len(Requests)
    /\ LET ip == SubSeq(Requests[net.answered + 1], 20, 21)
           answer == Frame(MyMac, Mac(Host(ip)), ARP,
                           ArpPacket(REPLY, Mac(Host(ip)), ip, MyMac, MyIp))
       IN  \/ /\ q' = [q EXCEPT !["raw"] = @ \o WordsOf(answer)]
              /\ net' = [net EXCEPT !.answered = @ + 1]
           \/ /\ net.lost < MaxLost
              /\ net' = [net EXCEPT !.answered = @ + 1, !.lost = @ + 1]
              /\ UNCHANGED q
    /\ UNCHANGED <<ipVars, arpVars, icmpVars, macVars, given, merge, wire>>

\* Nothing is under way.
Quiet ==
    /\ \A s \in Names \ {"tcpData", "udpData"} : ~Has(s)
    /\ ~dmp.rest /\ ~cic.rest /\ iid = "getValid" /\ ~cl.drop /\ ~dip.rest
    /\ aps = <<>> /\ ~ics.rest /\ ~ics.compute /\ dr = "first"
    /\ ~cics.write /\ mw.state = "waitLookup" /\ ~mw.rest
    /\ wire.from = "none" /\ net.answered = Len(Requests)

Retry ==
    /\ Quiet /\ ~AllOut /\ net.retries <= MaxLost
    /\ q' = [q EXCEPT !["raw"] = Flat(Missing(given.frames)),
                      !["tcpOut"] = Flat(MissingSends(given.sends))]
    /\ net' = [net EXCEPT !.retries = @ + 1]
    /\ UNCHANGED <<ipVars, arpVars, icmpVars, macVars, given, merge, wire>>

Done ==
    /\ Quiet /\ (AllOut \/ net.retries > MaxLost)
    /\ UNCHANGED vars

Next ==
    \/ IpHandlerNext   /\ UNCHANGED <<arpVars, icmpVars, macVars, outsideVars>>
    \/ ArpServerNext   /\ UNCHANGED <<ipVars, icmpVars, macVars, outsideVars>>
    \/ IcmpServerNext  /\ UNCHANGED <<ipVars, arpVars, macVars, outsideVars>>
    \/ MacIpEncodeNext /\ UNCHANGED <<ipVars, arpVars, icmpVars, outsideVars>>
    \/ MergeIp \/ MergeMac \/ HostAnswers \/ Retry \/ Done

Spec == Init /\ [][Next]_vars

-----------------------------------------------------------------------------
\* The words of the packets of a protocol that are for this host and whose
\* header is right, in the order in which they came, without MAC header and padding.
SortedWords(proto) ==
    Flat([i \in DOMAIN given.frames |->
            IF ForLayer(given.frames[i]) /\ given.frames[i].proto = proto
            THEN WordsOf(PacketOf(given.frames[i])) ELSE <<>>])

IsPrefixOf(s, t) == Len(s) <= Len(t) /\ s = SubSeq(t, 1, Len(s))

\* TCP and UDP get the packets for them and no others, in order, each with the
\* verdict of its own header: verdicts and packets go different ways.
PacketsSorted ==
    /\ IsPrefixOf(q["tcpData"], SortedWords(TCP))
    /\ IsPrefixOf(q["udpData"], SortedWords(UDP))
    /\ Quiet => /\ Len(q["tcpData"]) = Len(SortedWords(TCP))
                /\ Len(q["udpData"]) = Len(SortedWords(UDP))

Expected ==
    UNION {AnswerTo(given.frames[i]) : i \in DOMAIN given.frames}
    \cup {FrameFor(given.sends[i]) : i \in DOMAIN given.sends}

Asks(ip) == Frame(Broadcast, MyMac, ARP, ArpPacket(REQUEST, MyMac, MyIp, NoMac, ip))
Hops     == {Ip(h) : h \in Hosts}

\* What goes to the network is a question for a host of the network, or a frame
\* that is expected: to the next hop, with the checksums of what it carries, and
\* not twice.
FramesAddressed ==
    \A i \in DOMAIN wire.sent :
        \/ \E ip \in Hops : wire.sent[i] = Asks(ip)
        \/ /\ wire.sent[i] \in Expected
           /\ \A j \in DOMAIN wire.sent : j # i => wire.sent[j] # wire.sent[i]

\* A packet whose next hop was not known is lost, but the answer that it asked
\* for is in the table when it is sent again: one retry more than answers lost is
\* enough.
RetryGetsThrough == (Quiet /\ net.retries > net.lost) => AllOut
=============================================================================
