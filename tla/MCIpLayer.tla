------------------------------ MODULE MCIpLayer ------------------------------
(* Instances of IpLayer for TLC. *)
EXTENDS IpLayer

P(proto, ihl, len, least) ==
    [type |-> IPv4, proto |-> proto, kind |-> ECHO_REQUEST, ihl |-> ihl, len |-> len,
     from |-> Ip(2), to |-> MyIp, error |-> 0, icmpError |-> 0, least |-> least]
Ping == P(ICMP, 5, 2, 0)
Asked(op, to) == [P(TCP, 5, 0, 0) EXCEPT !.type = ARP, !.kind = op, !.to = to]
Send(to, len) == [to |-> to, len |-> len]

Given(frames, sends) == [frames |-> frames, sends |-> sends]

\* Lengths of headers and payloads, padding, and what is not for this host.
Received == {<<P(TCP, i, n, l), P(UDP, j, m, 24)>> :
                i \in 5 .. 6, j \in 5 .. 6, n \in 1 .. 4, m \in 2 .. 3, l \in {0, 24}}
    \cup {<<[P(TCP, 5, 2, 0) EXCEPT !.error = 1], P(UDP, 5, 1, 24), P(TCP, 6, 1, 0)>>,
          <<[P(TCP, 6, 1, 0) EXCEPT !.to = Ip(2)], [P(UDP, 5, 1, 0) EXCEPT !.to = <<99, 99>>]>>,
          <<[P(TCP, 5, 1, 24) EXCEPT !.to = Far(1)], P(44, 5, 1, 0), P(TCP, 5, 5, 0)>>,
          <<[P(TCP, 5, 4, 0) EXCEPT !.type = 9], P(UDP, 5, 3, 0)>>}

\* Pings, good and bad, and questions of other hosts, with a packet to send.
Answered == {<<Ping, P(ICMP, 5, 3, 24)>>, <<[Ping EXCEPT !.from = Far(4)], P(TCP, 5, 1, 24)>>,
             <<[Ping EXCEPT !.icmpError = 1], P(ICMP, 5, 3, 0)>>,
             <<[Ping EXCEPT !.kind = ECHO_REPLY], P(ICMP, 5, 5, 0)>>,
             <<Asked(REQUEST, MyIp), Ping>>,
             <<Asked(REQUEST, Ip(2))>>, <<Asked(REPLY, Ip(4))>>}

Inputs1 == {Given(f, <<>>) : f \in Received \cup Answered}
    \cup {Given(<<Asked(REQUEST, MyIp)>>, <<Send(Far(2), 3)>>),
          Given(<<Ping>>, <<Send(Ip(2), 4)>>),
          Given(<<>>, <<Send(Ip(2), 5), Send(Ip(4), 3)>>),
          Given(<<Asked(REPLY, Ip(4)), Asked(REQUEST, MyIp)>>, <<Send(Ip(2), 4)>>)}

Places == [s \in {"raw", "tcpData", "udpData", "tcpOut"} |-> 64]
          @@ ("checkData" :> 3) @@ ("buffer0" :> 2) @@ ("buffer2" :> 3) @@ ("packageBuffer1" :> 5)
          @@ [s \in {"arpData", "ipData", "subSums", "ipValid", "dropData", "cutData",
                     "icmpData", "arpReply", "arpInsert", "arpRequest", "arpOut",
                     "macIpReq", "macIpRsp", "ipOut", "checksum", "buffer1",
                     "frameOut", "icmpValid", "icmpChecksum", "icmpStream",
                     "icmpOut"} |-> 1]

Hosts4 == 1 .. 4
=============================================================================
