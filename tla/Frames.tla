-------------------------------- MODULE Frames --------------------------------
(***************************************************************************)
(* Frames of the network, as the functions of the IP layer see them: words *)
(* of four places, and a place is two bytes.  A MAC address is three       *)
(* places, an IP address two: the network and the host in it.  Numbers     *)
(* stand for what the fields hold; sums are taken modulo M.                *)
(***************************************************************************)
EXTENDS Words

ASSUME FramesAssumption == WORD = 4

M == 101            \* 65535 in the code: sums of one's complements

ARP  == 6           \* MAC types
IPv4 == 8
ICMP == 1           \* IP protocols
UDP  == 17
TCP  == 60
REQUEST == 1        \* of ARP
REPLY   == 2
ECHO_REQUEST == 8   \* of ICMP
ECHO_REPLY   == 0

Mac(host)   == <<(10 * host) + 1, (10 * host) + 2, (10 * host) + 3>>
Ip(host)    == <<1, host>>                  \* in the network of this host
Far(host)   == <<2, host>>                  \* in another one
Host(ip)    == ip[2]
MyMac       == Mac(1)
MyIp        == Ip(1)
Gateway     == Ip(3)
Broadcast   == <<99, 99, 99>>

LOCAL Seqs == INSTANCE SequencesExt
Total(places) == Seqs!FoldSeq(LAMBDA a, b : (a + b) % M, 0, places)

\* The number that makes a sum zero.
Complement(sum) == (M - sum) % M

\* The words that carry the places.
WordsOf(places) ==
    [k \in DOMAIN Burst(1, Len(places)) |->
        LET word == Burst(1, Len(places))[k]
        IN  [word EXCEPT !.data = Pad([j \in 1 .. word.keep |-> places[@[j]]])]]

-----------------------------------------------------------------------------
\* An IP packet: ihl half-words of header, of which two each are options behind
\* the fifth, and its payload.
IpHeader(ihl, proto, from, to, len, error) ==
    LET options == [i \in 1 .. 2 * (ihl - 5) |-> 20 + i]
        before  == <<ihl, (2 * ihl) + len, 0, 0, proto>>
        behind  == from \o to \o options
    IN  before \o <<Complement(Total(before \o behind)) + error>> \o behind

\* An echo message of ICMP.
Echo(type, data) == <<type, Complement(Total(<<type>> \o data))>> \o data

\* Frames are padded to the length of the shortest.
Padded(places, least) ==
    [i \in 1 .. IF Len(places) < least THEN least ELSE Len(places) |->
        IF i <= Len(places) THEN places[i] ELSE Junk]

Frame(to, from, type, payload) == to \o from \o <<type>> \o payload

ArpPacket(op, mac, ip, otherMac, otherIp) ==
    <<1, IPv4, 64, op>> \o mac \o ip \o otherMac \o otherIp
=============================================================================
