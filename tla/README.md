# TLA+ specifications of the BOE TCP offload engine

BOE is a network stack in hardware: C++ for high-level synthesis under
`src/hls`, put together by RTL under `src/rtl`.  Its core logic is the TCP
offload engine (TOE), `src/hls/toe`: some fifty small functions which all run
in every clock cycle and talk through FIFO streams only.  There is no call
stack and no scheduler.  What is hard about it is what is hard about a
distributed system: state that is read in one cycle and written some cycles
later, by several parties; queues in which messages of an old connection
wait while the session ID is already used for a new one; streams that are
full; parts of one packet that take different ways and have to meet again.

## Inventory

| part (`src/hls/toe/` unless a path is given) | state | operations | talks to | hard about it | correct when |
|---|---|---|---|---|---|
| `state_table` | `state_table[]`, two locks, three held-back accesses | read, write, read-modify-write, release by a timer | rx_engine, tx_app_if, tx_app_stream_if, timers, session lookup | a read and its write are cycles apart; two locks; starvation | updates are atomic; every access is served |
| `rx_engine`: `rxTcpFSM` | state of the packet at hand | one transition for each packet | state table, SAR tables, timers, event engine, applications | every path must write the state back; sequences of packets | the TCP state machine; the ID is released when it closes |
| `rx_engine`: packet pipeline | packet at hand, two droppers, counter of notifications | take headers off, checksum, port check, session lookup, drop, write to memory, notify | port table, session lookup, memory | answers and packets in separate streams must stay aligned; limits | the application reads the stream; what is acknowledged is delivered |
| `rx_sar_table`, `rx_app_if`, `rx_app_stream_if`, `rxAppWrapper` | `recvd` and `appd` of a session; request at hand | listen, read data, merge two accesses of memory | port table, memory | wrap of the buffer; the pointer moves before the read | data in order, nothing unread overwritten |
| `tx_app_if` | close request at hand | open, close, answers to the application | port table, session lookup, state table, event engine | opens that fail half-way; answers of three sources | an open gets one answer; what it took is given back |
| `tx_app_stream_if`, `tx_app_interface` | request at hand, `app_table` | check state and space, write data, push pointer | state table, TX SAR, memory, event engine | space modulo 2^16; statuses and events in separate streams | no data in a closed session, no overwriting |
| `tx_sar_table` | window, pointers, congestion window of a session | read, push, update, retransmit | rx_engine, tx_engine, application | three writers of one entry | sends what the window allows |
| `tx_engine`: `metaLoader` | event at hand, entry at hand | decide what to send, set timers | SAR tables, timers, session lookup | Nagle, probing, FIN behind data, retransmission | all data are sent in the end |
| `tx_engine`: packet pipeline | packet at hand in each of nine functions | tuples, headers, payload, checksum | session lookup, memory | four ways to one packet | packets leave whole and in order |
| `event_engine`, `ack_delay` | four counters; delay per session | merge events by priority, delay ACKs | everything that sends, tx_engine | counters that tell if a path is empty | no event is lost or stuck |
| `session_lookup_controller` | ID pool, reverse table, `tupleValid[]`, count, the CAM | lookup, create, release, reverse lookup | rx_engine, tx_app_if, tx_engine, state table, port table, CAM | five functions and a CAM keep one directory | IDs are neither lost nor shared |
| `port_table` | listening table, table of ports in use, cursor | listen, check, hand out, release | rx_engine, rx_app_if, tx_app_if, session lookup | answers of two tables in one order; byte order | a port has one user and comes back |
| `close_timer`, `retransmit_timer`, `probe_timer` | entry per session | set, clear, expire, abort | rx_engine, tx_engine, event engine, state table | late clears and sets; the ID is reused before an expiry | retransmission ends; data are sent; TIME_WAIT ends |
| `toe.cpp` | – | wiring, depths of streams, `timerWrapper`, `byteSwap16` | all | depths | – |
| `src/hls/ip_handler` | packet at hand in six functions | sort by type, check header, cut padding, sort by protocol | all below | verdicts and packets in separate streams | valid packets arrive, and whole |
| `src/hls/arp_server_subnet` | ARP table | answer, ask, insert, look up | IP handler, encoder | an answer that is lost | an address is known in the end |
| `src/hls/mac_ip_encode` | packet at hand in four functions | header checksum, next hop, MAC header | ARP server | a shift by two bytes; a miss drops the packet | frames are addressed and whole |
| `src/hls/icmp_server` | packet at hand | echo, port unreachable | IP handler, encoder | a packet waits for a verdict behind its end | pings are answered |
| `src/rtl/TOP/network_stack.v` | – | wiring of all this, two packet mergers | – | – | – |
| `src/hls/udp`, `src/hls/dhcp_client`, `src/hls/echo_server_application` | packet at hand; lease | packet processing | – | mostly data flow | – |

The hazards of the code, each at its line, are listed in `PROJECT.json` with
the properties that cover them or the reason why none does.

## Modules

| module | models |
|---|---|
| `TcpFsm` | `rxTcpFSM` and the decision of `tx_app_if` as pure operators: `RxOutcome(p, st, r)` is everything one packet makes the engine write |
| `StateTable` | `state_table`: one operator per branch of its if-else chain |
| `AtomicStates` | abstract: every update of a session is one atomic transition |
| `ConnState` | `StateTable` with its clients: `rxTcpFSM`, `tx_app_if`, `tasi_metaLoader`, timers, session lookup; implements `AtomicStates` |
| `SessionDirectory` | abstract: a session has one connection, a connection one session |
| `SessionLookup` | the five functions of `session_lookup_controller` and the CAM (external); implements `SessionDirectory` |
| `PortTable` | the four functions of `port_table`, with the open and the close of connections around them |
| `SessionLifecycle` | composition: lookup, state machine, events, retransmit timer, close timer and release, for the uses of a session ID one after the other |
| `TxSar`, `TxApp`, `TxFlow` | the data of one connection: `tx_sar_table`; the application's functions, `txAppStatusHandler` and `tx_app_table`; `metaLoader`, the timers, the peer's acknowledgements, and the peer |
| `Streams`, `Words` | functions connected by bounded streams (`Transfer` reads and writes them); words of a burst |
| `EventPath`, `TxPipe`, `TxPath` | `event_engine` and `ack_delay`; the functions of the TX engine behind `metaLoader`; both with `metaLoader` between them; implements `PacketQueue` |
| `PacketQueue` | abstract: packets leave whole, once and in order |
| `BufferSpace`, `BufferMemory`, `BufferUse` | a circular buffer, the data mover (external), the break-down of reads, what is expected of bursts |
| `WordWriter`, `WordReader`, `WordStitcher` | `tasi_pkg_pusher` and `rxEngMemWrite`; `rxAppMemDataRead`; `tcpPkgStitcher`: data that are moved within words when an access wraps |
| `TxBuffer` | writer, memory and stitcher: the send buffer byte by byte |
| `RxAlign`, `RxPath` | the functions that take the headers off; the whole way of a packet to the application, with `TcpFsm`, `WordWriter`, the memory and `WordReader` |
| `Frames`, `IpHandler`, `ArpServer`, `MacIpEncode`, `IcmpServer`, `IpLayer` | frames; the four HLS cores of the IP layer; their composition by `network_stack.v` with the hosts of the network |
| `ConnStateProofs`, `SessionLookupProofs`, `SessionLifecycleProofs`, `PortTableProofs`, `TxPathProofs`, `TxQueueProofs`, `TxFlowProofs`, `TxBufferProofs` | the theorems |
| `MC…` | values of constants for TLC |

### Correspondence

One step of a module is one start of one function that does something; a
function whose guards fail does nothing.  Streams are sequences.  In the
modules on `Streams` a stream has the depth that `Depth` gives it, and a step
waits until what it writes has room.  In the others a stream that leaves the
model is not kept, and always has room.  A `static` variable that is only
meaningful while a function waits is a set with at most one element (`rxHeld`,
`fsm_meta`, `tai_close`), or a record (`ml`, `w`, `r`).

- *Data.*  In `ConnState` and `SessionLifecycle` a packet is its control bits
  and whether it has payload, and sequence numbers are the seven comparisons
  the code makes (`Relation`), of which all consistent combinations are tried:
  the model has every state change of the code, and some that need a peer
  which sends arbitrary numbers.  `RxPath` and `TxFlow` compute these
  comparisons from positions in the stream.
- *State table.*  The chain of branches has priorities: a branch is taken only
  if those above it have nothing to do (`NoRequest`).  The guard of the first
  branch is its own; a request that meets the lock of the other client is
  moved to its held-back slot, and served by the branches at the end of the
  chain.
- *CLOSED to CLOSED.*  The check that a session was not closed before is a
  comment (`state_table.cpp:122`), so that CLOSED is released whenever it is
  written.  The model does so, and it matters: with the check (`ReleasesOnce`)
  a session that was created for a stray SYN-ACK would never come back
  (`IdsComeBack` fails).
- *Session lookup.*  `Release` frees the ID only if `tupleValid`, as the code
  does; this is what keeps an ID from being in the pool twice.
- *Ports.*  A port has two bytes of `BYTE` values, and the difference between
  the number and its bytes in a packet is kept: `Swap`.
- *Lifecycle.*  A read and a write of the state table are one step, which
  `Refinement` justifies, and so is the session lookup, which `OneDirectory`
  justifies.  Time is abstracted: an active timer may expire at any scan.  The
  queues of timers to the state table, and those of the event path, are one
  each.  `opening` is a history variable.  The probe timer is not in this
  module: that `metaLoader` sets it (`tx_engine.cpp:293`, `:320`) and the TX
  events it makes are left out, so that the end of the events in
  `RetransmissionsEnd` is that of the others.  While data are unsent the probe
  timer goes on, also after an abort.  It is in `TxFlow`.
- *TxFlow.*  A position is a sequence number that is not reduced; the buffer
  has SPACE bytes, and the differences of 16 bits are taken modulo SPACE.  One
  connection; the event path is one queue; pushes of the application, the
  setting of timers and the pushes of acknowledgements are applied at once,
  while `metaLoader` and the RX engine work on what the tables answered
  earlier.  The slow-start threshold is left out.  A failing status of the
  memory is not modelled.  The model stops at an abort.  Bound: the
  application writes `Length` bytes.
- *TxPath.*  How much `metaLoader` sends is open (`MaxSegments`, `Payloads`).
  The tables answer at once.  The three words of the IP header are one, words
  two and three of the pseudo header are one.  The streams of counts hold one
  count, since `event_engine` takes them in every cycle.
- *Words.*  WORD bytes instead of eight; `lenToKeep` and `keepToLen` are
  numbers.  A byte is its number in the stream, so that order, loss and
  duplication are visible.
- *TxBuffer.*  The application has a list of writes (`todo`), each of which
  `tasi_metaLoader` lets in or drops; one that is let in has to fit behind what
  has not left yet, with one byte to spare, as `tasi_maxWriteLength` is computed.
  What has left stands for what is acknowledged, so the code lets in no more.
  `asked` has the last byte of each segment that `metaLoader` has asked for;
  segments may end anywhere, and are asked for once.
- *RxPath.*  Half a word is HALF places, lengths of headers are in half words
  as in packets.  Whether the checksum is right is a field of the packet, and
  the five cycles of the verdict are one step.  `overtaken` is a history
  variable: a packet was read while the rest of the one before was still to be
  sent.  A FIN does not carry more payload than there is room for.
- *IP layer.*  A place is two bytes and a word has four; an address is two
  places, a MAC address three; sums are taken modulo M.  The four cycles of
  the checksum of `icmp_server` are one step.

A definition with *Mutant of* in its comment is a plausible mistake in the
operator that follows it.  No specification uses these; they are what the
properties are tried against.

## Runs

| run | checks | bounds, and why they are enough |
|---|---|---|
| `ConnState_two` | locks exclude, reads are current when used, no resurrection, FIN is final, implements `AtomicStates` | two sessions: the locks compare session IDs, so two tell same from different; streams of depth 2 as in the code; all kinds of packets; one session has timers, and sends are left to the next run (they do not write) |
| `ConnState_live` | packets, closes and sends are served | one session, where all requests conflict; SYN and ACK |
| `SessionLookup` | IDs are conserved, CAM and reverse table agree, the count, implements `SessionDirectory`, answers, return of IDs | two IDs for three connections, so that the pool runs dry; short streams, so that they fill |
| `PortTable` | answers are in order, and come | bytes of two values: two ports in each half; a packet's port in each half, no palindrome |
| `Lifecycle` | TIME_WAIT is timed and ends, IDs come back, only what was opened is reported, retransmissions end | one ID, which is reused; two packets and one entry in the other streams, so that they overtake each other and fill; one retransmission instead of four |
| `TxFlow` | what the peer gets is what was written; the window is respected; only written data are pushed; everything is delivered | a buffer of 5 bytes, segments of 2 and 6 bytes in writes of 3: the second write wraps, and segments end within a write; the peer's window is closed or 3, so that it closes and opens on outstanding data; one duplicate ACK for a fast retransmission and one time-out instead of three and four; the streams hold one entry, so that they fill |
| `TxPath` | events that depend on the tables stay apart, implements `PacketQueue`, all is sent, delayed ACKs | seven scenarios of up to four events on two sessions; the counters of `event_engine` wrap at 4 instead of 256, with the greatest difference the streams allow; two segments for one event; payload that wraps |
| `TxBuffer` | every access has the words of its command; segments have the bytes that were asked for | words of 4, a buffer of 16, starts 8 to 15, all lengths: every alignment of an access and of its break, one or two words on either side; one list of writes goes round the buffer twice, so that writes meet bytes that have not left |
| `RxPath` | bytes are not overwritten before they are asked for; what was acknowledged is delivered, in order | words of 4, a buffer of 8, starts near its end; 75 sequences of packets with options of every length, bad checksums, closed ports, late and doubled packets; `dataBuffer2` holds two words instead of 256, the longest payload, so that it fills and a packet is overtaken; two open notifications instead of 31, so that the limit is met |
| `IpLayer` | what reaches the TOE, the UDP core and the ARP server is what was sent to it; frames are addressed; a host that does not answer at first is found later | words of 4 places of two bytes; pings, TCP and UDP packets with padding and options, bad checksums, unknown hosts; one ARP answer is lost; `packageBuffer1` holds the longest ping and `icmpValid` one verdict, so that no ping is read behind two that wait (see below) |
| `PortTable_swap` | *violated*: a port in use is given out again | bytes of four values, so that both bytes of a port matter |
| `TxFlow_open` | *violated*: the SYN of an active open is not sent | as `TxFlow` |

With one session `Lifecycle` does not show one session holding up another;
the streams that can fill are filled by the session itself.

The invariants of `TxBuffer`, `RxPath` and `IpLayer` speak of what is there
when a packet or an access is complete, and their specifications have a step
for the end (`AllRead`, `Done`) which needs everything to be where it belongs.
TLC's check of deadlock then shows that nothing gets stuck (in `RxPath`, but
for behaviours with an overtaking); it is off in the runs of `TxPath`, where the inputs end and `AllSent` says the same, and of
`TxFlow`, where a connection that was aborted stops.  Some streams need room
for a header or a whole packet or there is a deadlock: `buffer0` (2 words) and
`buffer2` (3) of `mac_ip_encode`, `checkData` (3) of `ip_handler`, and
`packageBuffer1` of `icmp_server` (a whole ping; 64 words in the code).

### What the violated runs show

1. `PortTable_swap`: `sLookup2portTable_releasePort` carries the port as it is
   in the tuple, in network byte order (`session_lookup_controller.cpp:280`);
   `free_port_table` reads a number in host byte order (`port_table.cpp:116`).
   The wrong port, or none, is freed.
2. `TxFlow_open`: `txAppStatusHandler` reads the status of a memory write
   together with every event (`tx_app_interface.cpp:98`), also with a SYN or a
   FIN, for which nothing is written.  The SYN of the first open waits until a
   write for another connection has lent it its status.

Each property of these runs is what the comment quoted in `PROJECT.json` says
of the code.

### What else was met

The passing properties are stated so that they hold of the code as it is.  The
following was found on the way and is named by an assumption of a property, or
by the model's scope.

- *Opens and closes.*  An open that gets a port and no session loses the port
  (`tx_app_if.cpp:107`).  A reset in TIME_WAIT frees the ID and leaves the
  close timer on, which later closes the next connection with this ID
  (`close_timer.cpp:84`).  A packet whose session was closed in the meantime
  is answered by RST and releases the session once more
  (`state_table.cpp:122`), which can hit the next user.  A simultaneous open is
  established without the application being told (`rx_engine.cpp:951`), and a
  SYN-ACK with a wrong number closes an open without an answer (`:1000`).
- *Receive path.*  The cases of SYN, SYN-ACK and RST give the package dropper
  no answer for a payload (`rx_engine.cpp:936–1013`), so such packets with
  payload are not among the inputs of `RxPath`.  The payload of a FIN is written
  without asking if there is room (`rx_engine.cpp:1023–1046`; an ACK is asked at
  `:844`), so that a peer which sends beyond the window has unread bytes
  overwritten; such a FIN is not among the inputs either.  `rx_app_stream_if` moves
  `appd` when it issues the read, not when the data have been read
  (`rx_app_stream_if.cpp:88`): a packet that fills the buffer exactly can
  overwrite bytes that are being read.  `PayloadIntactUnlessOvertaken` therefore
  protects a byte until it is asked for.  A notification without data does not
  wait for those with data in front of it (`:1257`): a close can reach the
  application before the last data.  An acknowledgement is sent before the write has
  a status (the TODO at `rx_engine.cpp:1255`).
- *A packet overtakes the rest of another.*  When `rxCheckTCPchecksum` has half
  a word left of a packet and `dataOut` is full, it does not wait: the branch at
  `rx_engine.cpp:419` is passed over and the one at `:432` gives the verdict.
  Once there is room, `:290` comes first and reads the next packet, if one is
  there.  Its last word overwrites `csa_wasLast` (`:410`), its payload may
  overwrite `halfWord` (`:356`, `:380`), and what is left of the first packet,
  which has the mark of the last word, is not sent, or is sent later by what
  `csa_meta` says of the other packet.  The two payloads become one, and the
  verdicts and the answers to the droppers are for the wrong packets from then
  on, although both packets are acknowledged.  `RxPath` has this: in the run
  the second of two packets with options is overtaken while the first waits for
  its answer.  Without the exception TLC finds the application notified of
  a byte that was never written.  It takes a full `dataBuffer2`, a packet whose
  payload ends in the second half of a word, and another right behind it.
- *Send path.*  When the FIN has been sent `not_ackd` is beyond the data, and
  lengths that are computed from it wrap; a FIN event can overtake the last
  data.  `WindowRespected` and `StreamIntact` end at the FIN.  The retransmit
  timer is cleared when an ACK equals a `nextByte` that was read before the TX
  engine sent more (`rx_engine.cpp:793`): the new segment has no timer, and if
  it is lost only the next write gets the connection going.  `metaLoader` sets
  the probe timer again when the window is closed, but it sends no probe into a
  closed window, so that a lost window update is made up for only by the peer.
- *Event path.*  A reset for a packet without a session carries session 0
  (`toe.hpp:405`), and `ack_delay` then drops the delayed ACK of session 0
  (`ack_delay.cpp:63`; the comment at `:62` assumes that there is no such
  event): `AcksHandledUnlessStray`.  An event that ends in sending nothing
  cancels a delayed ACK too.
- *Send buffer.*  The stitcher asks `keepCounter < 8 - shiftBuffer`
  (`tx_engine.cpp:1009`, `:1029`) where its twin in `toe.cpp:330` asks `<= 8`:
  a segment whose second part exactly fills a word gets one more word, whose
  keep is `lenToKeep(0)`, for which the function has no case
  (`toe.cpp:91–120`).  `SegmentsIntactUnlessFilled` leaves this case out.
- *IP layer.*  A packet with options of eight bytes or more has its
  destination overwritten and is dropped (`ip_handler.cpp:224`); a frame that
  ends within its IP header, or whose header length is below five
  (`ip_handler.cpp:229`), gets no verdict of its own, and the verdicts of later
  frames shift, so such frames are not among the inputs.  The ARP table is indexed
  and matched by the last octet, and learns from replies only; a packet for an
  unknown host is dropped while the ARP request is sent.  A ping longer than
  `packageBuffer1` stops the whole receive path.  With room for more pings
  than there are places for verdicts, 64 words and 8 verdicts in the code, pings
  that are held up behind `icmp_server` can fill `validFifo`; then
  `icmp_server.cpp:70` is passed over and the next ping is read (`:102`) over the
  sums of the one whose verdict is due.  One verdict is lost, and `dropper`
  waits for ever (TLC shows this with one verdict and room for three pings of
  four words).  The depths of the run exclude it.  A ping to the broadcast
  address is answered with that address as source.
- *Not in a model.*  `insertChecksum` reads `stream_empty[1]` of an array of
  one (`icmp_server.cpp:373–378`), and the send path of the UDP core asks
  `outputPathOutData.full()` without a negation.

## Fairness

Every function is a pipeline that is started in each clock cycle, so a step
that stays possible is taken: weak fairness, for each function of the model.
Arrivals (packets, requests of the application) have none.  Strong fairness is
assumed

- in `ConnState` for the branches of the state table that can be hidden by
  branches above: a client waits for an answer of several cycles before its
  next request, so there are cycles in which the branches above are idle;
- in `SessionLookup` for deletes, which share a process with inserts, and in
  `PortTable` for questions, which share one with releases, for the same
  reason;
- in `SessionLifecycle` for the timers, which scan all sessions again and
  again and expire when their output has room.  The close timer is started
  once per TIME_WAIT, so nothing but its own expiry is assumed;
- in `TxFlow` for the timers, for `txAppStatusHandler` and the RX engine, which
  wait for room in streams that others fill in turn, and for the peer: it
  acknowledges what it gets and opens its window in the end (`Answer`).

TLC showed that this does not serve held-back accesses while requests of
other clients keep coming, and in the code it does not either: `TxWaitBranch`
runs only in cycles without a request.  `PacketsServed`, `ClosesServed` and
`SendsServed` therefore assume that the competing requests come to an end, and
`ChecksAnswered` that releases of ports leave gaps.  `RetransmissionsEnd`
assumes that packets and the application stop.  `EverythingDelivered` assumes
that losses end, that the connection is neither closed nor aborted, and that
the retransmit timer is not left off with data outstanding (see above).

## Refinements

`ConnState` implements `AtomicStates`, `SessionLookup` implements
`SessionDirectory` and `TxPath` implements `PacketQueue`.  TLC checks all three
as properties, and all three are proved.  They are what lets
`SessionLifecycle` make one step of an access and of a lookup, and `TxFlow` one
step of a segment.

## Proofs

`ConnStateProofs` proves, for any number of sessions, any depth of the streams from two,
any kinds of packets and any set of sessions with timers:

| theorem | says |
|---|---|
| `TypeCorrect` | `Spec => []TypeOK` |
| `Exclusion` | the locks are never held by both clients for one session |
| `Snapshots` | what a client was told about a session is still so when it decides |
| `Refinement` | `Spec => AtomicStates!Spec`: reads and writes with queues and locks between them are atomic updates |
| `ClosedStays`, `FinStays` | the two action properties, by way of `Refinement` |

The inductive invariant `IInv` is the type invariant, the exclusion of the locks
and, for each of the two clients that lock, what can be in flight between it
and the table.  The RX engine has at most the write of one packet and behind it
the read of the next; the next read is in the stream, held back, or answered
with the session locked (`RxInv`).  `tx_app_if` may have any number of opens in
flight, at most one read, as the last access, and the write that follows a read
only as the first one (`TxInv`).  A write in flight has been decided on the
state that is still in the table, and its session is locked: this is what makes
`LockExclusion` and `SnapshotsCurrent` inductive, since whether a write is
served, held back, or releases a lock depends on what is in front of it.  The
proof goes action by action (`RxLoadInv`, `TxBranchInv`, ...).  For the
refinement each branch that writes is mapped to one step of `AtomicStates` and
everything else to a stutter; that what is written is a transition of the
*current* state is the part of `IInv` just named.  `RxTargetsFacts` and
`CloseTargetFacts` have what is needed of the state machine: its targets by state.

`SessionLookupProofs` proves, for any number of session IDs, any endpoints and
any depth of the streams:

| theorem | says |
|---|---|
| `TypeCorrect` | `Spec => []TypeOK` |
| `IdsKept` | `Spec => []IdsConserved`: an ID that was ever used is in exactly one place |
| `TablesAgree` | `Spec => []DirectoriesAgree`: the CAM and the reverse table describe the same connections |
| `DirectoryKept` | `Spec => SessionDirectory!Spec`, with the tuple of each session for `owner` |
| `CountKept` | `Spec => []CountExact`: the number of sessions software reads |

`TypeInv` adds to the types that a handler which waits has what it waits for in
its queue, that deletes are deletes, and that a session in use has a tuple.
`IdsConserved` counts: an ID is in the free list, on its way back (`fin`), in a
delete, in an insert at one of four stations, on its way to the reverse table,
or in use.  `Among` counts the entries of a queue that are in a set, and the
lemmas `AmongAppend` and `AmongTail` say what an append and a removal do to the
count.  Each action takes the head of one queue and puts it, or what it became,
into another (`Moved`), except `NewId`, which brings a new ID into circulation,
and the two that set and clear `tupleValid`.  `InsertReverse` is the step that
needs the invariant itself: the session it puts in use cannot be in use
already, because its ID is in the queue and in one place only.

The other three theorems rest on `DirInv`, which adds to the places of an ID
what is known of a session `s` and a tuple `t` together.  An insert of the pair
is `Coming` until the CAM has performed it and `Written` from then on, until the
session is released; a delete of the pair that waits is `Going`.  `Bonds` says that
the CAM maps `t` to `s` exactly if `Written(s, t) + Going(s, t)` is 1: between
the release and the delete the CAM still knows the tuple.  An insert must not be
performed while another session has the tuple, or the CAM would forget it.  That
needs the handler: `Handler` says that at most one lookup or one insert is under
way, and that a tuple whose lookup has missed is still unknown when the session
is made (nothing else inserts); `Single` and `Created`, that a tuple is inserted
once and only if the CAM does not know it, and that the tuple in
`slc_insertTuples` is that of the insert.  An insert passes the
deletes that wait, so each action has a lemma that says what it does to the three
numbers of each pair (`CreatePair`, `ReleasePair`, `CamInsertPair`, ...), and `SoundNext`
puts them together.

`SettledCam` looks at the last update of a tuple that is under way;
`OneUpdate` says that there is at most one, whence `TablesAgree`.  A session has
`t` for its `Owner` exactly if `Held(s, t)`, which is `Coming` and `Written`, is not 0
(`OwnerIs`; there is one such tuple, as the ID is in one place).  So a step
changes `Owner` only if it changes that sum: `CreateSession` gives a free session
a tuple that no session has, a valid `Release` takes it away, and all others
move a pair between `Coming` and `Written` (`Moving`).  For the count, the
deletes that wait are of different sessions, so there are no more than IDs,
which have 14 bits: `usedSessionIDs` never comes round (`NoWrap`).

`SessionLifecycleProofs` proves, for any number of sessions, any kinds of packets
and any depth of the streams:

| theorem | says |
|---|---|
| `TypeCorrect` | `Spec => []TypeOK` |
| `TimeWaitLeaves` | `Spec => []TimeWaitTimed`: in TIME_WAIT the close timer is about to run, runs, or has expired |
| `IdsReturn` | `Spec => []IdsComeBack`: a closed session that has its tuple is about to be opened or released |
| `OpensAsked` | `Spec => OpenedOnAsking` |

`EffectFacts` has what is needed of the state machine: what a packet does in a
state.  It enters TIME_WAIT only with the timer, reports a connection open only
in SYN_SENT, and never enters SYN_SENT.  The invariant adds one part, `Asked`: a
session in SYN_SENT has been asked for by the application.  All parts are about
one session at a time (`Good`), so there is one lemma for each action that
keeps one session good, whatever the action does to another.

`PortTableProofs` proves, for any number of ports, any depth of the streams and any
ports asked about:

| theorem | says |
|---|---|
| `TypeCorrect` | `Spec => []TypeOK` |
| `AnswersInOrder` | `Spec => ChecksInOrder`: answers come in the order of the questions |

`Dests` are the tables of the questions that are not answered yet, with the one
that `check_out_multiplexer` waits for in front; there are as many as questions
(`Paired`).  `Rank` counts how many of the first questions go to a table.  For
each of the tables (`Served`) the question of rank *r* has its answer in place
*r* of the answers that wait, or, if there are fewer, its port in the place of
what the table has been asked that follows.  An answer that waits is a value
that its question has seen.  `Fresh` says that a question has seen the present
value of its entry, so the answer a table gives now is one of them.  The lemmas
`ServedAsk`, `ServedCheck`, `ServedAnswer` say how the two queues move; the
sequences are plain data there, so they hold for both tables.

`TxPathProofs` proves `EventsAlone`, `Spec => EventsApart`, for any number of
sessions, any events that are put in, any depths and any counters that exceed
the depths by two: an event of a timer or of the application sets out when no
other is on its way but an ACK that `ack_delay` has held back.  `event_engine`
sees only its four counters, which come round.  The invariant says what they
mean: `Counted1`, what it has written less what it was told was read is what is
in `toDelay` or not yet told, but for a whole turn; `Counted2`, the same of
`toTx`, where the difference may be negative, since `ack_delay` tells of a
writing after it.  Equal counters then leave one case with an event on its way:
its writing has been done and not told.  Its reading from `toDelay` has been
told, though, and an event that passes `ack_delay` tells both in one step; so it
comes from the scan and is an ACK (`LastDelayed`).  Each of the functions has a
lemma that says what it does to the streams of events, by way of what
`Transfer` does to one stream.

`TxQueueProofs` proves `PacketsKept`, `Spec => PacketsInOrder`, for any number of
sessions, any events, any payloads and any depths of the streams: `TxPath`
implements `PacketQueue`.  The parts of a packet, its addresses, headers,
payload and sums, are on eighteen streams between ten functions and the
memory, and a function that waits for one of them lets the others go ahead by as
much as their depths allow.  The invariant `Flow` says that there is a history,
existentially quantified as in `TxFlowProofs`:

| part | says |
|---|---|
| `History` | the plan `p[n]` of each accepted packet, and for each stream all values that belong to the packets so far, those of packet `n` behind the first `S[s][n]` (`Fit`, `Content`) |
| `Windows` | what is in a stream are its values from `lo[s] + 1` to `hi[s]` |
| `AtLoader` ... `AtOut` | where a function is: the ends of the windows on its two sides belong to the same place of the same packet, and so do its variables |
| `AtEnds` | what was accepted is the plans, and what has left is as many packets as `pkgStitcher` has gone through |
| `AtAnswers` | the tables have answered for the event in `metaLoader`, and for no other |

A step of a function moves the ends of windows (`Move`) and leaves the other
functions where they are, since no two of them read or write the same stream;
what it puts is the next value of the history, because the values it took are.
Two facts about streams of different lengths are needed: a function that looks
for its next packet finds the same one as the function before it (`Locate`), and
two streams that a packet uses together are level (`Together`).  A step of
`metaLoader` is the only one that makes the history longer, and a stream in
which the last packet has nothing stays level (`OneMore`).

`TxFlowProofs` proves, for any size of the buffer, of the segments and of the data,
any depth of the streams, any limit of retries and of duplicate ACKs and any
windows of less than 2^16 (`SPACE`):

| theorem | says |
|---|---|
| `WrittenWhenPushed` | `Spec => []PushedIsWritten`: only bytes that are in memory are released to the TX engine |
| `WindowsRespected` | `Spec => []WindowRespected`: no segment reaches beyond the window of the peer |
| `StreamsIntact` | `Spec => StreamIntact`: what the peer takes for data is what the application wrote |

Two things make this hard.  The statuses of memory that release a write are
matched with the events by their order only, and a write that wraps has two of
each; and pointers are compared modulo `SPACE` in copies of the tables that are
several steps old.

For the first, the invariant says that there is a history `h` (`HistoryHolds`).
It numbers the commands for the memory and the writes of the application: `cut`
says where a command ends, `start` which is the first of a write, `index` which
write an event belongs to.  Each stream holds a stretch of these numbers:
`commands` those from `done` on, `toBuf` and `mergeStream` the last writes, `cache`
what lies between, and the statuses those from `released` to `done`.  A step
moves the boundary of a stretch; only an accepted write extends the functions.
Since `cut` grows, `sar.app <= cut[released] <= cut[done] = written <= mempt`
(`InOrder`).  The history is existentially quantified, so the specification is
not changed.

For the second, `Bounds` holds until a FIN is sent, for the tables, the request
of the application (`RequestBounds`), the event `metaLoader` works on (`WorkBounds`),
the segments on their way and the acknowledgement the RX engine works on: a copy
may be behind its table, but the end of what has been written is less than
`SPACE` in front of the oldest `ackd` that is still used, so each difference of 16 bits
that the code computes is the difference of the positions (`DiffFacts`).  What the
peer has promised never moves back (`edge`), so a window that is computed from an old copy
still ends in front of it.  After the FIN, `finSent` and the position it takes make the
pointers differ from the data, and neither property says anything.  `Opening` is the
handshake: an active open waits for a status (see the violated run) and gets no
further; a passive one sends its SYN and ACK first.

`TxBufferProofs` proves, for any size of the buffer in whole words of any size, any
start, any writes and any depth of the streams:

| theorem | says |
|---|---|
| `BufferInvariant` | `Spec => []IInv`: which bytes are on each stream, and which the memory holds |
| `AccessesExact` | `Spec => []AccessExact`: an access gets the words it is long, the last one marked |
| `SegmentsKept` | `Spec => []SegmentsIntactUnlessFilled`: a segment has the bytes it was asked for, in full words up to the last |
| `ConfirmedBytesHeld` | what has been confirmed and has not left is in memory: no write runs over it |

Byte `p` of all that is written has the value `p`, so a word or a command on a stream
stands for a stretch of bytes.  The invariant says that a stream is a `Chain`: each
value leads from one point of the byte sequence to the next (`DataStep`, `CommandStep`,
`WriteStep`, `StatusStep`, `ReadStep`, `LoadStep`, `OutStep`), and the whole reaches
from where the function that reads the stream is to where the one that writes it is.
A step of a function moves its own points and nothing else; the value it takes ends
the chain in front of it one later, and the value it puts has to be a step of the chain
behind it, which is what the realignments have to get right.  For
`tasi_pkg_pusher` there is one predicate for each of its states (`AtFirst`, `AtSecond`,
`AtRealign`, ...): how the bytes it holds back in `w.word` follow the bytes it has put,
and why a second access is aligned or not.  For `tcpPkgStitcher` likewise
(`AtData`, `AtMerge`, `AtRest`): the next word it puts is word `k` of its segment, and
`r.word` holds the `r.shift` bytes it is behind.  The one case in which it puts a word too
many is `Filled`; after it the chain goes on with the next segment, so only that one is
wrong.  Both sides say the same of the end of the buffer in different words: an access
ends where a write or a segment ends, or at address 0 (`WriteEnd`, `ReadEnd`).

The sides meet in the memory.  `MemoryHolds`: the bytes behind the last segment that has
left, up to where the data mover is, are at their places.  A write keeps it because
its bytes are less than a buffer ahead (`SpaceKept`, which the space check of
`tasi_metaLoader` keeps), so that no two of them have the same place; a read finds
its bytes because `metaLoader` asks only for what has been confirmed.  Sequences are
the only data, and a chain is a function `at` on its places, existentially quantified;
no induction over words is needed.

The assumptions on the constants are those of `StateTable`, `ConnState` (streams
of at least two places, as in `toe.cpp`), `SessionLookup` (IDs of 14 bits),
`SessionLifecycle`, `PortTable` (bytes of an even number of values, so that the
ports have two halves), `Streams`, `EventPath` (the counters exceed the depths,
which are 4 and 16 with counters of 8 bits; a stream of counts holds one),
`TxPipe` (the streams of the pipe are among the streams), `TxPath` (so are those of the
tables' answers, and a segment that is read from memory has words), `Words` and `BufferSpace`
(a buffer of whole words), `TxBuffer` (a write has bytes, and all its streams exist), and `TxSar`, `TxApp` and `TxFlow` (a segment, a write and a window are smaller
than the buffer of 2^16 bytes).  `NoTupleAssumption` says that the mark
of a session that was never used is not a tuple.  TLC evaluates them in the runs.  Streams are the standard library's
sequences.

Only model-checked: all liveness (the prover has no ENABLED), the two invariants of
`RxPath`, and `IpLayer`.  `PayloadIntactUnlessOvertaken` and `AcknowledgedDeliveredUnlessOvertaken` are about all that
the checksum, the droppers and the metadata handler do with a packet between its
arrival and the memory; the side from the memory on is like that of
`TxBuffer`.  The invariants of `IpLayer` compare what arrives with all the words of the packets that
were sent, one behind the other, and with checksums over them: both are folds, and what a
fold computes for every input is out of the prover's reach.  The modules to be proved
about contain no RECURSIVE operator.

## What is left

1. A proof of `PayloadIntactUnlessOvertaken` and `AcknowledgedDeliveredUnlessOvertaken`: chains as in
   `TxBufferProofs` for the packets from the peer to the memory, and for
   `rxAppMemDataRead`, which is not the same function as `tcpPkgStitcher`.
2. The answers of `tx_app_if` from its three sources, in order, as part of
   `SessionLifecycle`: an open gets one answer.
3. The timers in detail: scan position, the wait for a write, a clear of the
   probe timer that only counts it down.
4. The unreachable messages of `icmp_server`.

## Not modelled

- *UDP core, its multiplexer and the DHCP client*: connectionless, packet by
  packet.  The send path of the core waits for `outputPathOutData.full()`
  without a negation, so a faithful model does not get beyond a header.
- *Echo application*: an example; the applications of the models are free to
  do more.
- *Platform*: RTL wrappers, IP cores, register slices, constraints, scripts and
  test vectors have no logic of their own.
- *Within modelled parts*: a write of memory that fails, the slow-start
  threshold, `RX_DDR_BYPASS` (off in the build), the port-unreachable messages
  of `icmp_server`, times (a timer that is on may expire).

External, and modelled from what the code exchanges with them: the CAM behind
the session lookup, the data mover and memory, the peer of a connection, the
hosts of the network.  Initial values are those of the C++ statics.
