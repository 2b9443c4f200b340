-------------------------------- MODULE TxApp --------------------------------
(***************************************************************************)
(* The application's way to the send buffer: tasi_metaLoader and           *)
(* tasi_pkg_pusher (tx_app_stream_if.cpp), txEventMerger,                  *)
(* txAppStatusHandler and tx_app_table (tx_app_interface.cpp), and the     *)
(* part of tx_app_if that puts the events of opening and closing into the  *)
(* same stream.  The memory is external: it carries the commands out in    *)
(* order and answers each with a status.                                   *)
(***************************************************************************)
EXTENDS TxSar

CONSTANTS
    WriteLen,       \* lengths of a write of the application
    StreamDepth     \* depth of the streams between these functions

ASSUME TxAppAssumption ==
    /\ WriteLen \subseteq 1 .. SPACE - 1 /\ StreamDepth \in Nat \ {0}

VARIABLES
    tai,            \* tasi_metaLoader: the request it works on, if any
    mempt,          \* app_table[id].mempt: the end of what has been accepted
    toBuf,          \* tasi_writeToBufFifo
    pushing,        \* tasi_pkg_pusher: the second half of a write that wraps
    commands,       \* txBufferWriteCmd: the bytes of each command
    written,        \* bytes below this position are in memory
    statuses,       \* txBufferWriteStatus
    mergeApp,       \* txApp2eventEng_mergeEvent
    mergeStream,    \* txAppStream2event_mergeEvent
    cache,          \* txApp_eventCacheFifo
    tash            \* txAppStatusHandler: the event in state 1, if any

appVars == <<tai, mempt, toBuf, pushing, commands, written, statuses, mergeApp,
             mergeStream, cache, tash>>

None == [type |-> "none"]

Room(q) == Len(q) < StreamDepth

\* The bytes from p on that lie in the buffer before it wraps.
BeforeWrap(p) == SPACE - (p % SPACE)

\* Whether n bytes at position p wrap: (address + length) > 65536.
Wraps(p, n) == n > BeforeWrap(p)

InitApp(opening) ==
    /\ tai = None /\ mempt = 1
    /\ toBuf = <<>> /\ pushing = 0 /\ commands = <<>> /\ written = 1 /\ statuses = 0
    /\ mergeApp = opening /\ mergeStream = <<>> /\ cache = <<>> /\ tash = None

-----------------------------------------------------------------------------
(***************************************************************************)
(* tasi_metaLoader.  It asks for the state of the connection and for ackd  *)
(* and mempt, and decides on the answers, which are older by then.         *)
(***************************************************************************)
ReadRequest(n) ==
    /\ tai = None /\ ~aborted
    /\ mempt + n <= Length + 1
    /\ tai' = [type |-> "meta", length |-> n, ackd |-> sar.ackd, state |-> tcpState]
    /\ UNCHANGED <<mempt, toBuf, pushing, commands, written, statuses, mergeApp,
                   mergeStream, cache, tash, sar, tcpState, events, aborted>>

\* Mutant of MaxWriteLength: what the peer has not acknowledged does not count.
MaxWriteLengthEmpty(ackd) == SPACE - 1

\* tasi_maxWriteLength
MaxWriteLength(ackd) == (ackd - mempt - 1) % SPACE

ReadMeta ==
    /\ tai # None
    /\ Room(toBuf) /\ Room(mergeStream)
    /\ IF tai.state # "ESTABLISHED" \/ tai.length > MaxWriteLength(tai.ackd)
       THEN UNCHANGED <<toBuf, mergeStream, mempt>>   \* the data is dropped
       ELSE /\ toBuf' = Append(toBuf, [from |-> mempt, length |-> tai.length])
            /\ mergeStream' = Append(mergeStream,
                   [type |-> "TX", address |-> mempt, length |-> tai.length])
            /\ mempt' = mempt + tai.length
    /\ tai' = None
    /\ UNCHANGED <<pushing, commands, written, statuses, mergeApp, cache, tash,
                   sar, tcpState, events, aborted>>

-----------------------------------------------------------------------------
(***************************************************************************)
(* tasi_pkg_pusher: a write that wraps becomes two commands.               *)
(***************************************************************************)
PushCommand ==
    /\ pushing = 0 /\ toBuf # <<>> /\ Room(commands)
    /\ LET w == Head(toBuf)
           first == IF Wraps(w.from, w.length) THEN BeforeWrap(w.from) ELSE w.length
       IN  /\ commands' = Append(commands, first)
           /\ pushing' = w.length - first
    /\ toBuf' = Tail(toBuf)
    /\ UNCHANGED <<tai, mempt, written, statuses, mergeApp, mergeStream, cache, tash,
                   sar, tcpState, events, aborted>>

PushSecond ==
    /\ pushing # 0 /\ Room(commands)
    /\ commands' = Append(commands, pushing)
    /\ pushing' = 0
    /\ UNCHANGED <<tai, mempt, toBuf, written, statuses, mergeApp, mergeStream, cache,
                   tash, sar, tcpState, events, aborted>>

\* The memory has written the bytes of a command.
MemoryWrite ==
    /\ commands # <<>> /\ statuses < StreamDepth
    /\ written' = written + Head(commands)
    /\ commands' = Tail(commands)
    /\ statuses' = statuses + 1
    /\ UNCHANGED <<tai, mempt, toBuf, pushing, mergeApp, mergeStream, cache, tash,
                   sar, tcpState, events, aborted>>

-----------------------------------------------------------------------------
\* txEventMerger: the events of tx_app_if come first.
MergeEvent ==
    /\ Room(cache)
    /\ \/ /\ mergeApp # <<>>
          /\ cache' = Append(cache, Head(mergeApp))
          /\ mergeApp' = Tail(mergeApp)
          /\ UNCHANGED mergeStream
       \/ /\ mergeApp = <<>> /\ mergeStream # <<>>
          /\ cache' = Append(cache, Head(mergeStream))
          /\ mergeStream' = Tail(mergeStream)
          /\ UNCHANGED mergeApp
    /\ UNCHANGED <<tai, mempt, toBuf, pushing, commands, written, statuses, tash,
                   sar, tcpState, events, aborted>>

\* The bytes of a write are released to the TX engine.
Release(ev) ==
    /\ sar' = [sar EXCEPT !.app = ev.address + ev.length]
    /\ Put("TX", 0)

\* Mutant of StatusFirst: a write that wraps is released by its first status.
StatusFirstReleases ==
    /\ tash = None /\ statuses > 0 /\ cache # <<>> /\ EventRoom
    /\ LET ev == Head(cache)
       IN  IF ev.type # "TX" THEN Put(ev.type, 0) /\ UNCHANGED <<sar, tash>>
           ELSE Release(ev) /\ UNCHANGED tash
    /\ statuses' = statuses - 1
    /\ cache' = Tail(cache)
    /\ UNCHANGED <<tai, mempt, toBuf, pushing, commands, written, mergeApp, mergeStream,
                   tcpState, aborted>>

(***************************************************************************)
(* txAppStatusHandler: an event is taken together with a status, also an   *)
(* event that no write of memory belongs to.  A write that wraps waits for *)
(* its second status.                                                      *)
(***************************************************************************)
StatusFirst ==
    /\ tash = None /\ statuses > 0 /\ cache # <<>> /\ EventRoom
    /\ LET ev == Head(cache)
       IN  IF ev.type # "TX" THEN Put(ev.type, 0) /\ UNCHANGED <<sar, tash>>
           ELSE IF Wraps(ev.address, ev.length) THEN tash' = ev /\ UNCHANGED <<sar, events>>
           ELSE Release(ev) /\ UNCHANGED tash
    /\ statuses' = statuses - 1
    /\ cache' = Tail(cache)
    /\ UNCHANGED <<tai, mempt, toBuf, pushing, commands, written, mergeApp, mergeStream,
                   tcpState, aborted>>

StatusSecond ==
    /\ tash # None /\ statuses > 0 /\ EventRoom
    /\ Release(tash)
    /\ tash' = None
    /\ statuses' = statuses - 1
    /\ UNCHANGED <<tai, mempt, toBuf, pushing, commands, written, mergeApp, mergeStream,
                   cache, tcpState, aborted>>

\* tx_app_if: the application closes the connection, perhaps again.
AppClose ==
    /\ tcpState \in {"ESTABLISHED", "FIN_WAIT_1"} /\ Room(mergeApp)
    /\ tcpState' = "FIN_WAIT_1"
    /\ mergeApp' = Append(mergeApp, [type |-> "FIN"])
    /\ UNCHANGED <<tai, mempt, toBuf, pushing, commands, written, statuses, mergeStream,
                   cache, tash, sar, events, aborted>>

StatusHandler == StatusFirst \/ StatusSecond
PkgPusher     == PushCommand \/ PushSecond

AppNext ==
    \/ \E n \in WriteLen : ReadRequest(n)
    \/ ReadMeta \/ PkgPusher \/ MemoryWrite \/ MergeEvent \/ StatusHandler
=============================================================================
