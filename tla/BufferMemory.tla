---------------------------- MODULE BufferMemory ----------------------------
(***************************************************************************)
(* The memory behind the data mover (external), with one buffer, and       *)
(* txEngMemAccessBreakdown (tx_engine.cpp) and rxAppMemAccessBreakdown     *)
(* (toe.cpp), which make two accesses of one that runs over the end of the *)
(* buffer.                                                                 *)
(***************************************************************************)
EXTENDS BufferSpace

VARIABLES
    mem,            \* the bytes of the buffer, by address
    mover,          \* the access that is being written
    breakdown       \* the second access of a read, once the first is on its way

memoryVars == <<mem, mover, breakdown>>

NoAccess == Access(0, 0)
Idle == [addr |-> 0, len |-> 0, done |-> 0]

InitMemory ==
    /\ mem = [a \in 0 .. SPACE - 1 |-> Junk]
    /\ mover = Idle /\ breakdown = NoAccess

MemCommand ==
    /\ mover = Idle /\ Has("writeCmd")
    /\ Transfer({"writeCmd"}, Silent)
    /\ mover' = [addr |-> Front("writeCmd").addr, len |-> Front("writeCmd").len, done |-> 0]
    /\ UNCHANGED <<mem, breakdown>>

\* The data mover writes the bytes of a word that count, and answers with a
\* status behind the last word of a burst: here, the bytes it has written.
MemWrite ==
    /\ mover # Idle /\ Has("writeData")
    /\ LET word == Front("writeData")
           at   == mover.addr + mover.done
           done == mover.done + word.keep
       IN  /\ mem' = [a \in DOMAIN mem |->
                         IF a \in at .. at + word.keep - 1 THEN word.data[a - at + 1] ELSE mem[a]]
           /\ mover' = IF word.last THEN Idle ELSE [mover EXCEPT !.done = done]
           /\ Transfer({"writeData"}, IF word.last THEN To("status", done) ELSE Silent)
    /\ UNCHANGED breakdown

ReadFirst ==
    /\ breakdown = NoAccess /\ Has("readCmd")
    /\ LET cmd   == Front("readCmd")
           first == SPACE - cmd.addr
           over  == cmd.addr + cmd.len > SPACE
       IN  /\ Transfer({"readCmd"}, Both(To("memCmd", IF over THEN Access(cmd.addr, first) ELSE cmd),
                                         To("accessFlag", IF over THEN 1 ELSE 0)))
           /\ breakdown' = IF over THEN Access(0, cmd.len - first) ELSE NoAccess
    /\ UNCHANGED <<mem, mover>>

ReadSecond ==
    /\ breakdown # NoAccess
    /\ Transfer({}, To("memCmd", breakdown))
    /\ breakdown' = NoAccess
    /\ UNCHANGED <<mem, mover>>

\* The bytes of an access, from the first place of a word on.
MemRead ==
    /\ Has("memCmd")
    /\ LET cmd == Front("memCmd")
           At(k) == mem[cmd.addr + k - 1]
           words == [i \in DOMAIN Burst(1, cmd.len) |->
                        [Burst(1, cmd.len)[i] EXCEPT !.data =
                            [j \in 1 .. WORD |-> IF @[j] = Junk THEN Junk ELSE At(@[j])]]]
       IN  Transfer({"memCmd"}, All("memData", words))
    /\ UNCHANGED memoryVars

Memory == MemCommand \/ MemWrite \/ ReadFirst \/ ReadSecond \/ MemRead

\* The words that reach the data mover are those of its command: as many bytes,
\* and the last word where the command ends.
AccessExact ==
    mover # Idle /\ Has("writeData") =>
        LET word == Front("writeData")
            left == mover.len - mover.done
        IN  /\ word.keep \in 1 .. left
            /\ word.last <=> word.keep = left
=============================================================================
