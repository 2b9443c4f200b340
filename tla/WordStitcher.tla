---------------------------- MODULE WordStitcher ----------------------------
(***************************************************************************)
(* tcpPkgStitcher (tx_engine.cpp) behind the header of a segment: its      *)
(* payload from one access of the memory, or from two.                     *)
(***************************************************************************)
EXTENDS Words

VARIABLE r      \* tps_state, the access flag if it has been read, currWord, shiftBuffer

Unread == 2

InitStitcher ==
    r = [state |-> "data", flag |-> Unread, word |-> AxiWord(Pad(<<>>), 0, FALSE), shift |-> 0]

\* A segment ends; the header of the next one lets its flag be read.
Ended == [r EXCEPT !.state = "data", !.flag = Unread]

\* State 2: the words of the first access, or of a second that needs no move.
StitchData ==
    /\ r.state = "data" /\ Has("memData") /\ Room("out")
    /\ r.flag = Unread => Has("accessFlag")
    /\ LET flag == IF r.flag = Unread THEN Front("accessFlag") ELSE r.flag
           word == Front("memData")
           kept == [word EXCEPT !.last = @ /\ flag = 0]
           join == word.last /\ flag = 1
       IN  /\ Transfer({"memData"} \cup (IF r.flag = Unread THEN {"accessFlag"} ELSE {}),
                       IF join /\ word.keep < WORD THEN Silent ELSE To("out", kept))
           /\ r' = IF join THEN [r EXCEPT !.flag = 0, !.word = kept, !.shift = word.keep,
                                          !.state = IF word.keep < WORD THEN "join" ELSE @]
                   ELSE IF word.last THEN [Ended EXCEPT !.word = word]
                   ELSE [r EXCEPT !.flag = flag, !.word = word]

\* Mutant of Within: compared with the places that are taken.
WithinTaken(n) == n < r.shift

\* Whether n bytes go into the places behind the first access, with one left.
Within(n) == n < WORD - r.shift

\* States 3 and 4: the bytes that are left, and the start of the next word.
StitchMerged ==
    /\ r.state \in {"join", "merged"} /\ Has("memData")
    /\ LET word == Front("memData")
           low  == IF r.state = "join" THEN First(r.word.data, r.shift)
                   ELSE Rest(r.word.data, WORD - r.shift)
           done == Within(word.keep)
       IN  /\ Transfer({"memData"}, To("out", AxiWord(Join(low, word.data),
                           IF done THEN word.keep + r.shift ELSE WORD, done)))
           /\ r' = IF done THEN [Ended EXCEPT !.word = word]
                   ELSE [r EXCEPT !.word = word, !.state = IF word.last THEN "residue" ELSE "merged"]

\* State 5: what is left of the last word.  lenToKeep says nothing of no bytes;
\* any number may come of it.
StitchResidue ==
    /\ r.state = "residue"
    /\ LET over == (r.word.keep - (WORD - r.shift)) % (2 * WORD)
       IN  \E keep \in IF over = 0 THEN 0 .. WORD ELSE {over} :
               Transfer({}, To("out", AxiWord(Pad(Rest(r.word.data, WORD - r.shift)), keep, TRUE)))
    /\ r' = Ended

Stitcher == StitchData \/ StitchMerged \/ StitchResidue
=============================================================================
