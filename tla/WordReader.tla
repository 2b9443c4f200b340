----------------------------- MODULE WordReader -----------------------------
(***************************************************************************)
(* rxAppMemDataRead (toe.cpp) gives the application one burst for each     *)
(* read, also if the memory was accessed twice for it.                     *)
(***************************************************************************)
EXTENDS Words

VARIABLE r      \* rxAppState, the flag, rxAppMemRdRxWord, offset and rxAppOffsetBuffer

InitReader ==
    r = [state |-> "idle", flag |-> 0, word |-> AxiWord(Pad(<<>>), 0, FALSE),
         offset |-> 0, over |-> 0]

\* RXAPP_IDLE and RXAPP_STREAM: the words of the first access.
ReadStream ==
    /\ r.state \in {"idle", "stream"}
    /\ Has("memData") /\ Room("out")
    /\ r.state = "idle" => Has("accessFlag")
    /\ LET flag == IF r.state = "idle" THEN Front("accessFlag") ELSE r.flag
           word == Front("memData")
           join == word.last /\ flag = 1
           kept == [word EXCEPT !.last = @ /\ flag = 0]
       IN  /\ Transfer({"memData"} \cup (IF r.state = "idle" THEN {"accessFlag"} ELSE {}),
                       IF join /\ word.keep < WORD THEN Silent ELSE To("out", kept))
           /\ r' = [r EXCEPT !.flag = flag, !.word = kept, !.offset = word.keep,
                             !.state = IF ~word.last THEN "stream"
                                       ELSE IF ~join THEN "idle"
                                       ELSE IF word.keep = WORD THEN "unmerged" ELSE "join"]

\* RXAPP_STREAMUNMERGED: the words of the second access as they come.
ReadUnmerged ==
    /\ r.state = "unmerged" /\ Has("memData")
    /\ Transfer({"memData"}, To("out", Front("memData")))
    /\ r' = [r EXCEPT !.state = IF Front("memData").last THEN "idle" ELSE @]

\* Mutant of Fits: the word that is filled exactly is left for another word.
FitsNot(n) == n < WORD

\* Whether the n bytes of the last words go into one.
Fits(n) == n <= WORD

\* RXAPP_JOIN and RXAPP_STREAMMERGED: the bytes that are left, and the start of
\* the next word.
ReadMerged ==
    /\ r.state \in {"join", "merged"} /\ Has("memData")
    /\ LET word == Front("memData")
           low  == IF r.state = "join" THEN First(r.word.data, r.offset)
                   ELSE Rest(r.word.data, WORD - r.offset)
           done == word.last /\ Fits(word.keep + r.offset)
       IN  /\ Transfer({"memData"}, To("out", AxiWord(Join(low, word.data),
                           IF done THEN word.keep + r.offset ELSE WORD, done)))
           /\ r' = [r EXCEPT !.word = word, !.over = (word.keep - (WORD - r.offset)) % 256,
                             !.state = IF done THEN "idle"
                                       ELSE IF word.last THEN "residue" ELSE "merged"]

\* RXAPP_RESIDUE: what is left of the last word.
ReadResidue ==
    /\ r.state = "residue"
    /\ Transfer({}, To("out", AxiWord(Pad(Rest(r.word.data, WORD - r.offset)), r.over, TRUE)))
    /\ r' = [r EXCEPT !.state = "idle"]

Reader == ReadStream \/ ReadUnmerged \/ ReadMerged \/ ReadResidue
=============================================================================
