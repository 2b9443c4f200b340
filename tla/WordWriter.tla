----------------------------- MODULE WordWriter -----------------------------
(***************************************************************************)
(* tasi_pkg_pusher (tx_app_stream_if.cpp) writes what the application      *)
(* sends into the buffer of the session.  An access that runs over the end *)
(* of the buffer becomes two, and the data of the second is moved within   *)
(* its words.  rxEngMemWrite (rx_engine.cpp) does the same for what is     *)
(* received, of which nothing is dropped here.                             *)
(***************************************************************************)
EXTENDS BufferSpace

VARIABLE w      \* the static variables of the function

(***************************************************************************)
(* tasiPkgPushState; the address and the bytes of the second access        *)
(* (txAppTempCmd); txAppBreakTemp; accessResidue; lengthBuffer;            *)
(* txAppBreakdown; pushWord; whether the burst is dropped.                 *)
(***************************************************************************)
InitWriter ==
    w = [state |-> "command", addr |-> 0, bbt |-> 0, left |-> 0, residue |-> 0,
         taken |-> 0, broken |-> FALSE, word |-> AxiWord(Pad(<<>>), 0, FALSE), drop |-> FALSE]

\* rxEngMemWrite tells rxAppNotificationDelayer how many accesses there are.
DoubleAccess(over) ==
    IF "doubleAccess" \in Names THEN To("doubleAccess", over) ELSE Silent

\* State 0: the command for the burst, or for as much of it as fits.
WriteCommand ==
    /\ w.state = "command" /\ Has("push") /\ Room("writeCmd")
    /\ LET push == Front("push")
           over == push.addr + push.len > SPACE
           len  == IF over THEN SPACE - push.addr ELSE push.len
       IN  IF push.drop
           THEN /\ Transfer({"push"}, Silent)
                /\ w' = [w EXCEPT !.state = "first", !.drop = TRUE]
           ELSE /\ Transfer({"push"}, Both(To("writeCmd", Access(push.addr, len)), DoubleAccess(over)))
                /\ w' = [w EXCEPT !.state = "first", !.drop = FALSE, !.addr = push.addr,
                                  !.bbt = IF over THEN push.len - len ELSE push.len,
                                  !.left = len, !.broken = @ \/ over]

\* Mutant of Cut: the word that is cut keeps what belongs to the second access.
CutNot(word) == [word EXCEPT !.last = TRUE]

\* The last word of the first access of two.
Cut(word) ==
    AxiWord(word.data, IF w.addr % WORD # 0 THEN w.left ELSE word.keep, TRUE)

\* State 1: the words of the first access.
WriteFirst ==
    /\ w.state = "first" /\ Has("data") /\ Room("writeData")
    /\ LET word == Front("data")
           ends == w.left <= WORD
       IN  IF w.drop
           THEN /\ Transfer({"data"}, Silent)
                /\ w' = [w EXCEPT !.word = word, !.state = IF word.last THEN "command" ELSE @]
           ELSE /\ Transfer({"data"}, To("writeData", IF ends /\ w.broken THEN Cut(word) ELSE word))
                /\ w' = IF ~ends THEN [w EXCEPT !.word = word, !.left = @ - WORD]
                        ELSE IF ~w.broken THEN [w EXCEPT !.word = word, !.state = "command"]
                        ELSE [w EXCEPT !.word = word, !.state = "second",
                                       !.residue = (word.keep - w.left) % WORD,
                                       !.taken = w.left]

\* State 2: the command for the second access, which starts at the first byte.
WriteSecond ==
    /\ w.state = "second"
    /\ Transfer({}, To("writeCmd", Access(0, w.bbt)))
    /\ w' = [w EXCEPT !.state = IF w.addr % WORD = 0 THEN "aligned"
                                ELSE IF w.bbt - w.residue > 0 THEN "realign"
                                ELSE "residue",
                      !.addr = 0, !.left = w.bbt, !.broken = FALSE]

\* State 3: the words as they come.
WriteAligned ==
    /\ w.state = "aligned" /\ Has("data")
    /\ LET word == Front("data")
       IN  /\ Transfer({"data"}, To("writeData", word))
           /\ w' = [w EXCEPT !.word = word, !.state = IF word.last THEN "command" ELSE @]

\* State 4: what is left of the word before, and the start of the next.
WriteRealigned ==
    /\ w.state = "realign" /\ Has("data")
    /\ LET word == Front("data")
           data == Join(Rest(w.word.data, w.taken), word.data)
           more == w.left - w.residue > w.taken
           done == word.last /\ ~more
       IN  /\ Transfer({"data"}, To("writeData", AxiWord(data, IF done THEN w.left ELSE WORD, done)))
           /\ w' = [w EXCEPT !.word = word,
                             !.left = IF done THEN @ ELSE @ - WORD,
                             !.state = IF done THEN "command"
                                       ELSE IF word.last THEN "residue" ELSE @]

\* State 5: what is left of the last word.
WriteResidue ==
    /\ w.state = "residue"
    /\ Transfer({}, To("writeData", AxiWord(Pad(Rest(w.word.data, w.taken)), w.left, TRUE)))
    /\ w' = [w EXCEPT !.state = "command"]

Writer ==
    WriteCommand \/ WriteFirst \/ WriteSecond \/ WriteAligned \/ WriteRealigned \/ WriteResidue
=============================================================================
