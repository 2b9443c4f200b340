-------------------------------- MODULE Words --------------------------------
(***************************************************************************)
(* The words (axiWord) in which data crosses the streams: WORD bytes, how  *)
(* many of them count (keep), and whether a burst ends (last).  A byte is  *)
(* its number in what is sent; 0 is whatever happens to be there.          *)
(***************************************************************************)
EXTENDS Streams

LOCAL Seqs == INSTANCE SequencesExt

CONSTANT WORD       \* bytes in a word: 8 in the code

ASSUME WordsAssumption == WORD \in Nat \ {0}

Junk == 0

AxiWord(data, keep, last) == [data |-> data, keep |-> keep, last |-> last]

\* The first n bytes of a word, and the ones behind them.
First(data, n) == SubSeq(data, 1, n)
Rest(data, n)  == SubSeq(data, n + 1, WORD)

Pad(bytes) == [i \in 1 .. WORD |-> IF i <= Len(bytes) THEN bytes[i] ELSE Junk]

\* The bytes low, and behind them as much of the word data as there is place for.
Join(low, data) == low \o First(data, WORD - Len(low))

Valid(word) == First(word.data, word.keep)
Flat(seqs) == Seqs!FlattenSeq(seqs)

Bytes(words) == Flat([i \in DOMAIN words |-> Valid(words[i])])

\* A burst of the numbers from .. from + len - 1.
Burst(from, len) ==
    LET count == (len + WORD - 1) \div WORD
        Part(i) == [j \in 1 .. IF i = count THEN len - ((i - 1) * WORD) ELSE WORD
                        |-> from + ((i - 1) * WORD) + j - 1]
    IN  [i \in 1 .. count |-> AxiWord(Pad(Part(i)), Len(Part(i)), i = count)]

\* Bursts that differ at most in the places that do not count.
Same(words, burst) ==
    /\ Len(words) = Len(burst)
    /\ \A i \in DOMAIN words :
          /\ words[i].keep = burst[i].keep /\ words[i].last = burst[i].last
          /\ Valid(words[i]) = Valid(burst[i])

\* Only the last word of a burst says so, and only it may have places left.
WellFormed(words) ==
    \A i \in DOMAIN words :
        /\ words[i].last <=> i = Len(words)
        /\ words[i].keep \in 1 .. WORD
        /\ words[i].last \/ words[i].keep = WORD
=============================================================================
